----------------------------- MODULE HlsPlayer -----------------------------
(***************************************************************************)
(* One hls.js player of the page (stream_hls/player.rs): opening and codec *)
(* bootstrap, seeks that first have a dated playlist's history prepared,   *)
(* rendition changes that ask before they switch, the recovery of fatal    *)
(* errors and restarts with a new hls.js instance.                         *)
(*                                                                         *)
(* An event handler is one step: what it spawns without waiting runs       *)
(* before the next event.  The tasks that wait for the worker answer in    *)
(* any order.  hls.js and the media element are external: their events may *)
(* come whenever they make sense.  Playback time is a few positions and    *)
(* does not advance; the decoder's stall timer, autoplay, the play intent  *)
(* and native playback are left out.                                       *)
(***************************************************************************)
EXTENDS PlayerKept, FiniteSets

CONSTANTS
    MaxTasks,      \* bound on tasks that wait
    MaxActs        \* bound on seeks, choices, switches and errors

VARIABLE acts
vars == <<player, quality, hls, from, tasks, acts>>

TypeOK ==
    /\ player \in [ready : BOOLEAN, bootstrap : BOOLEAN, boot : BOOLEAN, live : BOOLEAN,
                   codec : {"none", "blind", "video"}, reload : Position \cup {Nowhere},
                   position : Position, restarts : 0..MaxHardRestarts,
                   recoveries : 0..MaxMediaRecoveries, initial : BOOLEAN,
                   data : BOOLEAN, failed : BOOLEAN, error : BOOLEAN,
                   pinned : BOOLEAN]
    /\ quality \in [shown : BOOLEAN, select : {AutoLevel} \cup Level, disabled : BOOLEAN,
                    flush : BOOLEAN]
    /\ hls \in [parsed : BOOLEAN, loading : {"stopped", "manifest", "media"},
                buffering : BOOLEAN, manual : {AutoLevel} \cup Level]
    /\ from \in Position /\ acts \in 0..MaxActs

Fresh == [parsed |-> FALSE, loading |-> "manifest", buffering |-> TRUE, manual |-> AutoLevel]

Init ==
    /\ \E live, bootstrap \in BOOLEAN :
          player = [ready |-> FALSE, bootstrap |-> bootstrap, boot |-> bootstrap,
                    live |-> live, codec |-> "none", reload |-> Nowhere,
                    position |-> LastPosition, restarts |-> 0, recoveries |-> 0,
                    initial |-> live, data |-> FALSE, failed |-> FALSE,
                    error |-> FALSE, pinned |-> FALSE]
    /\ quality = [shown |-> FALSE, select |-> AutoLevel, disabled |-> FALSE, flush |-> FALSE]
    /\ hls = Fresh
    /\ from \in {0, LastPosition}
    /\ tasks = {} /\ acts = 0

\* A handler maps a state s to a state, or to the set of states it may end in.
Ends(S) ==
    /\ ~player.failed
    /\ \E s \in S : player' = s.p /\ quality' = s.q /\ hls' = s.h /\ tasks' = s.tasks
Counts == acts < MaxActs /\ acts' = acts + 1

-----------------------------------------------------------------------------
(* Calls of hls.js; a call that throws ends in hard_restart.               *)

\* startLoad has an effect once a manifest is parsed; loadSource forgets levels.
start_load(s) == [s EXCEPT !.h.loading = IF s.h.parsed THEN "media" ELSE @]
stop_load(s) == [s EXCEPT !.h.loading = "stopped"]
load_source(s) == [s EXCEPT !.h.loading = "manifest", !.h.parsed = FALSE, !.h.manual = AutoLevel]

finish_quality_flush(s) ==
    IF s.q.flush THEN [s EXCEPT !.q.flush = FALSE, !.h.buffering = TRUE] ELSE s

\* QualityControl::cancel, and a history_request of its own: what waits is old.
Outdate(kind, ts) == {IF t.kind = kind THEN [t EXCEPT !.old = TRUE] ELSE t : t \in ts}
cancel(s) == [s EXCEPT !.tasks = Outdate("quality", @)]

Replaced(s, restarts) ==
    [s EXCEPT !.h = Fresh,
              !.p = [@ EXCEPT !.restarts = restarts, !.reload = Nowhere, !.ready = FALSE,
                              !.position = IF s.p.reload = Nowhere THEN s.p.position ELSE s.p.reload,
                              !.boot = s.p.bootstrap, !.recoveries = 0, !.data = FALSE,
                              !.pinned = FALSE, !.error = FALSE,
                              !.codec = IF s.p.codec = "none" THEN "none" ELSE "blind"]]

\* hard_restart tries again while an instance cannot be built or attached.
hard_restart(s) ==
    LET q == cancel(finish_quality_flush(s))
    IN  {Replaced(q, n) : n \in (s.p.restarts + 1)..MaxHardRestarts}
        \cup {[q EXCEPT !.p.restarts = MaxHardRestarts, !.p.failed = TRUE]}

\* The states after a call that may throw.
Try(before, after) == {after} \cup hard_restart(before)

-----------------------------------------------------------------------------
(* Buffering and the start of playback.                                    *)

\* begin_playback gives hls.js the rendition that is shown.
begin_playback_Unpinned(s) == s  \* mutant: it is left with the prepared one
begin_playback(s) == [s EXCEPT !.h.manual = IF s.q.shown THEN s.q.select ELSE AutoLevel]

\* The player starts when player_start_position says that enough is buffered.
finish_buffering(s) ==
    begin_playback([s EXCEPT !.q.disabled = FALSE,
                             !.p = [@ EXCEPT !.ready = TRUE, !.initial = FALSE, !.reload = Nowhere,
                                             !.pinned = FALSE]])
Buffered(s) == IF s.p.ready THEN {s} ELSE {s, finish_buffering(s)}

\* startLoad after a manifest pins the prepared rendition.
Start(s) ==
    {[start_load(s) EXCEPT !.h.manual = level, !.p.pinned = s.p.ready,
                           !.q.select = IF s.q.shown THEN @ ELSE level,
                           !.q.shown = TRUE] : level \in Level}

ManifestParsed ==
    /\ hls.loading = "manifest"
    /\ LET s == [state EXCEPT !.h.parsed = TRUE]
           at == IF s.p.reload = Nowhere THEN s ELSE [s EXCEPT !.p.position = s.p.reload, !.p.reload = Nowhere]
       IN  Ends(Start(at) \cup hard_restart(s))
    /\ UNCHANGED <<from, acts>>

BufferCreated ==
    /\ hls.loading = "media" /\ player.boot /\ player.codec = "blind"
    /\ Ends({[state EXCEPT !.p.codec = "video"]})
    /\ UNCHANGED <<from, acts>>

BufferAppended(main) ==
    LET s == [state EXCEPT !.p.data = TRUE]
    IN  /\ hls.loading = "media"
        /\ Ends(IF player.boot /\ main THEN Try(s, [s EXCEPT !.h.buffering = FALSE])
                ELSE Buffered(s))
        /\ UNCHANGED <<from, acts>>

\* The first main fragment ends the bootstrap: playback begins or loading
\* moves to its position.  With a codec recovery it must be the fragment that
\* recovery loaded first, with video.
\* (Mutant: buffering is not resumed.)
Bootstrapped_Paused(s) == {start_load([s EXCEPT !.p.boot = FALSE])}
Bootstrapped(s) ==
    LET b == [s EXCEPT !.p.boot = FALSE, !.h.buffering = TRUE]
    IN  {finish_buffering(b)} \cup Try(b, start_load(b))

FragBuffered(main) ==
    /\ hls.loading = "media"
    /\ IF ~player.boot
       THEN Ends(IF player.ready THEN {[state EXCEPT !.p.recoveries = 0]} ELSE Buffered(state))
       ELSE /\ main
            /\ Ends(IF player.codec = "none" THEN Bootstrapped(state)
                    ELSE {state} \cup (IF player.codec = "blind" THEN hard_restart(state)
                                                                ELSE Bootstrapped(state)))
    /\ UNCHANGED <<from, acts>>

\* durationchange, seeked and canplay: what is wanted may be buffered already.
CanPlay ==
    /\ player.data /\ ~player.ready /\ ~player.boot
    /\ Ends({finish_buffering(state)})
    /\ UNCHANGED <<from, acts>>

-----------------------------------------------------------------------------
(* Seeks.                                                                  *)

\* A position before the playlist, or a seek on top of one that waits, first
\* has history prepared; loading stops for it.
seek_hls(s0) ==
    LET s == finish_quality_flush(s0)
        position == s.p.position
        history == [cancel(s) EXCEPT
            !.p = [@ EXCEPT !.reload = position, !.ready = FALSE, !.error = FALSE],
            !.q.disabled = TRUE]
        task == [kind |-> "history", old |-> FALSE, hls |-> s.p.restarts, position |-> position]
    IN  IF from = 0 \/ (position >= from /\ s.p.reload = Nowhere)
        THEN Try(s, start_load(s))
        ELSE Try(history, [stop_load(history) EXCEPT !.tasks = Outdate("history", @) \cup {task}])

RoomForTask == Cardinality(tasks) < MaxTasks

\* The user moves to another position: the element's "seeking".
Seek(p, buffered) ==
    LET s == finish_quality_flush([state EXCEPT !.p.position = p, !.p.data = buffered])
        mustLoad == /\ ~player.boot
                    /\ \/ player.reload # Nowhere
                       \/ player.ready /\ ~buffered
                       \/ ~player.ready /\ player.live /\ player.initial /\ p # player.position
        at == IF player.ready THEN s ELSE [s EXCEPT !.p.reload = p]
    IN  /\ buffered => player.data
        /\ Counts /\ RoomForTask
        /\ Ends(IF mustLoad THEN seek_hls(at) ELSE {s})
        /\ UNCHANGED from

HistoryPrepared(t) ==
    LET s == [state EXCEPT !.tasks = @ \ {t}]
    IN  /\ AwaitsHistory(state, t)
        /\ from' = t.position
        /\ Ends(Try(s, load_source(s)))
        /\ UNCHANGED acts

\* The position is not to be had (416): the error is shown, a rendition may
\* be chosen.
HistoryRefused(t) ==
    /\ AwaitsHistory(state, t)
    /\ Ends({[state EXCEPT !.tasks = @ \ {t}, !.q.disabled = FALSE, !.p.error = TRUE]})
    /\ UNCHANGED <<from, acts>>

\* No answer: it is asked again after a second.
HistoryLost(t) ==
    /\ AwaitsHistory(state, t)
    /\ Ends({[state EXCEPT !.q.disabled = FALSE]})
    /\ UNCHANGED <<from, acts>>

-----------------------------------------------------------------------------
(* Renditions.                                                             *)

Releases(s, failure) == s.q.shown /\ s.q.select = AutoLevel /\ (failure \/ (s.p.ready /\ s.h.manual # AutoLevel))
\* An error, or a stall, frees a rendition that was only held for Auto.
release_auto_quality(s, failure) ==
    IF Releases(s, failure) THEN [cancel(s) EXCEPT !.h.manual = AutoLevel] ELSE s

\* select_quality until it waits for the rendition's playlist.  For Auto the
\* rendition loaded last is kept meanwhile.
select_quality(s0, level, automatic) ==
    LET s == cancel(finish_quality_flush(s0))
        task == [kind |-> "quality", old |-> FALSE, hls |-> s.p.restarts,
                 automatic |-> automatic, selected |-> s.q.select, level |-> level,
                 previous |-> s.h.manual]
        waits == [s EXCEPT !.tasks = @ \cup {task}]
        pinned == [s EXCEPT !.h.manual = level]
    IN  IF ~s.p.ready
        THEN IF s.p.reload # Nowhere THEN seek_hls([pinned EXCEPT !.p.position = s.p.reload])
             ELSE Try(pinned, start_load(pinned))
        ELSE IF level = AutoLevel THEN {pinned}
        ELSE IF automatic THEN {s} \cup {[waits EXCEPT !.h.manual = p] : p \in Level \ {level}}
        ELSE {waits}

\* The user chooses.
Choose(select) ==
    /\ quality.shown /\ ~quality.disabled /\ quality.select # select
    /\ Counts /\ RoomForTask
    /\ Ends(select_quality([state EXCEPT !.q.select = select], select, FALSE))
    /\ UNCHANGED from

\* hls.js switches by itself.
LevelSwitching(level) ==
    /\ quality.shown /\ player.ready /\ hls.manual = AutoLevel
    /\ Counts /\ RoomForTask
    /\ LET s == finish_quality_flush(state)
       IN  Ends(IF quality.disabled \/ quality.select # AutoLevel THEN {s}
                ELSE {s} \cup select_quality(state, level, TRUE))
    /\ UNCHANGED from

\* The rendition covers what plays and is switched to.  A chosen one flushes
\* what is buffered ahead, with buffering held until hls.js has done so.
QualityCovers(t) ==
    LET s == [state EXCEPT !.tasks = @ \ {t}]
        held == [s EXCEPT !.h.buffering = FALSE, !.q.flush = TRUE, !.h.manual = t.level]
    IN  /\ AwaitsQuality(state, t)
        /\ Ends(IF t.automatic THEN {[s EXCEPT !.h.manual = AutoLevel]}
                ELSE {[s EXCEPT !.h.manual = t.level]}
                     \cup (IF hls.buffering THEN {held} \cup hard_restart(s) ELSE {}))
        /\ UNCHANGED <<from, acts>>

QualityUncovered(t) ==
    /\ AwaitsQuality(state, t)
    /\ Ends({[state EXCEPT !.tasks = @ \ {t}, !.q.select = t.previous, !.h.manual = t.previous]})
    /\ UNCHANGED <<from, acts>>

\* hlsBufferFlushed, or the user pauses.
Flushed ==
    /\ quality.flush
    /\ Ends({finish_quality_flush(state)})
    /\ UNCHANGED <<from, acts>>

\* The element is "waiting".
Waiting ==
    /\ quality.flush \/ Releases(state, FALSE)
    /\ Ends({release_auto_quality(finish_quality_flush(state), FALSE)})
    /\ UNCHANGED <<from, acts>>

-----------------------------------------------------------------------------
(* Errors.                                                                 *)

fatal_recovery_action(s, type) ==
    IF type = "networkError" THEN Try(s, [start_load(s) EXCEPT !.p.error = ~s.h.parsed])
    ELSE IF type = "mediaError" /\ s.p.recoveries < MaxMediaRecoveries
    THEN LET r == [s EXCEPT !.p.recoveries = @ + 1] IN Try(r, start_load(r))
    ELSE hard_restart(s)

\* hls.js gives up a rendition it could not load before it reports the error.
GivenUp(s) == [s EXCEPT !.h.manual = AutoLevel, !.q.select = AutoLevel]
Resumed(s) == [s EXCEPT !.h.buffering = TRUE]
Reported(gaveUp) ==
    LET f == finish_quality_flush(state)
        s == IF gaveUp THEN GivenUp(f) ELSE f
        r == release_auto_quality(s, TRUE)
    IN  IF player.boot THEN Resumed(r) ELSE r

Error(gaveUp) ==
    /\ gaveUp => quality.shown
    /\ Counts
    /\ Ends({Reported(gaveUp)})
    /\ UNCHANGED from

\* A source buffer without video: the next instance loads a fragment that
\* tells the codec first.
MissingVideo ==
    /\ ~player.boot /\ player.codec = "none" /\ player.restarts < MaxHardRestarts
    /\ Counts
    /\ Ends(hard_restart([Reported(FALSE) EXCEPT !.p.codec = "blind", !.p.bootstrap = TRUE]))
    /\ UNCHANGED from

\* On a fatal error hls.js has stopped loading.
FatalError(type) ==
    LET s == stop_load(Reported(FALSE))
    IN  /\ type = "mediaError" => hls.parsed
        /\ Counts
        /\ Ends(IF player.reload # Nowhere THEN hard_restart(s) ELSE fatal_recovery_action(s, type))
        /\ UNCHANGED from

\* A fragment of a live playlist is not to be had: the worker may know that
\* it was abandoned.
TailError(type) ==
    LET s == stop_load(Reported(FALSE))
        task == [kind |-> "tail", old |-> FALSE, hls |-> player.restarts, type |-> type]
    IN  /\ player.live /\ player.reload = Nowhere /\ hls.loading = "media"
        /\ Counts /\ RoomForTask
        /\ Ends({[s EXCEPT !.tasks = @ \cup {task}]})
        /\ UNCHANGED from

\* It was: the player retreats before it, to a position nobody sought.
TailAbandoned(t, target) ==
    LET s == [state EXCEPT
            !.tasks = @ \ {t},
            !.p = [@ EXCEPT !.recoveries = 0, !.reload = target, !.initial = FALSE,
                            !.data = FALSE]]
    IN  /\ AwaitsTail(state, t)
        /\ \A u \in tasks : u.kind = "history" => u.position # target
        /\ Ends(Try(s, load_source(s)))
        /\ UNCHANGED <<from, acts>>

TailUnknown(t) ==
    /\ AwaitsTail(state, t)
    /\ Ends(fatal_recovery_action([state EXCEPT !.tasks = @ \ {t}], t.type))
    /\ UNCHANGED <<from, acts>>

\* What waited for an earlier choice, seek or instance ends.
Awaits(s, t) == AwaitsHistory(s, t) \/ AwaitsQuality(s, t) \/ AwaitsTail(s, t)
Drop(t) ==
    /\ ~Awaits(state, t)
    /\ Ends({[state EXCEPT !.tasks = @ \ {t}]})
    /\ UNCHANGED <<from, acts>>

-----------------------------------------------------------------------------
FatalType == {"networkError", "mediaError", "otherError"}

Events ==
    \/ ManifestParsed \/ BufferCreated \/ CanPlay \/ Flushed \/ Waiting \/ MissingVideo
    \/ \E main \in BOOLEAN : BufferAppended(main) \/ FragBuffered(main)
    \/ \E gaveUp \in BOOLEAN : Error(gaveUp)
    \/ \E type \in FatalType : FatalError(type) \/ TailError(type)
    \/ \E level \in Level : LevelSwitching(level)

User ==
    \/ \E p \in Position, buffered \in BOOLEAN : Seek(p, buffered)
    \/ \E select \in {AutoLevel} \cup Level : Choose(select)

Answers ==
    \E t \in tasks :
        \/ HistoryPrepared(t) \/ HistoryRefused(t) \/ HistoryLost(t)
        \/ QualityCovers(t) \/ QualityUncovered(t)
        \/ \E target \in Position : TailAbandoned(t, target)
        \/ TailUnknown(t)
        \/ Drop(t)

Next == Events \/ User \/ Answers

Spec == Init /\ [][Next]_vars
=============================================================================
