------------------------------ MODULE HlsFeed ------------------------------
(***************************************************************************)
(* Following one HLS stream of a Swarm feed (stream_hls/runtime.rs): a     *)
(* publisher writes updates 0, 1, ... of which each holds the newest       *)
(* Window segments, one more than the one before; the viewer finds the     *)
(* frontier, installs what it found, reads the history behind it, follows  *)
(* what is added and stops at a confirmed end.                             *)
(*                                                                         *)
(* Two tasks search for the frontier and write to the session: the one     *)
(* that opens the stream or, from the beginning, completes its history     *)
(* ("open"), and the follower when it finds nothing ("follow").            *)
(* Segments are numbered and no two have one payload; an update that is    *)
(* stored is found unless the probe fails.  Timelines (dated windows),     *)
(* masters, bodies and renditions that are not playing are left out.       *)
(***************************************************************************)
EXTENDS Integers, FiniteSetsExt

CONSTANTS
    Updates,       \* how many the publisher writes
    Window,        \* segments of one update
    Stride,        \* HISTORY_STRIDE
    Guards,        \* 2 * HISTORY_STRIDE
    FollowAhead,   \* FEED_FOLLOW_AHEAD
    BeginWidth,    \* BEGINNING_DISCOVERY_WIDTH
    Fates,         \* [lost, closing]: updates never stored, updates with an end tag
    MaxTransients, MaxSwitches  \* bounds

Index == 0..(Updates - 1)
Searcher == {"open", "follow"}

ASSUME HlsAssumption ==
    /\ {Updates, Window, Stride, Guards, FollowAhead, BeginWidth} \subseteq Nat \ {0}
    /\ Stride <= Window
    /\ \A fate \in Fates : fate.lost \subseteq Index /\ fate.closing \subseteq Index

VARIABLES
    start,      \* HlsStart
    fate, stored,
    session,    \* FeedSession: its playlist is the set of its segments
    active,     \* FeedSessions.active is this session
    search,     \* the searches for the frontier
    follower,   \* the loop of spawn_follower
    bounds,
    early       \* the stream was taken for finished in spite of a stored update (history)

vars == <<start, fate, stored, session, active, search, follower, bounds, early>>

Segments(i) == (IF i + 1 < Window THEN 0 ELSE i + 1 - Window)..i
First(segments) == Min(segments)

NoSession == [open |-> FALSE, index |-> -1, segments |-> {}, finalized |-> FALSE, ready |-> FALSE]
NoSearch == [pc |-> "idle", index |-> 0, settled |-> {}, failed |-> {}, residue |-> 0,
             head |-> 0, seen |-> {}]
NoFollower == [pc |-> "off", head |-> 0, offset |-> 0, skipped |-> FALSE, progress |-> "none",
               due |-> FALSE]

TypeOK ==
    /\ stored \subseteq Index
    /\ session.index \in -1..(Updates - 1) /\ session.segments \subseteq Index
    /\ \A t \in Searcher : search[t].pc \in {"idle", "edge", "confirm", "history"}
    /\ follower.pc \in {"off", "head", "probe", "recover"}

Init ==
    /\ start \in {"live", "beginning"} /\ fate \in Fates
    /\ stored = {}
    /\ session = [NoSession EXCEPT !.open = TRUE] /\ active = TRUE
    /\ search = [t \in Searcher |-> IF t = "open" THEN [NoSearch EXCEPT !.pc = "edge"] ELSE NoSearch]
    /\ follower = NoFollower
    /\ bounds = [transients |-> 0, switches |-> 0]
    /\ early = FALSE

\* A probe, or a read of what it found, fails.
Fault == bounds.transients < MaxTransients /\ bounds' = [bounds EXCEPT !.transients = @ + 1]
Found(i) == i \in stored

\* Updates are written in order and spread on their own: one may be late.
Publish ==
    /\ \E i \in Index \ (stored \cup fate.lost) :
          /\ Cardinality({x \in 0..(i - 1) : x \notin stored \cup fate.lost}) <= 1
          /\ stored' = stored \cup {i}
    /\ UNCHANGED <<start, fate, session, active, search, follower, bounds, early>>

-----------------------------------------------------------------------------
\* Writing to the session.

joins_Always(segments, first, last) == last >= Max(segments)  \* mutant: across a hole
joins(segments, first, last) == first <= Max(segments) + 1 /\ Max(segments) <= last

\* apply_update: newer updates only; an end tag waits for a confirmed frontier.
Applies(i) ==
    /\ session.open /\ i > session.index /\ session.segments # {}
    /\ joins(session.segments, First(Segments(i)), i)
Apply(i) ==
    session' = [session EXCEPT !.segments = @ \cup Segments(i), !.index = i, !.finalized = FALSE]

\* spawn_follower
Spawned(f) == IF active /\ f.pc = "off" THEN [NoFollower EXCEPT !.pc = "head"] ELSE f

\* apply_confirmed_snapshot of the segments of update i, or of its history.
AppliesConfirmed(i, segments) ==
    /\ session.open /\ i >= session.index
    /\ session.segments # {} => joins(session.segments, First(segments), i)
ApplyConfirmed(t, i, segments) ==
    LET final == i \in fate.closing \/ (session.index = i /\ session.finalized)
    IN  /\ session' = [session EXCEPT !.segments = @ \cup segments, !.index = i, !.finalized = final]
        /\ early' = (early \/ (final /\ ~session.finalized
                               /\ \E x \in search[t].seen : x \in (i + 1)..(i + Guards)))

-----------------------------------------------------------------------------
\* Searching the frontier: discover_latest_once.

\* The search ended without a result: who opens tries again for as long as
\* the view lasts, the others give up.
Unsuccessful(t) ==
    /\ search' = [search EXCEPT ![t] =
           IF t = "open" /\ session.open THEN [NoSearch EXCEPT !.pc = "edge"] ELSE NoSearch]
    /\ follower' = IF t = "follow" THEN [follower EXCEPT !.pc = "head"] ELSE follower

\* discover_edge_update: waves of probes end with some stored update.
Edge(t) ==
    /\ search[t].pc = "edge" /\ (t = "open" => start = "live" \/ session.ready)
    /\ \/ \E i \in stored :
             /\ search' = [search EXCEPT ![t] =
                    [@ EXCEPT !.pc = "confirm", !.index = i, !.settled = {}, !.failed = {},
                              !.residue = i % Stride, !.seen = {x \in stored : x > i}]]
             /\ UNCHANGED <<follower, bounds>>
       \/ stored # {} /\ Fault /\ Unsuccessful(t)
    /\ UNCHANGED <<start, fate, stored, session, active, early>>

Outstanding(t) ==
    ((search[t].index + 1)..(search[t].index + Guards)) \ search[t].settled

\* confirm_hls_feed_head: Guards probes behind the head, in any order; a
\* found one becomes the head, and more are issued.
Confirm(t) ==
    /\ search[t].pc = "confirm"
    /\ \E i \in Outstanding(t) :
          \/ /\ Found(i)
             /\ LET Above(set) == {x \in set : x > i}
                    now == search[t]
                IN  search' = [search EXCEPT ![t] =
                        [now EXCEPT !.index = i, !.settled = Above(now.settled),
                                    !.failed = Above(now.failed), !.seen = Above(now.seen)]]
             /\ UNCHANGED bounds
          \/ /\ ~Found(i)
             /\ search' = [search EXCEPT ![t].settled = @ \cup {i}]
             /\ UNCHANGED bounds
          \/ /\ Fault
             /\ search' = [search EXCEPT ![t].settled = @ \cup {i}, ![t].failed = @ \cup {i}]
    /\ UNCHANGED <<start, fate, stored, session, active, follower, early>>

\* Every index above the head settled; only missing guards prove it.
Proven_Anyway(t) == TRUE  \* mutant: failed guards count as missing
Proven(t) == search[t].failed = {}

Settled(t) == search[t].pc = "confirm" /\ Outstanding(t) = {}
Recovery(t) == t = "follow"
Opening(t) == t = "open" /\ start = "live"
Completing(t) == t = "open" /\ start = "beginning"

\* No proof, a frontier below the update the recovery began with, or a
\* payload that cannot be read.
Behind(t) == Recovery(t) /\ search[t].index < search[t].head
Unconfirmed(t) ==
    /\ Settled(t)
    /\ IF Proven(t) /\ ~Behind(t) THEN Fault ELSE UNCHANGED bounds
    /\ Unsuccessful(t)
    /\ UNCHANGED <<start, fate, stored, session, active, early>>

\* What follows a confirmed frontier: recover_feed_frontier applies its window
\* if it joins.  Opening live it is installed and followed at once, before
\* its history is read (initialize_live_head).
InstallWindow(t) ==
    LET i == search[t].index
    IN  /\ Settled(t) /\ Proven(t) /\ ~Completing(t) /\ ~Behind(t)
        /\ AppliesConfirmed(i, Segments(i))
        /\ ApplyConfirmed(t, i, Segments(i))
        /\ IF Opening(t)
           THEN /\ search' = [search EXCEPT ![t].pc = "history", ![t].head = i]
                /\ follower' = Spawned(follower)
           ELSE Unsuccessful(t)
        /\ UNCHANGED <<start, fate, stored, active, bounds>>

\* The history is read where the window does not join, and before anything
\* is applied to a stream played from the beginning.
ReadHistory(t) ==
    LET i == search[t].index
    IN  /\ Settled(t) /\ Proven(t) /\ ~Opening(t) /\ ~Behind(t)
        /\ Recovery(t) => ~AppliesConfirmed(i, Segments(i))
        /\ search' = [search EXCEPT ![t].pc = "history", ![t].head = i]
        /\ UNCHANGED <<start, fate, stored, session, active, follower, bounds, early>>

NeedsHistory(t) == First(Segments(search[t].head)) # 0

\* history_snapshots and history_repairs: the lattice of the update found
\* first, then every update between two that do not join.
Lattice(t) == {i \in 0..(search[t].head - 1) : i % Stride = search[t].residue}
Joined(indices, head) ==
    LET used == indices \cup {head}
    IN  /\ First(Segments(Min(used))) = 0
        /\ \A i \in used \ {head} : joins(Segments(i), First(Segments(Min({x \in used : x > i}))), head)
Repairs(t, got) ==
    LET used == got \cup {search[t].head}
        Below(i) == {x \in used : x < i}
    IN  {i \in (0..(search[t].head - 1)) \ Lattice(t) :
            \/ Below(i) = {} /\ First(Segments(Min(used))) # 0
            \/ Below(i) # {} /\ First(Segments(Min({x \in used : x > i}))) > Max(Below(i)) + 1}

\* hls_history: from the first segment on, or nothing.
History(t) ==
    LET head == search[t].head
        Whole(failed) ==
            LET got == {i \in Lattice(t) : Found(i)} \ failed
                repaired == {i \in Repairs(t, got) : Found(i)} \ failed
            IN  Lattice(t) # {} /\ Joined(got \cup repaired, head)
        \* prepare_hls_feed: install_snapshot puts the history before the followed tail
        Opened ==
            /\ session' = [session EXCEPT !.segments = @ \cup (0..head), !.ready = TRUE]
            /\ search' = [search EXCEPT ![t] = NoSearch]
            /\ UNCHANGED <<follower, early>>
        Complete ==
            IF t = "open" /\ start = "live" THEN Opened
            ELSE /\ IF AppliesConfirmed(head, 0..head) THEN ApplyConfirmed(t, head, 0..head)
                    ELSE UNCHANGED <<session, early>>
                 /\ search' = [search EXCEPT ![t] = NoSearch]
                 /\ follower' = IF t = "follow" THEN [follower EXCEPT !.pc = "head"] ELSE follower
        Incomplete ==
            IF t = "open" /\ start = "live"
            THEN \* the stream cannot be opened
                 /\ session' = NoSession /\ search' = [search EXCEPT ![t] = NoSearch]
                 /\ UNCHANGED <<follower, early>>
            ELSE Unsuccessful(t) /\ UNCHANGED <<session, early>>
    IN  /\ search[t].pc = "history"
        /\ IF ~session.open
           THEN /\ search' = [search EXCEPT ![t] = NoSearch]
                /\ follower' = IF t = "follow" THEN [follower EXCEPT !.pc = "head"] ELSE follower
                /\ UNCHANGED <<session, bounds, early>>
           ELSE \/ /\ IF ~NeedsHistory(t) \/ Whole({}) THEN Complete ELSE Incomplete
                   /\ UNCHANGED bounds
                \/ /\ NeedsHistory(t) /\ Fault
                   /\ \E i \in stored : IF Whole({i}) THEN Complete ELSE Incomplete
        /\ UNCHANGED <<start, fate, stored, active>>

\* From the beginning: discover_beginning takes any of the first updates that
\* holds the first segment; what follows is read by start_beginning_history.
Begin ==
    /\ start = "beginning" /\ ~session.ready /\ session.open
    /\ \E i \in stored :
          /\ i < BeginWidth /\ First(Segments(i)) = 0
          /\ session' = [session EXCEPT !.segments = Segments(i), !.index = i, !.ready = TRUE]
    /\ follower' = Spawned(follower)
    /\ UNCHANGED <<start, fate, stored, active, search, bounds, early>>

-----------------------------------------------------------------------------
\* spawn_follower's loop.

Followed == session.open /\ session.segments # {} /\ ~session.finalized

Look ==
    /\ follower.pc = "head"
    /\ follower' = IF ~active \/ ~Followed THEN NoFollower
                   ELSE [follower EXCEPT !.pc = "probe", !.head = session.index, !.offset = 1,
                                         !.skipped = FALSE, !.progress = "none"]
    /\ UNCHANGED <<start, fate, stored, session, active, search, bounds, early>>

\* The next of the updates ahead: one may be missing.
Probe ==
    LET i == follower.head + follower.offset
        over == [follower EXCEPT !.offset = FollowAhead + 1]
    IN  /\ follower.pc = "probe" /\ follower.offset <= FollowAhead
        /\ IF ~active \/ ~session.open
           THEN follower' = NoFollower /\ UNCHANGED <<session, bounds>>
           ELSE \/ /\ Found(i)
                   /\ IF Applies(i)
                      THEN /\ Apply(i)
                           /\ follower' = IF i \in fate.closing
                                THEN [over EXCEPT !.progress = "closing"]
                                ELSE [follower EXCEPT !.offset = @ + 1, !.progress = "open"]
                      ELSE follower' = over /\ UNCHANGED session
                   /\ UNCHANGED bounds
                \/ /\ IF Found(i) THEN Fault ELSE UNCHANGED bounds
                   /\ follower' = IF follower.skipped THEN over
                                  ELSE [follower EXCEPT !.offset = @ + 1, !.skipped = TRUE]
                   /\ UNCHANGED session
        /\ UNCHANGED <<start, fate, stored, active, search, early>>

\* After progress it looks again, after a closing update once the frontier is
\* confirmed; without progress it sleeps, and searches the frontier when the
\* last search is FEED_FRONTIER_REFRESH_INTERVAL old.
Poll_NoRecovery ==  \* mutant: only a closing update leads to a search
    /\ follower.pc = "probe" /\ follower.offset > FollowAhead
    /\ IF follower.progress = "closing" /\ Followed
       THEN /\ follower' = [follower EXCEPT !.pc = "recover"]
            /\ search' = [search EXCEPT !["follow"] =
                   [NoSearch EXCEPT !.pc = "edge", !.head = session.index]]
       ELSE /\ follower' = [follower EXCEPT !.pc = "head"]
            /\ UNCHANGED search
    /\ UNCHANGED <<start, fate, stored, session, active, bounds, early>>
Poll ==
    LET recover == follower.progress = "closing" \/ (follower.progress = "none" /\ follower.due)
    IN  /\ follower.pc = "probe" /\ follower.offset > FollowAhead
        /\ IF follower.progress = "none" /\ (~active \/ ~session.open)
           THEN follower' = NoFollower /\ UNCHANGED search
           ELSE IF recover /\ Followed
                THEN /\ follower' = [follower EXCEPT !.pc = "recover", !.due = FALSE]
                     /\ search' = [search EXCEPT !["follow"] =
                            [NoSearch EXCEPT !.pc = "edge", !.head = session.index]]
                ELSE /\ follower' = [follower EXCEPT !.pc = "head",
                                                     !.due = follower.progress = "none"]
                     /\ UNCHANGED search
        /\ UNCHANGED <<start, fate, stored, session, active, bounds, early>>

-----------------------------------------------------------------------------
\* The viewer.

\* prefetch_from_reference: a segment of this or of another rendition is played.
Switch ==
    /\ session.ready /\ bounds.switches < MaxSwitches
    /\ bounds' = [bounds EXCEPT !.switches = @ + 1]
    /\ active' = ~active
    /\ UNCHANGED <<start, fate, stored, session, search, follower, early>>
Play ==
    /\ active /\ session.ready /\ follower.pc = "off"
    /\ Followed
    /\ follower' = Spawned(follower)
    /\ UNCHANGED <<start, fate, stored, session, active, search, bounds, early>>

-----------------------------------------------------------------------------
Search(t) ==
    \/ Edge(t) \/ Confirm(t) \/ History(t)
    \/ Unconfirmed(t) \/ InstallWindow(t) \/ ReadHistory(t)
Follow == Look \/ Probe \/ Poll

Next ==
    \/ Publish \/ Begin \/ Follow \/ Switch \/ Play
    \/ \E t \in Searcher : Search(t)

Spec == Init /\ [][Next]_vars

\* The publisher goes on and what it publishes spreads; tasks run on; the
\* player reads segments for as long as this rendition plays.
FairSpec ==
    /\ Spec
    /\ WF_vars(Publish) /\ WF_vars(Begin)
    /\ WF_vars(Follow) /\ WF_vars(Play)
    /\ \A t \in Searcher : WF_vars(Search(t))

-----------------------------------------------------------------------------
(* Properties. *)

\* What is presented is every segment from the first one to the newest of the
\* update the session is at: an update that was skipped, lost or overtaken by
\* another task leaves no hole.
NoHole == session.segments # {} => session.segments = First(session.segments)..session.index

\* A stream is taken for finished only at an update with an end tag, and only
\* when a search found nothing behind it: no stored update within reach of
\* the guards was there when the search began.
FinalIsTheFrontier ==
    /\ session.finalized => session.index \in fate.closing
    /\ ~early

\* The playing rendition reaches the newest update there is, and its end if
\* the publisher closed it, whatever was lost, failed or followed out of
\* turn; a stream closed and continued later may have been taken for finished.
Newest == Max(Index \ fate.lost)
CatchesUp ==
    <>[](\/ ~session.open \/ ~active \/ session.finalized
         \/ session.index = Newest /\ Newest \notin fate.closing)
=============================================================================
