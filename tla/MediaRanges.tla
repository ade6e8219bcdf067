---------------------------- MODULE MediaRanges ----------------------------
(***************************************************************************)
(* Byte ranges of one media file for the browser's player (stream.rs):     *)
(* requests that follow or leave the current playback position, the        *)
(* windows they are read in, one load per window shared by everyone who    *)
(* wants it, prefetching ahead of the position, and the generations by     *)
(* which a seek outdates requests, loads, prefetching and retrieval.       *)
(*                                                                         *)
(* Everything runs in one thread and is interleaved where it waits.  Tasks *)
(* are the requests (Request) and the prefetchers (the others); a window   *)
(* is read by a producer task of its own.  Generations are numbers that    *)
(* wrap.  The limits on waiters and loads, and metadata, are left out.     *)
(***************************************************************************)
EXTENDS MediaKept, FiniteSetsExt

CONSTANTS
    Size,            \* bytes of the file
    WindowBytes,     \* MEDIA_STORAGE_WINDOW_BYTES
    StartupBytes,    \* MEDIA_STARTUP_RESPONSE_BYTES
    ActiveBytes,     \* STREAM_ACTIVE_RESPONSE_BUFFER_BYTES
    KeepAhead,       \* STREAM_SEEK_KEEP_AHEAD_BYTES
    SeekGap,         \* STREAM_SEEK_REQUEST_GAP_BYTES
    Stages,          \* media_prefetch_stage_targets: bytes ahead, growing
    MaxParallel,     \* MEDIA_PREFETCH_MAX_PARALLEL
    Starts, Stops,   \* where requests may begin, and the last byte they may ask for
    Requests,        \* requests under way at once
    Prefetchers,     \* prefetch tasks at once, those of old generations included
    Generations,     \* u64: one more than the last generation
    FirstGeneration, \* the generation of the first state
    MaxRequests, MaxGenerations, MaxFaults  \* bounds

Request == 1..Requests
Prefetcher == (Requests + 1)..(Requests + Prefetchers)
Task == Request \cup Prefetcher
Byte == 0..(Size - 1)
Window == 0..((Size - 1) \div WindowBytes)

\* What a configuration has to give.
MediaAssumption ==
    /\ {Size, WindowBytes, StartupBytes, ActiveBytes, MaxParallel, Generations} \subseteq Nat \ {0}
    /\ {Requests, Prefetchers, MaxGenerations} \subseteq Nat
    /\ Starts \cup Stops \subseteq Byte /\ Stages \subseteq Nat
    /\ FirstGeneration \in 1..(Generations - 1)
    /\ MaxGenerations < Generations \div 2  \* or the oldest would be the newest

VARIABLES
    sequence,  \* MEDIA_GENERATION_SEQUENCE
    cached,    \* completed windows in FETCH_CACHE.ranges
    asked, seeks, faults  \* requests, new generations; failed loads, timeouts and evictions

bounds == <<asked, seeks, faults>>
shared == <<media, sequence, cached, loaded>>
vars == <<shared, flights, producers, scope_latest, task, bounds, wronged>>

WindowOf(byte) == byte \div WindowBytes
WindowStart(w) == w * WindowBytes
WindowEnd(w) == Min({(w + 1) * WindowBytes, Size}) - 1
WindowsOf(start, end) == WindowOf(start)..WindowOf(end)

\* Serial numbers: half of them are newer than any given one.
next_nonzero_generation(current) == IF current + 1 = Generations THEN 1 ELSE current + 1
newer_ByValue(candidate, current) == candidate > current  \* mutant: the wrap is forgotten
generation_is_newer(candidate, current) ==
    candidate # current /\ (candidate - current) % Generations < Generations \div 2

NoMedia == [generation |-> 0, anchor |-> -1, high |-> -1, scheduled |-> -1,
            completed |-> {}, last |-> 0, prefetching |-> 0]
NoFlight == [generation |-> 0, id |-> 0]
Idle == [pc |-> "idle", generation |-> 0, start |-> 0, end |-> 0, want |-> {},
         on |-> [w \in Window |-> 0], ok |-> {}, bad |-> {}, timed |-> {},
         retried |-> {}, stage |-> 0]

TypeOK ==
    /\ media.generation \in 0..(Generations - 1) /\ media.high \in -1..(Size - 1)
    /\ cached \subseteq Window
    /\ \A p \in producers : p.window \in Window /\ p.id \in Nat \ {0}
    /\ \A t \in Task : task[t].pc \in {"idle", "read", "wait", "again", "batch"}

Init ==
    /\ media = NoMedia /\ sequence = FirstGeneration - 1
    /\ cached = {} /\ flights = [w \in Window |-> NoFlight] /\ producers = {}
    /\ scope_latest = 0 /\ task = [t \in Task |-> Idle]
    /\ asked = 0 /\ seeks = 0 /\ faults = 0
    /\ loaded = {} /\ wronged = FALSE

-----------------------------------------------------------------------------
\* MediaState.

\* Ranges that continue what is loaded from the anchor on raise the high water.
mark_complete_Gapless(m, start, end) ==  \* mutant: only what overlaps counts as continuing
    LET ranges == {c \in m.completed : c[1] # start} \cup {<<start, end>>}
        joined == {r \in ranges : r[1] <= m.high}
    IN  [m EXCEPT !.high = Max({@} \cup {r[2] : r \in joined}), !.completed = ranges \ joined]
mark_complete_Anywhere(m, start, end) ==  \* mutant: a gap is taken for loaded
    [m EXCEPT !.high = Max({@, end})]
mark_complete(m, start, end) ==
    LET ranges == {c \in m.completed : c[1] # start} \cup {<<start, end>>}
        \* the ranges popped, in ascending order: each begins within what those before it reach
        joined == {r \in ranges :
                    \A q \in {q \in ranges : q[1] <= r[1]} :
                        q[1] <= Max({m.high} \cup {x[2] : x \in {x \in ranges : x[1] < q[1]}}) + 1}
    IN  [m EXCEPT !.high = Max({@} \cup {r[2] : r \in joined}), !.completed = ranges \ joined]

mark_failure(m, start) == [m EXCEPT !.scheduled = Max({m.high, Min({@, start - 1})})]
mark_scheduled(m, end) == [m EXCEPT !.scheduled = Max({@, end})]

media_generation_current(generation) == media.generation = generation

\* with_current_media_state
IfCurrent(generation, updated) == IF media_generation_current(generation) THEN updated ELSE media
mark_media_range_complete(generation, start, end) ==
    IfCurrent(generation, mark_complete(media, start, end))
note_media_range_failure(generation, start) == IfCurrent(generation, mark_failure(media, start))

\* A new generation of the state: nothing is known to be loaded for it.
Renew(m) ==
    /\ seeks < MaxGenerations /\ seeks' = seeks + 1
    /\ sequence' = next_nonzero_generation(sequence)
    /\ media' = [m EXCEPT !.generation = sequence']
    /\ loaded' = {}

\* begin_media_range, response_range_for_request and mark_range_windows_scheduled.
Begin(r, start, stop) ==
    LET fresh == media.anchor = -1
        previous == Max({media.high, media.scheduled})
        seek ==
            \/ start + SeekGap < media.last
            \/ start + KeepAhead < media.anchor
            \/ start > previous + KeepAhead
        runaway == previous > start + StartupBytes + Max(Stages)
        moved == fresh \/ seek \/ runaway
        end == Min({start + (IF moved THEN StartupBytes ELSE ActiveBytes) - 1, stop})
        anchored == IF moved
                    THEN [media EXCEPT !.anchor = start, !.high = start - 1,
                                       !.scheduled = start - 1, !.last = start]
                    ELSE [media EXCEPT !.last = start]
        scheduled == mark_scheduled(anchored, WindowEnd(WindowOf(end)))
    IN  /\ start <= stop
        /\ task[r] = Idle /\ \A q \in 1..(r - 1) : task[q] # Idle  \* requests are alike
        /\ asked < MaxRequests /\ asked' = asked + 1
        /\ IF media.generation = 0 \/ (~fresh /\ (seek \/ runaway))
           THEN Renew([scheduled EXCEPT !.completed = {}])
           ELSE media' = scheduled /\ UNCHANGED <<sequence, seeks, loaded>>
        /\ task' = [task EXCEPT ![r] =
               [Idle EXCEPT !.pc = "read", !.generation = media'.generation,
                            !.start = start, !.end = end, !.want = WindowsOf(start, end)]]
        /\ UNCHANGED <<cached, flights, producers, scope_latest, faults, wronged>>

\* clear_completed_ranges: what is loading now will not be cached.
Clear ==
    /\ media.generation # 0
    /\ Renew([NoMedia EXCEPT !.last = media.last])
    /\ cached' = {}
    /\ producers' = {[p EXCEPT !.fresh = FALSE] : p \in producers}
    /\ UNCHANGED <<flights, scope_latest, task, asked, faults, wronged>>

\* trim_media_states: other files took the place of this one.
Trim ==
    /\ media.generation # 0 /\ media.prefetching = 0
    /\ media' = NoMedia /\ loaded' = {}
    /\ UNCHANGED <<sequence, cached, flights, producers, scope_latest, task, bounds, wronged>>

\* trim_ranges
Evict ==
    /\ faults < MaxFaults /\ faults' = faults + 1
    /\ \E w \in cached : cached' = cached \ {w}
    /\ UNCHANGED <<media, sequence, loaded, flights, producers, scope_latest, task, asked, seeks, wronged>>

-----------------------------------------------------------------------------
\* Reading windows.


\* range_load_role, with pending_generation_relation.
Role(w, generation) ==
    IF w \in cached THEN "cached"
    ELSE IF flights[w] = NoFlight THEN "lead"
    ELSE IF flights[w].generation = generation THEN "join"
    ELSE IF generation_is_newer(generation, flights[w].generation) THEN "replace" ELSE "reject"

NewId(w) == Min((1..(Cardinality(producers) + 1)) \ {p.id : p \in {q \in producers : q.window = w}})

\* A request reads its windows at once and takes up none behind a rejected
\* one; the loads of a prefetcher are independent.
Read(t) ==
    LET g == task[t].generation
        rejected == {w \in task[t].want : Role(w, g) = "reject"}
        admitted == {w \in task[t].want \ rejected :
                        t \in Request => \A x \in rejected : w < x}
        Taking(role) == {w \in admitted : Role(w, g) = role}
        new == Taking("lead") \cup Taking("replace")
        Outdated(u) == {w \in Taking("replace") : task[u].on[w] = flights[w].id}
    IN  /\ task[t].pc \in {"read", "batch"} /\ task[t].want # {}
        /\ flights' = [w \in Window |->
               IF w \in new THEN [generation |-> g, id |-> NewId(w)] ELSE flights[w]]
        /\ producers' = producers \cup
               {[window |-> w, generation |-> g, id |-> NewId(w), fresh |-> TRUE,
                 registered |-> FALSE] : w \in new}
        /\ task' = [u \in Task |->
               IF u = t
               THEN [task[t] EXCEPT
                        !.pc = IF t \in Request THEN "wait" ELSE "batch",
                        !.want = {}, !.ok = @ \cup Taking("cached"),
                        !.bad = (@ \ admitted) \cup rejected,
                        !.on = [w \in Window |->
                                  IF w \in new \cup Taking("join") THEN flights'[w].id ELSE @[w]]]
               ELSE [task[u] EXCEPT
                        !.bad = @ \cup Outdated(u),
                        !.on = [w \in Window |-> IF w \in Outdated(u) THEN 0 ELSE @[w]]]]
        /\ wronged' = (\/ wronged
                       \/ rejected # {} /\ g = media.generation
                       \/ \E u \in Task \ {t} :
                            Outdated(u) # {} /\ task[u].generation = media.generation)
        /\ UNCHANGED <<shared, scope_latest, bounds>>

\* The 15 seconds of a reader are over; the load goes on.
ReaderTimeout(t) ==
    /\ faults < MaxFaults /\ faults' = faults + 1
    /\ \E w \in Window :
          /\ task[t].on[w] # 0
          /\ task' = [task EXCEPT ![t].on[w] = 0, ![t].bad = @ \cup {w}, ![t].timed = @ \cup {w}]
    /\ UNCHANGED <<shared, flights, producers, scope_latest, asked, seeks, wronged>>

\* request_resolved_range: the load registers its generation, in any order.
register(generation) ==
    IF scope_latest = 0 \/ generation_is_newer(generation, scope_latest) THEN generation ELSE scope_latest

Register(p) ==
    /\ ~p.registered
    /\ scope_latest' = register(p.generation)
    /\ producers' = (producers \ {p}) \cup {[p EXCEPT !.registered = TRUE]}
    /\ UNCHANGED <<shared, flights, task, bounds, wronged>>

\* Who waits for this very load is told.
finish_range_waiters(p, success) ==
    [t \in Task |->
        IF task[t].on[p.window] # p.id THEN task[t]
        ELSE [task[t] EXCEPT
                !.on[p.window] = 0,
                !.ok = IF success THEN @ \cup {p.window} ELSE @,
                !.bad = IF success THEN @ ELSE @ \cup {p.window}]]

\* The load ends: cached if its generation is current, handed to whoever
\* waits for it.
Produce(p) ==
    /\ p.registered
    /\ \E success \in BOOLEAN :
          /\ IF ~success /\ scope_latest = p.generation
             THEN faults < MaxFaults /\ faults' = faults + 1
             ELSE UNCHANGED faults
          /\ cached' = IF success /\ p.fresh /\ media.generation = p.generation
                       THEN cached \cup {p.window} ELSE cached
          /\ IF flights[p.window].id # p.id THEN UNCHANGED <<flights, task>>
             ELSE /\ flights' = [flights EXCEPT ![p.window] = NoFlight]
                  /\ task' = finish_range_waiters(p, success)
    /\ producers' = producers \ {p}
    /\ UNCHANGED <<media, sequence, loaded, scope_latest, asked, seeks, wronged>>

-----------------------------------------------------------------------------
\* Requests.

\* The guards of a reader that goes are dropped.  Its loads are nobody's to
\* close: those of players have no admission of their own.
RangeWaiterGuards == [w \in Window |-> 0]

\* The first error ends the read; it is tried once more after a delay.  What
\* fails then is noted, unless only this reader ran out of time.
Fails(r) ==
    /\ task[r].pc = "wait" /\ task[r].bad # {}
    /\ IF task[r].retried = {}
       THEN /\ task' = [task EXCEPT ![r] =
                    [@ EXCEPT !.pc = "again", !.on = RangeWaiterGuards, !.ok = {},
                              !.bad = {}, !.timed = {}]]
            /\ UNCHANGED media
       ELSE /\ \E w \in task[r].bad :
                  media' = IF w \in task[r].timed THEN media
                           ELSE note_media_range_failure(task[r].generation, task[r].start)
            /\ task' = [task EXCEPT ![r] = Idle]
    /\ UNCHANGED <<sequence, cached, loaded, flights, producers, scope_latest, bounds, wronged>>

Again(r) ==
    /\ task[r].pc = "again"
    /\ LET windows == WindowsOf(task[r].start, task[r].end)
       IN  task' = [task EXCEPT ![r].pc = "read", ![r].want = windows, ![r].retried = windows]
    /\ UNCHANGED <<shared, flights, producers, scope_latest, bounds, wronged>>

\* spawn_prefetch_media_stages: one prefetcher for a generation at a time.
Spawns(generation) == media_generation_current(generation) /\ media.prefetching # generation

\* The whole range is there: it is answered, and prefetching begins behind it.
Succeeds(r) ==
    LET q == task[r]
        complete == mark_media_range_complete(q.generation, q.start, q.end)
    IN  /\ q.pc = "wait" /\ q.ok = WindowsOf(q.start, q.end)
        /\ loaded' = IF media_generation_current(q.generation)
                     THEN loaded \cup (q.start..q.end) ELSE loaded
        /\ IF Spawns(q.generation)
           THEN LET p == Min({t \in Prefetcher : task[t] = Idle})
                IN  /\ media' = [complete EXCEPT !.prefetching = q.generation]
                    /\ task' = [task EXCEPT ![r] = Idle, ![p] =
                          [Idle EXCEPT !.pc = "again", !.generation = q.generation,
                                       !.end = q.end, !.stage = 0]]
           ELSE /\ media' = complete
                /\ task' = [task EXCEPT ![r] = Idle]
        /\ UNCHANGED <<sequence, cached, flights, producers, scope_latest, bounds, wronged>>

-----------------------------------------------------------------------------
\* Prefetchers: `end` is the end of the response they follow, `again` the
\* head of the loop over the stages, `batch` a batch being read.

Target(p) == Min({task[p].end + task[p].stage, Size - 1})
high_water(p) == IF media.high < 0 THEN task[p].end ELSE media.high

Finish(p) ==
    /\ task' = [task EXCEPT ![p] = Idle]
    /\ media' = IF media.generation = task[p].generation
                   /\ media.prefetching = task[p].generation
                THEN [media EXCEPT !.prefetching = 0] ELSE media

\* prefetch_media_stages: the next stage, or the end.
NextStage(p) ==
    LET left == {s \in Stages : s > task[p].stage}
    IN  /\ task[p].pc = "again"
        /\ IF \/ ~media_generation_current(task[p].generation) \/ left = {}
              \/ Max({high_water(p), task[p].end}) >= Min({task[p].end + Max(Stages), Size - 1})
           THEN Finish(p)
           ELSE /\ task' = [task EXCEPT ![p].stage = Min(left), ![p].pc = "read"]
                /\ UNCHANGED media
        /\ UNCHANGED <<sequence, cached, loaded, flights, producers, scope_latest, bounds, wronged>>

\* The windows behind the high water, scheduled before they are read.
NextBatch(p) ==
    LET position == high_water(p) + 1
        first == WindowOf(position)
        batch == {w \in first..WindowOf(Target(p)) : w < first + MaxParallel}
        stop == ~media_generation_current(task[p].generation) \/ position > Target(p)
    IN  /\ task[p].pc = "read" /\ p \in Prefetcher /\ task[p].want = {}
        /\ IF stop
           THEN task' = [task EXCEPT ![p].pc = "again"] /\ UNCHANGED media
           ELSE /\ task' = [task EXCEPT ![p] = [@ EXCEPT !.pc = "batch", !.want = batch,
                                !.start = position, !.ok = {}, !.bad = {}, !.timed = {},
                                !.retried = {}]]
                /\ media' = mark_scheduled(media, WindowEnd(Max(batch)))
        /\ UNCHANGED <<sequence, cached, loaded, flights, producers, scope_latest, bounds, wronged>>

\* A window of the batch is tried once more.
RetryWindow(p) ==
    /\ task[p].pc = "batch" /\ p \in Prefetcher
    /\ \E w \in task[p].bad \ task[p].retried :
          task' = [task EXCEPT ![p].want = @ \cup {w}, ![p].bad = @ \ {w},
                               ![p].timed = @ \ {w}, ![p].retried = @ \cup {w}]
    /\ UNCHANGED <<shared, flights, producers, scope_latest, bounds, wronged>>

\* Windows are marked complete in order.
Marked(good) ==
    LET Upto[w \in Window \cup {-1}] ==
            IF w = -1 THEN media
            ELSE IF w \in good THEN mark_complete(Upto[w - 1], WindowStart(w), WindowEnd(w))
            ELSE Upto[w - 1]
    IN  Upto[Max(Window)]

\* The batch is over: its windows count up to the first that failed.
EndBatch(p) ==
    LET q == task[p]
        batch == q.ok \cup q.bad
        good == {w \in q.ok : \A x \in q.bad : w < x}
    IN  /\ q.pc = "batch" /\ p \in Prefetcher /\ q.want = {} /\ batch # {}
        /\ \A w \in Window : q.on[w] = 0
        /\ q.bad \subseteq q.retried
        /\ media' = IfCurrent(q.generation,
                        IF q.bad = {} THEN Marked(good)
                        ELSE mark_failure(Marked(good), WindowStart(Min(q.bad))))
        /\ loaded' = IF media.generation # q.generation THEN loaded
                     ELSE loaded \cup UNION {WindowStart(w)..WindowEnd(w) : w \in good}
        /\ task' = [task EXCEPT ![p] = [@ EXCEPT !.pc =
                        IF q.bad = {} /\ media.generation = q.generation THEN "read" ELSE "again",
                        !.ok = {}, !.bad = {}, !.timed = {}, !.retried = {}]]
        /\ UNCHANGED <<sequence, cached, flights, producers, scope_latest, bounds, wronged>>

-----------------------------------------------------------------------------
RequestStep(r) == Read(r) \/ Fails(r) \/ Again(r) \/ Succeeds(r)
PrefetchStep(p) == NextStage(p) \/ NextBatch(p) \/ Read(p) \/ RetryWindow(p) \/ EndBatch(p)
TaskStep == (\E r \in Request : RequestStep(r)) \/ (\E p \in Prefetcher : PrefetchStep(p))
\* A load runs in a task of acquire_range_handle, with a permit.
Load == \E p \in producers : Register(p) \/ Produce(p)
Outside ==
    \/ \E r \in Request, start \in Starts, stop \in Stops : Begin(r, start, stop)
    \/ \E t \in Task : ReaderTimeout(t)
    \/ Clear \/ Trim \/ Evict

Next == TaskStep \/ Load \/ Outside

Spec == Init /\ [][Next]_vars
=============================================================================
