---------------------------- MODULE ErasureGroup ----------------------------
(***************************************************************************)
(* The children of one node of a file, fetched as a group of data and      *)
(* parity shards (fetch_data_group_indices_streaming).  Children come from *)
(* the cache or the network, in any order, and are emitted as they come;   *)
(* when shards fail or are late, further ones are asked for, and once as   *)
(* many as there are data shards have arrived the missing children are     *)
(* reconstructed.                                                          *)
(*                                                                         *)
(* A shard is fetched by a RawFetch registration, which is always answered *)
(* while transfers are not paused for good (WaitersAnswered there).  The   *)
(* code between two waits runs on one thread: a turn of the loop is one    *)
(* step.                                                                   *)
(***************************************************************************)
EXTENDS GroupKept

VARIABLES
    rolling,   \* the full-group policy: replacements for late shards only
    hedge_due, \* the hedge interval has passed
    g,         \* the locals of the loop
    out        \* shards asked for that have not answered

vars == <<group, rolling, hedge_due, group_cancelled, group_pc, g, out, failed, emitted>>

Shard == 0..(MaxData + MaxParity - 1)
data_count == group.data
total_count == data_count + parity_count
Data == 0..(data_count - 1)
requested_count == Cardinality(requested)

\* What the decoded chunk cache holds for a child: nothing, its decoded form
\* only, or its raw form as well.
Cached == {"nothing", "decoded", "raw"}

\* A shard's answer: the chunk expected; a chunk of another kind at that
\* address; a chunk that is the one expected but decodes to nothing; nothing.
Answer == {"canonical", "other", "malformed", "empty"}

Groups == {s \in [data : 1..MaxData, parity : 0..MaxParity, first : Index, last : Index,
                  cached : [Index -> Cached], consistent : BOOLEAN] :
              /\ s.first <= s.last /\ s.last < s.data
              /\ \A i \in Index : i \notin s.first..s.last => s.cached[i] = "nothing"}

Locals == [dispatched_shards : SUBSET Shard, requested_ready : SUBSET Index,
           received_shards : SUBSET Shard, successes : Nat, dispatched : Nat,
           completed : Nat, recovery_dispatched : BOOLEAN]

TypeOK ==
    /\ group \in Groups
    /\ {rolling, hedge_due, group_cancelled} \subseteq BOOLEAN
    /\ group_pc \in {"start", "wait", "done", "none"}
    /\ g \in Locals
    /\ out \subseteq Shard /\ failed \subseteq Shard
    /\ emitted \in [Index -> Nat]

Init ==
    /\ group \in Groups
    /\ rolling = FALSE /\ hedge_due = FALSE /\ group_cancelled \in BOOLEAN
    /\ group_pc = "start"
    /\ g = [dispatched_shards |-> {}, requested_ready |-> {}, received_shards |-> {},
            successes |-> 0, dispatched |-> 0, completed |-> 0, recovery_dispatched |-> FALSE]
    /\ out = {} /\ failed = {}
    /\ emitted = [i \in Index |-> 0]

-----------------------------------------------------------------------------
(* Parts of a turn: operators on the locals l of the loop *)

unresolved(l) == requested \ l.requested_ready

\* The first limit shards from start on that nobody asked for yet.
Undispatched(l, start, limit) ==
    LET free == {s \in start..(total_count - 1) : s \notin l.dispatched_shards}
    IN  {s \in free : Cardinality({t \in free : t < s}) < limit}

Ask(l, shards) ==
    [l EXCEPT !.dispatched_shards = @ \cup shards, !.dispatched = @ + Cardinality(shards)]

Monus(a, b) == IF a > b THEN a - b ELSE 0

active(l) == l.dispatched - l.completed

recovery_top_up_count(l) == Monus(data_count + ExtraShards, l.successes + active(l))

Emit(l) ==
    emitted' = [i \in Index |->
        emitted[i] + (IF i \in l.requested_ready \ g.requested_ready THEN 1 ELSE 0)]

\* Shards are replaced: in a rolling group by parity for whatever is late,
\* as many as keep data_count of them on the way; else from the first shard
\* on, until a few more than needed have arrived or are on the way.
Replace_ParityOnly(l) ==
    IF rolling THEN (IF hedge_due' THEN Undispatched(l, data_count, data_count - active(l)) ELSE {})
    ELSE IF l.recovery_dispatched THEN Undispatched(l, data_count, recovery_top_up_count(l)) ELSE {}
Replace(l) ==
    IF rolling THEN (IF hedge_due' THEN Undispatched(l, data_count, data_count - active(l)) ELSE {})
    ELSE IF l.recovery_dispatched THEN Undispatched(l, 0, recovery_top_up_count(l)) ELSE {}

\* Enough shards: the children are all there or can be computed.
terminal(l) ==
    \/ unresolved(l) = {}
    \/ l.recovery_dispatched /\ l.successes >= data_count

\* What is left is reconstructed, unless the shards received are too few or
\* belong to no common group: the result is checked against its address.
Finish(l) ==
    IF \/ unresolved(l) = {}
       \/ Cardinality(l.received_shards) >= data_count /\ group.consistent
    THEN /\ group_pc' = "done"
         /\ g' = [l EXCEPT !.requested_ready = requested]
         /\ Emit(g')
    ELSE group_pc' = "none" /\ g' = l /\ Emit(l)

\* The turn after the results at hand were taken: end, or replace shards and
\* wait, unless nothing is left to wait for.
Turn(l, outstanding) ==
    IF terminal(l)
    THEN Finish(l) /\ out' = outstanding
    ELSE LET more == Replace(l)
             next == [Ask(l, more) EXCEPT !.recovery_dispatched = @ \/ (rolling /\ more /= {})]
         IN  /\ g' = next /\ Emit(next)
             /\ out' = outstanding \cup more
             /\ group_pc' = IF next.completed = next.dispatched /\ (~rolling \/ hedge_due')
                      THEN "none" ELSE "wait"

GiveUp == group_pc' = "none" /\ UNCHANGED <<rolling, hedge_due, g, out, failed, emitted>>

-----------------------------------------------------------------------------
(* The group's steps *)

\* Cached children are emitted at once.  With a raw form of enough of them a
\* full group rolls, and those count as received; else the rest is asked for
\* as usual, and nothing counts as received.
static_rolling_candidate == requested_count = data_count /\ parity_count > 0

rolling_full_group_eligible(cached) ==
    /\ static_rolling_candidate
    /\ requested \ cached /= {}
    /\ Cardinality(InCache({"decoded"})) < parity_count

Start ==
    /\ group_pc = "start"
    /\ IF group_cancelled
       THEN GiveUp
       ELSE LET cached == InCache({"decoded", "raw"})
                fetched == requested \ cached
            IN  /\ rolling' = rolling_full_group_eligible(cached)
                /\ LET received == IF rolling' THEN InCache({"raw"}) ELSE {}
                       l == [Ask(g, fetched) EXCEPT !.dispatched_shards = @ \cup received,
                                                    !.received_shards = received,
                                                    !.successes = Cardinality(received),
                                                    !.requested_ready = cached]
                   IN  g' = l /\ Emit(l)
                /\ out' = fetched
                /\ group_pc' = IF fetched = {} THEN "done" ELSE "wait"
                /\ UNCHANGED <<hedge_due, failed>>
    /\ UNCHANGED <<group, group_cancelled>>

\* The loop takes one result a turn; a rolling group all that are there.
Usable(answer) == answer \in {"canonical", "malformed"} \/ (answer = "other" /\ parity_count = 0)
Decodes(answer) == answer /= "malformed"

Batch == IF rolling THEN SUBSET out \ {{}} ELSE {{s} : s \in out}

Results_Neighbours(answers) ==
    LET usable == {s \in DOMAIN answers : Usable(answers[s])}
    IN  [g EXCEPT !.completed = @ + Cardinality(DOMAIN answers),
                  !.received_shards = @ \cup usable,
                  !.successes = @ + Cardinality(usable),
                  !.requested_ready = @ \cup (usable \cap Data),
                  !.recovery_dispatched = @ \/ (~rolling /\ usable /= DOMAIN answers)]
Results(answers) ==
    LET usable == {s \in DOMAIN answers : Usable(answers[s])}
    IN  [g EXCEPT !.completed = @ + Cardinality(DOMAIN answers),
                  !.received_shards = @ \cup usable,
                  !.successes = @ + Cardinality(usable),
                  !.requested_ready = @ \cup (usable \cap requested),
                  !.recovery_dispatched = @ \/ (~rolling /\ usable /= DOMAIN answers)]

\* Without parity a failed shard ends the group; so does a child that was
\* received and does not decode.
Fatal(answers) ==
    \E s \in DOMAIN answers :
        \/ ~Usable(answers[s]) /\ parity_count = 0
        \/ Usable(answers[s]) /\ ~Decodes(answers[s]) /\ s \in unresolved(g)

Receive ==
    /\ group_pc = "wait"
    /\ \E shards \in Batch : \E answers \in [shards -> Answer] :
          /\ \A s \in shards : ~Decodes(answers[s]) => ~group.consistent
          /\ failed' = failed \cup {s \in shards : ~Usable(answers[s])}
          /\ hedge_due' \in {hedge_due, rolling}
          /\ IF group_cancelled \/ Fatal(answers)
             THEN group_pc' = "none" /\ UNCHANGED <<g, out, emitted>>
             ELSE Turn(Results(answers), out \ shards)
    /\ UNCHANGED <<group, rolling, group_cancelled>>

waiting_for_hedge == IF rolling THEN ~hedge_due ELSE ~g.recovery_dispatched

HasTimeout ==
    \/ waiting_for_hedge /\ parity_count > 0
    \/ ~rolling /\ g.recovery_dispatched /\ g.dispatched < total_count

\* The wait runs out before a result is there: a rolling group looks for late
\* shards from now on; otherwise recovery begins, with all of the parity if
\* the whole group is asked for, or goes on by a few shards.
AtTimeout ==
    IF rolling THEN {}
    ELSE IF ~g.recovery_dispatched
    THEN (IF requested_count = data_count
          THEN Undispatched(g, data_count, total_count) ELSE {})
    ELSE Undispatched(g, 0, ProgressiveBatch)

Timeout_NotDue ==  \* mutant: that the timer ran out is not remembered
    /\ group_pc = "wait" /\ HasTimeout
    /\ IF group_cancelled
       THEN GiveUp
       ELSE LET more == AtTimeout
                l == [Ask(g, more) EXCEPT !.recovery_dispatched = @ \/ ~rolling]
            IN  /\ UNCHANGED hedge_due
                /\ Turn(l, out \cup more)
                /\ UNCHANGED <<rolling, failed>>
    /\ UNCHANGED <<group, group_cancelled>>

Timeout ==
    /\ group_pc = "wait" /\ HasTimeout
    /\ IF group_cancelled
       THEN GiveUp
       ELSE LET more == AtTimeout
                l == [Ask(g, more) EXCEPT !.recovery_dispatched = @ \/ ~rolling]
            IN  /\ hedge_due' = rolling
                /\ Turn(l, out \cup more)
                /\ UNCHANGED <<rolling, failed>>
    /\ UNCHANGED <<group, group_cancelled>>

\* An untimed wait ends when the generation becomes stale; a timed one only
\* sees it after its result or its timeout.
StopWaiting ==
    /\ group_pc = "wait" /\ ~HasTimeout /\ group_cancelled
    /\ GiveUp
    /\ UNCHANGED <<group, group_cancelled>>

Cancel ==
    /\ ~group_cancelled /\ group_pc \in {"start", "wait"}
    /\ group_cancelled' = TRUE
    /\ UNCHANGED <<group, rolling, hedge_due, group_pc, g, out, failed, emitted>>

Rest == group_pc \in {"done", "none"} /\ UNCHANGED vars

Next == Start \/ Receive \/ Timeout \/ StopWaiting \/ Cancel \/ Rest

Spec == Init /\ [][Next]_vars

\* The task runs, every shard is answered, timers fire.
FairSpec == Spec /\ WF_vars(Start) /\ WF_vars(Receive) /\ WF_vars(Timeout) /\ WF_vars(StopWaiting)

-----------------------------------------------------------------------------
(* Properties *)

\* The group ends, whichever shards fail or are late.
GroupEnds == <>(group_pc \in {"done", "none"})
=============================================================================
