----------------------------- MODULE PushChunk -----------------------------
(***************************************************************************)
(* One push of a chunk (push_chunk): the connected peers are asked to take *)
(* it, the closest first and one every fifteen seconds or as soon as none  *)
(* is being asked, until enough of them gave a receipt or too many failed. *)
(*                                                                         *)
(* Peers are numbered by proximity to the chunk, the closest is 1.  What   *)
(* happens between two awaits of push_chunk is one action.  Time is left   *)
(* out: fifteen seconds may pass before any step.  The wait for results    *)
(* after the loop is left out too, the loop ends only when none is needed. *)
(***************************************************************************)
EXTENDS PushResult, Sequences

PushAssumption ==
    /\ Peer \subseteq Nat /\ {MaxRefusals, MaxChanges} \subseteq Nat
    /\ {Confirmations, MaxErrors} \subseteq Nat \ {0}

counts == <<in_flight, success_count, error_count>>
surroundings == <<peers, transfer_paused, changes>>
vars == <<at, surroundings, skiplist, overdraftlist, reserved, attempts, attempt_in, counts, refusals>>

Nobody == 0

Init ==
    /\ at = "begin" /\ peers \in SUBSET Peer /\ transfer_paused = FALSE
    /\ skiplist = {} /\ overdraftlist = {}
    /\ reserved = [p \in Peer |-> 0]
    /\ attempts = <<>> /\ attempt_in = <<>>
    /\ in_flight = 0 /\ success_count = 0 /\ error_count = 0
    /\ refusals = 0 /\ changes = 0

finished(successes, errors) == successes >= Confirmations \/ errors >= MaxErrors

Successes(results) == Cardinality({i \in DOMAIN results : results[i]})
Failures(results) == Cardinality({i \in DOMAIN results : ~results[i]})

\* Every result sent so far is read, and `started` attempts begin.
\* (drain_push_attempt_results, record_push_attempt_result)
Drain(started) ==
    /\ attempt_in' = <<>>
    /\ in_flight' = in_flight - Len(attempt_in) + started
    /\ success_count' = success_count + Successes(attempt_in)
    /\ error_count' = error_count + Failures(attempt_in)

\* Whether this section of the loop ends the push once the results are read.
Finished ==
    finished(success_count + Successes(attempt_in), error_count + Failures(attempt_in))

Rest(step) ==
    /\ at' = step /\ Drain(0)
    /\ UNCHANGED <<skiplist, overdraftlist, reserved, attempts, refusals>>

Return == Rest("returned")

-----------------------------------------------------------------------------
\* The selection: the closest peer not skipped is skipped from then on, and
\* asked if accounting lets it and its session stands.

Candidates == peers \ skiplist

Reset_Forgets(skipped, overdrawn) ==  \* mutant: with the overdrawn, the tried are forgotten
    skiplist' = {} /\ overdraftlist' = {}

\* reset_push_overdraft
Reset(skipped, overdrawn) == skiplist' = skipped \ overdrawn /\ overdraftlist' = {}

\* The peers `passed` could not be asked, those of `overdrawn` for want of credit.
Pass(passed, overdrawn) ==
    /\ refusals' = refusals + Cardinality(passed)
    /\ refusals' <= MaxRefusals

\* A pause that began meanwhile gives the reserve back, not the turn.
Ask(p, passed, overdrawn) ==
    /\ Pass(passed, overdrawn)
    /\ at' = IF transfer_paused THEN "paused" ELSE "wait"
    /\ skiplist' = skiplist \cup passed \cup {p}
    /\ overdraftlist' = overdraftlist \cup overdrawn
    /\ IF transfer_paused
       THEN Drain(0) /\ UNCHANGED <<reserved, attempts>>
       ELSE /\ Drain(1)
            /\ reserved' = [reserved EXCEPT ![p] = @ + 1]
            /\ attempts' = Append(attempts, [peer |-> p, end |-> "none"])

\* Nobody is left: those short of credit get another turn in a moment, or the
\* push waits for a round to pass and peers to come.
AskNobody(overdrawn) ==
    LET short == overdraftlist \cup overdrawn
        passed == skiplist \cup Candidates
    IN  /\ Pass(Candidates, overdrawn)
        /\ IF short # {}
           THEN at' = "nap" /\ Reset(passed, short)
           ELSE at' = "round" /\ skiplist' = passed /\ UNCHANGED overdraftlist
        /\ Drain(0)
        /\ UNCHANGED <<reserved, attempts>>

Select ==
    \/ \E p \in Candidates :
        LET passed == {q \in Candidates : q < p}
        IN  \E overdrawn \in SUBSET passed : Ask(p, passed, overdrawn)
    \/ \E overdrawn \in SUBSET Candidates : AskNobody(overdrawn)

\* An attempt is due when none is under way, or fifteen seconds after the last.
Start ==
    \/ Select
    \/ in_flight > Len(attempt_in) /\ Rest("wait")

\* The loop from its top, at first and when a result comes or time is up.
Loop ==
    /\ at \in {"begin", "wait"}
    /\ IF Finished THEN Return
       ELSE IF transfer_paused THEN Rest("paused")
       ELSE Start
    /\ UNCHANGED surroundings

\* wait_transfer_unpaused: until then nothing is returned either.
Resume ==
    /\ at = "paused" /\ ~transfer_paused
    /\ IF Finished THEN Return ELSE Start
    /\ UNCHANGED surroundings

\* After a nap the selection goes on, even while paused; after a round too.
GoOn ==
    /\ at \in {"nap", "round"}
    /\ IF Finished THEN Return ELSE Select
    /\ UNCHANGED surroundings

Caller == Loop \/ Resume \/ GoOn

-----------------------------------------------------------------------------
\* What goes on around it.

\* pushsync_attempt: the exchange ends with a receipt, which applies the
\* credit, or fails, which cancels the reserve; also after the push returned.
AttemptEnds(i) ==
    /\ i \in DOMAIN attempts /\ attempts[i].end = "none"
    /\ \E success \in BOOLEAN :
        /\ attempts' = [attempts EXCEPT ![i].end = IF success THEN "receipt" ELSE "failure"]
        /\ attempt_in' = IF at = "returned" THEN attempt_in ELSE Append(attempt_in, success)
    /\ reserved' = [reserved EXCEPT ![attempts[i].peer] = @ - 1]
    /\ UNCHANGED <<at, surroundings, skiplist, overdraftlist, counts, refusals>>

Change == at # "returned" /\ changes < MaxChanges /\ changes' = changes + 1

PeerChanges(p) ==
    /\ Change
    /\ peers' = IF p \in peers THEN peers \ {p} ELSE peers \cup {p}
    /\ UNCHANGED <<at, transfer_paused, skiplist, overdraftlist, reserved, attempts, attempt_in,
                   counts, refusals>>

TogglePause ==
    /\ Change
    /\ transfer_paused' = ~transfer_paused
    /\ UNCHANGED <<at, peers, skiplist, overdraftlist, reserved, attempts, attempt_in,
                   counts, refusals>>

Answers == \E i \in DOMAIN attempts : AttemptEnds(i)

Next == Caller \/ Answers \/ TogglePause \/ \E p \in Peer : PeerChanges(p)

Spec == Init /\ [][Next]_vars /\ WF_vars(Caller) /\ WF_vars(Answers)

-----------------------------------------------------------------------------
(* Properties. *)

\* The peers this push has asked or can still ask: those skipped because
\* their session was gone, or because a pause took their turn, do not count.
Askable == Asked({"none", "receipt", "failure"}) \cup (peers \ (skiplist \ overdraftlist))

\* push_chunk need not return while fewer can be asked, or while paused.
PushCanEnd == ~transfer_paused /\ Cardinality(Askable) >= Confirmations + MaxErrors - 1

\* A push whose transfer stays unpaused, with peers enough for its receipts
\* or for its failures, returns, whichever peers run short of credit meanwhile.
PushEnds == <>[](at = "returned" \/ ~PushCanEnd)
=============================================================================
