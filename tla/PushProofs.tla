----------------------------- MODULE PushProofs -----------------------------
(***************************************************************************)
(* Proofs about one push (PushChunk), for any number of peers, receipts    *)
(* and failures: no peer is asked twice, every result is counted once, and *)
(* every reserve is held by an attempt under way; and about the upload of  *)
(* a file (UploadData), of any length and for any windows: its reference   *)
(* is that of chunks all confirmed, and its windows hold.                  *)
(***************************************************************************)
EXTENDS PushChunk, UploadQueue, FiniteSetTheorems, TLAPS

Ends == {"none", "receipt", "failure"}
Attempt == [peer : Peer, end : Ends]

Types ==
    /\ attempts \in Seq(Attempt) /\ attempt_in \in Seq(BOOLEAN)
    /\ reserved \in [Peer -> Nat] /\ peers \subseteq Peer
    /\ success_count \in Nat /\ error_count \in Nat

\* No peer is asked twice: whom the push asked stays skipped, and is never
\* among those short of credit, whom a nap lets back in.
AsksOnce ==
    /\ \A i, j \in DOMAIN attempts : i /= j => attempts[i].peer /= attempts[j].peer
    /\ \A i \in DOMAIN attempts : attempts[i].peer \in skiplist \ overdraftlist
    /\ overdraftlist \subseteq skiplist

Ended(end) == {i \in DOMAIN attempts : attempts[i].end = end}
UnderWay(p) == {i \in DOMAIN attempts : attempts[i].peer = p /\ attempts[i].end = "none"}

\* Each result is read once: what was counted and what waits to be read is
\* what ended, until the push returns and results are read no more.
ResultsAgree ==
    /\ success_count <= Cardinality(Ended("receipt"))
    /\ error_count <= Cardinality(Ended("failure"))
    /\ at /= "returned" =>
          /\ success_count + Successes(attempt_in) = Cardinality(Ended("receipt"))
          /\ error_count + Failures(attempt_in) = Cardinality(Ended("failure"))
    /\ at = "returned" => finished(success_count, error_count)

ReservesAreHeld == \A p \in Peer : reserved[p] = Cardinality(UnderWay(p))

PushInv == Types /\ AsksOnce /\ ResultsAgree /\ ReservesAreHeld

-----------------------------------------------------------------------------
(* Counting.                                                               *)

LEMMA PlacesFinite ==
    ASSUME NEW T, NEW s \in Seq(T), NEW S, S \in SUBSET (DOMAIN s)
    PROVE  /\ DOMAIN s = 1..Len(s) /\ Len(s) \in Nat
           /\ IsFiniteSet(S) /\ Cardinality(S) \in Nat
  <1>1. DOMAIN s = 1..Len(s) /\ Len(s) \in Nat
    OBVIOUS
  <1>2. IsFiniteSet(1..Len(s))
    <2>1. \A n \in Nat : IsFiniteSet(1..n)
      BY FS_Interval
    <2> QED  BY <1>1, <2>1
  <1>3. IsFiniteSet(S)
    BY <1>1, <1>2, FS_Subset
  <1> QED  BY <1>1, <1>3, FS_CardinalityType

LEMMA Gains ==
    ASSUME NEW S, IsFiniteSet(S), NEW x, x \notin S
    PROVE  /\ Cardinality(S \cup {x}) = Cardinality(S) + 1
           /\ Cardinality(S) \in Nat
  BY FS_AddElement, FS_CardinalityType

LEMMA Loses ==
    ASSUME NEW S, IsFiniteSet(S), NEW x \in S
    PROVE  /\ Cardinality(S \ {x}) = Cardinality(S) - 1
           /\ Cardinality(S) \in Nat \ {0} /\ Cardinality(S \ {x}) \in Nat
  <1>1. IsFiniteSet(S \ {x}) /\ Cardinality(S \ {x}) = Cardinality(S) - 1
    BY FS_RemoveElement
  <1>2. Cardinality(S) \in Nat /\ Cardinality(S \ {x}) \in Nat
    BY <1>1, FS_CardinalityType
  <1>3. Cardinality(S) /= 0
    BY FS_EmptySet
  <1> QED  BY <1>1, <1>2, <1>3

LEMMA CountFacts ==
    ASSUME NEW results \in Seq(BOOLEAN)
    PROVE  /\ Successes(results) \in Nat /\ Failures(results) \in Nat
           /\ Successes(Append(results, TRUE)) = Successes(results) + 1
           /\ Failures(Append(results, TRUE)) = Failures(results)
           /\ Successes(Append(results, FALSE)) = Successes(results)
           /\ Failures(Append(results, FALSE)) = Failures(results) + 1
  <1> DEFINE S == {i \in DOMAIN results : results[i]}
             F == {i \in DOMAIN results : ~results[i]}
             n == Len(results) + 1
  <1>1. /\ IsFiniteSet(S) /\ Cardinality(S) \in Nat /\ n \in Nat /\ n \notin S
        /\ IsFiniteSet(F) /\ Cardinality(F) \in Nat /\ n \notin F
    BY PlacesFinite
  <1>2. ASSUME NEW r \in BOOLEAN
        PROVE  /\ DOMAIN Append(results, r) = DOMAIN results \cup {n}
               /\ Append(results, r)[n] = r
               /\ \A i \in DOMAIN results : Append(results, r)[i] = results[i]
    OBVIOUS
  <1>3. /\ {i \in DOMAIN Append(results, TRUE) : Append(results, TRUE)[i]} = S \cup {n}
        /\ {i \in DOMAIN Append(results, TRUE) : ~Append(results, TRUE)[i]} = F
    BY <1>2
  <1>4. /\ {i \in DOMAIN Append(results, FALSE) : Append(results, FALSE)[i]} = S
        /\ {i \in DOMAIN Append(results, FALSE) : ~Append(results, FALSE)[i]} = F \cup {n}
    BY <1>2
  <1>5. /\ Cardinality(S \cup {n}) = Cardinality(S) + 1
        /\ Cardinality(F \cup {n}) = Cardinality(F) + 1
    BY <1>1, Gains
  <1> QED  BY <1>1, <1>3, <1>4, <1>5 DEF Successes, Failures

LEMMA CountNone == Successes(<<>>) = 0 /\ Failures(<<>>) = 0
  <1>1. {i \in DOMAIN <<>> : <<>>[i]} = {} /\ {i \in DOMAIN <<>> : ~<<>>[i]} = {}
    OBVIOUS
  <1> QED  BY <1>1, FS_EmptySet DEF Successes, Failures

\* Reading what waits leaves every ended attempt counted.
LEMMA DrainCounts ==
    ASSUME PushInv, at /= "returned", NEW started \in Nat, Drain(started)
    PROVE  /\ attempt_in' = <<>> /\ attempt_in' \in Seq(BOOLEAN)
           /\ success_count' \in Nat /\ error_count' \in Nat
           /\ success_count' = Cardinality(Ended("receipt"))
           /\ error_count' = Cardinality(Ended("failure"))
           /\ Successes(attempt_in') = 0 /\ Failures(attempt_in') = 0
           /\ Finished <=> finished(success_count', error_count')
  <1> USE DEF PushInv
  <1>1. Successes(attempt_in) \in Nat /\ Failures(attempt_in) \in Nat
    BY CountFacts DEF Types
  <1>2. /\ attempt_in' = <<>>
        /\ success_count' = success_count + Successes(attempt_in)
        /\ error_count' = error_count + Failures(attempt_in)
    BY DEF Drain
  <1>3. Successes(<<>>) = 0 /\ Failures(<<>>) = 0
    BY CountNone
  <1>4. /\ success_count' \in Nat /\ error_count' \in Nat
        /\ success_count' = Cardinality(Ended("receipt"))
        /\ error_count' = Cardinality(Ended("failure"))
    <2>1. success_count \in Nat /\ error_count \in Nat
      BY DEF Types
    <2>2. /\ success_count + Successes(attempt_in) = Cardinality(Ended("receipt"))
          /\ error_count + Failures(attempt_in) = Cardinality(Ended("failure"))
      BY DEF ResultsAgree
    <2> QED  BY <1>1, <1>2, <2>1, <2>2
  <1>5. Finished <=> finished(success_count', error_count')
    BY <1>2 DEF Finished
  <1> QED  BY <1>2, <1>3, <1>4, <1>5

-----------------------------------------------------------------------------
(* The steps of push_chunk.                                                *)

LEMMA SectionKeeps ==
    ASSUME PushInv, at /= "returned", Drain(0), UNCHANGED <<attempts, reserved, peers>>, AsksOnce',
           at' = "returned" => Finished
    PROVE  PushInv'
  <1>1. /\ attempt_in' = <<>> /\ attempt_in' \in Seq(BOOLEAN)
        /\ success_count' \in Nat /\ error_count' \in Nat
        /\ success_count' = Cardinality(Ended("receipt"))
        /\ error_count' = Cardinality(Ended("failure"))
        /\ Successes(attempt_in') = 0 /\ Failures(attempt_in') = 0
        /\ Finished <=> finished(success_count', error_count')
    BY DrainCounts
  <1>2. Ended("receipt")' = Ended("receipt") /\ Ended("failure")' = Ended("failure")
    BY DEF Ended
  <1>3. Types'
    BY <1>1 DEF PushInv, Types
  <1>4. ResultsAgree'
    <2>1. /\ success_count' + Successes(attempt_in') = Cardinality(Ended("receipt")')
          /\ error_count' + Failures(attempt_in') = Cardinality(Ended("failure")')
      BY <1>1, <1>2
    <2>2. /\ success_count' <= Cardinality(Ended("receipt")')
          /\ error_count' <= Cardinality(Ended("failure")')
      BY <1>1, <1>2
    <2>3. at' = "returned" => finished(success_count', error_count')
      BY <1>1
    <2> QED  BY <2>1, <2>2, <2>3 DEF ResultsAgree
  <1>5. ReservesAreHeld'
    BY DEF PushInv, ReservesAreHeld, UnderWay
  <1> QED  BY <1>3, <1>4, <1>5 DEF PushInv

LEMMA RestKeeps ==
    ASSUME PushInv, at /= "returned", UNCHANGED surroundings, NEW step, Rest(step),
           step = "returned" => Finished
    PROVE  PushInv'
  <1>1. /\ at' = step /\ Drain(0)
        /\ UNCHANGED <<skiplist, overdraftlist, reserved, attempts, peers>>
    BY DEF Rest, surroundings
  <1>2. AsksOnce'
    BY <1>1 DEF PushInv, AsksOnce
  <1> QED  BY <1>1, <1>2, SectionKeeps

LEMMA AttemptFacts ==
    ASSUME Types, NEW i \in DOMAIN attempts
    PROVE  /\ attempts[i] \in Attempt /\ attempts[i].peer \in Peer /\ attempts[i].end \in Ends
  <1>1. attempts[i] \in Attempt
    BY DEF Types
  <1> QED  BY <1>1 DEF Attempt

LEMMA AskKeeps ==
    ASSUME PushInv, at /= "returned", UNCHANGED surroundings,
           NEW p \in Candidates, NEW passed \in SUBSET Candidates, NEW overdrawn \in SUBSET passed,
           p \notin passed, Ask(p, passed, overdrawn)
    PROVE  PushInv'
  <1> USE DEF PushInv
  <1>0. /\ skiplist' = skiplist \cup passed \cup {p}
        /\ overdraftlist' = overdraftlist \cup overdrawn
        /\ p \in Peer /\ p \notin skiplist /\ peers' = peers
        /\ at' /= "returned"
    BY DEF Ask, Candidates, surroundings, Types
  <1>1. CASE transfer_paused
    <2>1. Drain(0) /\ UNCHANGED <<reserved, attempts>>
      BY <1>1 DEF Ask
    <2>2. AsksOnce'
      BY <1>0, <2>1 DEF AsksOnce, Candidates
    <2> HIDE DEF PushInv
    <2> QED  BY <1>0, <2>1, <2>2, SectionKeeps
  <1>2. CASE ~transfer_paused
    <2>1. /\ Drain(1)
          /\ reserved' = [reserved EXCEPT ![p] = @ + 1]
          /\ attempts' = Append(attempts, [peer |-> p, end |-> "none"])
      BY <1>2 DEF Ask
    <2>2. PICK n \in Nat : n = Len(attempts) + 1
      BY DEF Types
    <2>3. PICK new \in Attempt : new = [peer |-> p, end |-> "none"]
      <3>1. [peer |-> p, end |-> "none"] \in Attempt
        BY <1>0 DEF Attempt, Ends
      <3> QED  BY <3>1
    <2>4. new.peer = p /\ new.end = "none"
      BY <2>3
    <2>5. /\ attempts' \in Seq(Attempt) /\ n \notin DOMAIN attempts
          /\ DOMAIN attempts' = DOMAIN attempts \cup {n} /\ attempts'[n] = new
          /\ \A i \in DOMAIN attempts : attempts'[i] = attempts[i]
      BY <2>1, <2>2, <2>3 DEF Types
    <2>6. /\ attempt_in' \in Seq(BOOLEAN) /\ success_count' \in Nat /\ error_count' \in Nat
          /\ success_count' = Cardinality(Ended("receipt"))
          /\ error_count' = Cardinality(Ended("failure"))
          /\ Successes(attempt_in') = 0 /\ Failures(attempt_in') = 0
      <3> HIDE DEF PushInv
      <3> QED  BY <2>1, DrainCounts
    <2>7. Types'
      BY <1>0, <2>1, <2>5, <2>6 DEF Types
    <2>8. AsksOnce'
      <3>1. \A i \in DOMAIN attempts : attempts[i].peer /= p /\ attempts[i].peer \notin passed
        BY <1>0 DEF AsksOnce, Candidates
      <3>2. \A i, j \in DOMAIN attempts' : i /= j => attempts'[i].peer /= attempts'[j].peer
        BY <2>4, <2>5, <3>1 DEF AsksOnce
      <3>3. \A i \in DOMAIN attempts : attempts'[i].peer \in skiplist' \ overdraftlist'
        BY <1>0, <2>5, <3>1 DEF AsksOnce
      <3>4. attempts'[n].peer \in skiplist' \ overdraftlist'
        BY <1>0, <2>4, <2>5 DEF AsksOnce, Candidates
      <3>5. overdraftlist' \subseteq skiplist'
        BY <1>0 DEF AsksOnce
      <3> QED  BY <2>5, <3>2, <3>3, <3>4, <3>5 DEF AsksOnce
    <2>9. Ended("receipt")' = Ended("receipt") /\ Ended("failure")' = Ended("failure")
      BY <2>4, <2>5 DEF Ended
    <2>10. ResultsAgree'
      <3>1. /\ success_count' + Successes(attempt_in') = Cardinality(Ended("receipt")')
            /\ error_count' + Failures(attempt_in') = Cardinality(Ended("failure")')
        BY <2>6, <2>9
      <3>2. /\ success_count' <= Cardinality(Ended("receipt")')
            /\ error_count' <= Cardinality(Ended("failure")')
        BY <2>6, <2>9
      <3> QED  BY <1>0, <3>1, <3>2 DEF ResultsAgree
    <2>11. ReservesAreHeld'
      <3>1. ASSUME NEW q \in Peer, q /= p PROVE UnderWay(q)' = UnderWay(q)
        BY <2>4, <2>5, <3>1 DEF UnderWay
      <3>2. UnderWay(p)' = UnderWay(p) \cup {n} /\ n \notin UnderWay(p)
        BY <2>4, <2>5 DEF UnderWay
      <3>3. IsFiniteSet(UnderWay(p))
        <4>1. UnderWay(p) \in SUBSET (DOMAIN attempts)
          BY DEF UnderWay
        <4> QED  BY <4>1, PlacesFinite DEF Types
      <3>4. Cardinality(UnderWay(p) \cup {n}) = Cardinality(UnderWay(p)) + 1
        BY <3>2, <3>3, Gains
      <3>5. ASSUME NEW q \in Peer PROVE reserved'[q] = Cardinality(UnderWay(q)')
        <4>1. CASE q = p
          BY <1>0, <2>1, <3>2, <3>4, <4>1 DEF Types, ReservesAreHeld
        <4>2. CASE q /= p
          BY <2>1, <3>1, <4>2 DEF Types, ReservesAreHeld
        <4> QED  BY <4>1, <4>2
      <3> QED  BY <3>5 DEF ReservesAreHeld
    <2> QED  BY <2>7, <2>8, <2>10, <2>11
  <1> QED  BY <1>1, <1>2

LEMMA SelectKeeps ==
    ASSUME PushAssumption, PushInv, at /= "returned", UNCHANGED surroundings, Select
    PROVE  PushInv'
  <1>1. ASSUME NEW p \in Candidates,
               NEW overdrawn \in SUBSET {q \in Candidates : q < p},
               Ask(p, {q \in Candidates : q < p}, overdrawn)
        PROVE  PushInv'
    <2>1. PICK passed \in SUBSET Candidates : passed = {q \in Candidates : q < p}
      OBVIOUS
    <2>2. p \notin passed
      <3>1. p \notin {q \in Candidates : q < p}
        <4>1. CASE p < p
          <5>1. p \in Peer
            BY DEF Candidates, PushInv, Types
          <5> QED  BY <4>1, <5>1 DEF PushAssumption
        <4> QED  BY <4>1
      <3> QED  BY <2>1, <3>1
    <2>3. overdrawn \in SUBSET passed /\ Ask(p, passed, overdrawn)
      BY <1>1, <2>1
    <2> QED  BY <2>2, <2>3, AskKeeps
  <1>2. ASSUME NEW overdrawn \in SUBSET Candidates, AskNobody(overdrawn)
        PROVE  PushInv'
    <2>1. /\ Drain(0) /\ UNCHANGED <<attempts, reserved, peers>> /\ at' /= "returned"
      BY <1>2 DEF AskNobody, surroundings
    <2>2. AsksOnce'
      <3>1. CASE overdraftlist \cup overdrawn /= {}
        <4>1. /\ skiplist' = (skiplist \cup Candidates) \ (overdraftlist \cup overdrawn)
              /\ overdraftlist' = {}
          BY <1>2, <3>1 DEF AskNobody, Reset
        <4>2. \A i \in DOMAIN attempts : attempts[i].peer \notin overdraftlist \cup overdrawn
          BY DEF PushInv, AsksOnce, Candidates
        <4> QED  BY <2>1, <4>1, <4>2 DEF PushInv, AsksOnce
      <3>2. CASE overdraftlist \cup overdrawn = {}
        <4>1. skiplist' = skiplist \cup Candidates /\ overdraftlist' = overdraftlist
          BY <1>2, <3>2 DEF AskNobody
        <4> QED  BY <2>1, <4>1 DEF PushInv, AsksOnce
      <3> QED  BY <3>1, <3>2
    <2> QED  BY <2>1, <2>2, SectionKeeps
  <1> QED  BY <1>1, <1>2 DEF Select

-----------------------------------------------------------------------------
(* An attempt ends, also after the push returned.                          *)

LEMMA EndFacts ==
    ASSUME PushInv, NEW i \in DOMAIN attempts, attempts[i].end = "none",
           NEW end \in {"receipt", "failure"},
           attempts' = [attempts EXCEPT ![i].end = end],
           reserved' = [reserved EXCEPT ![attempts[i].peer] = @ - 1],
           UNCHANGED <<skiplist, overdraftlist>>
    PROVE  /\ attempts' \in Seq(Attempt) /\ reserved' \in [Peer -> Nat]
           /\ AsksOnce' /\ ReservesAreHeld'
           /\ Cardinality(Ended(end)') = Cardinality(Ended(end)) + 1
           /\ \A e \in {"receipt", "failure"} : e /= end => Ended(e)' = Ended(e)
           /\ \A e \in {"receipt", "failure"} : Cardinality(Ended(e)) \in Nat
  <1> USE DEF PushInv
  <1>1. attempts[i] \in Attempt /\ attempts[i].peer \in Peer
    BY AttemptFacts
  <1>2. PICK p \in Peer : p = attempts[i].peer
    BY <1>1
  <1>3. PICK new \in Attempt : new = [attempts[i] EXCEPT !.end = end]
    <2>1. [attempts[i] EXCEPT !.end = end] \in Attempt
      BY <1>1 DEF Attempt, Ends
    <2> QED  BY <2>1
  <1>4. new.peer = p /\ new.end = end
    BY <1>1, <1>2, <1>3 DEF Attempt
  <1>5. attempts' = [attempts EXCEPT ![i] = new]
    BY <1>1, <1>3 DEF Attempt
  <1>6. /\ attempts' \in Seq(Attempt) /\ DOMAIN attempts' = DOMAIN attempts
        /\ attempts'[i] = new
        /\ \A j \in DOMAIN attempts : j /= i => attempts'[j] = attempts[j]
    BY <1>3, <1>5 DEF Types
  <1>7. \A j \in DOMAIN attempts : attempts'[j].peer = attempts[j].peer
    BY <1>2, <1>4, <1>6
  <1>8. AsksOnce'
    BY <1>6, <1>7 DEF AsksOnce
  <1>9. \A e \in {"receipt", "failure"} :
           Ended(e) \in SUBSET (DOMAIN attempts) /\ IsFiniteSet(Ended(e)) /\ Cardinality(Ended(e)) \in Nat
    <2>1. ASSUME NEW e \in {"receipt", "failure"} PROVE Ended(e) \in SUBSET (DOMAIN attempts)
      BY DEF Ended
    <2> QED  BY <2>1, PlacesFinite DEF Types
  <1>10. Cardinality(Ended(end)') = Cardinality(Ended(end)) + 1
    <2>1. Ended(end)' = Ended(end) \cup {i} /\ i \notin Ended(end)
      BY <1>4, <1>6 DEF Ended
    <2>2. Cardinality(Ended(end) \cup {i}) = Cardinality(Ended(end)) + 1
      BY <1>9, <2>1, Gains
    <2> QED  BY <2>1, <2>2
  <1>11. \A e \in {"receipt", "failure"} : e /= end => Ended(e)' = Ended(e)
    BY <1>4, <1>6 DEF Ended
  <1>12. ASSUME NEW q \in Peer, q /= p
         PROVE  reserved'[q] = reserved[q] /\ UnderWay(q)' = UnderWay(q)
    BY <1>2, <1>4, <1>6, <1>12 DEF UnderWay, Types
  <1>13. /\ reserved'[p] = reserved[p] - 1 /\ reserved[p] = Cardinality(UnderWay(p))
         /\ Cardinality(UnderWay(p)') = Cardinality(UnderWay(p)) - 1
         /\ Cardinality(UnderWay(p)) - 1 \in Nat
    <2>1. UnderWay(p)' = UnderWay(p) \ {i} /\ i \in UnderWay(p)
      BY <1>2, <1>4, <1>6 DEF UnderWay
    <2>2. IsFiniteSet(UnderWay(p))
      <3>1. UnderWay(p) \in SUBSET (DOMAIN attempts)
        BY DEF UnderWay
      <3> QED  BY <3>1, PlacesFinite DEF Types
    <2>3. /\ Cardinality(UnderWay(p) \ {i}) = Cardinality(UnderWay(p)) - 1
          /\ Cardinality(UnderWay(p) \ {i}) \in Nat
      BY <2>1, <2>2, Loses
    <2>4. reserved[p] = Cardinality(UnderWay(p)) /\ reserved'[p] = reserved[p] - 1
      BY <1>2 DEF ReservesAreHeld, Types
    <2> QED  BY <2>1, <2>3, <2>4
  <1>14. ReservesAreHeld'
    <2>1. ASSUME NEW q \in Peer PROVE reserved'[q] = Cardinality(UnderWay(q)')
      <3>1. CASE q = p
        BY <1>13, <3>1
      <3>2. CASE q /= p
        BY <1>12, <3>2 DEF ReservesAreHeld
      <3> QED  BY <3>1, <3>2
    <2> QED  BY <2>1 DEF ReservesAreHeld
  <1>15. reserved' \in [Peer -> Nat]
    <2>1. \A q \in Peer : reserved'[q] \in Nat
      BY <1>12, <1>13 DEF Types
    <2> QED  BY <2>1 DEF Types
  <1> QED  BY <1>6, <1>8, <1>9, <1>10, <1>11, <1>14, <1>15

LEMMA AttemptEndsKeeps ==
    ASSUME PushInv, NEW i, AttemptEnds(i)
    PROVE  PushInv'
  <1>1. /\ i \in DOMAIN attempts /\ attempts[i].end = "none"
        /\ UNCHANGED <<at, peers, skiplist, overdraftlist, success_count, error_count>>
        /\ reserved' = [reserved EXCEPT ![attempts[i].peer] = @ - 1]
    BY DEF AttemptEnds, surroundings, counts
  <1>2. /\ Successes(attempt_in) \in Nat /\ Failures(attempt_in) \in Nat
        /\ attempt_in \in Seq(BOOLEAN) /\ success_count \in Nat /\ error_count \in Nat
    BY CountFacts DEF PushInv, Types
  <1>3. CASE /\ attempts' = [attempts EXCEPT ![i].end = "receipt"]
             /\ attempt_in' = IF at = "returned" THEN attempt_in ELSE Append(attempt_in, TRUE)
    <2>1. /\ attempts' \in Seq(Attempt) /\ reserved' \in [Peer -> Nat]
          /\ AsksOnce' /\ ReservesAreHeld'
          /\ Cardinality(Ended("receipt")') = Cardinality(Ended("receipt")) + 1
          /\ Ended("failure")' = Ended("failure")
          /\ Cardinality(Ended("receipt")) \in Nat /\ Cardinality(Ended("failure")) \in Nat
      BY <1>1, <1>3, EndFacts
    <2>2. at /= "returned" =>
             /\ Successes(attempt_in') = Successes(attempt_in) + 1
             /\ Failures(attempt_in') = Failures(attempt_in)
      BY <1>2, <1>3, CountFacts
    <2>3. attempt_in' \in Seq(BOOLEAN)
      <3>1. Append(attempt_in, TRUE) \in Seq(BOOLEAN)
        BY <1>2
      <3> QED  BY <1>2, <1>3, <3>1
    <2>4. /\ success_count' <= Cardinality(Ended("receipt")')
          /\ error_count' <= Cardinality(Ended("failure")')
      BY <1>1, <1>2, <2>1 DEF PushInv, ResultsAgree
    <2>5. at' /= "returned" =>
             /\ success_count' + Successes(attempt_in') = Cardinality(Ended("receipt")')
             /\ error_count' + Failures(attempt_in') = Cardinality(Ended("failure")')
      BY <1>1, <1>2, <2>1, <2>2 DEF PushInv, ResultsAgree
    <2>6. ResultsAgree'
      BY <1>1, <2>4, <2>5 DEF PushInv, ResultsAgree, finished
    <2> QED  BY <1>1, <2>1, <2>3, <2>6 DEF PushInv, Types
  <1>4. CASE /\ attempts' = [attempts EXCEPT ![i].end = "failure"]
             /\ attempt_in' = IF at = "returned" THEN attempt_in ELSE Append(attempt_in, FALSE)
    <2>1. /\ attempts' \in Seq(Attempt) /\ reserved' \in [Peer -> Nat]
          /\ AsksOnce' /\ ReservesAreHeld'
          /\ Cardinality(Ended("failure")') = Cardinality(Ended("failure")) + 1
          /\ Ended("receipt")' = Ended("receipt")
          /\ Cardinality(Ended("receipt")) \in Nat /\ Cardinality(Ended("failure")) \in Nat
      BY <1>1, <1>4, EndFacts
    <2>2. at /= "returned" =>
             /\ Successes(attempt_in') = Successes(attempt_in)
             /\ Failures(attempt_in') = Failures(attempt_in) + 1
      BY <1>2, <1>4, CountFacts
    <2>3. attempt_in' \in Seq(BOOLEAN)
      <3>1. Append(attempt_in, FALSE) \in Seq(BOOLEAN)
        BY <1>2
      <3> QED  BY <1>2, <1>4, <3>1
    <2>4. /\ success_count' <= Cardinality(Ended("receipt")')
          /\ error_count' <= Cardinality(Ended("failure")')
      BY <1>1, <1>2, <2>1 DEF PushInv, ResultsAgree
    <2>5. at' /= "returned" =>
             /\ success_count' + Successes(attempt_in') = Cardinality(Ended("receipt")')
             /\ error_count' + Failures(attempt_in') = Cardinality(Ended("failure")')
      BY <1>1, <1>2, <2>1, <2>2 DEF PushInv, ResultsAgree
    <2>6. ResultsAgree'
      BY <1>1, <2>4, <2>5 DEF PushInv, ResultsAgree, finished
    <2> QED  BY <1>1, <2>1, <2>3, <2>6 DEF PushInv, Types
  <1>5. \E success \in BOOLEAN :
           /\ attempts' = [attempts EXCEPT ![i].end = IF success THEN "receipt" ELSE "failure"]
           /\ attempt_in' = IF at = "returned" THEN attempt_in ELSE Append(attempt_in, success)
    BY DEF AttemptEnds
  <1> QED  BY <1>3, <1>4, <1>5

-----------------------------------------------------------------------------
LEMMA PushInit ==
    ASSUME Init
    PROVE  PushInv
  <1>1. /\ attempts = <<>> /\ attempt_in = <<>> /\ overdraftlist = {} /\ at = "begin"
        /\ success_count = 0 /\ error_count = 0 /\ reserved = [p \in Peer |-> 0]
        /\ peers \subseteq Peer
    BY DEF Init
  <1>2. Ended("receipt") = {} /\ Ended("failure") = {} /\ \A p \in Peer : UnderWay(p) = {}
    BY <1>1 DEF Ended, UnderWay
  <1>3. Types /\ AsksOnce
    BY <1>1 DEF Types, AsksOnce
  <1>4. ResultsAgree /\ ReservesAreHeld
    <2>1. Cardinality({}) = 0
      BY FS_EmptySet
    <2>2. Successes(attempt_in) = 0 /\ Failures(attempt_in) = 0
      BY <1>1, CountNone
    <2>3. ResultsAgree
      <3>1. Cardinality(Ended("receipt")) = 0 /\ Cardinality(Ended("failure")) = 0
        BY <1>2, <2>1
      <3>2. at = "begin" /\ success_count = 0 /\ error_count = 0
        BY <1>1
      <3> QED  BY <2>2, <3>1, <3>2 DEF ResultsAgree
    <2> QED  BY <1>1, <1>2, <2>1, <2>3 DEF ReservesAreHeld
  <1> QED  BY <1>3, <1>4 DEF PushInv

LEMMA CallerKeeps ==
    ASSUME PushAssumption, PushInv, Caller
    PROVE  PushInv'
  <1>1. at /= "returned" /\ UNCHANGED surroundings
    BY DEF Caller, Loop, Resume, GoOn
  <1>2. \/ Finished /\ Rest("returned")
        \/ Rest("paused") \/ Rest("wait") \/ Select
    BY DEF Caller, Loop, Resume, GoOn, Return, Start
  <1>3. CASE Finished /\ Rest("returned")
    BY <1>1, <1>3, RestKeeps
  <1>4. CASE Rest("paused")
    BY <1>1, <1>4, RestKeeps
  <1>5. CASE Rest("wait")
    BY <1>1, <1>5, RestKeeps
  <1>6. CASE Select
    BY <1>1, <1>6, SelectKeeps
  <1> QED  BY <1>2, <1>3, <1>4, <1>5, <1>6

LEMMA PushStep ==
    ASSUME PushAssumption, PushInv, [Next]_vars
    PROVE  PushInv'
  <1>1. ASSUME UNCHANGED <<at, skiplist, overdraftlist, reserved, attempts, attempt_in, counts>>,
               peers' \subseteq Peer
        PROVE  PushInv'
    <2>1. Types' /\ AsksOnce'
      BY <1>1 DEF PushInv, Types, AsksOnce, counts
    <2>2. ResultsAgree' /\ ReservesAreHeld'
      BY <1>1 DEF PushInv, ResultsAgree, ReservesAreHeld, Ended, UnderWay, counts, finished, Successes, Failures
    <2> QED  BY <2>1, <2>2 DEF PushInv
  <1>2. CASE Caller
    BY <1>2, CallerKeeps
  <1>3. CASE Answers
    BY <1>3, AttemptEndsKeeps DEF Answers
  <1>4. CASE TogglePause
    BY <1>1, <1>4 DEF TogglePause, PushInv, Types
  <1>5. ASSUME NEW p \in Peer, PeerChanges(p) PROVE PushInv'
    BY <1>1, <1>5 DEF PeerChanges, PushInv, Types
  <1>6. CASE UNCHANGED vars
    BY <1>1, <1>6 DEF vars, surroundings, PushInv, Types
  <1> QED  BY <1>2, <1>3, <1>4, <1>5, <1>6 DEF Next

\* Attempts that ended alike are as many as the peers they went to.
LEMMA EndedPeers ==
    ASSUME PushInv, NEW end \in {"receipt", "failure"}
    PROVE  Cardinality(Asked({end})) = Cardinality(Ended(end))
  <1> DEFINE f == [i \in Ended(end) |-> attempts[i].peer]
  <1>1. IsFiniteSet(Ended(end))
    <2>1. Ended(end) \in SUBSET (DOMAIN attempts)
      BY DEF Ended
    <2> QED  BY <2>1, PlacesFinite DEF PushInv, Types
  <1>2. f \in Bijection(Ended(end), Asked({end}))
    <2>1. \A i, j \in Ended(end) : f[i] = f[j] => i = j
      BY DEF PushInv, AsksOnce, Ended
    <2>2. \A q \in Asked({end}) : \E i \in Ended(end) : f[i] = q
      BY DEF Asked, Ended
    <2>3. \A i \in Ended(end) : f[i] \in Asked({end})
      BY DEF Asked, Ended
    <2> QED  BY <2>1, <2>2, <2>3 DEF Bijection, Injection, Surjection, IsInjective
  <1> QED  BY <1>1, <1>2, FS_Bijection DEF ExistsBijection

LEMMA PushSound ==
    ASSUME PushAssumption, PushInv
    PROVE  PushIsSound
  <1>1. /\ Cardinality(Asked({"receipt"})) = Cardinality(Ended("receipt"))
        /\ Cardinality(Asked({"failure"})) = Cardinality(Ended("failure"))
    BY EndedPeers
  <1>2. /\ Cardinality(Ended("receipt")) \in Nat /\ Cardinality(Ended("failure")) \in Nat
        /\ success_count \in Nat /\ error_count \in Nat
    <2>1. \A end \in {"receipt", "failure"} : Ended(end) \in SUBSET (DOMAIN attempts)
      BY DEF Ended
    <2> QED  BY <2>1, PlacesFinite DEF PushInv, Types
  <1>3. Confirmations \in Nat /\ MaxErrors \in Nat
    BY DEF PushAssumption
  <1>4. /\ success_count <= Cardinality(Ended("receipt"))
        /\ error_count <= Cardinality(Ended("failure"))
        /\ at = "returned" => finished(success_count, error_count)
    BY DEF PushInv, ResultsAgree
  <1>5. at = "returned" =>
           IF success_count >= Confirmations
           THEN Cardinality(Asked({"receipt"})) >= Confirmations
           ELSE Cardinality(Asked({"failure"})) >= MaxErrors
    BY <1>1, <1>2, <1>3, <1>4 DEF finished
  <1> QED  BY <1>5 DEF PushIsSound, PushInv, ReservesAreHeld, UnderWay

(* Whatever naps, late results, pauses and departures come between, a push *)
(* that ends well has receipts of as many different peers as it needs and  *)
(* one that fails has failed with too many different ones; every reserve   *)
(* on an account is held by an attempt under way (push_chunk,              *)
(* reset_push_overdraft, pushsync_attempt).                                *)
THEOREM PushesSoundly ==
    ASSUME PushAssumption
    PROVE  Spec => []PushIsSound
  <1>1. Init => PushInv
    BY PushInit
  <1>2. PushInv /\ [Next]_vars => PushInv'
    BY PushStep
  <1>3. PushInv => PushIsSound
    BY PushSound
  <1> QED  BY <1>1, <1>2, <1>3, PTL DEF Spec

-----------------------------------------------------------------------------
(* An upload: what the dispatcher has of its chunks.                       *)

CONSTANTS ChunkSize, MaxShards, Parities, MaxLevels, Lengths, Replicas, StampWindow, Permits,
          MaxFailures
VARIABLES length, read, flush, purpose, window, todo, buffers, parent, slots, receipts, port,
          failures, total, nodes, cause
File == INSTANCE UploadData

\* What the dispatcher has of a chunk; what the sequence c of them counts.
Pushes == [stage : File!Stages, signalled : BOOLEAN]
Confirmed(c) == {k \in 1..Len(c) : c[k].stage = "confirmed"}
Given(c) == {k \in 1..Len(c) : c[k].signalled}

\* The port holds every chunk once at most, and none that is under way.
Tidy(c, p) ==
    /\ p \in Seq(Nat)
    /\ \A i \in 1..Len(p) : p[i] \in 1..Len(c) /\ c[p[i]].stage = "queued"
    /\ \A i, j \in 1..Len(p) : p[i] = p[j] => i = j

\* Receipts consumed were given, slots too.
Counted(c) ==
    /\ c \in Seq(Pushes)
    /\ {slots, receipts} \subseteq Nat
    /\ done = Cardinality(Confirmed(c))
    /\ receipts <= done /\ slots <= Cardinality(Given(c))

\* A window is full only while the producer waits for it.
Windowed(c) ==
    /\ Len(c) - slots <= SlotWindow
    /\ pc # "slot" => Len(c) - slots < SlotWindow
    /\ Len(c) - receipts <= ReceiptWindow
    /\ pc \notin {"slot", "receipt"} => Len(c) - receipts < ReceiptWindow

UploadInv ==
    /\ Counted(chunks) /\ Tidy(chunks, port) /\ Windowed(chunks)
    /\ pc = "done" => receipts = Len(chunks)

-----------------------------------------------------------------------------
(* Sequences of chunks.                                                    *)

LEMMA Countable ==
    ASSUME NEW c \in Seq(Pushes)
    PROVE  /\ IsFiniteSet(1..Len(c)) /\ Cardinality(1..Len(c)) = Len(c)
           /\ IsFiniteSet(Confirmed(c)) /\ Cardinality(Confirmed(c)) \in 0..Len(c)
           /\ IsFiniteSet(Given(c)) /\ Cardinality(Given(c)) \in 0..Len(c)
  <1>1. IsFiniteSet(1..Len(c)) /\ Cardinality(1..Len(c)) = Len(c)
    <2>1. PICK n \in Nat : n = Len(c)
      OBVIOUS
    <2>2. IsFiniteSet(1..n) /\ Cardinality(1..n) = n
      BY FS_Interval
    <2> QED  BY <2>1, <2>2
  <1>2. Confirmed(c) \subseteq 1..Len(c) /\ Given(c) \subseteq 1..Len(c)
    BY DEF Confirmed, Given
  <1>3. /\ IsFiniteSet(Confirmed(c)) /\ Cardinality(Confirmed(c)) <= Len(c)
        /\ IsFiniteSet(Given(c)) /\ Cardinality(Given(c)) <= Len(c)
    BY <1>1, <1>2, FS_Subset
  <1>4. Cardinality(Confirmed(c)) \in Nat /\ Cardinality(Given(c)) \in Nat
    BY <1>3, FS_CardinalityType
  <1> QED  BY <1>1, <1>3, <1>4

\* A chunk is queued.
LEMMA OneMore ==
    ASSUME NEW c \in Seq(Pushes),
           NEW d, d = Append(c, [stage |-> "queued", signalled |-> FALSE])
    PROVE  /\ d \in Seq(Pushes) /\ Len(d) = Len(c) + 1
           /\ \A k \in 1..Len(c) : d[k] = c[k]
           /\ d[Len(d)].stage = "queued"
           /\ Confirmed(d) = Confirmed(c) /\ Given(d) = Given(c)
  <1>1. [stage |-> "queued", signalled |-> FALSE] \in Pushes
    BY DEF Pushes, File!Stages
  <1>2. PICK r : r = [stage |-> "queued", signalled |-> FALSE]
    OBVIOUS
  <1>3. r \in Pushes /\ r.stage = "queued" /\ ~r.signalled
    BY <1>1, <1>2
  <1>4. /\ d \in Seq(Pushes) /\ Len(d) = Len(c) + 1
        /\ \A k \in 1..Len(c) : d[k] = c[k]
        /\ d[Len(d)] = r
    BY <1>2, <1>3
  <1>5. 1..Len(d) = 1..Len(c) \cup {Len(d)}
    BY <1>4
  <1>6. Confirmed(d) = Confirmed(c) /\ Given(d) = Given(c)
    BY <1>3, <1>4, <1>5 DEF Confirmed, Given
  <1> QED  BY <1>3, <1>4, <1>6

\* One chunk goes on to another stage.
LEMMA OneChanges ==
    ASSUME NEW c \in Seq(Pushes), NEW k \in 1..Len(c), NEW r \in Pushes,
           NEW d, d = [c EXCEPT ![k] = r]
    PROVE  /\ d \in Seq(Pushes) /\ Len(d) = Len(c)
           /\ d[k] = r
           /\ \A j \in 1..Len(c) : j # k => d[j] = c[j]
  OBVIOUS

LEMMA CountsKept ==
    ASSUME NEW c \in Seq(Pushes), NEW d \in Seq(Pushes), Len(d) = Len(c), NEW k \in 1..Len(c),
           \A j \in 1..Len(c) : j # k => d[j] = c[j],
           c[k].stage # "confirmed", c[k].signalled => d[k].signalled
    PROVE  /\ Cardinality(Confirmed(d)) =
                 Cardinality(Confirmed(c)) + (IF d[k].stage = "confirmed" THEN 1 ELSE 0)
           /\ Cardinality(Given(c)) <= Cardinality(Given(d))
  <1>1. IsFiniteSet(Confirmed(c)) /\ IsFiniteSet(Given(d))
    BY Countable
  <1>2. CASE d[k].stage = "confirmed"
    <2>1. Confirmed(d) = Confirmed(c) \cup {k} /\ k \notin Confirmed(c)
      BY <1>2 DEF Confirmed
    <2> QED
      <3>1. Cardinality(Confirmed(d)) = Cardinality(Confirmed(c)) + 1
        BY <1>1, <2>1, FS_AddElement
      <3>2. Given(c) \subseteq Given(d)
        BY DEF Given
      <3>3. Cardinality(Given(c)) <= Cardinality(Given(d))
        BY <1>1, <3>2, FS_Subset
      <3> QED  BY <1>2, <3>1, <3>3
  <1>3. CASE d[k].stage # "confirmed"
    <2>1. Confirmed(d) = Confirmed(c) /\ Given(c) \subseteq Given(d)
      BY <1>3 DEF Confirmed, Given
    <2>2. Cardinality(Given(c)) <= Cardinality(Given(d)) /\ Cardinality(Confirmed(c)) \in Nat
      BY <1>1, <2>1, FS_Subset, FS_CardinalityType
    <2> QED  BY <1>3, <2>1, <2>2
  <1> QED  BY <1>2, <1>3

\* What a push of a chunk that is not in the port does leaves the port tidy.
LEMMA StaysTidy ==
    ASSUME NEW c, NEW p, Tidy(c, p), NEW d, Len(d) = Len(c), NEW k \in 1..Len(c),
           \A j \in 1..Len(c) : j # k => d[j] = c[j],
           \A i \in 1..Len(p) : p[i] # k
    PROVE  Tidy(d, p)
  BY DEF Tidy

LEMMA GrowsTidy ==
    ASSUME NEW c, NEW p, Tidy(c, p), NEW d, Len(c) \in Nat, Len(d) = Len(c) + 1,
           \A j \in 1..Len(c) : d[j] = c[j]
    PROVE  Tidy(d, p) /\ \A i \in 1..Len(p) : p[i] # Len(d)
  BY DEF Tidy

LEMMA TailIsTidy ==
    ASSUME NEW c, NEW p, Tidy(c, p), p # <<>>
    PROVE  /\ Head(p) \in 1..Len(c) /\ c[Head(p)].stage = "queued"
           /\ Tidy(c, Tail(p))
           /\ \A i \in 1..Len(Tail(p)) : Tail(p)[i] # Head(p)
  <1>1. /\ p \in Seq(Nat) /\ Len(p) \in Nat \ {0} /\ Head(p) = p[1]
        /\ Tail(p) \in Seq(Nat) /\ Len(Tail(p)) = Len(p) - 1
        /\ \A i \in 1..Len(Tail(p)) : Tail(p)[i] = p[i + 1]
    BY DEF Tidy
  <1>2. \A i \in 1..Len(Tail(p)) : i + 1 \in 1..Len(p) /\ i + 1 # 1
    BY <1>1
  <1>3. 1 \in 1..Len(p)
    BY <1>1
  <1>4. \A i \in 1..Len(Tail(p)) : Tail(p)[i] # Head(p)
    BY <1>1, <1>2, <1>3 DEF Tidy
  <1>5. \A i, j \in 1..Len(Tail(p)) : Tail(p)[i] = Tail(p)[j] => i = j
    <2>1. ASSUME NEW i \in 1..Len(Tail(p)), NEW j \in 1..Len(Tail(p)), Tail(p)[i] = Tail(p)[j]
          PROVE  i = j
      <3>1. p[i + 1] = p[j + 1]
        BY <1>1, <2>1
      <3>2. i + 1 = j + 1
        BY <1>2, <3>1 DEF Tidy
      <3> QED  BY <1>1, <3>2
    <2> QED  BY <2>1
  <1>6. Tidy(c, Tail(p))
    BY <1>1, <1>2, <1>5 DEF Tidy
  <1> QED  BY <1>1, <1>3, <1>4, <1>6 DEF Tidy

LEMMA OneMoreInPort ==
    ASSUME NEW c, NEW p, Tidy(c, p), NEW k \in Nat, k \in 1..Len(c), c[k].stage = "queued",
           \A i \in 1..Len(p) : p[i] # k
    PROVE  Tidy(c, Append(p, k))
  <1>1. PICK q : q = Append(p, k)
    OBVIOUS
  <1>2. /\ q \in Seq(Nat) /\ Len(p) \in Nat /\ Len(q) = Len(p) + 1 /\ q[Len(p) + 1] = k
        /\ \A i \in 1..Len(p) : q[i] = p[i]
    BY <1>1 DEF Tidy
  <1>3. \A i \in 1..Len(q) : i \in 1..Len(p) \/ i = Len(p) + 1
    BY <1>2
  <1>4. Tidy(c, q)
    BY <1>2, <1>3 DEF Tidy
  <1> QED  BY <1>1, <1>4

-----------------------------------------------------------------------------
(* The producer.                                                           *)

LEMMA SameCardinality == \A S : File!Cardinality(S) = Cardinality(S)
  BY DEF File!Cardinality, Cardinality

LEMMA Names ==
    /\ File!Chunk = 1..Len(chunks) /\ Chunk = 1..Len(chunks)
    /\ In({"confirmed"}) = Confirmed(chunks) /\ Signalled = Given(chunks)
    /\ File!Signalled = Given(chunks)
    /\ File!Steps = {"read", "flush", "slot", "receipt", "insert", "drain", "done", "failed"}
  BY DEF File!Chunk, Chunk, In, Confirmed, Signalled, File!Signalled, Given, File!Steps

\* What a file is cut into and put together from is none of the dispatcher's
\* business.
LEMMA BuildsQuietly ==
    ASSUME UploadInv,
           File!ReadLeaves \/ File!Flushed \/ File!Insert \/ File!Inserted \/ File!Close
              \/ File!Root
    PROVE  UploadInv'
  <1>1. /\ pc \notin {"slot", "receipt"}
        /\ pc' \notin {"slot", "receipt", "done"}
        /\ UNCHANGED <<chunks, port, done, slots, receipts>>
    <2>1. CASE File!ReadLeaves
      BY <2>1 DEF File!ReadLeaves, File!Fail, File!Flush, File!pushes
    <2>2. CASE File!Flushed
      BY <2>2 DEF File!Flushed, File!Flush, File!pushes
    <2>3. CASE File!Insert
      BY <2>3 DEF File!Insert, File!Build, File!Fail, File!Flush, File!pushes
    <2>4. CASE File!Inserted
      BY <2>4 DEF File!Inserted, File!pushes
    <2>5. CASE File!Close
      BY <2>5 DEF File!Close, File!Build, File!Fail, File!Flush, File!pushes
    <2>6. CASE File!Root
      BY <2>6 DEF File!Root, File!Flush, File!pushes
    <2> QED  BY <2>1, <2>2, <2>3, <2>4, <2>5, <2>6
  <1> QED  BY <1>1 DEF UploadInv, Counted, Windowed

LEMMA QueuesSoundly ==
    ASSUME UploadInv, File!Queue
    PROVE  UploadInv'
  <1>1. PICK c, d, p : c = chunks /\ d = chunks' /\ p = port
    OBVIOUS
  <1>2. /\ c \in Seq(Pushes) /\ Tidy(c, p) /\ {slots, receipts} \subseteq Nat
        /\ Len(c) - slots < SlotWindow /\ Len(c) - receipts < ReceiptWindow
        /\ UNCHANGED <<done, slots, receipts>> /\ pc = "flush"
    BY <1>1 DEF UploadInv, Counted, Windowed, File!Queue
  <1>3. CASE pc' = "failed" /\ UNCHANGED <<chunks, port>>
    BY <1>2, <1>3 DEF UploadInv, Counted, Windowed
  <1>4. CASE /\ d = Append(c, [stage |-> "queued", signalled |-> FALSE])
             /\ port' = Append(p, Len(d))
             /\ pc' = IF Len(c) + 1 - slots >= SlotWindow THEN "slot" ELSE "receipt"
    <2>1. /\ d \in Seq(Pushes) /\ Len(d) = Len(c) + 1
          /\ \A k \in 1..Len(c) : d[k] = c[k]
          /\ d[Len(d)].stage = "queued"
          /\ Confirmed(d) = Confirmed(c) /\ Given(d) = Given(c)
      BY <1>2, <1>4, OneMore
    <2>2. Len(c) \in Nat /\ Len(d) \in Nat
      BY <1>2, <2>1
    <2>3. Tidy(d, p) /\ \A i \in 1..Len(p) : p[i] # Len(d)
      BY <1>2, <2>1, <2>2, GrowsTidy
    <2>5. Tidy(d, Append(p, Len(d)))
      BY <2>1, <2>2, <2>3, OneMoreInPort
    <2>6. Counted(chunks)'
      BY <1>1, <1>2, <2>1 DEF UploadInv, Counted
    <2>7. Windowed(chunks)'
      <3>1. {SlotWindow, ReceiptWindow} \subseteq Nat \ {0}
        BY WindowAssumption
      <3> QED  BY <1>1, <1>2, <1>4, <2>1, <2>2, <3>1 DEF Windowed
    <2>8. pc' # "done"
      BY <1>4
    <2> QED  BY <1>1, <1>4, <2>5, <2>6, <2>7, <2>8 DEF UploadInv
  <1> QED  BY <1>1, <1>3, <1>4 DEF File!Queue, File!Fail

LEMMA WaitsSoundly ==
    ASSUME UploadInv, File!TakeSlot \/ File!TakeReceipt \/ File!Drain
    PROVE  UploadInv'
  <1>1. /\ {slots, receipts} \subseteq Nat /\ {SlotWindow, ReceiptWindow} \subseteq Nat \ {0}
        /\ Len(chunks) \in Nat
        /\ Cardinality(Given(chunks)) \in Nat /\ done \in Nat
    BY WindowAssumption, Countable DEF UploadInv, Counted
  <1>2. UNCHANGED <<chunks, port, done>>
    BY DEF File!TakeSlot, File!TakeReceipt, File!Drain, File!pushes
  <1>3. CASE File!TakeSlot
    <2>1. /\ pc = "slot" /\ pc' = "receipt" /\ slots' = slots + 1 /\ receipts' = receipts
          /\ slots < Cardinality(Given(chunks))
      BY <1>3, Names, SameCardinality DEF File!TakeSlot
    <2> QED  BY <1>1, <1>2, <2>1 DEF UploadInv, Counted, Windowed
  <1>4. CASE File!TakeReceipt
    <2>1. /\ pc = "receipt" /\ pc' = "flush" /\ slots' = slots
          /\ File!Full => receipts < done /\ receipts' = receipts + 1
          /\ ~File!Full => receipts' = receipts
          /\ File!Full <=> Len(chunks) - receipts >= ReceiptWindow
      BY <1>4 DEF File!TakeReceipt, File!Full
    <2> QED  BY <1>1, <1>2, <2>1 DEF UploadInv, Counted, Windowed
  <1>5. CASE File!Drain
    <2>1. /\ pc = "drain" /\ slots' = slots
          /\ \/ receipts = Len(chunks) /\ pc' = "done" /\ receipts' = receipts
             \/ receipts < done /\ receipts' = receipts + 1 /\ pc' = pc
      BY <1>5 DEF File!Drain
    <2> QED  BY <1>1, <1>2, <2>1 DEF UploadInv, Counted, Windowed
  <1> QED  BY <1>3, <1>4, <1>5

-----------------------------------------------------------------------------
(* The dispatcher and its tasks.                                           *)

\* A chunk that is not in the port goes on.
LEMMA GoesOn ==
    ASSUME UploadInv, NEW k \in 1..Len(chunks), NEW r \in Pushes,
           chunks' = [chunks EXCEPT ![k] = r],
           chunks[k].stage # "confirmed", chunks[k].signalled => r.signalled,
           done' = done + (IF r.stage = "confirmed" THEN 1 ELSE 0),
           UNCHANGED <<pc, slots, receipts>>,
           Tidy(chunks', port')
    PROVE  UploadInv'
  <1>1. PICK c, d : c = chunks /\ d = chunks'
    OBVIOUS
  <1>2. /\ d \in Seq(Pushes) /\ Len(d) = Len(c) /\ d[k] = r
        /\ \A j \in 1..Len(c) : j # k => d[j] = c[j]
    BY <1>1, OneChanges DEF UploadInv, Counted
  <1>3. c \in Seq(Pushes)
    BY <1>1 DEF UploadInv, Counted
  <1>4. /\ Cardinality(Confirmed(d)) =
              Cardinality(Confirmed(c)) + (IF d[k].stage = "confirmed" THEN 1 ELSE 0)
        /\ Cardinality(Given(c)) <= Cardinality(Given(d))
    <2>1. k \in 1..Len(c) /\ c[k].stage # "confirmed" /\ (c[k].signalled => d[k].signalled)
      BY <1>1, <1>2
    <2> QED  BY <1>2, <1>3, <2>1, CountsKept
  <1>5. /\ Cardinality(Confirmed(c)) \in Nat
        /\ Cardinality(Given(c)) \in Nat /\ Cardinality(Given(d)) \in Nat
    BY <1>2, <1>3, Countable
  <1>6. Counted(chunks)'
    BY <1>1, <1>2, <1>4, <1>5 DEF UploadInv, Counted
  <1>7. Windowed(chunks)' /\ (pc' = "done" => receipts' = Len(chunks'))
    BY <1>1, <1>2 DEF UploadInv, Windowed
  <1> QED  BY <1>6, <1>7 DEF UploadInv

\* SetStage says so of a stage.
LEMMA StageSet ==
    ASSUME NEW c \in Seq(Pushes), NEW k \in 1..Len(c), NEW stage \in File!Stages
    PROVE  \E r \in Pushes : /\ [c EXCEPT ![k].stage = stage] = [c EXCEPT ![k] = r]
                             /\ r.stage = stage
                             /\ r.signalled <=> c[k].signalled
  <1>1. PICK r : r = [c[k] EXCEPT !.stage = stage]
    OBVIOUS
  <1>2. c[k] \in Pushes
    OBVIOUS
  <1>3. r \in Pushes /\ r.stage = stage /\ (r.signalled <=> c[k].signalled)
    BY <1>1, <1>2 DEF Pushes
  <1>4. [c EXCEPT ![k].stage = stage] = [c EXCEPT ![k] = r]
    BY <1>1
  <1> QED  BY <1>3, <1>4

LEMMA DispatchesSoundly ==
    ASSUME UploadInv, File!Dispatch
    PROVE  UploadInv'
  <1>1. PICK c, p, k : c = chunks /\ p = port /\ k = Head(port)
    OBVIOUS
  <1>2. c \in Seq(Pushes) /\ Tidy(c, p) /\ p # <<>>
    BY <1>1 DEF UploadInv, Counted, File!Dispatch
  <1>3. /\ k \in 1..Len(c) /\ c[k].stage = "queued"
        /\ Tidy(c, Tail(p)) /\ \A i \in 1..Len(Tail(p)) : Tail(p)[i] # k
    BY <1>1, <1>2, TailIsTidy
  <1>4. /\ port' = Tail(p) /\ UNCHANGED <<pc, slots, receipts, done>>
        /\ \/ chunks' = [c EXCEPT ![k] = [stage |-> "dropped", signalled |-> TRUE]]
           \/ chunks' = [c EXCEPT ![k].stage = "pushing"]
    BY <1>1 DEF File!Dispatch, File!producer, File!SetStage
  <1>5. PICK r \in Pushes : /\ chunks' = [c EXCEPT ![k] = r]
                            /\ r.stage # "confirmed" /\ (c[k].signalled => r.signalled)
    <2>1. CASE chunks' = [c EXCEPT ![k] = [stage |-> "dropped", signalled |-> TRUE]]
      <3>1. PICK r : r = [stage |-> "dropped", signalled |-> TRUE]
        OBVIOUS
      <3>2. r \in Pushes /\ r.stage # "confirmed" /\ r.signalled
        BY <3>1 DEF Pushes, File!Stages
      <3> QED  BY <2>1, <3>1, <3>2
    <2>2. CASE chunks' = [c EXCEPT ![k].stage = "pushing"]
      <3>1. "pushing" \in File!Stages
        BY DEF File!Stages
      <3>2. PICK r \in Pushes : /\ [c EXCEPT ![k].stage = "pushing"] = [c EXCEPT ![k] = r]
                                /\ r.stage = "pushing"
                                /\ r.signalled <=> c[k].signalled
        BY <1>2, <1>3, <3>1, StageSet
      <3> QED  BY <2>2, <3>2
    <2> QED  BY <1>4, <2>1, <2>2
  <1>6. PICK d : d = chunks'
    OBVIOUS
  <1>7. Tidy(d, Tail(p))
    <2>1. Len(d) = Len(c) /\ \A j \in 1..Len(c) : j # k => d[j] = c[j]
      BY <1>2, <1>3, <1>5, <1>6, OneChanges
    <2>2. PICK q : q = Tail(p)
      OBVIOUS
    <2>3. Tidy(c, q) /\ \A i \in 1..Len(q) : q[i] # k
      BY <1>3, <2>2
    <2>4. Tidy(d, q)
      BY <1>3, <2>1, <2>3, StaysTidy
    <2> QED  BY <2>2, <2>4
  <1>8. done' = done + (IF r.stage = "confirmed" THEN 1 ELSE 0)
    <2>1. done \in Nat
      BY <1>1, <1>2, Countable DEF UploadInv, Counted
    <2> QED  BY <1>4, <1>5, <2>1
  <1> QED  BY <1>1, <1>3, <1>4, <1>5, <1>6, <1>7, <1>8, GoesOn

\* A push under way ends, or waits to be queued again.
LEMMA TasksEndSoundly ==
    ASSUME UploadInv, NEW k \in File!Chunk,
           File!Pushed(k) \/ File!Starve(k) \/ File!Checked(k) \/ File!Retry(k)
    PROVE  UploadInv'
  <1>1. PICK c, p : c = chunks /\ p = port
    OBVIOUS
  <1>2. c \in Seq(Pushes) /\ Tidy(c, p) /\ k \in 1..Len(c)
    BY <1>1, Names DEF UploadInv, Counted
  <1>3. /\ c[k].stage \in {"pushing", "checking", "waiting", "retry"}
        /\ UNCHANGED <<pc, slots, receipts>>
    BY <1>1 DEF File!Pushed, File!Starve, File!Checked, File!Retry, File!In, File!producer
  <1>4. \A i \in 1..Len(p) : p[i] # k
    BY <1>2, <1>3 DEF Tidy
  <1>5. \/ /\ \E stage \in {"checking", "dropped", "retry"} :
                 chunks' = [c EXCEPT ![k] = [stage |-> stage, signalled |-> TRUE]]
           /\ done' = done /\ port' = p
        \/ /\ \E stage \in {"waiting", "dropped", "retry"} :
                 chunks' = [c EXCEPT ![k].stage = stage]
           /\ done' = done /\ port' = p
        \/ /\ chunks' = [c EXCEPT ![k].stage = "confirmed"]
           /\ done' = done + 1 /\ port' = p
        \/ /\ chunks' = [c EXCEPT ![k].stage = "queued"]
           /\ done' = done /\ port' = Append(p, k)
    <2>1. CASE File!Pushed(k)
      BY <1>1, <2>1 DEF File!Pushed, File!AfterFailure
    <2>2. CASE File!Checked(k)
      BY <1>1, <2>2 DEF File!Checked, File!Confirm, File!AfterFailure, File!SetStage
    <2>3. CASE File!Retry(k)
      BY <1>1, <2>3 DEF File!Retry, File!SetStage
    <2>4. CASE File!Starve(k)
      BY <1>1, <2>4 DEF File!Starve, File!SetStage
    <2> QED  BY <2>1, <2>2, <2>3, <2>4
  <1>6. PICK r \in Pushes :
           /\ chunks' = [c EXCEPT ![k] = r]
           /\ c[k].signalled => r.signalled
           /\ \/ r.stage = "confirmed" /\ done' = done + 1 /\ port' = p
              \/ r.stage # "confirmed" /\ done' = done /\ port' = p
              \/ r.stage = "queued" /\ done' = done /\ port' = Append(p, k)
    <2>1. ASSUME NEW stage \in {"checking", "dropped", "retry"},
                 chunks' = [c EXCEPT ![k] = [stage |-> stage, signalled |-> TRUE]]
          PROVE  \E r \in Pushes : /\ chunks' = [c EXCEPT ![k] = r]
                                   /\ r.signalled /\ r.stage # "confirmed"
      <3>1. PICK r : r = [stage |-> stage, signalled |-> TRUE]
        OBVIOUS
      <3>2. r \in Pushes /\ r.stage # "confirmed" /\ r.signalled
        BY <3>1 DEF Pushes, File!Stages
      <3> QED  BY <2>1, <3>1, <3>2
    <2>2. ASSUME NEW stage \in File!Stages, chunks' = [c EXCEPT ![k].stage = stage]
          PROVE  \E r \in Pushes : /\ chunks' = [c EXCEPT ![k] = r]
                                   /\ c[k].signalled => r.signalled
                                   /\ r.stage = stage
      <3>1. PICK r : r = [c[k] EXCEPT !.stage = stage]
        OBVIOUS
      <3>2. c[k] \in Pushes
        BY <1>2
      <3>3. r \in Pushes /\ r.stage = stage /\ (r.signalled <=> c[k].signalled)
        BY <3>1, <3>2 DEF Pushes
      <3>4. chunks' = [c EXCEPT ![k] = r]
        BY <2>2, <3>1
      <3> QED  BY <3>3, <3>4
    <2>3. {"confirmed", "waiting", "dropped", "retry", "queued"} \subseteq File!Stages
      BY DEF File!Stages
    <2>4. CASE /\ \E stage \in {"checking", "dropped", "retry"} :
                     chunks' = [c EXCEPT ![k] = [stage |-> stage, signalled |-> TRUE]]
               /\ done' = done /\ port' = p
      BY <2>1, <2>4
    <2>5. CASE /\ \E stage \in {"waiting", "dropped", "retry"} :
                     chunks' = [c EXCEPT ![k].stage = stage]
               /\ done' = done /\ port' = p
      <3>1. PICK stage \in {"waiting", "dropped", "retry"} : chunks' = [c EXCEPT ![k].stage = stage]
        BY <2>5
      <3>2. stage \in File!Stages /\ stage # "confirmed"
        BY <2>3, <3>1
      <3> QED  BY <2>2, <2>5, <3>1, <3>2
    <2>6. CASE chunks' = [c EXCEPT ![k].stage = "confirmed"] /\ done' = done + 1 /\ port' = p
      BY <2>2, <2>3, <2>6
    <2>7. CASE /\ chunks' = [c EXCEPT ![k].stage = "queued"]
               /\ done' = done /\ port' = Append(p, k)
      BY <2>2, <2>3, <2>7
    <2> QED  BY <1>5, <2>4, <2>5, <2>6, <2>7
  <1>7. PICK d : d = chunks'
    OBVIOUS
  <1>8. Tidy(d, port')
    <2>1. Len(d) = Len(c) /\ d[k] = r /\ \A j \in 1..Len(c) : j # k => d[j] = c[j]
      BY <1>2, <1>6, <1>7, OneChanges
    <2>2. Tidy(d, p)
      BY <1>2, <1>4, <2>1, StaysTidy
    <2>3. CASE port' = p
      BY <2>2, <2>3
    <2>4. CASE r.stage = "queued" /\ port' = Append(p, k)
      <3>1. k \in Nat /\ k \in 1..Len(d) /\ d[k].stage = "queued"
        BY <1>2, <2>1, <2>4
      <3>2. Tidy(d, Append(p, k))
        BY <1>4, <2>2, <3>1, OneMoreInPort
      <3> QED  BY <2>4, <3>2
    <2> QED  BY <1>6, <2>3, <2>4
  <1>9. done' = done + (IF r.stage = "confirmed" THEN 1 ELSE 0)
    <2>1. done \in Nat
      BY <1>1, <1>2, Countable DEF UploadInv, Counted
    <2> QED  BY <1>6, <2>1
  <1> QED  BY <1>1, <1>2, <1>3, <1>6, <1>7, <1>8, <1>9, GoesOn

-----------------------------------------------------------------------------
(* Every step.                                                             *)

LEMMA UploadStarts ==
    ASSUME File!Init
    PROVE  UploadInv
  <1>1. /\ chunks = <<>> /\ port = <<>> /\ pc = "read"
        /\ done = 0 /\ slots = 0 /\ receipts = 0
    BY DEF File!Init
  <1>2. chunks \in Seq(Pushes) /\ Len(chunks) = 0
    BY <1>1
  <1>3. Confirmed(chunks) = {} /\ Given(chunks) = {}
    BY <1>2 DEF Confirmed, Given
  <1>4. Counted(chunks)
    <2>1. Cardinality(Confirmed(chunks)) = 0 /\ Cardinality(Given(chunks)) = 0
      BY <1>3, FS_EmptySet
    <2> QED  BY <1>1, <1>2, <2>1 DEF Counted
  <1>5. Tidy(chunks, port)
    BY <1>1 DEF Tidy
  <1>6. Windowed(chunks)
    BY <1>1, <1>2, WindowAssumption DEF Windowed
  <1> QED  BY <1>1, <1>4, <1>5, <1>6 DEF UploadInv

LEMMA UploadStep ==
    ASSUME UploadInv, [File!Next]_(File!vars)
    PROVE  UploadInv'
  <1>1. CASE File!Producer
    BY <1>1, BuildsQuietly, QueuesSoundly, WaitsSoundly DEF File!Producer
  <1>2. CASE File!Dispatch
    BY <1>2, DispatchesSoundly
  <1>3. CASE File!Task
    BY <1>3, TasksEndSoundly DEF File!Task
  <1>4. CASE UNCHANGED File!vars
    BY <1>4 DEF File!vars, File!producer, File!pushes, UploadInv, Counted, Windowed
  <1> QED  BY <1>1, <1>2, <1>3, <1>4 DEF File!Next

LEMMA UploadInvHolds == File!Spec => []UploadInv
  <1>1. File!Init => UploadInv
    BY UploadStarts
  <1>2. UploadInv /\ [File!Next]_(File!vars) => UploadInv'
    BY UploadStep
  <1> QED  BY <1>1, <1>2, PTL DEF File!Spec

\* For a file of any length, any windows and any pushes that fail: a reference
\* is returned only when every chunk that was queued is confirmed.
THEOREM OnlyConfirmedFiles == File!Spec => []ReferenceIsConfirmed
  <1>1. ASSUME UploadInv, pc = "done"
        PROVE  In({"confirmed"}) = Chunk /\ done = Len(chunks)
    <2>1. PICK c : c = chunks
      OBVIOUS
    <2>2. /\ c \in Seq(Pushes) /\ done = Cardinality(Confirmed(c)) /\ receipts = Len(c)
          /\ receipts <= done
      BY <1>1, <2>1 DEF UploadInv, Counted
    <2>3. /\ IsFiniteSet(1..Len(c)) /\ Cardinality(1..Len(c)) = Len(c)
          /\ Cardinality(Confirmed(c)) \in 0..Len(c) /\ Len(c) \in Nat
      BY <2>2, Countable
    <2>4. done = Len(c)
      BY <2>2, <2>3
    <2>5. Confirmed(c) \subseteq 1..Len(c)
      BY DEF Confirmed
    <2>6. Confirmed(c) = 1..Len(c)
      BY <2>2, <2>3, <2>4, <2>5, FS_Subset
    <2> QED  BY <2>1, <2>4, <2>6, Names
  <1>2. UploadInv => ReferenceIsConfirmed
    BY <1>1 DEF ReferenceIsConfirmed
  <1> QED  BY <1>2, UploadInvHolds, PTL

\* Whichever chunks are slow, those in the hands of the dispatcher stay within
\* the windows, for any windows.
THEOREM UploadsStayInWindows == File!Spec => []WindowsHold
  <1>1. ASSUME UploadInv
        PROVE  WindowsHold
    <2>1. PICK c : c = chunks
      OBVIOUS
    <2>2. /\ c \in Seq(Pushes) /\ done = Cardinality(Confirmed(c))
          /\ receipts <= done /\ slots <= Cardinality(Given(c))
          /\ {slots, receipts} \subseteq Nat
          /\ Len(c) - slots <= SlotWindow /\ Len(c) - receipts <= ReceiptWindow
      BY <1>1, <2>1 DEF UploadInv, Counted, Windowed
    <2>3. PICK n, A, C, G : n = Len(c) /\ A = 1..Len(c) /\ C = Confirmed(c) /\ G = Given(c)
      OBVIOUS
    <2>4. /\ IsFiniteSet(A) /\ Cardinality(A) = n /\ n \in Nat
          /\ Cardinality(C) \in Nat /\ Cardinality(G) \in Nat
      BY <2>2, <2>3, Countable
    <2>5. A \cap C = C /\ A \cap G = G
      BY <2>3 DEF Confirmed, Given
    <2>6. /\ Cardinality(A \ C) = n - Cardinality(C)
          /\ Cardinality(A \ G) = n - Cardinality(G)
      <3>1. /\ Cardinality(A \ C) = Cardinality(A) - Cardinality(A \cap C)
            /\ Cardinality(A \ G) = Cardinality(A) - Cardinality(A \cap G)
        BY <2>4, FS_Difference
      <3> QED  BY <2>4, <2>5, <3>1
    <2>7. SlotWindow \in Nat /\ ReceiptWindow \in Nat
      BY WindowAssumption
    <2>8. slots \in Nat /\ receipts \in Nat /\ n - slots <= SlotWindow
          /\ n - receipts <= ReceiptWindow /\ slots <= Cardinality(G)
          /\ receipts <= Cardinality(C)
      BY <2>2, <2>3
    <2>9. Cardinality(A \ G) <= SlotWindow /\ Cardinality(A \ C) <= ReceiptWindow
      BY <2>4, <2>6, <2>7, <2>8
    <2>10. Chunk = A /\ Signalled = G /\ In({"confirmed"}) = C
      BY <2>1, <2>3, Names
    <2> QED  BY <2>9, <2>10 DEF WindowsHold
  <1> QED  BY <1>1, UploadInvHolds, PTL
=============================================================================
