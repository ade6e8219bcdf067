--------------------------- MODULE RetrieveProofs ---------------------------
(***************************************************************************)
(* Proofs about one chunk request (RetrieveChunk), for any number of       *)
(* peers, sessions and attempts: whom it asks, what it holds on their      *)
(* accounts, what it may report missing, and that it keeps the promise of  *)
(* ChunkRequest; then about two readers that such requests serve: the      *)
(* search for the end of a feed (FeedFrontier), and the byte ranges of a   *)
(* media file (MediaRanges).                                               *)
(***************************************************************************)
EXTENDS RetrieveChunk, FeedEnd, MediaKept, FiniteSetTheorems, WellFoundedInduction, TLAPS

VARIABLES level_limit, known_missing, answers, sent
Feed == INSTANCE FeedFrontier

CONSTANTS
    Size, WindowBytes, StartupBytes, ActiveBytes, KeepAhead, SeekGap, Stages, MaxParallel,
    Starts, Stops, MediaRequests, Prefetchers, Generations, FirstGeneration,
    MaxRequests, MaxGenerations, MaxFaults
VARIABLES sequence, cached, asked, seeks, faults
Media == INSTANCE MediaRanges WITH Requests <- MediaRequests

Attempt == [peer : Peer, session : Nat \ {0}, outcome : Outcome \cup {"out"},
            received : BOOLEAN]
Failing == {"Failed", "TimedOut"}

Types ==
    /\ standing \in [Peer -> {"absent", "selectable", "retiring"}]
    /\ session \in [Peer -> Nat]
    /\ \A p \in Peer : standing[p] /= "absent" => session[p] > 0
    /\ open \in BOOLEAN /\ paused \in BOOLEAN /\ managed \in BOOLEAN
    /\ remaining \in Nat /\ confirmed_empty \in Nat /\ in_flight \in Nat
    /\ pc \in {"loop", "paused", "wait", "done"}
    /\ skiplist \in [Peer -> Int]
    /\ attempts \in Seq(Attempt)
    /\ reserved \in [Peer -> Nat]
    /\ answer \in {"none", "Found", "Empty"}

(* The attempts by what became of them.                                    *)
Out == {i \in DOMAIN attempts : attempts[i].outcome = "out"}
OutAt(p) == {i \in DOMAIN attempts : attempts[i].peer = p /\ attempts[i].outcome = "out"}
Unread == {i \in DOMAIN attempts : ~attempts[i].received}
Empties == {i \in DOMAIN attempts : attempts[i].outcome = "Empty"}

(* Of the attempts on a peer all but the last were read and had failed,    *)
(* each over an earlier session than the next.                             *)
AskedInOrder ==
    \A i, j \in DOMAIN attempts :
        i < j /\ attempts[i].peer = attempts[j].peer =>
            /\ attempts[i].received /\ attempts[i].outcome \in Failing
            /\ attempts[i].session < attempts[j].session

(* The skip list knows every attempt: an entry with a session says that    *)
(* all exchanges over sessions up to it have failed and were read.         *)
SkiplistKnows ==
    /\ \A p \in Peer : Free <= skiplist[p] /\ skiplist[p] <= session[p]
    /\ \A i \in DOMAIN attempts :
          LET p == attempts[i].peer
          IN  /\ Asked <= skiplist[p] /\ attempts[i].session <= session[p]
              /\ Asked < skiplist[p] =>
                    /\ attempts[i].received /\ attempts[i].outcome \in Failing
                    /\ attempts[i].session <= skiplist[p]

CountsAgree ==
    /\ ReservesAreOut
    /\ \A i \in Out : ~attempts[i].received
    /\ in_flight = Cardinality(Unread)
    /\ ManagedIsSerial
    /\ Budget = remaining + Len(attempts)
    /\ confirmed_empty = Cardinality(Empties)

AnswersOnce ==
    /\ pc = "done" <=> answer /= "none"
    /\ pc = "paused" => in_flight = 0

RequestInv == Types /\ AskedInOrder /\ SkiplistKnows /\ CountsAgree /\ AnswersOnce

-----------------------------------------------------------------------------
(* Sets of attempts are finite; one attempt that changes sides changes a   *)
(* count by one.                                                           *)

LEMMA AttemptsFinite ==
    ASSUME attempts \in Seq(Attempt), NEW S, S \in SUBSET (DOMAIN attempts)
    PROVE  /\ DOMAIN attempts = 1..Len(attempts) /\ Len(attempts) \in Nat
           /\ IsFiniteSet(S) /\ Cardinality(S) \in Nat
           /\ Cardinality(S) <= Len(attempts)
           /\ Cardinality(S) = Len(attempts) => S = DOMAIN attempts
           /\ Cardinality(S) = 0 => S = {}
  <1>1. DOMAIN attempts = 1..Len(attempts) /\ Len(attempts) \in Nat
    OBVIOUS
  <1>2. IsFiniteSet(1..Len(attempts)) /\ Cardinality(1..Len(attempts)) = Len(attempts)
    <2>1. \A n \in Nat : IsFiniteSet(1..n) /\ Cardinality(1..n) = n
      BY FS_Interval
    <2> QED  BY <1>1, <2>1
  <1>3. /\ IsFiniteSet(S) /\ Cardinality(S) <= Cardinality(1..Len(attempts))
        /\ Cardinality(1..Len(attempts)) = Cardinality(S) => 1..Len(attempts) = S
    BY <1>1, <1>2, FS_Subset
  <1> QED  BY <1>1, <1>2, <1>3, FS_CardinalityType, FS_EmptySet

LEMMA AttemptFacts ==
    ASSUME attempts \in Seq(Attempt), NEW i \in DOMAIN attempts
    PROVE  /\ attempts[i] \in Attempt
           /\ attempts[i].peer \in Peer /\ attempts[i].session \in Nat \ {0}
           /\ attempts[i].outcome \in Outcome \cup {"out"}
           /\ attempts[i].received \in BOOLEAN
  <1>1. attempts[i] \in Attempt
    OBVIOUS
  <1> QED  BY <1>1 DEF Attempt

LEMMA Loses ==
    ASSUME NEW S, IsFiniteSet(S), NEW x \in S
    PROVE  /\ Cardinality(S \ {x}) = Cardinality(S) - 1
           /\ Cardinality(S) \in Nat \ {0} /\ Cardinality(S \ {x}) \in Nat
  <1>1. IsFiniteSet(S \ {x}) /\ Cardinality(S \ {x}) = Cardinality(S) - 1
    BY FS_RemoveElement
  <1>2. Cardinality(S) \in Nat /\ Cardinality(S \ {x}) \in Nat
    BY <1>1, FS_CardinalityType
  <1>3. Cardinality(S) /= 0
    BY FS_EmptySet
  <1> QED  BY <1>1, <1>2, <1>3

LEMMA Gains ==
    ASSUME NEW S, IsFiniteSet(S), NEW x, x \notin S
    PROVE  /\ Cardinality(S \cup {x}) = Cardinality(S) + 1
           /\ Cardinality(S) \in Nat
  BY FS_AddElement, FS_CardinalityType

-----------------------------------------------------------------------------
LEMMA InitRequest == Init => RequestInv
  <1> SUFFICES ASSUME Init PROVE RequestInv
    OBVIOUS
  <1>1. Types
    BY RetrieveAssumption DEF Init, Types, Free
  <1>2. Out = {} /\ Unread = {} /\ Empties = {} /\ (\A p \in Peer : OutAt(p) = {})
    BY DEF Init, Out, OutAt, Unread, Empties
  <1>3. CountsAgree
    BY <1>2, FS_EmptySet, RetrieveAssumption
    DEF Init, CountsAgree, ReservesAreOut, ManagedIsSerial, Out, OutAt, Unread, Empties
  <1>4. AskedInOrder /\ SkiplistKnows
    <2>1. \A p \in Peer : Free <= session[p]
      BY DEF Init, Free
    <2> QED  BY <2>1 DEF Init, AskedInOrder, SkiplistKnows, Free
  <1>5. AnswersOnce
    BY DEF Init, AnswersOnce
  <1> QED  BY <1>1, <1>3, <1>4, <1>5 DEF RequestInv

-----------------------------------------------------------------------------
(* What surrounds the request: peers, sessions and credit, its owner, the  *)
(* clock.  None of these steps touches an attempt.                         *)

LEMMA PeersChangeKeeps == RequestInv /\ PeersChange => RequestInv'
  <1> SUFFICES ASSUME RequestInv, PeersChange PROVE RequestInv'
    OBVIOUS
  <1> USE DEF RequestInv
  <1>1. UNCHANGED <<control, counters, loop, attempts>>
    BY DEF PeersChange
  <1>2. /\ standing' \in [Peer -> {"absent", "selectable", "retiring"}]
        /\ session' \in [Peer -> Nat]
        /\ \A p \in Peer : session[p] <= session'[p]
        /\ \A p \in Peer : standing'[p] /= "absent" => session'[p] > 0
    <2>1. PICK p \in Peer : Promote(p) \/ Leave(p) \/ SecondConnection(p) \/ CreditChanges(p)
      BY DEF PeersChange
    <2>2. CASE Promote(p)
      BY <2>2 DEF Promote, Types
    <2>3. CASE Leave(p)
      <3>1. /\ standing' \in {[standing EXCEPT ![p] = "retiring"], [standing EXCEPT ![p] = "absent"]}
            /\ standing[p] /= "absent" /\ session' = session
        BY <2>3 DEF Leave
      <3>2. standing' \in [Peer -> {"absent", "selectable", "retiring"}]
        BY <3>1 DEF Types
      <3>3. \A q \in Peer : standing'[q] /= "absent" => standing[q] /= "absent"
        BY <3>1 DEF Types
      <3> QED  BY <3>1, <3>2, <3>3 DEF Types
    <2>4. CASE SecondConnection(p) \/ CreditChanges(p)
      BY <2>4 DEF SecondConnection, CreditChanges, Types
    <2> QED  BY <2>1, <2>2, <2>3, <2>4
  <1>3. Types'
    BY <1>1, <1>2 DEF Types, control, counters, loop
  <1>4. AskedInOrder' /\ CountsAgree' /\ AnswersOnce'
    BY <1>1 DEF AskedInOrder, CountsAgree, AnswersOnce, ReservesAreOut, ManagedIsSerial,
                Out, Unread, Empties, control, counters, loop
  <1>5. SkiplistKnows'
    <2>1. skiplist' = skiplist /\ attempts' = attempts
      BY <1>1 DEF loop
    <2>2. ASSUME NEW p \in Peer PROVE (Free <= skiplist[p] /\ skiplist[p] <= session[p])'
      BY <1>2, <2>1 DEF SkiplistKnows, Types, Free
    <2>3. ASSUME NEW i \in DOMAIN attempts
          PROVE  attempts[i].session <= session'[attempts[i].peer]
      <3>1. attempts[i].peer \in Peer /\ attempts[i].session \in Nat
        BY AttemptFacts DEF Types
      <3> QED  BY <1>2, <3>1 DEF SkiplistKnows, Types
    <2> QED  BY <2>1, <2>2, <2>3 DEF SkiplistKnows
  <1> QED  BY <1>3, <1>4, <1>5

LEMMA OwnerKeeps ==
    ASSUME RequestInv,
           Close \/ toggle \/ HedgeTimer \/ (\E other_managed \in BOOLEAN : Join(other_managed))
    PROVE  RequestInv'
  <1> USE DEF RequestInv
  <1>1. UNCHANGED <<peers, counters, loop, attempts>>
    BY DEF Close, toggle, HedgeTimer, Join
  <1>2. /\ open' \in BOOLEAN /\ paused' \in BOOLEAN /\ managed' \in BOOLEAN
        /\ managed' => managed
    <2>1. CASE Close \/ HedgeTimer
      <3>1. managed' = managed /\ paused' = paused /\ (open' = FALSE \/ open' = open)
        BY <2>1 DEF Close, HedgeTimer
      <3> QED  BY <3>1 DEF Types
    <2>4. CASE toggle
      <3>1. paused' = ~paused /\ open' = open /\ managed' = managed
        BY <2>4 DEF toggle
      <3> QED  BY <3>1 DEF Types
    <2>2. ASSUME NEW other_managed \in BOOLEAN, Join(other_managed)
          PROVE  managed' = (managed /\ other_managed) /\ open' = open /\ paused' = paused
      BY <2>2 DEF Join, promote
    <2>3. CASE \E other_managed \in BOOLEAN : Join(other_managed)
      BY <2>2, <2>3 DEF Types
    <2> QED  BY <2>1, <2>3, <2>4
  <1>3. Types'
    BY <1>1, <1>2 DEF Types, peers, counters, loop
  <1>4. AskedInOrder' /\ SkiplistKnows' /\ AnswersOnce'
    BY <1>1 DEF AskedInOrder, SkiplistKnows, AnswersOnce, peers, counters, loop
  <1>5. CountsAgree'
    BY <1>1, <1>2 DEF CountsAgree, ReservesAreOut, ManagedIsSerial, Out, Unread, Empties,
                      counters, loop
  <1> QED  BY <1>3, <1>4, <1>5

-----------------------------------------------------------------------------
(* The loop.  A peer passed over without being asked is put on the skip    *)
(* list under a session later than any it was asked over.                  *)

LEMMA PassKeeps ==
    ASSUME RequestInv, NEW chosen \in Int
    PROVE  /\ PassUpTo(chosen) \in [Peer -> Int]
           /\ \A p \in Peer :
                 \/ PassUpTo(chosen)[p] = skiplist[p]
                 \/ PassUpTo(chosen)[p] = session[p] /\ skiplist[p] < session[p]
                    /\ skiplist[p] /= Asked /\ 0 < session[p]
  <1> USE DEF RequestInv
  <1>1. PassUpTo(chosen) \in [Peer -> Int]
    BY DEF PassUpTo, Types
  <1>2. ASSUME NEW p \in Peer, Reservable(p)
        PROVE  skiplist[p] < session[p] /\ skiplist[p] /= Asked /\ 0 < session[p]
    <2>1. Considered(p) /\ standing[p] = "selectable" /\ 0 < session[p]
      BY <1>2 DEF Reservable, Types
    <2> QED  BY <2>1 DEF Considered, SkiplistKnows, Types, Free, Asked
  <1> QED  BY <1>1, <1>2 DEF PassUpTo

LEMMA PassedSkips ==
    ASSUME RequestInv, NEW chosen \in Int, NEW skips, skips = PassUpTo(chosen)
    PROVE  /\ skips \in [Peer -> Int]
           /\ \A p \in Peer : Free <= skips[p] /\ skips[p] <= session[p]
           /\ \A i \in DOMAIN attempts :
                 LET p == attempts[i].peer
                 IN  /\ Asked <= skips[p] /\ attempts[i].session <= session[p]
                     /\ Asked < skips[p] =>
                           /\ attempts[i].received /\ attempts[i].outcome \in Failing
                           /\ attempts[i].session <= skips[p]
  <1> USE DEF RequestInv
  <1>1. ASSUME NEW p \in Peer
        PROVE  Free <= skips[p] /\ skips[p] <= session[p]
    <2>1. /\ Free <= skiplist[p] /\ skiplist[p] <= session[p]
          /\ skiplist[p] \in Int /\ session[p] \in Nat
      BY DEF SkiplistKnows, Types
    <2>2. skips[p] = skiplist[p] \/ skips[p] = session[p]
      BY PassKeeps
    <2> QED  BY <2>1, <2>2 DEF Free
  <1>2. ASSUME NEW i \in DOMAIN attempts
        PROVE  LET p == attempts[i].peer
               IN  /\ Asked <= skips[p] /\ attempts[i].session <= session[p]
                   /\ Asked < skips[p] =>
                         /\ attempts[i].received /\ attempts[i].outcome \in Failing
                         /\ attempts[i].session <= skips[p]
    <2> DEFINE p == attempts[i].peer
    <2>1. p \in Peer /\ attempts[i].session \in Nat
      BY AttemptFacts DEF Types
    <2>2. CASE skips[p] = skiplist[p]
      BY <2>1, <2>2 DEF SkiplistKnows
    <2>3. CASE skips[p] = session[p] /\ skiplist[p] /= Asked /\ 0 < session[p]
      BY <2>1, <2>3 DEF SkiplistKnows, Types, Asked
    <2> QED  BY <2>1, <2>2, <2>3, PassKeeps
  <1> QED  BY <1>1, <1>2, PassKeeps

\* The turns that leave the attempts alone.
LEMMA TurnKeeps ==
    ASSUME RequestInv, GiveUp \/ Suspend \/ Wait \/ Resume \/ WakeUp
    PROVE  RequestInv'
  <1> USE DEF RequestInv
  <1>1. UNCHANGED <<peers, control, counters, in_flight, attempts>>
    BY DEF GiveUp, Suspend, Wait, Resume, WakeUp
  <1>2. skiplist' = skiplist \/ skiplist' = PassUpTo(Peers + 1)
    BY DEF GiveUp, Suspend, Wait, Resume, WakeUp, PassAll
  <1>3. SkiplistKnows' /\ skiplist' \in [Peer -> Int]
    <2>1. CASE skiplist' = skiplist
      BY <1>1, <2>1 DEF SkiplistKnows, Types, peers
    <2>2. CASE skiplist' = PassUpTo(Peers + 1)
      BY <1>1, <2>2, PassedSkips, RetrieveAssumption DEF SkiplistKnows, peers
    <2> QED  BY <1>2, <2>1, <2>2
  <1>4. /\ pc' \in {"loop", "paused", "wait", "done"}
        /\ answer' \in {"none", "Found", "Empty"} /\ AnswersOnce'
    BY <1>1 DEF GiveUp, Suspend, Wait, Resume, WakeUp, Answer, AnswersOnce, Types
  <1>5. Types'
    BY <1>1, <1>3, <1>4 DEF Types, peers, control, counters
  <1>6. AskedInOrder' /\ CountsAgree'
    BY <1>1 DEF AskedInOrder, CountsAgree, ReservesAreOut, ManagedIsSerial, Out, Unread,
                Empties, control, counters
  <1> QED  BY <1>3, <1>4, <1>5, <1>6

-----------------------------------------------------------------------------
(* A result is read: the attempt's peer stays skipped for good, or, after a *)
(* failure, for the session it was asked over.                             *)

LEMMA TakeResultKeeps ==
    ASSUME RequestInv, NEW i \in DOMAIN attempts, TakeResult(i)
    PROVE  RequestInv'
  <1> USE DEF RequestInv
  <1> DEFINE p == attempts[i].peer
  <1>1. /\ UNCHANGED <<peers, control, counters>>
        /\ attempts' = [attempts EXCEPT ![i].received = TRUE]
        /\ in_flight' = in_flight - 1 /\ skiplist' = complete(attempts[i])
        /\ attempts[i].outcome /= "out" /\ ~attempts[i].received
    BY DEF TakeResult, Ready
  <1>2. p \in Peer /\ attempts[i].session \in Nat \ {0} /\ attempts[i] \in Attempt
    BY AttemptFacts DEF Types
  <1>3. /\ attempts' \in Seq(Attempt) /\ DOMAIN attempts' = DOMAIN attempts
        /\ Len(attempts') = Len(attempts)
        /\ \A j \in DOMAIN attempts :
              /\ attempts'[j].peer = attempts[j].peer
              /\ attempts'[j].session = attempts[j].session
              /\ attempts'[j].outcome = attempts[j].outcome
              /\ attempts'[j].received <=> attempts[j].received \/ j = i
    <2>1. [attempts[i] EXCEPT !.received = TRUE] \in Attempt
      BY <1>2 DEF Attempt
    <2>2. /\ attempts' \in Seq(Attempt) /\ DOMAIN attempts' = DOMAIN attempts
          /\ Len(attempts') = Len(attempts)
          /\ \A j \in DOMAIN attempts : j /= i => attempts'[j] = attempts[j]
          /\ attempts'[i] = [attempts[i] EXCEPT !.received = TRUE]
      BY <1>1, <2>1 DEF Types
    <2>3. /\ attempts'[i].peer = attempts[i].peer /\ attempts'[i].session = attempts[i].session
          /\ attempts'[i].outcome = attempts[i].outcome /\ attempts'[i].received = TRUE
      BY <1>2, <2>2 DEF Attempt
    <2> QED  BY <2>2, <2>3, AttemptFacts DEF Types
  <1>4. Unread' = Unread \ {i} /\ i \in Unread /\ Out' = Out /\ Empties' = Empties
        /\ \A q \in Peer : OutAt(q)' = OutAt(q)
    BY <1>1, <1>3 DEF Unread, Out, Empties, OutAt
  <1>5. in_flight' = Cardinality(Unread') /\ in_flight' \in Nat
    <2>1. IsFiniteSet(Unread)
      BY AttemptsFinite DEF Unread, Types
    <2> QED  BY <1>1, <1>4, <2>1, Loses DEF CountsAgree
  <1>6. CountsAgree'
    <2>1. UNCHANGED <<reserved, managed, remaining, confirmed_empty>>
      BY <1>1 DEF counters, control
    <2>2. ReservesAreOut'
      BY <1>4, <2>1 DEF CountsAgree, ReservesAreOut, OutAt
    <2>3. ManagedIsSerial'
      BY <1>4, <2>1 DEF CountsAgree, ManagedIsSerial, Out
    <2>4. \A j \in Out' : ~attempts'[j].received
      <3>1. \A j \in Out : ~attempts[j].received /\ j /= i /\ j \in DOMAIN attempts
        BY <1>1 DEF CountsAgree, Out
      <3> QED  BY <1>3, <1>4, <3>1
    <2> QED  BY <1>3, <1>4, <1>5, <2>1, <2>2, <2>3, <2>4 DEF CountsAgree
  <1>7. AskedInOrder'
    BY <1>3, AttemptFacts DEF AskedInOrder, Types
  <1>8. skiplist[p] = Asked
    BY <1>1, <1>2 DEF SkiplistKnows, Types, Asked
  <1>9. SkiplistKnows' /\ skiplist' \in [Peer -> Int]
    <2>1. CASE attempts[i].outcome \notin Failing
      <3>1. skiplist' = skiplist
        BY <1>1, <2>1 DEF complete, Failing
      <3>2. ASSUME NEW j \in DOMAIN attempts, attempts[j].received
            PROVE  attempts'[j].received
        BY <1>3, <3>2
      <3> QED  BY <1>1, <1>3, <3>1, <3>2 DEF SkiplistKnows, Types, peers
    <2>2. CASE attempts[i].outcome \in Failing
      <3>1. skiplist' = [skiplist EXCEPT ![p] = attempts[i].session]
        BY <1>1, <2>2 DEF complete, Failing
      <3>2. /\ skiplist' \in [Peer -> Int] /\ skiplist'[p] = attempts[i].session
            /\ \A q \in Peer : q /= p => skiplist'[q] = skiplist[q]
        BY <1>2, <3>1 DEF Types
      <3>3. ASSUME NEW q \in Peer PROVE Free <= skiplist'[q] /\ skiplist'[q] <= session[q]
        <4>1. Free <= skiplist[q] /\ skiplist[q] <= session[q]
          BY DEF SkiplistKnows
        <4>2. attempts[i].session <= session[p]
          BY DEF SkiplistKnows
        <4> QED  BY <1>2, <3>2, <4>1, <4>2 DEF Free
      <3>4. ASSUME NEW j \in DOMAIN attempts, attempts[j].peer = p, j /= i
            PROVE  /\ attempts[j].received /\ attempts[j].outcome \in Failing
                   /\ attempts[j].session < attempts[i].session
        <4>1. i \in Nat /\ j \in Nat
          BY DEF Types
        <4>2. CASE i < j
          BY <1>1, <3>4, <4>2 DEF AskedInOrder
        <4>3. CASE j < i
          BY <3>4, <4>3 DEF AskedInOrder
        <4> QED  BY <3>4, <4>1, <4>2, <4>3
      <3>5. ASSUME NEW j \in DOMAIN attempts
            PROVE  LET q == attempts[j].peer
                   IN  /\ Asked <= skiplist'[q] /\ attempts[j].session <= session[q]
                       /\ Asked < skiplist'[q] =>
                             /\ attempts'[j].received /\ attempts[j].outcome \in Failing
                             /\ attempts[j].session <= skiplist'[q]
        <4>1. attempts[j].peer \in Peer /\ attempts[j].session \in Nat
          BY AttemptFacts DEF Types
        <4>2. attempts[j].session <= session[attempts[j].peer]
          BY DEF SkiplistKnows
        <4>3. CASE attempts[j].peer /= p
          BY <1>3, <3>2, <4>1, <4>2, <4>3 DEF SkiplistKnows
        <4>4. CASE attempts[j].peer = p /\ j /= i
          <5>1. skiplist'[attempts[j].peer] = attempts[i].session
            BY <3>2, <4>4
          <5> QED  BY <1>2, <1>3, <3>4, <4>1, <4>2, <4>4, <5>1 DEF Asked
        <4>5. CASE j = i
          <5>1. skiplist'[attempts[j].peer] = attempts[j].session
            BY <3>2, <4>5
          <5> QED  BY <1>2, <1>3, <2>2, <4>2, <4>5, <5>1 DEF Asked
        <4> QED  BY <4>3, <4>4, <4>5
      <3> QED  BY <1>1, <1>3, <3>2, <3>3, <3>5 DEF SkiplistKnows, peers
    <2> QED  BY <2>1, <2>2
  <1>10. AnswersOnce'
    BY <1>1 DEF TakeResult, Answer, AnswersOnce, MayContinue
  <1>11. Types'
    <2>1. pc' \in {"loop", "done"} /\ answer' \in {"none", "Found", "Empty"}
      BY DEF TakeResult, Answer, Types
    <2> QED  BY <1>1, <1>3, <1>5, <1>9, <2>1 DEF Types, peers, control, counters
  <1> QED  BY <1>6, <1>7, <1>9, <1>10, <1>11

-----------------------------------------------------------------------------
(* An attempt starts: its peer was asked over earlier sessions only, and    *)
(* without success.                                                        *)

LEMMA StartAttemptKeeps == RequestInv /\ StartAttempt => RequestInv'
  <1> SUFFICES ASSUME RequestInv, StartAttempt PROVE RequestInv'
    OBVIOUS
  <1> USE DEF RequestInv
  <1> DEFINE n == Len(attempts) + 1
  <1>1. PICK p \in Peer :
           /\ Selectable(p)
           /\ skiplist' = [PassUpTo(p) EXCEPT ![p] = Asked]
           /\ reserved' = [reserved EXCEPT ![p] = @ + 1]
           /\ attempts' = Append(attempts, [peer |-> p, session |-> session[p],
                                            outcome |-> "out", received |-> FALSE])
    BY DEF StartAttempt
  <1>2. /\ UNCHANGED <<peers, paused, managed, confirmed_empty, answer>>
        /\ in_flight' = in_flight + 1 /\ remaining' = remaining - 1
        /\ open' = (open /\ remaining /= 1) /\ pc = "loop" /\ pc' = "wait"
        /\ remaining > 0 /\ (managed => in_flight = 0)
    BY DEF StartAttempt, Due, CanStart, retrieve_attempt_start_allowed
  <1>3. /\ session[p] \in Nat \ {0} /\ p \in Int /\ ~ p < p
        /\ skiplist[p] \in Int /\ Considered(p) /\ standing[p] = "selectable"
    <2>1. Considered(p) /\ standing[p] = "selectable"
      BY <1>1 DEF Selectable, Reservable
    <2>2. p \in Int /\ ~ p < p
      BY RetrieveAssumption DEF Peer
    <2> QED  BY <2>1, <2>2 DEF Types
  <1>4. /\ attempts' \in Seq(Attempt) /\ Len(attempts') = n /\ n \in Nat
        /\ DOMAIN attempts' = DOMAIN attempts \cup {n} /\ n \notin DOMAIN attempts
        /\ \A j \in DOMAIN attempts : attempts'[j] = attempts[j] /\ j < n
        /\ attempts'[n].peer = p /\ attempts'[n].session = session[p]
        /\ attempts'[n].outcome = "out" /\ attempts'[n].received = FALSE
    <2> DEFINE new == [peer |-> p, session |-> session[p], outcome |-> "out", received |-> FALSE]
    <2>1. new \in Attempt
      BY <1>3 DEF Attempt
    <2>2. /\ new.peer = p /\ new.session = session[p]
          /\ new.outcome = "out" /\ new.received = FALSE
      OBVIOUS
    <2> HIDE DEF new
    <2>3. attempts \in Seq(Attempt) /\ attempts' = Append(attempts, new)
      BY <1>1 DEF Types, new
    <2> QED  BY <2>1, <2>2, <2>3
  <1>5. \A j \in DOMAIN attempts : attempts[j].peer = p =>
           /\ attempts[j].received /\ attempts[j].outcome \in Failing
           /\ attempts[j].session < session[p]
    <2> SUFFICES ASSUME NEW j \in DOMAIN attempts, attempts[j].peer = p
                 PROVE  /\ attempts[j].received /\ attempts[j].outcome \in Failing
                        /\ attempts[j].session < session[p]
      OBVIOUS
    <2>1. attempts[j].session \in Nat /\ Asked <= skiplist[p] /\ skiplist[p] <= session[p]
      BY AttemptFacts DEF SkiplistKnows, Types
    <2>2. Asked < skiplist[p] /\ session[p] /= skiplist[p]
      BY <1>3, <2>1 DEF Considered, Free, Asked
    <2> QED  BY <1>3, <2>1, <2>2 DEF SkiplistKnows
  <1>6. AskedInOrder'
    <2> SUFFICES ASSUME NEW i \in DOMAIN attempts', NEW j \in DOMAIN attempts', i < j,
                        attempts'[i].peer = attempts'[j].peer
                 PROVE  /\ attempts'[i].received /\ attempts'[i].outcome \in Failing
                        /\ attempts'[i].session < attempts'[j].session
      BY DEF AskedInOrder
    <2>1. i \in DOMAIN attempts
      <3>1. i /= n
        BY <1>4 
      <3> QED  BY <1>4, <3>1
    <2>2. CASE j \in DOMAIN attempts
      BY <1>4, <2>1, <2>2 DEF AskedInOrder
    <2>3. CASE j = n
      <3>1. attempts[i].peer = p
        BY <1>4, <2>1, <2>3
      <3> QED  BY <1>4, <1>5, <2>1, <2>3, <3>1
    <2> QED  BY <1>4, <2>2, <2>3
  <1>7. SkiplistKnows' /\ skiplist' \in [Peer -> Int]
    <2>1. /\ skiplist' \in [Peer -> Int] /\ skiplist'[p] = Asked
          /\ \A q \in Peer : q /= p => skiplist'[q] = PassUpTo(p)[q]
      <3>1. PassUpTo(p) \in [Peer -> Int]
        BY <1>3, PassedSkips
      <3> QED  BY <1>1, <3>1 DEF Asked
    <2>2. ASSUME NEW q \in Peer PROVE Free <= skiplist'[q] /\ skiplist'[q] <= session[q]
      <3>1. Free <= PassUpTo(p)[q] /\ PassUpTo(p)[q] <= session[q]
        BY <1>3, PassedSkips
      <3> QED  BY <1>3, <2>1, <3>1 DEF Free, Asked
    <2>3. ASSUME NEW j \in DOMAIN attempts'
          PROVE  LET q == attempts'[j].peer
                 IN  /\ Asked <= skiplist'[q] /\ attempts'[j].session <= session[q]
                     /\ Asked < skiplist'[q] =>
                           /\ attempts'[j].received /\ attempts'[j].outcome \in Failing
                           /\ attempts'[j].session <= skiplist'[q]
      <3>1. CASE attempts'[j].peer = p
        <4>1. attempts'[j].session <= session[p]
          <5>1. CASE j = n
            BY <1>3, <1>4, <5>1
          <5>2. CASE j \in DOMAIN attempts
            BY <1>4, <1>5, <3>1, <5>2 DEF SkiplistKnows
          <5> QED  BY <1>4, <5>1, <5>2
        <4>2. skiplist'[attempts'[j].peer] = Asked
          BY <2>1, <3>1
        <4> QED  BY <3>1, <4>1, <4>2 DEF Asked
      <3>2. CASE attempts'[j].peer /= p
        <4>1. j \in DOMAIN attempts /\ attempts'[j] = attempts[j]
          BY <1>4, <3>2
        <4>2. attempts[j].peer \in Peer
          BY <4>1, AttemptFacts DEF Types
        <4>3. skiplist'[attempts[j].peer] = PassUpTo(p)[attempts[j].peer]
          BY <2>1, <3>2, <4>1, <4>2
        <4> QED  BY <1>3, <4>1, <4>3, PassedSkips
      <3> QED  BY <3>1, <3>2
    <2> QED  BY <1>2, <2>1, <2>2, <2>3 DEF SkiplistKnows, peers
  <1>8. /\ Unread' = Unread \cup {n} /\ n \notin Unread
        /\ Out' = Out \cup {n} /\ n \notin Out /\ Empties' = Empties
        /\ OutAt(p)' = OutAt(p) \cup {n} /\ n \notin OutAt(p)
        /\ \A q \in Peer : q /= p => OutAt(q)' = OutAt(q)
    BY <1>4 DEF Unread, Out, Empties, OutAt
  <1>9. /\ IsFiniteSet(Unread) /\ IsFiniteSet(Out)
        /\ \A q \in Peer : IsFiniteSet(OutAt(q)) /\ Cardinality(OutAt(q)) \in Nat
    BY AttemptsFinite DEF Unread, Out, OutAt, Types
  <1>10. in_flight' = Cardinality(Unread') /\ in_flight' \in Nat
    BY <1>2, <1>8, <1>9, Gains DEF CountsAgree, Types
  <1>11. ReservesAreOut'
    <2>1. ASSUME NEW q \in Peer PROVE reserved'[q] = Cardinality(OutAt(q)')
      <3>1. reserved[q] = Cardinality(OutAt(q))
        BY DEF CountsAgree, ReservesAreOut, OutAt
      <3>2. CASE q = p
        BY <1>1, <1>8, <1>9, <3>1, <3>2, Gains DEF Types
      <3>3. CASE q /= p
        BY <1>1, <1>8, <3>1, <3>3 DEF Types
      <3> QED  BY <3>2, <3>3
    <2> QED  BY <2>1 DEF ReservesAreOut, OutAt
  <1>12. ManagedIsSerial'
    <2>1. ASSUME managed PROVE Cardinality(Out') = 1
      <3>1. Unread = {}
        BY <1>2, <2>1, AttemptsFinite DEF CountsAgree, Types, Unread
      <3>2. Out = {}
        BY <3>1 DEF CountsAgree, Out, Unread
      <3>3. Out' = {n}
        BY <1>8, <3>2
      <3> QED  BY <3>3, FS_Singleton
    <2> QED  BY <1>2, <2>1 DEF ManagedIsSerial, Out
  <1>13. CountsAgree'
    <2>1. \A j \in Out' : ~attempts'[j].received
      BY <1>4, <1>8 DEF CountsAgree, Out
    <2>2. Budget = remaining' + Len(attempts')
      BY <1>2, <1>4 DEF CountsAgree, Types
    <2>3. confirmed_empty' = Cardinality(Empties')
      BY <1>2, <1>8 DEF CountsAgree
    <2> QED  BY <1>10, <1>11, <1>12, <2>1, <2>2, <2>3 DEF CountsAgree
  <1>14. AnswersOnce'
    BY <1>2 DEF AnswersOnce
  <1>15. Types'
    <2>1. open' \in BOOLEAN /\ remaining' \in Nat
      BY <1>2 DEF Types
    <2>2. reserved' \in [Peer -> Nat]
      BY <1>1 DEF Types
    <2> QED  BY <1>2, <1>4, <1>7, <1>10, <2>1, <2>2 DEF Types, peers
  <1> QED  BY <1>6, <1>7, <1>13, <1>14, <1>15

-----------------------------------------------------------------------------
(* An exchange ends and gives its reservation back.                        *)

LEMMA SettleKeeps ==
    ASSUME RequestInv, NEW i \in DOMAIN attempts, NEW outcome \in Outcome, Settle(i, outcome)
    PROVE  RequestInv'
  <1> USE DEF RequestInv
  <1>0. PICK p \in Peer : p = attempts[i].peer
    BY AttemptFacts DEF Types
  <1>1. /\ UNCHANGED <<peers, open, paused, hedge_due, remaining, loop>>
        /\ attempts[i].outcome = "out"
        /\ attempts' = [attempts EXCEPT ![i].outcome = outcome]
        /\ confirmed_empty' = record_confirmed_empty(outcome)
        /\ reserved' = [reserved EXCEPT ![p] = @ - 1]
        /\ managed' = (managed /\ outcome /= "TimedOut")
    BY <1>0 DEF Settle, SettleReserve
  <1>2. attempts[i] \in Attempt /\ outcome /= "out"
    BY AttemptFacts DEF Types, Outcome
  <1>3. /\ attempts' \in Seq(Attempt) /\ DOMAIN attempts' = DOMAIN attempts
        /\ Len(attempts') = Len(attempts)
        /\ \A j \in DOMAIN attempts :
              /\ attempts'[j].peer = attempts[j].peer
              /\ attempts'[j].session = attempts[j].session
              /\ attempts'[j].received <=> attempts[j].received
              /\ j /= i => attempts'[j].outcome = attempts[j].outcome
        /\ attempts'[i].outcome = outcome
    <2>1. [attempts[i] EXCEPT !.outcome = outcome] \in Attempt
      BY <1>2 DEF Attempt
    <2>2. /\ attempts' \in Seq(Attempt) /\ DOMAIN attempts' = DOMAIN attempts
          /\ Len(attempts') = Len(attempts)
          /\ \A j \in DOMAIN attempts : j /= i => attempts'[j] = attempts[j]
          /\ attempts'[i] = [attempts[i] EXCEPT !.outcome = outcome]
      BY <1>1, <2>1 DEF Types
    <2>3. /\ attempts'[i].peer = attempts[i].peer /\ attempts'[i].session = attempts[i].session
          /\ attempts'[i].received = attempts[i].received /\ attempts'[i].outcome = outcome
      BY <1>2, <2>2 DEF Attempt
    <2> QED  BY <2>2, <2>3
  <1>4. ~attempts[i].received /\ i \in Out
    BY <1>1 DEF CountsAgree, Out
  <1>5. AskedInOrder' /\ SkiplistKnows'
    <2>1. \A j \in DOMAIN attempts : attempts[j].received => attempts'[j].outcome = attempts[j].outcome
      BY <1>3, <1>4
    <2>2. AskedInOrder'
      BY <1>3, <2>1 DEF AskedInOrder
    <2> QED  BY <1>1, <1>3, <2>1, <2>2 DEF SkiplistKnows, peers, loop
  <1>6. /\ Unread' = Unread /\ Out' = Out \ {i} /\ i \in OutAt(p)
        /\ OutAt(p)' = OutAt(p) \ {i}
        /\ \A q \in Peer : q /= p => OutAt(q)' = OutAt(q)
        /\ i \notin Empties
        /\ Empties' = IF outcome = "Empty" THEN Empties \cup {i} ELSE Empties
    <2>1. Unread' = Unread /\ Out' = Out \ {i} /\ i \in OutAt(p) /\ i \notin Empties
      BY <1>0, <1>1, <1>2, <1>3 DEF Unread, Out, OutAt, Empties
    <2>2. \A q \in Peer : OutAt(q)' = IF q = p THEN OutAt(q) \ {i} ELSE OutAt(q)
      BY <1>0, <1>1, <1>2, <1>3 DEF OutAt
    <2>3. Empties' = IF outcome = "Empty" THEN Empties \cup {i} ELSE Empties
      BY <1>1, <1>3 DEF Empties
    <2>4. OutAt(p)' = OutAt(p) \ {i}
      BY <2>2
    <2>5. \A q \in Peer : q /= p => OutAt(q)' = OutAt(q)
      BY <2>2
    <2> QED  BY <2>1, <2>3, <2>4, <2>5
  <1>7. /\ IsFiniteSet(Out) /\ IsFiniteSet(Empties)
        /\ \A q \in Peer : IsFiniteSet(OutAt(q)) /\ Cardinality(OutAt(q)) \in Nat
    BY AttemptsFinite DEF Empties, Out, OutAt, Types
  <1>8. ReservesAreOut' /\ reserved' \in [Peer -> Nat]
    <2>1. ASSUME NEW q \in Peer
          PROVE  reserved'[q] = Cardinality(OutAt(q)') /\ reserved'[q] \in Nat
      <3>1. reserved[q] = Cardinality(OutAt(q))
        BY DEF CountsAgree, ReservesAreOut, OutAt
      <3>2. CASE q = p
        <4>1. /\ Cardinality(OutAt(p) \ {i}) = Cardinality(OutAt(p)) - 1
              /\ Cardinality(OutAt(p) \ {i}) \in Nat
          BY <1>6, <1>7, Loses
        <4>2. reserved'[p] = reserved[p] - 1
          BY <1>1 DEF Types
        <4> QED  BY <1>6, <3>1, <3>2, <4>1, <4>2
      <3>3. CASE q /= p
        BY <1>1, <1>6, <1>7, <3>1, <3>3 DEF Types
      <3> QED  BY <3>2, <3>3
    <2>2. reserved' \in [Peer -> Nat]
      BY <1>1, <2>1 DEF Types
    <2> QED  BY <2>1, <2>2 DEF ReservesAreOut, OutAt
  <1>9. ManagedIsSerial'
    <2>1. managed' => managed
      BY <1>1
    <2>2. Cardinality(Out') <= Cardinality(Out) /\ Cardinality(Out) \in Nat /\ Cardinality(Out') \in Nat
      BY <1>4, <1>6, <1>7, Loses
    <2> QED  BY <2>1, <2>2 DEF CountsAgree, ManagedIsSerial, Out
  <1>10. confirmed_empty' = Cardinality(Empties') /\ confirmed_empty' \in Nat
    <2>1. CASE outcome = "Empty"
      <3>1. Cardinality(Empties \cup {i}) = Cardinality(Empties) + 1
        BY <1>6, <1>7, Gains
      <3>2. confirmed_empty' = confirmed_empty + 1
        BY <1>1, <2>1 DEF record_confirmed_empty
      <3>3. Empties' = Empties \cup {i}
        BY <1>6, <2>1
      <3> QED  BY <3>1, <3>2, <3>3 DEF CountsAgree, Types
    <2>2. CASE outcome /= "Empty"
      BY <1>1, <1>6, <2>2 DEF record_confirmed_empty, CountsAgree, Types
    <2> QED  BY <2>1, <2>2
  <1>11. CountsAgree'
    <2>1. \A j \in Out' : ~attempts'[j].received
      BY <1>3, <1>6 DEF CountsAgree, Out
    <2> QED  BY <1>1, <1>3, <1>6, <1>8, <1>9, <1>10, <2>1 DEF CountsAgree, loop
  <1>12. AnswersOnce'
    BY <1>1 DEF AnswersOnce, loop
  <1>13. managed' \in BOOLEAN
    BY <1>1
  <1>14. Types'
    BY <1>1, <1>3, <1>8, <1>10, <1>13 DEF Types, peers, loop
  <1> QED  BY <1>5, <1>11, <1>12, <1>14

-----------------------------------------------------------------------------
LEMMA NextRequest == RequestInv /\ [Next]_vars => RequestInv'
  <1> SUFFICES ASSUME RequestInv, [Next]_vars PROVE RequestInv'
    OBVIOUS
  <1>1. CASE PeersChange
    BY <1>1, PeersChangeKeeps
  <1>2. CASE Close \/ toggle \/ HedgeTimer \/ (\E other_managed \in BOOLEAN : Join(other_managed))
    BY <1>2, OwnerKeeps
  <1>3. CASE CreditAvailable
    BY <1>3, TurnKeeps DEF CreditAvailable
  <1>4. CASE Turn
    <2>1. CASE \E i \in DOMAIN attempts : TakeResult(i)
      BY <2>1, TakeResultKeeps
    <2>2. CASE StartAttempt
      BY <2>2, StartAttemptKeeps
    <2>3. CASE GiveUp \/ Suspend \/ Wait \/ Resume \/ (Woken /\ WakeUp)
      BY <2>3, TurnKeeps
    <2> QED  BY <1>4, <2>1, <2>2, <2>3 DEF Turn
  <1>5. CASE AttemptEnds
    BY <1>5, SettleKeeps DEF AttemptEnds
  <1>6. CASE UNCHANGED vars
    BY <1>6 DEF vars, peers, control, counters, loop, RequestInv, Types, AskedInOrder,
                SkiplistKnows, CountsAgree, ReservesAreOut, ManagedIsSerial, Out, Unread,
                Empties, AnswersOnce
  <1> QED  BY <1>1, <1>2, <1>3, <1>4, <1>5, <1>6 DEF Next

LEMMA RequestInvariant == Spec => []RequestInv
  <1> QED  BY InitRequest, NextRequest, PTL DEF Spec

(* However many peers there are, whatever reconnects, joins, times out or  *)
(* closes meanwhile: no peer is asked again that answered or may still     *)
(* answer, a managed request has one exchange out, and what a request      *)
(* holds on an account is held by an exchange that is out.                 *)
THEOREM AsksSoundly == Spec => []ExchangesAreSound
  <1>1. RequestInv => ExchangesAreSound
    <2> SUFFICES ASSUME RequestInv PROVE NoPeerAskedAgain
      BY DEF RequestInv, CountsAgree, ExchangesAreSound
    <2>1. \A i \in DOMAIN attempts : attempts[i].session \in Nat
      BY AttemptFacts DEF RequestInv, Types
    <2> QED  BY <2>1 DEF RequestInv, AskedInOrder, NoPeerAskedAgain, Failing
  <1> QED  BY RequestInvariant, <1>1, PTL

(* An update is reported missing only on the word of every peer asked.     *)
THEOREM MissingNeedsAll == Spec => []MissingIsUnanimous
  <1>1. RequestInv => MissingIsUnanimous
    <2> SUFFICES ASSUME RequestInv, Missing
                 PROVE  attempts /= <<>> /\ \A i \in DOMAIN attempts : attempts[i].outcome = "Empty"
      BY DEF MissingIsUnanimous
    <2>1. /\ Len(attempts) > 0 /\ Cardinality(Empties) = Len(attempts)
          /\ attempts \in Seq(Attempt)
      <3>1. /\ Budget = remaining + Len(attempts) /\ remaining \in Nat
            /\ attempts \in Seq(Attempt) /\ confirmed_empty = Cardinality(Empties)
        BY DEF RequestInv, CountsAgree, Types
      <3>2. Len(attempts) \in Nat
        BY <3>1
      <3> QED  BY <3>1, <3>2 DEF Missing
    <2>2. Empties = DOMAIN attempts
      BY <2>1, AttemptsFinite DEF Empties
    <2>3. \A i \in DOMAIN attempts : attempts[i].outcome = "Empty"
      BY <2>2 DEF Empties
    <2>4. attempts /= <<>>
      BY <2>1
    <2> QED  BY <2>3, <2>4
  <1> QED  BY RequestInvariant, <1>1, PTL

-----------------------------------------------------------------------------
(* The refinement: each step of a request is one of its promise, or leaves *)
(* admission, exchanges and answer as they are.                            *)

LEMMA InitPromise == Init => Promise!Init
  <1> SUFFICES ASSUME Init PROVE Promise!Init
    OBVIOUS
  <1>1. {i \in DOMAIN attempts : attempts[i].outcome = "out"} = {}
    BY DEF Init
  <1>2. claimed = 0 /\ out = 0
    BY <1>1, FS_EmptySet DEF Init, claimed, out
  <1> QED  BY <1>2 DEF Init, Promise!Init

LEMMA NextPromise == RequestInv /\ RequestInv' /\ [Next]_vars => [Promise!Next]_Promise!vars
  <1> SUFFICES ASSUME RequestInv, RequestInv', [Next]_vars PROVE [Promise!Next]_Promise!vars
    OBVIOUS
  <1>0. /\ attempts \in Seq(Attempt) /\ Len(attempts) \in Nat
        /\ IsFiniteSet(Out) /\ Cardinality(Out) \in Nat /\ out = Cardinality(Out)
        /\ out' = Cardinality(Out') /\ claimed = Len(attempts) /\ claimed' = Len(attempts')
    BY AttemptsFinite DEF RequestInv, Types, Out, out, claimed
  <1>1. ASSUME UNCHANGED <<open, attempts, answer>> PROVE [Promise!Next]_Promise!vars
    BY <1>1 DEF claimed, out, Promise!vars
  <1>2. CASE PeersChange \/ toggle \/ HedgeTimer \/ Suspend \/ Wait \/ WakeUp \/ UNCHANGED vars
    BY <1>1, <1>2 DEF PeersChange, toggle, HedgeTimer, Suspend, Wait, WakeUp, vars, control, loop
  <1>3. CASE \E other_managed \in BOOLEAN : Join(other_managed)
    BY <1>1, <1>3 DEF Join, loop
  <1>4. CASE Close
    <2>1. open' = FALSE /\ UNCHANGED <<attempts, answer>>
      BY <1>4 DEF Close, loop
    <2>2. claimed' = claimed /\ out' = out
      BY <2>1 DEF claimed, out
    <2> QED  BY <2>1, <2>2 DEF Promise!Next, Promise!Close
  <1>5. CASE \E i \in DOMAIN attempts : TakeResult(i)
    <2>1. PICK i \in DOMAIN attempts : TakeResult(i)
      BY <1>5
    <2>2. /\ attempts' = [attempts EXCEPT ![i].received = TRUE] /\ open' = open
          /\ answer = "none" /\ (answer' = "Found" \/ answer' = answer)
      BY <2>1 DEF TakeResult, Answer, control, RequestInv, AnswersOnce, MayContinue
    <2>3. attempts[i] \in Attempt
      BY AttemptFacts DEF RequestInv, Types
    <2>4. Out' = Out /\ Len(attempts') = Len(attempts) /\ Len(attempts) > 0
      <3>1. /\ DOMAIN attempts' = DOMAIN attempts
            /\ \A j \in DOMAIN attempts : j /= i => attempts'[j] = attempts[j]
            /\ attempts'[i] = [attempts[i] EXCEPT !.received = TRUE]
            /\ Len(attempts') = Len(attempts) /\ Len(attempts) > 0
        BY <1>0, <2>2, <2>3
      <3>2. attempts'[i].outcome = attempts[i].outcome
        BY <2>3, <3>1 DEF Attempt
      <3> QED  BY <3>1, <3>2 DEF Out
    <2> QED  BY <1>0, <2>2, <2>4 DEF Promise!Next, Promise!Answer, Promise!vars
  <1>6. CASE StartAttempt
    <2>1. PICK p \in Peer :
             attempts' = Append(attempts, [peer |-> p, session |-> session[p],
                                           outcome |-> "out", received |-> FALSE])
      BY <1>6 DEF StartAttempt
    <2>2. /\ open /\ pc = "loop" /\ answer' = answer /\ Len(attempts) < MaxAttempts
          /\ remaining > 0 /\ open' \in BOOLEAN
      BY <1>6 DEF StartAttempt, Due, CanStart, RequestInv, Types
    <2>3. answer = "none" /\ Len(attempts) < Budget
      BY <1>0, <2>2 DEF RequestInv, AnswersOnce, CountsAgree, Types
    <2>4. /\ Out' = Out \cup {Len(attempts) + 1} /\ Len(attempts) + 1 \notin Out
          /\ Len(attempts') = Len(attempts) + 1
      <3> DEFINE new == [peer |-> p, session |-> session[p], outcome |-> "out", received |-> FALSE]
                 n == Len(attempts) + 1
      <3>1. new.outcome = "out"
        OBVIOUS
      <3> HIDE DEF new
      <3>2. /\ DOMAIN attempts' = DOMAIN attempts \cup {n} /\ n \notin DOMAIN attempts
            /\ \A j \in DOMAIN attempts : attempts'[j] = attempts[j]
            /\ attempts'[n] = new /\ Len(attempts') = n
        BY <1>0, <2>1 DEF new
      <3> HIDE DEF n
      <3>3. Out' = Out \cup {n} /\ n \notin Out
        BY <3>1, <3>2 DEF Out
      <3> QED  BY <3>2, <3>3 DEF n
    <2>5. Cardinality(Out') = Cardinality(Out) + 1
      BY <1>0, <2>4, Gains
    <2> QED  BY <1>0, <2>2, <2>3, <2>4, <2>5 DEF Promise!Next, Promise!Claim
  <1>7. CASE GiveUp \/ Resume
    <2>1. /\ UNCHANGED <<open, attempts>> /\ pc /= "done"
          /\ answer' = answer \/ (answer' = "Empty" /\ in_flight = 0)
      <3>1. CASE GiveUp
        BY <3>1 DEF GiveUp, Answer, control, MayContinue, Exhausted, RequestInv, Types
      <3>2. CASE Resume
        BY <3>2 DEF Resume, Answer, control, RequestInv, AnswersOnce
      <3> QED  BY <1>7, <3>1, <3>2
    <2>2. answer = "none" /\ claimed' = claimed /\ out' = out
      BY <2>1 DEF RequestInv, AnswersOnce, claimed, out
    <2>3. CASE answer' = answer
      BY <1>1, <2>1, <2>3
    <2>4. CASE answer' = "Empty" /\ in_flight = 0
      <3>1. Unread = {}
        BY <2>4, AttemptsFinite DEF RequestInv, CountsAgree, Types, Unread
      <3>2. Out = {}
        BY <3>1 DEF RequestInv, CountsAgree, Out, Unread
      <3>3. out = 0
        BY <1>0, <3>2, FS_EmptySet
      <3> QED  BY <2>1, <2>2, <2>4, <3>3 DEF Promise!Next, Promise!Answer
    <2> QED  BY <2>1, <2>3, <2>4
  <1>8. CASE AttemptEnds
    <2>1. PICK i \in DOMAIN attempts, outcome \in Outcome : Settle(i, outcome)
      BY <1>8 DEF AttemptEnds
    <2>2. /\ attempts' = [attempts EXCEPT ![i].outcome = outcome] /\ UNCHANGED <<open, answer>>
          /\ i \in Out /\ outcome /= "out"
      BY <2>1 DEF Settle, loop, Out, Outcome
    <2>3. attempts[i] \in Attempt
      BY AttemptFacts DEF RequestInv, Types
    <2>4. Out' = Out \ {i} /\ Len(attempts') = Len(attempts)
      <3>1. /\ DOMAIN attempts' = DOMAIN attempts
            /\ \A j \in DOMAIN attempts : j /= i => attempts'[j] = attempts[j]
            /\ attempts'[i] = [attempts[i] EXCEPT !.outcome = outcome]
            /\ Len(attempts') = Len(attempts)
        BY <1>0, <2>2, <2>3
      <3>2. attempts'[i].outcome = outcome
        BY <2>3, <3>1 DEF Attempt
      <3> QED  BY <2>2, <3>1, <3>2 DEF Out
    <2>5. Cardinality(Out') = Cardinality(Out) - 1 /\ Cardinality(Out) > 0
      BY <1>0, <2>2, <2>4, Loses
    <2> QED  BY <1>0, <2>2, <2>4, <2>5 DEF Promise!Next, Promise!Settle
  <1> QED  BY <1>2, <1>3, <1>4, <1>5, <1>6, <1>7, <1>8 DEF Next, Turn, CreditAvailable

(* A request keeps what ChunkRequest promises to whoever asked for the     *)
(* chunk: it claims only while admitted and within its budget, what it     *)
(* claimed settles, and "empty" is answered with nothing out.              *)
THEOREM RequestKeepsPromise == Spec => KeepsPromise
  <1> QED  BY InitPromise, NextPromise, RequestInvariant, PTL DEF Spec, KeepsPromise, Promise!Spec

-----------------------------------------------------------------------------
(* The search for the end of a feed (FeedFrontier).                        *)

\* What is found is there, an index that may be returned follows it, and the
\* probes that are out were sent when the search had begun.
FeedInv ==
    /\ length \in 0..NoIndex /\ started \in Nat /\ sent \in Nat
    /\ started <= sent /\ sent <= length
    /\ level_limit \in 1..Lookahead
    /\ feed_pc \in {"first", "wave", "final", "done"}
    /\ latest = NoIndex \/ latest \in 0..(length - 1)
    /\ feed_pc = "first" => latest = NoIndex
    /\ feed_pc \in {"wave", "final"} => latest \in 0..(MaxIndex - 1)
    /\ feed_pc = "wave" =>
          /\ \E n \in 1..Lookahead : DOMAIN answers = 1..n
          /\ \A l \in DOMAIN answers :
                answers[l] = "Found" => Feed!probe_index(latest, l) \in 0..(length - 1)
    /\ feed_pc = "final" => next = latest + 1
    /\ FrontierIsFound

\* A bounded set of numbers has a largest one.
LEMMA LargestOfBounded ==
    ASSUME NEW n \in Nat, NEW S \in SUBSET (0..n), S # {}
    PROVE  Feed!Max(S) \in S /\ \A x \in S : x <= Feed!Max(S)
  <1> DEFINE T == {n - x : x \in S}
  <1>1. T \subseteq Nat /\ T # {}
    <2>1. \A x \in S : x \in Nat /\ n - x \in Nat
      OBVIOUS
    <2> QED  BY <2>1
  <1>2. PICK y \in T : \A z \in T : ~(<<z, y>> \in OpToRel(<, Nat))
    BY <1>1, NatLessThanWellFounded, WFMin
  <1>3. PICK x \in S : y = n - x
    BY <1>2
  <1>4. \A z \in T : ~(z < y)
    BY <1>1, <1>2 DEF OpToRel
  <1>5. ASSUME NEW w \in S
        PROVE  w <= x
    <2>1. n - w \in T /\ w \in 0..n /\ x \in 0..n
      BY <1>3
    <2> HIDE DEF T
    <2>2. ~(n - w < n - x)
      BY <1>3, <1>4, <2>1
    <2> QED  BY <2>1, <2>2
  <1> QED  BY <1>5 DEF Feed!Max

\* The highest level a wave found is one it asked for.
LEMMA HighestFound ==
    ASSUME NEW wave, NEW n \in Nat, DOMAIN wave = 1..n
    PROVE  LET high == Feed!Highest(wave)
           IN  high = 0 \/ (high \in DOMAIN wave /\ wave[high] = "Found")
  <1>1. {0} \cup {l \in DOMAIN wave : wave[l] = "Found"} \in SUBSET (0..n)
    OBVIOUS
  <1>2. Feed!Highest(wave) \in {0} \cup {l \in DOMAIN wave : wave[l] = "Found"}
    BY <1>1, LargestOfBounded DEF Feed!Highest
  <1> QED  BY <1>2

\* A wave from what was found asks for levels of the lookahead.
LEMMA EffectiveLevels ==
    ASSUME NEW base, NEW limit \in 1..Lookahead
    PROVE  Feed!Effective(base, limit) \in 1..limit
  <1> DEFINE representable == {l \in 1..limit : Feed!probe_index(base, l) <= MaxIndex}
  <1>1. limit \in Nat /\ limit > 0 /\ representable \in SUBSET (0..limit)
    BY IndexAssumption
  <1>2. representable # {} => Feed!Max(representable) \in representable
    BY <1>1, LargestOfBounded
  <1> QED  BY <1>1, <1>2 DEF Feed!Effective

LEMMA WaveKeeps ==
    ASSUME FeedInv, UNCHANGED <<length, started>>, unsure' \in BOOLEAN,
           NEW base \in 0..(length - 1), NEW limit \in 1..Lookahead, NEW missing,
           Feed!Wave(base, limit, missing)
    PROVE  FeedInv'
  <1> USE DEF NoIndex, Feed!NoIndex
  <1>1. MaxIndex \in Nat /\ MaxIndex > 0 /\ NoIndex = MaxIndex + 1 /\ base \in Nat
    BY IndexAssumption DEF NoIndex
  <1>2. /\ latest' = base /\ level_limit' = limit /\ sent' = length
        /\ length \in 0..NoIndex /\ started \in Nat /\ started <= length
        /\ length' = length /\ started' = started
    BY DEF FeedInv, Feed!Wave
  <1>3. CASE base = MaxIndex
    <2>1. feed_pc' = "done" /\ next' = NoIndex
      BY <1>3 DEF Feed!Wave
    <2>2. FrontierIsFound'
      <3>1. NoIndex' = NoIndex /\ latest' = MaxIndex /\ latest' # NoIndex /\ latest' >= started' - 1
        BY <1>1, <1>2, <1>3 DEF NoIndex
      <3> QED  BY <2>1, <3>1 DEF FrontierIsFound, NextIsTheFrontier, OnlyFailureHidesUpdates
    <2> QED  BY <1>1, <1>2, <1>3, <2>1, <2>2 DEF FeedInv, NoIndex
  <1>4. CASE base # MaxIndex
    <2>1. /\ feed_pc' = "wave"
          /\ answers' = [l \in 1..Feed!Effective(base, limit) |-> "pending"]
      BY <1>4 DEF Feed!Wave
    <2>2. PICK n \in 1..limit : n = Feed!Effective(base, limit)
      BY EffectiveLevels
    <2>3. DOMAIN answers' = 1..n /\ n \in 1..Lookahead /\ \A l \in DOMAIN answers' : answers'[l] = "pending"
      BY <2>1, <2>2, IndexAssumption
    <2>4. base \in 0..(MaxIndex - 1)
      BY <1>1, <1>2, <1>4
    <2> QED  BY <1>1, <1>2, <2>1, <2>3, <2>4
             DEF FeedInv, FrontierIsFound, NextIsTheFrontier, OnlyFailureHidesUpdates
  <1> QED  BY <1>3, <1>4

LEMMA FinalKeeps ==
    ASSUME FeedInv, UNCHANGED <<length, started>>,
           NEW base \in 0..(MaxIndex - 1), base < length, NEW limit \in 1..Lookahead,
           Feed!Final(base, base + 1, limit)
    PROVE  FeedInv'
  BY IndexAssumption
  DEF FeedInv, Feed!Final, FrontierIsFound, NextIsTheFrontier, OnlyFailureHidesUpdates, NoIndex, Feed!NoIndex

LEMMA FirstProbeKeeps ==
    ASSUME FeedInv, NEW reply \in Feed!Answer, Feed!FirstProbe(reply)
    PROVE  FeedInv'
  <1> USE DEF NoIndex, Feed!NoIndex
  <1>1. /\ feed_pc = "first" /\ Feed!MayAnswer(0, reply) /\ UNCHANGED <<length, started>>
        /\ unsure' = (unsure \/ reply = "Transient")
    BY DEF Feed!FirstProbe
  <1>2. CASE reply = "Found"
    <2>1. Feed!Wave(0, Lookahead, NoIndex)
      BY <1>2 DEF Feed!FirstProbe
    <2>2. 0 \in 0..(length - 1) /\ Lookahead \in 1..Lookahead
      BY <1>1, <1>2, IndexAssumption DEF Feed!MayAnswer
    <2> QED  BY <1>1, <2>1, <2>2, WaveKeeps
  <1>3. CASE reply = "Missing"
    <2>1. Feed!Return(0) /\ 0 >= sent
      BY <1>1, <1>3 DEF Feed!FirstProbe, Feed!MayAnswer
    <2> QED  BY <1>1, <2>1, IndexAssumption
             DEF FeedInv, Feed!Return, FrontierIsFound, NextIsTheFrontier, OnlyFailureHidesUpdates, NoIndex
  <1>4. CASE reply = "Transient"
    <2>1. Feed!Return(NoIndex) /\ unsure'
      BY <1>1, <1>4 DEF Feed!FirstProbe
    <2> QED  BY <1>1, <2>1, IndexAssumption
             DEF FeedInv, Feed!Return, FrontierIsFound, NextIsTheFrontier, OnlyFailureHidesUpdates, NoIndex
  <1> QED  BY <1>2, <1>3, <1>4 DEF Feed!Answer

LEMMA FinalProbeKeeps ==
    ASSUME FeedInv, NEW reply \in Feed!Answer, Feed!FinalProbe(reply)
    PROVE  FeedInv'
  <1> USE DEF NoIndex, Feed!NoIndex
  <1>1. /\ feed_pc = "final" /\ Feed!MayAnswer(next, reply) /\ UNCHANGED <<length, started>>
        /\ unsure' = (unsure \/ reply = "Transient")
        /\ next = latest + 1 /\ latest \in 0..(MaxIndex - 1)
    BY DEF Feed!FinalProbe, FeedInv
  <1>2. CASE reply = "Found"
    <2>1. Feed!Wave(next, Lookahead, NoIndex)
      BY <1>2 DEF Feed!FinalProbe
    <2>2. next \in 0..(length - 1) /\ Lookahead \in 1..Lookahead
      BY <1>1, <1>2, IndexAssumption DEF Feed!MayAnswer
    <2> QED  BY <1>1, <2>1, <2>2, WaveKeeps
  <1>3. CASE reply = "Missing"
    <2>1. Feed!Return(next) /\ next >= sent
      BY <1>1, <1>3 DEF Feed!FinalProbe, Feed!MayAnswer
    <2> QED  BY <1>1, <2>1, IndexAssumption
             DEF FeedInv, Feed!Return, FrontierIsFound, NextIsTheFrontier, OnlyFailureHidesUpdates, NoIndex
  <1>4. CASE reply = "Transient"
    <2>1. Feed!Return(NoIndex) /\ unsure'
      BY <1>1, <1>4 DEF Feed!FinalProbe
    <2> QED  BY <1>1, <2>1, IndexAssumption
             DEF FeedInv, Feed!Return, FrontierIsFound, NextIsTheFrontier, OnlyFailureHidesUpdates, NoIndex
  <1> QED  BY <1>2, <1>3, <1>4 DEF Feed!Answer

LEMMA WaveProbeKeeps ==
    ASSUME FeedInv, NEW level, NEW reply \in Feed!Answer, Feed!WaveProbe(level, reply)
    PROVE  FeedInv'
  <1> USE DEF NoIndex, Feed!NoIndex
  <1> DEFINE wave == [answers EXCEPT ![level] = reply]
             high == Feed!Highest(wave)
  <1>1. /\ feed_pc = "wave" /\ level \in DOMAIN answers
        /\ Feed!MayAnswer(Feed!probe_index(latest, level), reply)
        /\ UNCHANGED <<length, started>> /\ unsure' = (unsure \/ reply = "Transient")
        /\ latest \in 0..(MaxIndex - 1) /\ latest < length /\ level_limit \in 1..Lookahead
    BY IndexAssumption DEF Feed!WaveProbe, FeedInv, NoIndex
  <1>2. PICK n \in 1..Lookahead : DOMAIN answers = 1..n
    BY <1>1 DEF FeedInv
  <1>3. DOMAIN wave = 1..n /\ n \in Nat /\ n <= Lookahead /\ Lookahead \in Nat \ {0}
    BY <1>2, IndexAssumption
  <1>4. \A l \in 1..n :
           wave[l] = "Found" => Feed!probe_index(latest, l) \in 0..(length - 1)
    <2>1. wave[level] = "Found" => Feed!probe_index(latest, level) \in 0..(length - 1)
      BY <1>1 DEF Feed!MayAnswer
    <2>2. \A l \in 1..n : l # level => wave[l] = answers[l]
      BY <1>2
    <2>3. \A l \in 1..n :
             answers[l] = "Found" => Feed!probe_index(latest, l) \in 0..(length - 1)
      BY <1>1, <1>2 DEF FeedInv
    <2> QED  BY <2>1, <2>2, <2>3
  <1>5. high = 0 \/ (high \in 1..n /\ wave[high] = "Found")
    BY <1>3, HighestFound
  <1>6. CASE ~Feed!WaveOver(wave)
    <2>1. answers' = wave /\ UNCHANGED <<feed_pc, latest, level_limit, next, sent>>
      BY <1>6 DEF Feed!WaveProbe
    <2> HIDE DEF wave
    <2> QED  BY <1>1, <1>3, <1>4, <2>1
             DEF FeedInv, FrontierIsFound, NextIsTheFrontier, OnlyFailureHidesUpdates
  <1>7. CASE Feed!WaveOver(wave)
    <2>1. Feed!EndOfWave(wave)
      BY <1>7 DEF Feed!WaveProbe
    <2>2. CASE high = 0
      <3>1. Feed!Final(latest, latest + 1, level_limit)
        BY <2>1, <2>2 DEF Feed!EndOfWave
      <3> QED  BY <1>1, <3>1, FinalKeeps
    <2>3. CASE high # 0
      <3> DEFINE found == Feed!probe_index(latest, high)
      <3>1. found \in 0..(length - 1) /\ high \in 1..Lookahead /\ high > 0
        BY <1>3, <1>4, <1>5, <2>3
      <3>2. Lookahead \in 1..Lookahead
        BY <1>3
      <3> HIDE DEF wave, high, found
      <3>3. \/ \E limit \in {high, Lookahead}, missing \in {Feed!MissingAbove(wave), NoIndex} :
                  Feed!Wave(found, limit, missing)
            \/ /\ known_missing = found + 1 /\ found < MaxIndex
               /\ Feed!Final(found, known_missing, Lookahead)
        <4>1. /\ high # Feed!Max(DOMAIN wave) =>
                    Feed!Wave(found, IF Feed!MissingAbove(wave) # NoIndex THEN high ELSE Lookahead,
                              Feed!MissingAbove(wave))
              /\ high = Feed!Max(DOMAIN wave) =>
                    IF known_missing = found + 1 /\ found < MaxIndex
                    THEN Feed!Final(found, known_missing, Lookahead)
                    ELSE Feed!Wave(found, Lookahead, NoIndex)
          BY <2>1, <3>1 DEF Feed!EndOfWave, high, found
        <4>2. CASE high # Feed!Max(DOMAIN wave)
          BY <4>1, <4>2, Zenon
        <4>3. CASE high = Feed!Max(DOMAIN wave)
          BY <4>1, <4>3, Zenon
        <4> QED  BY <4>2, <4>3
      <3>4. CASE known_missing = found + 1 /\ found < MaxIndex
                 /\ Feed!Final(found, known_missing, Lookahead)
        <4>1. found \in 0..(MaxIndex - 1) /\ found < length /\ Feed!Final(found, found + 1, Lookahead)
          BY <3>1, <3>4, IndexAssumption DEF FeedInv
        <4> QED  BY <1>1, <3>2, <4>1, FinalKeeps
      <3>5. ASSUME NEW limit \in {high, Lookahead}, NEW missing,
                   Feed!Wave(found, limit, missing)
            PROVE  FeedInv'
        <4>1. limit \in 1..Lookahead /\ unsure' \in BOOLEAN
          BY <1>1, <3>1, <3>2
        <4> QED  BY <1>1, <3>1, <3>5, <4>1, WaveKeeps
      <3> QED  BY <3>3, <3>4, <3>5
    <2> QED  BY <2>2, <2>3
  <1> QED  BY <1>6, <1>7

LEMMA FeedStep ==
    ASSUME FeedInv, [Feed!Next]_(Feed!vars)
    PROVE  FeedInv'
  <1> USE DEF NoIndex, Feed!NoIndex
  <1>1. CASE Feed!Publish
    <2>1. length' = length + 1 /\ feed_pc # "done" /\ length <= MaxIndex
          /\ UNCHANGED <<feed_pc, latest, level_limit, answers, next, started, sent>>
      BY <1>1 DEF Feed!Publish
    <2> QED  BY <2>1, IndexAssumption
             DEF FeedInv, FrontierIsFound, NextIsTheFrontier, OnlyFailureHidesUpdates, NoIndex
  <1>2. CASE Feed!Probed
    BY <1>2, FirstProbeKeeps, WaveProbeKeeps, FinalProbeKeeps DEF Feed!Probed
  <1>3. CASE Feed!Rest \/ UNCHANGED Feed!vars
    BY <1>3 DEF Feed!Rest, Feed!vars, FeedInv, FrontierIsFound, NextIsTheFrontier,
                OnlyFailureHidesUpdates
  <1> QED  BY <1>1, <1>2, <1>3 DEF Feed!Next

(* What the search returns is the frontier of the feed, however long the   *)
(* feed, whatever the lookahead and however its waves' answers and its     *)
(* owner's updates interleave.                                             *)
THEOREM FrontierIsAlwaysFound == Feed!Spec => []FrontierIsFound
  <1>1. Feed!Init => FeedInv
    BY IndexAssumption DEF Feed!NoIndex, Feed!Init, FeedInv, FrontierIsFound, NextIsTheFrontier,
                           OnlyFailureHidesUpdates, NoIndex
  <1>2. FeedInv /\ [Feed!Next]_(Feed!vars) => FeedInv'
    BY FeedStep
  <1>3. FeedInv => FrontierIsFound
    BY DEF FeedInv
  <1> QED  BY <1>1, <1>2, <1>3, PTL DEF Feed!Spec

-----------------------------------------------------------------------------
(***************************************************************************)
(* The byte ranges of a media file: what the high water says of loaded     *)
(* bytes, who is served by which load, and that prefetching goes on.       *)
(***************************************************************************)

MediaFields == {"generation", "anchor", "high", "scheduled", "completed", "last", "prefetching"}
TaskFields == {"pc", "generation", "start", "end", "want", "on", "ok", "bad", "timed", "retried",
               "stage"}

\* What a MediaState m has of bytes was handed to readers: l.
WaterSound(m, l) ==
    /\ DOMAIN m = MediaFields
    /\ m.anchor \in Int /\ m.high \in -1..(Size - 1)
    /\ m.completed \in SUBSET (Nat \X (0..(Size - 1)))
    /\ \A c \in m.completed : c[1]..c[2] \subseteq l
    /\ m.anchor # -1 => m.anchor..m.high \subseteq l
    /\ m.generation = 0 => m.anchor = -1

\* A request begins and ends in the file.
Formed(q) == DOMAIN q = TaskFields
Asks(q) == Formed(q) /\ q.start \in Nat /\ q.end \in 0..(Size - 1)

WaterInv ==
    /\ WaterSound(media, loaded) /\ sequence \in Nat
    /\ DOMAIN task = Media!Task
    /\ \A t \in Media!Task : Formed(task[t])
    /\ \A r \in Media!Request : Asks(task[r])

-----------------------------------------------------------------------------
(* Bytes and windows.                                                      *)

\* A bounded set of numbers has a largest one.
LEMMA LargestIs ==
    ASSUME NEW n \in Nat, NEW S \in SUBSET (-1..n), S # {}
    PROVE  Media!Max(S) \in S /\ \A x \in S : x <= Media!Max(S)
  <1> DEFINE T == {n - x : x \in S}
  <1>1. T \subseteq Nat /\ T # {}
    <2>1. \A x \in S : x \in Int /\ n - x \in Nat
      OBVIOUS
    <2> QED  BY <2>1
  <1>2. PICK y \in T : \A z \in T : ~(<<z, y>> \in OpToRel(<, Nat))
    BY <1>1, NatLessThanWellFounded, WFMin
  <1>3. PICK x \in S : y = n - x
    BY <1>2
  <1>4. \A z \in T : ~(z < y)
    BY <1>1, <1>2 DEF OpToRel
  <1>5. ASSUME NEW w \in S
        PROVE  w <= x
    <2>1. n - w \in T /\ w \in -1..n /\ x \in -1..n
      BY <1>3
    <2> HIDE DEF T
    <2>2. ~(n - w < n - x)
      BY <1>3, <1>4, <2>1
    <2> QED  BY <2>1, <2>2
  <1>6. \A z \in S : x >= z
    BY <1>5
  <1> QED  BY <1>6 DEF Media!Max

\* A set of naturals has a smallest one.
LEMMA SmallestIs ==
    ASSUME NEW S \in SUBSET Nat, S # {}
    PROVE  \E x \in S : \A y \in S : x <= y
  <1>1. PICK x \in S : \A y \in S : ~(<<y, x>> \in OpToRel(<, Nat))
    BY NatLessThanWellFounded, WFMin
  <1>2. \A y \in S : ~(y < x)
    BY <1>1 DEF OpToRel
  <1> QED  BY <1>2

LEMMA LesserIs ==
    ASSUME NEW a \in Int, NEW b \in Int
    PROVE  Media!Min({a, b}) \in {a, b} /\ Media!Min({a, b}) <= a /\ Media!Min({a, b}) <= b
  <1>1. \E x \in {a, b} : \A y \in {a, b} : x <= y
    OBVIOUS
  <1> QED  BY <1>1 DEF Media!Min

LEMMA MediaConstants ==
    ASSUME Media!MediaAssumption
    PROVE  /\ Size \in Nat \ {0} /\ WindowBytes \in Nat \ {0} /\ Generations \in Nat \ {0}
           /\ StartupBytes \in Nat \ {0} /\ ActiveBytes \in Nat \ {0}
           /\ MediaRequests \in Nat /\ Prefetchers \in Nat /\ MaxGenerations \in Nat
           /\ Starts \subseteq 0..(Size - 1) /\ Stops \subseteq 0..(Size - 1) /\ Stages \subseteq Nat
           /\ FirstGeneration \in 1..(Generations - 1)
           /\ MaxGenerations < Generations \div 2
  BY DEF Media!MediaAssumption, Media!Byte

LEMMA WindowBounds ==
    ASSUME Media!MediaAssumption
    PROVE  /\ (Size - 1) \div WindowBytes \in Nat
           /\ \A w \in Media!Window : /\ w \in Nat /\ Media!WindowStart(w) \in Nat
                                      /\ Media!WindowEnd(w) \in 0..(Size - 1)
  <1>0. Size \in Nat \ {0} /\ WindowBytes \in Nat \ {0}
    BY MediaConstants
  <1>1. (Size - 1) \div WindowBytes \in Nat
    BY <1>0
  <1>2. ASSUME NEW w \in Media!Window
        PROVE  /\ w \in Nat /\ Media!WindowStart(w) \in Nat
               /\ Media!WindowEnd(w) \in 0..(Size - 1)
    <2>1. w \in Nat
      BY <1>1 DEF Media!Window
    <2>2. PICK low \in Nat : low = w * WindowBytes
      BY <1>0, <2>1
    <2>3. PICK a : a = (w + 1) * WindowBytes
      OBVIOUS
    <2>4. a = low + WindowBytes
      BY <1>0, <2>1, <2>2, <2>3
    <2>5. a \in Nat \ {0}
      BY <1>0, <2>4
    <2>6. Media!Min({a, Size}) \in {a, Size} /\ Media!Min({a, Size}) <= Size
      BY <1>0, <2>5, LesserIs
    <2>7. Media!WindowEnd(w) = Media!Min({a, Size}) - 1
      BY <2>3 DEF Media!WindowEnd
    <2>8. Media!WindowEnd(w) \in 0..(Size - 1)
      BY <1>0, <2>5, <2>6, <2>7
    <2> QED  BY <2>1, <2>2, <2>8 DEF Media!WindowStart
  <1> QED  BY <1>1, <1>2

-----------------------------------------------------------------------------
(* What is marked complete.                                                *)

\* The ranges mark_complete joins to what is loaded up to high.
Ends(ranges) == {r[2] : r \in ranges}
Before(ranges, start) == {x \in ranges : x[1] < start}
Joined(high, ranges) ==
    {r \in ranges :
        \A q \in {q \in ranges : q[1] <= r[1]} :
            q[1] <= Media!Max({high} \cup Ends(Before(ranges, q[1]))) + 1}
Reach(high, ranges) == Media!Max({high} \cup Ends(Joined(high, ranges)))

\* They leave no byte out.
LEMMA JoinedCover ==
    ASSUME NEW high \in -1..(Size - 1), Size \in Nat \ {0},
           NEW ranges \in SUBSET (Nat \X (0..(Size - 1))),
           NEW reach, reach = Reach(high, ranges)
    PROVE  /\ reach \in -1..(Size - 1) /\ high <= reach
           /\ \A b \in (high + 1)..reach : \E r \in ranges : b \in r[1]..r[2]
  <1>1. \A r \in ranges : r[1] \in Nat /\ r[2] \in 0..(Size - 1)
    OBVIOUS
  <1>2. Size - 1 \in Nat
    OBVIOUS
  <1>3. PICK joined : joined = Joined(high, ranges)
    OBVIOUS
  <1>4. PICK R : R = {high} \cup Ends(joined)
    OBVIOUS
  <1>5. joined \subseteq ranges
    BY <1>3 DEF Joined
  <1>6. R \in SUBSET (-1..(Size - 1)) /\ R # {} /\ reach = Media!Max(R)
    BY <1>1, <1>3, <1>4, <1>5 DEF Reach, Ends
  <1>7. reach \in R /\ \A x \in R : x <= reach
    BY <1>2, <1>6, LargestIs
  <1>8. reach \in -1..(Size - 1) /\ high <= reach
    BY <1>4, <1>6, <1>7
  <1>9. ASSUME NEW b \in (high + 1)..reach
        PROVE  \E r \in ranges : b \in r[1]..r[2]
    <2>1. PICK S : S = {n \in Nat : \E r \in joined : r[1] = n /\ r[2] >= b}
      OBVIOUS
    <2>2. S \in SUBSET Nat /\ S # {}
      <3>1. b \in Int /\ b > high /\ b <= reach
        BY <1>8
      <3>2. PICK r \in joined : r[2] = reach
        BY <1>4, <1>7, <1>8, <3>1 DEF Ends
      <3>3. r[1] \in Nat /\ r[2] >= b
        BY <1>1, <1>5, <3>1, <3>2
      <3>4. r[1] \in S
        BY <2>1, <3>2, <3>3
      <3>5. S \in SUBSET Nat
        BY <2>1
      <3> QED  BY <3>4, <3>5
    <2>3. PICK n \in S : \A o \in S : n <= o
      BY <2>2, SmallestIs
    <2>4. PICK r \in joined : r[1] = n /\ r[2] >= b
      BY <2>1, <2>3
    <2>5. r \in ranges /\ r[1] \in Nat /\ r[2] \in Nat /\ b \in Int /\ b > high
      BY <1>1, <1>5, <1>8, <2>4
    <2>6. CASE r[1] <= b
      BY <2>4, <2>5, <2>6
    <2>7. CASE r[1] > b
      <3>1. PICK X : X = {high} \cup Ends(Before(ranges, r[1]))
        OBVIOUS
      <3>2. PICK top : top = Size - 1
        OBVIOUS
      <3>3. top \in Nat /\ X \in SUBSET (-1..top) /\ X # {}
        BY <1>1, <1>2, <3>1, <3>2 DEF Ends, Before
      <3>4. Media!Max(X) \in X
        BY <3>3, LargestIs
      <3>5. r[1] <= Media!Max(X) + 1
        BY <1>3, <2>4, <2>5, <3>1 DEF Joined
      <3>6. Media!Max(X) # high
        BY <2>5, <2>7, <3>5
      <3>7. PICK x \in ranges : x[1] < r[1] /\ x[2] = Media!Max(X)
        BY <3>1, <3>4, <3>6 DEF Ends, Before
      <3>8. x[1] \in Nat /\ x[2] \in Nat /\ x[2] >= b
        BY <1>1, <2>5, <2>7, <3>5, <3>7
      <3>9. x \in joined
        <4>1. \A q \in ranges : q[1] <= x[1] => q[1] <= r[1]
          BY <1>1, <2>5, <3>7, <3>8
        <4>2. \A q \in ranges : q[1] <= r[1] =>
                 q[1] <= Media!Max({high} \cup Ends(Before(ranges, q[1]))) + 1
          BY <1>3, <2>4 DEF Joined
        <4> QED  BY <1>3, <3>7, <4>1, <4>2 DEF Joined
      <3>10. x[1] \in S
        BY <2>1, <3>8, <3>9
      <3> QED  BY <2>3, <2>4, <2>5, <3>7, <3>8, <3>10
    <2> QED  BY <2>5, <2>6, <2>7
  <1> QED  BY <1>8, <1>9

\* What is marked complete when it was handed to readers keeps the water sound.
LEMMA MarkSound ==
    ASSUME Media!MediaAssumption, NEW m, NEW l, WaterSound(m, l),
           NEW start \in Nat, NEW end \in 0..(Size - 1),
           NEW k, l \subseteq k, start..end \subseteq k,
           NEW n, n = Media!mark_complete(m, start, end)
    PROVE  /\ WaterSound(n, k)
           /\ n.anchor = m.anchor /\ n.generation = m.generation
  <1>1. /\ DOMAIN m = MediaFields /\ m.high \in -1..(Size - 1) /\ m.anchor \in Int
        /\ m.completed \in SUBSET (Nat \X (0..(Size - 1)))
        /\ \A c \in m.completed : c[1]..c[2] \subseteq l
        /\ m.anchor # -1 => m.anchor..m.high \subseteq l
        /\ m.generation = 0 => m.anchor = -1
    BY DEF WaterSound
  <1>2. PICK high, ranges :
           /\ high = m.high
           /\ ranges = {c \in m.completed : c[1] # start} \cup {<<start, end>>}
    OBVIOUS
  <1>3. PICK reach, left : reach = Reach(high, ranges) /\ left = ranges \ Joined(high, ranges)
    OBVIOUS
  <1>4. n = [m EXCEPT !.high = reach, !.completed = left]
    BY <1>2, <1>3 DEF Media!mark_complete, Reach, Joined, Ends, Before
  <1>5. /\ ranges \in SUBSET (Nat \X (0..(Size - 1)))
        /\ \A c \in ranges : c[1]..c[2] \subseteq k
    BY <1>1, <1>2
  <1>6. Size \in Nat \ {0} /\ high \in -1..(Size - 1)
    BY <1>1, <1>2, MediaConstants
  <1>7. /\ reach \in -1..(Size - 1) /\ high <= reach
        /\ \A b \in (high + 1)..reach : \E r \in ranges : b \in r[1]..r[2]
    BY <1>3, <1>5, <1>6, JoinedCover
  <1>8. /\ DOMAIN n = MediaFields /\ n.high = reach /\ n.completed = left
        /\ n.anchor = m.anchor /\ n.generation = m.generation
    BY <1>1, <1>4 DEF MediaFields
  <1>9. n.anchor # -1 => n.anchor..n.high \subseteq k
    <2>1. ASSUME m.anchor # -1, NEW b \in m.anchor..reach
          PROVE  b \in k
      <3>1. CASE b <= high
        BY <1>1, <1>2, <2>1, <3>1
      <3>2. CASE b > high
        <4>1. b \in (high + 1)..reach
          BY <1>1, <1>6, <1>7, <3>2
        <4> QED  BY <1>5, <1>7, <4>1
      <3> QED  BY <1>1, <1>6, <3>1, <3>2
    <2> QED  BY <1>8, <2>1
  <1>10. left \subseteq ranges
    BY <1>3
  <1>11. /\ n.completed \in SUBSET (Nat \X (0..(Size - 1)))
         /\ \A c \in n.completed : c[1]..c[2] \subseteq k
    BY <1>5, <1>8, <1>10
  <1> QED  BY <1>1, <1>7, <1>8, <1>9, <1>11 DEF WaterSound

-----------------------------------------------------------------------------
(* A batch is marked window by window.                                     *)

MarkStep(m, w, good) ==
    IF w \in good THEN Media!mark_complete(m, Media!WindowStart(w), Media!WindowEnd(w)) ELSE m
MarksUpto(f, n, m, good) ==
    f = [w \in -1..n |-> IF w = -1 THEN m ELSE MarkStep(f[w - 1], w, good)]

LEMMA MarksExist ==
    ASSUME NEW m, NEW good, NEW N \in Nat
    PROVE  \E f : MarksUpto(f, N, m, good)
  <1> DEFINE S == {n \in Nat : ~\E f : MarksUpto(f, n - 1, m, good)}
  <1>1. CASE S = {}
    <2>1. PICK n \in Nat : n - 1 = N
      OBVIOUS
    <2>2. n \notin S
      BY <1>1, Zenon
    <2>3. \E f : MarksUpto(f, n - 1, m, good)
      BY <2>2
    <2> QED  BY <2>1, <2>3
  <1>2. CASE S # {}
    <2>1. PICK n \in S : \A o \in S : n <= o
      BY <1>2, SmallestIs
    <2>2. n \in Nat /\ ~\E f : MarksUpto(f, n - 1, m, good)
      BY <2>1
    <2>3. CASE n = 0
      <3>1. PICK f : f = [w \in -1..-1 |-> m]
        OBVIOUS
      <3>2. -1..(n - 1) = {-1} /\ \A w \in -1..(n - 1) : w = -1
        BY <2>3
      <3>3. MarksUpto(f, n - 1, m, good)
        BY <2>3, <3>1, <3>2 DEF MarksUpto
      <3> QED  BY <2>2, <3>3
    <2>4. CASE n # 0
      <3>1. n - 1 \in Nat /\ n - 1 \notin S
        BY <2>1, <2>2, <2>4
      <3>2. PICK o : o = n - 1
        OBVIOUS
      <3>3. PICK g : MarksUpto(g, o - 1, m, good)
        BY <3>1, <3>2
      <3>4. PICK f : f = [w \in -1..o |-> IF w = o THEN MarkStep(g[o - 1], o, good) ELSE g[w]]
        OBVIOUS
      <3>5. ASSUME NEW w \in -1..o
            PROVE  f[w] = IF w = -1 THEN m ELSE MarkStep(f[w - 1], w, good)
        <4>1. o \in Nat
          BY <3>1, <3>2
        <4>2. CASE w = o
          <5>1. f[o] = MarkStep(g[o - 1], o, good) /\ f[o - 1] = g[o - 1]
            BY <3>4, <4>1
          <5> QED  BY <4>1, <4>2, <5>1
        <4>3. CASE w # o
          <5>1. w \in -1..(o - 1) /\ f[w] = g[w]
            BY <3>4, <4>1, <4>3
          <5>2. g[w] = IF w = -1 THEN m ELSE MarkStep(g[w - 1], w, good)
            BY <3>3, <5>1 DEF MarksUpto
          <5>3. w # -1 => f[w - 1] = g[w - 1]
            BY <3>4, <4>1, <5>1
          <5> QED  BY <5>1, <5>2, <5>3
        <4> QED  BY <4>2, <4>3
      <3>6. f = [w \in -1..o |-> IF w = -1 THEN m ELSE MarkStep(f[w - 1], w, good)]
        <4>1. DOMAIN f = -1..o /\ f = [w \in -1..o |-> f[w]]
          BY <3>4
        <4> QED  BY <3>5, <4>1
      <3>7. MarksUpto(f, o, m, good)
        BY <3>6 DEF MarksUpto
      <3> QED  BY <2>2, <3>2, <3>7
    <2> QED  BY <2>3, <2>4
  <1> QED  BY <1>1, <1>2

\* Marked(good) is what the marks of all windows come to, one after the other.
Marks(f, N, good) ==
    \A w \in -1..N : f[w] = IF w = -1 THEN media ELSE MarkStep(f[w - 1], w, good)

HoldsWindows(k, good) ==
    \A w \in good \cap Media!Window : Media!WindowStart(w)..Media!WindowEnd(w) \subseteq k

LEMMA MarkedIs ==
    ASSUME Media!MediaAssumption, NEW good
    PROVE  \E f : \E N \in Nat :
              Media!Window = 0..N /\ Media!Marked(good) = f[N] /\ Marks(f, N, good)
  <1>1. PICK N \in Nat : N = (Size - 1) \div WindowBytes
    BY WindowBounds
  <1>2. Media!Window = 0..N /\ Media!Window \cup {-1} = -1..N
    BY <1>1 DEF Media!Window
  <1>3. Media!Max(Media!Window) = N
    <2>1. PICK S : S = Media!Window
      OBVIOUS
    <2>2. S \in SUBSET (-1..N) /\ S # {} /\ N \in S
      BY <1>2, <2>1
    <2>3. Media!Max(S) \in S /\ \A x \in S : x <= Media!Max(S)
      BY <2>2, LargestIs
    <2>4. Media!Max(S) <= N /\ N <= Media!Max(S) /\ Media!Max(S) \in Int
      BY <1>2, <2>1, <2>2, <2>3
    <2> QED  BY <2>1, <2>4
  <1>4. PICK f : MarksUpto(f, N, media, good) /\ Media!Marked(good) = f[N]
    <2>1. \E f : MarksUpto(f, N, media, good)
      BY MarksExist
    <2>2. MarksUpto(CHOOSE f : MarksUpto(f, N, media, good), N, media, good)
      BY <2>1
    <2>3. Media!Marked(good) = (CHOOSE f : MarksUpto(f, N, media, good))[N]
      BY <1>2, <1>3 DEF Media!Marked, MarksUpto, MarkStep
    <2> QED  BY <2>2, <2>3
  <1>5. Marks(f, N, good)
    BY <1>4 DEF MarksUpto, Marks
  <1> QED  BY <1>2, <1>4, <1>5

LEMMA MarksSound ==
    ASSUME Media!MediaAssumption, WaterSound(media, loaded), NEW good, NEW k, loaded \subseteq k,
           HoldsWindows(k, good),
           NEW N \in Nat, NEW f, Media!Window = 0..N, Marks(f, N, good)
    PROVE  \A w \in -1..N : /\ WaterSound(f[w], k) /\ f[w].anchor = media.anchor
                            /\ f[w].generation = media.generation
  <1> DEFINE Sound(m) ==
        WaterSound(m, k) /\ m.anchor = media.anchor /\ m.generation = media.generation
  <1> DEFINE S == {n \in Nat : n - 1 \in -1..N /\ ~Sound(f[n - 1])}
  <1>6. CASE S = {}
    <2>1. ASSUME NEW w \in -1..N
          PROVE  Sound(f[w])
      <3>1. PICK n \in Nat : n - 1 = w
        OBVIOUS
      <3>2. n \notin S
        BY <1>6, Zenon
      <3> QED  BY <3>1, <3>2
    <2> QED  BY <2>1
  <1>7. CASE S # {}
    <2>1. PICK n \in S : \A o \in S : n <= o
      BY <1>7, SmallestIs
    <2>2. n \in Nat /\ n - 1 \in -1..N /\ ~Sound(f[n - 1])
      BY <2>1
    <2> HIDE DEF Sound
    <2>3. CASE n = 0
      <3>1. f[n - 1] = media
        BY <2>2, <2>3 DEF Marks
      <3>2. Sound(media)
        BY DEF Sound, WaterSound
      <3> QED  BY <2>2, <3>1, <3>2
    <2>4. CASE n # 0
      <3>1. PICK w : w = n - 1
        OBVIOUS
      <3>2. w \in Nat /\ w \in 0..N /\ w \in Media!Window /\ w < n
        BY <2>2, <2>4, <3>1
      <3>3. Sound(f[w - 1])
        BY <2>1, <3>1, <3>2
      <3>4. f[w] = MarkStep(f[w - 1], w, good)
        BY <3>2 DEF Marks
      <3>5. CASE w \in good
        <4>1. PICK m, new, start, end :
                 /\ m = f[w - 1] /\ new = f[w]
                 /\ start = Media!WindowStart(w) /\ end = Media!WindowEnd(w)
          OBVIOUS
        <4>2. /\ start \in Nat /\ end \in 0..(Size - 1) /\ start..end \subseteq k
              /\ WaterSound(m, k) /\ new = Media!mark_complete(m, start, end)
          BY <3>2, <3>3, <3>4, <3>5, <4>1, WindowBounds DEF MarkStep, Sound, HoldsWindows
        <4>3. WaterSound(new, k) /\ new.anchor = m.anchor /\ new.generation = m.generation
          BY <4>2, MarkSound
        <4>4. Sound(new)
          BY <3>3, <4>1, <4>3 DEF Sound
        <4> QED  BY <2>2, <3>1, <4>1, <4>4
      <3>6. CASE w \notin good
        BY <2>2, <3>1, <3>3, <3>4, <3>6 DEF MarkStep
      <3> QED  BY <3>5, <3>6
    <2> QED  BY <2>3, <2>4
  <1> QED  BY <1>6, <1>7

LEMMA MarkedSound ==
    ASSUME Media!MediaAssumption, WaterSound(media, loaded), NEW good, NEW k, loaded \subseteq k,
           HoldsWindows(k, good)
    PROVE  /\ WaterSound(Media!Marked(good), k)
           /\ Media!Marked(good).anchor = media.anchor
           /\ Media!Marked(good).generation = media.generation
  <1>1. PICK f, N : /\ N \in Nat /\ Media!Window = 0..N
                    /\ Media!Marked(good) = f[N] /\ Marks(f, N, good)
    BY MarkedIs
  <1>2. \A w \in -1..N : /\ WaterSound(f[w], k) /\ f[w].anchor = media.anchor
                         /\ f[w].generation = media.generation
    BY <1>1, MarksSound
  <1> QED  BY <1>1, <1>2

-----------------------------------------------------------------------------
(* Every step.                                                             *)

\* Nothing of the water changes but what is scheduled.
LEMMA SameWater ==
    ASSUME NEW m, NEW l, WaterSound(m, l), NEW n, DOMAIN n = DOMAIN m,
           n.anchor = m.anchor, n.high = m.high, n.completed = m.completed,
           n.generation = m.generation
    PROVE  WaterSound(n, l)
  BY DEF WaterSound

LEMMA IdleAsks ==
    ASSUME Media!MediaAssumption
    PROVE  Asks(Media!Idle)
  <1>1. PICK q : q = Media!Idle
    OBVIOUS
  <1>2. DOMAIN q = TaskFields /\ q.start = 0 /\ q.end = 0
    BY <1>1 DEF Media!Idle, TaskFields
  <1> QED  BY <1>1, <1>2, MediaConstants DEF Asks, Formed

LEMMA WaterStarts ==
    ASSUME Media!MediaAssumption, Media!Init
    PROVE  WaterInv
  <1>1. /\ Size \in Nat \ {0} /\ FirstGeneration \in Nat \ {0}
    BY MediaConstants
  <1>2. PICK m : m = Media!NoMedia
    OBVIOUS
  <1>3. /\ DOMAIN m = MediaFields /\ m.anchor = -1 /\ m.high = -1 /\ m.completed = {}
        /\ m.generation = 0
    BY <1>2 DEF Media!NoMedia, MediaFields
  <1>4. WaterSound(m, loaded)
    BY <1>1, <1>3 DEF WaterSound
  <1>5. PICK q : q = Media!Idle
    OBVIOUS
  <1>7. Asks(q)
    BY <1>5, IdleAsks
  <1>8. sequence \in Nat /\ media = m /\ task = [t \in Media!Task |-> q]
    BY <1>1, <1>2, <1>5 DEF Media!Init
  <1>9. \A t \in Media!Task : task[t] = q
    BY <1>8
  <1>10. Media!Request \subseteq Media!Task
    BY DEF Media!Task
  <1> QED  BY <1>4, <1>7, <1>8, <1>9, <1>10 DEF WaterInv, Asks

\* The tasks keep to the water when every request goes on or is another.
LEMMA TasksKeep ==
    ASSUME WaterInv, DOMAIN task' = Media!Task,
           \A t \in Media!Task : task'[t] = task[t] \/ Asks(task'[t])
                                 \/ (Formed(task'[t]) /\ t \notin Media!Request)
                                 \/ (Formed(task'[t]) /\ task'[t].start = task[t].start
                                                      /\ task'[t].end = task[t].end)
    PROVE  /\ \A t \in Media!Task : Formed(task'[t])
           /\ \A r \in Media!Request : Asks(task'[r])
  <1>1. Media!Request \subseteq Media!Task
    BY DEF Media!Task
  <1> QED  BY <1>1 DEF WaterInv, Asks

LEMMA BeginsSoundly ==
    ASSUME Media!MediaAssumption, WaterInv, NEW r \in Media!Request, NEW start \in Starts,
           NEW stop \in Stops, Media!Begin(r, start, stop)
    PROVE  WaterInv'
  <1>1. PICK fresh, seek, runaway, moved, end, anchored, scheduled :
           /\ fresh = (media.anchor = -1)
           /\ moved = (fresh \/ seek \/ runaway)
           /\ end = Media!Min({start + (IF moved THEN StartupBytes ELSE ActiveBytes) - 1, stop})
           /\ anchored = (IF moved
                          THEN [media EXCEPT !.anchor = start, !.high = start - 1,
                                             !.scheduled = start - 1, !.last = start]
                          ELSE [media EXCEPT !.last = start])
           /\ scheduled = Media!mark_scheduled(anchored, Media!WindowEnd(Media!WindowOf(end)))
           /\ IF media.generation = 0 \/ (~fresh /\ (seek \/ runaway))
              THEN Media!Renew([scheduled EXCEPT !.completed = {}])
              ELSE media' = scheduled /\ UNCHANGED <<sequence, seeks, loaded>>
           /\ task' = [task EXCEPT ![r] =
                  [Media!Idle EXCEPT !.pc = "read", !.generation = media'.generation,
                                     !.start = start, !.end = end,
                                     !.want = Media!WindowsOf(start, end)]]
    BY DEF Media!Begin
  <1>2. /\ Size \in Nat \ {0} /\ StartupBytes \in Nat \ {0} /\ ActiveBytes \in Nat \ {0}
        /\ Generations \in Nat \ {0} /\ start \in Nat /\ stop \in 0..(Size - 1)
    BY MediaConstants
  <1>3. end \in 0..(Size - 1)
    <2>1. PICK a : a = start + (IF moved THEN StartupBytes ELSE ActiveBytes) - 1
      OBVIOUS
    <2>2. a \in Nat /\ end = Media!Min({a, stop})
      BY <1>1, <1>2, <2>1
    <2>3. a \in Int /\ stop \in Int /\ stop \in 0..(Size - 1)
      BY <1>2, <2>2
    <2>4. Media!Min({a, stop}) \in {a, stop} /\ Media!Min({a, stop}) <= stop
      BY <2>3, LesserIs
    <2> QED  BY <1>2, <2>2, <2>3, <2>4
  <1>4. /\ DOMAIN media = MediaFields /\ media.anchor \in Int /\ media.high \in -1..(Size - 1)
        /\ media.completed \in SUBSET (Nat \X (0..(Size - 1)))
        /\ \A c \in media.completed : c[1]..c[2] \subseteq loaded
        /\ media.anchor # -1 => media.anchor..media.high \subseteq loaded
        /\ media.generation = 0 => media.anchor = -1
        /\ sequence \in Nat
    BY DEF WaterInv, WaterSound
  <1>5. /\ DOMAIN scheduled = MediaFields
        /\ scheduled.anchor = (IF moved THEN start ELSE media.anchor)
        /\ scheduled.high = (IF moved THEN start - 1 ELSE media.high)
        /\ scheduled.completed = media.completed /\ scheduled.generation = media.generation
    <2>1. /\ DOMAIN anchored = MediaFields
          /\ anchored.anchor = (IF moved THEN start ELSE media.anchor)
          /\ anchored.high = (IF moved THEN start - 1 ELSE media.high)
          /\ anchored.completed = media.completed /\ anchored.generation = media.generation
      <3>1. CASE moved
        BY <1>1, <1>4, <3>1 DEF MediaFields
      <3>2. CASE ~moved
        BY <1>1, <1>4, <3>2 DEF MediaFields
      <3> QED  BY <3>1, <3>2
    <2> QED  BY <1>1, <2>1 DEF Media!mark_scheduled, MediaFields
  <1>6. WaterSound(media', loaded') /\ sequence' \in Nat
    <2>1. CASE media.generation = 0 \/ (~fresh /\ (seek \/ runaway))
      <3>1. moved
        BY <1>1, <1>4, <2>1
      <3>2. PICK cleared : cleared = [scheduled EXCEPT !.completed = {}]
        OBVIOUS
      <3>3. /\ DOMAIN cleared = MediaFields /\ cleared.completed = {}
            /\ cleared.anchor = start /\ cleared.high = start - 1
        BY <1>5, <3>1, <3>2 DEF MediaFields
      <3>4. /\ sequence' = Media!next_nonzero_generation(sequence) /\ loaded' = {}
            /\ media' = [cleared EXCEPT !.generation = sequence']
        BY <1>1, <2>1, <3>2 DEF Media!Renew
      <3>5. sequence' \in Nat \ {0}
        BY <1>2, <1>4, <3>4 DEF Media!next_nonzero_generation
      <3>6. /\ DOMAIN media' = MediaFields /\ media'.completed = {}
            /\ media'.anchor = start /\ media'.high = start - 1 /\ media'.generation # 0
        BY <3>3, <3>4, <3>5 DEF MediaFields
      <3>7. start..(start - 1) = {} /\ start - 1 \in -1..(Size - 1)
        BY <1>2, MediaConstants
      <3> QED  BY <1>2, <3>4, <3>5, <3>6, <3>7 DEF WaterSound
    <2>2. CASE ~(media.generation = 0 \/ (~fresh /\ (seek \/ runaway)))
      <3>1. media' = scheduled /\ loaded' = loaded /\ sequence' = sequence
        BY <1>1, <2>2
      <3>2. start..(start - 1) = {} /\ start - 1 \in -1..(Size - 1)
        BY <1>2, MediaConstants
      <3>3. CASE moved
        BY <1>2, <1>4, <1>5, <2>2, <3>1, <3>2, <3>3 DEF WaterSound
      <3>4. CASE ~moved
        BY <1>4, <1>5, <2>2, <3>1, <3>4 DEF WaterSound
      <3> QED  BY <3>3, <3>4
    <2> QED  BY <2>1, <2>2
  <1>7. PICK q : q = [Media!Idle EXCEPT !.pc = "read", !.generation = media'.generation,
                                        !.start = start, !.end = end,
                                        !.want = Media!WindowsOf(start, end)]
    OBVIOUS
  <1>8. Asks(q)
    BY <1>2, <1>3, <1>7 DEF Asks, Formed, Media!Idle, TaskFields
  <1>9. DOMAIN task' = Media!Task /\ \A t \in Media!Task : task'[t] = task[t] \/ Asks(task'[t])
    BY <1>1, <1>7, <1>8 DEF WaterInv
  <1>10. /\ \A t \in Media!Task : Formed(task'[t])
         /\ \A t \in Media!Request : Asks(task'[t])
    BY <1>9, TasksKeep
  <1> QED  BY <1>6, <1>9, <1>10 DEF WaterInv

LEMMA ForgetsSoundly ==
    ASSUME Media!MediaAssumption, WaterInv, Media!Clear \/ Media!Trim
    PROVE  WaterInv'
  <1>1. PICK m : m = Media!NoMedia
    OBVIOUS
  <1>2. /\ DOMAIN m = MediaFields /\ m.anchor = -1 /\ m.high = -1 /\ m.completed = {}
        /\ m.generation = 0
    BY <1>1 DEF Media!NoMedia, MediaFields
  <1>3. Size \in Nat \ {0} /\ Generations \in Nat \ {0}
    BY MediaConstants
  <1>4. CASE Media!Clear
    <2>1. PICK n : n = [m EXCEPT !.last = media.last]
      OBVIOUS
    <2>2. /\ sequence' = Media!next_nonzero_generation(sequence)
          /\ media' = [n EXCEPT !.generation = sequence'] /\ task' = task
      BY <1>1, <1>4, <2>1 DEF Media!Clear, Media!Renew
    <2>3. sequence' \in Nat
      BY <1>3, <2>2 DEF Media!next_nonzero_generation, WaterInv
    <2>4. DOMAIN n = MediaFields /\ n.anchor = -1 /\ n.high = -1 /\ n.completed = {}
      BY <1>2, <2>1 DEF MediaFields
    <2>5. /\ DOMAIN media' = MediaFields /\ media'.anchor = -1 /\ media'.high = -1
          /\ media'.completed = {}
      BY <2>2, <2>4 DEF MediaFields
    <2>6. WaterSound(media', loaded')
      BY <1>3, <2>5 DEF WaterSound
    <2> QED  BY <2>2, <2>3, <2>6 DEF WaterInv
  <1>5. CASE Media!Trim
    <2>1. media' = m /\ task' = task /\ sequence' = sequence
      BY <1>1, <1>5 DEF Media!Trim
    <2>2. WaterSound(media', loaded')
      BY <1>2, <1>3, <2>1 DEF WaterSound
    <2> QED  BY <2>1, <2>2 DEF WaterInv
  <1> QED  BY <1>4, <1>5

\* What the tasks and loads do beside the state of the media.
LEMMA ReadsSoundly ==
    ASSUME WaterInv, UNCHANGED <<media, loaded, sequence>>, DOMAIN task' = Media!Task,
           \A t \in Media!Task : /\ Formed(task'[t])
                                 /\ task'[t].start = task[t].start /\ task'[t].end = task[t].end
    PROVE  WaterInv'
  <1>1. /\ \A t \in Media!Task : Formed(task'[t])
        /\ \A r \in Media!Request : Asks(task'[r])
    BY TasksKeep
  <1> QED  BY <1>1 DEF WaterInv

LEMMA LoadsSoundly ==
    ASSUME WaterInv,
           \/ Media!Evict
           \/ \E t \in Media!Task : Media!ReaderTimeout(t) \/ Media!Read(t)
           \/ \E r \in Media!Request : Media!Again(r)
           \/ \E p \in producers : Media!Register(p) \/ Media!Produce(p)
           \/ \E p \in Media!Prefetcher : Media!RetryWindow(p)
    PROVE  WaterInv'
  <1>1. UNCHANGED <<media, loaded, sequence>>
    BY DEF Media!Evict, Media!ReaderTimeout, Media!Read, Media!Again, Media!Register,
           Media!Produce, Media!RetryWindow, Media!shared
  <1>2. DOMAIN task = Media!Task /\ \A t \in Media!Task : DOMAIN task[t] = TaskFields
    BY DEF WaterInv, Formed
  <1> DEFINE Stays(q, new) ==
        DOMAIN new = TaskFields /\ new.start = q.start /\ new.end = q.end
  <1>3. DOMAIN task' = Media!Task /\ \A t \in Media!Task : Stays(task[t], task'[t])
    <2>1. CASE task' = task
      BY <1>2, <2>1
    <2>2. ASSUME NEW t \in Media!Task, Media!ReaderTimeout(t)
          PROVE  DOMAIN task' = Media!Task /\ \A u \in Media!Task : Stays(task[u], task'[u])
      <3>1. PICK w : task' = [task EXCEPT ![t].on[w] = 0, ![t].bad = @ \cup {w},
                                          ![t].timed = @ \cup {w}]
        BY <2>2 DEF Media!ReaderTimeout
      <3> QED  BY <1>2, <3>1 DEF TaskFields
    <2>3. ASSUME NEW t \in Media!Task, Media!Read(t)
          PROVE  DOMAIN task' = Media!Task /\ \A u \in Media!Task : Stays(task[u], task'[u])
      <3>1. DOMAIN task' = Media!Task
        BY <2>3 DEF Media!Read
      <3>2. ASSUME NEW u \in Media!Task
            PROVE  Stays(task[u], task'[u])
        <4>1. CASE u = t
          <5>1. PICK goal, ok, bad, on :
                   task'[t] = [task[t] EXCEPT !.pc = goal, !.want = {}, !.ok = ok, !.bad = bad,
                                              !.on = on]
            BY <2>3, Zenon DEF Media!Read
          <5> QED  BY <1>2, <4>1, <5>1 DEF TaskFields
        <4>2. CASE u # t
          <5>1. PICK bad, on : task'[u] = [task[u] EXCEPT !.bad = bad, !.on = on]
            BY <2>3, <4>2, Zenon DEF Media!Read
          <5> QED  BY <1>2, <5>1 DEF TaskFields
        <4> QED  BY <4>1, <4>2
      <3> QED  BY <3>1, <3>2
    <2>4. ASSUME NEW r \in Media!Task, Media!Again(r) \/ Media!RetryWindow(r)
          PROVE  DOMAIN task' = Media!Task /\ \A u \in Media!Task : Stays(task[u], task'[u])
      <3>1. CASE Media!Again(r)
        <4>1. PICK windows : task' = [task EXCEPT ![r].pc = "read", ![r].want = windows,
                                                  ![r].retried = windows]
          BY <3>1 DEF Media!Again
        <4> QED  BY <1>2, <4>1 DEF TaskFields
      <3>2. CASE Media!RetryWindow(r)
        <4>1. PICK w : task' = [task EXCEPT ![r].want = @ \cup {w}, ![r].bad = @ \ {w},
                                            ![r].timed = @ \ {w}, ![r].retried = @ \cup {w}]
          BY <3>2 DEF Media!RetryWindow
        <4> QED  BY <1>2, <4>1 DEF TaskFields
      <3> QED  BY <2>4, <3>1, <3>2
    <2>5. ASSUME NEW p \in producers, Media!Produce(p), task' # task
          PROVE  DOMAIN task' = Media!Task /\ \A u \in Media!Task : Stays(task[u], task'[u])
      <3>1. PICK success : task' = Media!finish_range_waiters(p, success)
        BY <2>5 DEF Media!Produce
      <3>2. ASSUME NEW u \in Media!Task
            PROVE  Stays(task[u], task'[u])
        <4>1. CASE task[u].on[p.window] # p.id
          BY <1>2, <3>1, <4>1 DEF Media!finish_range_waiters
        <4>2. CASE task[u].on[p.window] = p.id
          <5>1. PICK ok, bad : task'[u] = [task[u] EXCEPT !.on[p.window] = 0, !.ok = ok, !.bad = bad]
            BY <3>1, <4>2 DEF Media!finish_range_waiters
          <5> QED  BY <1>2, <5>1 DEF TaskFields
        <4> QED  BY <4>1, <4>2
      <3> QED  BY <3>1, <3>2 DEF Media!finish_range_waiters
    <2>6. Media!Request \subseteq Media!Task /\ Media!Prefetcher \subseteq Media!Task
      BY DEF Media!Task
    <2>7. Media!Evict => task' = task
      BY DEF Media!Evict
    <2>8. \A p \in producers : Media!Register(p) => task' = task
      BY DEF Media!Register
    <2> QED  BY <2>1, <2>2, <2>3, <2>4, <2>5, <2>6, <2>7, <2>8
  <1> QED  BY <1>1, <1>3, ReadsSoundly DEF Formed

\* A failure is noted in what is scheduled only.
LEMMA FailsSoundly ==
    ASSUME Media!MediaAssumption, WaterInv, NEW r \in Media!Request, Media!Fails(r)
    PROVE  WaterInv' /\ media'.generation = media.generation
  <1>1. DOMAIN media = MediaFields /\ DOMAIN task = Media!Task /\ r \in Media!Task
    BY DEF WaterInv, WaterSound, Media!Task
  <1>2. loaded' = loaded /\ sequence' = sequence
    BY DEF Media!Fails
  <1>3. \/ media' = media
        \/ \E s : media' = [media EXCEPT !.scheduled = s]
    BY Zenon DEF Media!Fails, Media!note_media_range_failure, Media!IfCurrent, Media!mark_failure
  <1>4. WaterSound(media', loaded) /\ media'.generation = media.generation
    <2>1. ASSUME NEW s, media' = [media EXCEPT !.scheduled = s]
          PROVE  WaterSound(media', loaded) /\ media'.generation = media.generation
      <3>1. /\ DOMAIN media' = DOMAIN media /\ media'.anchor = media.anchor
            /\ media'.high = media.high /\ media'.completed = media.completed
            /\ media'.generation = media.generation
        BY <1>1, <2>1 DEF MediaFields
      <3> QED  BY <3>1, SameWater DEF WaterInv
    <2> QED  BY <1>3, <2>1 DEF WaterInv
  <1>5. /\ DOMAIN task' = Media!Task
        /\ \A t \in Media!Task : task'[t] = task[t] \/ Asks(task'[t])
              \/ (Formed(task'[t]) /\ task'[t].start = task[t].start
                                   /\ task'[t].end = task[t].end)
    <2>1. \/ task' = [task EXCEPT ![r] = Media!Idle]
          \/ task' = [task EXCEPT ![r] =
                    [@ EXCEPT !.pc = "again", !.on = Media!RangeWaiterGuards, !.ok = {},
                              !.bad = {}, !.timed = {}]]
      BY DEF Media!Fails
    <2>2. Asks(Media!Idle)
      BY IdleAsks
    <2>3. CASE task' = [task EXCEPT ![r] = Media!Idle]
      BY <1>1, <2>2, <2>3
    <2>4. CASE task' = [task EXCEPT ![r] =
                    [@ EXCEPT !.pc = "again", !.on = Media!RangeWaiterGuards, !.ok = {},
                              !.bad = {}, !.timed = {}]]
      <3>1. DOMAIN task[r] = TaskFields
        BY <1>1 DEF WaterInv, Formed
      <3> QED  BY <1>1, <2>4, <3>1 DEF Formed, TaskFields
    <2> QED  BY <2>1, <2>3, <2>4
  <1>6. /\ \A t \in Media!Task : Formed(task'[t])
        /\ \A t \in Media!Request : Asks(task'[t])
    BY <1>5, TasksKeep
  <1> QED  BY <1>2, <1>4, <1>5, <1>6 DEF WaterInv

\* The range of a request that succeeds was read.
LEMMA SucceedsSoundly ==
    ASSUME Media!MediaAssumption, WaterInv, NEW r \in Media!Request, Media!Succeeds(r)
    PROVE  WaterInv' /\ media'.generation = media.generation
  <1>1. /\ DOMAIN media = MediaFields /\ DOMAIN task = Media!Task /\ r \in Media!Task
        /\ WaterSound(media, loaded)
    BY DEF WaterInv, WaterSound, Media!Task
  <1>2. PICK q : q = task[r]
    OBVIOUS
  <1>3. q.start \in Nat /\ q.end \in 0..(Size - 1)
    BY <1>2 DEF WaterInv, Asks
  <1>4. PICK whole : whole = Media!mark_media_range_complete(q.generation, q.start, q.end)
    OBVIOUS
  <1>5. sequence' = sequence
    BY DEF Media!Succeeds
  <1>6. loaded' = IF Media!media_generation_current(q.generation)
                  THEN loaded \cup (q.start..q.end) ELSE loaded
    BY <1>2 DEF Media!Succeeds
  <1>7. WaterSound(whole, loaded') /\ whole.generation = media.generation
    <2>1. CASE Media!media_generation_current(q.generation)
      <3>1. PICK start, end, k : start = q.start /\ end = q.end /\ k = loaded'
        OBVIOUS
      <3>2. whole = Media!mark_complete(media, start, end)
        BY <1>4, <2>1, <3>1 DEF Media!mark_media_range_complete, Media!IfCurrent
      <3>3. /\ start \in Nat /\ end \in 0..(Size - 1)
            /\ loaded \subseteq k /\ start..end \subseteq k
        BY <1>3, <1>6, <2>1, <3>1
      <3>4. WaterSound(whole, k) /\ whole.generation = media.generation
        BY <1>1, <3>2, <3>3, MarkSound
      <3> QED  BY <3>1, <3>4
    <2>2. CASE ~Media!media_generation_current(q.generation)
      BY <1>1, <1>4, <1>6, <2>2 DEF Media!mark_media_range_complete, Media!IfCurrent
    <2> QED  BY <2>1, <2>2
  <1>8. WaterSound(media', loaded') /\ media'.generation = media.generation
    <2>1. \/ media' = whole \/ \E g : media' = [whole EXCEPT !.prefetching = g]
      BY <1>2, <1>4, Zenon DEF Media!Succeeds
    <2>2. ASSUME NEW g, media' = [whole EXCEPT !.prefetching = g]
          PROVE  WaterSound(media', loaded') /\ media'.generation = media.generation
      <3>1. DOMAIN whole = MediaFields
        BY <1>7 DEF WaterSound
      <3>2. /\ DOMAIN media' = DOMAIN whole /\ media'.anchor = whole.anchor
            /\ media'.high = whole.high /\ media'.completed = whole.completed
            /\ media'.generation = whole.generation
        BY <2>2, <3>1 DEF MediaFields
      <3> QED  BY <1>7, <3>2, SameWater
    <2> QED  BY <1>7, <2>1, <2>2
  <1>9. /\ DOMAIN task' = Media!Task
        /\ \A t \in Media!Task : task'[t] = task[t] \/ Asks(task'[t])
    <2>1. Asks(Media!Idle)
      BY IdleAsks
    <2>2. CASE task' = [task EXCEPT ![r] = Media!Idle]
      BY <1>1, <2>1, <2>2
    <2>3. ASSUME NEW p, task' = [task EXCEPT ![r] = Media!Idle, ![p] =
                          [Media!Idle EXCEPT !.pc = "again", !.generation = q.generation,
                                             !.end = q.end, !.stage = 0]]
          PROVE  /\ DOMAIN task' = Media!Task
                 /\ \A t \in Media!Task : task'[t] = task[t] \/ Asks(task'[t])
      <3>1. PICK new : new = [Media!Idle EXCEPT !.pc = "again", !.generation = q.generation,
                                                !.end = q.end, !.stage = 0]
        OBVIOUS
      <3>2. Asks(new)
        BY <1>3, <2>1, <3>1 DEF Asks, Formed, Media!Idle, TaskFields
      <3> QED  BY <1>1, <2>1, <2>3, <3>1, <3>2
    <2>4. \/ task' = [task EXCEPT ![r] = Media!Idle]
          \/ \E p : task' = [task EXCEPT ![r] = Media!Idle, ![p] =
                          [Media!Idle EXCEPT !.pc = "again", !.generation = q.generation,
                                             !.end = q.end, !.stage = 0]]
      BY <1>2, Zenon DEF Media!Succeeds
    <2> QED  BY <2>2, <2>3, <2>4
  <1>10. /\ \A t \in Media!Task : Formed(task'[t])
         /\ \A t \in Media!Request : Asks(task'[t])
    BY <1>9, TasksKeep
  <1> QED  BY <1>5, <1>8, <1>9, <1>10 DEF WaterInv

\* A batch marks windows that were read.
LEMMA PrefetchesSoundly ==
    ASSUME Media!MediaAssumption, WaterInv, NEW p \in Media!Prefetcher,
           Media!NextStage(p) \/ Media!NextBatch(p) \/ Media!EndBatch(p)
    PROVE  WaterInv' /\ media'.generation = media.generation
  <1>1. /\ DOMAIN media = MediaFields /\ DOMAIN task = Media!Task /\ p \in Media!Task
        /\ WaterSound(media, loaded) /\ p \notin Media!Request
    <2>1. MediaRequests \in Nat
      BY MediaConstants
    <2> QED  BY <2>1 DEF WaterInv, WaterSound, Media!Task, Media!Prefetcher, Media!Request
  <1>2. sequence' = sequence
    BY DEF Media!NextStage, Media!NextBatch, Media!EndBatch
  <1>3. WaterSound(media', loaded') /\ media'.generation = media.generation
    <2>1. CASE Media!NextStage(p) \/ Media!NextBatch(p)
      <3>1. loaded' = loaded
        BY <2>1 DEF Media!NextStage, Media!NextBatch
      <3>2. \/ media' = media
            \/ \E s : media' = [media EXCEPT !.prefetching = s]
            \/ \E s : media' = [media EXCEPT !.scheduled = s]
        <4>1. CASE Media!NextStage(p)
          BY <4>1, Zenon DEF Media!NextStage, Media!Finish
        <4>2. CASE Media!NextBatch(p)
          BY <4>2, Zenon DEF Media!NextBatch, Media!mark_scheduled
        <4> QED  BY <2>1, <4>1, <4>2
      <3>3. ASSUME NEW s, \/ media' = [media EXCEPT !.prefetching = s]
                          \/ media' = [media EXCEPT !.scheduled = s]
            PROVE  WaterSound(media', loaded) /\ media'.generation = media.generation
        <4>1. /\ DOMAIN media' = DOMAIN media /\ media'.anchor = media.anchor
              /\ media'.high = media.high /\ media'.completed = media.completed
              /\ media'.generation = media.generation
          BY <1>1, <3>3 DEF MediaFields
        <4> QED  BY <1>1, <4>1, SameWater
      <3> QED  BY <1>1, <3>1, <3>2, <3>3
    <2>2. CASE Media!EndBatch(p)
      <3>1. PICK q, good, low :
               /\ q = task[p] /\ good = {w \in q.ok : \A x \in q.bad : w < x}
               /\ low = Media!WindowStart(Media!Min(q.bad))
        OBVIOUS
      <3>2. media' = Media!IfCurrent(q.generation,
                         IF q.bad = {} THEN Media!Marked(good)
                         ELSE Media!mark_failure(Media!Marked(good), low))
        BY <2>2, <3>1, Zenon DEF Media!EndBatch
      <3>3. loaded' = IF media.generation # q.generation THEN loaded
                      ELSE loaded \cup
                           UNION {Media!WindowStart(w)..Media!WindowEnd(w) : w \in good}
        BY <2>2, <3>1, Zenon DEF Media!EndBatch
      <3>4. CASE media.generation # q.generation
        BY <1>1, <3>2, <3>3, <3>4 DEF Media!IfCurrent, Media!media_generation_current
      <3>5. CASE media.generation = q.generation
        <4>1. PICK k : k = loaded'
          OBVIOUS
        <4>2. loaded \subseteq k /\ HoldsWindows(k, good)
          BY <3>3, <3>5, <4>1 DEF HoldsWindows
        <4>3. /\ WaterSound(Media!Marked(good), k)
              /\ Media!Marked(good).generation = media.generation
          BY <1>1, <4>2, MarkedSound
        <4>4. \/ media' = Media!Marked(good)
              \/ media' = Media!mark_failure(Media!Marked(good), low)
          BY <3>2, <3>5 DEF Media!IfCurrent, Media!media_generation_current
        <4>5. PICK m : m = Media!Marked(good)
          OBVIOUS
        <4>6. CASE media' = Media!mark_failure(m, low)
          <5>1. PICK s : media' = [m EXCEPT !.scheduled = s]
            BY <4>6 DEF Media!mark_failure
          <5>2. DOMAIN m = MediaFields
            BY <4>3, <4>5 DEF WaterSound
          <5>3. /\ DOMAIN media' = DOMAIN m /\ media'.anchor = m.anchor
                /\ media'.high = m.high /\ media'.completed = m.completed
                /\ media'.generation = m.generation
            BY <5>1, <5>2 DEF MediaFields
          <5> QED  BY <4>1, <4>3, <4>5, <5>3, SameWater
        <4> QED  BY <4>1, <4>3, <4>4, <4>5, <4>6
      <3> QED  BY <3>4, <3>5
    <2> QED  BY <2>1, <2>2
  <1>4. /\ DOMAIN task' = Media!Task
        /\ \A t \in Media!Task : task'[t] = task[t] \/ (Formed(task'[t]) /\ t = p)
    <2>1. DOMAIN task[p] = TaskFields
      BY <1>1 DEF WaterInv, Formed
    <2>2. CASE Media!NextStage(p)
      <3>1. \/ task' = [task EXCEPT ![p] = Media!Idle]
            \/ \E s : task' = [task EXCEPT ![p].stage = s, ![p].pc = "read"]
        BY <2>2, Zenon DEF Media!NextStage, Media!Finish
      <3>2. Formed(Media!Idle)
        BY IdleAsks DEF Asks
      <3> QED  BY <1>1, <2>1, <3>1, <3>2 DEF Formed, TaskFields
    <2>3. CASE Media!NextBatch(p)
      <3>1. \/ task' = [task EXCEPT ![p].pc = "again"]
            \/ \E batch, start : task' = [task EXCEPT ![p] =
                  [@ EXCEPT !.pc = "batch", !.want = batch, !.start = start, !.ok = {},
                            !.bad = {}, !.timed = {}, !.retried = {}]]
        BY <2>3, Zenon DEF Media!NextBatch
      <3> QED  BY <1>1, <2>1, <3>1 DEF Formed, TaskFields
    <2>4. CASE Media!EndBatch(p)
      <3>1. \E s : task' = [task EXCEPT ![p] =
                  [@ EXCEPT !.pc = s, !.ok = {}, !.bad = {}, !.timed = {}, !.retried = {}]]
        BY <2>4, Zenon DEF Media!EndBatch
      <3> QED  BY <1>1, <2>1, <3>1 DEF Formed, TaskFields
    <2> QED  BY <2>2, <2>3, <2>4
  <1>5. /\ \A t \in Media!Task : Formed(task'[t])
        /\ \A t \in Media!Request : Asks(task'[t])
    BY <1>1, <1>4, TasksKeep
  <1> QED  BY <1>2, <1>3, <1>4, <1>5 DEF WaterInv

LEMMA WaterStep ==
    ASSUME Media!MediaAssumption, WaterInv, [Media!Next]_Media!vars
    PROVE  WaterInv'
  <1>1. CASE UNCHANGED Media!vars
    BY <1>1 DEF Media!vars, Media!shared, WaterInv
  <1>2. Media!Request \subseteq Media!Task /\ Media!Prefetcher \subseteq Media!Task
    BY DEF Media!Task
  <1>3. CASE Media!Outside
    BY <1>2, <1>3, BeginsSoundly, ForgetsSoundly, LoadsSoundly DEF Media!Outside
  <1>4. CASE Media!Load
    BY <1>4, LoadsSoundly DEF Media!Load
  <1>5. ASSUME NEW r \in Media!Request, Media!RequestStep(r)
        PROVE  WaterInv'
    BY <1>2, <1>5, LoadsSoundly, FailsSoundly, SucceedsSoundly DEF Media!RequestStep
  <1>6. ASSUME NEW p \in Media!Prefetcher, Media!PrefetchStep(p)
        PROVE  WaterInv'
    BY <1>2, <1>6, LoadsSoundly, PrefetchesSoundly DEF Media!PrefetchStep
  <1> QED  BY <1>1, <1>3, <1>4, <1>5, <1>6 DEF Media!Next, Media!TaskStep

\* What lies between the anchor and the high water was read in this
\* generation (mark_complete), for every file and size of window, however
\* many requests and prefetchers there are and whatever fails.
THEOREM HighWater ==
    ASSUME Media!MediaAssumption
    PROVE  Media!Spec => []HighWaterIsLoaded
  <1>1. WaterInv => HighWaterIsLoaded
    BY DEF WaterInv, WaterSound, HighWaterIsLoaded
  <1> QED  BY <1>1, WaterStarts, WaterStep, PTL DEF Media!Spec

-----------------------------------------------------------------------------
(* Generations.                                                            *)

\* The i-th generation given out, none of them zero.
Gen(i) ==
    IF FirstGeneration - 1 + i < Generations THEN FirstGeneration - 1 + i
    ELSE FirstGeneration + i - Generations
Past(n) == {Gen(i) : i \in 1..n}

LEMMA GenIs ==
    ASSUME Media!MediaAssumption
    PROVE  /\ Gen(0) = FirstGeneration - 1
           /\ \A i \in 1..MaxGenerations : Gen(i) \in 1..(Generations - 1)
           /\ \A i \in 0..(MaxGenerations - 1) : Media!next_nonzero_generation(Gen(i)) = Gen(i + 1)
  <1>1. /\ Generations \in Nat \ {0} /\ MaxGenerations \in Nat
        /\ FirstGeneration \in 1..(Generations - 1) /\ MaxGenerations < Generations \div 2
    BY MediaConstants
  <1>2. MaxGenerations + MaxGenerations < Generations
    BY <1>1
  <1> QED  BY <1>1, <1>2 DEF Gen, Media!next_nonzero_generation

\* A later generation is newer, also across the wrap.
LEMMA NewerIs ==
    ASSUME Media!MediaAssumption, NEW i \in 1..MaxGenerations, NEW j \in 1..MaxGenerations
    PROVE  Media!generation_is_newer(Gen(i), Gen(j)) <=> i > j
  <1>1. /\ Generations \in Nat \ {0} /\ MaxGenerations \in Nat
        /\ FirstGeneration \in 1..(Generations - 1) /\ MaxGenerations < Generations \div 2
    BY MediaConstants
  <1>2. PICK half \in Nat : half = Generations \div 2 /\ MaxGenerations < half
                            /\ half + half <= Generations
    <2>1. Generations \div 2 \in Nat /\ (Generations \div 2) + (Generations \div 2) <= Generations
      BY <1>1
    <2> QED  BY <1>1, <2>1
  <1>3. PICK a, b : a = Gen(i) /\ b = Gen(j)
    OBVIOUS
  <1>4. a \in 1..(Generations - 1) /\ b \in 1..(Generations - 1)
    BY <1>3, GenIs
  <1>5. PICK d \in Int : d = a - b
    BY <1>1, <1>4
  <1>6. Media!generation_is_newer(a, b) <=> a # b /\ d % Generations < half
    BY <1>2, <1>5 DEF Media!generation_is_newer
  <1>7. CASE d >= 0
    <2>1. d % Generations = d
      BY <1>1, <1>4, <1>5, <1>7
    <2> QED  BY <1>1, <1>2, <1>3, <1>4, <1>5, <1>6, <1>7, <2>1 DEF Gen
  <1>8. CASE d < 0
    <2>1. d % Generations = d + Generations
      BY <1>1, <1>4, <1>5, <1>8
    <2> QED  BY <1>1, <1>2, <1>3, <1>4, <1>5, <1>6, <1>8, <2>1 DEF Gen
  <1> QED  BY <1>3, <1>5, <1>6, <1>7, <1>8

\* Of the generations given out, n, the last is newer than all others.
LEMMA LastIsNewest ==
    ASSUME Media!MediaAssumption, NEW n \in 1..MaxGenerations, NEW g \in Past(n)
    PROVE  /\ g \in Nat \ {0}
           /\ ~Media!generation_is_newer(g, Gen(n))
           /\ g # Gen(n) => Media!generation_is_newer(Gen(n), g)
  <1>1. PICK i \in 1..n : g = Gen(i)
    BY DEF Past
  <1>2. i \in 1..MaxGenerations /\ MaxGenerations \in Nat
    BY MediaConstants
  <1>3. g \in 1..(Generations - 1) /\ Generations \in Nat
    BY <1>1, <1>2, GenIs, MediaConstants
  <1>4. ~Media!generation_is_newer(g, Gen(n))
    BY <1>1, <1>2, NewerIs
  <1>5. g # Gen(n) => Media!generation_is_newer(Gen(n), g)
    <2>1. CASE i = n
      BY <1>1, <2>1
    <2>2. CASE i < n
      BY <1>1, <1>2, <2>2, NewerIs
    <2> QED  BY <1>2, <2>1, <2>2
  <1> QED  BY <1>3, <1>4, <1>5

\* What is not newer than an older one is not newer than this.
LEMMA NewerCarries ==
    ASSUME Media!MediaAssumption, NEW n \in 0..MaxGenerations,
           NEW a \in Past(n), NEW b \in Past(n), NEW c \in Past(n),
           ~Media!generation_is_newer(a, b), Media!generation_is_newer(c, b)
    PROVE  ~Media!generation_is_newer(a, c)
  <1>1. PICK i \in 1..n, j \in 1..n, k \in 1..n : a = Gen(i) /\ b = Gen(j) /\ c = Gen(k)
    BY DEF Past
  <1>2. /\ i \in 1..MaxGenerations /\ j \in 1..MaxGenerations /\ k \in 1..MaxGenerations
        /\ MaxGenerations \in Nat
    BY MediaConstants
  <1>3. ~(i > j) /\ k > j
    BY <1>1, <1>2, NewerIs
  <1>4. ~(i > k)
    BY <1>2, <1>3
  <1> QED  BY <1>1, <1>2, <1>4, NewerIs

LEMMA PastGrows ==
    ASSUME NEW n \in Nat
    PROVE  Past(n) \subseteq Past(n + 1) /\ Gen(n + 1) \in Past(n + 1)
  BY DEF Past

-----------------------------------------------------------------------------
(* Who waits, what loads, what is registered.                              *)

ProducerFields == {"window", "generation", "id", "fresh", "registered"}

\* The state of the file belongs to the last generation given out, if to any.
Newest ==
    /\ seeks \in 0..MaxGenerations /\ sequence = Gen(seeks)
    /\ DOMAIN media = MediaFields
    /\ media.generation # 0 => seeks # 0 /\ media.generation = Gen(seeks)

\* A task reads windows of the file.
Sane(q) ==
    /\ DOMAIN q = TaskFields /\ DOMAIN q.on = Media!Window
    /\ q.end \in 0..(Size - 1) /\ q.stage \in Nat
    /\ q.want \subseteq Media!Window /\ q.bad \subseteq Media!Window

\* A task that works belongs to a generation; what it waits for is the load
\* of that generation which holds the window.
TaskServed(q, fs, n) ==
    /\ Sane(q)
    /\ q.pc # "idle" => q.generation \in Past(n)
    /\ \A w \in Media!Window :
          q.on[w] # 0 => fs[w].id = q.on[w] /\ fs[w].generation = q.generation
TasksServed(ts, fs, n) ==
    DOMAIN ts = Media!Task /\ \A t \in Media!Task : TaskServed(ts[t], fs, n)

\* A window that is held is being loaded.
HasLoad(w, id, ps) == \E p \in ps : p.window = w /\ p.id = id
FlightsHeld(fs, ps, n) ==
    /\ DOMAIN fs = Media!Window
    /\ \A w \in Media!Window :
          \/ fs[w] = Media!NoFlight
          \/ fs[w].id # 0 /\ fs[w].generation \in Past(n) /\ HasLoad(w, fs[w].id, ps)

\* No load that is registered is newer than the latest one.
Outdates(newest, generation, n) ==
    newest \in Past(n) /\ ~Media!generation_is_newer(generation, newest)
LoadFits(p, newest, n) ==
    /\ DOMAIN p = ProducerFields /\ p.window \in Media!Window
    /\ p.generation \in Past(n) /\ p.registered \in BOOLEAN
    /\ p.registered => Outdates(newest, p.generation, n)
LoadsFit(ps, newest, n) ==
    /\ IsFiniteSet(ps) /\ newest \in {0} \cup Past(n)
    /\ \A p \in ps : LoadFits(p, newest, n)

ServedInv ==
    /\ Newest /\ TasksServed(task, flights, seeks) /\ FlightsHeld(flights, producers, seeks)
    /\ LoadsFit(producers, scope_latest, seeks) /\ CurrentIsServed

\* The ids of the loads of a window leave one out.
LEMMA NewIdIs ==
    ASSUME IsFiniteSet(producers), NEW w
    PROVE  Media!NewId(w) \in Nat \ {0}
  <1> DEFINE Q == {q \in producers : q.window = w}
             ids == {p.id : p \in Q}
             free == (1..(Cardinality(producers) + 1)) \ ids
  <1>1. PICK c \in Nat : c = Cardinality(producers)
    BY FS_CardinalityType
  <1>2. IsFiniteSet(Q) /\ Cardinality(Q) <= c
    BY <1>1, FS_Subset
  <1>3. IsFiniteSet(ids) /\ Cardinality(ids) <= Cardinality(Q)
    <2>1. PICK f : f = [p \in Q |-> p.id]
      OBVIOUS
    <2>2. f \in Surjection(Q, ids)
      BY <2>1 DEF Surjection
    <2> HIDE DEF Q, ids
    <2> QED  BY <1>2, <2>2, FS_Surjection
  <1>4. Cardinality(ids) \in Nat /\ Cardinality(Q) \in Nat
    BY <1>2, <1>3, FS_CardinalityType
  <1> HIDE DEF ids
  <1>5. free # {}
    <2>1. SUFFICES ASSUME 1..(c + 1) \subseteq ids
                   PROVE  FALSE
      BY <1>1
    <2>2. PICK S : S = 1..(c + 1)
      OBVIOUS
    <2>3. PICK one, last \in Int : one = 1 /\ last = c + 1
      OBVIOUS
    <2>4. Cardinality(one..last) = IF one > last THEN 0 ELSE last - one + 1
      BY <2>3, FS_Interval
    <2>5. Cardinality(S) = c + 1
      BY <2>2, <2>3, <2>4
    <2>6. S \in SUBSET ids
      BY <2>1, <2>2
    <2>7. Cardinality(S) <= Cardinality(ids)
      BY <1>3, <2>6, FS_Subset
    <2> QED  BY <1>2, <1>3, <1>4, <2>5, <2>7
  <1>6. free \in SUBSET Nat
    BY <1>1
  <1>7. PICK S : S = free
    OBVIOUS
  <1>8. \E x \in S : \A y \in S : x <= y
    BY <1>5, <1>6, <1>7, SmallestIs
  <1>9. Media!Min(S) \in S
    BY <1>8 DEF Media!Min
  <1>10. Media!NewId(w) = Media!Min(S)
    <2>1. Media!Cardinality(producers) = Cardinality(producers)
      BY Zenon DEF Media!Cardinality, Cardinality
    <2> QED  BY <1>7, <2>1, Zenon DEF Media!NewId, ids
  <1> QED  BY <1>1, <1>7, <1>9, <1>10

\* What the invariant says of the readers.
LEMMA ServedImplies ==
    ASSUME Media!MediaAssumption, ServedInv
    PROVE  ReadersAreServed
  <1>1. CurrentIsServed
    BY DEF ServedInv
  <1>2. ASSUME NEW p \in producers, p.registered, p.generation = media.generation
        PROVE  scope_latest = p.generation
    <2>1. /\ p.generation \in Past(seeks) /\ scope_latest \in Past(seeks)
          /\ ~Media!generation_is_newer(p.generation, scope_latest)
      BY <1>2 DEF ServedInv, LoadsFit, LoadFits, Outdates
    <2>2. seeks \in 1..MaxGenerations
      BY <2>1, MediaConstants DEF ServedInv, Newest, Past
    <2>3. p.generation # 0
      BY <2>1, <2>2, LastIsNewest
    <2>4. p.generation = Gen(seeks)
      BY <1>2, <2>3 DEF ServedInv, Newest
    <2> QED  BY <2>1, <2>2, <2>4, LastIsNewest
  <1>3. WaitersHaveALoad
    <2>1. ASSUME NEW t \in DOMAIN task, NEW w \in DOMAIN flights, task[t].on[w] # 0
          PROVE  /\ flights[w].id = task[t].on[w]
                 /\ \E p \in producers : p.window = w /\ p.id = flights[w].id
      <3>1. t \in Media!Task /\ w \in Media!Window
        BY <2>1 DEF ServedInv, TasksServed, FlightsHeld
      <3>2. flights[w].id = task[t].on[w]
        BY <2>1, <3>1 DEF ServedInv, TasksServed, TaskServed
      <3>3. flights[w] # Media!NoFlight
        BY <2>1, <3>2 DEF Media!NoFlight
      <3>4. HasLoad(w, flights[w].id, producers)
        BY <3>1, <3>3 DEF ServedInv, FlightsHeld
      <3> QED  BY <3>2, <3>4 DEF HasLoad
    <2> QED  BY <2>1 DEF WaitersHaveALoad
  <1>4. CurrentIsNotCancelled
    BY <1>2 DEF CurrentIsNotCancelled
  <1> QED  BY <1>1, <1>3, <1>4 DEF ReadersAreServed

LEMMA IdleServed ==
    ASSUME Media!MediaAssumption, NEW fs, NEW n
    PROVE  TaskServed(Media!Idle, fs, n) /\ Sane(Media!Idle)
           /\ \A w \in Media!Window : Media!Idle.on[w] = 0
  <1>1. PICK q : q = Media!Idle
    OBVIOUS
  <1>2. /\ DOMAIN q = TaskFields /\ q.pc = "idle" /\ q.end = 0 /\ q.stage = 0
        /\ q.want = {} /\ q.bad = {}
        /\ DOMAIN q.on = Media!Window /\ \A w \in Media!Window : q.on[w] = 0
    BY <1>1 DEF Media!Idle, TaskFields
  <1> QED  BY <1>1, <1>2, MediaConstants DEF TaskServed, Sane

LEMMA ServedStarts ==
    ASSUME Media!MediaAssumption, Media!Init
    PROVE  ServedInv
  <1>1. MaxGenerations \in Nat /\ Gen(0) = FirstGeneration - 1
    BY MediaConstants, GenIs
  <1>2. Newest
    BY <1>1 DEF Newest, Media!Init, Media!NoMedia, MediaFields
  <1>5. TaskServed(Media!Idle, flights, seeks)
    BY IdleServed
  <1>6. TasksServed(task, flights, seeks)
    BY <1>5 DEF TasksServed, Media!Init
  <1>7. FlightsHeld(flights, producers, seeks)
    BY DEF FlightsHeld, Media!Init
  <1>8. LoadsFit(producers, scope_latest, seeks)
    BY FS_EmptySet DEF LoadsFit, Media!Init
  <1>9. CurrentIsServed
    BY DEF CurrentIsServed, Media!Init
  <1> QED  BY <1>2, <1>6, <1>7, <1>8, <1>9 DEF ServedInv

-----------------------------------------------------------------------------
(* Steps.                                                                  *)

\* What held for the generations so far holds when one more is given out.
LEMMA OneMoreKeeps ==
    ASSUME NEW n \in Nat, NEW fs, NEW ts, NEW ps, NEW newest,
           TasksServed(ts, fs, n), FlightsHeld(fs, ps, n), LoadsFit(ps, newest, n)
    PROVE  /\ TasksServed(ts, fs, n + 1) /\ FlightsHeld(fs, ps, n + 1)
           /\ LoadsFit(ps, newest, n + 1)
  <1>1. PICK o : o = n + 1
    OBVIOUS
  <1>2. Past(n) \subseteq Past(o)
    BY <1>1, PastGrows
  <1>3. TasksServed(ts, fs, o)
    BY <1>2 DEF TasksServed, TaskServed
  <1>4. FlightsHeld(fs, ps, o)
    BY <1>2 DEF FlightsHeld
  <1>5. LoadsFit(ps, newest, o)
    BY <1>2 DEF LoadsFit, LoadFits, Outdates
  <1> QED  BY <1>1, <1>3, <1>4, <1>5

LEMMA RenewKeeps ==
    ASSUME Media!MediaAssumption, Newest, NEW m, DOMAIN m = MediaFields, Media!Renew(m)
    PROVE  Newest' /\ seeks' = seeks + 1 /\ media'.generation \in Past(seeks')
  <1>1. /\ seeks \in 0..MaxGenerations /\ seeks < MaxGenerations /\ seeks' = seeks + 1
        /\ MaxGenerations \in Nat
    BY MediaConstants DEF Newest, Media!Renew
  <1>2. sequence' = Gen(seeks')
    BY <1>1, GenIs DEF Newest, Media!Renew
  <1>3. DOMAIN media' = MediaFields /\ media'.generation = Gen(seeks')
    BY <1>2 DEF Media!Renew, MediaFields
  <1>4. seeks' \in 1..MaxGenerations
    BY <1>1
  <1> QED  BY <1>1, <1>2, <1>3, <1>4 DEF Newest, Past

\* A task goes on for its generation, or waits for nothing.
Kept(q, new) ==
    /\ Sane(new) /\ new.generation = q.generation /\ new.on = q.on /\ q.pc # "idle"
Blank(new, n) ==
    /\ Sane(new) /\ \A w \in Media!Window : new.on[w] = 0
    /\ new.pc # "idle" => new.generation \in Past(n)

LEMMA KeptServed ==
    ASSUME NEW fs, NEW n, TasksServed(task, fs, n), DOMAIN task' = Media!Task,
           \A t \in Media!Task : task'[t] = task[t] \/ Kept(task[t], task'[t]) \/ Blank(task'[t], n)
    PROVE  TasksServed(task', fs, n)
  <1>1. ASSUME NEW t \in Media!Task
        PROVE  TaskServed(task'[t], fs, n)
    <2>1. TaskServed(task[t], fs, n)
      BY DEF TasksServed
    <2>2. CASE Kept(task[t], task'[t])
      BY <2>1, <2>2 DEF Kept, TaskServed
    <2>3. CASE Blank(task'[t], n)
      BY <2>3 DEF Blank, TaskServed
    <2> QED  BY <2>1, <2>2, <2>3
  <1> QED  BY <1>1 DEF TasksServed

LEMMA QuietServed ==
    ASSUME ServedInv, UNCHANGED <<seeks, sequence, flights, producers, scope_latest, wronged>>,
           DOMAIN media' = MediaFields, media'.generation = media.generation,
           DOMAIN task' = Media!Task,
           \A t \in Media!Task : \/ task'[t] = task[t] \/ Kept(task[t], task'[t])
                                 \/ Blank(task'[t], seeks)
    PROVE  ServedInv'
  <1>1. TasksServed(task', flights, seeks)
    BY KeptServed DEF ServedInv
  <1>2. Newest'
    BY DEF ServedInv, Newest
  <1> QED  BY <1>1, <1>2 DEF ServedInv, CurrentIsServed

LEMMA WindowsInFile ==
    ASSUME Media!MediaAssumption, NEW start \in Nat, NEW end \in 0..(Size - 1)
    PROVE  /\ Media!WindowOf(start) \in Nat
           /\ Media!WindowsOf(start, end) \subseteq Media!Window
  <1>1. Size \in Nat \ {0} /\ WindowBytes \in Nat \ {0}
    BY MediaConstants
  <1>2. start \div WindowBytes \in Nat
    BY <1>1
  <1>3. PICK top \in Nat : top = Size - 1 /\ end \in Nat /\ end <= top
    BY <1>1
  <1>4. PICK a \in Nat, b \in Nat : a = end \div WindowBytes /\ b = top \div WindowBytes
    BY <1>1, <1>3
  <1>5. a <= b
    <2>1. /\ a * WindowBytes <= end /\ top < (b + 1) * WindowBytes
      BY <1>1, <1>3, <1>4
    <2>2. SUFFICES ASSUME a >= b + 1
                   PROVE  FALSE
      BY <1>4
    <2>3. a * WindowBytes >= (b + 1) * WindowBytes
      BY <1>1, <1>4, <2>2
    <2>4. PICK x \in Int, y \in Int : x = a * WindowBytes /\ y = (b + 1) * WindowBytes
      BY <1>1, <1>4
    <2> QED  BY <1>3, <2>1, <2>3, <2>4
  <1> QED  BY <1>2, <1>3, <1>4, <1>5 DEF Media!WindowOf, Media!WindowsOf, Media!Window

LEMMA BeginServes ==
    ASSUME Media!MediaAssumption, WaterInv, ServedInv,
           NEW r \in Media!Request, NEW start \in Starts, NEW stop \in Stops,
           Media!Begin(r, start, stop)
    PROVE  ServedInv'
  <1>1. PICK seek, end, scheduled :
           /\ DOMAIN scheduled = MediaFields /\ scheduled.generation = media.generation
           /\ IF media.generation = 0 \/ (media.anchor # -1 /\ seek)
              THEN Media!Renew([scheduled EXCEPT !.completed = {}])
              ELSE media' = scheduled /\ UNCHANGED <<sequence, seeks, loaded>>
           /\ task' = [task EXCEPT ![r] =
                  [Media!Idle EXCEPT !.pc = "read", !.generation = media'.generation,
                                     !.start = start, !.end = end,
                                     !.want = Media!WindowsOf(start, end)]]
    <2>1. PICK moved, seek, end, high, scheduled, anchored :
           /\ \/ anchored = [media EXCEPT !.anchor = start, !.high = start - 1,
                                          !.scheduled = start - 1, !.last = start]
              \/ anchored = [media EXCEPT !.last = start]
           /\ scheduled = [anchored EXCEPT !.scheduled = high]
           /\ IF media.generation = 0 \/ (media.anchor # -1 /\ seek)
              THEN Media!Renew([scheduled EXCEPT !.completed = {}])
              ELSE media' = scheduled /\ UNCHANGED <<sequence, seeks, loaded>>
           /\ task' = [task EXCEPT ![r] =
                  [Media!Idle EXCEPT !.pc = "read", !.generation = media'.generation,
                                     !.start = start, !.end = end,
                                     !.want = Media!WindowsOf(start, end)]]
      <3>1. PICK fresh, seek, runaway, moved, end, anchored :
           /\ fresh = (media.anchor = -1)
           /\ anchored = (IF moved
                          THEN [media EXCEPT !.anchor = start, !.high = start - 1,
                                             !.scheduled = start - 1, !.last = start]
                          ELSE [media EXCEPT !.last = start])
           /\ IF media.generation = 0 \/ (~fresh /\ (seek \/ runaway))
              THEN Media!Renew([Media!mark_scheduled(anchored,
                                   Media!WindowEnd(Media!WindowOf(end))) EXCEPT !.completed = {}])
              ELSE /\ media' = Media!mark_scheduled(anchored,
                                   Media!WindowEnd(Media!WindowOf(end)))
                   /\ UNCHANGED <<sequence, seeks, loaded>>
           /\ task' = [task EXCEPT ![r] =
                  [Media!Idle EXCEPT !.pc = "read", !.generation = media'.generation,
                                     !.start = start, !.end = end,
                                     !.want = Media!WindowsOf(start, end)]]
        BY Zenon DEF Media!Begin
      <3>2. PICK high : Media!mark_scheduled(anchored, Media!WindowEnd(Media!WindowOf(end)))
                            = [anchored EXCEPT !.scheduled = high]
        BY DEF Media!mark_scheduled
      <3>3. (media.anchor # -1 /\ (seek \/ runaway)) <=> (~fresh /\ (seek \/ runaway))
        BY <3>1
      <3> QED  BY <3>1, <3>2, <3>3
    <2>2. DOMAIN media = MediaFields
      BY DEF ServedInv, Newest
    <2>3. DOMAIN anchored = MediaFields /\ anchored.generation = media.generation
      BY <2>1, <2>2 DEF MediaFields
    <2>4. DOMAIN scheduled = MediaFields /\ scheduled.generation = media.generation
      BY <2>1, <2>3 DEF MediaFields
    <2> QED  BY <2>1, <2>4
  <1>2. /\ UNCHANGED <<flights, producers, scope_latest, wronged>>
    BY DEF Media!Begin
  <1>3. /\ Newest' /\ (seeks' = seeks + 1 \/ seeks' = seeks)
        /\ media'.generation \in Past(seeks')
    <2>1. CASE media.generation = 0 \/ (media.anchor # -1 /\ seek)
      <3>1. PICK m : m = [scheduled EXCEPT !.completed = {}]
        OBVIOUS
      <3>2. DOMAIN m = MediaFields /\ Media!Renew(m)
        BY <1>1, <2>1, <3>1
      <3> QED  BY <3>2, RenewKeeps DEF ServedInv
    <2>2. CASE ~(media.generation = 0 \/ (media.anchor # -1 /\ seek))
      <3>1. /\ DOMAIN media' = MediaFields /\ media'.generation = media.generation
            /\ sequence' = sequence /\ seeks' = seeks
        BY <1>1, <2>2
      <3>2. media.generation # 0 /\ seeks \in 1..MaxGenerations /\ media.generation = Gen(seeks)
        BY <2>2, MediaConstants DEF ServedInv, Newest
      <3> QED  BY <3>1, <3>2 DEF ServedInv, Newest, Past
    <2> QED  BY <2>1, <2>2
  <1>4. /\ seeks \in Nat
        /\ TasksServed(task, flights, seeks) /\ FlightsHeld(flights, producers, seeks)
        /\ LoadsFit(producers, scope_latest, seeks)
    BY MediaConstants DEF ServedInv, Newest
  <1>5. /\ TasksServed(task, flights, seeks') /\ FlightsHeld(flights, producers, seeks')
        /\ LoadsFit(producers, scope_latest, seeks')
    BY <1>3, <1>4, OneMoreKeeps
  <1>6. DOMAIN task = Media!Task /\ r \in Media!Task
    BY DEF WaterInv, Media!Task
  <1>7. start \in Nat /\ task'[r].end \in 0..(Size - 1)
    <2>1. WaterInv'
      BY BeginsSoundly
    <2> QED  BY <2>1, MediaConstants DEF WaterInv, Asks
  <1>8. PICK q : q = [Media!Idle EXCEPT !.pc = "read", !.generation = media'.generation,
                                        !.start = start, !.end = end,
                                        !.want = Media!WindowsOf(start, end)]
    OBVIOUS
  <1>9. task' = [task EXCEPT ![r] = q] /\ task'[r] = q
    BY <1>1, <1>6, <1>8
  <1>10. PICK idle : idle = Media!Idle
    OBVIOUS
  <1>11. Sane(idle) /\ \A w \in Media!Window : idle.on[w] = 0
    BY <1>10, IdleServed
  <1>12. /\ DOMAIN q = TaskFields /\ q.on = idle.on /\ q.end = end /\ q.stage = idle.stage
         /\ q.want = Media!WindowsOf(start, end) /\ q.bad = idle.bad
         /\ q.generation = media'.generation
    BY <1>8, <1>10, <1>11 DEF Sane, TaskFields
  <1>13. Media!WindowsOf(start, end) \subseteq Media!Window
    BY <1>7, <1>9, <1>12, WindowsInFile
  <1>14. Blank(q, seeks')
    BY <1>3, <1>7, <1>9, <1>11, <1>12, <1>13 DEF Blank, Sane
  <1>15. TasksServed(task', flights, seeks')
    <2>1. /\ DOMAIN task' = Media!Task
          /\ \A t \in Media!Task : task'[t] = task[t] \/ Blank(task'[t], seeks')
      BY <1>6, <1>9, <1>14
    <2> QED  BY <1>5, <2>1, KeptServed
  <1> QED  BY <1>2, <1>3, <1>5, <1>15 DEF ServedInv, CurrentIsServed

LEMMA ClearServes ==
    ASSUME Media!MediaAssumption, ServedInv, Media!Clear
    PROVE  ServedInv'
  <1>1. PICK m : m = [Media!NoMedia EXCEPT !.last = media.last]
    OBVIOUS
  <1>2. DOMAIN m = MediaFields /\ Media!Renew(m)
    BY <1>1 DEF Media!Clear, Media!NoMedia, MediaFields
  <1>3. Newest' /\ seeks' = seeks + 1
    BY <1>2, RenewKeeps DEF ServedInv
  <1>4. /\ seeks \in Nat
        /\ TasksServed(task, flights, seeks) /\ FlightsHeld(flights, producers, seeks)
        /\ LoadsFit(producers, scope_latest, seeks)
    BY MediaConstants DEF ServedInv, Newest
  <1>5. /\ TasksServed(task, flights, seeks') /\ FlightsHeld(flights, producers, seeks')
        /\ LoadsFit(producers, scope_latest, seeks')
    BY <1>3, <1>4, OneMoreKeeps
  <1>6. PICK n, ps : n = seeks' /\ ps = {[p EXCEPT !.fresh = FALSE] : p \in producers}
    OBVIOUS
  <1>7. producers' = ps /\ UNCHANGED <<flights, scope_latest, task, wronged>>
    BY <1>6 DEF Media!Clear
  <1>8. ASSUME NEW p \in producers
        PROVE  /\ LoadFits([p EXCEPT !.fresh = FALSE], scope_latest, n)
               /\ [p EXCEPT !.fresh = FALSE].window = p.window
               /\ [p EXCEPT !.fresh = FALSE].id = p.id
    BY <1>5, <1>6 DEF LoadsFit, LoadFits, ProducerFields
  <1>9. IsFiniteSet(ps)
    <2>1. PICK f : f = [p \in producers |-> [p EXCEPT !.fresh = FALSE]]
      OBVIOUS
    <2>2. f \in Surjection(producers, ps)
      BY <1>6, <2>1 DEF Surjection
    <2>3. IsFiniteSet(producers)
      BY <1>4 DEF LoadsFit
    <2> QED  BY <2>2, <2>3, FS_Surjection
  <1>10. LoadsFit(ps, scope_latest, n)
    BY <1>5, <1>6, <1>8, <1>9 DEF LoadsFit
  <1>11. FlightsHeld(flights, ps, n)
    <2>1. ASSUME NEW w, NEW id, HasLoad(w, id, producers)
          PROVE  HasLoad(w, id, ps)
      BY <1>6, <1>8, <2>1 DEF HasLoad
    <2> QED  BY <1>5, <1>6, <2>1 DEF FlightsHeld
  <1> QED  BY <1>3, <1>5, <1>6, <1>7, <1>10, <1>11 DEF ServedInv, CurrentIsServed

LEMMA TrimServes ==
    ASSUME ServedInv, Media!Trim \/ Media!Evict
    PROVE  ServedInv'
  <1>1. UNCHANGED <<seeks, sequence, flights, producers, scope_latest, task, wronged>>
    BY DEF Media!Trim, Media!Evict, Media!bounds
  <1>2. media' = media \/ media' = Media!NoMedia
    BY DEF Media!Trim, Media!Evict
  <1>3. Newest'
    BY <1>1, <1>2 DEF ServedInv, Newest, Media!NoMedia, MediaFields
  <1> QED  BY <1>1, <1>3 DEF ServedInv, CurrentIsServed

\* Who stops waiting waits for nothing else.
LEMMA TimeoutServes ==
    ASSUME ServedInv, NEW t \in Media!Task, Media!ReaderTimeout(t)
    PROVE  ServedInv'
  <1>1. PICK w \in Media!Window :
           task' = [task EXCEPT ![t].on[w] = 0, ![t].bad = @ \cup {w}, ![t].timed = @ \cup {w}]
    BY DEF Media!ReaderTimeout
  <1>2. /\ TasksServed(task, flights, seeks) /\ DOMAIN task = Media!Task
        /\ TaskServed(task[t], flights, seeks)
    BY DEF ServedInv, TasksServed
  <1>3. PICK q, new : q = task[t] /\ new = task'[t]
    OBVIOUS
  <1>4. /\ DOMAIN q = TaskFields /\ DOMAIN q.on = Media!Window
    BY <1>2, <1>3 DEF TaskServed, Sane
  <1>5. new = [q EXCEPT !.on = [@ EXCEPT ![w] = 0], !.bad = @ \cup {w}, !.timed = @ \cup {w}]
    BY <1>1, <1>2, <1>3, <1>4 DEF TaskFields
  <1>6. /\ DOMAIN new = TaskFields /\ new.on = [q.on EXCEPT ![w] = 0] /\ new.bad = q.bad \cup {w}
        /\ new.want = q.want /\ new.end = q.end /\ new.stage = q.stage
        /\ new.generation = q.generation /\ new.pc = q.pc
    BY <1>4, <1>5 DEF TaskFields
  <1>7. /\ DOMAIN new.on = Media!Window
        /\ \A x \in Media!Window : new.on[x] = 0 \/ new.on[x] = q.on[x]
    BY <1>4, <1>6
  <1>8. TaskServed(new, flights, seeks)
    BY <1>2, <1>3, <1>6, <1>7 DEF TaskServed, Sane
  <1>9. TasksServed(task', flights, seeks)
    BY <1>1, <1>2, <1>3, <1>8 DEF TasksServed
  <1>10. UNCHANGED <<seeks, sequence, media, flights, producers, scope_latest, wronged>>
    BY DEF Media!ReaderTimeout, Media!shared
  <1> QED  BY <1>9, <1>10 DEF ServedInv, Newest, CurrentIsServed

LEMMA RequestServes ==
    ASSUME Media!MediaAssumption, WaterInv, ServedInv, NEW r \in Media!Request,
           Media!Fails(r) \/ Media!Again(r) \/ Media!Succeeds(r)
    PROVE  ServedInv'
  <1>1. UNCHANGED <<seeks, sequence, flights, producers, scope_latest, wronged>>
    BY DEF Media!Fails, Media!Again, Media!Succeeds, Media!shared, Media!bounds
  <1>2. WaterInv' /\ media'.generation = media.generation
    <2>1. CASE Media!Again(r)
      <3>1. r \in Media!Task
        BY DEF Media!Task
      <3>2. WaterInv'
        BY <2>1, LoadsSoundly
      <3> QED  BY <2>1, <3>2 DEF Media!Again, Media!shared
    <2> QED  BY <2>1, FailsSoundly, SucceedsSoundly
  <1>3. DOMAIN task = Media!Task /\ r \in Media!Task /\ DOMAIN task' = Media!Task
        /\ DOMAIN media' = MediaFields
    BY <1>2 DEF WaterInv, WaterSound, Media!Task
  <1>4. PICK q : q = task[r]
    OBVIOUS
  <1>5. TaskServed(q, flights, seeks) /\ Sane(q)
    BY <1>3, <1>4 DEF ServedInv, TasksServed, TaskServed
  <1>6. PICK idle : idle = Media!Idle
    OBVIOUS
  <1>7. Sane(idle) /\ Blank(idle, seeks)
    <2>1. Sane(idle) /\ TaskServed(idle, flights, seeks) /\ \A w \in Media!Window : idle.on[w] = 0
      BY <1>6, IdleServed
    <2> QED  BY <2>1 DEF Blank, TaskServed
  <1>8. \A t \in Media!Task : \/ task'[t] = task[t] \/ Kept(task[t], task'[t])
                              \/ Blank(task'[t], seeks)
    <2>1. CASE Media!Fails(r)
      <3>1. /\ q.pc = "wait"
            /\ \/ task' = [task EXCEPT ![r] = idle]
               \/ task' = [task EXCEPT ![r] =
                    [@ EXCEPT !.pc = "again", !.on = Media!RangeWaiterGuards, !.ok = {},
                              !.bad = {}, !.timed = {}]]
        BY <1>4, <1>6, <2>1 DEF Media!Fails
      <3>2. CASE task' = [task EXCEPT ![r] = idle]
        BY <1>3, <1>7, <3>2
      <3>3. CASE task' = [task EXCEPT ![r] =
                    [@ EXCEPT !.pc = "again", !.on = Media!RangeWaiterGuards, !.ok = {},
                              !.bad = {}, !.timed = {}]]
        <4>1. PICK on, new : on = Media!RangeWaiterGuards /\ new = task'[r]
          OBVIOUS
        <4>2. DOMAIN on = Media!Window /\ \A w \in Media!Window : on[w] = 0
          BY <4>1 DEF Media!RangeWaiterGuards
        <4>3. new = [q EXCEPT !.pc = "again", !.on = on, !.ok = {}, !.bad = {}, !.timed = {}]
          BY <1>3, <1>4, <3>3, <4>1
        <4>4. /\ DOMAIN new = TaskFields /\ new.on = on /\ new.bad = {} /\ new.want = q.want
              /\ new.end = q.end /\ new.stage = q.stage /\ new.generation = q.generation
          BY <1>5, <4>3 DEF Sane, TaskFields
        <4>5. Blank(new, seeks)
          BY <1>5, <3>1, <4>2, <4>4 DEF Blank, Sane, TaskServed
        <4> QED  BY <1>3, <3>3, <4>1, <4>5
      <3> QED  BY <3>1, <3>2, <3>3
    <2>2. CASE Media!Again(r)
      <3>1. PICK windows : windows = Media!WindowsOf(q.start, q.end)
        OBVIOUS
      <3>2. /\ q.pc = "again"
            /\ task' = [task EXCEPT ![r].pc = "read", ![r].want = windows,
                                    ![r].retried = windows]
        BY <1>4, <2>2, <3>1 DEF Media!Again
      <3>3. windows \subseteq Media!Window
        <4>1. q.start \in Nat /\ q.end \in 0..(Size - 1)
          BY <1>4 DEF WaterInv, Asks
        <4> QED  BY <3>1, <4>1, WindowsInFile
      <3>4. PICK new : new = task'[r]
        OBVIOUS
      <3>5. new = [q EXCEPT !.pc = "read", !.want = windows, !.retried = windows]
        BY <1>3, <1>4, <1>5, <3>2, <3>4 DEF Sane, TaskFields
      <3>6. /\ DOMAIN new = TaskFields /\ new.on = q.on /\ new.bad = q.bad /\ new.want = windows
            /\ new.end = q.end /\ new.stage = q.stage /\ new.generation = q.generation
        BY <1>5, <3>5 DEF Sane, TaskFields
      <3>7. Kept(q, new)
        BY <1>5, <3>2, <3>3, <3>6 DEF Kept, Sane
      <3> QED  BY <1>3, <1>4, <3>2, <3>4, <3>7
    <2>3. CASE Media!Succeeds(r)
      <3>1. /\ q.pc = "wait"
            /\ \/ task' = [task EXCEPT ![r] = idle]
               \/ \E p : task' = [task EXCEPT ![r] = idle, ![p] =
                          [idle EXCEPT !.pc = "again", !.generation = q.generation,
                                       !.end = q.end, !.stage = 0]]
        BY <1>4, <1>6, <2>3, Zenon DEF Media!Succeeds
      <3>2. CASE task' = [task EXCEPT ![r] = idle]
        BY <1>3, <1>7, <3>2
      <3>3. ASSUME NEW p, task' = [task EXCEPT ![r] = idle, ![p] =
                          [idle EXCEPT !.pc = "again", !.generation = q.generation,
                                       !.end = q.end, !.stage = 0]]
            PROVE  \A t \in Media!Task : \/ task'[t] = task[t] \/ Kept(task[t], task'[t])
                                         \/ Blank(task'[t], seeks)
        <4>1. PICK new : new = [idle EXCEPT !.pc = "again", !.generation = q.generation,
                                            !.end = q.end, !.stage = 0]
          OBVIOUS
        <4>2. /\ DOMAIN new = TaskFields /\ new.on = idle.on /\ new.bad = idle.bad
              /\ new.want = idle.want /\ new.end = q.end /\ new.stage = 0
              /\ new.generation = q.generation
          BY <1>7, <4>1 DEF Sane, TaskFields
        <4>3. Blank(new, seeks)
          BY <1>5, <1>7, <3>1, <4>2 DEF Blank, Sane, TaskServed
        <4>4. \A t \in Media!Task : task'[t] = task[t] \/ task'[t] = idle \/ task'[t] = new
          BY <1>3, <3>3, <4>1
        <4> QED  BY <1>7, <4>3, <4>4
      <3> QED  BY <3>1, <3>2, <3>3
    <2> QED  BY <2>1, <2>2, <2>3
  <1> QED  BY <1>1, <1>2, <1>3, <1>8, QuietServed

LEMMA PrefetchServes ==
    ASSUME Media!MediaAssumption, WaterInv, ServedInv, NEW p \in Media!Prefetcher,
           Media!NextStage(p) \/ Media!NextBatch(p) \/ Media!RetryWindow(p) \/ Media!EndBatch(p)
    PROVE  ServedInv'
  <1>1. UNCHANGED <<seeks, sequence, flights, producers, scope_latest, wronged>>
    BY DEF Media!NextStage, Media!NextBatch, Media!RetryWindow, Media!EndBatch, Media!shared,
           Media!bounds
  <1>2. WaterInv' /\ media'.generation = media.generation
    <2>1. CASE Media!RetryWindow(p)
      <3>1. WaterInv'
        BY <2>1, LoadsSoundly
      <3> QED  BY <2>1, <3>1 DEF Media!RetryWindow, Media!shared
    <2> QED  BY <2>1, PrefetchesSoundly
  <1>3. DOMAIN task = Media!Task /\ p \in Media!Task /\ DOMAIN task' = Media!Task
        /\ DOMAIN media' = MediaFields /\ media.high \in -1..(Size - 1)
    BY <1>2 DEF WaterInv, WaterSound, Media!Task
  <1>4. PICK q, new : q = task[p] /\ new = task'[p]
    OBVIOUS
  <1>5. TaskServed(q, flights, seeks) /\ Sane(q)
    BY <1>3, <1>4 DEF ServedInv, TasksServed, TaskServed
  <1>6. /\ \A t \in Media!Task : t = p \/ task'[t] = task[t]
        /\ task'[p] = q \/ Kept(q, new) \/ Blank(new, seeks)
    <2>1. CASE Media!NextStage(p)
      <3>1. PICK left : left = {s \in Stages : s > q.stage}
        OBVIOUS
      <3>2. \/ task' = [task EXCEPT ![p] = Media!Idle]
            \/ /\ q.pc = "again" /\ left # {}
               /\ task' = [task EXCEPT ![p].stage = Media!Min(left), ![p].pc = "read"]
        BY <1>4, <2>1, <3>1, Zenon DEF Media!NextStage, Media!Finish
      <3>3. CASE task' = [task EXCEPT ![p] = Media!Idle]
        <4>1. new = Media!Idle
          BY <1>3, <1>4, <3>3
        <4>2. Sane(new) /\ TaskServed(new, flights, seeks) /\ \A w \in Media!Window : new.on[w] = 0
          BY <4>1, IdleServed
        <4>3. Blank(new, seeks)
          BY <4>2 DEF Blank, TaskServed
        <4> QED  BY <1>3, <3>3, <4>3
      <3>4. CASE /\ q.pc = "again" /\ left # {}
                 /\ task' = [task EXCEPT ![p].stage = Media!Min(left), ![p].pc = "read"]
        <4>1. PICK low : low = Media!Min(left)
          OBVIOUS
        <4>2. low \in Nat
          <5>1. left \in SUBSET Nat
            BY <3>1, MediaConstants
          <5>2. \E x \in left : \A y \in left : x <= y
            BY <3>4, <5>1, SmallestIs
          <5>3. low \in left
            BY <4>1, <5>2 DEF Media!Min
          <5> QED  BY <5>1, <5>3
        <4>3. new = [q EXCEPT !.stage = low, !.pc = "read"]
          BY <1>3, <1>4, <1>5, <3>4, <4>1 DEF Sane, TaskFields
        <4>4. /\ DOMAIN new = TaskFields /\ new.on = q.on /\ new.bad = q.bad /\ new.want = q.want
              /\ new.end = q.end /\ new.stage = low /\ new.generation = q.generation
          BY <1>5, <4>3 DEF Sane, TaskFields
        <4>5. Kept(q, new)
          BY <1>5, <3>4, <4>2, <4>4 DEF Kept, Sane
        <4> QED  BY <1>3, <3>4, <4>5
      <3> QED  BY <3>2, <3>3, <3>4
    <2>2. CASE Media!NextBatch(p)
      <3>1. PICK position, batch :
               /\ position = Media!high_water(p) + 1
               /\ batch = {w \in Media!WindowOf(position)..Media!WindowOf(Media!Target(p)) :
                              w < Media!WindowOf(position) + MaxParallel}
        OBVIOUS
      <3>2. /\ q.pc = "read"
            /\ \/ task' = [task EXCEPT ![p].pc = "again"]
               \/ task' = [task EXCEPT ![p] =
                     [@ EXCEPT !.pc = "batch", !.want = batch, !.start = position, !.ok = {},
                               !.bad = {}, !.timed = {}, !.retried = {}]]
        BY <1>4, <2>2, <3>1, Zenon DEF Media!NextBatch
      <3>3. batch \subseteq Media!Window
        <4>1. Size \in Nat \ {0} /\ q.end \in 0..(Size - 1) /\ q.stage \in Nat
          BY <1>5, MediaConstants DEF Sane
        <4>2. position \in Nat
          BY <1>3, <1>4, <3>1, <4>1 DEF Media!high_water
        <4>3. PICK a, b : a = q.end + q.stage /\ b = Size - 1
          OBVIOUS
        <4>4. a \in Nat /\ b \in Nat
          BY <4>1, <4>3
        <4>5. Media!Min({a, b}) \in {a, b} /\ Media!Min({a, b}) <= b
          BY <4>4, LesserIs
        <4>6. Media!Target(p) = Media!Min({a, b})
          BY <1>4, <4>3 DEF Media!Target
        <4>7. PICK target \in 0..(Size - 1) : target = Media!Target(p)
          BY <4>3, <4>4, <4>5, <4>6
        <4>8. Media!WindowsOf(position, target) \subseteq Media!Window
          BY <4>2, <4>7, WindowsInFile
        <4> QED  BY <3>1, <4>7, <4>8 DEF Media!WindowsOf
      <3>4. CASE task' = [task EXCEPT ![p].pc = "again"]
        <4>1. new = [q EXCEPT !.pc = "again"]
          BY <1>3, <1>4, <3>4
        <4>2. /\ DOMAIN new = TaskFields /\ new.on = q.on /\ new.bad = q.bad /\ new.want = q.want
              /\ new.end = q.end /\ new.stage = q.stage /\ new.generation = q.generation
          BY <1>5, <4>1 DEF Sane, TaskFields
        <4>3. Kept(q, new)
          BY <1>5, <3>2, <4>2 DEF Kept, Sane
        <4> QED  BY <1>3, <3>4, <4>3
      <3>5. CASE task' = [task EXCEPT ![p] =
                     [@ EXCEPT !.pc = "batch", !.want = batch, !.start = position, !.ok = {},
                               !.bad = {}, !.timed = {}, !.retried = {}]]
        <4>1. new = [q EXCEPT !.pc = "batch", !.want = batch, !.start = position, !.ok = {},
                              !.bad = {}, !.timed = {}, !.retried = {}]
          BY <1>3, <1>4, <3>5
        <4>2. /\ DOMAIN new = TaskFields /\ new.on = q.on /\ new.bad = {} /\ new.want = batch
              /\ new.end = q.end /\ new.stage = q.stage /\ new.generation = q.generation
          BY <1>5, <4>1 DEF Sane, TaskFields
        <4>3. Kept(q, new)
          BY <1>5, <3>2, <3>3, <4>2 DEF Kept, Sane
        <4> QED  BY <1>3, <3>5, <4>3
      <3> QED  BY <3>2, <3>4, <3>5
    <2>3. CASE Media!RetryWindow(p)
      <3>1. PICK w \in q.bad :
               /\ q.pc = "batch"
               /\ task' = [task EXCEPT ![p].want = @ \cup {w}, ![p].bad = @ \ {w},
                                       ![p].timed = @ \ {w}, ![p].retried = @ \cup {w}]
        BY <1>4, <2>3 DEF Media!RetryWindow
      <3>2. new = [q EXCEPT !.want = @ \cup {w}, !.bad = @ \ {w},
                            !.timed = @ \ {w}, !.retried = @ \cup {w}]
        BY <1>3, <1>4, <1>5, <3>1 DEF Sane, TaskFields
      <3>3. /\ DOMAIN new = TaskFields /\ new.on = q.on /\ new.bad = q.bad \ {w}
            /\ new.want = q.want \cup {w}
            /\ new.end = q.end /\ new.stage = q.stage /\ new.generation = q.generation
        BY <1>5, <3>2 DEF Sane, TaskFields
      <3>4. Kept(q, new)
        BY <1>5, <3>1, <3>3 DEF Kept, Sane
      <3> QED  BY <1>3, <3>1, <3>4
    <2>4. CASE Media!EndBatch(p)
      <3>1. PICK goal : /\ q.pc = "batch"
                      /\ task' = [task EXCEPT ![p] =
                            [@ EXCEPT !.pc = goal, !.ok = {}, !.bad = {}, !.timed = {},
                                      !.retried = {}]]
        BY <1>4, <2>4, Zenon DEF Media!EndBatch
      <3>2. new = [q EXCEPT !.pc = goal, !.ok = {}, !.bad = {}, !.timed = {}, !.retried = {}]
        BY <1>3, <1>4, <3>1
      <3>3. /\ DOMAIN new = TaskFields /\ new.on = q.on /\ new.bad = {} /\ new.want = q.want
            /\ new.end = q.end /\ new.stage = q.stage /\ new.generation = q.generation
        BY <1>5, <3>2 DEF Sane, TaskFields
      <3>4. Kept(q, new)
        BY <1>5, <3>1, <3>3 DEF Kept, Sane
      <3> QED  BY <1>3, <3>1, <3>4
    <2> QED  BY <2>1, <2>2, <2>3, <2>4
  <1>7. \A t \in Media!Task : \/ task'[t] = task[t] \/ Kept(task[t], task'[t])
                              \/ Blank(task'[t], seeks)
    BY <1>4, <1>6
  <1> QED  BY <1>1, <1>2, <1>3, <1>7, QuietServed

\* However late a load registers, the latest generation stays the newest.
LEMMA RegisterServes ==
    ASSUME Media!MediaAssumption, ServedInv, NEW p \in producers, Media!Register(p)
    PROVE  ServedInv'
  <1>1. PICK n, g, new, newest, ps :
           /\ n = seeks /\ g = p.generation /\ new = [p EXCEPT !.registered = TRUE]
           /\ newest = scope_latest' /\ ps = producers'
    OBVIOUS
  <1>2. /\ newest = (IF scope_latest = 0 \/ Media!generation_is_newer(g, scope_latest)
                     THEN g ELSE scope_latest)
        /\ ps = (producers \ {p}) \cup {new}
        /\ UNCHANGED <<media, sequence, flights, task, seeks, wronged>>
    BY <1>1 DEF Media!Register, Media!register, Media!shared, Media!bounds
  <1>3. /\ IsFiniteSet(producers) /\ scope_latest \in {0} \cup Past(n)
        /\ \A q \in producers : LoadFits(q, scope_latest, n)
        /\ FlightsHeld(flights, producers, n) /\ n \in 0..MaxGenerations
    BY <1>1 DEF ServedInv, LoadsFit, Newest
  <1>4. /\ DOMAIN new = ProducerFields /\ new.window = p.window /\ new.id = p.id
        /\ new.generation = g /\ new.registered = TRUE
    BY <1>1, <1>3 DEF LoadFits, ProducerFields
  <1>5. g \in Past(n) /\ p.window \in Media!Window
    BY <1>1, <1>3 DEF LoadFits
  <1>6. /\ n \in 1..MaxGenerations /\ \A h \in Past(n) : h # 0
    <2>1. n \in 1..MaxGenerations
      BY <1>3, <1>5, MediaConstants DEF Past
    <2> QED  BY <2>1, LastIsNewest
  <1>7. newest \in Past(n) /\ ~Media!generation_is_newer(g, newest)
    <2>1. ~Media!generation_is_newer(g, g)
      BY DEF Media!generation_is_newer
    <2>2. CASE scope_latest = 0 \/ Media!generation_is_newer(g, scope_latest)
      BY <1>2, <1>5, <2>1, <2>2
    <2>3. CASE ~(scope_latest = 0 \/ Media!generation_is_newer(g, scope_latest))
      BY <1>2, <1>3, <2>3
    <2> QED  BY <2>2, <2>3
  <1>8. LoadFits(new, newest, n)
    BY <1>4, <1>5, <1>7 DEF LoadFits, Outdates
  <1>9. ASSUME NEW q \in producers
        PROVE  LoadFits(q, newest, n)
    <2>1. LoadFits(q, scope_latest, n)
      BY <1>3
    <2>2. CASE ~q.registered
      BY <2>1, <2>2 DEF LoadFits
    <2>3. CASE q.registered
      <3>1. /\ scope_latest \in Past(n) /\ ~Media!generation_is_newer(q.generation, scope_latest)
            /\ q.generation \in Past(n) /\ scope_latest # 0
        BY <1>6, <2>1, <2>3 DEF LoadFits, Outdates
      <3>2. CASE Media!generation_is_newer(g, scope_latest)
        <4>1. PICK a, b : a = q.generation /\ b = scope_latest
          OBVIOUS
        <4>2. /\ a \in Past(n) /\ b \in Past(n) /\ ~Media!generation_is_newer(a, b)
              /\ Media!generation_is_newer(g, b)
          BY <3>1, <3>2, <4>1
        <4>3. ~Media!generation_is_newer(a, g)
          BY <1>3, <1>5, <4>2, NewerCarries
        <4> QED  BY <1>2, <1>5, <2>1, <3>2, <4>1, <4>3 DEF LoadFits, Outdates
      <3>3. CASE ~Media!generation_is_newer(g, scope_latest)
        BY <1>2, <2>1, <3>1, <3>3
      <3> QED  BY <3>2, <3>3
    <2> QED  BY <2>2, <2>3
  <1>10. IsFiniteSet(ps)
    <2>1. PICK rest : rest = producers \ {p}
      OBVIOUS
    <2>2. IsFiniteSet(rest)
      BY <1>3, <2>1, FS_Subset
    <2>3. IsFiniteSet(rest \cup {new})
      BY <2>2, FS_AddElement
    <2> QED  BY <1>2, <2>1, <2>3
  <1>11. LoadsFit(ps, newest, n)
    BY <1>2, <1>7, <1>8, <1>9, <1>10 DEF LoadsFit
  <1>12. FlightsHeld(flights, ps, n)
    <2>1. ASSUME NEW w, NEW id, HasLoad(w, id, producers)
          PROVE  HasLoad(w, id, ps)
      <3>1. PICK q \in producers : q.window = w /\ q.id = id
        BY <2>1 DEF HasLoad
      <3>2. CASE q = p
        BY <1>2, <1>4, <3>1, <3>2 DEF HasLoad
      <3>3. CASE q # p
        BY <1>2, <3>1, <3>3 DEF HasLoad
      <3> QED  BY <3>2, <3>3
    <2> QED  BY <1>3, <2>1 DEF FlightsHeld
  <1> QED  BY <1>1, <1>2, <1>11, <1>12 DEF ServedInv, Newest, CurrentIsServed

\* A load that ends lets go of its window and of all who wait for it.
LEMMA ProduceServes ==
    ASSUME ServedInv, NEW p \in producers, Media!Produce(p)
    PROVE  ServedInv'
  <1>1. PICK n, ps : n = seeks /\ ps = producers \ {p}
    OBVIOUS
  <1>2. /\ producers' = ps /\ UNCHANGED <<media, sequence, scope_latest, seeks, wronged>>
    BY <1>1 DEF Media!Produce
  <1>3. /\ LoadsFit(producers, scope_latest, n) /\ FlightsHeld(flights, producers, n)
        /\ TasksServed(task, flights, n)
    BY <1>1 DEF ServedInv
  <1>4. LoadsFit(ps, scope_latest, n)
    <2>1. IsFiniteSet(ps)
      BY <1>1, <1>3, FS_Subset DEF LoadsFit
    <2> QED  BY <1>1, <1>3, <2>1 DEF LoadsFit
  <1>5. PICK v, id : v = p.window /\ id = p.id
    OBVIOUS
  <1>6. v \in Media!Window
    BY <1>3, <1>5 DEF LoadsFit, LoadFits
  <1>7. ASSUME NEW w, NEW o, HasLoad(w, o, producers), w # v \/ o # id
        PROVE  HasLoad(w, o, ps)
    BY <1>1, <1>5, <1>7 DEF HasLoad
  <1>8. CASE flights[v].id # id
    <2>1. flights' = flights /\ task' = task
      BY <1>5, <1>8 DEF Media!Produce
    <2>2. FlightsHeld(flights, ps, n)
      BY <1>3, <1>7, <1>8 DEF FlightsHeld
    <2> QED  BY <1>1, <1>2, <1>3, <1>4, <2>1, <2>2 DEF ServedInv, Newest, CurrentIsServed
  <1>9. CASE flights[v].id = id
    <2>1. PICK success : /\ flights' = [flights EXCEPT ![v] = Media!NoFlight]
                         /\ task' = Media!finish_range_waiters(p, success)
      BY <1>5, <1>9 DEF Media!Produce
    <2>2. /\ DOMAIN flights' = Media!Window /\ flights'[v] = Media!NoFlight
          /\ \A w \in Media!Window : w # v => flights'[w] = flights[w]
      BY <1>3, <1>6, <2>1 DEF FlightsHeld
    <2>3. FlightsHeld(flights', ps, n)
      BY <1>3, <1>7, <2>2 DEF FlightsHeld
    <2>4. ASSUME NEW t \in Media!Task
          PROVE  TaskServed(task'[t], flights', n)
      <3>1. PICK q, new : q = task[t] /\ new = task'[t]
        OBVIOUS
      <3>2. TaskServed(q, flights, n)
        BY <1>3, <3>1 DEF TasksServed
      <3>3. new = IF q.on[v] # id THEN q
                  ELSE [q EXCEPT !.on[v] = 0,
                                 !.ok = IF success THEN @ \cup {v} ELSE @,
                                 !.bad = IF success THEN @ ELSE @ \cup {v}]
        BY <1>5, <2>1, <3>1 DEF Media!finish_range_waiters
      <3>4. CASE q.on[v] # id
        <4>1. q.on[v] = 0
          BY <1>6, <1>9, <3>2, <3>4 DEF TaskServed
        <4> QED  BY <2>2, <3>1, <3>2, <3>3, <3>4, <4>1 DEF TaskServed
      <3>5. CASE q.on[v] = id
        <4>1. DOMAIN q = TaskFields /\ DOMAIN q.on = Media!Window
          BY <3>2 DEF TaskServed, Sane
        <4>2. PICK ok, bad : /\ bad = q.bad \/ bad = q.bad \cup {v}
                             /\ new = [q EXCEPT !.on[v] = 0, !.ok = ok, !.bad = bad]
          <5>1. CASE success
            BY <3>3, <3>5, <5>1
          <5>2. CASE ~success
            BY <3>3, <3>5, <5>2
          <5> QED  BY <5>1, <5>2
        <4>3. /\ DOMAIN new = TaskFields /\ new.on = [q.on EXCEPT ![v] = 0] /\ new.bad = bad
              /\ new.want = q.want /\ new.end = q.end /\ new.stage = q.stage
              /\ new.generation = q.generation /\ new.pc = q.pc
          BY <4>1, <4>2 DEF TaskFields
        <4>4. /\ DOMAIN new.on = Media!Window /\ new.on[v] = 0
              /\ \A w \in Media!Window : w # v => new.on[w] = q.on[w]
          BY <1>6, <4>1, <4>3
        <4>5. Sane(new)
          BY <1>6, <3>2, <4>2, <4>3, <4>4 DEF TaskServed, Sane
        <4> QED  BY <2>2, <3>1, <3>2, <4>3, <4>4, <4>5 DEF TaskServed
      <3> QED  BY <3>4, <3>5
    <2>5. TasksServed(task', flights', n)
      BY <2>1, <2>4 DEF TasksServed, Media!finish_range_waiters
    <2> QED  BY <1>1, <1>2, <1>4, <2>3, <2>5 DEF ServedInv, Newest, CurrentIsServed
  <1> QED  BY <1>8, <1>9

\* Why a window is taken up as it is.
LEMMA RoleIs ==
    ASSUME NEW w, NEW g
    PROVE  /\ Media!Role(w, g) = "lead" => flights[w] = Media!NoFlight
           /\ Media!Role(w, g) = "join" =>
                 flights[w] # Media!NoFlight /\ flights[w].generation = g
           /\ Media!Role(w, g) = "replace" =>
                 /\ flights[w] # Media!NoFlight
                 /\ Media!generation_is_newer(g, flights[w].generation)
           /\ Media!Role(w, g) = "reject" =>
                 /\ flights[w] # Media!NoFlight /\ flights[w].generation # g
                 /\ ~Media!generation_is_newer(g, flights[w].generation)
  BY DEF Media!Role

\* A reader takes windows over from older generations only, so that nobody
\* of the current one is told to go, and who is told waits no more.
LEMMA ReadServes ==
    ASSUME Media!MediaAssumption, ServedInv, NEW t \in Media!Task, Media!Read(t)
    PROVE  ServedInv'
  <1> DEFINE g == task[t].generation
             rejected == {w \in task[t].want : Media!Role(w, g) = "reject"}
             admitted == {w \in task[t].want \ rejected :
                             t \in Media!Request => \A x \in rejected : w < x}
             Taking(role) == {w \in admitted : Media!Role(w, g) = role}
             new == Taking("lead") \cup Taking("replace")
             Outdated(u) == {w \in Taking("replace") : task[u].on[w] = flights[w].id}
             Load(w) == [window |-> w, generation |-> g, id |-> Media!NewId(w), fresh |-> TRUE,
                         registered |-> FALSE]
  <1>1. /\ task[t].pc \in {"read", "batch"}
        /\ flights' = [w \in Media!Window |->
               IF w \in new THEN [generation |-> g, id |-> Media!NewId(w)] ELSE flights[w]]
        /\ producers' = producers \cup {Load(w) : w \in new}
        /\ wronged' = (\/ wronged
                       \/ rejected # {} /\ g = media.generation
                       \/ \E u \in Media!Task \ {t} :
                            Outdated(u) # {} /\ task[u].generation = media.generation)
        /\ UNCHANGED <<media, sequence, seeks, scope_latest>>
    BY Zenon DEF Media!Read, Media!shared, Media!bounds
  <1>2. task' = [u \in Media!Task |->
               IF u = t
               THEN [task[t] EXCEPT
                        !.pc = IF t \in Media!Request THEN "wait" ELSE "batch",
                        !.want = {}, !.ok = @ \cup Taking("cached"),
                        !.bad = (@ \ admitted) \cup rejected,
                        !.on = [w \in Media!Window |->
                                  IF w \in new \cup Taking("join") THEN flights'[w].id ELSE @[w]]]
               ELSE [task[u] EXCEPT
                        !.bad = @ \cup Outdated(u),
                        !.on = [w \in Media!Window |-> IF w \in Outdated(u) THEN 0 ELSE @[w]]]]
    BY Zenon DEF Media!Read
  <1>3. PICK join, replace, taken, ids :
           /\ join = Taking("join") /\ replace = Taking("replace") /\ taken = new
           /\ ids = [w \in Media!Window |-> Media!NewId(w)]
    OBVIOUS
  <1>4. PICK n : n = seeks
    OBVIOUS
  <1>5. /\ LoadsFit(producers, scope_latest, n) /\ FlightsHeld(flights, producers, n)
        /\ TasksServed(task, flights, n) /\ TaskServed(task[t], flights, n)
        /\ n \in 0..MaxGenerations
    BY <1>4 DEF ServedInv, TasksServed, Newest
  <1>6. g \in Past(n) /\ task[t].want \subseteq Media!Window /\ n \in 1..MaxGenerations
    <2>1. g \in Past(n) /\ task[t].want \subseteq Media!Window
      BY <1>1, <1>5 DEF TaskServed, Sane
    <2> QED  BY <1>5, <2>1, MediaConstants DEF Past
  <1>7. /\ join \subseteq Media!Window /\ taken \subseteq Media!Window
        /\ \A w \in join : flights[w] # Media!NoFlight /\ flights[w].generation = g
        /\ \A w \in taken : flights[w] = Media!NoFlight \/ w \in replace
        /\ \A w \in replace : /\ flights[w] # Media!NoFlight /\ w \in Media!Window
                              /\ Media!generation_is_newer(g, flights[w].generation)
        /\ \A w \in rejected : /\ flights[w] # Media!NoFlight /\ w \in Media!Window
                               /\ flights[w].generation # g
                               /\ ~Media!generation_is_newer(g, flights[w].generation)
    BY <1>3, <1>6, RoleIs
  <1> HIDE DEF g, rejected, admitted, Taking, new, Outdated, Load
  <1>8. \A w \in Media!Window :
           /\ w \in taken => flights'[w].generation = g /\ flights'[w].id = ids[w]
           /\ w \notin taken => flights'[w] = flights[w]
    <2>1. ASSUME NEW w \in Media!Window, w \in taken
          PROVE  flights'[w].generation = g /\ flights'[w].id = ids[w]
      <3>1. flights'[w] = [generation |-> g, id |-> ids[w]]
        BY <1>1, <1>3, <2>1
      <3>2. PICK x : x = [generation |-> g, id |-> ids[w]]
        OBVIOUS
      <3> QED  BY <3>1, <3>2
    <2> QED  BY <1>1, <1>3, <2>1
  <1>9. \A w \in Media!Window : ids[w] \in Nat \ {0}
    <2>1. IsFiniteSet(producers)
      BY <1>5 DEF LoadsFit
    <2> QED  BY <1>3, <2>1, NewIdIs
  <1>10. \A w \in taken : /\ Load(w) \in producers' /\ Load(w).window = w /\ Load(w).id = ids[w]
                          /\ LoadFits(Load(w), scope_latest, n)
    BY <1>1, <1>3, <1>6, <1>7 DEF LoadFits, ProducerFields, Load
  <1>11. LoadsFit(producers', scope_latest, n)
    <2>1. PICK loads : loads = {Load(w) : w \in taken}
      OBVIOUS
    <2>2. IsFiniteSet(taken)
      <3>1. PICK N \in Nat : N = (Size - 1) \div WindowBytes
        BY WindowBounds
      <3>2. PICK first, last \in Int : first = 0 /\ last = N
        OBVIOUS
      <3>3. IsFiniteSet(first..last)
        BY <3>2, FS_Interval
      <3> QED  BY <1>7, <3>1, <3>2, <3>3, FS_Subset DEF Media!Window
    <2>3. IsFiniteSet(loads)
      <3>1. PICK f : f = [w \in taken |-> Load(w)]
        OBVIOUS
      <3>2. f \in Surjection(taken, loads)
        BY <2>1, <3>1 DEF Surjection
      <3> QED  BY <2>2, <3>2, FS_Surjection
    <2>4. producers' = producers \cup loads
      BY <1>1, <1>3, <2>1
    <2>5. IsFiniteSet(producers')
      BY <1>5, <2>3, <2>4, FS_Union DEF LoadsFit
    <2>6. \A p \in loads : LoadFits(p, scope_latest, n)
      BY <1>10, <2>1
    <2> QED  BY <1>5, <2>4, <2>5, <2>6 DEF LoadsFit
  <1>12. FlightsHeld(flights', producers', n)
    <2>1. DOMAIN flights' = Media!Window
      BY <1>1
    <2>2. ASSUME NEW w \in Media!Window
          PROVE  \/ flights'[w] = Media!NoFlight
                 \/ /\ flights'[w].id # 0 /\ flights'[w].generation \in Past(n)
                    /\ HasLoad(w, flights'[w].id, producers')
      <3>1. CASE w \in taken
        <4>1. flights'[w].id = ids[w] /\ flights'[w].generation = g
          BY <1>8, <3>1
        <4>2. HasLoad(w, ids[w], producers')
          BY <1>10, <3>1 DEF HasLoad
        <4> QED  BY <1>6, <1>9, <4>1, <4>2
      <3>2. CASE w \notin taken
        <4>1. flights'[w] = flights[w] /\ producers \subseteq producers'
          BY <1>1, <1>8, <3>2
        <4> QED  BY <1>5, <4>1 DEF FlightsHeld, HasLoad
      <3> QED  BY <3>1, <3>2
    <2> QED  BY <2>1, <2>2 DEF FlightsHeld
  <1>13. ~wronged'
    <2>1. ~wronged
      BY DEF ServedInv, CurrentIsServed
    <2>2. media.generation \in Past(n) => media.generation = Gen(n)
      <3>1. media.generation # 0 => media.generation = Gen(n)
        BY <1>4 DEF ServedInv, Newest
      <3> QED  BY <1>6, <3>1, LastIsNewest
    <2>3. ASSUME g = media.generation, NEW w \in rejected
          PROVE  FALSE
      <3>1. flights[w].generation \in Past(n)
        BY <1>5, <1>7 DEF FlightsHeld
      <3>2. PICK h : h = flights[w].generation
        OBVIOUS
      <3>3. h \in Past(n) /\ h # Gen(n) /\ ~Media!generation_is_newer(Gen(n), h)
        BY <1>6, <1>7, <2>2, <2>3, <3>1, <3>2
      <3> QED  BY <1>6, <3>3, LastIsNewest
    <2>4. ASSUME NEW u \in Media!Task, NEW w \in Outdated(u),
                 task[u].generation = media.generation
          PROVE  FALSE
      <3>1. w \in replace /\ task[u].on[w] = flights[w].id
        BY <1>3 DEF Outdated
      <3>2. w \in Media!Window /\ flights[w].id # 0 /\ flights[w].generation \in Past(n)
        BY <1>5, <1>7, <3>1 DEF FlightsHeld
      <3>3. flights[w].generation = media.generation
        BY <1>5, <2>4, <3>1, <3>2 DEF TasksServed, TaskServed
      <3>4. flights[w].generation = Gen(n)
        BY <2>2, <3>2, <3>3
      <3>5. Media!generation_is_newer(g, Gen(n))
        BY <1>7, <3>1, <3>4
      <3> QED  BY <1>6, <3>5, LastIsNewest
    <2> QED  BY <1>1, <2>1, <2>3, <2>4
  <1>14. ASSUME NEW u \in Media!Task
         PROVE  TaskServed(task'[u], flights', n)
    <2>1. PICK q, after : q = task[u] /\ after = task'[u]
      OBVIOUS
    <2>2. TaskServed(q, flights, n) /\ Sane(q)
      BY <1>5, <2>1 DEF TasksServed, TaskServed
    <2>3. CASE u = t
      <3>1. PICK on, bad :
               /\ on = [w \in Media!Window |->
                          IF w \in taken \cup join THEN flights'[w].id ELSE q.on[w]]
               /\ bad = (q.bad \ admitted) \cup rejected
        OBVIOUS
      <3>2. PICK goal, ok :
               after = [q EXCEPT !.pc = goal, !.want = {}, !.ok = ok, !.bad = bad, !.on = on]
        BY <1>2, <1>3, <2>1, <2>3, <3>1
      <3>3. /\ DOMAIN after = TaskFields /\ after.on = on /\ after.bad = bad /\ after.want = {}
            /\ after.end = q.end /\ after.stage = q.stage /\ after.generation = q.generation
        BY <2>2, <3>2 DEF Sane, TaskFields
      <3>4. bad \subseteq Media!Window
        BY <1>7, <2>2, <3>1 DEF Sane
      <3>5. Sane(after)
        BY <2>2, <3>1, <3>3, <3>4 DEF Sane
      <3>6. q.generation = g
        BY <2>1, <2>3 DEF g
      <3>7. ASSUME NEW w \in Media!Window, after.on[w] # 0
            PROVE  flights'[w].id = after.on[w] /\ flights'[w].generation = after.generation
        <4> DEFINE told == flights'[w].id
        <4>0. after.on[w] = IF w \in taken \cup join THEN told ELSE q.on[w]
          BY <3>1, <3>3
        <4> HIDE DEF told
        <4>1. CASE w \in taken
          <5>1. after.on[w] = told
            BY <4>0, <4>1
          <5> QED  BY <1>8, <3>3, <3>6, <4>1, <5>1 DEF told
        <4>2. CASE w \in join /\ w \notin taken
          <5>1. after.on[w] = told
            BY <4>0, <4>2
          <5> QED  BY <1>7, <1>8, <3>3, <3>6, <4>2, <5>1 DEF told
        <4>3. CASE w \notin join /\ w \notin taken
          <5>1. after.on[w] = q.on[w]
            BY <4>0, <4>3
          <5> QED  BY <1>8, <2>2, <3>3, <3>7, <4>3, <5>1 DEF TaskServed
        <4> QED  BY <4>1, <4>2, <4>3
      <3> QED  BY <1>6, <2>1, <3>3, <3>5, <3>6, <3>7 DEF TaskServed
    <2>4. CASE u # t
      <3>1. PICK on, lost :
               /\ on = [w \in Media!Window |-> IF w \in lost THEN 0 ELSE q.on[w]]
               /\ lost = Outdated(u) /\ lost = {w \in replace : q.on[w] = flights[w].id}
        BY <1>3, <2>1 DEF Outdated
      <3>2. after = [q EXCEPT !.bad = @ \cup lost, !.on = on]
        BY <1>2, <1>3, <2>1, <2>4, <3>1
      <3>3. /\ DOMAIN after = TaskFields /\ after.on = on /\ after.bad = q.bad \cup lost
            /\ after.want = q.want /\ after.end = q.end /\ after.stage = q.stage
            /\ after.generation = q.generation /\ after.pc = q.pc
        BY <2>2, <3>2 DEF Sane, TaskFields
      <3>4. Sane(after)
        BY <1>7, <2>2, <3>1, <3>3 DEF Sane
      <3>5. ASSUME NEW w \in Media!Window, after.on[w] # 0
            PROVE  flights'[w].id = after.on[w] /\ flights'[w].generation = after.generation
        <4>1. w \notin lost /\ after.on[w] = q.on[w]
          BY <3>1, <3>3, <3>5
        <4>2. flights[w].id = q.on[w] /\ flights[w].generation = q.generation /\ q.on[w] # 0
          BY <2>2, <3>5, <4>1 DEF TaskServed
        <4>3. flights[w] # Media!NoFlight
          BY <4>2 DEF Media!NoFlight
        <4>4. w \notin taken
          BY <1>7, <3>1, <4>1, <4>2, <4>3
        <4> QED  BY <1>8, <3>3, <4>1, <4>2, <4>4
      <3> QED  BY <2>1, <2>2, <3>3, <3>4, <3>5 DEF TaskServed
    <2> QED  BY <2>3, <2>4
  <1>15. DOMAIN task' = Media!Task
    BY <1>2
  <1>16. TasksServed(task', flights', n)
    BY <1>14, <1>15 DEF TasksServed
  <1> QED  BY <1>1, <1>4, <1>11, <1>12, <1>13, <1>16 DEF ServedInv, Newest, CurrentIsServed

LEMMA ServedStep ==
    ASSUME Media!MediaAssumption, WaterInv, ServedInv, [Media!Next]_Media!vars
    PROVE  ServedInv'
  <1>1. CASE UNCHANGED Media!vars
    BY <1>1 DEF Media!vars, Media!shared, Media!bounds, ServedInv, Newest, CurrentIsServed
  <1>2. Media!Request \subseteq Media!Task /\ Media!Prefetcher \subseteq Media!Task
    BY DEF Media!Task
  <1>3. CASE Media!Outside
    BY <1>3, BeginServes, TimeoutServes, ClearServes, TrimServes DEF Media!Outside
  <1>4. CASE Media!Load
    BY <1>4, RegisterServes, ProduceServes DEF Media!Load
  <1>5. ASSUME NEW r \in Media!Request, Media!RequestStep(r)
        PROVE  ServedInv'
    BY <1>2, <1>5, ReadServes, RequestServes DEF Media!RequestStep
  <1>6. ASSUME NEW p \in Media!Prefetcher, Media!PrefetchStep(p)
        PROVE  ServedInv'
    BY <1>2, <1>6, ReadServes, PrefetchServes DEF Media!PrefetchStep
  <1> QED  BY <1>1, <1>3, <1>4, <1>5, <1>6 DEF Media!Next, Media!TaskStep

\* No reader of the current generation is taken for stale or loses its load
\* to an older one, and whoever waits for a window has a load that runs
\* (range_load_role, register, finish_range_waiters): for any number of
\* tasks and windows, and wherever the counter begins and wraps, as long as
\* fewer generations are given out than half of its range.
THEOREM ReadersServed ==
    ASSUME Media!MediaAssumption
    PROVE  Media!Spec => []ReadersAreServed
  <1>1. Media!Init => WaterInv /\ ServedInv
    BY WaterStarts, ServedStarts
  <1>2. WaterInv /\ ServedInv /\ [Media!Next]_Media!vars => WaterInv' /\ ServedInv'
    BY WaterStep, ServedStep
  <1>3. ServedInv => ReadersAreServed
    BY ServedImplies
  <1> QED  BY <1>1, <1>2, <1>3, PTL DEF Media!Spec

-----------------------------------------------------------------------------
(* Prefetching goes on.                                                    *)

\* A range that mark_complete finds is behind what it reaches, or before it
\* with a byte between them.
LEMMA ReachedOrLeft ==
    ASSUME NEW high \in -1..(Size - 1), Size \in Nat \ {0},
           NEW ranges \in SUBSET (Nat \X (0..(Size - 1))),
           NEW reach, reach = Reach(high, ranges), NEW e \in ranges, e[1] <= e[2]
    PROVE  \/ e[2] <= reach
           \/ reach + 1 < e[1] /\ e \notin Joined(high, ranges)
  <1>1. \A r \in ranges : r[1] \in Nat /\ r[2] \in 0..(Size - 1)
    OBVIOUS
  <1>2. PICK top \in Nat : top = Size - 1
    OBVIOUS
  <1>3. PICK joined, R : joined = Joined(high, ranges) /\ R = {high} \cup Ends(joined)
    OBVIOUS
  <1>4. joined \subseteq ranges
    BY <1>3 DEF Joined
  <1>5. R \in SUBSET (-1..top) /\ R # {} /\ reach = Media!Max(R)
    BY <1>1, <1>2, <1>3, <1>4 DEF Reach, Ends
  <1>6. reach \in R /\ \A x \in R : x <= reach
    BY <1>5, LargestIs
  <1>7. reach \in Int /\ high <= reach
    BY <1>3, <1>5, <1>6
  <1>8. CASE e \in joined
    BY <1>3, <1>6, <1>8 DEF Ends
  <1>9. ASSUME e \notin joined, reach + 1 >= e[1]
        PROVE  FALSE
    <2>1. ASSUME NEW q \in ranges, q[1] <= e[1]
          PROVE  q[1] <= Media!Max({high} \cup Ends(Before(ranges, q[1]))) + 1
      <3>1. PICK X : X = {high} \cup Ends(Before(ranges, q[1]))
        OBVIOUS
      <3>2. X \in SUBSET (-1..top) /\ X # {}
        BY <1>1, <1>2, <3>1 DEF Ends, Before
      <3>3. Media!Max(X) \in -1..top /\ \A x \in X : x <= Media!Max(X)
        BY <3>2, LargestIs
      <3>4. q[1] \in Nat /\ e[1] \in Nat /\ q[1] <= reach + 1
        BY <1>1, <1>7, <1>9, <2>1
      <3>5. CASE reach = high
        <4>1. high <= Media!Max(X)
          BY <3>1, <3>3
        <4> QED  BY <1>2, <3>1, <3>3, <3>4, <3>5, <4>1
      <3>6. CASE reach # high
        <4>1. PICK r \in joined : r[2] = reach
          BY <1>3, <1>6, <3>6 DEF Ends
        <4>2. r \in ranges /\ r[1] \in Nat
          BY <1>1, <1>4
        <4>3. CASE q[1] <= r[1]
          <5>1. \A x \in ranges : x[1] <= r[1] =>
                   x[1] <= Media!Max({high} \cup Ends(Before(ranges, x[1]))) + 1
            BY <1>3, <4>1 DEF Joined
          <5> QED  BY <2>1, <4>3, <5>1
        <4>4. CASE q[1] > r[1]
          <5>1. reach \in X
            BY <3>1, <3>4, <4>1, <4>2, <4>4 DEF Ends, Before
          <5>2. reach <= Media!Max(X)
            BY <3>3, <5>1
          <5> QED  BY <1>2, <1>7, <3>1, <3>3, <3>4, <5>2
        <4> QED  BY <3>4, <4>2, <4>3, <4>4
      <3> QED  BY <3>5, <3>6
    <2>2. e \in joined
      BY <1>3, <2>1 DEF Joined
    <2> QED  BY <1>9, <2>2
  <1> QED  BY <1>1, <1>3, <1>7, <1>8, <1>9

\* The range e, of which b is a byte, is known: loaded with it, or kept apart.
Known(m, e, b) == m.high >= b \/ (m.high + 1 < b /\ e \in m.completed)

LEMMA MarkKnows ==
    ASSUME Media!MediaAssumption, NEW m, NEW l, WaterSound(m, l),
           NEW start \in Nat, NEW end \in 0..(Size - 1),
           NEW first \in Nat, NEW last \in 0..(Size - 1), NEW b \in first..last,
           \/ first = start /\ last = end
           \/ first # start /\ Known(m, <<first, last>>, b)
    PROVE  Known(Media!mark_complete(m, start, end), <<first, last>>, b)
  <1>1. /\ DOMAIN m = MediaFields /\ m.high \in -1..(Size - 1)
        /\ m.completed \in SUBSET (Nat \X (0..(Size - 1)))
    BY DEF WaterSound
  <1>2. PICK high, ranges, e :
           /\ high = m.high /\ e = <<first, last>>
           /\ ranges = {c \in m.completed : c[1] # start} \cup {<<start, end>>}
    OBVIOUS
  <1>3. PICK reach, left : reach = Reach(high, ranges) /\ left = ranges \ Joined(high, ranges)
    OBVIOUS
  <1>4. PICK n : n = Media!mark_complete(m, start, end)
    OBVIOUS
  <1>5. n = [m EXCEPT !.high = reach, !.completed = left]
    BY <1>2, <1>3, <1>4 DEF Media!mark_complete, Reach, Joined, Ends, Before
  <1>6. n.high = reach /\ n.completed = left
    BY <1>1, <1>5 DEF MediaFields
  <1>7. ranges \in SUBSET (Nat \X (0..(Size - 1)))
    BY <1>1, <1>2
  <1>8. Size \in Nat \ {0} /\ high \in -1..(Size - 1)
    BY <1>1, <1>2, MediaConstants
  <1>9. reach \in -1..(Size - 1) /\ high <= reach
    BY <1>3, <1>7, <1>8, JoinedCover
  <1>10. e[1] = first /\ e[2] = last /\ e[1] <= e[2] /\ b \in Int
    BY <1>2, <1>8
  <1>11. CASE e \in ranges
    <2>1. \/ e[2] <= reach
          \/ reach + 1 < e[1] /\ e \notin Joined(high, ranges)
      BY <1>3, <1>7, <1>8, <1>10, <1>11, ReachedOrLeft
    <2>2. CASE e[2] <= reach
      <3>1. n.high >= b
        BY <1>6, <1>8, <1>9, <1>10, <2>2
      <3> QED  BY <1>2, <1>4, <3>1 DEF Known
    <2>3. CASE reach + 1 < e[1] /\ e \notin Joined(high, ranges)
      <3>1. n.high + 1 < b
        BY <1>6, <1>8, <1>9, <1>10, <2>3
      <3>2. e \in n.completed
        BY <1>3, <1>6, <1>11, <2>3
      <3> QED  BY <1>2, <1>4, <3>1, <3>2 DEF Known
    <2> QED  BY <2>1, <2>2, <2>3
  <1>12. CASE e \notin ranges
    <2>1. first # start /\ e \notin m.completed
      BY <1>2, <1>10, <1>12
    <2>2. m.high >= b
      BY <1>2, <2>1 DEF Known
    <2>3. n.high >= b
      BY <1>2, <1>6, <1>8, <1>9, <1>10, <2>2
    <2> QED  BY <1>4, <2>3 DEF Known
  <1> QED  BY <1>11, <1>12

\* The window of a byte holds it, and begins where no other does.
LEMMA WindowHolds ==
    ASSUME Media!MediaAssumption, NEW b \in 0..(Size - 1)
    PROVE  /\ Media!WindowOf(b) \in Media!Window
           /\ b \in Media!WindowStart(Media!WindowOf(b))..Media!WindowEnd(Media!WindowOf(b))
           /\ \A w \in Media!Window :
                 w # Media!WindowOf(b) => Media!WindowStart(w) # Media!WindowStart(Media!WindowOf(b))
  <1>1. Size \in Nat \ {0} /\ WindowBytes \in Nat \ {0}
    BY MediaConstants
  <1>2. PICK v \in Nat : v = Media!WindowOf(b)
    BY <1>1 DEF Media!WindowOf
  <1>3. v \in Media!Window
    <2>1. Media!WindowsOf(b, b) \subseteq Media!Window
      BY <1>1, WindowsInFile
    <2> QED  BY <1>2, <2>1 DEF Media!WindowsOf
  <1>4. PICK low \in Nat, high \in Nat : low = v * WindowBytes /\ high = (v + 1) * WindowBytes
    BY <1>1
  <1>5. low <= b /\ b < high
    BY <1>1, <1>2, <1>4 DEF Media!WindowOf
  <1>6. Media!Min({high, Size}) \in {high, Size}
    <2>1. high \in Int /\ Size \in Int
      BY <1>1
    <2> QED  BY <2>1, LesserIs
  <1>7. b \in Media!WindowStart(v)..Media!WindowEnd(v)
    BY <1>1, <1>4, <1>5, <1>6 DEF Media!WindowStart, Media!WindowEnd
  <1>8. ASSUME NEW w \in Media!Window, w # v
        PROVE  Media!WindowStart(w) # Media!WindowStart(v)
    <2>1. w \in Nat
      BY WindowBounds
    <2>2. CASE w < v
      <3>1. (w + 1) * WindowBytes <= v * WindowBytes
        BY <1>1, <2>1, <2>2
      <3> QED  BY <1>1, <2>1, <3>1 DEF Media!WindowStart
    <2>3. CASE w > v
      <3>1. (v + 1) * WindowBytes <= w * WindowBytes
        BY <1>1, <2>1, <2>3
      <3> QED  BY <1>1, <2>1, <3>1 DEF Media!WindowStart
    <2> QED  BY <1>8, <2>1, <2>2, <2>3
  <1> QED  BY <1>2, <1>3, <1>7, <1>8

\* Once the window of b was marked, b is not the first byte behind the water.
LEMMA MarkedKnows ==
    ASSUME Media!MediaAssumption, WaterSound(media, loaded), NEW good,
           NEW b \in 0..(Size - 1), Media!WindowOf(b) \in good
    PROVE  Media!Marked(good).high + 1 # b
  <1> PICK f : \E N \in Nat : /\ Media!Window = 0..N /\ Media!Marked(good) = f[N]
                              /\ Marks(f, N, good)
    BY MarkedIs
  <1>1. PICK N \in Nat : Media!Window = 0..N /\ Media!Marked(good) = f[N] /\ Marks(f, N, good)
    OBVIOUS
  <1>2. PICK v, first, last, e : /\ v = Media!WindowOf(b)
                                 /\ first = Media!WindowStart(v) /\ last = Media!WindowEnd(v)
                                 /\ e = <<first, last>>
    OBVIOUS
  <1>3. /\ v \in 0..N /\ v \in good /\ first \in Nat /\ last \in 0..(Size - 1)
        /\ b \in first..last
        /\ \A w \in 0..N : w # v => Media!WindowStart(w) # first
    BY <1>1, <1>2, WindowHolds, WindowBounds
  <1>4. PICK k : \A w \in -1..N : WaterSound(f[w], k)
    <2>1. PICK k : loaded \subseteq k /\ HoldsWindows(k, good)
      <3>1. PICK k : k = loaded \cup UNION {Media!WindowStart(w)..Media!WindowEnd(w) : w \in good}
        OBVIOUS
      <3> QED  BY <3>1 DEF HoldsWindows
    <2>2. loaded \subseteq k /\ HoldsWindows(k, good) /\ WaterSound(media, loaded)
      BY <2>1
    <2>3. Media!Window = 0..N /\ Marks(f, N, good)
      BY <1>1
    <2>4. \A w \in -1..N : /\ WaterSound(f[w], k) /\ f[w].anchor = media.anchor
                           /\ f[w].generation = media.generation
      BY <2>2, <2>3, MarksSound
    <2> QED  BY <2>4
  <1> DEFINE S == {n \in Nat : n \in v..N /\ ~Known(f[n], e, b)}
  <1>6. CASE S # {}
    <2>1. PICK w \in S : \A o \in S : w <= o
      BY <1>6, SmallestIs
    <2>2. w \in v..N /\ w \in 0..N /\ ~Known(f[w], e, b) /\ w - 1 \in -1..N
      BY <1>3, <2>1
    <2>3. f[w] = MarkStep(f[w - 1], w, good)
      BY <1>1, <2>2 DEF Marks
    <2>4. w # v => Known(f[w - 1], e, b)
      <3>1. w # v => w - 1 \in Nat /\ w - 1 \in v..N /\ ~(w <= w - 1)
        BY <1>3, <2>2
      <3>2. w # v => w - 1 \notin S
        BY <2>1, <3>1
      <3> QED  BY <3>1, <3>2
    <2>5. CASE w \in good
      <3>1. PICK m, start, end : /\ m = f[w - 1]
                                 /\ start = Media!WindowStart(w) /\ end = Media!WindowEnd(w)
        OBVIOUS
      <3>2. start \in Nat /\ end \in 0..(Size - 1) /\ WaterSound(m, k)
        BY <1>1, <1>4, <2>2, <3>1, WindowBounds
      <3>3. \/ first = start /\ last = end
            \/ first # start /\ Known(m, <<first, last>>, b)
        BY <1>2, <1>3, <2>2, <2>4, <3>1
      <3>4. Known(Media!mark_complete(m, start, end), <<first, last>>, b)
        BY <1>3, <3>2, <3>3, MarkKnows
      <3> QED  BY <1>2, <2>2, <2>3, <2>5, <3>1, <3>4 DEF MarkStep
    <2>6. CASE w \notin good
      BY <1>3, <2>2, <2>3, <2>4, <2>6 DEF MarkStep
    <2> QED  BY <2>5, <2>6
  <1>7. CASE S = {}
    <2>1. N \in v..N /\ N \notin S
      BY <1>3, <1>7
    <2>2. Known(f[N], e, b)
      BY <2>1
    <2>3. f[N].high \in -1..(Size - 1) /\ Size \in Nat
      <3>1. WaterSound(f[N], k)
        BY <1>4
      <3>2. Size \in Nat
        BY MediaConstants
      <3> QED  BY <3>1, <3>2 DEF WaterSound
    <2>4. f[N].high + 1 # b
      BY <2>2, <2>3 DEF Known
    <2> QED  BY <1>1, <2>4
  <1> QED  BY <1>6, <1>7

\* The first window of a batch is wanted, waited for, read or failed; outside
\* a batch a prefetcher wants nothing.
Minded(q) == q.want \cup q.ok \cup q.bad \cup {w \in Media!Window : q.on[w] # 0}
BatchFine(t, q) ==
    t \in Media!Prefetcher =>
        IF q.pc = "batch" THEN q.start \in 0..(Size - 1) /\ Media!WindowOf(q.start) \in Minded(q)
        ELSE q.want = {}
BatchInv == \A t \in Media!Task : BatchFine(t, task[t])

\* A step of a task that does not end a batch.
Onward(t, q, new) == BatchFine(t, new) /\ (q.pc = "batch" => new.pc # "read")
AllOnward == \A t \in Media!Task : Onward(t, task[t], task'[t])

\* A task that leaves the batch for elsewhere, wanting nothing.
LEMMA ElsewhereOnward ==
    ASSUME NEW t, NEW q, NEW new, new.pc # "batch",
           t \in Media!Prefetcher => new.want = {}, new.pc # "read" \/ q.pc # "batch"
    PROVE  Onward(t, q, new)
  BY DEF Onward, BatchFine

LEMMA StayOnward ==
    ASSUME BatchInv, NEW t \in Media!Task
    PROVE  Onward(t, task[t], task[t])
  BY DEF Onward, BatchInv

LEMMA RequestOnward ==
    ASSUME Media!MediaAssumption, WaterInv, BatchInv, NEW r \in Media!Request,
           \/ \E start \in Starts, stop \in Stops : Media!Begin(r, start, stop)
           \/ Media!Fails(r) \/ Media!Again(r) \/ Media!Succeeds(r)
    PROVE  AllOnward
  <1>1. /\ DOMAIN task = Media!Task /\ r \in Media!Task /\ DOMAIN task[r] = TaskFields
        /\ r \notin Media!Prefetcher
    <2>1. MediaRequests \in Nat
      BY MediaConstants
    <2> QED  BY <2>1 DEF WaterInv, Formed, Media!Task, Media!Request, Media!Prefetcher
  <1>2. PICK idle : idle = Media!Idle
    OBVIOUS
  <1>3. DOMAIN idle = TaskFields /\ idle.pc = "idle" /\ idle.want = {}
    BY <1>2 DEF Media!Idle, TaskFields
  <1>4. CASE \E start \in Starts, stop \in Stops : Media!Begin(r, start, stop)
    <2>1. PICK g, start, end, want :
             /\ task[r] = idle
             /\ task' = [task EXCEPT ![r] = [idle EXCEPT !.pc = "read", !.generation = g,
                                             !.start = start, !.end = end, !.want = want]]
      <3>1. PICK start, stop : Media!Begin(r, start, stop)
        BY <1>4
      <3>2. PICK end : task' = [task EXCEPT ![r] =
                [Media!Idle EXCEPT !.pc = "read", !.generation = media'.generation,
                                   !.start = start, !.end = end,
                                   !.want = Media!WindowsOf(start, end)]]
        BY <3>1, Zenon DEF Media!Begin
      <3>3. task[r] = Media!Idle
        BY <3>1 DEF Media!Begin
      <3> QED  BY <1>2, <3>2, <3>3
    <2>2. task'[r].pc = "read" /\ task[r].pc # "batch"
      BY <1>1, <1>3, <2>1 DEF TaskFields
    <2>3. Onward(r, task[r], task'[r])
      BY <1>1, <2>2, ElsewhereOnward
    <2> QED  BY <1>1, <2>1, <2>3, StayOnward DEF AllOnward
  <1>5. CASE Media!Fails(r)
    <2>1. \/ task' = [task EXCEPT ![r] = idle]
          \/ \E on : task' = [task EXCEPT ![r] =
                 [@ EXCEPT !.pc = "again", !.on = on, !.ok = {}, !.bad = {}, !.timed = {}]]
      BY <1>2, <1>5, Zenon DEF Media!Fails
    <2>2. task'[r].pc \in {"idle", "again"}
      BY <1>1, <1>3, <2>1 DEF TaskFields
    <2>3. Onward(r, task[r], task'[r])
      BY <1>1, <2>2, ElsewhereOnward
    <2> QED  BY <1>1, <2>1, <2>3, StayOnward DEF AllOnward
  <1>6. CASE Media!Again(r)
    <2>1. PICK windows :
             /\ task[r].pc = "again"
             /\ task' = [task EXCEPT ![r].pc = "read", ![r].want = windows,
                                     ![r].retried = windows]
      BY <1>6 DEF Media!Again
    <2>2. task'[r].pc = "read"
      BY <1>1, <2>1 DEF TaskFields
    <2>3. Onward(r, task[r], task'[r])
      BY <1>1, <2>1, <2>2, ElsewhereOnward
    <2> QED  BY <1>1, <2>1, <2>3, StayOnward DEF AllOnward
  <1>7. CASE Media!Succeeds(r)
    <2>1. \/ task' = [task EXCEPT ![r] = idle]
          \/ \E p, g, end : task' = [task EXCEPT ![r] = idle, ![p] =
                     [idle EXCEPT !.pc = "again", !.generation = g, !.end = end, !.stage = 0]]
      <3>1. PICK q : q = task[r]
        OBVIOUS
      <3>2. \/ task' = [task EXCEPT ![r] = idle]
            \/ \E p : task' = [task EXCEPT ![r] = idle, ![p] =
                       [idle EXCEPT !.pc = "again", !.generation = q.generation,
                                    !.end = q.end, !.stage = 0]]
        BY <1>2, <1>7, <3>1, Zenon DEF Media!Succeeds
      <3>3. ASSUME NEW p, task' = [task EXCEPT ![r] = idle, ![p] =
                       [idle EXCEPT !.pc = "again", !.generation = q.generation,
                                    !.end = q.end, !.stage = 0]]
            PROVE  \E o, g, end : task' = [task EXCEPT ![r] = idle, ![o] =
                     [idle EXCEPT !.pc = "again", !.generation = g, !.end = end, !.stage = 0]]
        <4>1. PICK g, end : g = q.generation /\ end = q.end
          OBVIOUS
        <4>2. task' = [task EXCEPT ![r] = idle, ![p] =
                     [idle EXCEPT !.pc = "again", !.generation = g, !.end = end, !.stage = 0]]
          BY <3>3, <4>1
        <4> QED  BY <4>2
      <3> QED  BY <3>2, <3>3
    <2>2. CASE task' = [task EXCEPT ![r] = idle]
      <3>1. task'[r].pc = "idle"
        BY <1>1, <1>3, <2>2
      <3>2. Onward(r, task[r], task'[r])
        BY <1>1, <3>1, ElsewhereOnward
      <3> QED  BY <1>1, <2>2, <3>2, StayOnward DEF AllOnward
    <2>3. ASSUME NEW p, NEW g, NEW end,
                 task' = [task EXCEPT ![r] = idle, ![p] =
                     [idle EXCEPT !.pc = "again", !.generation = g, !.end = end, !.stage = 0]]
          PROVE  AllOnward
      <3>1. PICK after : after = [idle EXCEPT !.pc = "again", !.generation = g, !.end = end,
                                            !.stage = 0]
        OBVIOUS
      <3>2. after.pc = "again" /\ after.want = {}
        BY <1>3, <3>1 DEF TaskFields
      <3>3. ASSUME NEW t \in Media!Task
            PROVE  Onward(t, task[t], task'[t])
        <4>1. task'[t] = task[t] \/ task'[t] = idle \/ task'[t] = after
          BY <1>1, <2>3, <3>1
        <4>2. CASE task'[t] = task[t]
          BY <4>2, StayOnward
        <4>3. CASE task'[t] = idle \/ task'[t] = after
          <5>1. task'[t].pc # "batch" /\ task'[t].pc # "read" /\ task'[t].want = {}
            BY <1>3, <3>2, <4>3
          <5> QED  BY <5>1, ElsewhereOnward
        <4> QED  BY <4>1, <4>2, <4>3
      <3> QED  BY <3>3 DEF AllOnward
    <2> QED  BY <2>1, <2>2, <2>3
  <1> QED  BY <1>4, <1>5, <1>6, <1>7

\* A window leaves the flight it was on for those read or failed.
Landed(q, new, w) ==
    /\ new.pc = q.pc /\ new.start = q.start /\ new.want = q.want
    /\ q.ok \subseteq new.ok /\ q.bad \subseteq new.bad /\ w \in new.ok \cup new.bad
    /\ \A x \in Media!Window : x # w => new.on[x] = q.on[x]

LEMMA LandedOnward ==
    ASSUME BatchInv, NEW t \in Media!Task, NEW new, NEW w \in Media!Window,
           Landed(task[t], new, w)
    PROVE  Onward(t, task[t], new)
  <1>1. BatchFine(t, task[t])
    BY DEF BatchInv
  <1>2. Minded(task[t]) \subseteq Minded(new)
    BY DEF Landed, Minded
  <1> QED  BY <1>1, <1>2 DEF Landed, BatchFine, Onward

LEMMA LoadOnward ==
    ASSUME WaterInv, ServedInv, BatchInv,
           \/ Media!Clear \/ Media!Trim \/ Media!Evict
           \/ \E t \in Media!Task : Media!ReaderTimeout(t)
           \/ \E p \in producers : Media!Register(p) \/ Media!Produce(p)
    PROVE  AllOnward
  <1>1. DOMAIN task = Media!Task /\ \A t \in Media!Task : DOMAIN task[t] = TaskFields
    BY DEF WaterInv, Formed
  <1>2. CASE task' = task
    BY <1>2, StayOnward DEF AllOnward
  <1>4. ASSUME NEW t \in Media!Task, Media!ReaderTimeout(t)
        PROVE  AllOnward
    <2>1. PICK w \in Media!Window :
             task' = [task EXCEPT ![t].on[w] = 0, ![t].bad = @ \cup {w}, ![t].timed = @ \cup {w}]
      BY <1>4 DEF Media!ReaderTimeout
    <2>2. PICK q, new : q = task[t] /\ new = task'[t]
      OBVIOUS
    <2>3. /\ DOMAIN q = TaskFields
          /\ new = [q EXCEPT !.on = [@ EXCEPT ![w] = 0], !.bad = @ \cup {w}, !.timed = @ \cup {w}]
      BY <1>1, <2>1, <2>2 DEF TaskFields
    <2>4. /\ DOMAIN new = TaskFields /\ new.pc = q.pc /\ new.start = q.start /\ new.want = q.want
          /\ new.ok = q.ok /\ new.bad = q.bad \cup {w} /\ new.on = [q.on EXCEPT ![w] = 0]
      BY <2>3 DEF TaskFields
    <2>5. DOMAIN q.on = Media!Window
      BY <2>2 DEF ServedInv, TasksServed, TaskServed, Sane
    <2>6. \A x \in Media!Window : x # w => new.on[x] = q.on[x]
      BY <2>4, <2>5
    <2>7. Landed(q, new, w)
      BY <2>4, <2>6 DEF Landed
    <2>8. Onward(t, q, new)
      BY <2>2, <2>7, LandedOnward
    <2> QED  BY <1>1, <2>1, <2>2, <2>8, StayOnward DEF AllOnward
  <1>5. ASSUME NEW p \in producers, Media!Produce(p), task' # task
        PROVE  AllOnward
    <2>1. PICK success : task' = Media!finish_range_waiters(p, success)
      BY <1>5 DEF Media!Produce
    <2>2. PICK v : v = p.window /\ v \in Media!Window
      BY DEF ServedInv, LoadsFit, LoadFits
    <2>3. ASSUME NEW t \in Media!Task
          PROVE  Onward(t, task[t], task'[t])
      <3>1. PICK q, new : q = task[t] /\ new = task'[t]
        OBVIOUS
      <3>2. new = IF q.on[v] # p.id THEN q
                  ELSE [q EXCEPT !.on[v] = 0,
                                 !.ok = IF success THEN @ \cup {v} ELSE @,
                                 !.bad = IF success THEN @ ELSE @ \cup {v}]
        BY <2>1, <2>2, <3>1 DEF Media!finish_range_waiters
      <3>3. CASE q.on[v] # p.id
        BY <3>1, <3>2, <3>3, StayOnward
      <3>4. CASE q.on[v] = p.id
        <4>1. DOMAIN q = TaskFields /\ DOMAIN q.on = Media!Window
          BY <1>1, <3>1 DEF ServedInv, TasksServed, TaskServed, Sane
        <4>2. PICK ok, bad : /\ q.ok \subseteq ok /\ q.bad \subseteq bad /\ v \in ok \cup bad
                             /\ new = [q EXCEPT !.on[v] = 0, !.ok = ok, !.bad = bad]
          <5>1. CASE success
            <6>1. new = [q EXCEPT !.on[v] = 0, !.ok = q.ok \cup {v}, !.bad = q.bad]
              BY <3>2, <3>4, <5>1
            <6> QED  BY <6>1
          <5>2. CASE ~success
            <6>1. new = [q EXCEPT !.on[v] = 0, !.ok = q.ok, !.bad = q.bad \cup {v}]
              BY <3>2, <3>4, <5>2
            <6> QED  BY <6>1
          <5> QED  BY <5>1, <5>2
        <4>3. /\ DOMAIN new = TaskFields /\ new.pc = q.pc /\ new.start = q.start
              /\ new.want = q.want /\ new.ok = ok /\ new.bad = bad
              /\ new.on = [q.on EXCEPT ![v] = 0]
          BY <4>1, <4>2 DEF TaskFields
        <4>4. \A x \in Media!Window : x # v => new.on[x] = q.on[x]
          BY <4>1, <4>3
        <4>5. q.ok \subseteq new.ok /\ q.bad \subseteq new.bad /\ v \in new.ok \cup new.bad
          BY <4>2, <4>3
        <4>6. new.pc = q.pc /\ new.start = q.start /\ new.want = q.want
          BY <4>3
        <4>7. Landed(q, new, v)
          BY <4>4, <4>5, <4>6 DEF Landed
        <4> QED  BY <2>2, <3>1, <4>7, LandedOnward
      <3> QED  BY <3>3, <3>4
    <2> QED  BY <2>3 DEF AllOnward
  <1>6. Media!Clear \/ Media!Trim \/ Media!Evict => task' = task
    BY DEF Media!Clear, Media!Trim, Media!Evict
  <1>7. \A p \in producers : Media!Register(p) => task' = task
    BY DEF Media!Register
  <1> QED  BY <1>2, <1>4, <1>5, <1>6, <1>7

LEMMA DivGrows ==
    ASSUME NEW x \in Nat, NEW y \in Nat, NEW n \in Nat \ {0}, x <= y
    PROVE  x \div n <= y \div n
  <1>1. PICK a \in Nat, b \in Nat : a = x \div n /\ b = y \div n
    OBVIOUS
  <1>2. a * n <= x /\ y < (b + 1) * n
    BY <1>1
  <1>3. ASSUME a >= b + 1
        PROVE  FALSE
    <2>1. a * n >= (b + 1) * n
      BY <1>1, <1>3
    <2>2. PICK u \in Int, v \in Int : u = a * n /\ v = (b + 1) * n
      <3>1. a \in Int /\ b + 1 \in Int /\ n \in Int
        OBVIOUS
      <3> QED  BY <3>1
    <2> QED  BY <1>2, <2>1, <2>2
  <1>4. a <= b
    <2>1. a \in Int /\ b \in Int /\ ~(a >= b + 1)
      BY <1>1, <1>3
    <2> QED  BY <2>1
  <1> QED  BY <1>1, <1>4, Zenon

\* A prefetcher wants the window behind the high water first.
LEMMA PrefetchOnward ==
    ASSUME Media!MediaAssumption, WaterInv, ServedInv, BatchInv, NEW p \in Media!Prefetcher,
           Media!NextStage(p) \/ Media!NextBatch(p) \/ Media!RetryWindow(p)
    PROVE  AllOnward
  <1>1. DOMAIN task = Media!Task /\ p \in Media!Task /\ media.high \in -1..(Size - 1)
    BY DEF WaterInv, WaterSound, Media!Task
  <1>2. PICK q, new : q = task[p] /\ new = task'[p]
    OBVIOUS
  <1>3. DOMAIN q = TaskFields /\ Sane(q) /\ BatchFine(p, q)
    BY <1>1, <1>2 DEF ServedInv, TasksServed, TaskServed, Sane, BatchInv
  <1>4. /\ \A t \in Media!Task : t = p \/ task'[t] = task[t]
        /\ Onward(p, q, new)
    <2>1. CASE Media!NextStage(p)
      <3>1. q.pc = "again" /\ q.want = {}
        BY <1>2, <1>3, <2>1 DEF Media!NextStage, BatchFine
      <3>2. PICK low : \/ task' = [task EXCEPT ![p] = Media!Idle]
                       \/ task' = [task EXCEPT ![p].stage = low, ![p].pc = "read"]
        <4>1. PICK left : left = {s \in Stages : s > q.stage}
          OBVIOUS
        <4> QED  BY <1>2, <2>1, <4>1, Zenon DEF Media!NextStage, Media!Finish
      <3>3. CASE task' = [task EXCEPT ![p] = Media!Idle]
        <4>1. new = Media!Idle
          BY <1>1, <1>2, <3>3
        <4>2. new.pc = "idle" /\ new.want = {}
          BY <4>1 DEF Media!Idle
        <4> QED  BY <1>1, <3>3, <4>2, ElsewhereOnward
      <3>4. CASE task' = [task EXCEPT ![p].stage = low, ![p].pc = "read"]
        <4>1. new.pc = "read" /\ new.want = {}
          BY <1>1, <1>2, <1>3, <3>1, <3>4 DEF TaskFields
        <4> QED  BY <1>1, <3>1, <3>4, <4>1, ElsewhereOnward
      <3> QED  BY <3>2, <3>3, <3>4
    <2>2. CASE Media!NextBatch(p)
      <3>1. PICK position, target, batch :
               /\ position = Media!high_water(p) + 1 /\ target = Media!Target(p)
               /\ batch = {w \in Media!WindowOf(position)..Media!WindowOf(target) :
                              w < Media!WindowOf(position) + MaxParallel}
        OBVIOUS
      <3>2. /\ q.pc = "read" /\ q.want = {}
            /\ \/ task' = [task EXCEPT ![p].pc = "again"]
               \/ /\ ~(position > target)
                  /\ task' = [task EXCEPT ![p] =
                        [@ EXCEPT !.pc = "batch", !.want = batch, !.start = position, !.ok = {},
                                  !.bad = {}, !.timed = {}, !.retried = {}]]
        BY <1>2, <2>2, <3>1, Zenon DEF Media!NextBatch
      <3>3. CASE task' = [task EXCEPT ![p].pc = "again"]
        <4>1. new.pc = "again" /\ new.want = {}
          BY <1>1, <1>2, <1>3, <3>2, <3>3 DEF TaskFields
        <4> QED  BY <1>1, <3>3, <4>1, ElsewhereOnward
      <3>4. CASE /\ ~(position > target)
                 /\ task' = [task EXCEPT ![p] =
                        [@ EXCEPT !.pc = "batch", !.want = batch, !.start = position, !.ok = {},
                                  !.bad = {}, !.timed = {}, !.retried = {}]]
        <4>1. /\ Size \in Nat \ {0} /\ q.end \in 0..(Size - 1) /\ q.stage \in Nat
              /\ WindowBytes \in Nat \ {0} /\ MaxParallel \in Nat \ {0}
          BY <1>3, MediaConstants DEF Sane, Media!MediaAssumption
        <4>2. position \in Nat
          BY <1>1, <1>2, <3>1, <4>1 DEF Media!high_water
        <4>3. target \in 0..(Size - 1)
          <5>1. PICK a, b : a = q.end + q.stage /\ b = Size - 1
            OBVIOUS
          <5>2. a \in Nat /\ b \in Nat
            BY <4>1, <5>1
          <5>3. Media!Min({a, b}) \in {a, b} /\ Media!Min({a, b}) <= b
            BY <5>2, LesserIs
          <5>4. target = Media!Min({a, b})
            BY <1>2, <3>1, <5>1 DEF Media!Target
          <5> QED  BY <5>1, <5>2, <5>3, <5>4
        <4>4. position \in 0..(Size - 1) /\ position <= target
          BY <3>4, <4>1, <4>2, <4>3
        <4>5. Media!WindowOf(position) \in batch
          <5>1. Media!WindowOf(position) \in Nat /\ Media!WindowOf(target) \in Nat
            BY <4>1, <4>2, <4>3 DEF Media!WindowOf
          <5>2. Media!WindowOf(position) <= Media!WindowOf(target)
            BY <4>1, <4>3, <4>4, DivGrows DEF Media!WindowOf
          <5> QED  BY <3>1, <4>1, <5>1, <5>2
        <4>6. new = [q EXCEPT !.pc = "batch", !.want = batch, !.start = position, !.ok = {},
                              !.bad = {}, !.timed = {}, !.retried = {}]
          BY <1>1, <1>2, <3>4
        <4>7. new.pc = "batch" /\ new.want = batch /\ new.start = position
          BY <1>3, <4>6 DEF TaskFields
        <4>8. BatchFine(p, new)
          BY <4>4, <4>5, <4>7 DEF BatchFine, Minded
        <4>9. Onward(p, q, new)
          BY <3>2, <4>8 DEF Onward
        <4> QED  BY <1>1, <3>4, <4>9
      <3> QED  BY <3>2, <3>3, <3>4
    <2>3. CASE Media!RetryWindow(p)
      <3>1. PICK w \in q.bad :
               /\ q.pc = "batch"
               /\ task' = [task EXCEPT ![p].want = @ \cup {w}, ![p].bad = @ \ {w},
                                       ![p].timed = @ \ {w}, ![p].retried = @ \cup {w}]
        BY <1>2, <2>3 DEF Media!RetryWindow
      <3>2. new = [q EXCEPT !.want = @ \cup {w}, !.bad = @ \ {w},
                            !.timed = @ \ {w}, !.retried = @ \cup {w}]
        BY <1>1, <1>2, <1>3, <3>1 DEF TaskFields
      <3>3. /\ new.pc = "batch" /\ new.on = q.on /\ new.bad = q.bad \ {w} /\ new.ok = q.ok
            /\ new.want = q.want \cup {w} /\ new.start = q.start
        BY <1>3, <3>1, <3>2 DEF TaskFields
      <3>4. Minded(q) \subseteq Minded(new)
        BY <3>3 DEF Minded
      <3>5. Onward(p, q, new)
        BY <1>3, <3>1, <3>3, <3>4 DEF Onward, BatchFine
      <3> QED  BY <1>1, <3>1, <3>5
    <2> QED  BY <2>1, <2>2, <2>3
  <1> QED  BY <1>2, <1>4, StayOnward DEF AllOnward

\* A reader of windows is told of each, or waits for it; who loses a load is
\* told so.
LEMMA ReadOnward ==
    ASSUME Media!MediaAssumption, WaterInv, ServedInv, BatchInv, NEW t \in Media!Task,
           Media!Read(t)
    PROVE  AllOnward
  <1> DEFINE g == task[t].generation
             rejected == {w \in task[t].want : Media!Role(w, g) = "reject"}
             admitted == {w \in task[t].want \ rejected :
                             t \in Media!Request => \A x \in rejected : w < x}
             Taking(role) == {w \in admitted : Media!Role(w, g) = role}
             new == Taking("lead") \cup Taking("replace")
             Outdated(u) == {w \in Taking("replace") : task[u].on[w] = flights[w].id}
  <1>1. /\ task[t].pc \in {"read", "batch"} /\ task[t].want # {}
        /\ flights' = [w \in Media!Window |->
               IF w \in new THEN [generation |-> g, id |-> Media!NewId(w)] ELSE flights[w]]
    BY Zenon DEF Media!Read
  <1>2. task' = [u \in Media!Task |->
               IF u = t
               THEN [task[t] EXCEPT
                        !.pc = IF t \in Media!Request THEN "wait" ELSE "batch",
                        !.want = {}, !.ok = @ \cup Taking("cached"),
                        !.bad = (@ \ admitted) \cup rejected,
                        !.on = [w \in Media!Window |->
                                  IF w \in new \cup Taking("join") THEN flights'[w].id ELSE @[w]]]
               ELSE [task[u] EXCEPT
                        !.bad = @ \cup Outdated(u),
                        !.on = [w \in Media!Window |-> IF w \in Outdated(u) THEN 0 ELSE @[w]]]]
    BY Zenon DEF Media!Read
  <1>3. \A w \in task[t].want : w \notin rejected /\ t \notin Media!Request =>
           w \in admitted /\ w \in Taking("cached") \cup new \cup Taking("join")
    BY DEF Media!Role
  <1>4. \A w \in admitted : Media!Role(w, g) = "join" => flights[w] # Media!NoFlight
    BY RoleIs
  <1>5. PICK join, taken, had :
           join = Taking("join") /\ taken = new /\ had = Taking("cached")
    OBVIOUS
  <1>6. /\ \A w \in join : flights[w] # Media!NoFlight
        /\ \A w \in task[t].want : w \notin rejected /\ t \notin Media!Request =>
              w \in admitted /\ w \in had \cup taken \cup join
        /\ admitted \subseteq task[t].want
    BY <1>3, <1>4, <1>5
  <1> HIDE DEF g, rejected, admitted, Taking, new, Outdated
  <1>7. DOMAIN task[t] = TaskFields /\ BatchFine(t, task[t])
    BY DEF WaterInv, Formed, BatchInv
  <1>8. \A w \in Media!Window : w \in taken \cup join => flights'[w].id # 0
    <2>1. ASSUME NEW w \in Media!Window, w \in taken
          PROVE  flights'[w].id # 0
      <3>1. flights'[w] = [generation |-> g, id |-> Media!NewId(w)]
        BY <1>1, <1>5, <2>1
      <3>2. IsFiniteSet(producers)
        BY DEF ServedInv, LoadsFit
      <3>3. Media!NewId(w) \in Nat \ {0}
        BY <3>2, NewIdIs
      <3>4. PICK f : f = [generation |-> g, id |-> Media!NewId(w)]
        OBVIOUS
      <3> QED  BY <3>1, <3>3, <3>4
    <2>2. ASSUME NEW w \in Media!Window, w \in join, w \notin taken
          PROVE  flights'[w].id # 0
      <3>1. flights'[w] = flights[w]
        BY <1>1, <1>5, <2>2
      <3> QED  BY <1>6, <2>2, <3>1 DEF ServedInv, FlightsHeld
    <2> QED  BY <2>1, <2>2
  <1>9. ASSUME t \in Media!Prefetcher
        PROVE  Onward(t, task[t], task'[t])
    <2>1. t \notin Media!Request
      <3>1. MediaRequests \in Nat
        BY MediaConstants
      <3> QED  BY <1>9, <3>1 DEF Media!Request, Media!Prefetcher
    <2>2. PICK q, after : q = task[t] /\ after = task'[t]
      OBVIOUS
    <2>3. q.pc = "batch" /\ DOMAIN q = TaskFields
      BY <1>1, <1>7, <1>9, <2>2 DEF BatchFine
    <2>4. PICK on, bad, ok :
             /\ on = [w \in Media!Window |->
                        IF w \in taken \cup join THEN flights'[w].id ELSE q.on[w]]
             /\ bad = (q.bad \ admitted) \cup rejected /\ ok = q.ok \cup had
      OBVIOUS
    <2>5. after = [q EXCEPT !.pc = "batch", !.want = {}, !.ok = ok, !.bad = bad, !.on = on]
      BY <1>2, <1>5, <2>1, <2>2, <2>4
    <2>6. /\ after.pc = "batch" /\ after.ok = ok /\ after.bad = bad /\ after.on = on
          /\ after.start = q.start
      BY <2>3, <2>5 DEF TaskFields
    <2>7. ASSUME NEW w \in Media!Window, w \in Minded(q)
          PROVE  w \in Minded(after)
      <3>1. CASE w \in q.want
        <4>1. w \in rejected \/ (w \in had \cup taken \cup join)
          BY <1>6, <2>1, <2>2, <3>1
        <4>2. w \in rejected => w \in after.bad
          BY <2>4, <2>6
        <4>3. w \in had => w \in after.ok
          BY <2>4, <2>6
        <4>4. ASSUME w \in taken \cup join
              PROVE  after.on[w] # 0
          <5>1. PICK id : id = flights'[w].id
            OBVIOUS
          <5>2. after.on[w] = id
            BY <2>4, <2>6, <4>4, <5>1
          <5> QED  BY <1>8, <4>4, <5>1, <5>2
        <4> QED  BY <4>1, <4>2, <4>3, <4>4 DEF Minded
      <3>2. CASE w \in q.ok
        BY <2>4, <2>6, <3>2 DEF Minded
      <3>3. CASE w \notin q.want /\ w \in q.bad
        <4>1. w \notin admitted
          BY <1>6, <2>2, <3>3
        <4> QED  BY <2>4, <2>6, <3>3, <4>1 DEF Minded
      <3>4. CASE q.on[w] # 0
        <4>1. PICK id : id = flights'[w].id
          OBVIOUS
        <4>2. after.on[w] = IF w \in taken \cup join THEN id ELSE q.on[w]
          BY <2>4, <2>6, <4>1
        <4>3. w \in taken \cup join => id # 0
          BY <1>8, <4>1
        <4>4. after.on[w] # 0
          BY <3>4, <4>2, <4>3
        <4> QED  BY <4>4 DEF Minded
      <3> QED  BY <2>7, <3>1, <3>2, <3>3, <3>4 DEF Minded
    <2>8. q.start \in 0..(Size - 1) /\ Media!WindowOf(q.start) \in Minded(q)
      BY <1>7, <1>9, <2>2, <2>3 DEF BatchFine
    <2>9. Media!WindowOf(q.start) \in Media!Window
      BY <2>8, WindowHolds
    <2>10. Onward(t, q, after)
      BY <2>6, <2>7, <2>8, <2>9 DEF Onward, BatchFine
    <2> QED  BY <2>2, <2>10
  <1>10. ASSUME t \notin Media!Prefetcher
         PROVE  Onward(t, task[t], task'[t])
    <2>1. task'[t].pc # "read"
      <3>1. PICK q, goal, ok, bad, on :
               /\ q = task[t] /\ goal = (IF t \in Media!Request THEN "wait" ELSE "batch")
               /\ ok = q.ok \cup had /\ bad = (q.bad \ admitted) \cup rejected
               /\ on = [w \in Media!Window |->
                          IF w \in taken \cup join THEN flights'[w].id ELSE q.on[w]]
        OBVIOUS
      <3>2. task'[t] = [q EXCEPT !.pc = goal, !.want = {}, !.ok = ok, !.bad = bad, !.on = on]
        BY <1>2, <1>5, <3>1
      <3>3. task'[t].pc = goal
        BY <1>7, <3>1, <3>2 DEF TaskFields
      <3> QED  BY <3>1, <3>3
    <2> QED  BY <1>10, <2>1 DEF Onward, BatchFine
  <1>11. ASSUME NEW u \in Media!Task, u # t
         PROVE  Onward(u, task[u], task'[u])
    <2>1. PICK q, after : q = task[u] /\ after = task'[u]
      OBVIOUS
    <2>2. PICK on, lost, bad : /\ on = [w \in Media!Window |-> IF w \in lost THEN 0 ELSE q.on[w]]
                              /\ lost = Outdated(u) /\ bad = q.bad \cup lost
      OBVIOUS
    <2>3. after = [q EXCEPT !.bad = bad, !.on = on]
      BY <1>2, <1>11, <2>1, <2>2
    <2>4. DOMAIN q = TaskFields /\ BatchFine(u, q)
      BY <2>1 DEF WaterInv, Formed, BatchInv
    <2>5. /\ after.pc = q.pc /\ after.want = q.want /\ after.ok = q.ok /\ after.bad = bad
          /\ after.on = on /\ after.start = q.start
      BY <2>3, <2>4 DEF TaskFields
    <2>6. Minded(q) \subseteq Minded(after)
      BY <2>2, <2>5 DEF Minded
    <2>7. Onward(u, q, after)
      BY <2>4, <2>5, <2>6 DEF Onward, BatchFine
    <2> QED  BY <2>1, <2>7
  <1> QED  BY <1>9, <1>10, <1>11 DEF AllOnward

\* A batch read in full has marked the window behind the high water.
LEMMA EndOnward ==
    ASSUME Media!MediaAssumption, WaterInv, ServedInv, BatchInv, NEW p \in Media!Prefetcher,
           Media!EndBatch(p)
    PROVE  /\ \A t \in Media!Task : t # p => Onward(t, task[t], task'[t])
           /\ BatchFine(p, task'[p])
           /\ task'[p].pc = "read" => media'.high + 1 # task[p].start
  <1>1. DOMAIN task = Media!Task /\ p \in Media!Task /\ WaterSound(media, loaded)
    BY DEF WaterInv, Media!Task
  <1>2. PICK q, new, good, marked :
           /\ q = task[p] /\ new = task'[p] /\ marked = Media!Marked(good)
           /\ good = {w \in q.ok : \A x \in q.bad : w < x}
    OBVIOUS
  <1>3. DOMAIN q = TaskFields /\ BatchFine(p, q)
    BY <1>1, <1>2 DEF WaterInv, Formed, BatchInv
  <1>4. PICK goal :
           /\ goal = (IF q.bad = {} /\ media.generation = q.generation THEN "read" ELSE "again")
           /\ task' = [task EXCEPT ![p] = [@ EXCEPT !.pc = goal, !.ok = {}, !.bad = {},
                                                    !.timed = {}, !.retried = {}]]
    BY <1>2, Zenon DEF Media!EndBatch
  <1>5. /\ q.pc = "batch" /\ q.want = {} /\ \A w \in Media!Window : q.on[w] = 0
        /\ media' = Media!IfCurrent(q.generation,
                        IF q.bad = {} THEN marked
                        ELSE Media!mark_failure(marked, Media!WindowStart(Media!Min(q.bad))))
    BY <1>2, Zenon DEF Media!EndBatch
  <1>6. new = [q EXCEPT !.pc = goal, !.ok = {}, !.bad = {}, !.timed = {}, !.retried = {}]
    BY <1>1, <1>2, <1>4
  <1>7. new.pc = goal /\ new.want = {} /\ goal # "batch"
    BY <1>3, <1>4, <1>5, <1>6 DEF TaskFields
  <1>8. ASSUME NEW t \in Media!Task, t # p
        PROVE  Onward(t, task[t], task'[t])
    <2>1. task'[t] = task[t]
      BY <1>4, <1>8
    <2> QED  BY <2>1, StayOnward
  <1>9. BatchFine(p, new)
    BY <1>7 DEF BatchFine
  <1>10. ASSUME new.pc = "read"
         PROVE  media'.high + 1 # q.start
    <2>1. q.bad = {} /\ media.generation = q.generation
      BY <1>4, <1>7, <1>10
    <2>2. media' = marked
      BY <1>5, <2>1 DEF Media!IfCurrent, Media!media_generation_current
    <2>3. q.start \in 0..(Size - 1) /\ Media!WindowOf(q.start) \in Minded(q)
      BY <1>3, <1>5 DEF BatchFine
    <2>4. Media!WindowOf(q.start) \in q.ok
      BY <1>5, <2>1, <2>3 DEF Minded
    <2>5. Media!WindowOf(q.start) \in good
      BY <1>2, <2>1, <2>4
    <2>6. Media!Marked(good).high + 1 # q.start
      BY <1>1, <2>3, <2>5, MarkedKnows
    <2> QED  BY <1>2, <2>2, <2>6
  <1> QED  BY <1>2, <1>8, <1>9, <1>10

\* What a step does to a task that ends a batch, and to every other.
Advances(t) ==
    task[t].pc = "batch" /\ task'[t].pc = "read" => media'.high + 1 # task[t].start

LEMMA BatchStep ==
    ASSUME Media!MediaAssumption, WaterInv, ServedInv, BatchInv, [Media!Next]_Media!vars
    PROVE  BatchInv' /\ \A t \in Media!Task : Advances(t)
  <1>1. SUFFICES AllOnward \/ \E p \in Media!Prefetcher : Media!EndBatch(p)
    <2>1. ASSUME AllOnward
          PROVE  BatchInv' /\ \A t \in Media!Task : Advances(t)
      BY <2>1 DEF AllOnward, Onward, BatchInv, Advances
    <2>2. ASSUME NEW p \in Media!Prefetcher, Media!EndBatch(p)
          PROVE  BatchInv' /\ \A t \in Media!Task : Advances(t)
      <3>1. /\ \A t \in Media!Task : t # p => Onward(t, task[t], task'[t])
            /\ BatchFine(p, task'[p])
            /\ task'[p].pc = "read" => media'.high + 1 # task[p].start
        BY <2>2, EndOnward
      <3>2. BatchInv'
        BY <3>1 DEF BatchInv, Onward
      <3>3. \A t \in Media!Task : Advances(t)
        BY <3>1 DEF Advances, Onward
      <3> QED  BY <3>2, <3>3
    <2> QED  BY <2>1, <2>2
  <1>2. CASE UNCHANGED Media!vars
    <2>1. task' = task
      BY <1>2 DEF Media!vars
    <2> QED  BY <2>1, StayOnward DEF AllOnward
  <1>3. Media!Request \subseteq Media!Task /\ Media!Prefetcher \subseteq Media!Task
    BY DEF Media!Task
  <1>4. CASE Media!Outside
    BY <1>4, RequestOnward, LoadOnward DEF Media!Outside
  <1>5. CASE Media!Load
    BY <1>5, LoadOnward DEF Media!Load
  <1>6. ASSUME NEW r \in Media!Request, Media!RequestStep(r)
        PROVE  AllOnward
    BY <1>3, <1>6, ReadOnward, RequestOnward DEF Media!RequestStep
  <1>7. ASSUME NEW p \in Media!Prefetcher, Media!PrefetchStep(p)
        PROVE  AllOnward \/ Media!EndBatch(p)
    BY <1>3, <1>7, ReadOnward, PrefetchOnward DEF Media!PrefetchStep
  <1> QED  BY <1>2, <1>4, <1>5, <1>6, <1>7 DEF Media!Next, Media!TaskStep

LEMMA BatchStarts ==
    ASSUME Media!Init
    PROVE  BatchInv
  <1>1. ASSUME NEW t \in Media!Task
        PROVE  task[t].pc = "idle" /\ task[t].want = {}
    <2>1. task[t] = Media!Idle
      BY DEF Media!Init
    <2> QED  BY <2>1 DEF Media!Idle
  <1> QED  BY <1>1 DEF BatchInv, BatchFine

\* A batch read in full leaves the high water elsewhere than right before
\* it (NextBatch, mark_complete), for any windows, stages and failures.
THEOREM PrefetchGoesOn ==
    ASSUME Media!MediaAssumption
    PROVE  Media!Spec => PrefetchAdvances
  <1>1. Media!Init => WaterInv /\ ServedInv /\ BatchInv
    BY WaterStarts, ServedStarts, BatchStarts
  <1>2. WaterInv /\ ServedInv /\ BatchInv /\ [Media!Next]_Media!vars
           => WaterInv' /\ ServedInv' /\ BatchInv'
    BY WaterStep, ServedStep, BatchStep
  <1>3. WaterInv /\ ServedInv /\ BatchInv /\ [Media!Next]_Media!vars
           => [\A p \in DOMAIN task :
                  task[p].pc = "batch" /\ task'[p].pc = "read" /\ media'.high # -1
                      => media'.high + 1 # task[p].start]_task
    <2>1. WaterInv => DOMAIN task = Media!Task
      BY DEF WaterInv
    <2> QED  BY <2>1, BatchStep DEF Advances
  <1> QED  BY <1>1, <1>2, <1>3, PTL DEF Media!Spec, PrefetchAdvances
=============================================================================
