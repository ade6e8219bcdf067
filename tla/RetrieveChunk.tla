---------------------------- MODULE RetrieveChunk ----------------------------
(***************************************************************************)
(* One chunk request (retrieve_chunk): peers are picked closest first,     *)
(* credit is reserved with each, a second exchange hedges a slow first     *)
(* one, and the request ends with the first valid chunk, when it has no    *)
(* one left to ask, or when its admission closes and its exchanges have    *)
(* settled.  Peers, their sessions and their credit change meanwhile, and  *)
(* the user pauses and resumes transfers.                                  *)
(*                                                                         *)
(* The code between two waits runs on one thread: a turn of the loop is    *)
(* one step, up to its wait.                                               *)
(***************************************************************************)
EXTENDS Integers, Sequences, FiniteSetsExt, Functions

CONSTANTS
    Peers,       \* how many peers: 1 is the closest to the address
    MaxSessions, \* bound on the sessions of all peers together
    MaxAttempts, \* RETRIEVE_CHUNK_MAX_ATTEMPT_ERRORS
    Budget,      \* attempts the request's admission allows
    Managed      \* the demands a request may start with

ASSUME RetrieveAssumption ==
    /\ {Peers, MaxSessions, MaxAttempts} \subseteq Nat \ {0}
    /\ Budget \in Nat
    /\ Managed \subseteq BOOLEAN

VARIABLES
    standing,  \* of a peer: "absent", "selectable" or "retiring" (the account
               \*   has given up its connection)
    session,   \* the last connection of a peer's account
    shared,    \* peers with a second physical connection
    credit,    \* peers whose account admits the price
    open,      \* the admission and the cancel token: work may be admitted
    paused,
    managed,   \* hedge demand: DistinctShardManaged or, once FALSE, Ordinary
    hedge_due, \* RETRIEVE_HEDGE_AFTER_MS have passed since the last start
    remaining, \* attempts left in the admission
    confirmed_empty,
    pc,        \* "loop", "paused", "wait", "done"
    wake,      \* what the loop waits for, beside a result
    skiplist,  \* Asked in place of the code's None, Free when there is no entry
    attempts,  \* retrieve_attempt tasks in the order they were spawned
    in_flight,
    reserved,  \* reservations this request holds on the account of a peer
    answer     \* "none", "Found" or "Empty"

peers == <<standing, session, shared, credit>>
control == <<open, paused, managed, hedge_due>>
counters == <<remaining, confirmed_empty, reserved>>
loop == <<pc, wake, skiplist, in_flight, answer>>
vars == <<peers, control, counters, loop, attempts>>

Peer == 1..Peers
Free  == -1   \* not in the skiplist
Asked == 0    \* in flight or answered for good
Outcome == {"Found", "Empty", "Failed", "TimedOut"}

TypeOK ==
    /\ standing \in [Peer -> {"absent", "selectable", "retiring"}]
    /\ session \in [Peer -> 0..MaxSessions]
    /\ shared \subseteq Peer /\ credit \subseteq Peer
    /\ {open, paused, managed, hedge_due} \subseteq BOOLEAN
    /\ remaining \in 0..Budget
    /\ confirmed_empty \in 0..MaxAttempts
    /\ pc \in {"loop", "paused", "wait", "done"}
    /\ wake \in {"none", "credit", "promoted", "never", "resume", "hedge"}
    /\ skiplist \in [Peer -> Free..MaxSessions]
    /\ attempts \in Seq([peer : Peer, session : 1..MaxSessions,
                         outcome : Outcome \cup {"out"}, received : BOOLEAN])
    /\ Len(attempts) <= MaxAttempts
    /\ in_flight \in 0..MaxAttempts
    /\ reserved \in [Peer -> 0..MaxAttempts]
    /\ answer \in {"none", "Found", "Empty"}

Init ==
    /\ standing \in [Peer -> {"absent", "selectable"}]
    /\ session = [p \in Peer |-> IF standing[p] = "absent" THEN 0 ELSE 1]
    /\ shared = {} /\ credit \in SUBSET {p \in Peer : standing[p] = "selectable"}
    /\ open = (Budget > 0) /\ paused \in BOOLEAN
    /\ managed \in Managed /\ hedge_due = TRUE
    /\ remaining = Budget /\ confirmed_empty = 0
    /\ pc = "loop" /\ wake = "none"
    /\ skiplist = [p \in Peer |-> Free]
    /\ attempts = <<>> /\ in_flight = 0
    /\ reserved = [p \in Peer |-> 0]
    /\ answer = "none"

-----------------------------------------------------------------------------
(* The peers, as the connection lifecycle and settlement change them.      *)

Promote(p) ==
    /\ standing[p] = "absent" /\ SumFunction(session) < MaxSessions
    /\ standing' = [standing EXCEPT ![p] = "selectable"]
    /\ session' = [session EXCEPT ![p] = @ + 1]
    /\ credit' \in {credit, credit \cup {p}}
    /\ UNCHANGED shared

\* quiesce_drain_and_close_accounting_session sets connection_id to None:
\* a retiring account reserves nothing, so its credit no longer matters.
Leave(p) ==
    /\ \/ standing[p] = "selectable"
          /\ standing' \in {[standing EXCEPT ![p] = "retiring"], [standing EXCEPT ![p] = "absent"]}
       \/ standing[p] = "retiring" /\ standing' = [standing EXCEPT ![p] = "absent"]
    /\ shared' = shared \ {p} /\ credit' = credit \ {p}
    /\ UNCHANGED session

SecondConnection(p) ==
    /\ standing[p] = "selectable"
    /\ shared' = IF p \in shared THEN shared \ {p} ELSE shared \cup {p}
    /\ UNCHANGED <<standing, session, credit>>

CreditChanges(p) ==
    /\ standing[p] = "selectable"
    /\ credit' = IF p \in credit THEN credit \ {p} ELSE credit \cup {p}
    /\ UNCHANGED <<standing, session, shared>>

PeersChange ==
    /\ \E p \in Peer : Promote(p) \/ Leave(p) \/ SecondConnection(p) \/ CreditChanges(p)
    /\ pc /= "done"
    /\ UNCHANGED <<control, counters, loop, attempts>>

(* Whoever owns the request: its waiters, its stream, the user.            *)

Close ==
    /\ open /\ pc /= "done"
    /\ open' = FALSE
    /\ UNCHANGED <<peers, paused, managed, hedge_due, counters, loop, attempts>>

toggle ==
    /\ pc /= "done" /\ paused' = ~paused
    /\ UNCHANGED <<peers, open, managed, hedge_due, counters, loop, attempts>>

\* Another waiter registers; promote is fetch_max, so an ordinary one turns
\* the demand ordinary and a managed one changes nothing.
promote(other_managed) == managed /\ other_managed
Join(other_managed) ==
    /\ TRUE \in Managed /\ pc /= "done"
    /\ managed' = promote(other_managed)
    /\ UNCHANGED <<peers, open, paused, hedge_due, counters, loop, attempts>>

\* The clock reaches the hedge delay.
HedgeTimer ==
    /\ ~hedge_due /\ pc /= "done" /\ hedge_due' = TRUE
    /\ UNCHANGED <<peers, open, paused, managed, counters, loop, attempts>>

-----------------------------------------------------------------------------
(* Picking a peer (select_retrieve_peer) *)

\* A peer that failed is asked again once its account has a new connection;
\* one that is being asked or has answered never is.
Considered(p) ==
    /\ standing[p] /= "absent"
    /\ \/ skiplist[p] = Free
       \/ skiplist[p] > Asked /\ standing[p] = "selectable" /\ session[p] /= skiplist[p]

Reservable(p) == Considered(p) /\ standing[p] = "selectable" /\ p \in credit
Selectable(p) == Reservable(p) /\ p \notin shared

Overdraft == \E p \in Peer : Considered(p) /\ ~Reservable(p)

\* Peers passed on the way to the one chosen: their reservation is undone,
\* and their connection is not tried again.
PassUpTo(chosen) ==
    [p \in Peer |-> IF p < chosen /\ Reservable(p) THEN session[p] ELSE skiplist[p]]
PassAll == PassUpTo(Peers + 1)

-----------------------------------------------------------------------------
(* The turns of the loop *)

Ready == {i \in DOMAIN attempts : attempts[i].outcome /= "out" /\ ~attempts[i].received}
MayContinue == Len(attempts) < MaxAttempts \/ in_flight > 0
CanStart == Len(attempts) < MaxAttempts /\ remaining > 0

retrieve_attempt_start_allowed == in_flight = 0 \/ (~managed /\ hedge_due)
Due == CanStart /\ ~paused /\ open /\ retrieve_attempt_start_allowed

Answer(result) == pc' = "done" /\ answer' = result /\ wake' = "none"

complete_Forgets(attempt) ==
    IF attempt.outcome \in {"Failed", "TimedOut"}
    THEN [skiplist EXCEPT ![attempt.peer] = Free] ELSE skiplist
complete(attempt) ==
    IF attempt.outcome \in {"Failed", "TimedOut"}
    THEN [skiplist EXCEPT ![attempt.peer] = attempt.session] ELSE skiplist

\* A settled attempt is taken from the channel; the first valid chunk ends
\* the request, whatever other exchanges are still out.
TakeResult(i) ==
    /\ i \in Ready
    /\ (pc = "loop" /\ MayContinue) \/ pc = "wait"
    /\ attempts' = [attempts EXCEPT ![i].received = TRUE]
    /\ in_flight' = in_flight - 1
    /\ skiplist' = complete(attempts[i])
    /\ IF attempts[i].outcome = "Found"
       THEN Answer("Found")
       ELSE pc' = "loop" /\ wake' = "none" /\ UNCHANGED answer
    /\ UNCHANGED <<peers, control, counters>>

\* Nothing between the checks of this turn and the claim waits, so the code's
\* second look at the admission and the pause finds them as they were.
StartAttempt ==
    /\ pc = "loop" /\ Ready = {} /\ MayContinue /\ Due
    /\ \E p \in Peer :
          /\ Selectable(p) /\ \A q \in 1..(p - 1) : ~Selectable(q)
          /\ skiplist' = [PassUpTo(p) EXCEPT ![p] = Asked]
          /\ reserved' = [reserved EXCEPT ![p] = @ + 1]
          /\ attempts' = Append(attempts, [peer |-> p, session |-> session[p],
                                           outcome |-> "out", received |-> FALSE])
    /\ in_flight' = in_flight + 1
    /\ remaining' = remaining - 1
    /\ open' = (open /\ remaining /= 1)
    /\ hedge_due' = FALSE
    /\ pc' = "wait" /\ wake' = (IF managed THEN "promoted" ELSE "hedge")
    /\ UNCHANGED <<peers, paused, managed, confirmed_empty, answer>>

NoneSelectable == \A p \in Peer : ~Selectable(p)
Exhausted_Early == ~Overdraft /\ \E p \in Peer : PassAll[p] /= Free
Exhausted == ~Overdraft /\ in_flight = 0 /\ \E p \in Peer : PassAll[p] /= Free

GiveUp ==
    /\ pc = "loop" /\ Ready = {}
    /\ \/ ~MayContinue /\ UNCHANGED skiplist
       \/ ~open /\ in_flight = 0 /\ UNCHANGED skiplist
       \/ MayContinue /\ Due /\ NoneSelectable /\ Exhausted /\ skiplist' = PassAll
    /\ Answer("Empty")
    /\ UNCHANGED <<peers, control, counters, in_flight, attempts>>

Suspend ==
    /\ pc = "loop" /\ MayContinue /\ open /\ paused /\ in_flight = 0
    /\ pc' = "paused"
    /\ UNCHANGED <<peers, control, counters, wake, skiplist, in_flight, answer, attempts>>

\* With nothing in flight, only the wait for credit remains.
Wait ==
    /\ pc = "loop" /\ Ready = {} /\ MayContinue
    /\ pc' = "wait"
    /\ \/ /\ Due /\ NoneSelectable /\ ~Exhausted
          /\ wake' = "credit" /\ skiplist' = PassAll
       \/ /\ ~Due /\ in_flight > 0
          /\ wake' = CASE managed                             -> "promoted"
                       [] ~managed /\ (~CanStart \/ ~open)    -> "never"
                       [] ~managed /\ CanStart /\ open /\ paused -> "resume"
                       [] OTHER                               -> "hedge"
          /\ UNCHANGED skiplist
    /\ UNCHANGED <<peers, control, counters, in_flight, answer, attempts>>

Resume_OnlyClosed ==
    /\ pc = "paused" /\ ~open /\ Answer("Empty")
    /\ UNCHANGED <<peers, control, counters, skiplist, in_flight, attempts>>
Resume ==
    /\ \/ pc = "paused" /\ ~paused /\ pc' = "loop" /\ UNCHANGED <<wake, answer>>
       \/ pc = "paused" /\ ~open /\ Answer("Empty")
    /\ UNCHANGED <<peers, control, counters, skiplist, in_flight, attempts>>

Woken ==
    \/ wake = "credit" /\ ~open
    \/ wake = "promoted" /\ ~managed
    \/ wake = "resume" /\ ~paused
    \/ wake = "hedge" /\ hedge_due

WakeUp ==
    /\ pc = "wait"
    /\ pc' = "loop" /\ wake' = "none"
    /\ UNCHANGED <<peers, control, counters, skiplist, in_flight, answer, attempts>>

\* CREDIT_AVAILABLE fires: some account of the node has gained credit.
CreditAvailable == wake = "credit" /\ WakeUp

Turn ==
    \/ \E i \in DOMAIN attempts : TakeResult(i)
    \/ StartAttempt \/ GiveUp \/ Suspend \/ Wait \/ Resume
    \/ Woken /\ WakeUp

-----------------------------------------------------------------------------
(* An attempt (retrieve_attempt): it owns its reservation until its        *)
(* exchange ends, at the latest with its timeout, and so outlives the      *)
(* request and its admission.                                              *)

record_confirmed_empty_Invalid(outcome) ==
    confirmed_empty + (IF outcome \in {"Empty", "Failed"} THEN 1 ELSE 0)
record_confirmed_empty(outcome) == confirmed_empty + (IF outcome = "Empty" THEN 1 ELSE 0)

\* apply_credit for a valid chunk, cancel_reserve otherwise.
SettleReserve(p) == [reserved EXCEPT ![p] = @ - 1]

Settle(i, outcome) ==
    /\ attempts[i].outcome = "out"
    /\ attempts' = [attempts EXCEPT ![i].outcome = outcome]
    /\ confirmed_empty' = record_confirmed_empty(outcome)
    /\ reserved' = SettleReserve(attempts[i].peer)
    /\ managed' = (managed /\ outcome /= "TimedOut")
    /\ UNCHANGED <<peers, open, paused, hedge_due, remaining, loop>>

AttemptEnds == \E i \in DOMAIN attempts, outcome \in Outcome : Settle(i, outcome)

-----------------------------------------------------------------------------
Next ==
    \/ PeersChange
    \/ Close \/ toggle \/ HedgeTimer
    \/ \E other_managed \in BOOLEAN : Join(other_managed)
    \/ CreditAvailable
    \/ Turn
    \/ AttemptEnds

Spec == Init /\ [][Next]_vars

\* The loop runs when it can, every attempt ends by its timeout, and the
\* hedge timer fires.  Nobody owes the request a credit change.
FairSpec == Spec /\ WF_vars(Turn) /\ WF_vars(HedgeTimer)
                 /\ \A i \in 1..MaxAttempts :
                       WF_vars(i \in DOMAIN attempts /\ \E o \in Outcome : Settle(i, o))

-----------------------------------------------------------------------------
(* Properties *)

\* A peer is asked at most once over a connection, and asked again over a
\* later one only after its earlier exchange failed: an empty answer, or one
\* still awaited, excludes it whatever reconnects meanwhile.
NoPeerAskedAgain ==
    \A i, j \in DOMAIN attempts :
        i < j /\ attempts[i].peer = attempts[j].peer =>
            /\ attempts[i].session /= attempts[j].session
            /\ attempts[i].outcome \in {"Failed", "TimedOut"}

\* What the request holds on a peer's account is held by an exchange that is
\* out, also after the request was answered or closed under them.
ReservesAreOut ==
    \A p \in Peer : reserved[p] =
        Cardinality({i \in DOMAIN attempts : attempts[i].peer = p /\ attempts[i].outcome = "out"})

\* A request whose demand is still managed has at most one exchange out, in
\* whatever order its waiters joined.
ManagedIsSerial ==
    managed => Cardinality({i \in DOMAIN attempts : attempts[i].outcome = "out"}) <= 1

\* Whatever reconnects, joins or closes meanwhile, the exchanges of a request
\* go to peers not yet asked, one at a time while managed, and hold on their
\* accounts exactly what is out.
ExchangesAreSound == NoPeerAskedAgain /\ ReservesAreOut /\ ManagedIsSerial

\* get_feed_probe_chunk reports an update missing only when every peer asked
\* said so: none failed, timed out, is still out or found the chunk.
Missing ==
    /\ pc = "done"
    /\ Budget - remaining > 0 /\ confirmed_empty = Budget - remaining
MissingIsUnanimous ==
    Missing => /\ attempts /= <<>>
               /\ \A i \in DOMAIN attempts : attempts[i].outcome = "Empty"

\* The request keeps what it promises (ChunkRequest).
claimed == Len(attempts)
out == Cardinality({i \in DOMAIN attempts : attempts[i].outcome = "out"})
Promise == INSTANCE ChunkRequest WITH Limit <- IF Budget < MaxAttempts THEN Budget ELSE MaxAttempts
KeepsPromise == Promise!Spec

\* A request ends, unless the user keeps it paused or it waits for credit
\* that nobody can promise.
EndsUnlessStarved ==
    <>(pc = "done") \/ []<>paused \/ []<>(pc = "wait" /\ wake = "credit")

\* Once its admission is closed a request ends, paused or starved of credit.
ClosedEnds == ~open ~> pc = "done"

\* No wait is for ever, except for the user or for credit, and none of them
\* once nobody wants the chunk.
RequestEnds == EndsUnlessStarved /\ ClosedEnds
=============================================================================
