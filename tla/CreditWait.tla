----------------------------- MODULE CreditWait -----------------------------
(***************************************************************************)
(* Requests that found no peer with credit wait for CREDIT_AVAILABLE.  The *)
(* accounts change under reservations, deliveries, refreshments and new    *)
(* thresholds; each place that raises what an account admits calls         *)
(* notify_credit_available, which wakes every waiter with one timer for a  *)
(* burst of changes and does nothing while nobody listens.                 *)
(***************************************************************************)
EXTENDS Accounting, FiniteSets

CONSTANTS
    Peer,        \* each with one account
    Request,
    PriceOf,     \* what a request pays, PriceOf[r]
    Thresholds,  \* what a peer may announce
    MaxSurplus   \* bound on what a refreshment overpays

ASSUME CreditWaitAssumption ==
    /\ PriceOf \in [Request -> Nat \ {0}]
    /\ Thresholds \subseteq Nat
    /\ MaxSurplus \in Nat
    /\ Peer \cap {"idle", "selecting", "listening"} = {}

VARIABLES
    account,    \* balance, surplus, threshold and reserve of a peer
    selectable, \* promoted peers whose account has its connection
    request,    \* "idle", "selecting", "listening", or the peer it is asking
    notified,   \* listeners that CREDIT_AVAILABLE has notified
    PENDING     \* the timer that batches notifications is running

vars == <<account, selectable, request, notified, PENDING>>

Ledger == [balance : Nat, surplus : 0..MaxSurplus, threshold : Thresholds, reserve : Nat]
Listening == {r \in Request : request[r] = "listening"}

TypeOK ==
    /\ account \in [Peer -> Ledger]
    /\ selectable \subseteq Peer
    /\ request \in [Request -> {"idle", "selecting", "listening"} \cup Peer]
    /\ notified \subseteq Listening
    /\ PENDING \in BOOLEAN
    /\ \A p \in Peer : account[p].surplus = 0 \/ account[p].balance = 0

Init ==
    /\ account \in [Peer -> {[balance |-> 0, surplus |-> 0, threshold |-> t, reserve |-> 0] :
                             t \in Thresholds}]
    /\ selectable \in SUBSET Peer
    /\ request = [r \in Request |-> "idle"]
    /\ notified = {} /\ PENDING = FALSE

notify_credit_available(raised) == PENDING' = (PENDING \/ (raised /\ Listening /= {}))

-----------------------------------------------------------------------------
(* Requests *)

Affordable(r) == {p \in selectable : CanReserve(account[p], PriceOf[r])}

Begin(r) ==
    /\ request[r] = "idle"
    /\ request' = [request EXCEPT ![r] = "selecting"]
    /\ UNCHANGED <<account, selectable, notified, PENDING>>

\* select_retrieve_peer, and the listener taken before anything else runs.
Select(r) ==
    /\ request[r] = "selecting"
    /\ \/ \E p \in Affordable(r) :
             /\ account' = [account EXCEPT ![p] = reserve(@, PriceOf[r])]
             /\ request' = [request EXCEPT ![r] = p]
       \/ /\ Affordable(r) = {}
          /\ request' = [request EXCEPT ![r] = "listening"]
          /\ UNCHANGED account
    /\ UNCHANGED <<selectable, notified, PENDING>>

WakeUp(r) ==
    /\ r \in notified
    /\ notified' = notified \ {r}
    /\ request' = [request EXCEPT ![r] = "selecting"]
    /\ UNCHANGED <<account, selectable, PENDING>>

Deliver(r) ==
    /\ request[r] \in Peer
    /\ LET p == request[r]
       IN  /\ account' = [account EXCEPT ![p] = apply_credit(@, PriceOf[r])]
           /\ notify_credit_available(AtMost(account[p].surplus, PriceOf[r]) > 0)
    /\ request' = [request EXCEPT ![r] = "idle"]
    /\ UNCHANGED <<selectable, notified>>

Fail(r) ==
    /\ request[r] \in Peer
    /\ LET p == request[r]
       IN  /\ account' = [account EXCEPT ![p] = cancel_reserve(@, PriceOf[r])]
           /\ notify_credit_available(account[p].reserve > 0)
    /\ request' = [request EXCEPT ![r] = "idle"]
    /\ UNCHANGED <<selectable, notified>>

-----------------------------------------------------------------------------
(* Accounts *)

Refresh(p) ==
    /\ \E amount \in 1..(account[p].balance + MaxSurplus - account[p].surplus) :
          account' = [account EXCEPT ![p] = apply_refreshment(@, amount)]
    /\ notify_credit_available(account[p].balance > 0)
    /\ UNCHANGED <<selectable, request, notified>>

\* The peer acknowledged a refreshment of nothing: the debt is forgiven.
ForgiveDebt(p) ==
    /\ account' = [account EXCEPT ![p].balance = 0]
    /\ notify_credit_available(TRUE)
    /\ UNCHANGED <<selectable, request, notified>>

\* A fault, for the mutation runs.
Raises_FromZero(p, amount) == account[p].threshold = 0 /\ amount > 0
Raises(p, amount) == amount > account[p].threshold

set_payment_threshold(p) ==
    /\ \E amount \in Thresholds :
          /\ account' = [account EXCEPT ![p].threshold = amount]
          /\ notify_credit_available(Raises(p, amount))
    /\ UNCHANGED <<selectable, request, notified>>

promote_priced_peer(p) ==
    /\ p \notin selectable
    /\ selectable' = selectable \cup {p}
    /\ notify_credit_available(TRUE)
    /\ UNCHANGED <<account, request, notified>>

Retire(p) ==
    /\ p \in selectable
    /\ selectable' = selectable \ {p}
    /\ UNCHANGED <<account, request, notified, PENDING>>

\* A fault, for the mutation runs.
NotificationTimer_WakesOne ==
    /\ PENDING /\ PENDING' = FALSE
    /\ \E r \in Listening : notified' = notified \cup {r}
    /\ UNCHANGED <<account, selectable, request>>

NotificationTimer ==
    /\ PENDING /\ PENDING' = FALSE
    /\ notified' = Listening
    /\ UNCHANGED <<account, selectable, request>>

Next ==
    \/ \E r \in Request : Begin(r) \/ Select(r) \/ WakeUp(r) \/ Deliver(r) \/ Fail(r)
    \/ \E p \in Peer : Refresh(p) \/ ForgiveDebt(p) \/ set_payment_threshold(p)
                       \/ promote_priced_peer(p) \/ Retire(p)
    \/ NotificationTimer

Spec == Init /\ [][Next]_vars

\* The timer fires and notified tasks are polled.
FairSpec == Spec /\ WF_vars(NotificationTimer) /\ \A r \in Request : WF_vars(WakeUp(r))

-----------------------------------------------------------------------------
(* Properties *)

\* No request sleeps beside credit: when an account could admit it, it has
\* been notified or the timer that will notify it is running.
NoLostCredit ==
    \A r \in Listening : Affordable(r) /= {} => r \in notified \/ PENDING

\* Credit that comes, or stays, reaches every request that waits for it.
CreditReachesWaiters ==
    \A r \in Request :
        (r \in Listening /\ Affordable(r) /= {}) ~> r \notin Listening
=============================================================================
