-------------------------- MODULE CreditWaitProofs --------------------------
(***************************************************************************)
(* No request sleeps beside credit, for any peers, requests, prices and    *)
(* thresholds.  The invariant is NoLostCredit with the types it needs: an  *)
(* account that no change raised admits nobody it refused before, and each *)
(* change that may raise one calls notify_credit_available.                *)
(***************************************************************************)
EXTENDS CreditWait, TLAPS

Committed(a) == a.balance + a.reserve
Settled(a) == a.surplus = 0 \/ a.balance = 0

\* The account b admits no more than a does.
AdmitsNoMore(b, a) == Committed(b) >= Committed(a) /\ b.threshold <= a.threshold

-----------------------------------------------------------------------------
(* Accounts *)

LEMMA Fields ==
    ASSUME NEW a \in Ledger
    PROVE  /\ a.balance \in Nat /\ a.reserve \in Nat /\ a.threshold \in Nat
           /\ a.surplus \in Nat /\ a.surplus <= MaxSurplus /\ MaxSurplus \in Nat
<1>1. MaxSurplus \in Nat /\ Thresholds \subseteq Nat
  BY CreditWaitAssumption
<1>2. /\ a.balance \in Nat /\ a.reserve \in Nat
      /\ a.threshold \in Thresholds /\ a.surplus \in 0..MaxSurplus
  BY DEF Ledger
<1>3. a.threshold \in Nat
  BY <1>1, <1>2
<1>4. a.surplus \in Nat /\ a.surplus <= MaxSurplus
  BY <1>1, <1>2
<1> QED
  BY <1>1, <1>2, <1>3, <1>4

LEMMA RefusalStays ==
    ASSUME NEW a \in Ledger, NEW b \in Ledger, NEW amount \in Nat,
           AdmitsNoMore(b, a), CanReserve(b, amount)
    PROVE  CanReserve(a, amount)
<1>1. /\ a.balance \in Nat /\ a.reserve \in Nat /\ a.threshold \in Nat
      /\ b.balance \in Nat /\ b.reserve \in Nat /\ b.threshold \in Nat
  BY Fields
<1> QED
  BY <1>1 DEF AdmitsNoMore, Committed, CanReserve

LEMMA ReserveAccount ==
    ASSUME NEW a \in Ledger, NEW amount \in Nat, Settled(a)
    PROVE  LET b == reserve(a, amount)
           IN  b \in Ledger /\ Settled(b) /\ AdmitsNoMore(b, a)
BY Fields DEF reserve, Ledger, Settled, AdmitsNoMore, Committed

LEMMA CancelAccount ==
    ASSUME NEW a \in Ledger, NEW amount \in Nat, Settled(a)
    PROVE  LET b == cancel_reserve(a, amount)
           IN  b \in Ledger /\ Settled(b) /\ (a.reserve = 0 => AdmitsNoMore(b, a))
BY Fields DEF cancel_reserve, saturating_sub, Ledger, Settled, AdmitsNoMore, Committed

\* What a delivery takes from the reserve it adds to the debt, unless surplus
\* paid for some of it.
LEMMA DeliverAccount ==
    ASSUME NEW a \in Ledger, NEW amount \in Nat, Settled(a)
    PROVE  LET b == apply_credit(a, amount)
           IN  /\ b \in Ledger /\ Settled(b)
               /\ AtMost(a.surplus, amount) = 0 => AdmitsNoMore(b, a)
<1> DEFINE c == AtMost(a.surplus, amount)
           released == [a EXCEPT !.reserve = saturating_sub(a.reserve, amount)]
           prepaid  == [released EXCEPT !.surplus = a.surplus - c]
           charged  == [prepaid EXCEPT !.balance = a.balance + (amount - c)]
<1>1. /\ a.balance \in Nat /\ a.reserve \in Nat /\ a.threshold \in Nat
      /\ a.surplus \in Nat /\ a.surplus <= MaxSurplus /\ MaxSurplus \in Nat
  BY Fields
<1>2. c \in Nat /\ c <= amount /\ c <= a.surplus /\ (c = a.surplus \/ c = amount)
  BY <1>1 DEF AtMost
<1>3. apply_credit(a, amount) = charged
  BY DEF apply_credit
<1> HIDE DEF c
<1>4. /\ released \in Ledger
      /\ released.reserve \in Nat /\ released.reserve + amount >= a.reserve
      /\ released.threshold = a.threshold
  BY <1>1 DEF Ledger, saturating_sub
<1> HIDE DEF released
<1>5. /\ prepaid \in Ledger
      /\ prepaid.reserve = released.reserve /\ prepaid.surplus = a.surplus - c
      /\ prepaid.threshold = a.threshold
  BY <1>1, <1>2, <1>4 DEF Ledger
<1> HIDE DEF prepaid
<1>6. /\ charged \in Ledger
      /\ charged.reserve = released.reserve /\ charged.surplus = a.surplus - c
      /\ charged.threshold = a.threshold /\ charged.balance = a.balance + (amount - c)
  BY <1>1, <1>2, <1>5 DEF Ledger
<1> HIDE DEF charged
<1>7. Settled(charged)
  BY <1>1, <1>2, <1>6 DEF Settled
<1>8. c = 0 => AdmitsNoMore(charged, a)
  BY <1>1, <1>4, <1>6 DEF AdmitsNoMore, Committed
<1> QED
  BY <1>3, <1>6, <1>7, <1>8 DEF c

\* A refreshment of an account without debt only grows its surplus.
LEMMA RefreshAccount ==
    ASSUME NEW a \in Ledger, Settled(a),
           NEW amount \in 1..(a.balance + MaxSurplus - a.surplus)
    PROVE  LET b == apply_refreshment(a, amount)
           IN  b \in Ledger /\ Settled(b) /\ (a.balance = 0 => AdmitsNoMore(b, a))
<1> DEFINE prepaid == [a EXCEPT !.surplus = a.surplus + (amount - a.balance)]
           cleared == [prepaid EXCEPT !.balance = 0]
<1>1. /\ a.balance \in Nat /\ a.reserve \in Nat /\ a.threshold \in Nat
      /\ a.surplus \in Nat /\ a.surplus <= MaxSurplus /\ MaxSurplus \in Nat
  BY Fields
<1>2. amount \in Nat /\ amount >= 1 /\ amount <= a.balance + MaxSurplus - a.surplus
  BY <1>1
<1>3. CASE amount >= a.balance
  <2>1. /\ prepaid \in Ledger /\ prepaid.reserve = a.reserve
        /\ prepaid.threshold = a.threshold
    BY <1>1, <1>2, <1>3 DEF Ledger
  <2>2. apply_refreshment(a, amount) = cleared
    BY <1>3 DEF apply_refreshment
  <2> HIDE DEF prepaid
  <2>3. /\ cleared \in Ledger /\ cleared.reserve = a.reserve
        /\ cleared.threshold = a.threshold /\ cleared.balance = 0
    BY <2>1 DEF Ledger
  <2> HIDE DEF cleared
  <2> QED
    BY <1>1, <2>2, <2>3 DEF Settled, AdmitsNoMore, Committed
<1>4. CASE ~(amount >= a.balance)
  <2>1. apply_refreshment(a, amount) = [a EXCEPT !.balance = a.balance - amount]
    BY <1>4 DEF apply_refreshment
  <2> QED
    BY <1>1, <1>2, <1>4, <2>1 DEF Ledger, Settled
<1> QED
  BY <1>3, <1>4

-----------------------------------------------------------------------------
(* Requests *)

IInv == TypeOK /\ NoLostCredit

LEMMA Amounts == ASSUME NEW r \in Request PROVE PriceOf[r] \in Nat \ {0}
BY CreditWaitAssumption

LEMMA States == \A p \in Peer : p \notin {"idle", "selecting", "listening"}
BY CreditWaitAssumption

\* One account takes the value b.
LEMMA AccountTyped ==
    ASSUME TypeOK, NEW p \in Peer, NEW b \in Ledger, Settled(b),
           account' = [account EXCEPT ![p] = b]
    PROVE  /\ account' \in [Peer -> Ledger]
           /\ \A q \in Peer : Settled(account'[q])
BY DEF TypeOK, Settled

\* When no account admits more and no peer becomes selectable, no request
\* finds credit it did not have.
LEMMA NoNewCredit ==
    ASSUME TypeOK, account' \in [Peer -> Ledger], selectable' \subseteq selectable,
           \A p \in Peer : AdmitsNoMore(account'[p], account[p]),
           NEW r \in Request
    PROVE  Affordable(r)' \subseteq Affordable(r)
<1> SUFFICES ASSUME NEW p \in selectable', CanReserve(account'[p], PriceOf[r])
             PROVE  p \in selectable /\ CanReserve(account[p], PriceOf[r])
  BY DEF Affordable
<1>1. p \in selectable /\ p \in Peer
  BY DEF TypeOK
<1>2. account[p] \in Ledger /\ account'[p] \in Ledger /\ AdmitsNoMore(account'[p], account[p])
  BY <1>1 DEF TypeOK
<1>3. PriceOf[r] \in Nat
  BY Amounts
<1>4. CanReserve(account[p], PriceOf[r])
  BY <1>2, <1>3, RefusalStays
<1> QED
  BY <1>1, <1>4

LEMMA OneAdmitsNoMore ==
    ASSUME TypeOK, NEW p \in Peer, NEW b \in Ledger, AdmitsNoMore(b, account[p]),
           account' = [account EXCEPT ![p] = b]
    PROVE  \A q \in Peer : AdmitsNoMore(account'[q], account[q])
<1> TAKE q \in Peer
<1>1. account[q].balance \in Nat /\ account[q].reserve \in Nat /\ account[q].threshold \in Nat
  BY Fields DEF TypeOK
<1>2. AdmitsNoMore(account[q], account[q])
  BY <1>1 DEF AdmitsNoMore, Committed
<1> QED
  BY <1>2 DEF TypeOK

\* A change that raises nothing keeps NoLostCredit, if it neither puts a
\* request to sleep beside credit nor forgets a notification.
LEMMA NothingRaised ==
    ASSUME NoLostCredit,
           \A r \in Listening' : /\ Affordable(r)' /= {} => r \in Listening
                                 /\ r \in notified => r \in notified',
           \A r \in Request : Affordable(r)' \subseteq Affordable(r),
           PENDING => PENDING'
    PROVE  NoLostCredit'
<1> SUFFICES ASSUME NEW r \in Listening', Affordable(r)' /= {}
             PROVE  r \in notified' \/ PENDING'
  BY DEF NoLostCredit
<1>1. r \in Listening /\ r \in Request
  BY DEF Listening
<1>2. Affordable(r) /= {}
  BY <1>1
<1> QED
  BY <1>1, <1>2 DEF NoLostCredit

\* A change that may raise an account starts the timer for whoever listens.
LEMMA Announced ==
    ASSUME notify_credit_available(TRUE), Listening' \subseteq Listening
    PROVE  NoLostCredit'
BY DEF NoLostCredit, notify_credit_available

-----------------------------------------------------------------------------
(* Steps *)

LEMMA SelectStep ==
    ASSUME IInv, NEW r \in Request, Select(r)
    PROVE  IInv'
<1>1. TypeOK /\ NoLostCredit
  BY DEF IInv
<1>2. CASE \E p \in Affordable(r) :
              /\ account' = [account EXCEPT ![p] = reserve(@, PriceOf[r])]
              /\ request' = [request EXCEPT ![r] = p]
  <2>1. PICK p \in Affordable(r) :
              /\ account' = [account EXCEPT ![p] = reserve(@, PriceOf[r])]
              /\ request' = [request EXCEPT ![r] = p]
    BY <1>2
  <2>2. p \in Peer
    BY <1>1 DEF Affordable, TypeOK
  <2> DEFINE b == reserve(account[p], PriceOf[r])
  <2>3. b \in Ledger /\ Settled(b) /\ AdmitsNoMore(b, account[p])
    BY <1>1, <2>2, Amounts, ReserveAccount DEF TypeOK, Settled
  <2>4. account' = [account EXCEPT ![p] = b]
    BY <2>1
  <2> HIDE DEF b
  <2>5. account' \in [Peer -> Ledger] /\ \A q \in Peer : Settled(account'[q])
    BY <1>1, <2>2, <2>3, <2>4, AccountTyped
  <2>6. \A q \in Peer : AdmitsNoMore(account'[q], account[q])
    BY <1>1, <2>2, <2>3, <2>4, OneAdmitsNoMore
  <2>7. /\ selectable' = selectable /\ notified' = notified /\ PENDING' = PENDING
        /\ request[r] = "selecting"
    BY DEF Select
  <2>8. Listening' = Listening
    BY <1>1, <2>1, <2>2, <2>7, States DEF Listening, TypeOK
  <2>9. TypeOK'
    BY <1>1, <2>1, <2>2, <2>5, <2>7, <2>8 DEF TypeOK, Settled
  <2>10. \A x \in Request : Affordable(x)' \subseteq Affordable(x)
    BY <1>1, <2>5, <2>6, <2>7, NoNewCredit
  <2>11. NoLostCredit'
    BY <1>1, <2>7, <2>8, <2>10, NothingRaised
  <2> QED
    BY <2>9, <2>11 DEF IInv
<1>3. CASE /\ Affordable(r) = {}
           /\ request' = [request EXCEPT ![r] = "listening"]
           /\ UNCHANGED account
  <2>1. UNCHANGED <<account, selectable, notified, PENDING>>
    BY <1>3 DEF Select
  <2>2. Listening' = Listening \cup {r}
    BY <1>1, <1>3 DEF Listening, TypeOK
  <2>3. TypeOK'
    BY <1>1, <1>3, <2>1, <2>2 DEF TypeOK
  <2>4. \A x \in Request : Affordable(x)' = Affordable(x)
    BY <2>1 DEF Affordable
  <2>5. NoLostCredit'
    <3> SUFFICES ASSUME NEW x \in Listening', Affordable(x)' /= {}
                 PROVE  x \in notified' \/ PENDING'
      BY DEF NoLostCredit
    <3>1. x \in Request /\ x \in Listening \cup {r}
      BY <2>2 DEF Listening
    <3>2. Affordable(x) /= {}
      BY <2>4, <3>1
    <3> QED
      BY <1>1, <1>3, <2>1, <3>1, <3>2 DEF NoLostCredit
  <2> QED
    BY <2>3, <2>5 DEF IInv
<1> QED
  BY <1>2, <1>3 DEF Select

LEMMA DeliverStep ==
    ASSUME IInv, NEW r \in Request, Deliver(r)
    PROVE  IInv'
<1>1. TypeOK /\ NoLostCredit
  BY DEF IInv
<1>2. PICK p \in Peer : p = request[r]
  BY DEF Deliver
<1> DEFINE b == apply_credit(account[p], PriceOf[r])
           paid == AtMost(account[p].surplus, PriceOf[r])
<1>3. /\ b \in Ledger /\ Settled(b)
      /\ paid = 0 => AdmitsNoMore(b, account[p])
  BY <1>1, <1>2, Amounts, DeliverAccount DEF TypeOK, Settled
<1>4. paid \in Nat
  BY <1>1, <1>2, Amounts, Fields DEF TypeOK, AtMost
<1>5. /\ account' = [account EXCEPT ![p] = b]
      /\ notify_credit_available(paid > 0)
      /\ request' = [request EXCEPT ![r] = "idle"]
      /\ UNCHANGED <<selectable, notified>>
  BY <1>2 DEF Deliver
<1> HIDE DEF b, paid
<1>6. account' \in [Peer -> Ledger] /\ \A q \in Peer : Settled(account'[q])
  BY <1>1, <1>3, <1>5, AccountTyped
<1>7. Listening' = Listening
  BY <1>1, <1>2, <1>5, States DEF Listening, TypeOK
<1>8. PENDING' \in BOOLEAN /\ (PENDING => PENDING')
  BY <1>1, <1>5 DEF TypeOK, notify_credit_available
<1>9. TypeOK'
  BY <1>1, <1>5, <1>6, <1>7, <1>8 DEF TypeOK, Settled
<1>10. CASE paid = 0
  <2>1. \A q \in Peer : AdmitsNoMore(account'[q], account[q])
    BY <1>1, <1>3, <1>5, <1>10, OneAdmitsNoMore
  <2>2. \A x \in Request : Affordable(x)' \subseteq Affordable(x)
    BY <1>1, <1>5, <1>6, <2>1, NoNewCredit
  <2> QED
    BY <1>1, <1>5, <1>7, <1>8, <1>9, <2>2, NothingRaised DEF IInv
<1>11. CASE paid /= 0
  <2>1. notify_credit_available(TRUE)
    BY <1>4, <1>5, <1>11 DEF notify_credit_available
  <2> QED
    BY <1>7, <1>9, <2>1, Announced DEF IInv
<1> QED
  BY <1>10, <1>11

LEMMA FailStep ==
    ASSUME IInv, NEW r \in Request, Fail(r)
    PROVE  IInv'
<1>1. TypeOK /\ NoLostCredit
  BY DEF IInv
<1>2. PICK p \in Peer : p = request[r]
  BY DEF Fail
<1> DEFINE b == cancel_reserve(account[p], PriceOf[r])
<1>3. /\ b \in Ledger /\ Settled(b)
      /\ account[p].reserve = 0 => AdmitsNoMore(b, account[p])
  BY <1>1, <1>2, Amounts, CancelAccount DEF TypeOK, Settled
<1>4. account[p].reserve \in Nat
  BY <1>1, <1>2, Fields DEF TypeOK
<1>5. /\ account' = [account EXCEPT ![p] = b]
      /\ notify_credit_available(account[p].reserve > 0)
      /\ request' = [request EXCEPT ![r] = "idle"]
      /\ UNCHANGED <<selectable, notified>>
  BY <1>2 DEF Fail
<1> HIDE DEF b
<1>6. account' \in [Peer -> Ledger] /\ \A q \in Peer : Settled(account'[q])
  BY <1>1, <1>3, <1>5, AccountTyped
<1>7. Listening' = Listening
  BY <1>1, <1>2, <1>5, States DEF Listening, TypeOK
<1>8. PENDING' \in BOOLEAN /\ (PENDING => PENDING')
  BY <1>1, <1>5 DEF TypeOK, notify_credit_available
<1>9. TypeOK'
  BY <1>1, <1>5, <1>6, <1>7, <1>8 DEF TypeOK, Settled
<1>10. CASE account[p].reserve = 0
  <2>1. \A q \in Peer : AdmitsNoMore(account'[q], account[q])
    BY <1>1, <1>3, <1>5, <1>10, OneAdmitsNoMore
  <2>2. \A x \in Request : Affordable(x)' \subseteq Affordable(x)
    BY <1>1, <1>5, <1>6, <2>1, NoNewCredit
  <2> QED
    BY <1>1, <1>5, <1>7, <1>8, <1>9, <2>2, NothingRaised DEF IInv
<1>11. CASE account[p].reserve /= 0
  <2>1. notify_credit_available(TRUE)
    BY <1>4, <1>5, <1>11 DEF notify_credit_available
  <2> QED
    BY <1>7, <1>9, <2>1, Announced DEF IInv
<1> QED
  BY <1>10, <1>11

LEMMA RefreshStep ==
    ASSUME IInv, NEW p \in Peer, Refresh(p)
    PROVE  IInv'
<1>1. TypeOK /\ NoLostCredit
  BY DEF IInv
<1>2. PICK amount \in 1..(account[p].balance + MaxSurplus - account[p].surplus) :
          account' = [account EXCEPT ![p] = apply_refreshment(@, amount)]
  BY DEF Refresh
<1> DEFINE b == apply_refreshment(account[p], amount)
<1>3. account[p] \in Ledger /\ Settled(account[p])
  BY <1>1 DEF TypeOK, Settled
<1>4. /\ b \in Ledger /\ Settled(b)
      /\ account[p].balance = 0 => AdmitsNoMore(b, account[p])
  BY <1>3, RefreshAccount
<1>5. /\ account' = [account EXCEPT ![p] = b]
      /\ notify_credit_available(account[p].balance > 0)
      /\ UNCHANGED <<selectable, request, notified>>
  BY <1>2 DEF Refresh
<1> HIDE DEF b
<1>6. account' \in [Peer -> Ledger] /\ \A q \in Peer : Settled(account'[q])
  BY <1>1, <1>4, <1>5, AccountTyped
<1>7. Listening' = Listening
  BY <1>5 DEF Listening
<1>8. PENDING' \in BOOLEAN /\ (PENDING => PENDING')
  BY <1>1, <1>5 DEF TypeOK, notify_credit_available
<1>9. TypeOK'
  BY <1>1, <1>5, <1>6, <1>7, <1>8 DEF TypeOK, Settled
<1>10. CASE account[p].balance = 0
  <2>1. \A q \in Peer : AdmitsNoMore(account'[q], account[q])
    BY <1>1, <1>4, <1>5, <1>10, OneAdmitsNoMore
  <2>2. \A x \in Request : Affordable(x)' \subseteq Affordable(x)
    BY <1>1, <1>5, <1>6, <2>1, NoNewCredit
  <2> QED
    BY <1>1, <1>5, <1>7, <1>8, <1>9, <2>2, NothingRaised DEF IInv
<1>11. CASE account[p].balance /= 0
  <2>1. account[p].balance > 0
    BY <1>3, <1>11, Fields
  <2>2. notify_credit_available(TRUE)
    BY <1>5, <2>1 DEF notify_credit_available
  <2> QED
    BY <1>7, <1>9, <2>2, Announced DEF IInv
<1> QED
  BY <1>10, <1>11

LEMMA ForgiveStep ==
    ASSUME IInv, NEW p \in Peer, ForgiveDebt(p)
    PROVE  IInv'
<1>1. TypeOK
  BY DEF IInv
<1> DEFINE b == [account[p] EXCEPT !.balance = 0]
<1>2. b \in Ledger /\ Settled(b)
  BY <1>1 DEF TypeOK, Ledger, Settled
<1>3. account' = [account EXCEPT ![p] = b]
  BY DEF ForgiveDebt
<1> HIDE DEF b
<1>4. account' \in [Peer -> Ledger] /\ \A q \in Peer : Settled(account'[q])
  BY <1>1, <1>2, <1>3, AccountTyped
<1>5. Listening' = Listening /\ PENDING' \in BOOLEAN
  BY <1>1 DEF ForgiveDebt, Listening, TypeOK, notify_credit_available
<1>6. TypeOK'
  BY <1>1, <1>4, <1>5 DEF ForgiveDebt, TypeOK, Settled
<1> QED
  BY <1>5, <1>6, Announced DEF IInv, ForgiveDebt

LEMMA ThresholdStep ==
    ASSUME IInv, NEW p \in Peer, set_payment_threshold(p)
    PROVE  IInv'
<1>1. TypeOK /\ NoLostCredit
  BY DEF IInv
<1>2. PICK amount \in Thresholds :
          /\ account' = [account EXCEPT ![p].threshold = amount]
          /\ notify_credit_available(Raises(p, amount))
  BY DEF set_payment_threshold
<1> DEFINE b == [account[p] EXCEPT !.threshold = amount]
<1>3. account[p] \in Ledger /\ Settled(account[p]) /\ amount \in Nat
  BY <1>1, CreditWaitAssumption DEF TypeOK, Settled
<1>4. b \in Ledger /\ Settled(b) /\ Committed(b) = Committed(account[p])
      /\ b.threshold = amount
  BY <1>3 DEF Ledger, Settled, Committed
<1>5. account' = [account EXCEPT ![p] = b] /\ UNCHANGED <<selectable, request, notified>>
  BY <1>2 DEF set_payment_threshold
<1> HIDE DEF b
<1>6. account' \in [Peer -> Ledger] /\ \A q \in Peer : Settled(account'[q])
  BY <1>1, <1>4, <1>5, AccountTyped
<1>7. Listening' = Listening
  BY <1>5 DEF Listening
<1>8. PENDING' \in BOOLEAN /\ (PENDING => PENDING')
  BY <1>1, <1>2 DEF TypeOK, notify_credit_available
<1>9. TypeOK'
  BY <1>1, <1>5, <1>6, <1>7, <1>8 DEF TypeOK, Settled
<1>10. CASE ~Raises(p, amount)
  <2>1. account[p].balance \in Nat /\ account[p].reserve \in Nat /\ account[p].threshold \in Nat
    BY <1>3, Fields
  <2>2. AdmitsNoMore(b, account[p])
    BY <1>3, <1>4, <1>10, <2>1 DEF AdmitsNoMore, Raises, Committed
  <2>3. \A q \in Peer : AdmitsNoMore(account'[q], account[q])
    BY <1>1, <1>4, <1>5, <2>2, OneAdmitsNoMore
  <2>4. \A x \in Request : Affordable(x)' \subseteq Affordable(x)
    BY <1>1, <1>5, <1>6, <2>3, NoNewCredit
  <2> QED
    BY <1>1, <1>5, <1>7, <1>8, <1>9, <2>4, NothingRaised DEF IInv
<1>11. CASE Raises(p, amount)
  <2>1. notify_credit_available(TRUE)
    BY <1>2, <1>11 DEF notify_credit_available
  <2> QED
    BY <1>7, <1>9, <2>1, Announced DEF IInv
<1> QED
  BY <1>10, <1>11

\* Steps that leave every account alone.
LEMMA OtherSteps ==
    ASSUME IInv,
           \/ \E r \in Request : Begin(r) \/ WakeUp(r)
           \/ \E p \in Peer : promote_priced_peer(p) \/ Retire(p)
           \/ NotificationTimer
    PROVE  IInv'
<1>1. TypeOK /\ NoLostCredit
  BY DEF IInv
<1>2. ASSUME NEW r \in Request, Begin(r) PROVE IInv'
  <2>1. Listening' = Listening
    BY <1>1, <1>2 DEF Begin, Listening, TypeOK
  <2>2. TypeOK'
    BY <1>1, <1>2, <2>1 DEF Begin, TypeOK
  <2>3. \A x \in Request : Affordable(x)' = Affordable(x)
    BY <1>2 DEF Begin, Affordable
  <2> QED
    BY <1>1, <1>2, <2>1, <2>2, <2>3, NothingRaised DEF Begin, IInv
<1>3. ASSUME NEW r \in Request, WakeUp(r) PROVE IInv'
  <2>1. Listening' = Listening \ {r}
    BY <1>1, <1>3 DEF WakeUp, Listening, TypeOK
  <2>2. TypeOK'
    BY <1>1, <1>3, <2>1 DEF WakeUp, TypeOK
  <2>3. \A x \in Request : Affordable(x)' = Affordable(x)
    BY <1>3 DEF WakeUp, Affordable
  <2>4. \A x \in Listening' : x \in notified => x \in notified'
    BY <1>3, <2>1 DEF WakeUp
  <2> QED
    BY <1>1, <1>3, <2>1, <2>2, <2>3, <2>4, NothingRaised DEF WakeUp, IInv
<1>4. ASSUME NEW p \in Peer, promote_priced_peer(p) PROVE IInv'
  <2>1. Listening' = Listening /\ PENDING' \in BOOLEAN
    BY <1>1, <1>4 DEF promote_priced_peer, Listening, TypeOK, notify_credit_available
  <2>2. TypeOK'
    BY <1>1, <1>4, <2>1 DEF promote_priced_peer, TypeOK
  <2> QED
    BY <1>4, <2>1, <2>2, Announced DEF promote_priced_peer, IInv
<1>5. ASSUME NEW p \in Peer, Retire(p) PROVE IInv'
  <2>1. Listening' = Listening
    BY <1>5 DEF Retire, Listening
  <2>2. TypeOK'
    BY <1>1, <1>5, <2>1 DEF Retire, TypeOK
  <2>3. \A x \in Request : Affordable(x)' \subseteq Affordable(x)
    BY <1>5 DEF Retire, Affordable
  <2> QED
    BY <1>1, <1>5, <2>1, <2>2, <2>3, NothingRaised DEF Retire, IInv
<1>6. ASSUME NotificationTimer PROVE IInv'
  <2>1. Listening' = Listening
    BY <1>6 DEF NotificationTimer, Listening
  <2>2. TypeOK'
    BY <1>1, <1>6, <2>1 DEF NotificationTimer, TypeOK
  <2>3. NoLostCredit'
    BY <1>6, <2>1 DEF NotificationTimer, NoLostCredit
  <2> QED
    BY <2>2, <2>3 DEF IInv
<1> QED
  BY <1>2, <1>3, <1>4, <1>5, <1>6

-----------------------------------------------------------------------------
(* Theorems *)

LEMMA Initially == Init => IInv
<1> SUFFICES ASSUME Init PROVE IInv
  OBVIOUS
<1>1. Listening = {}
  BY DEF Init, Listening
<1>2. account \in [Peer -> Ledger] /\ \A p \in Peer : account[p].surplus = 0
  <2>1. \A t \in Thresholds :
           [balance |-> 0, surplus |-> 0, threshold |-> t, reserve |-> 0] \in Ledger
    BY CreditWaitAssumption DEF Ledger
  <2> QED
    BY <2>1 DEF Init
<1>3. TypeOK
  BY <1>1, <1>2 DEF Init, TypeOK
<1> QED
  BY <1>1, <1>3 DEF IInv, NoLostCredit

LEMMA Inductive == Spec => []IInv
<1>1. IInv /\ [Next]_vars => IInv'
  <2> SUFFICES ASSUME IInv, [Next]_vars PROVE IInv'
    OBVIOUS
  <2>1. CASE UNCHANGED vars
    BY <2>1 DEF vars, IInv, TypeOK, NoLostCredit, Listening, Affordable
  <2>2. CASE Next
    BY <2>2, SelectStep, DeliverStep, FailStep, RefreshStep, ForgiveStep, ThresholdStep,
       OtherSteps DEF Next
  <2> QED
    BY <2>1, <2>2
<1> QED
  BY Initially, <1>1, PTL DEF Spec

\* Accounts, requests and the timer keep their types, and no account is in
\* debt and prepaid at once.
THEOREM CreditTypes == Spec => []TypeOK
BY Inductive, PTL DEF IInv

\* Whatever the peers announce, settle or lose, a request that an account
\* could admit is notified or about to be: no path that raises an account
\* misses notify_credit_available.
THEOREM CreditIsNotLost == Spec => []NoLostCredit
BY Inductive, PTL DEF IInv
=============================================================================
