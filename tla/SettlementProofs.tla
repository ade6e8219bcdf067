-------------------------- MODULE SettlementProofs --------------------------
(***************************************************************************)
(* Proofs about Settlement, for every set of accounts, connections,        *)
(* requests, tasks and amounts: its types, and that a peer's credit is     *)
(* accounted exactly: the reserve is what the requests in flight hold,     *)
(* debt and reserve stay within the announced threshold, and debt and      *)
(* surplus exclude each other; then that the sessions of a peer stay       *)
(* apart and that a debt that is due is looked after.                      *)
(***************************************************************************)
EXTENDS Settlement, FiniteSetTheorems, TLAPS

-----------------------------------------------------------------------------
(* The account arithmetic.                                                 *)

(* What a peer charges for a chunk, at whatever proximity, is positive and *)
(* at most MaxChunkPrice: Prices may be any set of such amounts            *)
(* (accounting::price, whose PO_PRICE is at most MAX_CHUNK_PRICE).         *)
THEOREM PriceInRange ==
    ASSUME NEW proximity \in Nat
    PROVE  price(proximity) \in 1..MaxChunkPrice
  <1>1. /\ PoPrice \in 1..MaxChunkPrice
        /\ MaxChunkPrice \in Nat
    BY AccountingAssumption
  <1> DEFINE discount == proximity * PoPrice
  <1>2. discount \in Nat
    BY <1>1
  <1> HIDE DEF discount
  <1>3. /\ saturating_sub(MaxChunkPrice, discount) \in Nat
        /\ saturating_sub(MaxChunkPrice, discount) <= MaxChunkPrice
    BY <1>1, <1>2 DEF saturating_sub
  <1>4. price(proximity) = AtLeast(saturating_sub(MaxChunkPrice, discount), PoPrice)
    BY DEF price, discount
  <1>5. QED
    BY <1>1, <1>3, <1>4 DEF AtLeast

LEMMA ReserveFacts ==
    ASSUME NEW acc \in Accounts, NEW p \in Nat
    PROVE  /\ reserve(acc, p) \in Accounts
           /\ reserve(acc, p).reserve = acc.reserve + p
           /\ reserve(acc, p).balance = acc.balance
           /\ reserve(acc, p).surplus = acc.surplus
           /\ reserve(acc, p).threshold = acc.threshold
           /\ reserve(acc, p).scheduled = acc.scheduled
           /\ reserve(acc, p).refreshed = acc.refreshed
           /\ reserve(acc, p).connection = acc.connection
  BY DEF Accounts, AccountType, reserve

LEMMA CancelFacts ==
    ASSUME NEW acc \in Accounts, NEW p \in Nat
    PROVE  /\ cancel_reserve(acc, p) \in Accounts
           /\ p <= acc.reserve => cancel_reserve(acc, p).reserve = acc.reserve - p
           /\ cancel_reserve(acc, p).balance = acc.balance
           /\ cancel_reserve(acc, p).surplus = acc.surplus
           /\ cancel_reserve(acc, p).threshold = acc.threshold
           /\ cancel_reserve(acc, p).scheduled = acc.scheduled
           /\ cancel_reserve(acc, p).refreshed = acc.refreshed
           /\ cancel_reserve(acc, p).connection = acc.connection
  BY DEF Accounts, AccountType, cancel_reserve, saturating_sub

LEMMA CreditFacts ==
    ASSUME NEW acc \in Accounts, NEW p \in Nat
    PROVE  /\ apply_credit(acc, p) \in Accounts
           /\ p <= acc.reserve => apply_credit(acc, p).reserve = acc.reserve - p
           /\ apply_credit(acc, p).balance <= acc.balance + p
           /\ (acc.surplus > 0 => acc.balance = 0)
                => (apply_credit(acc, p).surplus > 0 => apply_credit(acc, p).balance = 0)
           /\ apply_credit(acc, p).threshold = acc.threshold
           /\ apply_credit(acc, p).scheduled = acc.scheduled
           /\ apply_credit(acc, p).connection = acc.connection
  <1> DEFINE compensated == AtMost(acc.surplus, p)
             released == [acc EXCEPT !.reserve = saturating_sub(acc.reserve, p)]
             prepaid  == [released EXCEPT !.surplus = acc.surplus - compensated]
             charged  == [prepaid EXCEPT !.balance = acc.balance + (p - compensated)]
  <1>1. /\ compensated \in Nat /\ compensated <= acc.surplus /\ compensated <= p
        /\ compensated < p => compensated = acc.surplus
    BY DEF Accounts, AccountType, AtMost
  <1>2. apply_credit(acc, p) = charged
    BY DEF apply_credit
  <1> HIDE DEF compensated
  <1>3. /\ released \in Accounts
        /\ p <= acc.reserve => released.reserve = acc.reserve - p
        /\ released.balance = acc.balance /\ released.surplus = acc.surplus
        /\ released.scheduled = acc.scheduled /\ released.connection = acc.connection
        /\ released.threshold = acc.threshold
    BY DEF Accounts, AccountType, saturating_sub
  <1> HIDE DEF released
  <1>4. /\ prepaid \in Accounts
        /\ prepaid.reserve = released.reserve /\ prepaid.balance = acc.balance
        /\ prepaid.surplus = acc.surplus - compensated
        /\ prepaid.scheduled = acc.scheduled /\ prepaid.connection = acc.connection
        /\ prepaid.threshold = acc.threshold
    BY <1>1, <1>3 DEF Accounts, AccountType
  <1> HIDE DEF prepaid
  <1>5. /\ charged \in Accounts
        /\ charged.reserve = released.reserve
        /\ charged.balance = acc.balance + (p - compensated)
        /\ charged.surplus = acc.surplus - compensated
        /\ charged.scheduled = acc.scheduled /\ charged.connection = acc.connection
        /\ charged.threshold = acc.threshold
    BY <1>1, <1>4 DEF Accounts, AccountType
  <1> HIDE DEF charged
  <1> QED  BY <1>1, <1>2, <1>3, <1>5 DEF Accounts, AccountType

LEMMA RefreshmentFacts ==
    ASSUME NEW acc \in Accounts, NEW n \in Nat
    PROVE  /\ apply_refreshment(acc, n) \in Accounts
           /\ apply_refreshment(acc, n).reserve = acc.reserve
           /\ apply_refreshment(acc, n).threshold = acc.threshold
           /\ apply_refreshment(acc, n).balance <= acc.balance
           /\ (acc.surplus > 0 => acc.balance = 0)
                => (apply_refreshment(acc, n).surplus > 0
                       => apply_refreshment(acc, n).balance = 0)
           /\ apply_refreshment(acc, n).scheduled = acc.scheduled
           /\ apply_refreshment(acc, n).refreshed = acc.refreshed
           /\ apply_refreshment(acc, n).connection = acc.connection
  <1> DEFINE prepaid == [acc EXCEPT !.surplus = acc.surplus + (n - acc.balance)]
             cleared == [prepaid EXCEPT !.balance = 0]
  <1>1. CASE n >= acc.balance
    <2>1. prepaid \in Accounts
      BY <1>1 DEF Accounts, AccountType
    <2>2. apply_refreshment(acc, n) = cleared
      BY <1>1 DEF apply_refreshment
    <2>3. /\ prepaid.reserve = acc.reserve /\ prepaid.threshold = acc.threshold
          /\ prepaid.scheduled = acc.scheduled /\ prepaid.connection = acc.connection
          /\ prepaid.refreshed = acc.refreshed
      BY <1>1 DEF Accounts, AccountType
    <2> HIDE DEF prepaid
    <2> QED  BY <2>1, <2>2, <2>3 DEF Accounts, AccountType
  <1>2. CASE ~(n >= acc.balance)
    BY <1>2 DEF Accounts, AccountType, apply_refreshment
  <1> QED  BY <1>1, <1>2

-----------------------------------------------------------------------------
(* Tasks.                                                                  *)

(* A slot is idle, or its task names an account and a connection.          *)
TaskShape ==
    \A t \in Task : \/ task[t] = IdleTask
                    \/ /\ task[t].step # "idle"
                       /\ task[t].account \in Account
                       /\ task[t].connection \in Connection

TypeInv == TypeOK /\ TaskShape

LEMMA TaskAtFacts ==
    ASSUME NEW step \in TaskSteps, NEW a \in Account \cup {None},
           NEW c \in Connection \cup {None}
    PROVE  /\ TaskAt(step, a, c) \in Tasks
           /\ TaskAt(step, a, c).step = step
           /\ TaskAt(step, a, c).account = a
           /\ TaskAt(step, a, c).connection = c
  BY DEF TaskAt, Tasks, Snapshots, Claims, NoSnapshot, NoClaim

LEMMA NotifiedFacts ==
    ASSUME NEW tasks \in [Task -> Tasks], NEW drained
    PROVE  /\ Notified(tasks, drained) \in [Task -> Tasks]
           /\ \A t \in Task :
                 /\ Notified(tasks, drained)[t].account = tasks[t].account
                 /\ Notified(tasks, drained)[t].connection = tasks[t].connection
                 /\ tasks[t].step \notin {"parked"} => Notified(tasks, drained)[t] = tasks[t]
                 /\ tasks[t].step = "parked" =>
                       Notified(tasks, drained)[t].step \in {"parked", "drain"}
  BY DEF Notified, Tasks, TaskSteps

-----------------------------------------------------------------------------
(* Type correctness.                                                       *)

LEMMA PricesNat == Prices \subseteq Nat
  BY SettlementAssumption, AccountingAssumption

LEMMA InitType == Init => TypeInv
  <1> SUFFICES ASSUME Init PROVE TypeInv
    OBVIOUS
  <1>1. NewAccount(None) \in Accounts
    BY DEF NewAccount, Accounts, AccountType
  <1>2. IdleTask \in Tasks
    BY TaskAtFacts DEF IdleTask, TaskSteps
  <1>3. NoClaim \in Claims /\ UnusedCheque \in Cheques
    BY DEF NoClaim, Claims, UnusedCheque, Cheques, ChequePhases
  <1> QED
    BY <1>1, <1>2, <1>3 DEF Init, TypeInv, TypeOK, TaskShape, LinkStates

(* What the account and task operators need to keep their types.           *)
LEMMA ScheduleType ==
    ASSUME TypeInv, NEW a \in Account, NEW updated \in Accounts, NEW drained,
           ScheduleRefresh(a, updated, drained)
    PROVE  /\ account' \in [Account -> Accounts]
           /\ task' \in [Task -> Tasks]
           /\ TaskShape'
  <1> DEFINE woken == Notified(task, drained)
  <1>1. /\ woken \in [Task -> Tasks]
        /\ \A t \in Task : \/ woken[t] = IdleTask
                           \/ /\ woken[t].step # "idle"
                              /\ woken[t].account \in Account
                              /\ woken[t].connection \in Connection
    <2>1. task \in [Task -> Tasks] /\ IdleTask.step = "idle"
      BY DEF TypeInv, TypeOK, IdleTask, TaskAt
    <2>2. /\ woken \in [Task -> Tasks]
          /\ \A t \in Task :
                /\ woken[t].account = task[t].account
                /\ woken[t].connection = task[t].connection
                /\ task[t].step \notin {"parked"} => woken[t] = task[t]
                /\ task[t].step = "parked" => woken[t].step \in {"parked", "drain"}
      BY <2>1, NotifiedFacts
    <2> HIDE DEF woken
    <2>3. ASSUME NEW t \in Task
          PROVE  \/ woken[t] = IdleTask
                 \/ /\ woken[t].step # "idle"
                    /\ woken[t].account \in Account
                    /\ woken[t].connection \in Connection
      <3>1. CASE task[t] = IdleTask
        BY <2>1, <2>2, <3>1
      <3>2. CASE task[t] # IdleTask
        BY <2>2, <3>2 DEF TypeInv, TaskShape
      <3> QED  BY <3>1, <3>2
    <2> QED  BY <2>2, <2>3
  <1>2. CASE due(updated) /\ ~updated.scheduled /\ updated.connection # None
    <2>1. [updated EXCEPT !.scheduled = TRUE] \in Accounts
      BY DEF Accounts, AccountType
    <2>2. PICK t \in Task :
              /\ task' = [woken EXCEPT ![t] = TaskAt("refresh", a, updated.connection)]
              /\ account' = [account EXCEPT ![a] = [updated EXCEPT !.scheduled = TRUE]]
      BY <1>2 DEF ScheduleRefresh
    <2>3. updated.connection \in Connection
      BY <1>2 DEF Accounts, AccountType
    <2>4. /\ TaskAt("refresh", a, updated.connection) \in Tasks
          /\ TaskAt("refresh", a, updated.connection).step = "refresh"
          /\ TaskAt("refresh", a, updated.connection).account = a
          /\ TaskAt("refresh", a, updated.connection).connection = updated.connection
      BY <2>3, TaskAtFacts DEF TaskSteps
    <2> HIDE DEF woken
    <2> QED  BY <1>1, <2>1, <2>2, <2>3, <2>4 DEF TypeInv, TypeOK, TaskShape
  <1>3. CASE ~(due(updated) /\ ~updated.scheduled /\ updated.connection # None)
    <2>1. task' = woken /\ account' = [account EXCEPT ![a] = updated]
      BY <1>3 DEF ScheduleRefresh
    <2> HIDE DEF woken
    <2> QED  BY <1>1, <2>1 DEF TypeInv, TypeOK, TaskShape
  <1> QED  BY <1>2, <1>3

LEMMA NotifiedType ==
    ASSUME TypeInv, NEW drained
    PROVE  /\ Notified(task, drained) \in [Task -> Tasks]
           /\ task' = Notified(task, drained) => task' \in [Task -> Tasks] /\ TaskShape'
  BY NotifiedFacts DEF TypeInv, TypeOK, TaskShape, IdleTask, TaskAt

LEMMA ConnectionType ==
    ASSUME TypeInv,
           \/ \E c \in Connection : ConnectionStep(c)
           \/ HandleClosedCheque
           \/ disconnect_all_peers
    PROVE  TypeInv'
  <1>1. NoClaim \in Claims
    BY DEF NoClaim, Claims
  <1>2. CASE \E c \in Connection : ConnectionStep(c)
    <2>1. PICK c \in Connection : ConnectionStep(c)
      BY <1>2
    <2>2. CASE Dial(c)
      BY <2>2 DEF Dial, TypeInv, TypeOK, TaskShape, LinkStates, history
    <2>3. CASE OpenDuplicate(c)
      BY <2>3 DEF OpenDuplicate, TypeInv, TypeOK, TaskShape, LinkStates, Physical
    <2>4. CASE Adopt(c)
      BY <2>4 DEF Adopt, TypeInv, TypeOK, TaskShape, history
    <2>5. CASE Disconnect(c)
      BY <2>5 DEF Disconnect, TypeInv, TypeOK, TaskShape, LinkStates, history
    <2>6. CASE HandleClosed(c)
      BY <2>6 DEF HandleClosed, TypeInv, TypeOK, TaskShape, LinkStates, history
    <2> QED  BY <2>1, <2>2, <2>3, <2>4, <2>5, <2>6 DEF ConnectionStep
  <1>3. CASE HandleClosedCheque
    BY <1>1, <1>3, NotifiedType
    DEF HandleClosedCheque, TypeInv, TypeOK, history
  <1>4. CASE disconnect_all_peers
    <2>1. CASE reset = "none"
      BY <1>4, <2>1 DEF disconnect_all_peers, TypeInv, TypeOK, TaskShape, LinkStates, history
    <2>2. CASE reset = "accounts"
      BY <1>4, <2>2 DEF disconnect_all_peers, TypeInv, TypeOK, TaskShape, history
    <2>3. CASE reset = "cheques"
      BY <1>1, <1>4, <2>3, NotifiedType DEF disconnect_all_peers, TypeInv, TypeOK, history
    <2> QED  BY <2>1, <2>2, <2>3 DEF TypeInv, TypeOK
  <1> QED  BY <1>2, <1>3, <1>4

LEMMA AccountStepType ==
    ASSUME TypeInv, NEW a \in Account, AccountStep(a)
    PROVE  TypeInv'
  <1>1. CASE PublishPeer(a)
    BY <1>1 DEF PublishPeer, TypeInv, TypeOK, TaskShape, history, Accounts, AccountType
  <1>2. CASE \E amount \in Thresholds : AnnounceThreshold(a, amount)
    <2>1. PICK amount \in Thresholds : AnnounceThreshold(a, amount)
      BY <1>2
    <2>2. amount \in Nat
      BY SettlementAssumption
    <2> DEFINE updated == [account[a] EXCEPT !.threshold = amount]
    <2>3. updated \in Accounts
      BY <2>2 DEF TypeInv, TypeOK, Accounts, AccountType
    <2>4. set_payment_threshold(a, amount)
      BY <2>1 DEF AnnounceThreshold
    <2>5. /\ account' \in [Account -> Accounts]
          /\ task' \in [Task -> Tasks]
          /\ TaskShape'
      <3>1. CASE updated.balance > 0
        <4>1. ScheduleRefresh(a, updated, updated.reserve = 0)
          BY <2>4, <3>1 DEF set_payment_threshold
        <4> HIDE DEF updated
        <4> QED  BY <2>3, <4>1, ScheduleType
      <3>2. CASE ~(updated.balance > 0)
        BY <2>3, <2>4, <3>2 DEF set_payment_threshold, TypeInv, TypeOK, TaskShape
      <3> QED  BY <3>1, <3>2
    <2> QED
      BY <2>1, <2>2, <2>5 DEF AnnounceThreshold, TypeInv, TypeOK, lifecycle, AtLeast
  <1> QED  BY <1>1, <1>2 DEF AccountStep

LEMMA RequestType ==
    ASSUME TypeInv, NEW r \in Request, RequestStep(r)
    PROVE  TypeInv'
  <1>1. CASE \E amount \in Prices : SelectPeer(r, amount)
    <2>1. PICK amount \in Prices : SelectPeer(r, amount)
      BY <1>1
    <2>2. amount \in Nat
      BY PricesNat
    <2>3. current \in Account /\ account[current] \in Accounts
      BY <2>1 DEF SelectPeer, TypeInv, TypeOK
    <2>4. account[current].connection \in Connection
      BY <2>1, <2>3 DEF SelectPeer, Accounts, AccountType
    <2>5. CASE exclusive_physical_connection(account[current].connection)
      <3>1. reserve(account[current], amount) \in Accounts
        BY <2>2, <2>3, ReserveFacts
      <3>2. [account |-> current, connection |-> account[current].connection,
             price |-> amount] \in Requests
        BY <2>3, <2>4 DEF Requests
      <3> QED
        BY <2>1, <2>5, <3>1, <3>2
        DEF SelectPeer, TypeInv, TypeOK, TaskShape, lifecycle, history
    <2>6. CASE ~exclusive_physical_connection(account[current].connection)
      BY <2>1, <2>6, NotifiedType DEF SelectPeer, TypeInv, TypeOK, lifecycle, history
    <2> QED  BY <2>5, <2>6
  <1>2. ASSUME request[r] # NoRequest
        PROVE  /\ request[r] \in Requests
               /\ request[r].account \in Account
               /\ request[r].connection \in Connection
               /\ request[r].price \in Nat
               /\ account[request[r].account] \in Accounts
    BY <1>2, PricesNat DEF TypeInv, TypeOK, Requests
  <1>3. CASE DeliverChunk(r)
    <2> DEFINE a == request[r].account
               credited == apply_credit(account[a], request[r].price)
    <2>1. request[r] # NoRequest
      BY <1>3 DEF DeliverChunk
    <2>2. credited \in Accounts
      BY <1>2, <2>1, CreditFacts
    <2>3. ScheduleRefresh(a, credited, credited.reserve = 0)
      BY <1>3 DEF DeliverChunk
    <2>4. a \in Account
      BY <1>2, <2>1
    <2> HIDE DEF a, credited
    <2>5. /\ account' \in [Account -> Accounts]
          /\ task' \in [Task -> Tasks]
          /\ TaskShape'
      BY <2>2, <2>3, <2>4, ScheduleType
    <2> QED
      BY <1>3, <2>5 DEF DeliverChunk, TypeInv, TypeOK, lifecycle, history
  <1>4. CASE FailRequest(r)
    <2>1. request[r] # NoRequest
      BY <1>4 DEF FailRequest
    <2>2. cancel_reserve(account[request[r].account], request[r].price) \in Accounts
      BY <1>2, <2>1, CancelFacts
    <2> QED
      BY <1>2, <1>4, <2>1, <2>2, NotifiedType
      DEF FailRequest, TypeInv, TypeOK, lifecycle, history
  <1>5. CASE TimeOutRetrieval(r)
    <2> DEFINE a == request[r].account
               cancelled == cancel_reserve(account[a], request[r].price)
               woken == Notified(task, cancelled.reserve = 0)
    <2>1. request[r] # NoRequest
      BY <1>5 DEF TimeOutRetrieval
    <2>2. /\ cancelled \in Accounts
          /\ [cancelled EXCEPT !.scheduled = TRUE] \in Accounts
      <3>1. cancelled \in Accounts
        BY <1>2, <2>1, CancelFacts
      <3> HIDE DEF cancelled
      <3> QED  BY <3>1 DEF Accounts, AccountType
    <2>3. /\ woken \in [Task -> Tasks]
          /\ \A t \in Task : \/ woken[t] = IdleTask
                             \/ /\ woken[t].step # "idle"
                                /\ woken[t].account \in Account
                                /\ woken[t].connection \in Connection
      BY NotifiedFacts DEF TypeInv, TypeOK, TaskShape, IdleTask, TaskAt
    <2>4. a \in Account /\ request[r].connection \in Connection
      BY <1>2, <2>1
    <2>5. /\ account' \in [Account -> Accounts]
          /\ task' \in [Task -> Tasks]
          /\ TaskShape'
      <3>1. CASE account[a].connection = request[r].connection /\ ~account[a].scheduled
        <4>1. PICK t \in Task :
                 task' = [woken EXCEPT ![t] = TaskAt("retire", a, request[r].connection)]
          BY <1>5, <3>1 DEF TimeOutRetrieval
        <4>2. account' = [account EXCEPT ![a] = [cancelled EXCEPT !.scheduled = TRUE]]
          BY <1>5, <3>1 DEF TimeOutRetrieval
        <4>3. /\ TaskAt("retire", a, request[r].connection) \in Tasks
              /\ TaskAt("retire", a, request[r].connection).step = "retire"
              /\ TaskAt("retire", a, request[r].connection).account = a
              /\ TaskAt("retire", a, request[r].connection).connection
                    = request[r].connection
          BY <2>4, TaskAtFacts DEF TaskSteps
        <4> HIDE DEF woken, cancelled, a
        <4> QED  BY <2>2, <2>3, <2>4, <4>1, <4>2, <4>3 DEF TypeInv, TypeOK, TaskShape
      <3>2. CASE ~(account[a].connection = request[r].connection /\ ~account[a].scheduled)
        <4>1. task' = woken /\ account' = [account EXCEPT ![a] = cancelled]
          BY <1>5, <3>2 DEF TimeOutRetrieval
        <4> HIDE DEF woken, cancelled, a
        <4> QED  BY <2>2, <2>3, <2>4, <4>1 DEF TypeInv, TypeOK, TaskShape
      <3> QED  BY <3>1, <3>2
    <2> HIDE DEF woken, cancelled, a
    <2> QED
      BY <1>5, <2>5 DEF TimeOutRetrieval, TypeInv, TypeOK, lifecycle, history
  <1> QED  BY <1>1, <1>3, <1>4, <1>5 DEF RequestStep

(* A step outside "idle" belongs to a live task.                           *)
LEMMA LiveTask ==
    ASSUME TypeInv, NEW t \in Task, task[t].step # "idle"
    PROVE  /\ task[t] # IdleTask
           /\ task[t] \in Tasks
           /\ task[t].account \in Account
           /\ task[t].connection \in Connection
           /\ account[task[t].account] \in Accounts
  BY DEF TypeInv, TypeOK, TaskShape, IdleTask, TaskAt

LEMMA OwnTaskFacts ==
    ASSUME TypeInv, NEW t \in Task, task[t].step # "idle",
           NEW step \in TaskSteps
    PROVE  /\ OwnTaskAt(t, step) \in Tasks
           /\ OwnTaskAt(t, step).step = step
           /\ OwnTaskAt(t, step).account = task[t].account
           /\ OwnTaskAt(t, step).connection = task[t].connection
  BY LiveTask, TaskAtFacts DEF OwnTaskAt

(* Replacing a live task by a task of the same account and connection.     *)
LEMMA ReplaceTask ==
    ASSUME TypeInv, NEW t \in Task, task[t].step # "idle",
           NEW new \in Tasks, new.step # "idle",
           new.account = task[t].account, new.connection = task[t].connection,
           task' = [task EXCEPT ![t] = new]
    PROVE  task' \in [Task -> Tasks] /\ TaskShape'
  BY LiveTask DEF TypeInv, TypeOK, TaskShape

LEMMA AdvanceType ==
    ASSUME TypeInv, NEW t \in Task, task[t].step # "idle",
           NEW step \in TaskSteps \ {"idle"}, Advance(t, step)
    PROVE  /\ account' = account
           /\ task' \in [Task -> Tasks]
           /\ TaskShape'
           /\ claim' = claim
  BY OwnTaskFacts, ReplaceTask DEF Advance

LEMMA ReleaseType ==
    ASSUME TypeInv, NEW t \in Task, task[t].step # "idle",
           NEW settled \in Accounts, ReleaseSettlement(t, settled)
    PROVE  /\ account' \in [Account -> Accounts]
           /\ task' \in [Task -> Tasks]
           /\ TaskShape'
           /\ claim' = claim
  <1>1. [settled EXCEPT !.scheduled = FALSE] \in Accounts
    BY DEF Accounts, AccountType
  <1>2. IdleTask \in Tasks
    BY TaskAtFacts DEF IdleTask, TaskSteps
  <1> QED
    BY <1>1, <1>2 DEF ReleaseSettlement, TypeInv, TypeOK, TaskShape

LEMMA TaskType ==
    ASSUME TypeInv, NEW t \in Task,
           RefreshStep(t) \/ RefreshOutcome(t) \/ RetireStep(t)
    PROVE  TypeInv'
  <1> DEFINE own == account[task[t].account]
  <1> USE DEF TaskSteps
  <1>1. CASE RefreshLoop(t)
    <2>1. task[t].step # "idle"
      BY <1>1 DEF RefreshLoop
    <2>2. own \in Accounts
      BY <2>1, LiveTask
    <2>3. CASE due(own)
      <3> DEFINE seen == [balance |-> own.balance, refreshed |-> own.refreshed,
                          threshold |-> own.threshold]
                 new == [OwnTaskAt(t, "check") EXCEPT !.snapshot = seen]
      <3>1. seen \in Snapshots
        BY <2>2 DEF Snapshots, Accounts, AccountType
      <3>2. task' = [task EXCEPT ![t] = new] /\ account' = account
        BY <1>1, <2>3 DEF RefreshLoop
      <3> HIDE DEF seen
      <3>3. /\ new \in Tasks /\ new.step # "idle"
            /\ new.account = task[t].account /\ new.connection = task[t].connection
        BY <2>1, <3>1, OwnTaskFacts DEF Tasks
      <3> HIDE DEF new
      <3>4. task' \in [Task -> Tasks] /\ TaskShape'
        BY <2>1, <3>2, <3>3, ReplaceTask
      <3> QED
        BY <1>1, <2>3, <3>2, <3>4
        DEF RefreshLoop, TypeInv, TypeOK, lifecycle, history
    <2>4. CASE ~due(own)
      <3>1. ReleaseSettlement(t, own)
        BY <1>1, <2>4 DEF RefreshLoop
      <3> HIDE DEF own
      <3> QED
        BY <1>1, <2>1, <2>2, <3>1, ReleaseType
        DEF RefreshLoop, TypeInv, TypeOK, lifecycle, history
    <2> QED  BY <2>3, <2>4
  <1>2. CASE RefreshCheck(t)
    <2>1. task[t].step # "idle" /\ own \in Accounts
      BY <1>2, LiveTask DEF RefreshCheck
    <2>2. \/ ReleaseSettlement(t, own)
          \/ Advance(t, "wait")
          \/ Advance(t, "refresh")
      BY <1>2 DEF RefreshCheck
    <2> HIDE DEF own
    <2> QED
      BY <1>2, <2>1, <2>2, ReleaseType, AdvanceType
      DEF RefreshCheck, TypeInv, TypeOK, lifecycle, history
  <1>3. CASE RefreshSend(t)
    <2>1. task[t].step # "idle" /\ own \in Accounts
      BY <1>3, LiveTask DEF RefreshSend
    <2> DEFINE new == [OwnTaskAt(t, "sent") EXCEPT !.amount = own.threshold]
    <2>2. \/ ReleaseSettlement(t, own)
          \/ /\ task' = [task EXCEPT ![t] = new]
             /\ UNCHANGED <<account, claim>>
      BY <1>3 DEF RefreshSend
    <2>3. own.threshold \in Nat
      BY <2>1 DEF Accounts, AccountType
    <2> HIDE DEF own
    <2>4. /\ new \in Tasks /\ new.step # "idle"
          /\ new.account = task[t].account /\ new.connection = task[t].connection
      BY <2>1, <2>3, OwnTaskFacts DEF Tasks
    <2> HIDE DEF new
    <2>5. /\ account' \in [Account -> Accounts]
          /\ task' \in [Task -> Tasks] /\ TaskShape' /\ claim' = claim
      <3>1. CASE ReleaseSettlement(t, own)
        BY <2>1, <3>1, ReleaseType
      <3>2. CASE task' = [task EXCEPT ![t] = new] /\ UNCHANGED <<account, claim>>
        <4>1. task' \in [Task -> Tasks] /\ TaskShape'
          BY <2>1, <2>4, <3>2, ReplaceTask
        <4> QED  BY <3>2, <4>1 DEF TypeInv, TypeOK
      <3> QED  BY <2>2, <3>1, <3>2
    <2> QED
      BY <1>3, <2>5 DEF RefreshSend, TypeInv, TypeOK, lifecycle, history
  <1>4. CASE RefreshClaim(t)
    <2>1. task[t].step # "idle" /\ task[t].amount \in Nat
      BY <1>4, LiveTask DEF RefreshClaim, Tasks
    <2>2. task' \in [Task -> Tasks] /\ TaskShape'
      <3>1. /\ OwnTaskAt(t, "refresh") \in Tasks
            /\ OwnTaskAt(t, "refresh").step = "refresh"
            /\ OwnTaskAt(t, "refresh").account = task[t].account
            /\ OwnTaskAt(t, "refresh").connection = task[t].connection
        BY <2>1, OwnTaskFacts
      <3> QED  BY <1>4, <2>1, <3>1, ReplaceTask DEF RefreshClaim
    <2>3. /\ claim' \in Claims
          /\ cheque' \in [Generation -> Cheques]
          /\ claimant' \in [Generation -> Account \cup {None}]
      <3>1. CASE UNCHANGED <<claim, cheque, claimant>>
        BY <3>1 DEF TypeInv, TypeOK
      <3>2. CASE \E g \in Generation :
                   /\ claim' = [amount |-> task[t].amount, generation |-> g]
                   /\ cheque' = [cheque EXCEPT ![g].phase = "queued",
                                               ![g].amount = task[t].amount]
                   /\ claimant' = [claimant EXCEPT ![g] = task[t].account]
        <4>1. PICK g \in Generation :
                   /\ claim' = [amount |-> task[t].amount, generation |-> g]
                   /\ cheque' = [cheque EXCEPT ![g].phase = "queued",
                                               ![g].amount = task[t].amount]
                   /\ claimant' = [claimant EXCEPT ![g] = task[t].account]
          BY <3>2
        <4>2. claim' \in Claims
          BY <2>1, <4>1 DEF Claims
        <4>3. [cheque[g] EXCEPT !.phase = "queued", !.amount = task[t].amount] \in Cheques
          BY <2>1 DEF TypeInv, TypeOK, Cheques, ChequePhases
        <4>4. cheque' = [cheque EXCEPT ![g] =
                  [cheque[g] EXCEPT !.phase = "queued", !.amount = task[t].amount]]
          BY <4>1 DEF TypeInv, TypeOK
        <4>5. cheque' \in [Generation -> Cheques]
          BY <4>3, <4>4 DEF TypeInv, TypeOK
        <4> QED  BY <2>1, <4>1, <4>2, <4>5, LiveTask DEF TypeInv, TypeOK
      <3> QED  BY <1>4, <3>1, <3>2 DEF RefreshClaim
    <2>4. UNCHANGED <<lifecycle, current, account, created, request, worker, peak, shared>>
      BY <1>4 DEF RefreshClaim
    <2> QED
      BY <2>2, <2>3, <2>4 DEF TypeInv, TypeOK, lifecycle
  <1>5. CASE RefreshNotDispatched(t) \/ RefreshAmbiguous(t)
    <2>1. task[t].step # "idle"
      BY <1>5 DEF RefreshNotDispatched, RefreshAmbiguous
    <2>2. Advance(t, "refresh") \/ Advance(t, "retire")
      BY <1>5 DEF RefreshNotDispatched, RefreshAmbiguous
    <2>3. UNCHANGED <<lifecycle, current, created, request, cheque, worker, history>>
      BY <1>5 DEF RefreshNotDispatched, RefreshAmbiguous
    <2> QED
      BY <2>1, <2>2, <2>3, AdvanceType DEF TypeInv, TypeOK, lifecycle, history
  <1>6. CASE RefreshAcknowledgedNothing(t)
    <2>1. task[t].step # "idle" /\ own \in Accounts
      BY <1>6, LiveTask DEF RefreshAcknowledgedNothing
    <2> DEFINE settled == [own EXCEPT !.refreshed = TRUE, !.balance = 0]
    <2>2. ReleaseSettlement(t, settled)
      BY <1>6 DEF RefreshAcknowledgedNothing
    <2>3. settled \in Accounts
      BY <2>1 DEF Accounts, AccountType
    <2> HIDE DEF settled
    <2> QED
      BY <1>6, <2>1, <2>2, <2>3, ReleaseType
      DEF RefreshAcknowledgedNothing, TypeInv, TypeOK, lifecycle, history
  <1>7. ASSUME NEW amount \in 1..task[t].amount, RefreshAcknowledged(t, amount)
        PROVE  TypeInv'
    <2> DEFINE stamped == [own EXCEPT !.refreshed = TRUE]
               settled == apply_refreshment(stamped, amount)
               next == OwnTaskAt(t, "refresh")
               claiming == [OwnTaskAt(t, "claim") EXCEPT
                               !.amount = settled.balance - RefreshRate]
    <2>1. task[t].step # "idle" /\ own \in Accounts /\ amount \in Nat
      BY <1>7, LiveTask DEF RefreshAcknowledged, Tasks
    <2>2. stamped \in Accounts
      BY <2>1 DEF Accounts, AccountType
    <2> HIDE DEF own
    <2>3. settled \in Accounts
      <3> HIDE DEF stamped
      <3> QED  BY <2>1, <2>2, RefreshmentFacts
    <2>4. account' = [account EXCEPT ![task[t].account] = settled]
      BY <1>7 DEF RefreshAcknowledged, own
    <2>5. \/ task' = [task EXCEPT ![t] = next]
          \/ settled.balance > RefreshRate /\ task' = [task EXCEPT ![t] = claiming]
      BY <1>7 DEF RefreshAcknowledged, own
    <2>6. settled.balance > RefreshRate => settled.balance - RefreshRate \in Nat
      BY <2>3, AccountingAssumption DEF Accounts, AccountType
    <2> HIDE DEF settled, stamped
    <2>7. task' \in [Task -> Tasks] /\ TaskShape'
      <3>1. CASE task' = [task EXCEPT ![t] = next]
        <4>1. /\ next \in Tasks /\ next.step # "idle"
              /\ next.account = task[t].account /\ next.connection = task[t].connection
          BY <2>1, OwnTaskFacts
        <4> HIDE DEF next
        <4> QED  BY <2>1, <3>1, <4>1, ReplaceTask
      <3>2. CASE settled.balance > RefreshRate /\ task' = [task EXCEPT ![t] = claiming]
        <4>1. /\ claiming \in Tasks /\ claiming.step # "idle"
              /\ claiming.account = task[t].account
              /\ claiming.connection = task[t].connection
          BY <2>1, <2>6, <3>2, OwnTaskFacts DEF Tasks
        <4> HIDE DEF claiming
        <4> QED  BY <2>1, <3>2, <4>1, ReplaceTask
      <3> QED  BY <2>5, <3>1, <3>2
    <2> QED
      BY <1>7, <2>3, <2>4, <2>7
      DEF RefreshAcknowledged, TypeInv, TypeOK, lifecycle, history
  <1>8. CASE Quiesce(t)
    <2> DEFINE owned == /\ published /\ session = task[t].connection
                        /\ current = task[t].account
                        /\ account[task[t].account].connection = task[t].connection
               awaited == IF owned THEN claim ELSE NoClaim
               new == [OwnTaskAt(t, "drain") EXCEPT !.awaits = awaited]
    <2>1. task[t].step # "idle" /\ task[t].account \in Account /\ own \in Accounts
      BY <1>8, LiveTask DEF Quiesce
    <2>2. awaited \in Claims
      BY DEF TypeInv, TypeOK, NoClaim, Claims
    <2>3. task' = [task EXCEPT ![t] = new]
      BY <1>8 DEF Quiesce
    <2> HIDE DEF awaited
    <2>4. /\ new \in Tasks /\ new.step # "idle"
          /\ new.account = task[t].account /\ new.connection = task[t].connection
      BY <2>1, <2>2, OwnTaskFacts DEF Tasks
    <2> HIDE DEF new
    <2>5. task' \in [Task -> Tasks] /\ TaskShape'
      BY <2>1, <2>3, <2>4, ReplaceTask
    <2>6. account' \in [Account -> Accounts]
      BY <1>8, <2>1 DEF Quiesce, TypeInv, TypeOK, Accounts, AccountType
    <2> QED
      BY <1>8, <2>5, <2>6 DEF Quiesce, TypeInv, TypeOK, lifecycle, history
  <1>9. CASE Park(t)
    <2> DEFINE new == [task[t] EXCEPT !.step = "parked"]
    <2>1. task[t].step # "idle" /\ task' = [task EXCEPT ![t] = new]
      BY <1>9 DEF Park
    <2>2. /\ new \in Tasks /\ new.step # "idle"
          /\ new.account = task[t].account /\ new.connection = task[t].connection
      BY <2>1, LiveTask DEF Tasks
    <2> HIDE DEF new
    <2>3. task' \in [Task -> Tasks] /\ TaskShape'
      BY <2>1, <2>2, ReplaceTask
    <2> QED  BY <1>9, <2>3 DEF Park, TypeInv, TypeOK, lifecycle, history
  <1>10. CASE CloseSession(t)
    <2> DEFINE new == [task[t] EXCEPT !.step = "closed"]
    <2>1. task[t].step # "idle" /\ task' = [task EXCEPT ![t] = new]
      BY <1>10 DEF CloseSession
    <2>2. /\ new \in Tasks /\ new.step # "idle"
          /\ new.account = task[t].account /\ new.connection = task[t].connection
      BY <2>1, LiveTask DEF Tasks
    <2> HIDE DEF new
    <2>3. task' \in [Task -> Tasks] /\ TaskShape'
      BY <2>1, <2>2, ReplaceTask
    <2>4. link' \in [Connection -> LinkStates]
      BY <1>10 DEF CloseSession, TypeInv, TypeOK, LinkStates
    <2> QED  BY <1>10, <2>3, <2>4 DEF CloseSession, TypeInv, TypeOK, history
  <1> QED
    BY <1>1, <1>2, <1>3, <1>4, <1>5, <1>6, <1>7, <1>8, <1>9, <1>10
    DEF RefreshStep, RefreshOutcome, RetireStep

LEMMA ChequeType ==
    ASSUME TypeInv, NEW g \in Generation, ChequeStep(g)
    PROVE  TypeInv'
  <1> USE DEF ChequePhases
  <1>1. ASSUME NEW phase \in ChequePhases, StepCheque(g, phase)
        PROVE  TypeInv'
    <2>1. [cheque[g] EXCEPT !.phase = phase] \in Cheques
      BY DEF TypeInv, TypeOK, Cheques
    <2>2. cheque' \in [Generation -> Cheques]
      BY <1>1, <2>1 DEF StepCheque, TypeInv, TypeOK
    <2> QED  BY <1>1, <2>2 DEF StepCheque, TypeInv, TypeOK, TaskShape, lifecycle, history
  <1>2. CASE ChequeStart(g) \/ ChequeIssued(g)
    BY <1>1, <1>2 DEF ChequeStart, ChequeIssued
  <1>3. CASE ChequeResult(g)
    <2>1. [cheque[g] EXCEPT !.phase = "applying", !.ok = (cheque[g].phase = "cleared"),
                            !.account = current] \in Cheques
      <3>1. cheque[g] \in Cheques /\ current \in Account \cup {None}
        BY DEF TypeInv, TypeOK
      <3>2. (cheque[g].phase = "cleared") \in BOOLEAN
        OBVIOUS
      <3>3. \A h \in Cheques, ok \in BOOLEAN, a \in Account \cup {None} :
               [h EXCEPT !.phase = "applying", !.ok = ok, !.account = a] \in Cheques
        BY DEF Cheques
      <3> QED  BY <3>1, <3>2, <3>3, Zenon
    <2>2. [cheque[g] EXCEPT !.phase = "done"] \in Cheques
      BY DEF TypeInv, TypeOK, Cheques
    <2>3. cheque' \in [Generation -> Cheques]
      BY <1>3, <2>1, <2>2 DEF ChequeResult, TypeInv, TypeOK
    <2> QED
      BY <1>3, <2>3 DEF ChequeResult, TypeInv, TypeOK, TaskShape, lifecycle, history
  <1>4. CASE ChequeApply(g)
    <2> DEFINE a == cheque[g].account
    <2>1. cheque[g] \in Cheques /\ a \in Account \cup {None} /\ cheque[g].amount \in Nat
      BY DEF TypeInv, TypeOK, Cheques
    <2>2. [cheque[g] EXCEPT !.phase = "done", !.account = None] \in Cheques
      BY <2>1 DEF Cheques
    <2>3. cheque' = [cheque EXCEPT ![g] = [cheque[g] EXCEPT !.phase = "done", !.account = None]]
      BY <1>4 DEF ChequeApply, TypeInv, TypeOK
    <2>4. cheque' \in [Generation -> Cheques]
      BY <2>2, <2>3 DEF TypeInv, TypeOK
    <2>5. account' \in [Account -> Accounts]
      <3>1. a \in Account => apply_refreshment(account[a], cheque[g].amount) \in Accounts
        BY <2>1, RefreshmentFacts DEF TypeInv, TypeOK
      <3> QED  BY <1>4, <2>1, <3>1 DEF ChequeApply, TypeInv, TypeOK
    <2>6. claim' \in Claims
      BY <1>4 DEF ChequeApply, TypeInv, TypeOK, NoClaim, Claims
    <2> QED
      BY <1>4, <2>4, <2>5, <2>6, NotifiedType
      DEF ChequeApply, TypeInv, TypeOK, lifecycle, history
  <1> QED  BY <1>2, <1>3, <1>4 DEF ChequeStep

LEMMA WorkerType == TypeInv /\ WorkerStep => TypeInv'
  <1> SUFFICES ASSUME TypeInv, WorkerStep PROVE TypeInv'
    OBVIOUS
  <1>1. CASE HoldWorker \/ FreeWorker
    BY <1>1 DEF HoldWorker, FreeWorker, TypeInv, TypeOK, TaskShape, lifecycle, history
  <1>2. CASE TakeBatch
    <2>1. \A g \in Generation : [cheque[g] EXCEPT !.phase = "taken"] \in Cheques
      BY DEF TypeInv, TypeOK, Cheques, ChequePhases
    <2>2. cheque' \in [Generation -> Cheques]
      BY <1>2, <2>1 DEF TakeBatch, TypeInv, TypeOK
    <2> QED  BY <1>2, <2>2 DEF TakeBatch, TypeInv, TypeOK, TaskShape, lifecycle, history
  <1> QED  BY <1>1, <1>2 DEF WorkerStep

LEMMA NextType == TypeInv /\ [Next]_vars => TypeInv'
  <1> SUFFICES ASSUME TypeInv, [Next]_vars PROVE TypeInv'
    OBVIOUS
  <1>1. CASE UNCHANGED vars
    BY <1>1 DEF vars, lifecycle, history, TypeInv, TypeOK, TaskShape
  <1> QED
    BY <1>1, ConnectionType, AccountStepType, RequestType, TaskType, ChequeType, WorkerType
    DEF Next

(* Every variable keeps its type, and a settlement task never loses the    *)
(* account and connection it settles.                                      *)
THEOREM TypeCorrect == Spec => []TypeOK
  <1>1. TypeInv => TypeOK
    BY DEF TypeInv
  <1> QED  BY InitType, NextType, <1>1, PTL DEF Spec

-----------------------------------------------------------------------------
(* Credit.                                                                 *)

(* What each settled or reserved amount relies on.                         *)
PeakCoversThreshold == \A a \in Account : account[a].threshold <= peak[a]

CreditInv ==
    /\ ReserveMatchesRequests
    /\ CreditWithinThreshold
    /\ PeakCoversThreshold
    /\ DebtOrSurplus

-----------------------------------------------------------------------------
(* The tokens held by requests.                                            *)

Slots(r, amount) == {r} \X (1..amount)

LEMMA SlotsFacts ==
    ASSUME NEW r, NEW amount \in Nat
    PROVE  IsFiniteSet(Slots(r, amount)) /\ Cardinality(Slots(r, amount)) = amount
  <1>1. IsFiniteSet({r}) /\ Cardinality({r}) = 1
    BY FS_Singleton
  <1>2. IsFiniteSet(1..amount) /\ Cardinality(1..amount) = amount
    BY FS_Interval
  <1>3. /\ IsFiniteSet({r} \X (1..amount))
        /\ Cardinality({r} \X (1..amount)) = Cardinality({r}) * Cardinality(1..amount)
    BY <1>1, <1>2, FS_Product
  <1> QED  BY <1>1, <1>2, <1>3 DEF Slots

LEMMA HeldFinite ==
    ASSUME NEW a \in Account
    PROVE  IsFiniteSet(Held(a)) /\ Cardinality(Held(a)) \in Nat
  <1>1. IsFiniteSet(1..MaxChunkPrice)
    BY FS_Interval, AccountingAssumption
  <1>2. IsFiniteSet(Request \X (1..MaxChunkPrice))
    BY <1>1, FS_Product, SettlementAssumption
  <1>3. Held(a) \in SUBSET (Request \X (1..MaxChunkPrice))
    BY DEF Held
  <1>4. IsFiniteSet(Held(a))
    BY <1>2, <1>3, FS_Subset
  <1> QED  BY <1>4, FS_CardinalityType

LEMMA SlotsMembers ==
    ASSUME NEW r \in Request, NEW amount \in 1..MaxChunkPrice
    PROVE  /\ Slots(r, amount) \subseteq Request \X (1..MaxChunkPrice)
           /\ \A u \in Request \X (1..MaxChunkPrice) :
                 u \in Slots(r, amount) <=> u[1] = r /\ u[2] <= amount
  <1>1. ASSUME NEW u \in Request \X (1..MaxChunkPrice)
        PROVE  u \in Slots(r, amount) <=> u[1] = r /\ u[2] <= amount
    <2>1. u = <<u[1], u[2]>> /\ u[1] \in Request /\ u[2] \in 1..MaxChunkPrice
      OBVIOUS
    <2>2. u[2] \in 1..amount <=> u[2] <= amount
      BY <2>1, AccountingAssumption
    <2> QED  BY <2>1, <2>2 DEF Slots
  <1>2. 1..amount \subseteq 1..MaxChunkPrice
    BY AccountingAssumption
  <1>3. Slots(r, amount) \subseteq Request \X (1..MaxChunkPrice)
    BY <1>2 DEF Slots
  <1> QED  BY <1>1, <1>3

(* Who holds a token, before and after request r alone changed.            *)
LEMMA HeldMembers ==
    ASSUME NEW a \in Account
    PROVE  /\ Held(a) \subseteq Request \X (1..MaxChunkPrice)
           /\ Held(a)' \subseteq Request \X (1..MaxChunkPrice)
           /\ \A u \in Request \X (1..MaxChunkPrice) :
                 /\ u \in Held(a) <=>
                      request[u[1]].account = a /\ u[2] <= request[u[1]].price
                 /\ u \in Held(a)' <=>
                      request'[u[1]].account = a /\ u[2] <= request'[u[1]].price
                 /\ u[1] \in Request
  BY DEF Held

(* A request that starts adds its price to what its account holds ...      *)
LEMMA HeldAdded ==
    ASSUME TypeInv, NEW r \in Request, request[r] = NoRequest,
           NEW new \in Requests, request' = [request EXCEPT ![r] = new],
           NEW a \in Account
    PROVE  Cardinality(Held(a)') =
              Cardinality(Held(a)) + (IF a = new.account THEN new.price ELSE 0)
  <1>1. new.price \in 1..MaxChunkPrice /\ new.price \in Nat
    <2>1. new.price \in Prices
      BY DEF Requests
    <2> QED  BY <2>1, PricesNat, SettlementAssumption
  <1>2. request[r].account # a
    BY SettlementAssumption DEF NoRequest
  <1>5. \A q \in Request : request'[q] = IF q = r THEN new ELSE request[q]
    BY DEF TypeInv, TypeOK
  <1>3. CASE a = new.account
    <2>1. Held(a)' = Held(a) \cup Slots(r, new.price)
      <3>1. \A u \in Request \X (1..MaxChunkPrice) :
               u \in Held(a)' <=> u \in Held(a) \cup Slots(r, new.price)
        BY <1>1, <1>2, <1>3, <1>5, HeldMembers, SlotsMembers
      <3> QED  BY <1>1, <3>1, HeldMembers, SlotsMembers
    <2>2. Held(a) \cap Slots(r, new.price) = {}
      BY <1>1, <1>2, HeldMembers, SlotsMembers
    <2>3. Cardinality(Held(a) \cup Slots(r, new.price)) =
             Cardinality(Held(a)) + Cardinality(Slots(r, new.price)) - Cardinality({})
      BY <1>1, <2>2, HeldFinite, SlotsFacts, FS_Union
    <2> QED  BY <1>1, <1>3, <2>1, <2>3, HeldFinite, SlotsFacts, FS_EmptySet
  <1>4. CASE a # new.account
    <2>1. \A u \in Request \X (1..MaxChunkPrice) : u \in Held(a)' <=> u \in Held(a)
      BY <1>2, <1>4, <1>5, HeldMembers
    <2>2. Held(a)' = Held(a)
      BY <2>1, HeldMembers
    <2> QED  BY <1>4, <2>2, HeldFinite
  <1> QED  BY <1>3, <1>4

(* ... and one that settles takes it away again.                           *)
LEMMA HeldRemoved ==
    ASSUME TypeInv, NEW r \in Request, request[r] # NoRequest,
           request' = [request EXCEPT ![r] = NoRequest],
           NEW a \in Account
    PROVE  /\ Cardinality(Held(a)') \in Nat
           /\ Cardinality(Held(a)) = Cardinality(Held(a)') +
                 (IF a = request[r].account THEN request[r].price ELSE 0)
  <1>1. /\ request[r].price \in 1..MaxChunkPrice /\ request[r].price \in Nat
        /\ request[r].account \in Account
    <2>1. request[r].price \in Prices /\ request[r].account \in Account
      BY DEF TypeInv, TypeOK, Requests
    <2> QED  BY <2>1, PricesNat, SettlementAssumption
  <1>2. request'[r].account # a
    BY SettlementAssumption DEF NoRequest, TypeInv, TypeOK
  <1>7. \A q \in Request : q # r => request'[q] = request[q]
    BY DEF TypeInv, TypeOK
  <1>3. Held(a)' \in SUBSET Held(a)
    BY <1>2, <1>7, HeldMembers
  <1>4. IsFiniteSet(Held(a)') /\ Cardinality(Held(a)') \in Nat
    BY <1>3, HeldFinite, FS_Subset, FS_CardinalityType
  <1>5. CASE a = request[r].account
    <2>1. Held(a) = Held(a)' \cup Slots(r, request[r].price)
      <3>1. \A u \in Request \X (1..MaxChunkPrice) :
               u \in Held(a) <=> u \in Held(a)' \cup Slots(r, request[r].price)
        BY <1>1, <1>2, <1>5, <1>7, HeldMembers, SlotsMembers
      <3> QED  BY <1>1, <3>1, HeldMembers, SlotsMembers
    <2>2. Held(a)' \cap Slots(r, request[r].price) = {}
      BY <1>1, <1>2, HeldMembers, SlotsMembers
    <2>3. Cardinality(Held(a)' \cup Slots(r, request[r].price)) =
             Cardinality(Held(a)') + Cardinality(Slots(r, request[r].price))
                - Cardinality({})
      BY <1>1, <1>4, <2>2, SlotsFacts, FS_Union
    <2> QED  BY <1>1, <1>4, <1>5, <2>1, <2>3, SlotsFacts, FS_EmptySet
  <1>6. CASE a # request[r].account
    <2>1. \A u \in Request \X (1..MaxChunkPrice) : u \in Held(a)' <=> u \in Held(a)
      BY <1>2, <1>6, <1>7, HeldMembers
    <2>2. Held(a)' = Held(a)
      BY <2>1, HeldMembers
    <2> QED  BY <1>4, <1>6, <2>2
  <1> QED  BY <1>4, <1>5, <1>6

-----------------------------------------------------------------------------
(* Steps.                                                                  *)

(* The amounts of a record, whatever its flags and connection.             *)
SameAmounts(x, y) ==
    /\ x.balance = y.balance /\ x.surplus = y.surplus
    /\ x.threshold = y.threshold /\ x.reserve = y.reserve

LEMMA ScheduleAmounts ==
    ASSUME TypeInv, NEW a \in Account, NEW updated \in Accounts, NEW drained,
           ScheduleRefresh(a, updated, drained)
    PROVE  \E new \in Accounts :
              account' = [account EXCEPT ![a] = new] /\ SameAmounts(new, updated)
  <1> DEFINE flagged == [updated EXCEPT !.scheduled = TRUE]
  <1>1. flagged \in Accounts /\ SameAmounts(flagged, updated)
    BY DEF Accounts, AccountType, SameAmounts
  <1>2. SameAmounts(updated, updated)
    BY DEF SameAmounts
  <1>3. \/ account' = [account EXCEPT ![a] = flagged]
        \/ account' = [account EXCEPT ![a] = updated]
    BY DEF ScheduleRefresh
  <1> HIDE DEF flagged
  <1> QED  BY <1>1, <1>2, <1>3

(* A step that touches no reservation may only lower a debt.               *)
LEMMA CreditFrame ==
    ASSUME TypeInv, CreditInv, TypeInv',
           request' = request, peak' = peak,
           \A a \in Account :
              /\ account'[a].reserve = account[a].reserve
              /\ account'[a].threshold = account[a].threshold
              /\ account'[a].balance <= account[a].balance
              /\ account'[a].surplus > 0 => account'[a].balance = 0
    PROVE  CreditInv'
  <1>1. \A a \in Account : Held(a)' = Held(a)
    BY DEF Held
  <1>2. ReserveMatchesRequests'
    BY <1>1 DEF CreditInv, ReserveMatchesRequests
  <1>3. \A a \in Account : /\ account[a] \in Accounts /\ account'[a] \in Accounts
                           /\ peak[a] \in Nat
    BY DEF TypeInv, TypeOK
  <1>4. CreditWithinThreshold' /\ PeakCoversThreshold' /\ DebtOrSurplus'
    BY <1>3 DEF CreditInv, CreditWithinThreshold, PeakCoversThreshold, DebtOrSurplus,
                Accounts, AccountType
  <1> QED  BY <1>2, <1>4 DEF CreditInv

LEMMA CreditUnchanged ==
    ASSUME TypeInv, CreditInv, TypeInv',
           request' = request, peak' = peak, account' = account
    PROVE  CreditInv'
  <1>1. \A a \in Account : account[a] \in Accounts
    BY DEF TypeInv, TypeOK
  <1>2. \A a \in Account : account[a].balance \in Nat
    BY <1>1 DEF Accounts, AccountType
  <1> QED  BY <1>1, <1>2, CreditFrame DEF CreditInv, DebtOrSurplus

LEMMA CreditOneAccount ==
    ASSUME TypeInv, CreditInv, TypeInv',
           request' = request, peak' = peak,
           NEW a \in Account, NEW new \in Accounts,
           account' = [account EXCEPT ![a] = new],
           new.reserve = account[a].reserve,
           new.threshold = account[a].threshold,
           new.balance <= account[a].balance,
           new.surplus > 0 => new.balance = 0
    PROVE  CreditInv'
  <1>1. \A b \in Account : account[b] \in Accounts
    BY DEF TypeInv, TypeOK
  <1>2. \A b \in Account : account[b].balance \in Nat
    BY <1>1 DEF Accounts, AccountType
  <1>3. \A b \in Account : account'[b] = IF b = a THEN new ELSE account[b]
    BY DEF TypeInv, TypeOK
  <1> QED  BY <1>1, <1>2, <1>3, CreditFrame DEF CreditInv, DebtOrSurplus

(* A settled reservation leaves the account, and at most its amount        *)
(* becomes debt.                                                           *)
LEMMA CreditSettled ==
    ASSUME TypeInv, CreditInv, TypeInv', peak' = peak,
           NEW r \in Request, request[r] # NoRequest,
           request' = [request EXCEPT ![r] = NoRequest],
           NEW a \in Account, a = request[r].account,
           NEW p \in Nat, p = request[r].price,
           NEW new \in Accounts,
           account' = [account EXCEPT ![a] = new],
           p <= account[a].reserve => new.reserve = account[a].reserve - p,
           new.threshold = account[a].threshold,
           new.balance <= account[a].balance + p,
           new.surplus > 0 => new.balance = 0
    PROVE  CreditInv'
  <1>2. \A b \in Account : account'[b] = IF b = a THEN new ELSE account[b]
    BY DEF TypeInv, TypeOK
  <1>3. \A b \in Account :
           /\ Cardinality(Held(b)') \in Nat
           /\ account[b].reserve = Cardinality(Held(b)') + (IF b = a THEN p ELSE 0)
    <2> SUFFICES ASSUME NEW b \in Account
                 PROVE  /\ Cardinality(Held(b)') \in Nat
                        /\ account[b].reserve =
                              Cardinality(Held(b)') + (IF b = a THEN p ELSE 0)
      OBVIOUS
    <2>1. account[b].reserve = Cardinality(Held(b))
      BY DEF CreditInv, ReserveMatchesRequests
    <2>2. /\ Cardinality(Held(b)') \in Nat
          /\ Cardinality(Held(b)) = Cardinality(Held(b)') + (IF b = a THEN p ELSE 0)
      BY HeldRemoved
    <2> QED  BY <2>1, <2>2
  <1>4. \A b \in Account :
           /\ account[b].balance \in Nat /\ account[b].reserve \in Nat
           /\ account[b].threshold \in Nat /\ account[b].surplus \in Nat
           /\ peak[b] \in Nat
    BY DEF TypeInv, TypeOK, Accounts, AccountType
  <1>5. new.balance \in Nat /\ new.reserve \in Nat
    BY DEF Accounts, AccountType
  <1>11. new.reserve = account[a].reserve - p /\ new.reserve = Cardinality(Held(a)')
    BY <1>3, <1>4
  <1>8. ReserveMatchesRequests'
    BY <1>2, <1>3, <1>11 DEF ReserveMatchesRequests
  <1>9. CreditWithinThreshold'
    BY <1>2, <1>4, <1>5, <1>11 DEF CreditInv, CreditWithinThreshold
  <1>10. PeakCoversThreshold' /\ DebtOrSurplus'
    BY <1>2 DEF CreditInv, PeakCoversThreshold, DebtOrSurplus
  <1> QED  BY <1>8, <1>9, <1>10 DEF CreditInv

LEMMA ConnectionCredit ==
    ASSUME TypeInv, CreditInv, TypeInv',
           \/ \E c \in Connection : ConnectionStep(c)
           \/ HandleClosedCheque
           \/ disconnect_all_peers
    PROVE  CreditInv'
  <1>1. request' = request /\ account' = account /\ peak' = peak
    BY DEF ConnectionStep, Dial, OpenDuplicate, Adopt, Disconnect, HandleClosed,
           HandleClosedCheque, disconnect_all_peers, history
  <1> QED  BY <1>1, CreditUnchanged

LEMMA AccountStepCredit ==
    ASSUME TypeInv, CreditInv, TypeInv', NEW a \in Account, AccountStep(a)
    PROVE  CreditInv'
  <1>1. account[a] \in Accounts /\ peak[a] \in Nat
    BY DEF TypeInv, TypeOK
  <1>2. account[a].surplus > 0 => account[a].balance = 0
    BY DEF CreditInv, DebtOrSurplus
  <1>3. CASE PublishPeer(a)
    <2> DEFINE new == [account[a] EXCEPT !.connection = session]
    <2>1. account' = [account EXCEPT ![a] = new] /\ UNCHANGED <<request, peak>>
      BY <1>3 DEF PublishPeer, history
    <2>2. new \in Accounts /\ SameAmounts(new, account[a])
      BY <1>1 DEF Accounts, AccountType, SameAmounts, TypeInv, TypeOK
    <2> HIDE DEF new
    <2>3. account[a].balance \in Nat
      BY <1>1 DEF Accounts, AccountType
    <2>4. /\ new \in Accounts
          /\ new.reserve = account[a].reserve /\ new.threshold = account[a].threshold
          /\ new.balance <= account[a].balance
          /\ new.surplus > 0 => new.balance = 0
      BY <1>2, <2>2, <2>3 DEF SameAmounts
    <2> QED  BY <2>1, <2>4, CreditOneAccount
  <1>4. CASE \E amount \in Thresholds : AnnounceThreshold(a, amount)
    <2>1. PICK amount \in Thresholds : AnnounceThreshold(a, amount)
      BY <1>4
    <2>2. amount \in Nat
      BY SettlementAssumption
    <2> DEFINE updated == [account[a] EXCEPT !.threshold = amount]
    <2>3. /\ updated \in Accounts
          /\ updated.balance = account[a].balance /\ updated.surplus = account[a].surplus
          /\ updated.reserve = account[a].reserve /\ updated.threshold = amount
      BY <1>1, <2>2 DEF Accounts, AccountType
    <2>4. \E new \in Accounts :
             account' = [account EXCEPT ![a] = new] /\ SameAmounts(new, updated)
      <3>1. CASE updated.balance > 0
        <4>1. ScheduleRefresh(a, updated, updated.reserve = 0)
          BY <2>1, <3>1 DEF AnnounceThreshold, set_payment_threshold
        <4> HIDE DEF updated
        <4> QED  BY <2>3, <4>1, ScheduleAmounts
      <3>2. CASE ~(updated.balance > 0)
        <4>1. account' = [account EXCEPT ![a] = updated]
          BY <2>1, <3>2 DEF AnnounceThreshold, set_payment_threshold
        <4> HIDE DEF updated
        <4> QED  BY <2>3, <4>1 DEF SameAmounts
      <3> QED  BY <3>1, <3>2
    <2>5. PICK new \in Accounts :
             account' = [account EXCEPT ![a] = new] /\ SameAmounts(new, updated)
      BY <2>4
    <2> HIDE DEF updated
    <2>6. /\ request' = request
          /\ peak' = [peak EXCEPT ![a] = AtLeast(peak[a], amount)]
      BY <2>1 DEF AnnounceThreshold
    <2>7. \A b \in Account : /\ account'[b] = IF b = a THEN new ELSE account[b]
                             /\ peak'[b] \in Nat /\ peak[b] \in Nat
                             /\ peak[b] <= peak'[b]
                             /\ b = a => amount <= peak'[b]
      BY <2>2, <2>5, <2>6 DEF TypeInv, TypeOK, AtLeast
    <2>8. \A b \in Account :
             /\ account[b].balance \in Nat /\ account[b].reserve \in Nat
             /\ account[b].threshold \in Nat
      BY DEF TypeInv, TypeOK, Accounts, AccountType
    <2>9. \A b \in Account : Held(b)' = Held(b)
      BY <2>6 DEF Held
    <2>10. ReserveMatchesRequests'
      BY <2>3, <2>5, <2>7, <2>9 DEF CreditInv, ReserveMatchesRequests, SameAmounts
    <2>11. CreditWithinThreshold' /\ PeakCoversThreshold' /\ DebtOrSurplus'
      BY <1>2, <2>2, <2>3, <2>5, <2>7, <2>8
      DEF CreditInv, CreditWithinThreshold, PeakCoversThreshold, DebtOrSurplus, SameAmounts
    <2> QED  BY <2>10, <2>11 DEF CreditInv
  <1> QED  BY <1>3, <1>4 DEF AccountStep

LEMMA RequestCredit ==
    ASSUME TypeInv, CreditInv, TypeInv', NEW r \in Request, RequestStep(r)
    PROVE  CreditInv'
  <1>1. CASE \E amount \in Prices : SelectPeer(r, amount)
    <2>1. PICK amount \in Prices : SelectPeer(r, amount)
      BY <1>1
    <2>2. amount \in Nat
      BY PricesNat
    <2>3. PICK a \in Account : a = current
      BY <2>1 DEF SelectPeer, TypeInv, TypeOK
    <2>4. account[a] \in Accounts /\ peak[a] \in Nat
      BY DEF TypeInv, TypeOK
    <2>5. peak' = peak /\ request[r] = NoRequest
      BY <2>1 DEF SelectPeer, history
    <2>6. CASE ~exclusive_physical_connection(account[current].connection)
      BY <2>1, <2>5, <2>6, CreditUnchanged DEF SelectPeer
    <2>7. CASE exclusive_physical_connection(account[current].connection)
      <3> DEFINE new == reserve(account[a], amount)
                 started == [account |-> a, connection |-> account[a].connection,
                             price |-> amount]
      <3>1. /\ account' = [account EXCEPT ![a] = new]
            /\ request' = [request EXCEPT ![r] = started]
        BY <2>1, <2>3, <2>7 DEF SelectPeer
      <3>2. started \in Requests
        BY <2>1, <2>3, <2>4 DEF SelectPeer, Requests, Accounts, AccountType
      <3>3. started.account = a /\ started.price = amount
        OBVIOUS
      <3>4. /\ new.reserve = account[a].reserve + amount
            /\ new.balance = account[a].balance /\ new.surplus = account[a].surplus
            /\ new.threshold = account[a].threshold
        BY <2>2, <2>4, ReserveFacts
      <3>5. account[a].balance + account[a].reserve + amount <= account[a].threshold
        BY <2>1, <2>3 DEF SelectPeer, CanReserve
      <3> HIDE DEF new, started
      <3>6. \A b \in Account : account'[b] = IF b = a THEN new ELSE account[b]
        BY <3>1 DEF TypeInv, TypeOK
      <3>7. \A b \in Account :
               Cardinality(Held(b)') = Cardinality(Held(b)) + (IF b = a THEN amount ELSE 0)
        BY <2>5, <3>1, <3>2, <3>3, HeldAdded
      <3>8. \A b \in Account :
               /\ account[b].balance \in Nat /\ account[b].reserve \in Nat
               /\ account[b].threshold \in Nat /\ peak[b] \in Nat
        BY DEF TypeInv, TypeOK, Accounts, AccountType
      <3>9. ReserveMatchesRequests'
        BY <3>4, <3>6, <3>7, <3>8, HeldFinite DEF CreditInv, ReserveMatchesRequests
      <3>10. CreditWithinThreshold' /\ PeakCoversThreshold' /\ DebtOrSurplus'
        BY <2>2, <2>5, <3>4, <3>5, <3>6, <3>8
        DEF CreditInv, CreditWithinThreshold, PeakCoversThreshold, DebtOrSurplus
      <3> QED  BY <3>9, <3>10 DEF CreditInv
    <2> QED  BY <2>6, <2>7
  <1>2. ASSUME request[r] # NoRequest
        PROVE  /\ request[r].account \in Account
               /\ request[r].price \in Nat
               /\ account[request[r].account] \in Accounts
               /\ account[request[r].account].surplus > 0
                     => account[request[r].account].balance = 0
    <2>1. request[r] \in Requests
      BY <1>2 DEF TypeInv, TypeOK
    <2> QED  BY <2>1, PricesNat DEF Requests, TypeInv, TypeOK, CreditInv, DebtOrSurplus
  <1>3. CASE DeliverChunk(r)
    <2>1. request[r] # NoRequest /\ request' = [request EXCEPT ![r] = NoRequest]
      BY <1>3 DEF DeliverChunk
    <2>2. PICK a \in Account, p \in Nat : a = request[r].account /\ p = request[r].price
      BY <1>2, <2>1
    <2> DEFINE credited == apply_credit(account[a], p)
    <2>3. /\ credited \in Accounts
          /\ p <= account[a].reserve => credited.reserve = account[a].reserve - p
          /\ credited.balance <= account[a].balance + p
          /\ credited.threshold = account[a].threshold
          /\ credited.surplus > 0 => credited.balance = 0
      BY <1>2, <2>1, <2>2, CreditFacts
    <2>4. ScheduleRefresh(a, credited, credited.reserve = 0) /\ peak' = peak
      BY <1>3, <2>2 DEF DeliverChunk, history
    <2> HIDE DEF credited
    <2>5. PICK new \in Accounts :
             account' = [account EXCEPT ![a] = new] /\ SameAmounts(new, credited)
      BY <2>3, <2>4, ScheduleAmounts
    <2> QED  BY <2>1, <2>2, <2>3, <2>4, <2>5, CreditSettled DEF SameAmounts
  <1>4. ASSUME request[r] # NoRequest, request' = [request EXCEPT ![r] = NoRequest],
               peak' = peak,
               NEW a \in Account, a = request[r].account,
               NEW p \in Nat, p = request[r].price,
               NEW new \in Accounts, account' = [account EXCEPT ![a] = new],
               SameAmounts(new, cancel_reserve(account[a], p))
        PROVE  CreditInv'
    <2>1. account[a].balance \in Nat /\ account[a] \in Accounts
      BY DEF TypeInv, TypeOK, Accounts, AccountType
    <2>2. /\ p <= account[a].reserve => new.reserve = account[a].reserve - p
          /\ new.balance = account[a].balance /\ new.surplus = account[a].surplus
          /\ new.threshold = account[a].threshold
      BY <1>4, <2>1, CancelFacts DEF SameAmounts
    <2>3. account[a].balance <= account[a].balance + p
      BY <2>1
    <2> QED  BY <1>2, <1>4, <2>2, <2>3, CreditSettled
  <1>5. CASE FailRequest(r)
    <2>1. /\ request[r] # NoRequest /\ request' = [request EXCEPT ![r] = NoRequest]
          /\ peak' = peak
      BY <1>5 DEF FailRequest, history
    <2>2. PICK a \in Account, p \in Nat : a = request[r].account /\ p = request[r].price
      BY <1>2, <2>1
    <2>3. account' = [account EXCEPT ![a] = cancel_reserve(account[a], p)]
      BY <1>5, <2>2 DEF FailRequest
    <2>4. cancel_reserve(account[a], p) \in Accounts
      BY <1>2, <2>1, <2>2, CancelFacts
    <2> QED  BY <1>4, <2>1, <2>2, <2>3, <2>4 DEF SameAmounts
  <1>6. CASE TimeOutRetrieval(r)
    <2>1. /\ request[r] # NoRequest /\ request' = [request EXCEPT ![r] = NoRequest]
          /\ peak' = peak
      BY <1>6 DEF TimeOutRetrieval, history
    <2>2. PICK a \in Account, p \in Nat : a = request[r].account /\ p = request[r].price
      BY <1>2, <2>1
    <2> DEFINE cancelled == cancel_reserve(account[a], p)
               retired == [cancelled EXCEPT !.scheduled = TRUE]
    <2>3. \/ account' = [account EXCEPT ![a] = cancelled]
          \/ account' = [account EXCEPT ![a] = retired]
      BY <1>6, <2>2 DEF TimeOutRetrieval
    <2>4. cancelled \in Accounts
      BY <1>2, <2>1, <2>2, CancelFacts
    <2>5. retired \in Accounts /\ SameAmounts(retired, cancelled)
      <3> HIDE DEF cancelled
      <3> QED  BY <2>4 DEF Accounts, AccountType, SameAmounts
    <2>6. SameAmounts(cancelled, cancelled)
      BY DEF SameAmounts
    <2> HIDE DEF retired
    <2>7. PICK new \in Accounts :
             account' = [account EXCEPT ![a] = new] /\ SameAmounts(new, cancelled)
      BY <2>3, <2>4, <2>5, <2>6
    <2> QED  BY <1>4, <2>1, <2>2, <2>7
  <1> QED  BY <1>1, <1>3, <1>5, <1>6 DEF RequestStep

(* A task that hands its account on, or gives it up, touches no amount.    *)
LEMMA ReleaseCredit ==
    ASSUME TypeInv, CreditInv, TypeInv', NEW t \in Task, task[t].step # "idle",
           request' = request, peak' = peak,
           NEW settled \in Accounts,
           account' = [account EXCEPT ![task[t].account] = settled],
           settled.reserve = account[task[t].account].reserve,
           settled.threshold = account[task[t].account].threshold,
           settled.balance <= account[task[t].account].balance,
           settled.surplus > 0 => settled.balance = 0
    PROVE  CreditInv'
  <1>1. PICK a \in Account : a = task[t].account
    BY LiveTask
  <1> QED  BY <1>1, CreditOneAccount

LEMMA TaskCredit ==
    ASSUME TypeInv, CreditInv, TypeInv', NEW t \in Task,
           RefreshStep(t) \/ RefreshOutcome(t) \/ RetireStep(t)
    PROVE  CreditInv'
  <1> DEFINE own == account[task[t].account]
  <1>1. request' = request /\ peak' = peak
    BY DEF RefreshStep, RefreshOutcome, RetireStep, RefreshLoop, RefreshCheck, RefreshSend,
           RefreshClaim, RefreshNotDispatched, RefreshAcknowledgedNothing,
           RefreshAcknowledged, RefreshAmbiguous, Quiesce, Park, CloseSession, history
  <1>2. task[t].step # "idle"
    BY DEF RefreshStep, RefreshOutcome, RetireStep, RefreshLoop, RefreshCheck, RefreshSend,
           RefreshClaim, RefreshNotDispatched, RefreshAcknowledgedNothing,
           RefreshAcknowledged, RefreshAmbiguous, Quiesce, Park, CloseSession
  <1>3. /\ own \in Accounts /\ own.balance \in Nat
        /\ own.surplus > 0 => own.balance = 0
    BY <1>2, LiveTask DEF Accounts, AccountType, CreditInv, DebtOrSurplus
  <1>4. ASSUME NEW new \in Accounts, SameAmounts(new, own) ,
               account' = [account EXCEPT ![task[t].account] = new]
        PROVE  CreditInv'
    <2>1. /\ new.reserve = own.reserve /\ new.threshold = own.threshold
          /\ new.balance <= own.balance
          /\ new.surplus > 0 => new.balance = 0
      BY <1>3, <1>4 DEF SameAmounts
    <2> QED  BY <1>1, <1>2, <1>4, <2>1, ReleaseCredit
  <1>5. CASE account' = account
    BY <1>1, <1>5, CreditUnchanged
  <1>6. CASE ReleaseSettlement(t, own)
    <2> DEFINE new == [own EXCEPT !.scheduled = FALSE]
    <2>1. account' = [account EXCEPT ![task[t].account] = new]
      BY <1>6 DEF ReleaseSettlement
    <2> HIDE DEF own
    <2>2. new \in Accounts /\ SameAmounts(new, own)
      BY <1>3 DEF Accounts, AccountType, SameAmounts
    <2> HIDE DEF new
    <2> QED  BY <1>4, <2>1, <2>2
  <1>7. CASE RefreshLoop(t)
    BY <1>5, <1>6, <1>7 DEF RefreshLoop
  <1>8. CASE RefreshCheck(t)
    BY <1>5, <1>6, <1>8 DEF RefreshCheck, Advance
  <1>9. CASE RefreshSend(t)
    BY <1>5, <1>6, <1>9 DEF RefreshSend
  <1>10. CASE RefreshAcknowledgedNothing(t)
    <2> DEFINE stamped == [own EXCEPT !.refreshed = TRUE, !.balance = 0]
               new == [stamped EXCEPT !.scheduled = FALSE]
    <2>1. account' = [account EXCEPT ![task[t].account] = new]
      BY <1>10 DEF RefreshAcknowledgedNothing, ReleaseSettlement
    <2> HIDE DEF own
    <2>2. /\ stamped \in Accounts /\ stamped.balance = 0
          /\ stamped.reserve = own.reserve /\ stamped.threshold = own.threshold
      BY <1>3 DEF Accounts, AccountType
    <2> HIDE DEF stamped
    <2>3. new \in Accounts /\ SameAmounts(new, stamped)
      BY <2>2 DEF Accounts, AccountType, SameAmounts
    <2> HIDE DEF new
    <2>4. /\ new.balance <= own.balance /\ new.balance = 0
          /\ new.reserve = own.reserve /\ new.threshold = own.threshold
      BY <1>3, <2>2, <2>3 DEF SameAmounts
    <2> QED  BY <1>1, <1>2, <2>1, <2>3, <2>4, ReleaseCredit DEF own
  <1>11. ASSUME NEW amount \in 1..task[t].amount, RefreshAcknowledged(t, amount)
         PROVE  CreditInv'
    <2> DEFINE stamped == [own EXCEPT !.refreshed = TRUE]
               new == apply_refreshment(stamped, amount)
    <2>1. account' = [account EXCEPT ![task[t].account] = new]
      BY <1>11 DEF RefreshAcknowledged
    <2>2. amount \in Nat
      BY <1>2, <1>11, LiveTask DEF Tasks
    <2> HIDE DEF own
    <2>3. stamped \in Accounts /\ SameAmounts(stamped, own)
      BY <1>3 DEF Accounts, AccountType, SameAmounts
    <2> HIDE DEF stamped
    <2>4. /\ new \in Accounts
          /\ new.reserve = stamped.reserve /\ new.threshold = stamped.threshold
          /\ new.balance <= stamped.balance
          /\ (stamped.surplus > 0 => stamped.balance = 0)
                => (new.surplus > 0 => new.balance = 0)
      BY <2>2, <2>3, RefreshmentFacts
    <2> HIDE DEF new
    <2>5. /\ new.reserve = own.reserve /\ new.threshold = own.threshold
          /\ new.balance <= own.balance
          /\ new.surplus > 0 => new.balance = 0
      BY <1>3, <2>3, <2>4 DEF SameAmounts
    <2> QED  BY <1>1, <1>2, <2>1, <2>4, <2>5, ReleaseCredit DEF own
  <1>12. CASE Quiesce(t)
    <2> DEFINE new == [own EXCEPT !.connection = None]
    <2>1. \/ account' = account
          \/ account' = [account EXCEPT ![task[t].account] = new]
      BY <1>12 DEF Quiesce
    <2> HIDE DEF own
    <2>2. new \in Accounts /\ SameAmounts(new, own)
      BY <1>3 DEF Accounts, AccountType, SameAmounts
    <2> HIDE DEF new
    <2> QED  BY <1>4, <1>5, <2>1, <2>2
  <1>13. CASE \/ RefreshClaim(t) \/ RefreshNotDispatched(t) \/ RefreshAmbiguous(t)
              \/ Park(t) \/ CloseSession(t)
    BY <1>5, <1>13 DEF RefreshClaim, RefreshNotDispatched, RefreshAmbiguous, Advance,
                       Park, CloseSession
  <1> QED
    BY <1>7, <1>8, <1>9, <1>10, <1>11, <1>12, <1>13
    DEF RefreshStep, RefreshOutcome, RetireStep

LEMMA ChequeCredit ==
    ASSUME TypeInv, CreditInv, TypeInv', NEW g \in Generation, ChequeStep(g)
    PROVE  CreditInv'
  <1>1. request' = request /\ peak' = peak
    BY DEF ChequeStep, ChequeStart, ChequeIssued, ChequeResult, ChequeApply, StepCheque,
           history
  <1>2. CASE account' = account
    BY <1>1, <1>2, CreditUnchanged
  <1>3. CASE ChequeStart(g) \/ ChequeIssued(g) \/ ChequeResult(g)
    BY <1>2, <1>3 DEF ChequeStart, ChequeIssued, ChequeResult, StepCheque
  <1>4. CASE ChequeApply(g) /\ account' # account
    <2>1. cheque[g].account \in Account /\ cheque[g].amount \in Nat
      BY <1>4 DEF ChequeApply, TypeInv, TypeOK, Cheques
    <2>2. PICK a \in Account, n \in Nat : a = cheque[g].account /\ n = cheque[g].amount
      BY <2>1
    <2> DEFINE new == apply_refreshment(account[a], n)
    <2>3. account' = [account EXCEPT ![a] = new]
      BY <1>4, <2>2 DEF ChequeApply
    <2>4. account[a] \in Accounts /\ (account[a].surplus > 0 => account[a].balance = 0)
      BY DEF TypeInv, TypeOK, CreditInv, DebtOrSurplus
    <2>5. /\ new \in Accounts
          /\ new.reserve = account[a].reserve /\ new.threshold = account[a].threshold
          /\ new.balance <= account[a].balance
          /\ new.surplus > 0 => new.balance = 0
      BY <2>4, RefreshmentFacts
    <2> HIDE DEF new
    <2> QED  BY <1>1, <2>3, <2>5, CreditOneAccount
  <1> QED  BY <1>2, <1>3, <1>4 DEF ChequeStep

-----------------------------------------------------------------------------
LEMMA WorkerCredit ==
    ASSUME TypeInv, CreditInv, TypeInv', WorkerStep
    PROVE  CreditInv'
  <1>1. request' = request /\ peak' = peak /\ account' = account
    BY DEF WorkerStep, HoldWorker, FreeWorker, TakeBatch, history
  <1> QED  BY <1>1, CreditUnchanged

LEMMA InitCredit == Init => CreditInv
  <1> SUFFICES ASSUME Init PROVE CreditInv
    OBVIOUS
  <1>1. \A a \in Account :
           /\ account[a].balance = 0 /\ account[a].reserve = 0
           /\ account[a].threshold = 0 /\ account[a].surplus = 0 /\ peak[a] = 0
    BY DEF Init, NewAccount
  <1>2. \A a \in Account : Held(a) = {}
    BY SettlementAssumption DEF Init, Held, NoRequest
  <1> QED
    BY <1>1, <1>2, FS_EmptySet
    DEF CreditInv, ReserveMatchesRequests, CreditWithinThreshold, PeakCoversThreshold,
        DebtOrSurplus

LEMMA NextCredit == TypeInv /\ CreditInv /\ [Next]_vars => CreditInv'
  <1> SUFFICES ASSUME TypeInv, CreditInv, [Next]_vars PROVE CreditInv'
    OBVIOUS
  <1>1. TypeInv'
    BY NextType
  <1>2. CASE UNCHANGED vars
    BY <1>1, <1>2, CreditUnchanged DEF vars, history
  <1> QED
    BY <1>1, <1>2, ConnectionCredit, AccountStepCredit, RequestCredit, TaskCredit,
       ChequeCredit, WorkerCredit DEF Next

LEMMA CreditInvariant == Spec => [](TypeInv /\ CreditInv)
  <1>1. Init => TypeInv /\ CreditInv
    BY InitType, InitCredit
  <1>2. (TypeInv /\ CreditInv) /\ [Next]_vars => (TypeInv /\ CreditInv)'
    BY NextType, NextCredit
  <1> QED  BY <1>1, <1>2, PTL DEF Spec

(* However requests are selected, answered, timed out, rolled back or      *)
(* outlive their session, an account's reserve is the sum of the prices of *)
(* its requests in flight: no token is settled twice and none is lost.     *)
THEOREM ReserveExact == Spec => []ReserveMatchesRequests
  <1>1. TypeInv /\ CreditInv => ReserveMatchesRequests
    BY DEF CreditInv
  <1> QED  BY CreditInvariant, <1>1, PTL

(* Debt and reserve together never exceed what the peer once announced it  *)
(* would tolerate, for any mix of prices, thresholds and settlements.      *)
THEOREM CreditBounded == Spec => []CreditWithinThreshold
  <1>1. TypeInv /\ CreditInv => CreditWithinThreshold
    BY DEF CreditInv
  <1> QED  BY CreditInvariant, <1>1, PTL

(* An overpaid account owes nothing.                                       *)
THEOREM OverpaidOwesNothing == Spec => []DebtOrSurplus
  <1>1. TypeInv /\ CreditInv => DebtOrSurplus
    BY DEF CreditInv
  <1> QED  BY CreditInvariant, <1>1, PTL

-----------------------------------------------------------------------------
(* The successive sessions of a peer stay apart: a debt that is due has    *)
(* one settlement task, no cheque clears the account of another session,   *)
(* and settlement closes no session under its own requests.                *)


(* What is known of the connections: who owns the peer file, and when the  *)
(* peer has no other connection.                                           *)
LinksAgree ==
    /\ published => current # None /\ session # None
    /\ current # None => current \in created /\ (session # None \/ reset = "accounts")
    /\ reset # "none" => session = None /\ Physical = {}
    /\ \A c \in Connection : link[c] = "open" /\ c \notin shared => Physical = {c}

(* An account is used only once its peer file is published; until then it  *)
(* has no debt, no request and no task.                                    *)
Opened(a) == a \in created /\ (a = current /\ session # None => published)

AccountsFollow ==
    \A a \in Account :
        /\ account[a].balance > 0 \/ account[a].connection # None => Opened(a)
        /\ a = current /\ session # None => account[a].connection \in {session, None}

RequestsFollow ==
    \A r \in Request : request[r] # NoRequest => Opened(request[r].account)

(* Nobody can reserve on an account that is shut: the peer has another, or *)
(* no connection serves it, or every connection was just dropped.          *)
Shut(a) == a # current \/ account[a].connection = None \/ reset = "accounts"
ShutSteps == {"drain", "parked", "closed"}

TasksFollow ==
    \A t \in Task : \A a \in Account : task[t] # IdleTask /\ task[t].account = a =>
        /\ Opened(a)
        /\ a = current /\ session # None => task[t].connection = session
        /\ task[t].step \in ShutSteps => Shut(a)

(* A claim lives no longer than the session it was made in.                *)
ClaimsFollow ==
    /\ claim # NoClaim /\ current = None => closing # None \/ reset = "cheques"
    /\ claim # NoClaim /\ current # None => current = claimant[claim.generation]
    /\ \A g \in Generation :
          cheque[g].phase = "applying" /\ cheque[g].account # None
             => cheque[g].account = claimant[g]

FollowInv == LinksAgree /\ AccountsFollow /\ RequestsFollow /\ TasksFollow /\ ClaimsFollow

SessionInv == FollowInv /\ DrainedBeforeClose /\ OneSettlementOwner /\ DueDebtIsOwned

-----------------------------------------------------------------------------
(* What a step does to a task: it goes on for its account and connection,  *)
(* and mostly comes no nearer to closing the session.                      *)
GoesOn(t, new) ==
    /\ task[t] = IdleTask => new = IdleTask
    /\ task[t] # IdleTask =>
          /\ new # IdleTask /\ new.account = task[t].account
          /\ new.connection = task[t].connection

Kept(t, new) ==
    /\ GoesOn(t, new)
    /\ new.step \in ShutSteps => task[t].step \in ShutSteps
    /\ new.step = "closed" => task[t].step = "closed"

Starts(s, a, c) ==
    /\ task[s] = IdleTask /\ task'[s] # IdleTask
    /\ task'[s].account = a /\ task'[s].connection = c /\ task'[s].step \notin ShutSteps
    /\ \A t \in Task \ {s} : Kept(t, task'[t])

LEMMA TaskFacts ==
    ASSUME TypeInv, NEW t \in Task
    PROVE  /\ task[t] \in Tasks
           /\ task[t] # IdleTask <=> task[t].step # "idle"
           /\ task[t] # IdleTask => task[t].account \in Account /\ task[t].connection \in Connection
  <1>1. IdleTask.step = "idle"
    BY DEF IdleTask, TaskAt
  <1> QED  BY <1>1 DEF TypeInv, TypeOK, TaskShape

LEMMA SameKept ==
    ASSUME TypeInv, NEW t \in Task
    PROVE  Kept(t, task[t])
  BY DEF Kept, GoesOn

LEMMA NotifiedKept ==
    ASSUME TypeInv, NEW drained, NEW t \in Task
    PROVE  Kept(t, Notified(task, drained)[t])
  <1>1. /\ Notified(task, drained)[t].account = task[t].account
        /\ Notified(task, drained)[t].connection = task[t].connection
        /\ task[t].step # "parked" => Notified(task, drained)[t] = task[t]
        /\ task[t].step = "parked" => Notified(task, drained)[t].step \in {"parked", "drain"}
    BY NotifiedFacts DEF TypeInv, TypeOK
  <1>2. IdleTask.step = "idle"
    BY DEF IdleTask, TaskAt
  <1>3. CASE task[t].step = "parked"
    BY <1>1, <1>2, <1>3 DEF Kept, GoesOn, ShutSteps
  <1>4. CASE task[t].step # "parked"
    BY <1>1, <1>4 DEF Kept, GoesOn
  <1> QED  BY <1>3, <1>4

(* The account a debt is judged on again, and the task that starts for it. *)
SameDebt(x, y) ==
    /\ x.balance = y.balance /\ x.threshold = y.threshold
    /\ x.connection = y.connection

LEMMA ScheduleEffect ==
    ASSUME TypeInv, NEW a \in Account, NEW updated \in Accounts, NEW drained,
           ScheduleRefresh(a, updated, drained)
    PROVE  \E new \in Accounts :
              /\ account' = [account EXCEPT ![a] = new] /\ SameDebt(new, updated)
              /\ due(new) /\ new.connection # None => new.scheduled
              /\ \/ /\ new.scheduled <=> updated.scheduled
                    /\ \A t \in Task : Kept(t, task'[t])
                 \/ /\ ~updated.scheduled /\ new.scheduled /\ new.connection # None
                    /\ \E s \in Task : Starts(s, a, new.connection)
  <1> DEFINE flagged == [updated EXCEPT !.scheduled = TRUE]
  <1>1. /\ flagged \in Accounts /\ SameDebt(flagged, updated) /\ flagged.scheduled
        /\ SameDebt(updated, updated)
    BY DEF Accounts, AccountType, SameDebt
  <1>2. CASE due(updated) /\ ~updated.scheduled /\ updated.connection # None
    <2>1. PICK s \in Task :
             /\ task[s] = IdleTask
             /\ task' = [Notified(task, drained) EXCEPT ![s] = TaskAt("refresh", a, updated.connection)]
             /\ account' = [account EXCEPT ![a] = flagged]
      BY <1>2 DEF ScheduleRefresh
    <2>2. /\ TaskAt("refresh", a, updated.connection).step = "refresh"
          /\ TaskAt("refresh", a, updated.connection).account = a
          /\ TaskAt("refresh", a, updated.connection).connection = updated.connection
          /\ TaskAt("refresh", a, updated.connection) # IdleTask
      BY DEF TaskAt, IdleTask
    <2>3. task'[s] = TaskAt("refresh", a, updated.connection)
      BY <2>1, NotifiedFacts DEF TypeInv, TypeOK
    <2>4. \A t \in Task \ {s} : task'[t] = Notified(task, drained)[t]
      BY <2>1, NotifiedFacts DEF TypeInv, TypeOK
    <2>5. Starts(s, a, updated.connection)
      BY <2>1, <2>2, <2>3, <2>4, NotifiedKept DEF Starts, ShutSteps
    <2>6. flagged.connection = updated.connection
      BY <1>1 DEF SameDebt
    <2> HIDE DEF flagged
    <2> QED  BY <1>1, <1>2, <2>1, <2>5, <2>6
  <1>3. CASE ~(due(updated) /\ ~updated.scheduled /\ updated.connection # None)
    <2>1. task' = Notified(task, drained) /\ account' = [account EXCEPT ![a] = updated]
      BY <1>3 DEF ScheduleRefresh
    <2>2. \A t \in Task : Kept(t, task'[t])
      BY <2>1, NotifiedKept
    <2>3. due(updated) /\ updated.connection # None => updated.scheduled
      BY <1>3
    <2> QED  BY <1>1, <2>1, <2>2, <2>3
  <1> QED  BY <1>2, <1>3

-----------------------------------------------------------------------------
(* One owner.                                                              *)

LEMMA OwnerKept ==
    ASSUME TypeInv, OneSettlementOwner, \A t \in Task : GoesOn(t, task'[t]),
           \A a \in Account : account'[a].scheduled <=> account[a].scheduled
    PROVE  OneSettlementOwner'
  <1>1. \A t \in Task : /\ task'[t] # IdleTask <=> task[t] # IdleTask
                        /\ task[t] # IdleTask => task'[t].account = task[t].account
    BY DEF GoesOn
  <1>2. \A s, t \in Task :
           task'[s] # IdleTask /\ task'[t] # IdleTask /\ task'[s].account = task'[t].account => s = t
    BY <1>1 DEF OneSettlementOwner
  <1>3. \A a \in Account :
           account'[a].scheduled <=> \E t \in Task : task'[t] # IdleTask /\ task'[t].account = a
    BY <1>1 DEF OneSettlementOwner
  <1> QED  BY <1>2, <1>3 DEF OneSettlementOwner

LEMMA OwnerStarts ==
    ASSUME TypeInv, OneSettlementOwner, NEW s \in Task, NEW a \in Account, NEW c, Starts(s, a, c),
           ~account[a].scheduled, account'[a].scheduled,
           \A b \in Account \ {a} : account'[b].scheduled <=> account[b].scheduled
    PROVE  OneSettlementOwner'
  <1>1. \A t \in Task \ {s} : /\ task'[t] # IdleTask <=> task[t] # IdleTask
                              /\ task[t] # IdleTask => task'[t].account = task[t].account
    BY DEF Starts, Kept, GoesOn
  <1>2. task'[s] # IdleTask /\ task'[s].account = a /\ task[s] = IdleTask
    BY DEF Starts
  <1>3. \A t \in Task : task[t] # IdleTask => task[t].account # a
    BY DEF OneSettlementOwner
  <1>4. \A t, u \in Task :
           task'[t] # IdleTask /\ task'[u] # IdleTask /\ task'[t].account = task'[u].account => t = u
    BY <1>1, <1>2, <1>3 DEF OneSettlementOwner
  <1>5. ASSUME NEW b \in Account
        PROVE  account'[b].scheduled <=> \E t \in Task : task'[t] # IdleTask /\ task'[t].account = b
    <2>1. CASE b = a
      BY <1>2, <2>1
    <2>2. CASE b # a
      BY <1>1, <1>2, <2>2 DEF OneSettlementOwner
    <2> QED  BY <2>1, <2>2
  <1> QED  BY <1>4, <1>5 DEF OneSettlementOwner

LEMMA OwnerReleases ==
    ASSUME TypeInv, OneSettlementOwner, NEW s \in Task, task[s] # IdleTask, task'[s] = IdleTask,
           \A t \in Task \ {s} : task'[t] = task[t],
           ~account'[task[s].account].scheduled,
           \A b \in Account \ {task[s].account} : account'[b].scheduled <=> account[b].scheduled
    PROVE  OneSettlementOwner'
  <1>1. \A t, u \in Task :
           task'[t] # IdleTask /\ task'[u] # IdleTask /\ task'[t].account = task'[u].account => t = u
    BY DEF OneSettlementOwner
  <1>2. ASSUME NEW b \in Account
        PROVE  account'[b].scheduled <=> \E t \in Task : task'[t] # IdleTask /\ task'[t].account = b
    <2>1. CASE b = task[s].account
      BY <2>1 DEF OneSettlementOwner
    <2>2. CASE b # task[s].account
      BY <2>2 DEF OneSettlementOwner
    <2> QED  BY <2>1, <2>2
  <1> QED  BY <1>1, <1>2 DEF OneSettlementOwner

-----------------------------------------------------------------------------
(* Steps within a session: connections may be lost, nothing else of the    *)
(* lifecycle moves.                                                        *)

SessionStays ==
    /\ UNCHANGED <<session, published, closing, reset, current, created, shared>>
    /\ \A c \in Connection : link'[c] = "open" => link[c] = "open"

LEMMA LinksStay ==
    ASSUME LinksAgree, SessionStays
    PROVE  LinksAgree' /\ \A a : Opened(a)' <=> Opened(a)
  <1>1. UNCHANGED <<session, published, reset, current, created, shared>>
    BY DEF SessionStays
  <1>2. Physical' \subseteq Physical
    BY DEF SessionStays, Physical
  <1>3. ASSUME NEW c \in Connection, link'[c] = "open", c \notin shared PROVE Physical' = {c}
    <2>1. Physical = {c}
      BY <1>3 DEF SessionStays, LinksAgree
    <2>2. c \in Physical'
      BY <1>3 DEF Physical
    <2> QED  BY <1>2, <2>1, <2>2
  <1>4. reset # "none" => Physical' = {}
    BY <1>2 DEF LinksAgree
  <1> QED  BY <1>1, <1>3, <1>4 DEF LinksAgree, Opened

LEMMA AccountsStay ==
    ASSUME LinksAgree, AccountsFollow, SessionStays,
           \A a \in Account : /\ account'[a].balance > 0 => account[a].balance > 0 \/ Opened(a)
                              /\ account'[a].connection \in {account[a].connection, None}
    PROVE  AccountsFollow' /\ \A a \in Account : Shut(a) => Shut(a)'
  <1>1. UNCHANGED <<session, reset, current>> /\ \A a : Opened(a)' <=> Opened(a)
    BY LinksStay DEF SessionStays
  <1>2. ASSUME NEW a \in Account
        PROVE  /\ account'[a].balance > 0 \/ account'[a].connection # None => Opened(a)'
               /\ a = current' /\ session' # None => account'[a].connection \in {session', None}
    BY <1>1 DEF AccountsFollow
  <1>3. \A a \in Account : Shut(a) => Shut(a)'
    BY <1>1 DEF Shut
  <1> QED  BY <1>2, <1>3 DEF AccountsFollow

LEMMA RequestsStay ==
    ASSUME LinksAgree, RequestsFollow, SessionStays,
           \A r \in Request : request'[r] \in {request[r], NoRequest} \/ Opened(request'[r].account)
    PROVE  RequestsFollow'
  <1>1. \A a : Opened(a)' <=> Opened(a)
    BY LinksStay
  <1> QED  BY <1>1 DEF RequestsFollow

LEMMA TasksStay ==
    ASSUME LinksAgree, TasksFollow, SessionStays, \A a \in Account : Shut(a) => Shut(a)',
           \A t \in Task, a \in Account : task'[t] # IdleTask /\ task'[t].account = a =>
              \/ /\ task[t] # IdleTask /\ task[t].account = a
                 /\ task'[t].connection = task[t].connection
                 /\ task'[t].step \in ShutSteps => Shut(a)' \/ task[t].step \in ShutSteps
              \/ /\ Opened(a) /\ task'[t].step \notin ShutSteps
                 /\ a = current /\ session # None => task'[t].connection = session
    PROVE  TasksFollow'
  <1>1. UNCHANGED <<session, current>> /\ \A a : Opened(a)' <=> Opened(a)
    BY LinksStay DEF SessionStays
  <1>2. ASSUME NEW t \in Task, NEW a \in Account, task'[t] # IdleTask, task'[t].account = a
        PROVE  /\ Opened(a)
               /\ a = current /\ session # None => task'[t].connection = session
               /\ task'[t].step \in ShutSteps => Shut(a)'
    <2>1. CASE /\ task[t] # IdleTask /\ task[t].account = a
               /\ task'[t].connection = task[t].connection
               /\ task'[t].step \in ShutSteps => Shut(a)' \/ task[t].step \in ShutSteps
      <3>1. /\ Opened(a) /\ (a = current /\ session # None => task[t].connection = session)
            /\ task[t].step \in ShutSteps => Shut(a)
        BY <2>1 DEF TasksFollow
      <3> QED  BY <2>1, <3>1
    <2> QED  BY <1>2, <2>1
  <1> QED  BY <1>1, <1>2 DEF TasksFollow

LEMMA ClosedStays ==
    ASSUME TypeInv, TypeInv', TasksFollow, DrainedBeforeClose,
           \A t \in Task : task'[t].step = "closed" =>
              \/ task[t].step = "closed" /\ task'[t].account = task[t].account
              \/ \A r \in Request : request'[r].account # task'[t].account,
           \A r \in Request : request'[r] \in {request[r], NoRequest} \/ ~Shut(request'[r].account)
    PROVE  DrainedBeforeClose'
  <1>1. ASSUME NEW t \in Task, NEW r \in Request, task'[t].step = "closed",
               task[t].step = "closed", task'[t].account = task[t].account
        PROVE  request'[r].account # task'[t].account
    <2>1. task[t] # IdleTask /\ task[t].account \in Account
      BY <1>1, TaskFacts
    <2>2. Shut(task[t].account)
      BY <1>1, <2>1 DEF TasksFollow, ShutSteps
    <2>3. NoRequest.account # task[t].account
      BY <2>1, SettlementAssumption DEF NoRequest
    <2>4. request[r].account # task[t].account
      BY <1>1 DEF DrainedBeforeClose
    <2> QED  BY <1>1, <2>2, <2>3, <2>4
  <1> QED  BY <1>1 DEF DrainedBeforeClose

DueOwned(acc) == acc.connection = session /\ acc.threshold > 0 /\ due(acc) => acc.scheduled
Watched == published /\ session \notin shared /\ link[session] = "open"

LEMMA DueStays ==
    ASSUME TypeInv, LinksAgree, DueDebtIsOwned, SessionStays,
           Watched /\ current # None /\ DueOwned(account[current]) => DueOwned(account'[current])
    PROVE  DueDebtIsOwned'
  <1>1. UNCHANGED <<session, published, current, shared>>
    BY DEF SessionStays
  <1>2. published /\ link'[session] = "open" => link[session] = "open"
    <2>1. published => session \in Connection
      BY DEF LinksAgree, TypeInv, TypeOK
    <2> QED  BY <2>1 DEF SessionStays
  <1>3. SUFFICES ASSUME published, session \notin shared, link'[session] = "open", current # None
                 PROVE  DueOwned(account'[current])
    BY <1>1 DEF DueDebtIsOwned, DueOwned
  <1>4. Watched
    BY <1>2, <1>3 DEF Watched
  <1>5. DueOwned(account[current])
    BY <1>3, <1>4 DEF DueDebtIsOwned, DueOwned, Watched
  <1> QED  BY <1>3, <1>4, <1>5

LEMMA ClaimsStay ==
    ASSUME ClaimsFollow, SessionStays, claimant' = claimant, claim' \in {claim, NoClaim},
           \A g \in Generation : cheque'[g].phase = "applying" => cheque'[g] = cheque[g]
    PROVE  ClaimsFollow'
  <1>1. UNCHANGED <<closing, reset, current>>
    BY DEF SessionStays
  <1>2. ASSUME NEW g \in Generation, cheque'[g].phase = "applying", cheque'[g].account # None
        PROVE  cheque'[g].account = claimant[g]
    <2>1. cheque'[g] = cheque[g]
      BY <1>2
    <2> QED  BY <1>2, <2>1 DEF ClaimsFollow
  <1>3. claim' # NoClaim => claim' = claim
    OBVIOUS
  <1> QED  BY <1>1, <1>2, <1>3 DEF ClaimsFollow

LEMMA DueFacts ==
    ASSUME NEW acc \in Accounts
    PROVE  acc.balance = 0 => ~due(acc)
  <1>1. acc.threshold \in Nat /\ acc.balance \in Nat /\ RefreshRate \in Nat \ {0} /\ MaxChunkPrice \in Nat
    BY AccountingAssumption DEF Accounts, AccountType
  <1> QED  BY <1>1 DEF due, refreshment_due, RefreshTarget, AtMost, AtLeast, saturating_sub

LEMMA DueFalls ==
    ASSUME NEW acc \in Accounts, NEW new \in Accounts,
           new.threshold = acc.threshold, new.refreshed = acc.refreshed, new.balance <= acc.balance
    PROVE  due(new) => due(acc)
  <1>1. /\ acc.threshold \in Nat /\ acc.balance \in Nat /\ new.balance \in Nat
        /\ RefreshRate \in Nat \ {0} /\ MaxChunkPrice \in Nat
        /\ new.refreshed <=> acc.refreshed
    BY AccountingAssumption DEF Accounts, AccountType
  <1>2. PICK target \in Nat : RefreshTarget(acc.refreshed, acc.threshold) = target
    BY <1>1 DEF RefreshTarget, AtMost, AtLeast, saturating_sub
  <1>3. RefreshTarget(new.refreshed, new.threshold) = target
    BY <1>1, <1>2 DEF RefreshTarget
  <1> QED  BY <1>1, <1>2, <1>3 DEF due, refreshment_due
-----------------------------------------------------------------------------
(* Connections come and go: the account objects, the requests and the      *)
(* cheques stay as they are.                                               *)

LEMMA LifecycleKeeps ==
    ASSUME TypeInv, TypeInv', SessionInv, LinksAgree',
           UNCHANGED <<account, request, cheque, claimant, created>>,
           \A t \in Task : Kept(t, task'[t]),
           current' \in {current, None},
           current' # None =>
              /\ session' \in {session, None}
              /\ published => published' \/ session' = None
              /\ reset = "accounts" => reset' = "accounts",
           claim' \in {claim, NoClaim},
           claim' # NoClaim /\ current' = None => closing' # None \/ reset' = "cheques",
           published' =>
              /\ published /\ session' = session /\ current' = current
              /\ session \notin shared' /\ link'[session] = "open"
                    => session \notin shared /\ link[session] = "open"
    PROVE  SessionInv'
  <1>1. \A a \in Account : a = current' => a = current
    BY SettlementAssumption
  <1>2. ASSUME NEW a \in Account
        PROVE  (Opened(a) => Opened(a)') /\ (Shut(a) => Shut(a)')
    BY <1>1, SettlementAssumption DEF Opened, Shut
  <1>3. AccountsFollow'
    BY <1>1, <1>2, SettlementAssumption DEF SessionInv, FollowInv, AccountsFollow
  <1>4. RequestsFollow'
    <2>1. ASSUME NEW r \in Request, request[r] # NoRequest, NEW a \in Account, a = request[r].account
          PROVE  Opened(a)'
      BY <1>2, <2>1 DEF SessionInv, FollowInv, RequestsFollow
    <2>2. \A r \in Request : request[r] # NoRequest => request[r].account \in Account
      BY DEF TypeInv, TypeOK, Requests
    <2> QED  BY <2>1, <2>2 DEF RequestsFollow
  <1>5. ASSUME NEW t \in Task, NEW a \in Account, task'[t] # IdleTask, task'[t].account = a
        PROVE  /\ Opened(a)'
               /\ a = current' /\ session' # None => task'[t].connection = session'
               /\ task'[t].step \in ShutSteps => Shut(a)'
    <2>1. /\ task[t] # IdleTask /\ task[t].account = a
          /\ task'[t].connection = task[t].connection
          /\ task'[t].step \in ShutSteps => task[t].step \in ShutSteps
      BY <1>5 DEF Kept, GoesOn
    <2>2. /\ Opened(a) /\ (a = current /\ session # None => task[t].connection = session)
          /\ task[t].step \in ShutSteps => Shut(a)
      BY <2>1 DEF SessionInv, FollowInv, TasksFollow
    <2>3. a = current' /\ session' # None => a = current /\ session' = session
      BY <1>1, SettlementAssumption
    <2> QED  BY <1>2, <2>1, <2>2, <2>3
  <1>6. TasksFollow'
    BY <1>5 DEF TasksFollow
  <1>7. ClaimsFollow'
    <2>1. claim' # NoClaim /\ current' # None => current' = claimant'[claim'.generation]
      BY DEF SessionInv, FollowInv, ClaimsFollow
    <2> QED  BY <2>1 DEF SessionInv, FollowInv, ClaimsFollow
  <1>8. DrainedBeforeClose'
    <2>1. \A t \in Task : task'[t].step = "closed" =>
             task[t].step = "closed" /\ task'[t].account = task[t].account
      BY TaskFacts DEF Kept, GoesOn
    <2> QED  BY <2>1, ClosedStays DEF SessionInv, FollowInv
  <1>9. OneSettlementOwner'
    BY OwnerKept DEF SessionInv, Kept
  <1>10. DueDebtIsOwned'
    <2>1. SUFFICES ASSUME published', session' \notin shared', link'[session'] = "open", current' # None
                   PROVE  DueOwned(account[current])
      BY DEF DueDebtIsOwned, DueOwned
    <2>2. session \notin shared /\ link[session] = "open" /\ published /\ current # None
      BY <2>1
    <2> QED  BY <2>2 DEF SessionInv, DueDebtIsOwned, DueOwned
  <1> QED  BY <1>3, <1>4, <1>6, <1>7, <1>8, <1>9, <1>10 DEF SessionInv, FollowInv

LEMMA LinksOpen ==
    ASSUME TypeInv, TypeInv', LinksAgree, NEW c \in Connection,
           Dial(c) \/ OpenDuplicate(c) \/ Adopt(c)
    PROVE  LinksAgree'
  <1>1. CASE Dial(c)
    <2>1. Physical' = {c}
      BY <1>1 DEF Dial, Physical, TypeInv, TypeOK
    <2>2. reset' = "none" /\ ~published' /\ current' = None
      BY <1>1 DEF Dial, LinksAgree
    <2>3. \A d \in Connection : link'[d] = "open" => d = c
      BY <1>1, <2>1 DEF Dial, Physical
    <2> QED  BY <2>1, <2>2, <2>3 DEF LinksAgree
  <1>2. CASE OpenDuplicate(c)
    <2>1. UNCHANGED <<session, published, reset, current, created>> /\ reset = "none"
      BY <1>2 DEF OpenDuplicate, LinksAgree
    <2>2. \A d \in Connection : link'[d] = "open" => d \in shared'
      BY <1>2 DEF OpenDuplicate, Physical, TypeInv, TypeOK
    <2> QED  BY <2>1, <2>2 DEF LinksAgree
  <1>3. CASE Adopt(c)
    <2>1. reset' = "none" /\ ~published' /\ current' = None /\ Physical' = Physical
      BY <1>3 DEF Adopt, LinksAgree, Physical
    <2>2. UNCHANGED <<link, shared>>
      BY <1>3 DEF Adopt, history
    <2> QED  BY <2>1, <2>2 DEF LinksAgree
  <1> QED  BY <1>1, <1>2, <1>3

LEMMA ConnectionSessions ==
    ASSUME TypeInv, TypeInv', SessionInv, NEW c \in Connection, ConnectionStep(c)
    PROVE  SessionInv'
  <1>1. LinksAgree /\ ClaimsFollow /\ \A t \in Task : Kept(t, task[t])
    BY SameKept DEF SessionInv, FollowInv
  <1>2. CASE Dial(c)
    <2>1. UNCHANGED <<published, closing, reset, current, account, created, request, task, claim,
                      cheque, claimant>> /\ ~published /\ current = None
      BY <1>1, <1>2 DEF Dial, history, LinksAgree
    <2>2. claim # NoClaim => closing # None \/ reset = "cheques"
      BY <1>1, <2>1 DEF ClaimsFollow
    <2>3. LinksAgree'
      BY <1>1, <1>2, LinksOpen
    <2> QED  BY <1>1, <2>1, <2>2, <2>3, LifecycleKeeps
  <1>3. CASE Adopt(c)
    <2>1. UNCHANGED <<published, closing, reset, current, account, created, request, task, claim,
                      cheque, claimant>> /\ ~published /\ current = None
      BY <1>1, <1>3 DEF Adopt, history, LinksAgree
    <2>2. claim # NoClaim => closing # None \/ reset = "cheques"
      BY <1>1, <2>1 DEF ClaimsFollow
    <2>3. LinksAgree'
      BY <1>1, <1>3, LinksOpen
    <2> QED  BY <1>1, <2>1, <2>2, <2>3, LifecycleKeeps
  <1>4. CASE OpenDuplicate(c)
    <2>1. UNCHANGED <<session, published, closing, reset, current, account, created, request, task,
                      claim, cheque, claimant>>
      BY <1>4 DEF OpenDuplicate
    <2>2. claim # NoClaim /\ current = None => closing # None \/ reset = "cheques"
      BY <1>1 DEF ClaimsFollow
    <2>3. LinksAgree'
      BY <1>1, <1>4, LinksOpen
    <2>4. session \notin shared' /\ link'[session] = "open" => session \notin shared /\ link[session] = "open"
      BY <1>4 DEF OpenDuplicate, TypeInv, TypeOK
    <2> QED  BY <1>1, <2>1, <2>2, <2>3, <2>4, LifecycleKeeps
  <1>5. CASE Disconnect(c)
    <2>1. UNCHANGED <<session, published, closing, reset, current, account, created, request, task,
                      claim, cheque, claimant, shared>>
      BY <1>5 DEF Disconnect, history
    <2>2. claim # NoClaim /\ current = None => closing # None \/ reset = "cheques"
      BY <1>1 DEF ClaimsFollow
    <2>3. \A d \in Connection : link'[d] = "open" => link[d] = "open"
      BY <1>5 DEF Disconnect, TypeInv, TypeOK
    <2>4. LinksAgree'
      BY <1>1, <2>1, <2>3, LinksStay DEF SessionStays
    <2>5. published => session \in Connection
      BY <1>1 DEF LinksAgree, TypeInv, TypeOK
    <2> QED  BY <1>1, <2>1, <2>2, <2>3, <2>4, <2>5, LifecycleKeeps
  <1>6. CASE HandleClosed(c)
    <2>1. UNCHANGED <<reset, account, created, request, task, claim, cheque, claimant, shared>>
      BY <1>6 DEF HandleClosed, history
    <2>2. \A d \in Connection : link'[d] = "open" <=> link[d] = "open"
      BY <1>6 DEF HandleClosed, TypeInv, TypeOK
    <2>3. Physical' = Physical
      BY <2>2 DEF Physical
    <2>4. CASE session = c /\ session' = None /\ ~published' /\ current' = None /\ closing' = c
      <3>1. LinksAgree'
        BY <1>1, <2>1, <2>2, <2>3, <2>4 DEF LinksAgree
      <3>2. closing' # None
        BY <2>4, SettlementAssumption
      <3> QED  BY <1>1, <2>1, <2>4, <3>1, <3>2, LifecycleKeeps
    <2>5. CASE UNCHANGED <<session, published, current, closing>>
      <3>1. LinksAgree'
        BY <1>1, <2>1, <2>2, <2>3, <2>5 DEF LinksAgree
      <3>2. claim # NoClaim /\ current = None => closing # None \/ reset = "cheques"
        BY <1>1 DEF ClaimsFollow
      <3>3. published => session \in Connection
        BY <1>1 DEF LinksAgree, TypeInv, TypeOK
      <3> QED  BY <1>1, <2>1, <2>2, <2>5, <3>1, <3>2, <3>3, LifecycleKeeps
    <2> QED  BY <1>6, <2>4, <2>5 DEF HandleClosed
  <1> QED  BY <1>2, <1>3, <1>4, <1>5, <1>6 DEF ConnectionStep

LEMMA ResetSessions ==
    ASSUME TypeInv, TypeInv', SessionInv, HandleClosedCheque \/ disconnect_all_peers
    PROVE  SessionInv'
  <1>1. /\ LinksAgree /\ ClaimsFollow
        /\ \A t \in Task : Kept(t, task[t]) /\ Kept(t, Notified(task, TRUE)[t])
    BY SameKept, NotifiedKept DEF SessionInv, FollowInv
  <1>2. CASE HandleClosedCheque
    <2>1. /\ UNCHANGED <<link, session, published, reset, current, account, created, request, cheque,
                         claimant, shared>>
          /\ claim' = NoClaim /\ task' = Notified(task, TRUE)
      BY <1>2 DEF HandleClosedCheque, history
    <2>2. LinksAgree'
      BY <1>1, <2>1 DEF LinksAgree, Physical
    <2> QED  BY <1>1, <2>1, <2>2, LifecycleKeeps
  <1>3. CASE /\ reset = "none" /\ reset' = "accounts" /\ closing = None
             /\ link' = [d \in Connection |-> IF link[d] = "open" THEN "lost" ELSE link[d]]
             /\ session' = None /\ ~published'
             /\ UNCHANGED <<closing, current, account, created, request, task, claim, cheque, history>>
    <2>1. \A d \in Connection : link'[d] # "open"
      BY <1>3
    <2>2. Physical' = {}
      BY <2>1 DEF Physical
    <2>3. LinksAgree'
      BY <1>1, <1>3, <2>1, <2>2 DEF LinksAgree
    <2>4. claim # NoClaim => current # None
      BY <1>1, <1>3 DEF ClaimsFollow
    <2> QED  BY <1>1, <1>3, <2>3, <2>4, LifecycleKeeps DEF history
  <1>4. CASE /\ reset = "accounts" /\ reset' = "cheques" /\ current' = None
             /\ UNCHANGED <<link, session, published, closing, account, created, request, task, claim,
                            cheque, history>>
    <2>1. LinksAgree' /\ ~published
      BY <1>1, <1>4 DEF LinksAgree, Physical, history
    <2> QED  BY <1>1, <1>4, <2>1, LifecycleKeeps DEF history
  <1>5. CASE /\ reset = "cheques" /\ reset' = "none" /\ claim' = NoClaim /\ task' = Notified(task, TRUE)
             /\ UNCHANGED <<link, session, published, closing, current, account, created, request,
                            cheque, history>>
    <2>1. LinksAgree' /\ ~published /\ current = None
      BY <1>1, <1>5 DEF LinksAgree, Physical, history
    <2> QED  BY <1>1, <1>5, <2>1, LifecycleKeeps DEF history
  <1> QED  BY <1>2, <1>3, <1>4, <1>5 DEF disconnect_all_peers, ConnectedLockFree
-----------------------------------------------------------------------------
(* The account appears, or learns its connection or its threshold.         *)

LEMMA Appears ==
    ASSUME TypeInv, SessionInv, NEW a \in Account, AccountForPeer(a),
           session # None, exclusive_physical_connection(session), closing = None
    PROVE  /\ reset = "none"
           /\ current = None => claim = NoClaim
           /\ current = None \/ current = a
           /\ Opened(a) => current = a /\ published
           /\ ~Opened(a) => account[a].balance = 0 /\ account[a].connection = None
           /\ account[a].connection \in {session, None}
  <1>1. reset = "none"
    <2>1. session \in Physical
      BY DEF exclusive_physical_connection
    <2> QED  BY <2>1 DEF SessionInv, FollowInv, LinksAgree
  <1>2. current = None => claim = NoClaim
    BY <1>1 DEF SessionInv, FollowInv, ClaimsFollow
  <1>3. (current = None \/ current = a) /\ (Opened(a) => current = a /\ published)
    BY DEF AccountForPeer, Opened
  <1>4. ~Opened(a) => account[a].balance = 0 /\ account[a].connection = None
    <2>1. account[a].balance \in Nat
      BY DEF TypeInv, TypeOK, Accounts, AccountType
    <2> QED  BY <2>1 DEF SessionInv, FollowInv, AccountsFollow
  <1>5. account[a].connection \in {session, None}
    BY <1>3, <1>4 DEF SessionInv, FollowInv, AccountsFollow
  <1> QED  BY <1>1, <1>2, <1>3, <1>4, <1>5

LEMMA AppearsKeeps ==
    ASSUME TypeInv, TypeInv', SessionInv, NEW a \in Account, AccountForPeer(a),
           session # None, exclusive_physical_connection(session), closing = None,
           current' = a, created' = created \cup {a},
           UNCHANGED <<link, session, closing, reset, request, claim, cheque, claimant, shared>>,
           NEW new, account' = [account EXCEPT ![a] = new],
           new.balance > 0 \/ new.connection # None => published',
           new.connection \in {session, None}, published => published',
           Opened(a) /\ account[a].connection = None => new.connection = None,
           \A t \in Task : \/ Kept(t, task'[t])
                           \/ /\ Opened(a) /\ task'[t].account = a /\ task'[t].connection = session
                              /\ task'[t].step \notin ShutSteps
    PROVE  FollowInv' /\ DrainedBeforeClose'
  <1>1. /\ reset = "none" /\ (current = None => claim = NoClaim)
        /\ current = None \/ current = a
        /\ Opened(a) => current = a /\ published
    BY Appears
  <1>2. LinksAgree'
    BY <1>1, SettlementAssumption DEF SessionInv, FollowInv, LinksAgree, Physical
  <1>3. \A b \in Account : account'[b] = IF b = a THEN new ELSE account[b]
    BY DEF TypeInv, TypeOK
  <1>4. \A b \in Account : /\ Opened(b) => Opened(b)'
                           /\ b # a => Shut(b)'
                           /\ Opened(a) /\ Shut(a) => Shut(a)'
    BY <1>1, <1>3 DEF Opened, Shut
  <1>5. AccountsFollow'
    <2>1. ASSUME NEW b \in Account, b # a
          PROVE  /\ account'[b].balance > 0 \/ account'[b].connection # None => Opened(b)'
                 /\ b = current' /\ session' # None => account'[b].connection \in {session', None}
      BY <1>3, <1>4, <2>1 DEF SessionInv, FollowInv, AccountsFollow
    <2>2. published' => Opened(a)'
      BY DEF Opened
    <2>3. /\ account'[a].balance > 0 \/ account'[a].connection # None => Opened(a)'
          /\ account'[a].connection \in {session', None}
      BY <1>3, <2>2
    <2> QED  BY <2>1, <2>3 DEF AccountsFollow
  <1>6. RequestsFollow'
    <2>1. ASSUME NEW r \in Request, request[r] # NoRequest, NEW b \in Account, b = request[r].account
          PROVE  Opened(b)'
      BY <1>4, <2>1 DEF SessionInv, FollowInv, RequestsFollow
    <2>2. \A r \in Request : request[r] # NoRequest => request[r].account \in Account
      BY DEF TypeInv, TypeOK, Requests
    <2> QED  BY <2>1, <2>2 DEF RequestsFollow
  <1>7. ASSUME NEW t \in Task, NEW b \in Account, task'[t] # IdleTask, task'[t].account = b
        PROVE  /\ Opened(b)'
               /\ b = current' /\ session' # None => task'[t].connection = session'
               /\ task'[t].step \in ShutSteps => Shut(b)'
    <2>1. CASE Kept(t, task'[t])
      <3>1. /\ task[t] # IdleTask /\ task[t].account = b
            /\ task'[t].connection = task[t].connection
            /\ task'[t].step \in ShutSteps => task[t].step \in ShutSteps
        BY <1>7, <2>1 DEF Kept, GoesOn
      <3>2. /\ Opened(b) /\ (b = current /\ session # None => task[t].connection = session)
            /\ task[t].step \in ShutSteps => Shut(b)
        BY <3>1 DEF SessionInv, FollowInv, TasksFollow
      <3>3. b = a => current = a
        BY <1>1, <3>2
      <3> QED  BY <1>4, <3>1, <3>2, <3>3
    <2>2. CASE /\ Opened(a) /\ task'[t].account = a /\ task'[t].connection = session
               /\ task'[t].step \notin ShutSteps
      BY <1>4, <1>7, <2>2
    <2> QED  BY <2>1, <2>2
  <1>8. TasksFollow'
    BY <1>7 DEF TasksFollow
  <1>9. ClaimsFollow'
    <2>1. claim # NoClaim => current = a
      BY <1>1
    <2> QED  BY <2>1, SettlementAssumption DEF SessionInv, FollowInv, ClaimsFollow
  <1>10. DrainedBeforeClose'
    <2>1. \A t \in Task : task'[t].step = "closed" =>
             task[t].step = "closed" /\ task'[t].account = task[t].account
      BY TaskFacts DEF Kept, GoesOn, ShutSteps
    <2> QED  BY <2>1, ClosedStays DEF SessionInv, FollowInv
  <1> QED  BY <1>2, <1>5, <1>6, <1>8, <1>9, <1>10 DEF FollowInv

LEMMA PublishSessions ==
    ASSUME TypeInv, TypeInv', SessionInv, NEW a \in Account, PublishPeer(a)
    PROVE  SessionInv'
  <1> DEFINE new == [account[a] EXCEPT !.connection = session]
  <1>1. /\ AccountForPeer(a) /\ session # None /\ exclusive_physical_connection(session)
        /\ closing = None /\ current' = a /\ created' = created \cup {a} /\ ~published /\ published'
        /\ UNCHANGED <<link, session, closing, reset, request, task, claim, cheque, claimant, shared>>
        /\ account' = [account EXCEPT ![a] = new]
    BY DEF PublishPeer, ConnectedLockFree, history
  <1>2. /\ account[a] \in Accounts /\ new \in Accounts /\ new.connection = session
        /\ new.balance = account[a].balance /\ (new.scheduled <=> account[a].scheduled)
    <2>1. account[a] \in Accounts /\ session \in Connection \cup {None}
      BY DEF TypeInv, TypeOK
    <2>2. new \in Accounts
      BY <2>1 DEF Accounts, AccountType
    <2>3. new.connection = session /\ new.balance = account[a].balance
      BY <2>1 DEF Accounts, AccountType
    <2>4. new.scheduled = account[a].scheduled
      BY <2>1 DEF Accounts, AccountType
    <2> QED  BY <2>1, <2>2, <2>3, <2>4
  <1> HIDE DEF new
  <1>3. ~Opened(a) /\ account[a].balance = 0
    BY <1>1, Appears
  <1>4. \A t \in Task : Kept(t, task'[t])
    BY <1>1, SameKept
  <1>5. FollowInv' /\ DrainedBeforeClose'
    BY <1>1, <1>2, <1>3, <1>4, AppearsKeeps
  <1>6. \A b \in Account : account'[b] = IF b = a THEN new ELSE account[b]
    BY <1>1 DEF TypeInv, TypeOK
  <1>7. OneSettlementOwner'
    BY <1>1, <1>2, <1>4, <1>6, OwnerKept DEF SessionInv, Kept
  <1>8. DueDebtIsOwned'
    <2>1. ~due(new)
      BY <1>2, <1>3, DueFacts
    <2> QED  BY <1>1, <1>6, <2>1 DEF DueDebtIsOwned
  <1> QED  BY <1>5, <1>7, <1>8 DEF SessionInv

LEMMA AnnounceSessions ==
    ASSUME TypeInv, TypeInv', SessionInv, NEW a \in Account, NEW amount \in Thresholds,
           AnnounceThreshold(a, amount)
    PROVE  SessionInv'
  <1> DEFINE updated == [account[a] EXCEPT !.threshold = amount]
  <1>1. /\ AccountForPeer(a) /\ session # None /\ exclusive_physical_connection(session)
        /\ closing = None /\ current' = a /\ created' = created \cup {a}
        /\ UNCHANGED <<link, session, published, closing, reset, request, claim, cheque, claimant, shared>>
        /\ IF updated.balance > 0 THEN ScheduleRefresh(a, updated, updated.reserve = 0)
           ELSE account' = [account EXCEPT ![a] = updated] /\ task' = task
    BY DEF AnnounceThreshold, set_payment_threshold, ConnectedLockFree, lifecycle, history
  <1>2. /\ account[a] \in Accounts /\ updated \in Accounts
        /\ updated.connection = account[a].connection /\ updated.balance = account[a].balance
        /\ (updated.scheduled <=> account[a].scheduled)
    <2>1. account[a] \in Accounts /\ amount \in Nat
      BY SettlementAssumption DEF TypeInv, TypeOK
    <2> QED  BY <2>1 DEF Accounts, AccountType
  <1> HIDE DEF updated
  <1>3. /\ Opened(a) => current = a /\ published
        /\ ~Opened(a) => account[a].balance = 0 /\ account[a].connection = None
        /\ account[a].connection \in {session, None}
    BY <1>1, Appears
  <1>4. updated.balance \in Nat
    BY <1>2 DEF Accounts, AccountType
  <1>5. CASE ~(updated.balance > 0)
    <2>1. task' = task /\ account' = [account EXCEPT ![a] = updated] /\ updated.balance = 0
      BY <1>1, <1>4, <1>5
    <2>2. \A t \in Task : Kept(t, task'[t])
      BY <2>1, SameKept
    <2>8. /\ updated.balance > 0 \/ updated.connection # None => published'
          /\ updated.connection \in {session, None} /\ (published => published')
          /\ account[a].connection = None => updated.connection = None
      BY <1>1, <1>2, <1>3, <1>5
    <2>3. FollowInv' /\ DrainedBeforeClose'
      BY <1>1, <2>1, <2>2, <2>8, AppearsKeeps
    <2>4. \A b \in Account : account'[b] = IF b = a THEN updated ELSE account[b]
      BY <2>1 DEF TypeInv, TypeOK
    <2>5. OneSettlementOwner'
      BY <1>1, <1>2, <2>2, <2>4, OwnerKept DEF SessionInv, Kept
    <2>6. ~due(updated)
      BY <1>2, <2>1, DueFacts
    <2>7. DueDebtIsOwned'
      BY <1>1, <2>4, <2>6 DEF DueDebtIsOwned
    <2> QED  BY <2>3, <2>5, <2>7 DEF SessionInv
  <1>6. CASE updated.balance > 0
    <2>1. PICK drained \in {updated.reserve = 0} : ScheduleRefresh(a, updated, drained)
      BY <1>1, <1>6
    <2>2. PICK new \in Accounts :
              /\ account' = [account EXCEPT ![a] = new] /\ SameDebt(new, updated)
              /\ due(new) /\ new.connection # None => new.scheduled
              /\ \/ /\ new.scheduled <=> updated.scheduled
                    /\ \A t \in Task : Kept(t, task'[t])
                 \/ /\ ~updated.scheduled /\ new.scheduled /\ new.connection # None
                    /\ \E s \in Task : Starts(s, a, new.connection)
      BY <1>2, <2>1, ScheduleEffect
    <2>3. new.balance = updated.balance /\ new.connection = account[a].connection
      BY <1>2, <2>2 DEF SameDebt
    <2>4. Opened(a) /\ published
      BY <1>2, <1>3, <1>6
    <2>5. \A b \in Account : account'[b] = IF b = a THEN new ELSE account[b]
      BY <2>2 DEF TypeInv, TypeOK
    <2>6. \A t \in Task : \/ Kept(t, task'[t])
                          \/ /\ task'[t].account = a /\ task'[t].connection = session
                             /\ task'[t].step \notin ShutSteps
      BY <1>3, <2>2, <2>3 DEF Starts
    <2>7. FollowInv' /\ DrainedBeforeClose'
      BY <1>1, <1>3, <2>2, <2>3, <2>4, <2>6, AppearsKeeps
    <2>8. OneSettlementOwner'
      <3>1. CASE (new.scheduled <=> updated.scheduled) /\ \A t \in Task : Kept(t, task'[t])
        BY <1>2, <2>5, <3>1, OwnerKept DEF SessionInv, Kept
      <3>2. CASE ~updated.scheduled /\ new.scheduled /\ \E s \in Task : Starts(s, a, new.connection)
        BY <1>2, <2>5, <3>2, OwnerStarts DEF SessionInv
      <3> QED  BY <2>2, <3>1, <3>2
    <2>9. DueDebtIsOwned'
      BY <1>1, <2>2, <2>5 DEF DueDebtIsOwned
    <2> QED  BY <2>7, <2>8, <2>9 DEF SessionInv
  <1> QED  BY <1>5, <1>6
-----------------------------------------------------------------------------
(* Steps within a session.                                                 *)

(* A request keeps, gives up or takes its reservation.                     *)
Reserves(r) ==
    \/ request'[r] \in {request[r], NoRequest}
    \/ Opened(request'[r].account) /\ ~Shut(request'[r].account)

(* A task that starts in this session, or in one that is over.             *)
Begins(t) ==
    /\ Opened(task'[t].account) /\ task'[t].step \notin ShutSteps
    /\ task'[t].account = current /\ session # None => task'[t].connection = session

LEMMA OrdinaryStep ==
    ASSUME TypeInv, TypeInv', SessionInv, SessionStays,
           \A a \in Account : /\ account'[a].balance > 0 => account[a].balance > 0 \/ Opened(a)
                              /\ account'[a].connection \in {account[a].connection, None},
           \A r \in Request : Reserves(r),
           \A t \in Task : task'[t] = IdleTask \/ Kept(t, task'[t]) \/ Begins(t),
           Watched /\ current # None /\ DueOwned(account[current]) => DueOwned(account'[current]),
           ClaimsFollow', OneSettlementOwner'
    PROVE  SessionInv'
  <1>1. /\ LinksAgree /\ AccountsFollow /\ RequestsFollow /\ TasksFollow
        /\ DueDebtIsOwned /\ DrainedBeforeClose
    BY DEF SessionInv, FollowInv
  <1>2. LinksAgree'
    BY <1>1, LinksStay
  <1>3. AccountsFollow' /\ \A a \in Account : Shut(a) => Shut(a)'
    BY <1>1, AccountsStay
  <1>4. RequestsFollow'
    BY <1>1, RequestsStay DEF Reserves
  <1>5. TasksFollow'
    <2>1. ASSUME NEW t \in Task, NEW a \in Account, task'[t] # IdleTask, task'[t].account = a
          PROVE  \/ /\ task[t] # IdleTask /\ task[t].account = a
                    /\ task'[t].connection = task[t].connection
                    /\ task'[t].step \in ShutSteps => Shut(a)' \/ task[t].step \in ShutSteps
                 \/ /\ Opened(a) /\ task'[t].step \notin ShutSteps
                    /\ a = current /\ session # None => task'[t].connection = session
      BY <2>1 DEF Kept, GoesOn, Begins
    <2> QED  BY <1>1, <1>3, <2>1, TasksStay
  <1>6. DrainedBeforeClose'
    <2>1. ASSUME NEW t \in Task, task'[t].step = "closed"
          PROVE  task[t].step = "closed" /\ task'[t].account = task[t].account
      <3>1. task'[t] # IdleTask
        BY <2>1 DEF IdleTask, TaskAt
      <3> QED  BY <2>1, <3>1 DEF Kept, GoesOn, Begins, ShutSteps
    <2> QED  BY <1>1, <2>1, ClosedStays DEF Reserves
  <1>7. DueDebtIsOwned'
    BY <1>1, DueStays
  <1> QED  BY <1>2, <1>3, <1>4, <1>5, <1>6, <1>7 DEF SessionInv, FollowInv

(* ... when they change one account.                                       *)
LEMMA AccountChanges ==
    ASSUME TypeInv, TypeInv', SessionInv, SessionStays,
           NEW a \in Account, NEW new, account' = [account EXCEPT ![a] = new],
           new.balance > 0 => account[a].balance > 0 \/ Opened(a),
           new.connection \in {account[a].connection, None},
           a = current /\ Watched /\ DueOwned(account[a]) => DueOwned(new),
           \A r \in Request : Reserves(r),
           \A t \in Task : task'[t] = IdleTask \/ Kept(t, task'[t]) \/ Begins(t),
           ClaimsFollow', OneSettlementOwner'
    PROVE  SessionInv'
  <1>1. \A b \in Account : account'[b] = IF b = a THEN new ELSE account[b]
    BY DEF TypeInv, TypeOK
  <1>2. \A b \in Account : /\ account'[b].balance > 0 => account[b].balance > 0 \/ Opened(b)
                           /\ account'[b].connection \in {account[b].connection, None}
    BY <1>1
  <1>3. Watched /\ current # None /\ DueOwned(account[current]) => DueOwned(account'[current])
    <2>1. current # None => current \in Account
      BY DEF TypeInv, TypeOK
    <2> QED  BY <1>1, <2>1
  <1> QED  BY <1>2, <1>3, OrdinaryStep

(* ... or none.                                                            *)
LEMMA AccountsRest ==
    ASSUME TypeInv, TypeInv', SessionInv, SessionStays, account' = account,
           \A r \in Request : Reserves(r),
           \A t \in Task : Kept(t, task'[t]), ClaimsFollow'
    PROVE  SessionInv'
  <1>1. OneSettlementOwner'
    BY OwnerKept DEF SessionInv, Kept
  <1> QED  BY <1>1, OrdinaryStep

(* An account whose debt is judged after a credit.                         *)
LEMMA DeliverSessions ==
    ASSUME TypeInv, TypeInv', SessionInv, NEW r \in Request, DeliverChunk(r)
    PROVE  SessionInv'
  <1>1. PICK a \in Account, p \in Nat :
           /\ a = request[r].account /\ p = request[r].price /\ request[r] # NoRequest
           /\ account[a] \in Accounts
    BY PricesNat DEF DeliverChunk, TypeInv, TypeOK, Requests
  <1>2. /\ UNCHANGED <<lifecycle, current, created, claim, cheque, history>>
        /\ request' = [request EXCEPT ![r] = NoRequest]
    BY DEF DeliverChunk
  <1>3. PICK updated \in {apply_credit(account[a], p)} :
           /\ ScheduleRefresh(a, updated, updated.reserve = 0)
           /\ updated \in Accounts /\ (updated.scheduled <=> account[a].scheduled)
           /\ updated.connection = account[a].connection
    BY <1>1, CreditFacts DEF DeliverChunk
  <1>4. PICK drained \in {updated.reserve = 0} : ScheduleRefresh(a, updated, drained)
    BY <1>3
  <1>5. PICK new \in Accounts :
            /\ account' = [account EXCEPT ![a] = new] /\ SameDebt(new, updated)
            /\ due(new) /\ new.connection # None => new.scheduled
            /\ \/ /\ new.scheduled <=> updated.scheduled
                  /\ \A t \in Task : Kept(t, task'[t])
               \/ /\ ~updated.scheduled /\ new.scheduled /\ new.connection # None
                  /\ \E s \in Task : Starts(s, a, new.connection)
    BY <1>3, <1>4, ScheduleEffect
  <1>6. Opened(a)
    BY <1>1 DEF SessionInv, FollowInv, RequestsFollow
  <1>7. new.connection = account[a].connection
    BY <1>3, <1>5 DEF SameDebt
  <1>8. \A b \in Account : account'[b] = IF b = a THEN new ELSE account[b]
    BY <1>5 DEF TypeInv, TypeOK
  <1>9. OneSettlementOwner'
    <2>1. CASE (new.scheduled <=> updated.scheduled) /\ \A t \in Task : Kept(t, task'[t])
      BY <1>3, <1>8, <2>1, OwnerKept DEF SessionInv, Kept
    <2>2. CASE ~updated.scheduled /\ new.scheduled /\ \E s \in Task : Starts(s, a, new.connection)
      BY <1>3, <1>8, <2>2, OwnerStarts DEF SessionInv
    <2> QED  BY <1>5, <2>1, <2>2
  <1>10. \A t \in Task : Kept(t, task'[t]) \/ Begins(t)
    <2>1. a = current /\ session # None => account[a].connection \in {session, None}
      BY DEF SessionInv, FollowInv, AccountsFollow
    <2> QED  BY <1>5, <1>6, <1>7, <2>1 DEF Starts, Begins
  <1>11. SessionStays
    BY <1>2 DEF SessionStays, lifecycle, history
  <1>12. ClaimsFollow'
    BY <1>2, <1>11, ClaimsStay DEF SessionInv, FollowInv, history
  <1>13. a = current /\ Watched => DueOwned(new)
    BY <1>5 DEF DueOwned, Watched, SessionInv, FollowInv, LinksAgree
  <1>14. \A q \in Request : Reserves(q)
    BY <1>2 DEF TypeInv, TypeOK, Reserves
  <1> QED  BY <1>5, <1>6, <1>7, <1>9, <1>10, <1>11, <1>12, <1>13, <1>14, AccountChanges

LEMMA FailSessions ==
    ASSUME TypeInv, TypeInv', SessionInv, NEW r \in Request, FailRequest(r) \/ TimeOutRetrieval(r)
    PROVE  SessionInv'
  <1>1. PICK a \in Account, p \in Nat :
           /\ a = request[r].account /\ p = request[r].price /\ request[r] # NoRequest
           /\ account[a] \in Accounts /\ request[r].connection \in Connection
    BY PricesNat DEF FailRequest, TimeOutRetrieval, TypeInv, TypeOK, Requests
  <1>2. /\ UNCHANGED <<lifecycle, current, created, claim, cheque, history>>
        /\ request' = [request EXCEPT ![r] = NoRequest]
    BY DEF FailRequest, TimeOutRetrieval
  <1>3. PICK new \in {cancel_reserve(account[a], p)} :
           /\ new \in Accounts /\ (new.scheduled <=> account[a].scheduled)
           /\ new.balance = account[a].balance /\ new.threshold = account[a].threshold
           /\ new.refreshed = account[a].refreshed /\ new.connection = account[a].connection
    BY <1>1, CancelFacts
  <1>4. Opened(a)
    BY <1>1 DEF SessionInv, FollowInv, RequestsFollow
  <1>5. SessionStays
    BY <1>2 DEF SessionStays, lifecycle, history
  <1>6. ClaimsFollow'
    BY <1>2, <1>5, ClaimsStay DEF SessionInv, FollowInv, history
  <1>7. \A q \in Request : Reserves(q)
    BY <1>2 DEF TypeInv, TypeOK, Reserves
  <1>8. CASE /\ account' = [account EXCEPT ![a] = new]
             /\ \E drained \in {new.reserve = 0} : task' = Notified(task, drained)
    <2>1. \A t \in Task : Kept(t, task'[t])
      BY <1>8, NotifiedKept
    <2>2. \A b \in Account : account'[b] = IF b = a THEN new ELSE account[b]
      BY <1>8 DEF TypeInv, TypeOK
    <2>3. OneSettlementOwner'
      BY <1>3, <2>1, <2>2, OwnerKept DEF SessionInv, Kept
    <2>4. account[a].balance \in Nat
      BY <1>1 DEF Accounts, AccountType
    <2>5. DueOwned(account[a]) => DueOwned(new)
      BY <1>1, <1>3, <2>4, DueFalls DEF DueOwned
    <2> QED  BY <1>3, <1>4, <1>5, <1>6, <1>7, <1>8, <2>1, <2>3, <2>5, AccountChanges
  <1>9. CASE /\ account[a].connection = request[r].connection /\ ~account[a].scheduled
             /\ account' = [account EXCEPT ![a] = [new EXCEPT !.scheduled = TRUE]]
             /\ \E drained \in {new.reserve = 0}, s \in Task :
                   /\ task[s] = IdleTask
                   /\ task' = [Notified(task, drained) EXCEPT ![s] =
                                  TaskAt("retire", a, request[r].connection)]
    <2>1. PICK flagged \in {[new EXCEPT !.scheduled = TRUE]} :
             /\ account' = [account EXCEPT ![a] = flagged] /\ flagged.scheduled
             /\ flagged.connection = account[a].connection
      BY <1>3, <1>9 DEF Accounts, AccountType
    <2>2. PICK drained \in {new.reserve = 0}, s \in Task :
             /\ task[s] = IdleTask
             /\ task' = [Notified(task, drained) EXCEPT ![s] =
                            TaskAt("retire", a, request[r].connection)]
      BY <1>9
    <2>3. /\ TaskAt("retire", a, request[r].connection).step = "retire"
          /\ TaskAt("retire", a, request[r].connection).account = a
          /\ TaskAt("retire", a, request[r].connection).connection = request[r].connection
          /\ TaskAt("retire", a, request[r].connection) # IdleTask
      BY DEF TaskAt, IdleTask
    <2>4. task'[s] = TaskAt("retire", a, request[r].connection)
      BY <2>2, NotifiedFacts DEF TypeInv, TypeOK
    <2>5. \A t \in Task \ {s} : task'[t] = Notified(task, drained)[t]
      BY <2>2, NotifiedFacts DEF TypeInv, TypeOK
    <2>6. Starts(s, a, request[r].connection)
      BY <2>2, <2>3, <2>4, <2>5, NotifiedKept DEF Starts, ShutSteps
    <2>7. \A b \in Account : account'[b] = IF b = a THEN flagged ELSE account[b]
      BY <2>1 DEF TypeInv, TypeOK
    <2>8. OneSettlementOwner'
      BY <1>9, <2>1, <2>6, <2>7, OwnerStarts DEF SessionInv
    <2>9. \A t \in Task : Kept(t, task'[t]) \/ Begins(t)
      <3>1. a = current /\ session # None => account[a].connection \in {session, None}
        BY DEF SessionInv, FollowInv, AccountsFollow
      <3>2. request[r].connection # None
        BY <1>1, SettlementAssumption
      <3> QED  BY <1>4, <1>9, <2>6, <3>1, <3>2 DEF Starts, Begins
    <2>10. DueOwned(flagged)
      BY <2>1 DEF DueOwned
    <2> QED  BY <1>4, <1>5, <1>6, <1>7, <2>1, <2>8, <2>9, <2>10, AccountChanges
  <1>10. CASE FailRequest(r)
    BY <1>1, <1>8, <1>10 DEF FailRequest
  <1>11. CASE TimeOutRetrieval(r)
    <2>1. CASE account[a].connection = request[r].connection /\ ~account[a].scheduled
      BY <1>1, <1>9, <1>11, <2>1 DEF TimeOutRetrieval
    <2>2. CASE ~(account[a].connection = request[r].connection /\ ~account[a].scheduled)
      BY <1>1, <1>8, <1>11, <2>2 DEF TimeOutRetrieval
    <2> QED  BY <2>1, <2>2
  <1> QED  BY <1>10, <1>11

LEMMA SelectSessions ==
    ASSUME TypeInv, TypeInv', SessionInv, NEW r \in Request, NEW amount \in Prices,
           SelectPeer(r, amount)
    PROVE  SessionInv'
  <1>1. PICK a \in Account : /\ a = current /\ account[a].connection # None
                             /\ account[a] \in Accounts /\ amount \in Nat
    BY PricesNat DEF SelectPeer, TypeInv, TypeOK
  <1>2. UNCHANGED <<lifecycle, current, created, claim, cheque, history>>
    BY DEF SelectPeer
  <1>3. SessionStays
    BY <1>2 DEF SessionStays, lifecycle, history
  <1>4. ClaimsFollow'
    BY <1>2, <1>3, ClaimsStay DEF SessionInv, FollowInv, history
  <1>5. CASE exclusive_physical_connection(account[a].connection)
    <2> DEFINE asked == [account |-> a, connection |-> account[a].connection, price |-> amount]
    <2>1. PICK new \in {reserve(account[a], amount)} :
             /\ account' = [account EXCEPT ![a] = new]
             /\ new \in Accounts /\ (new.scheduled <=> account[a].scheduled)
             /\ new.balance = account[a].balance /\ new.threshold = account[a].threshold
             /\ new.refreshed = account[a].refreshed /\ new.connection = account[a].connection
      BY <1>1, <1>5, ReserveFacts DEF SelectPeer
    <2>2. task' = task /\ request' = [request EXCEPT ![r] = asked]
      BY <1>1, <1>5 DEF SelectPeer
    <2>3. \A q \in Request : request'[q] = request[q] \/ request'[q].account = a
      BY <2>2 DEF TypeInv, TypeOK
    <2>4. ~Shut(a) /\ Opened(a)
      <3>1. reset = "none"
        BY <1>5 DEF exclusive_physical_connection, SessionInv, FollowInv, LinksAgree
      <3> QED  BY <1>1, <3>1 DEF Shut, SessionInv, FollowInv, AccountsFollow
    <2>5. \A t \in Task : Kept(t, task'[t])
      BY <2>2, SameKept
    <2>6. \A b \in Account : account'[b] = IF b = a THEN new ELSE account[b]
      BY <2>1 DEF TypeInv, TypeOK
    <2>7. OneSettlementOwner'
      BY <2>1, <2>5, <2>6, OwnerKept DEF SessionInv, Kept
    <2>8. account[a].balance \in Nat
      BY <1>1 DEF Accounts, AccountType
    <2>9. DueOwned(account[a]) => DueOwned(new)
      BY <1>1, <2>1, <2>8, DueFalls DEF DueOwned
    <2>10. \A q \in Request : Reserves(q)
      BY <2>3, <2>4 DEF Reserves, Opened, Shut
    <2> HIDE DEF asked
    <2> QED  BY <1>3, <1>4, <2>1, <2>4, <2>5, <2>7, <2>9, <2>10, AccountChanges
  <1>6. CASE ~exclusive_physical_connection(account[a].connection)
    <2>1. PICK drained \in {account[a].reserve = 0} :
             task' = Notified(task, drained) /\ UNCHANGED <<account, request>>
      BY <1>1, <1>6 DEF SelectPeer
    <2>2. \A t \in Task : Kept(t, task'[t])
      BY <2>1, NotifiedKept
    <2>3. \A q \in Request : Reserves(q)
      BY <2>1 DEF Reserves
    <2> QED  BY <1>3, <1>4, <2>1, <2>2, <2>3, AccountsRest
  <1> QED  BY <1>5, <1>6
-----------------------------------------------------------------------------
(* The settlement task.                                                    *)

LEMMA TaskMoves ==
    ASSUME TypeInv, NEW t \in Task, task[t].step # "idle", NEW new \in Tasks,
           task' = [task EXCEPT ![t] = new],
           new.account = task[t].account, new.connection = task[t].connection,
           new.step # "idle", new.step \in ShutSteps => task[t].step \in ShutSteps,
           new.step = "closed" => task[t].step = "closed"
    PROVE  \A s \in Task : Kept(s, task'[s])
  <1>1. IdleTask.step = "idle"
    BY DEF IdleTask, TaskAt
  <1>2. Kept(t, new)
    BY <1>1 DEF Kept, GoesOn
  <1>3. \A s \in Task : task'[s] = IF s = t THEN new ELSE task[s]
    BY DEF TypeInv, TypeOK
  <1> QED  BY <1>2, <1>3, SameKept

LEMMA OwnTaskMoves ==
    ASSUME TypeInv, NEW t \in Task, task[t].step # "idle",
           NEW step \in TaskSteps \ ({"idle"} \cup ShutSteps), Advance(t, step)
    PROVE  (\A s \in Task : Kept(s, task'[s])) /\ account' = account /\ claim' = claim
  <1>1. /\ task' = [task EXCEPT ![t] = OwnTaskAt(t, step)]
        /\ account' = account /\ claim' = claim
    BY DEF Advance
  <1>2. step \in TaskSteps /\ step # "idle" /\ step \notin ShutSteps /\ step # "closed"
    BY DEF ShutSteps
  <1>3. PICK new \in Tasks : /\ new = OwnTaskAt(t, step) /\ new.step = step
                             /\ new.account = task[t].account
                             /\ new.connection = task[t].connection
    BY <1>2, OwnTaskFacts
  <1> QED  BY <1>1, <1>2, <1>3, TaskMoves

(* A task that finds the session current no longer, or nothing due, lets   *)
(* the account go.                                                         *)
LEMMA ReleaseSessions ==
    ASSUME TypeInv, TypeInv', SessionInv, SessionStays, NEW t \in Task, task[t].step # "idle",
           NEW settled \in Accounts, ReleaseSettlement(t, settled),
           request' = request, ClaimsFollow',
           NEW a \in Account, a = task[t].account,
           settled.connection = account[a].connection,
           a = current /\ Watched /\ settled.connection = session /\ settled.threshold > 0
              => ~due(settled)
    PROVE  SessionInv'
  <1>1. PICK new \in {[settled EXCEPT !.scheduled = FALSE]} :
           /\ account' = [account EXCEPT ![a] = new] /\ new \in Accounts /\ ~new.scheduled
           /\ new.balance = settled.balance /\ new.threshold = settled.threshold
           /\ new.refreshed = settled.refreshed /\ new.connection = account[a].connection
    BY DEF ReleaseSettlement, Accounts, AccountType
  <1>2. task[t] # IdleTask /\ task' = [task EXCEPT ![t] = IdleTask]
    BY LiveTask DEF ReleaseSettlement
  <1>3. \A s \in Task : task'[s] = IF s = t THEN IdleTask ELSE task[s]
    BY <1>2 DEF TypeInv, TypeOK
  <1>4. Opened(a)
    BY <1>2 DEF SessionInv, FollowInv, TasksFollow
  <1>5. \A b \in Account : account'[b] = IF b = a THEN new ELSE account[b]
    BY <1>1 DEF TypeInv, TypeOK
  <1>6. OneSettlementOwner'
    BY <1>1, <1>2, <1>3, <1>5, OwnerReleases DEF SessionInv
  <1>7. a = current /\ Watched /\ DueOwned(account[a]) => DueOwned(new)
    <2>1. due(new) => due(settled)
      <3>1. new.balance \in Nat /\ new.balance <= settled.balance
        BY <1>1 DEF Accounts, AccountType
      <3> QED  BY <1>1, <3>1, DueFalls
    <2> QED  BY <1>1, <2>1 DEF DueOwned
  <1>8. \A s \in Task : task'[s] = IdleTask \/ Kept(s, task'[s])
    BY <1>3, SameKept
  <1>9. \A r \in Request : Reserves(r)
    BY DEF Reserves
  <1> QED  BY <1>1, <1>4, <1>6, <1>7, <1>8, <1>9, AccountChanges

(* The task of the account that serves a watched session finds it current. *)
LEMMA TaskIsCurrent ==
    ASSUME TypeInv, SessionInv, NEW t \in Task, task[t].step # "idle",
           NEW a \in Account, a = task[t].account, a = current, Watched,
           account[a].connection = session
    PROVE  current_accounting_protocol_session(t)
  <1>1. session # None /\ session \in Connection
    BY DEF Watched, SessionInv, FollowInv, LinksAgree, TypeInv, TypeOK
  <1>2. task[t].connection = session
    BY <1>1, LiveTask DEF SessionInv, FollowInv, TasksFollow
  <1>3. Physical = {session}
    BY <1>1 DEF Watched, SessionInv, FollowInv, LinksAgree
  <1> QED  BY <1>2, <1>3 DEF current_accounting_protocol_session, exclusive_physical_connection, Watched

LEMMA RefreshSessions ==
    ASSUME TypeInv, TypeInv', SessionInv, NEW t \in Task,
           RefreshLoop(t) \/ RefreshCheck(t) \/ RefreshSend(t) \/ RefreshNotDispatched(t)
              \/ RefreshAcknowledgedNothing(t) \/ RefreshAmbiguous(t)
    PROVE  SessionInv'
  <1>1. UNCHANGED <<lifecycle, current, created, request, cheque, history>>
    BY DEF RefreshLoop, RefreshCheck, RefreshSend, RefreshNotDispatched,
           RefreshAcknowledgedNothing, RefreshAmbiguous
  <1>2. task[t].step # "idle" /\ task[t].step \notin ShutSteps
    BY DEF RefreshLoop, RefreshCheck, RefreshSend, RefreshNotDispatched,
           RefreshAcknowledgedNothing, RefreshAmbiguous, ShutSteps
  <1>3. PICK a \in Account : a = task[t].account /\ account[a] \in Accounts
    BY <1>2, LiveTask
  <1>4. SessionStays /\ claimant' = claimant
    BY <1>1 DEF SessionStays, lifecycle, history
  <1>5. ASSUME claim' = claim PROVE ClaimsFollow'
    BY <1>1, <1>4, <1>5, ClaimsStay DEF SessionInv, FollowInv
  <1>6. \A r \in Request : Reserves(r)
    BY <1>1 DEF Reserves
  <1>7. ASSUME account' = account, claim' = claim, \A s \in Task : Kept(s, task'[s])
        PROVE  SessionInv'
    BY <1>4, <1>5, <1>6, <1>7, AccountsRest
  <1>8. ASSUME NEW settled \in Accounts, ReleaseSettlement(t, settled),
               settled.connection = account[a].connection,
               a = current /\ Watched /\ settled.connection = session /\ settled.threshold > 0
                  => ~due(settled)
        PROVE  SessionInv'
    <2>1. claim' = claim /\ request' = request
      BY <1>1, <1>8 DEF ReleaseSettlement
    <2> QED  BY <1>2, <1>3, <1>4, <1>5, <1>8, <2>1, ReleaseSessions
  <1>9. ASSUME NEW step \in TaskSteps \ ({"idle"} \cup ShutSteps), Advance(t, step)
        PROVE  SessionInv'
    BY <1>2, <1>7, <1>9, OwnTaskMoves
  <1>10. ASSUME NEW step \in TaskSteps \ ({"idle"} \cup ShutSteps), NEW new \in Tasks,
                new.step = step, new.account = task[t].account, new.connection = task[t].connection,
                task' = [task EXCEPT ![t] = new], UNCHANGED <<account, claim>>
         PROVE  SessionInv'
    <2>1. \A s \in Task : Kept(s, task'[s])
      BY <1>2, <1>10, TaskMoves DEF ShutSteps
    <2> QED  BY <1>7, <1>10, <2>1
  <1>11. /\ {"refresh", "check", "wait", "sent", "retire"} \subseteq TaskSteps \ ({"idle"} \cup ShutSteps)
         /\ TaskSteps \ ({"idle"} \cup ShutSteps) \subseteq TaskSteps
    BY DEF TaskSteps, ShutSteps
  <1>12. CASE RefreshLoop(t)
    <2>1. CASE due(account[a])
      <3> DEFINE seen == [balance |-> account[a].balance, refreshed |-> account[a].refreshed,
                          threshold |-> account[a].threshold]
                 new == [OwnTaskAt(t, "check") EXCEPT !.snapshot = seen]
      <3>1. seen \in Snapshots
        BY <1>3 DEF Snapshots, Accounts, AccountType
      <3>2. task' = [task EXCEPT ![t] = new] /\ UNCHANGED <<account, claim>>
        BY <1>3, <1>12, <2>1 DEF RefreshLoop
      <3> HIDE DEF seen
      <3>3. /\ new \in Tasks /\ new.step = "check" /\ new.account = task[t].account
            /\ new.connection = task[t].connection
        BY <1>2, <1>11, <3>1, OwnTaskFacts DEF Tasks
      <3> HIDE DEF new
      <3> QED  BY <1>10, <1>11, <3>2, <3>3
    <2>2. CASE ~due(account[a])
      BY <1>3, <1>8, <1>12, <2>2 DEF RefreshLoop
    <2> QED  BY <2>1, <2>2
  <1>13. CASE RefreshCheck(t)
    <2>1. CASE ~current_accounting_protocol_session(t)
      <3>1. ReleaseSettlement(t, account[a])
        BY <1>3, <1>13, <2>1 DEF RefreshCheck
      <3>2. ~(a = current /\ Watched /\ account[a].connection = session)
        BY <1>2, <1>3, <2>1, TaskIsCurrent
      <3> QED  BY <1>3, <1>8, <3>1, <3>2
    <2>2. CASE current_accounting_protocol_session(t)
      <3>1. Advance(t, "wait") \/ Advance(t, "refresh")
        BY <1>13, <2>2 DEF RefreshCheck
      <3> QED  BY <1>9, <1>11, <3>1
    <2> QED  BY <2>1, <2>2
  <1>14. CASE RefreshSend(t)
    <2>1. CASE current_accounting_protocol_session(t) /\ account[a].threshold # 0 /\ due(account[a])
      <3> DEFINE new == [OwnTaskAt(t, "sent") EXCEPT !.amount = account[a].threshold]
      <3>1. task' = [task EXCEPT ![t] = new] /\ UNCHANGED <<account, claim>>
        BY <1>3, <1>14, <2>1 DEF RefreshSend
      <3>2. account[a].threshold \in Nat
        BY <1>3 DEF Accounts, AccountType
      <3>3. /\ new \in Tasks /\ new.step = "sent" /\ new.account = task[t].account
            /\ new.connection = task[t].connection
        BY <1>2, <1>11, <3>2, OwnTaskFacts DEF Tasks
      <3> HIDE DEF new
      <3> QED  BY <1>10, <1>11, <3>1, <3>3
    <2>2. CASE ~(current_accounting_protocol_session(t) /\ account[a].threshold # 0 /\ due(account[a]))
      <3>1. ReleaseSettlement(t, account[a])
        BY <1>3, <1>14, <2>2 DEF RefreshSend
      <3>2. account[a].threshold \in Nat
        BY <1>3 DEF Accounts, AccountType
      <3>3. ASSUME a = current, Watched, account[a].connection = session, account[a].threshold > 0
            PROVE  ~due(account[a])
        <4>1. current_accounting_protocol_session(t)
          BY <1>2, <1>3, <3>3, TaskIsCurrent
        <4>2. account[a].threshold # 0
          BY <3>2, <3>3
        <4> QED  BY <2>2, <4>1, <4>2
      <3> QED  BY <1>3, <1>8, <3>1, <3>3
    <2> QED  BY <2>1, <2>2
  <1>15. CASE RefreshNotDispatched(t)
    BY <1>9, <1>11, <1>15 DEF RefreshNotDispatched
  <1>16. CASE RefreshAmbiguous(t)
    BY <1>9, <1>11, <1>16 DEF RefreshAmbiguous
  <1>17. CASE RefreshAcknowledgedNothing(t)
    <2>1. PICK settled \in {[account[a] EXCEPT !.refreshed = TRUE, !.balance = 0]} :
             /\ settled \in Accounts /\ settled.balance = 0
             /\ settled.connection = account[a].connection
      BY <1>3 DEF Accounts, AccountType
    <2>2. ReleaseSettlement(t, settled)
      BY <1>3, <1>17, <2>1 DEF RefreshAcknowledgedNothing
    <2>3. ~due(settled)
      BY <2>1, DueFacts
    <2> QED  BY <1>8, <2>1, <2>2, <2>3
  <1> QED  BY <1>12, <1>13, <1>14, <1>15, <1>16, <1>17

LEMMA AcknowledgedSessions ==
    ASSUME TypeInv, TypeInv', SessionInv, NEW t \in Task, NEW amount \in 1..task[t].amount,
           RefreshAcknowledged(t, amount)
    PROVE  SessionInv'
  <1>1. UNCHANGED <<lifecycle, current, created, request, claim, cheque, history>>
    BY DEF RefreshAcknowledged
  <1>2. task[t].step # "idle" /\ task[t].step \notin ShutSteps
    BY DEF RefreshAcknowledged, ShutSteps
  <1>3. PICK a \in Account : a = task[t].account /\ account[a] \in Accounts /\ task[t] # IdleTask
    BY <1>2, LiveTask
  <1>4. amount \in Nat
    BY <1>2, LiveTask DEF Tasks
  <1>5. PICK told \in {[account[a] EXCEPT !.refreshed = TRUE]} :
           /\ told \in Accounts /\ (told.scheduled <=> account[a].scheduled)
           /\ told.connection = account[a].connection
    BY <1>3 DEF Accounts, AccountType
  <1>6. PICK new \in {apply_refreshment(told, amount)} :
           /\ new \in Accounts /\ (new.scheduled <=> account[a].scheduled)
           /\ new.connection = account[a].connection /\ account' = [account EXCEPT ![a] = new]
    <2>1. account' = [account EXCEPT ![a] = apply_refreshment(told, amount)]
      BY <1>3, <1>5 DEF RefreshAcknowledged
    <2>2. /\ apply_refreshment(told, amount) \in Accounts
          /\ apply_refreshment(told, amount).scheduled = told.scheduled
          /\ apply_refreshment(told, amount).connection = told.connection
      BY <1>4, <1>5, RefreshmentFacts
    <2> QED  BY <1>5, <2>1, <2>2
  <1>7. \A s \in Task : Kept(s, task'[s])
    <2>1. CASE task' = [task EXCEPT ![t] = OwnTaskAt(t, "refresh")]
      BY <1>2, <2>1, OwnTaskFacts, TaskMoves DEF TaskSteps, ShutSteps
    <2>2. CASE \E n \in Nat : task' = [task EXCEPT ![t] = [OwnTaskAt(t, "claim") EXCEPT !.amount = n]]
      <3>1. PICK n \in Nat : task' = [task EXCEPT ![t] = [OwnTaskAt(t, "claim") EXCEPT !.amount = n]]
        BY <2>2
      <3> DEFINE moved == [OwnTaskAt(t, "claim") EXCEPT !.amount = n]
      <3>2. /\ moved \in Tasks /\ moved.step = "claim" /\ moved.account = task[t].account
            /\ moved.connection = task[t].connection
        BY <1>2, OwnTaskFacts DEF Tasks, TaskSteps
      <3> HIDE DEF moved
      <3> QED  BY <1>2, <3>1, <3>2, TaskMoves DEF ShutSteps, moved
    <2>3. new.balance > RefreshRate => new.balance - RefreshRate \in Nat
      BY <1>6, AccountingAssumption DEF Accounts, AccountType
    <2> QED  BY <1>3, <1>5, <1>6, <2>1, <2>2, <2>3 DEF RefreshAcknowledged
  <1>8. \A b \in Account : account'[b] = IF b = a THEN new ELSE account[b]
    BY <1>6 DEF TypeInv, TypeOK
  <1>9. OneSettlementOwner'
    BY <1>6, <1>7, <1>8, OwnerKept DEF SessionInv, Kept
  <1>10. DueOwned(new)
    BY <1>3, <1>6 DEF DueOwned, SessionInv, OneSettlementOwner
  <1>11. Opened(a)
    BY <1>3 DEF SessionInv, FollowInv, TasksFollow
  <1>12. SessionStays
    BY <1>1 DEF SessionStays, lifecycle, history
  <1>13. ClaimsFollow' /\ \A r \in Request : Reserves(r)
    BY <1>1, <1>12, ClaimsStay DEF SessionInv, FollowInv, history, Reserves
  <1> QED  BY <1>6, <1>7, <1>9, <1>10, <1>11, <1>12, <1>13, AccountChanges

LEMMA ClaimSessions ==
    ASSUME TypeInv, TypeInv', SessionInv, NEW t \in Task, RefreshClaim(t)
    PROVE  SessionInv'
  <1>1. UNCHANGED <<lifecycle, current, account, created, request, peak, shared>>
    BY DEF RefreshClaim
  <1>2. /\ task[t].step # "idle" /\ task[t].step \notin ShutSteps
        /\ task' = [task EXCEPT ![t] = OwnTaskAt(t, "refresh")]
    BY DEF RefreshClaim, ShutSteps
  <1>3. \A s \in Task : Kept(s, task'[s])
    BY <1>2, OwnTaskFacts, TaskMoves DEF TaskSteps, ShutSteps
  <1>4. SessionStays /\ \A r \in Request : Reserves(r)
    BY <1>1 DEF SessionStays, lifecycle, Reserves
  <1>5. CASE UNCHANGED <<claim, cheque, claimant>>
    <2>1. ClaimsFollow'
      BY <1>4, <1>5, ClaimsStay DEF SessionInv, FollowInv
    <2> QED  BY <1>1, <1>3, <1>4, <2>1, AccountsRest
  <1>6. CASE /\ current_accounting_protocol_session(t)
             /\ \E g \in Generation :
                   /\ cheque[g] = UnusedCheque
                   /\ claim' = [amount |-> task[t].amount, generation |-> g]
                   /\ cheque' = [cheque EXCEPT ![g].phase = "queued", ![g].amount = task[t].amount]
                   /\ claimant' = [claimant EXCEPT ![g] = task[t].account]
    <2>1. PICK g \in Generation :
             /\ cheque[g] = UnusedCheque
             /\ claim' = [amount |-> task[t].amount, generation |-> g]
             /\ cheque' = [cheque EXCEPT ![g].phase = "queued", ![g].amount = task[t].amount]
             /\ claimant' = [claimant EXCEPT ![g] = task[t].account]
      BY <1>6
    <2>2. current = task[t].account /\ current # None /\ current' = current
      BY <1>1, <1>2, <1>6, LiveTask, SettlementAssumption DEF current_accounting_protocol_session
    <2>3. claim'.generation = g /\ claimant'[g] = current
      BY <2>1, <2>2 DEF TypeInv, TypeOK
    <2>4. cheque'[g].phase = "queued"
      BY <2>1 DEF TypeInv, TypeOK, Cheques
    <2>5. \A h \in Generation \ {g} : cheque'[h] = cheque[h] /\ claimant'[h] = claimant[h]
      BY <2>1 DEF TypeInv, TypeOK
    <2>6. ClaimsFollow'
      BY <2>2, <2>3, <2>4, <2>5 DEF SessionInv, FollowInv, ClaimsFollow
    <2> QED  BY <1>1, <1>3, <1>4, <2>6, AccountsRest
  <1> QED  BY <1>5, <1>6 DEF RefreshClaim
-----------------------------------------------------------------------------
(* A session is retired.                                                   *)

LEMMA ParkSessions ==
    ASSUME TypeInv, TypeInv', SessionInv, NEW t \in Task, Park(t)
    PROVE  SessionInv'
  <1>1. UNCHANGED <<lifecycle, current, account, created, request, claim, cheque, history>>
    BY DEF Park
  <1>2. task[t].step = "drain" /\ task[t] \in Tasks
    BY DEF Park, TypeInv, TypeOK
  <1>3. PICK new \in {[task[t] EXCEPT !.step = "parked"]} :
           /\ new \in Tasks /\ new.step = "parked" /\ new.account = task[t].account
           /\ new.connection = task[t].connection /\ task' = [task EXCEPT ![t] = new]
    BY <1>2 DEF Park, Tasks, TaskSteps
  <1>4. \A s \in Task : Kept(s, task'[s])
    BY <1>2, <1>3, TaskMoves DEF ShutSteps
  <1>5. SessionStays
    BY <1>1 DEF SessionStays, lifecycle, history
  <1>6. ClaimsFollow' /\ \A r \in Request : Reserves(r)
    BY <1>1, <1>5, ClaimsStay DEF SessionInv, FollowInv, history, Reserves
  <1> QED  BY <1>1, <1>4, <1>5, <1>6, AccountsRest

(* What the two other steps have in common: task t moves on towards the    *)
(* close, on an account that is shut.                                      *)
LEMMA TowardsClose ==
    ASSUME TypeInv, TypeInv', SessionInv, SessionStays, request' = request,
           UNCHANGED <<claim, cheque, claimant>>,
           NEW t \in Task, task[t].step # "idle", NEW new \in Tasks,
           task' = [task EXCEPT ![t] = new], new.step \in ShutSteps,
           NEW a \in Account, a = task[t].account, a = new.account,
           new.connection = task[t].connection, Shut(a)',
           new.step = "closed" => \A r \in Request : request[r].account # a,
           \A b \in Account : /\ account'[b].balance = account[b].balance
                              /\ account'[b].connection \in {account[b].connection, None}
                              /\ account'[b].scheduled <=> account[b].scheduled,
           Watched /\ current # None /\ DueOwned(account[current]) => DueOwned(account'[current])
    PROVE  SessionInv'
  <1>1. /\ LinksAgree /\ AccountsFollow /\ RequestsFollow /\ TasksFollow /\ ClaimsFollow
        /\ DueDebtIsOwned /\ DrainedBeforeClose
    BY DEF SessionInv, FollowInv
  <1>2. LinksAgree'
    BY <1>1, LinksStay
  <1>3. AccountsFollow' /\ \A b \in Account : Shut(b) => Shut(b)'
    BY <1>1, AccountsStay
  <1>4. RequestsFollow'
    BY <1>1, RequestsStay
  <1>5. ClaimsFollow'
    <2>1. claim' \in {claim, NoClaim}
      OBVIOUS
    <2> QED  BY <1>1, <2>1, ClaimsStay
  <1>6. \A s \in Task : task'[s] = IF s = t THEN new ELSE task[s]
    BY DEF TypeInv, TypeOK
  <1>7. task[t] # IdleTask /\ new # IdleTask
    <2>1. IdleTask.step = "idle"
      BY DEF IdleTask, TaskAt
    <2> QED  BY <2>1 DEF ShutSteps
  <1>8. TasksFollow'
    <2>1. ASSUME NEW s \in Task, NEW b \in Account, task'[s] # IdleTask, task'[s].account = b
          PROVE  /\ task[s] # IdleTask /\ task[s].account = b
                 /\ task'[s].connection = task[s].connection
                 /\ task'[s].step \in ShutSteps => Shut(b)' \/ task[s].step \in ShutSteps
      BY <1>6, <1>7, <2>1
    <2> QED  BY <1>1, <1>3, <2>1, TasksStay
  <1>9. DrainedBeforeClose'
    <2>1. ASSUME NEW s \in Task, task'[s].step = "closed"
          PROVE  \/ task[s].step = "closed" /\ task'[s].account = task[s].account
                 \/ \A r \in Request : request'[r].account # task'[s].account
      BY <1>6, <2>1
    <2> QED  BY <1>1, <2>1, ClosedStays
  <1>10. \A s \in Task : GoesOn(s, task'[s])
    BY <1>6, <1>7 DEF GoesOn
  <1>11. OneSettlementOwner'
    BY <1>10, OwnerKept DEF SessionInv
  <1>12. DueDebtIsOwned'
    BY <1>1, DueStays
  <1> QED  BY <1>2, <1>3, <1>4, <1>5, <1>8, <1>9, <1>11, <1>12 DEF SessionInv, FollowInv

LEMMA QuiesceSessions ==
    ASSUME TypeInv, TypeInv', SessionInv, NEW t \in Task, Quiesce(t)
    PROVE  SessionInv'
  <1>1. /\ UNCHANGED <<lifecycle, current, created, request, claim, cheque, history>>
        /\ task[t].step = "retire"
    BY DEF Quiesce
  <1>2. PICK a \in Account : /\ a = task[t].account /\ account[a] \in Accounts
                             /\ task[t] # IdleTask
    BY <1>1, LiveTask
  <1>3. SessionStays
    BY <1>1 DEF SessionStays, lifecycle, history
  <1> DEFINE owned == /\ published /\ session = task[t].connection /\ current = a
                      /\ account[a].connection = task[t].connection
  <1>4. PICK awaited \in Claims : task' = [task EXCEPT ![t] = [OwnTaskAt(t, "drain") EXCEPT !.awaits = awaited]]
    <2>1. claim \in Claims /\ NoClaim \in Claims
      BY DEF TypeInv, TypeOK, NoClaim, Claims
    <2> QED  BY <1>2, <2>1 DEF Quiesce
  <1>5. PICK new \in {[OwnTaskAt(t, "drain") EXCEPT !.awaits = awaited]} :
           /\ new \in Tasks /\ new.step = "drain" /\ new.account = a
           /\ new.connection = task[t].connection
    <2>1. /\ OwnTaskAt(t, "drain") \in Tasks /\ OwnTaskAt(t, "drain").step = "drain"
          /\ OwnTaskAt(t, "drain").account = a
          /\ OwnTaskAt(t, "drain").connection = task[t].connection
      BY <1>1, <1>2, OwnTaskFacts DEF TaskSteps
    <2> QED  BY <2>1 DEF Tasks
  <1>6. CASE owned
    <2>1. PICK shut \in {[account[a] EXCEPT !.connection = None]} :
             /\ account' = [account EXCEPT ![a] = shut] /\ shut.connection = None
             /\ shut.balance = account[a].balance /\ (shut.scheduled <=> account[a].scheduled)
      BY <1>2, <1>6 DEF Quiesce, Accounts, AccountType
    <2>2. \A b \in Account : account'[b] = IF b = a THEN shut ELSE account[b]
      BY <2>1 DEF TypeInv, TypeOK
    <2>3. Shut(a)'
      BY <2>1, <2>2 DEF Shut
    <2>4. Watched => DueOwned(shut)
      BY <2>1 DEF DueOwned, Watched, SessionInv, FollowInv, LinksAgree
    <2>5. \A b \in Account : /\ account'[b].balance = account[b].balance
                             /\ account'[b].connection \in {account[b].connection, None}
                             /\ account'[b].scheduled <=> account[b].scheduled
      BY <2>1, <2>2
    <2>6. account'[current] = shut
      BY <1>6, <2>2
    <2> QED  BY <1>1, <1>2, <1>3, <1>4, <1>5, <2>3, <2>4, <2>5, <2>6, TowardsClose DEF ShutSteps, history
  <1>7. CASE ~owned
    <2>1. account' = account
      BY <1>2, <1>7 DEF Quiesce
    <2>2. Shut(a)
      <3>1. CASE a # current
        BY <3>1 DEF Shut
      <3>2. CASE a = current /\ session = None
        <4>1. reset = "accounts"
          BY <3>2, SettlementAssumption DEF SessionInv, FollowInv, LinksAgree
        <4> QED  BY <4>1 DEF Shut
      <3>3. CASE a = current /\ session # None
        <4>1. Opened(a) /\ task[t].connection = session
          BY <1>2, <3>3 DEF SessionInv, FollowInv, TasksFollow
        <4>2. account[a].connection \in {session, None} /\ published
          BY <3>3, <4>1 DEF SessionInv, FollowInv, AccountsFollow, Opened
        <4> QED  BY <1>7, <3>3, <4>1, <4>2 DEF Shut
      <3> QED  BY <3>1, <3>2, <3>3
    <2>3. Shut(a)'
      BY <1>1, <2>1, <2>2 DEF Shut, lifecycle
    <2> QED  BY <1>1, <1>2, <1>3, <1>4, <1>5, <2>1, <2>3, TowardsClose DEF ShutSteps, history
  <1> QED  BY <1>6, <1>7

(* An account without reserve has no request.                              *)
LEMMA DrainedAccount ==
    ASSUME TypeInv, CreditInv, NEW a \in Account, account[a].reserve = 0
    PROVE  \A r \in Request : request[r].account # a
  <1>1. Cardinality(Held(a)) = 0 /\ IsFiniteSet(Held(a))
    BY HeldFinite DEF CreditInv, ReserveMatchesRequests
  <1>2. Held(a) = {}
    BY <1>1, FS_EmptySet
  <1> SUFFICES ASSUME NEW r \in Request, request[r].account = a PROVE FALSE
    OBVIOUS
  <1>3. request[r] \in Requests
    BY SettlementAssumption DEF TypeInv, TypeOK, NoRequest
  <1>4. request[r].price \in 1..MaxChunkPrice
    BY <1>3, SettlementAssumption DEF Requests
  <1>5. <<r, 1>> \in Request \X (1..MaxChunkPrice) /\ 1 <= request[r].price
    BY <1>4, AccountingAssumption
  <1> QED  BY <1>2, <1>5 DEF Held

LEMMA CloseSessions ==
    ASSUME TypeInv, TypeInv', SessionInv, CreditInv, NEW t \in Task, CloseSession(t)
    PROVE  SessionInv'
  <1>1. /\ UNCHANGED <<session, published, closing, reset, current, account, created, request, claim,
                       cheque, history>>
        /\ task[t].step = "drain"
    BY DEF CloseSession
  <1>2. PICK a \in Account : a = task[t].account /\ task[t] # IdleTask /\ task[t] \in Tasks
    BY <1>1, LiveTask
  <1>3. SessionStays
    <2>1. \A c \in Connection : link'[c] = "open" => link[c] = "open"
      BY DEF CloseSession, TypeInv, TypeOK
    <2> QED  BY <1>1, <2>1 DEF SessionStays, history
  <1>4. PICK new \in {[task[t] EXCEPT !.step = "closed"]} :
           /\ new \in Tasks /\ new.step = "closed" /\ new.account = a
           /\ new.connection = task[t].connection /\ task' = [task EXCEPT ![t] = new]
    BY <1>2 DEF CloseSession, Tasks, TaskSteps
  <1>5. \A r \in Request : request[r].account # a
    BY <1>2, DrainedAccount DEF CloseSession, Drained
  <1>6. Shut(a)'
    <2>1. Shut(a)
      BY <1>1, <1>2 DEF SessionInv, FollowInv, TasksFollow, ShutSteps
    <2> QED  BY <1>1, <2>1 DEF Shut
  <1> QED  BY <1>1, <1>2, <1>3, <1>4, <1>5, <1>6, TowardsClose DEF ShutSteps, history

-----------------------------------------------------------------------------
(* Cheques.                                                                *)

LEMMA ChequeSessions ==
    ASSUME TypeInv, TypeInv', SessionInv, NEW g \in Generation, ChequeStep(g)
    PROVE  SessionInv'
  <1>1. SessionStays /\ claimant' = claimant /\ (\A r \in Request : Reserves(r))
    <2>1. UNCHANGED <<lifecycle, current, created, request, history>>
      BY DEF ChequeStep, ChequeStart, ChequeIssued, ChequeResult, ChequeApply, StepCheque
    <2> QED  BY <2>1 DEF SessionStays, lifecycle, history, Reserves
  <1>2. \A t \in Task : Kept(t, task[t])
    BY SameKept
  <1>3. ASSUME NEW phase \in ChequePhases, phase # "applying", StepCheque(g, phase) PROVE SessionInv'
    <2>1. UNCHANGED <<account, task, claim>> /\ cheque' = [cheque EXCEPT ![g].phase = phase]
      BY <1>3 DEF StepCheque
    <2>2. \A h \in Generation : cheque'[h].phase = "applying" => cheque'[h] = cheque[h]
      BY <1>3, <2>1 DEF TypeInv, TypeOK, Cheques
    <2>3. ClaimsFollow'
      BY <1>1, <2>1, <2>2, ClaimsStay DEF SessionInv, FollowInv
    <2> QED  BY <1>1, <1>2, <2>1, <2>3, AccountsRest
  <1>4. CASE ChequeStart(g) \/ ChequeIssued(g)
    BY <1>3, <1>4 DEF ChequeStart, ChequeIssued, ChequePhases
  <1>5. CASE ChequeResult(g)
    <2>1. UNCHANGED <<lifecycle, current, account, task, claim>>
      BY <1>5 DEF ChequeResult
    <2>2. \A h \in Generation \ {g} : cheque'[h] = cheque[h]
      BY <1>5 DEF ChequeResult, TypeInv, TypeOK
    <2>3. cheque'[g].phase = "applying" => claim.generation = g /\ cheque'[g].account = current
      BY <1>5 DEF ChequeResult, TypeInv, TypeOK, Cheques
    <2>4. claim.generation = g => claim # NoClaim
      BY SettlementAssumption DEF NoClaim
    <2>5. ClaimsFollow'
      BY <1>1, <2>1, <2>2, <2>3, <2>4 DEF SessionInv, FollowInv, ClaimsFollow, lifecycle
    <2> QED  BY <1>1, <1>2, <2>1, <2>5, AccountsRest
  <1>6. CASE ChequeApply(g)
    <2>1. PICK drained \in {TRUE} : task' = Notified(task, drained)
      BY <1>6 DEF ChequeApply
    <2>2. \A t \in Task : Kept(t, task'[t])
      BY <2>1, NotifiedKept
    <2>3. cheque' = [cheque EXCEPT ![g].phase = "done", ![g].account = None] /\ claim' \in {claim, NoClaim}
      BY <1>6 DEF ChequeApply
    <2>4. \A h \in Generation : cheque'[h].phase = "applying" => cheque'[h] = cheque[h]
      BY <2>3 DEF TypeInv, TypeOK, Cheques
    <2>5. ClaimsFollow'
      BY <1>1, <2>3, <2>4, ClaimsStay DEF SessionInv, FollowInv
    <2>6. CASE account' = account
      BY <1>1, <2>2, <2>5, <2>6, AccountsRest
    <2>7. CASE \E a \in Account : account' = [account EXCEPT ![a] = apply_refreshment(@, cheque[g].amount)]
      <3>1. PICK a \in Account : account' = [account EXCEPT ![a] = apply_refreshment(@, cheque[g].amount)]
        BY <2>7
      <3>2. account[a] \in Accounts /\ cheque[g].amount \in Nat
        BY DEF TypeInv, TypeOK, Cheques
      <3>3. PICK n \in Nat : n = cheque[g].amount
        BY <3>2
      <3>4. PICK new \in {apply_refreshment(account[a], n)} :
               /\ new \in Accounts /\ (new.scheduled <=> account[a].scheduled)
               /\ new.threshold = account[a].threshold /\ new.balance <= account[a].balance
               /\ new.refreshed = account[a].refreshed /\ new.connection = account[a].connection
        <4>1. apply_refreshment(account[a], n) \in Accounts
          BY <3>2, RefreshmentFacts
        <4>2. /\ apply_refreshment(account[a], n).scheduled = account[a].scheduled
              /\ apply_refreshment(account[a], n).threshold = account[a].threshold
              /\ apply_refreshment(account[a], n).balance <= account[a].balance
              /\ apply_refreshment(account[a], n).refreshed = account[a].refreshed
              /\ apply_refreshment(account[a], n).connection = account[a].connection
          BY <3>2, RefreshmentFacts
        <4> QED  BY <4>1, <4>2
      <3>5. account' = [account EXCEPT ![a] = new]
        BY <3>1, <3>4, <3>3
      <3>6. \A b \in Account : account'[b] = IF b = a THEN new ELSE account[b]
        BY <3>5 DEF TypeInv, TypeOK
      <3>7. OneSettlementOwner'
        BY <2>2, <3>4, <3>6, OwnerKept DEF SessionInv, Kept
      <3>8. DueOwned(account[a]) => DueOwned(new)
        BY <3>2, <3>4, DueFalls DEF DueOwned
      <3>9. new.balance > 0 => account[a].balance > 0
        BY <3>2, <3>4 DEF Accounts, AccountType
      <3> QED  BY <1>1, <2>2, <2>5, <3>4, <3>5, <3>7, <3>8, <3>9, AccountChanges
    <2>8. cheque[g].account # None => cheque[g].account \in Account
      BY DEF TypeInv, TypeOK, Cheques
    <2> QED  BY <1>6, <2>6, <2>7, <2>8 DEF ChequeApply
  <1> QED  BY <1>4, <1>5, <1>6 DEF ChequeStep

LEMMA WorkerSessions ==
    ASSUME TypeInv, TypeInv', SessionInv, WorkerStep
    PROVE  SessionInv'
  <1>1. UNCHANGED <<lifecycle, current, account, created, request, task, claim, history>>
    BY DEF WorkerStep, HoldWorker, FreeWorker, TakeBatch
  <1>2. \A h \in Generation : cheque'[h].phase = "applying" => cheque'[h] = cheque[h]
    <2>1. CASE TakeBatch
      <3>1. \A h \in Queued : cheque'[h] = [cheque[h] EXCEPT !.phase = "taken"]
        BY <2>1 DEF TakeBatch, Queued
      <3>2. \A h \in Queued : cheque'[h].phase = "taken"
        BY <3>1 DEF Queued, TypeInv, TypeOK, Cheques
      <3>3. \A h \in Generation \ Queued : cheque'[h] = cheque[h]
        BY <2>1 DEF TakeBatch
      <3> QED  BY <3>2, <3>3
    <2>2. CASE HoldWorker \/ FreeWorker
      BY <2>2 DEF HoldWorker, FreeWorker
    <2> QED  BY <2>1, <2>2 DEF WorkerStep
  <1>3. SessionStays /\ (\A r \in Request : Reserves(r)) /\ \A t \in Task : Kept(t, task'[t])
    BY <1>1, SameKept DEF SessionStays, lifecycle, history, Reserves
  <1>4. ClaimsFollow'
    BY <1>1, <1>2, <1>3, ClaimsStay DEF SessionInv, FollowInv, history
  <1> QED  BY <1>1, <1>3, <1>4, AccountsRest

-----------------------------------------------------------------------------
LEMMA InitSessions == Init => SessionInv
  <1> SUFFICES ASSUME Init PROVE SessionInv
    OBVIOUS
  <1>1. \A a \in Account : /\ account[a].balance = 0 /\ account[a].connection = None
                           /\ ~account[a].scheduled
    BY DEF Init, NewAccount
  <1>2. IdleTask.step = "idle"
    BY DEF IdleTask, TaskAt
  <1>3. FollowInv
    BY <1>1 DEF Init, FollowInv, LinksAgree, AccountsFollow, RequestsFollow, TasksFollow, ClaimsFollow,
                UnusedCheque
  <1>4. DrainedBeforeClose /\ OneSettlementOwner /\ DueDebtIsOwned
    BY <1>1, <1>2 DEF Init, DrainedBeforeClose, OneSettlementOwner, DueDebtIsOwned
  <1> QED  BY <1>3, <1>4 DEF SessionInv

LEMMA StutterSessions ==
    ASSUME TypeInv, TypeInv', SessionInv, UNCHANGED vars
    PROVE  SessionInv'
  <1>1. UNCHANGED <<lifecycle, current, account, created, request, task, claim, cheque, history>>
    BY DEF vars
  <1>2. SessionStays /\ (\A r \in Request : Reserves(r)) /\ \A t \in Task : Kept(t, task'[t])
    BY <1>1, SameKept DEF SessionStays, lifecycle, history, Reserves
  <1>3. ClaimsFollow'
    BY <1>1, <1>2, ClaimsStay DEF SessionInv, FollowInv, history
  <1> QED  BY <1>1, <1>2, <1>3, AccountsRest

LEMMA NextSessions == TypeInv /\ CreditInv /\ SessionInv /\ [Next]_vars => SessionInv'
  <1> SUFFICES ASSUME TypeInv, CreditInv, SessionInv, [Next]_vars PROVE SessionInv'
    OBVIOUS
  <1>1. TypeInv'
    BY NextType
  <1>2. ASSUME NEW a \in Account, AccountStep(a) PROVE SessionInv'
    BY <1>1, <1>2, PublishSessions, AnnounceSessions DEF AccountStep
  <1>3. ASSUME NEW r \in Request, RequestStep(r) PROVE SessionInv'
    BY <1>1, <1>3, SelectSessions, DeliverSessions, FailSessions DEF RequestStep
  <1>4. ASSUME NEW t \in Task, RefreshStep(t) \/ RefreshOutcome(t) \/ RetireStep(t) PROVE SessionInv'
    <2>1. CASE RefreshStep(t) \/ RefreshOutcome(t)
      BY <1>1, <2>1, RefreshSessions, ClaimSessions, AcknowledgedSessions DEF RefreshStep, RefreshOutcome
    <2>2. CASE RetireStep(t)
      BY <1>1, <2>2, QuiesceSessions, ParkSessions, CloseSessions DEF RetireStep
    <2> QED  BY <1>4, <2>1, <2>2
  <1>5. CASE UNCHANGED vars
    BY <1>1, <1>5, StutterSessions
  <1> QED
    BY <1>1, <1>2, <1>3, <1>4, <1>5, ConnectionSessions, ResetSessions, ChequeSessions,
       WorkerSessions DEF Next

LEMMA SessionInvariant == Spec => [](TypeInv /\ CreditInv /\ SessionInv)
  <1>1. Init => SessionInv
    BY InitSessions
  <1>2. TypeInv /\ CreditInv /\ SessionInv /\ [Next]_vars => SessionInv'
    BY NextSessions
  <1> QED  BY <1>1, <1>2, CreditInvariant, PTL DEF Spec

(* Whatever interleaving of credits, announcements, refreshments and       *)
(* closes: an account has at most one settlement task and its flag says    *)
(* so, and a debt that is due on a watched session has that task.          *)
THEOREM DebtIsLookedAfter == Spec => []DebtHasOneOwner
  <1>1. SessionInv => DebtHasOneOwner
    BY DEF SessionInv, DebtHasOneOwner
  <1> QED  BY SessionInvariant, <1>1, PTL

(* For any number of successive sessions of a peer: a cheque claimed in    *)
(* one clears no account of another, and settlement closes a session only  *)
(* once no request is left on its account.                                 *)
THEOREM SessionsKeepApart == Spec => []SessionsStayApart
  <1>1. SessionInv => SessionsStayApart
    BY DEF SessionInv, FollowInv, ClaimsFollow, SessionsStayApart, ChequeClearsItsOwnAccount
  <1> QED  BY SessionInvariant, <1>1, PTL
=============================================================================
