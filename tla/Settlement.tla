----------------------------- MODULE Settlement -----------------------------
(***************************************************************************)
(* The settlement of one peer: requests reserve credit on the peer's       *)
(* account and turn it into debt, pseudosettle refreshments and SWAP       *)
(* cheques clear debt, and a session whose peer stopped answering is       *)
(* closed to new requests, drained and disconnected.  The module follows a *)
(* single peer through its successive connections; what it shares with the *)
(* other peers is the worker that issues cheques, a batch at a time.       *)
(*                                                                         *)
(* The runtime is one thread of asynchronous tasks; a step here is what    *)
(* runs between two awaits.  `closing' stands for the connected_peers lock *)
(* where a handler keeps it across awaits.                                 *)
(***************************************************************************)
EXTENDS Accounting, FiniteSets

CONSTANTS
    Account,       \* the PeerAccounting objects the peer may be given
    Connection,    \* the physical connections to the peer
    Request,       \* the chunk requests in flight at the same time
    Pushes,        \* those that are pushsync exchanges: they have no deadline
    Task,          \* the spawned settlement tasks
    Generation,    \* cheque generations
    Prices,        \* what a chunk may cost at this peer
    Thresholds,    \* payment thresholds the peer may announce
    None           \* the absent account, connection or generation

ASSUME SettlementAssumption ==
    /\ Pushes \subseteq Request
    /\ IsFiniteSet(Request)
    /\ Prices \subseteq 1..MaxChunkPrice
    /\ Thresholds \subseteq Nat
    /\ None \notin Account \cup Connection \cup Generation

VARIABLES
    link,          \* physical state of each connection
    session,       \* the connection the peer's attempt or peer file owns
    published,     \* connected_peers holds the peer file of `session'
    closing,       \* the connection whose close handler holds the lock
    reset,         \* how far disconnect_all_peers has got
    current,       \* the account accounting_peers holds for the peer
    account,       \* the account objects; tasks and requests keep theirs
    created,       \* the accounts handed out so far
    request,       \* the requests that hold a reservation
    task,          \* the queued and running settlement tasks
    claim,         \* ongoing_cheques: the cheque being cleared
    cheque,        \* the cheque messages, by generation
    worker         \* "held": the cheque worker awaits the price oracle, or
                   \* what its batch has for other peers; else "free"

(* History, read by no action: the highest threshold ever announced to an  *)
(* account, the account each cheque was claimed for, and the connections   *)
(* that at some time were not the peer's only one.                         *)
VARIABLES peak, claimant, shared

history == <<peak, claimant, shared>>
lifecycle == <<link, session, published, closing, reset>>
vars == <<lifecycle, current, account, created, request, task, claim, cheque, worker, history>>

-----------------------------------------------------------------------------
LinkStates == {"unused", "open", "lost", "closed"}
TaskSteps == {"idle", "refresh", "check", "wait", "sent", "claim",
              "retire", "drain", "parked", "closed"}
ChequePhases == {"unused", "queued", "taken", "issuing", "cleared", "failed",
                 "applying", "done"}

NoSnapshot == [balance |-> 0, refreshed |-> FALSE, threshold |-> 0]
NoRequest == [account |-> None, connection |-> None, price |-> 0]
NoClaim == [amount |-> 0, generation |-> None]
TaskAt(step, a, c) ==
    [step |-> step, account |-> a, connection |-> c,
     snapshot |-> NoSnapshot, amount |-> 0, awaits |-> NoClaim]
IdleTask == TaskAt("idle", None, None)
UnusedCheque == [phase |-> "unused", amount |-> 0, ok |-> FALSE, account |-> None]

Accounts == AccountType(Connection \cup {None})
Requests == [account : Account, connection : Connection, price : Prices]
Snapshots == [balance : Nat, refreshed : BOOLEAN, threshold : Nat]
Claims == [amount : Nat, generation : Generation \cup {None}]
Tasks == [step : TaskSteps, account : Account \cup {None},
          connection : Connection \cup {None}, snapshot : Snapshots,
          amount : Nat, awaits : Claims]
Cheques == [phase : ChequePhases, amount : Nat, ok : BOOLEAN,
            account : Account \cup {None}]

TypeOK ==
    /\ link \in [Connection -> LinkStates]
    /\ session \in Connection \cup {None}
    /\ published \in BOOLEAN
    /\ closing \in Connection \cup {None}
    /\ reset \in {"none", "accounts", "cheques"}
    /\ current \in Account \cup {None}
    /\ account \in [Account -> Accounts]
    /\ created \subseteq Account
    /\ request \in [Request -> {NoRequest} \cup Requests]
    /\ task \in [Task -> Tasks]
    /\ claim \in Claims
    /\ cheque \in [Generation -> Cheques]
    /\ worker \in {"free", "held"}
    /\ peak \in [Account -> Nat]
    /\ claimant \in [Generation -> Account \cup {None}]
    /\ shared \subseteq Connection

Init ==
    /\ link = [c \in Connection |-> "unused"]
    /\ session = None
    /\ published = FALSE
    /\ closing = None
    /\ reset = "none"
    /\ current = None
    /\ account = [a \in Account |-> NewAccount(None)]
    /\ created = {}
    /\ request = [r \in Request |-> NoRequest]
    /\ task = [t \in Task |-> IdleTask]
    /\ claim = NoClaim
    /\ cheque = [g \in Generation |-> UnusedCheque]
    /\ worker = "free"
    /\ peak = [a \in Account |-> 0]
    /\ claimant = [g \in Generation |-> None]
    /\ shared = {}

-----------------------------------------------------------------------------
(* Connections.                                                            *)

Physical == {c \in Connection : link[c] = "open"}
exclusive_physical_connection(c) == Physical = {c}
ConnectedLockFree == closing = None

(* ACCOUNTING_DRAINED.notify: every task parked on it looks again.         *)
Notified(tasks, drained) ==
    [t \in Task |-> IF drained /\ tasks[t].step = "parked"
                    THEN [tasks[t] EXCEPT !.step = "drain"] ELSE tasks[t]]

(* An attempt dials the disconnected peer and its connection is set up.    *)
Dial(c) ==
    /\ reset = "none" /\ ConnectedLockFree
    /\ session = None /\ Physical = {} /\ link[c] = "unused"
    /\ link' = [link EXCEPT ![c] = "open"]
    /\ session' = c
    /\ UNCHANGED <<published, closing, reset, current, account, created,
                   request, task, claim, cheque, worker, history>>

(* A further connection to the same peer, which no attempt owns.           *)
OpenDuplicate(c) ==
    /\ Physical # {} /\ link[c] = "unused"
    /\ link' = [link EXCEPT ![c] = "open"]
    /\ shared' = shared \cup Physical \cup {c}
    /\ UNCHANGED <<session, published, closing, reset, current, account,
                   created, request, task, claim, cheque, worker, peak, claimant>>

(* An attempt that finds the peer connected takes over that connection.    *)
Adopt(c) ==
    /\ reset = "none" /\ ConnectedLockFree
    /\ session = None /\ exclusive_physical_connection(c)
    /\ session' = c
    /\ UNCHANGED <<link, published, closing, reset, current, account, created,
                   request, task, claim, cheque, worker, history>>

Disconnect(c) ==
    /\ link[c] = "open"
    /\ link' = [link EXCEPT ![c] = "lost"]
    /\ UNCHANGED <<session, published, closing, reset, current, account,
                   created, request, task, claim, cheque, worker, history>>

(* The ConnectionClosed handler.  A close that owns the session retires    *)
(* the peer file and the account, and keeps the lock until the pending     *)
(* cheque is dropped too.                                                  *)
HandleClosed(c) ==
    /\ link[c] = "lost" /\ ConnectedLockFree
    /\ link' = [link EXCEPT ![c] = "closed"]
    /\ \/ /\ session = c
          /\ session' = None
          /\ published' = FALSE
          /\ current' = None
          /\ closing' = c
       \/ /\ session # c
          /\ UNCHANGED <<session, published, current, closing>>
    /\ UNCHANGED <<reset, account, created, request, task, claim, cheque, worker, history>>

(* Fault: the pending cheque outlives the session it was claimed in.       *)
HandleClosedCheque_ClaimKept ==
    /\ closing # None
    /\ closing' = None
    /\ task' = Notified(task, TRUE)
    /\ UNCHANGED <<link, session, published, reset, current, account, created,
                   request, claim, cheque, worker, history>>

HandleClosedCheque ==
    /\ closing # None
    /\ closing' = None
    /\ claim' = NoClaim
    /\ task' = Notified(task, TRUE)
    /\ UNCHANGED <<link, session, published, reset, current, account, created,
                   request, cheque, worker, history>>

(* disconnect_all_peers, map by map: other tasks run in between.           *)
disconnect_all_peers ==
    \/ /\ reset = "none" /\ ConnectedLockFree
       /\ reset' = "accounts"
       /\ link' = [c \in Connection |-> IF link[c] = "open" THEN "lost" ELSE link[c]]
       /\ session' = None
       /\ published' = FALSE
       /\ UNCHANGED <<closing, current, account, created, request, task, claim,
                      cheque, worker, history>>
    \/ /\ reset = "accounts"
       /\ reset' = "cheques"
       /\ current' = None
       /\ UNCHANGED <<link, session, published, closing, account, created,
                      request, task, claim, cheque, worker, history>>
    \/ /\ reset = "cheques"
       /\ reset' = "none"
       /\ claim' = NoClaim
       /\ task' = Notified(task, TRUE)
       /\ UNCHANGED <<link, session, published, closing, current, account,
                      created, request, cheque, worker, history>>

-----------------------------------------------------------------------------
(* Accounts: the handshake's peer file and the peer's pricing announcement *)
(* arrive in either order and meet in one entry.                           *)

AccountForPeer(a) ==
    IF current = None THEN a \notin created ELSE a = current

(* Store `updated' for account a; a due debt without a settlement owner    *)
(* queues a refresh.                                                       *)
ScheduleRefresh(a, updated, drained) ==
    IF due(updated) /\ ~updated.scheduled /\ updated.connection # None
    THEN \E t \in Task :
            /\ task[t] = IdleTask
            /\ task' = [Notified(task, drained)
                           EXCEPT ![t] = TaskAt("refresh", a, updated.connection)]
            /\ account' = [account EXCEPT ![a] = [updated EXCEPT !.scheduled = TRUE]]
    ELSE /\ task' = Notified(task, drained)
         /\ account' = [account EXCEPT ![a] = updated]

(* Fault: a lowered threshold is stored without judging the debt anew.     *)
set_payment_threshold_DebtUnjudged(a, amount) ==
    /\ account' = [account EXCEPT ![a].threshold = amount]
    /\ UNCHANGED task

set_payment_threshold(a, amount) ==
    LET updated == [account[a] EXCEPT !.threshold = amount]
    IN  IF updated.balance > 0
        THEN ScheduleRefresh(a, updated, updated.reserve = 0)
        ELSE /\ account' = [account EXCEPT ![a] = updated]
             /\ UNCHANGED task

(* pricing_event_handle: an announcement on the session's connection.      *)
AnnounceThreshold(a, amount) ==
    /\ ConnectedLockFree
    /\ session # None /\ exclusive_physical_connection(session)
    /\ AccountForPeer(a)
    /\ current' = a
    /\ created' = created \cup {a}
    /\ set_payment_threshold(a, amount)
    /\ peak' = [peak EXCEPT ![a] = AtLeast(@, amount)]
    /\ UNCHANGED <<lifecycle, request, claim, cheque, worker, claimant, shared>>

(* accounting_event_handle: the handshake's peer file is published.        *)
PublishPeer(a) ==
    /\ ConnectedLockFree
    /\ session # None /\ exclusive_physical_connection(session)
    /\ ~published
    /\ AccountForPeer(a)
    /\ current' = a
    /\ created' = created \cup {a}
    /\ account' = [account EXCEPT ![a].connection = session]
    /\ published' = TRUE
    /\ UNCHANGED <<link, session, closing, reset, request, task, claim, cheque, worker, history>>

-----------------------------------------------------------------------------
(* Requests.                                                               *)

(* select_retrieve_peer and its push counterpart: reserve first, then      *)
(* capture the protocol session; a failed capture gives the reserve back.  *)
SelectPeer(r, amount) ==
    /\ request[r] = NoRequest
    /\ current # None
    /\ account[current].connection # None
    /\ CanReserve(account[current], amount)
    /\ \/ /\ exclusive_physical_connection(account[current].connection)
          /\ account' = [account EXCEPT ![current] = reserve(@, amount)]
          /\ request' = [request EXCEPT ![r] =
                [account |-> current, connection |-> account[current].connection,
                 price |-> amount]]
          /\ UNCHANGED task
       \/ /\ ~exclusive_physical_connection(account[current].connection)
          /\ task' = Notified(task, account[current].reserve = 0)
          /\ UNCHANGED <<account, request>>
    /\ UNCHANGED <<lifecycle, current, created, claim, cheque, worker, history>>

(* A valid chunk or receipt.                                               *)
DeliverChunk(r) ==
    LET a == request[r].account
        credited == apply_credit(account[a], request[r].price)
    IN  /\ request[r] # NoRequest
        /\ request' = [request EXCEPT ![r] = NoRequest]
        /\ ScheduleRefresh(a, credited, credited.reserve = 0)
        /\ UNCHANGED <<lifecycle, current, created, claim, cheque, worker, history>>

(* Fault: a cancelled reservation wakes no drain.                          *)
FailRequest_Silent(r) ==
    LET a == request[r].account
    IN  /\ request[r] # NoRequest
        /\ request' = [request EXCEPT ![r] = NoRequest]
        /\ account' = [account EXCEPT ![a] = cancel_reserve(@, request[r].price)]
        /\ UNCHANGED <<lifecycle, current, created, task, claim, cheque, worker, history>>

(* An empty or invalid answer, a broken stream, or a request withdrawn     *)
(* before it was sent.                                                     *)
FailRequest(r) ==
    LET a == request[r].account
        cancelled == cancel_reserve(account[a], request[r].price)
    IN  /\ request[r] # NoRequest
        /\ request' = [request EXCEPT ![r] = NoRequest]
        /\ account' = [account EXCEPT ![a] = cancelled]
        /\ task' = Notified(task, cancelled.reserve = 0)
        /\ UNCHANGED <<lifecycle, current, created, claim, cheque, worker, history>>

(* retire_timed_out_session, then the reserve is cancelled: the session    *)
(* that let a retrieval run out of time is retired unless a settlement     *)
(* task already owns it.                                                   *)
TimeOutRetrieval(r) ==
    LET a == request[r].account
        cancelled == cancel_reserve(account[a], request[r].price)
        woken == Notified(task, cancelled.reserve = 0)
    IN  /\ r \notin Pushes
        /\ request[r] # NoRequest
        /\ request' = [request EXCEPT ![r] = NoRequest]
        /\ IF account[a].connection = request[r].connection /\ ~account[a].scheduled
           THEN /\ account' = [account EXCEPT ![a] = [cancelled EXCEPT !.scheduled = TRUE]]
                /\ \E t \in Task :
                      /\ task[t] = IdleTask
                      /\ task' = [woken EXCEPT ![t] =
                                     TaskAt("retire", a, request[r].connection)]
           ELSE /\ account' = [account EXCEPT ![a] = cancelled]
                /\ task' = woken
        /\ UNCHANGED <<lifecycle, current, created, claim, cheque, worker, history>>

-----------------------------------------------------------------------------
(* The refresh task.  Its account and connection are fixed at scheduling.  *)

current_accounting_protocol_session(t) ==
    /\ published /\ session = task[t].connection
    /\ current = task[t].account
    /\ account[task[t].account].connection = task[t].connection
    /\ exclusive_physical_connection(task[t].connection)

(* The task gives up ownership: a later credit may queue a new one.        *)
ReleaseSettlement(t, settled) ==
    /\ account' = [account EXCEPT ![task[t].account] = [settled EXCEPT !.scheduled = FALSE]]
    /\ task' = [task EXCEPT ![t] = IdleTask]
    /\ UNCHANGED claim

OwnTaskAt(t, step) == TaskAt(step, task[t].account, task[t].connection)

Advance(t, step) ==
    /\ task' = [task EXCEPT ![t] = OwnTaskAt(t, step)]
    /\ UNCHANGED <<account, claim>>

RefreshLoop(t) ==
    LET own == account[task[t].account]
    IN  /\ task[t].step = "refresh"
        /\ IF due(own)
           THEN /\ task' = [task EXCEPT ![t] =
                      [OwnTaskAt(t, "check") EXCEPT !.snapshot =
                          [balance |-> own.balance, refreshed |-> own.refreshed,
                           threshold |-> own.threshold]]]
                /\ UNCHANGED <<account, claim>>
           ELSE ReleaseSettlement(t, own)
        /\ UNCHANGED <<lifecycle, current, created, request, cheque, worker, history>>

(* A debt that the pending cheque will clear is not refreshed: the task    *)
(* sleeps and looks again.                                                 *)
RefreshCheck(t) ==
    LET seen == task[t].snapshot
    IN  /\ task[t].step = "check" /\ ConnectedLockFree
        /\ IF ~current_accounting_protocol_session(t)
           THEN ReleaseSettlement(t, account[task[t].account])
           ELSE IF refreshment_due(saturating_sub(seen.balance, claim.amount),
                                   seen.refreshed, seen.threshold)
                THEN Advance(t, "wait")
                ELSE Advance(t, "refresh")
        /\ UNCHANGED <<lifecycle, current, created, request, cheque, worker, history>>

(* After the pause between refreshments everything is checked again, and   *)
(* the whole threshold is offered.                                         *)
RefreshSend(t) ==
    LET own == account[task[t].account]
    IN  /\ task[t].step = "wait" /\ ConnectedLockFree
        /\ IF current_accounting_protocol_session(t) /\ own.threshold # 0 /\ due(own)
           THEN /\ task' = [task EXCEPT ![t] =
                      [OwnTaskAt(t, "sent") EXCEPT !.amount = own.threshold]]
                /\ UNCHANGED <<account, claim>>
           ELSE ReleaseSettlement(t, own)
        /\ UNCHANGED <<lifecycle, current, created, request, cheque, worker, history>>

RefreshNotDispatched(t) ==
    /\ task[t].step = "sent"
    /\ Advance(t, "refresh")
    /\ UNCHANGED <<lifecycle, current, created, request, cheque, worker, history>>

(* An acknowledgement of nothing voids the debt and ends the task.         *)
RefreshAcknowledgedNothing(t) ==
    LET own == account[task[t].account]
    IN  /\ task[t].step = "sent"
        /\ ReleaseSettlement(t, [own EXCEPT !.refreshed = TRUE, !.balance = 0])
        /\ UNCHANGED <<lifecycle, current, created, request, cheque, worker, history>>

(* What is left above one allowance may be paid by cheque, when the vault  *)
(* has a chequebook.                                                       *)
RefreshAcknowledged(t, amount) ==
    LET settled == apply_refreshment([account[task[t].account] EXCEPT !.refreshed = TRUE],
                                     amount)
    IN  /\ task[t].step = "sent" /\ amount \in 1..task[t].amount
        /\ account' = [account EXCEPT ![task[t].account] = settled]
        /\ \/ task' = [task EXCEPT ![t] = OwnTaskAt(t, "refresh")]
           \/ /\ settled.balance > RefreshRate
              /\ task' = [task EXCEPT ![t] =
                    [OwnTaskAt(t, "claim") EXCEPT !.amount = settled.balance - RefreshRate]]
        /\ UNCHANGED <<lifecycle, current, created, request, claim, cheque, worker, history>>

(* claim_current_cheque, and the instruction to issue it.  Generation      *)
(* bounds the cheques of a behaviour; once they are used up none is        *)
(* claimed.                                                                *)
RefreshClaim(t) ==
    /\ task[t].step = "claim" /\ ConnectedLockFree
    /\ task' = [task EXCEPT ![t] = OwnTaskAt(t, "refresh")]
    /\ IF /\ current_accounting_protocol_session(t) /\ claim = NoClaim
          /\ \E g \in Generation : cheque[g] = UnusedCheque
       THEN \E g \in Generation :
               /\ cheque[g] = UnusedCheque
               /\ claim' = [amount |-> task[t].amount, generation |-> g]
               /\ cheque' = [cheque EXCEPT ![g].phase = "queued", ![g].amount = task[t].amount]
               /\ claimant' = [claimant EXCEPT ![g] = task[t].account]
       ELSE UNCHANGED <<claim, cheque, worker, claimant>>
    /\ UNCHANGED <<lifecycle, current, account, created, request, worker, peak, shared>>

(* A payment whose effect is unknown ends the session: break.              *)
RefreshAmbiguous(t) ==
    /\ task[t].step = "sent"
    /\ Advance(t, "retire")
    /\ UNCHANGED <<lifecycle, current, created, request, cheque, worker, history>>

-----------------------------------------------------------------------------
(* quiesce_drain_and_close_accounting_session                              *)

Quiesce(t) ==
    LET owned == /\ published /\ session = task[t].connection
                 /\ current = task[t].account
                 /\ account[task[t].account].connection = task[t].connection
    IN  /\ task[t].step = "retire" /\ ConnectedLockFree
        /\ task' = [task EXCEPT ![t] =
              [OwnTaskAt(t, "drain") EXCEPT !.awaits = IF owned THEN claim ELSE NoClaim]]
        /\ account' = IF owned
                      THEN [account EXCEPT ![task[t].account].connection = None]
                      ELSE account
        /\ UNCHANGED <<lifecycle, current, created, request, claim, cheque, worker, history>>

Drained(t) ==
    /\ account[task[t].account].reserve = 0
    /\ task[t].awaits = NoClaim \/ task[t].awaits # claim

Park(t) ==
    /\ task[t].step = "drain" /\ ~Drained(t)
    /\ task' = [task EXCEPT ![t].step = "parked"]
    /\ UNCHANGED <<lifecycle, current, account, created, request, claim, cheque, worker, history>>

CloseSession(t) ==
    LET c == task[t].connection
    IN  /\ task[t].step = "drain" /\ Drained(t)
        /\ task' = [task EXCEPT ![t].step = "closed"]
        /\ link' = IF link[c] = "open" THEN [link EXCEPT ![c] = "lost"] ELSE link
        /\ UNCHANGED <<session, published, closing, reset, current, account,
                       created, request, claim, cheque, worker, history>>

-----------------------------------------------------------------------------
(* Cheques: cheque_instruction_handle and cheque_apply_handle.             *)

InBatch == {g \in Generation : cheque[g].phase \in {"taken", "issuing"}}
Queued == {g \in Generation : cheque[g].phase = "queued"}
NextBatch == worker = "free" /\ InBatch = {} /\ Queued # {}

(* The worker turns out to have a batch of other peers' cheques, or no     *)
(* price and a question to the oracle.  Neither has to end.  (It matters   *)
(* only to a cheque in the queue, and is decided when there is one.)       *)
HoldWorker ==
    /\ NextBatch
    /\ worker' = "held"
    /\ UNCHANGED <<lifecycle, current, account, created, request, task, claim,
                   cheque, history>>

FreeWorker ==
    /\ worker = "held"
    /\ worker' = "free"
    /\ UNCHANGED <<lifecycle, current, account, created, request, task, claim,
                   cheque, history>>

(* drain_ready, then join_all: all that is queued becomes the next batch,  *)
(* and what is queued meanwhile waits for the end of the whole batch.      *)
TakeBatch ==
    /\ NextBatch
    /\ cheque' = [g \in Generation |-> IF g \in Queued
                                      THEN [cheque[g] EXCEPT !.phase = "taken"]
                                      ELSE cheque[g]]
    /\ UNCHANGED <<lifecycle, current, account, created, request, task, claim,
                   worker, history>>

IsClaimed(g) == claim = [amount |-> cheque[g].amount, generation |-> g]

StepCheque(g, phase) ==
    /\ cheque' = [cheque EXCEPT ![g].phase = phase]
    /\ UNCHANGED <<lifecycle, current, account, created, request, task, claim, worker, history>>

(* A claim that is gone is dropped in silence; a session that cannot carry *)
(* the cheque, or a missing price, answers that it failed.                 *)
ChequeStart(g) ==
    /\ cheque[g].phase = "taken" /\ ConnectedLockFree
    /\ \/ StepCheque(g, "failed")
       \/ ~IsClaimed(g) /\ StepCheque(g, "done")
       \/ /\ IsClaimed(g)
          /\ current # None /\ published
          /\ account[current].connection = session
          /\ exclusive_physical_connection(session)
          /\ StepCheque(g, "issuing")

ChequeIssued(g) ==
    /\ cheque[g].phase = "issuing"
    /\ StepCheque(g, "cleared") \/ StepCheque(g, "failed")

(* The result finds its claim and looks the account up ...                 *)
ChequeResult(g) ==
    /\ cheque[g].phase \in {"cleared", "failed"}
    /\ cheque' = [cheque EXCEPT ![g] =
          IF claim.generation = g
          THEN [@ EXCEPT !.phase = "applying", !.ok = (cheque[g].phase = "cleared"),
                         !.account = current]
          ELSE [@ EXCEPT !.phase = "done"]]
    /\ UNCHANGED <<lifecycle, current, account, created, request, task, claim, worker, history>>

(* ... and applies to it only if the claim still stands.                   *)
ChequeApply(g) ==
    LET a == cheque[g].account
    IN  /\ cheque[g].phase = "applying"
        /\ cheque' = [cheque EXCEPT ![g].phase = "done", ![g].account = None]
        /\ account' = IF IsClaimed(g) /\ cheque[g].ok /\ a # None
                      THEN [account EXCEPT ![a] = apply_refreshment(@, cheque[g].amount)]
                      ELSE account
        /\ claim' = IF IsClaimed(g) THEN NoClaim ELSE claim
        /\ task' = Notified(task, TRUE)
        /\ UNCHANGED <<lifecycle, current, created, request, worker, history>>

-----------------------------------------------------------------------------
RefreshStep(t) ==
    \/ RefreshLoop(t) \/ RefreshCheck(t) \/ RefreshSend(t) \/ RefreshClaim(t)

RefreshOutcome(t) ==
    \/ RefreshNotDispatched(t) \/ RefreshAcknowledgedNothing(t) \/ RefreshAmbiguous(t)
    \/ \E amount \in 1..task[t].amount : RefreshAcknowledged(t, amount)

RetireStep(t) == Quiesce(t) \/ Park(t) \/ CloseSession(t)

ConnectionStep(c) ==
    Dial(c) \/ OpenDuplicate(c) \/ Adopt(c) \/ Disconnect(c) \/ HandleClosed(c)

AccountStep(a) ==
    PublishPeer(a) \/ \E amount \in Thresholds : AnnounceThreshold(a, amount)

RequestStep(r) ==
    \/ \E amount \in Prices : SelectPeer(r, amount)
    \/ DeliverChunk(r) \/ FailRequest(r) \/ TimeOutRetrieval(r)

ChequeStep(g) == ChequeStart(g) \/ ChequeIssued(g) \/ ChequeResult(g) \/ ChequeApply(g)

WorkerStep == HoldWorker \/ FreeWorker \/ TakeBatch

Next ==
    \/ \E c \in Connection : ConnectionStep(c)
    \/ HandleClosedCheque
    \/ disconnect_all_peers
    \/ \E a \in Account : AccountStep(a)
    \/ \E r \in Request : RequestStep(r)
    \/ \E t \in Task : RefreshStep(t) \/ RefreshOutcome(t) \/ RetireStep(t)
    \/ \E g \in Generation : ChequeStep(g)
    \/ WorkerStep

Spec == Init /\ [][Next]_vars

(* Local tasks run when they can, timers fire, and a request on a dead     *)
(* connection fails.  No peer owes an answer: a pushsync or cheque exchange *)
(* has no deadline of its own, and neither has the oracle, so the worker   *)
(* that is held by another peer's cheque may never be free again.  Its     *)
(* instructions are a queue, so each time it is free it comes closer to    *)
(* those there are (SF).                                                   *)
Fairness ==
    /\ \A c \in Connection : WF_vars(HandleClosed(c))
    /\ WF_vars(HandleClosedCheque)
    /\ WF_vars(reset # "none" /\ disconnect_all_peers)
    /\ \A r \in Request :
          /\ WF_vars(TimeOutRetrieval(r))
          /\ WF_vars(request[r] # NoRequest /\ link[request[r].connection] # "open"
                       /\ FailRequest(r))
    /\ \A t \in Task :
          WF_vars(RefreshStep(t)) /\ WF_vars(RefreshOutcome(t)) /\ WF_vars(RetireStep(t))
    /\ SF_vars(TakeBatch)
    /\ \A g \in Generation :
          WF_vars(ChequeStart(g)) /\ WF_vars(ChequeResult(g)) /\ WF_vars(ChequeApply(g))

FairSpec == Spec /\ Fairness

-----------------------------------------------------------------------------
(* Safety.                                                                 *)

(* One token per unit of reserve that a request in flight holds on a.      *)
Held(a) ==
    {u \in Request \X (1..MaxChunkPrice) :
        request[u[1]].account = a /\ u[2] <= request[u[1]].price}

(* The reserve of an account is exactly what its requests in flight hold:  *)
(* no outcome settles a reservation twice or loses it (retrieve_attempt,   *)
(* pushsync_attempt, the rollback in select_retrieve_peer).                *)
ReserveMatchesRequests ==
    \A a \in Account : account[a].reserve = Cardinality(Held(a))

(* What a peer is owed and may still come to be owed never exceeds the     *)
(* highest threshold it announced, however requests, refreshments and      *)
(* cheques interleave (accounting::reserve and apply_credit).              *)
CreditWithinThreshold ==
    \A a \in Account : account[a].balance + account[a].reserve <= peak[a]

(* An account never owes and is prepaid at the same time, although         *)
(* refreshments and cheques may overpay a debt that shrank meanwhile.      *)
DebtOrSurplus ==
    \A a \in Account : account[a].surplus > 0 => account[a].balance = 0

(* refresh_scheduled names exactly one queued, running or finished         *)
(* settlement task ("sole ownership of settlement").                       *)
OneSettlementOwner ==
    /\ \A s, t \in Task :
          task[s] # IdleTask /\ task[t] # IdleTask /\ task[s].account = task[t].account
             => s = t
    /\ \A a \in Account :
          account[a].scheduled <=> \E t \in Task : task[t] # IdleTask /\ task[t].account = a

(* A debt worth refreshing on a live session has a settlement owner: the   *)
(* peer cannot sit at its threshold with nothing under way to clear it.    *)
(* Connections that were ever not the peer's only one are left out: while  *)
(* a second one is open the refresh task gives up and nothing requeues it. *)
DueDebtIsOwned ==
    published /\ session \notin shared /\ link[session] = "open" /\ current # None
        => LET own == account[current]
           IN  own.connection = session /\ own.threshold > 0 /\ due(own) => own.scheduled

(* A cheque clears the account it was claimed for, never the one a later   *)
(* session of the same peer was given (cheque_apply_handle looks the       *)
(* account up by peer).                                                    *)
ChequeClearsItsOwnAccount ==
    /\ claim # NoClaim /\ current # None => current = claimant[claim.generation]
    /\ \A g \in Generation :
          cheque[g].phase = "applying" /\ IsClaimed(g) /\ cheque[g].account # None
             => cheque[g].account = claimant[g]

(* A session closed by settlement has no request left on its account, and  *)
(* takes no new one ("Reserved requests must settle before the accounting  *)
(* connection closes").                                                    *)
DrainedBeforeClose ==
    \A t \in Task : task[t].step = "closed" =>
        \A r \in Request : request[r].account # task[t].account

(* A debt that is due is looked after, and by one task alone.              *)
DebtHasOneOwner == OneSettlementOwner /\ DueDebtIsOwned

(* Sessions of one peer stay apart: no cheque crosses over, and none is    *)
(* closed by settlement under its own requests.                            *)
SessionsStayApart == ChequeClearsItsOwnAccount /\ DrainedBeforeClose

-----------------------------------------------------------------------------
(* Liveness.                                                               *)

Retiring(t) == task[t].step \in {"retire", "drain", "parked"}

(* What has no deadline: a push on the account, the cheque of the peer, and *)
(* whatever keeps the worker from taking that cheque.                      *)
HeldUp(t) ==
    \/ \E r \in Pushes : request[r].account = task[t].account
    \/ \E g \in Generation :
          /\ IsClaimed(g)
          /\ \/ cheque[g].phase = "issuing"
             \/ g \in Queued /\ (worker = "held" \/ InBatch # {})

(* A session being retired ends by closing its connection, unless an       *)
(* exchange without deadline holds it up for ever: no wake-up of           *)
(* ACCOUNTING_DRAINED is missed, and a cheque in hand is resolved.         *)
RetirementFinishes ==
    \A t \in Task : []<>~HeldUp(t) => (Retiring(t) ~> task[t].step = "closed")
=============================================================================
