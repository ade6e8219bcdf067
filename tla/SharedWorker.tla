---------------------------- MODULE SharedWorker ----------------------------
(***************************************************************************)
(* Windows (tabs) share one node in a SharedWorker: every window talks to  *)
(* worker.js over its own port (shared_runtime.rs), worker.js decides      *)
(* which network the runtime is on and which window plays the one HLS      *)
(* stream (static/worker.js), and calls the Rust runtime behind it         *)
(* (worker_runtime.rs, stream_hls/worker_bridge.rs); a window opens,       *)
(* replaces and abandons its stream (stream_hls/page_bridge.rs).           *)
(*                                                                         *)
(* Other handlers run while one awaits; an await that only passes through  *)
(* the queue of microtasks (getRuntime once it is there, a lock nobody     *)
(* holds, the release of a stream) lets none in.  A window receives        *)
(* answers and notices in the order they were sent.  The vault, bootnodes, *)
(* logs and progress are left out; the requests and ports of a service     *)
(* worker are those of ServiceWorker.                                      *)
(***************************************************************************)
EXTENDS Naturals, Sequences, FiniteSets

CONSTANTS
    Tab, Network, None,
    Initial,          \* the networks the windows may start with
    MaxActs, MaxViews  \* bounds: what the windows do, and streams of each

VARIABLES
    page,      \* a window: its client of the worker and its HLS bridge
    toWorker, toPage,
    worker,    \* the variables of worker.js
    prepares,  \* handlers of WEEB3_HLS_PREPARE behind their first await
    rust,      \* Weeb3WorkerRuntime and the HLS runtime
    acts,
    taken      \* attempts another window took the lease from (history)

vars == <<page, toWorker, toPage, worker, prepares, rust, acts, taken>>

NoPage == [here |-> TRUE, network |-> None, configured |-> FALSE, starting |-> None,
           view |-> 0, pending |-> None, active |-> None, awaiting |-> {}]
Attempt(v, n) == [view |-> v, network |-> n]
Lease(t, attempt, session) == [tab |-> t, attempt |-> attempt, session |-> session]

\* A stream a window asked for and one it shows; the lease and the start that
\* worker.js keeps.
Attempts == [view : Nat, network : Network]
Actives == [view : Nat, session : Nat, network : Network]
Leases == [tab : Tab, attempt : Nat, session : Nat]
Starts == [tab : Tab, message : [type : {"start"}, id : Nat, network : Network],
           previous : Network \cup {None}]

ASSUME SharedAssumption ==
    /\ Initial \subseteq [Tab -> Network]
    /\ None \notin Network \cup Attempts \cup Actives \cup Leases \cup Starts

TypeOK ==
    /\ \A t \in Tab : /\ page[t].network \in Network
                      /\ page[t].awaiting \subseteq [view : 1..page[t].view, network : Network]
                      /\ page[t].pending # None => page[t].pending.view <= page[t].view
    /\ worker.network \in Network \cup {None} /\ worker.clients \subseteq Tab
    /\ worker.failed \in BOOLEAN
    /\ rust.network \in Network \cup {None} /\ rust.session <= rust.view

Init ==
    /\ \E initial \in Initial : page = [t \in Tab |-> [NoPage EXCEPT !.network = initial[t]]]
    /\ toWorker = [t \in Tab |-> <<>>] /\ toPage = [t \in Tab |-> <<>>]
    /\ worker = [network |-> None, lease |-> None, clients |-> Tab, start |-> None, failed |-> FALSE,
                 transfers |-> {}]
    /\ prepares = {}
    /\ rust = [network |-> None, view |-> 0, session |-> 0, key |-> None, unsettled |-> FALSE,
               switching |-> FALSE]
    /\ acts = 0 /\ taken = {}

Act == acts < MaxActs /\ acts' = acts + 1
Post(t, messages) == toWorker' = [toWorker EXCEPT ![t] = @ \o messages]

-----------------------------------------------------------------------------
\* The window: SharedNodeClient.

\* configure, or ensure before anything else is asked of the worker: the
\* transition lock admits one at a time.
Start(t, n) ==
    /\ page[t].here /\ page[t].starting = None
    /\ page[t].configured \/ n = page[t].network
    /\ Act
    /\ page' = [page EXCEPT ![t].starting = [id |-> acts, network |-> n]]
    /\ Post(t, <<[type |-> "start", id |-> acts, network |-> n]>>)
    /\ UNCHANGED <<toPage, worker, prepares, rust, taken>>

\* START_TIMEOUT: the worker goes on.
StartTimeout(t) ==
    /\ page[t].here /\ page[t].starting # None /\ Act
    /\ page' = [page EXCEPT ![t].starting = None]
    /\ UNCHANGED <<toWorker, toPage, worker, prepares, rust, taken>>

Ensured(t) == page[t].here /\ page[t].configured /\ page[t].starting = None

Fetch(t) ==
    /\ Ensured(t) /\ Act
    /\ Post(t, <<[type |-> "fetch", id |-> acts, network |-> page[t].network]>>)
    /\ UNCHANGED <<page, toPage, worker, prepares, rust, taken>>

\* pagehide
Hide(t) ==
    /\ page[t].here /\ Act
    /\ page' = [page EXCEPT ![t] = [NoPage EXCEPT !.here = FALSE, !.network = page[t].network,
                                                  !.view = page[t].view]]
    /\ Post(t, <<[type |-> "close"]>>)
    /\ UNCHANGED <<toPage, worker, prepares, rust, taken>>

-----------------------------------------------------------------------------
\* The window: page_bridge.

Abandon(attempt) == [type |-> "abandon", attempt |-> attempt.view, network |-> attempt.network]
\* release_hls_matching: of this view, or of whichever there is (0).
Matches(p, v) == [active |-> p.active # None /\ (v = 0 \/ p.active.view = v),
                  pending |-> p.pending # None /\ (v = 0 \/ p.pending.view = v)]
release_hls_matching(p, v) ==
    LET is == Matches(p, v)
    IN  [p EXCEPT !.active = IF is.active THEN None ELSE @, !.pending = IF is.pending THEN None ELSE @]
Released(p, v) ==
    LET is == Matches(p, v)
    IN  (IF is.active THEN <<[type |-> "release", session |-> p.active.session,
                              network |-> p.active.network]>> ELSE <<>>)
        \o (IF is.pending THEN <<Abandon(p.pending)>> ELSE <<>>)

\* open_hls_feed_view and prepare_hls: what is shown is released first.
OpenHls(t) ==
    LET view == page[t].view + 1
        attempt == Attempt(view, page[t].network)
        released == release_hls_matching(page[t], 0)
    IN  /\ Ensured(t) /\ page[t].view < MaxViews
        /\ page' = [page EXCEPT ![t] = [released EXCEPT
                        !.view = view, !.pending = attempt, !.awaiting = @ \cup {attempt}]]
        /\ Post(t, Released(page[t], 0) \o
                   <<[type |-> "prepare", attempt |-> view, network |-> page[t].network]>>)
        /\ Act
        /\ UNCHANGED <<toPage, worker, prepares, rust, taken>>

\* Another resource is asked for: its view is current before it is shown.
Supersede(t) ==
    /\ page[t].here /\ page[t].view < MaxViews /\ (page[t].pending # None \/ page[t].active # None)
    /\ page' = [page EXCEPT ![t].view = @ + 1]
    /\ Act
    /\ UNCHANGED <<toWorker, toPage, worker, prepares, rust, taken>>
\* release_hls_view(None): another view is shown, or the player failed.
ReleaseView(t) ==
    /\ page[t].here /\ (page[t].pending # None \/ page[t].active # None)
    /\ page' = [page EXCEPT ![t] = release_hls_matching(@, 0)]
    /\ Post(t, Released(page[t], 0)) /\ Act
    /\ UNCHANGED <<toPage, worker, prepares, rust, taken>>

\* HLS_PREPARE_TIMEOUT
PrepareTimeout(t) ==
    /\ page[t].here /\ Act
    /\ \E a \in page[t].awaiting :
          /\ LET released == release_hls_matching(page[t], a.view)
             IN  page' = [page EXCEPT ![t] = [released EXCEPT !.awaiting = @ \ {a}]]
          /\ Post(t, Released(page[t], a.view))
    /\ UNCHANGED <<toPage, worker, prepares, rust, taken>>

-----------------------------------------------------------------------------
\* The window: answers and notices.

Started(t, m) ==
    page' = IF page[t].starting = None \/ page[t].starting.id # m.id THEN page
            ELSE [page EXCEPT ![t].starting = None,
                              ![t].network = IF m.ok THEN m.network ELSE @,
                              ![t].configured = @ \/ m.ok]
NetworkChanged_Ignored(t, m) == UNCHANGED page
NetworkChanged(t, m) ==
    page' = [page EXCEPT ![t].network = m.network, ![t].configured = TRUE]

Prepared(t, m) ==
    LET v == m.attempt
        attempt == Attempt(v, m.network)
        answered == [page[t] EXCEPT !.awaiting = @ \ {attempt}]
    IN  IF attempt \notin page[t].awaiting THEN UNCHANGED <<page, toWorker>>
        ELSE \/ /\ ~m.ok
                /\ page' = [page EXCEPT ![t] = release_hls_matching(answered, v)]
                /\ Post(t, Released(page[t], v))
             \/ \* the pending attempt is taken only if its view is current
                /\ m.ok /\ (page[t].view # v \/ page[t].pending # attempt)
                /\ page' = [page EXCEPT ![t] = answered]
                /\ Post(t, <<Abandon(attempt)>>)
             \/ /\ m.ok /\ page[t].view = v /\ page[t].pending = attempt
                /\ page' = [page EXCEPT ![t] = [answered EXCEPT !.pending = None,
                       !.active = [view |-> v, session |-> m.session, network |-> m.network]]]
                /\ UNCHANGED toWorker

Replaced(t, m) ==
    /\ LET released == release_hls_matching(page[t], m.attempt)
       IN  page' = [page EXCEPT ![t] = [released EXCEPT
              !.view = IF @ = m.attempt /\ Released(page[t], m.attempt) # <<>> THEN @ + 1 ELSE @]]
    /\ Post(t, Released(page[t], m.attempt))

Deliver(t) ==
    LET m == Head(toPage[t])
    IN  /\ toPage[t] # <<>>
        /\ toPage' = [toPage EXCEPT ![t] = Tail(@)]
        /\ IF ~page[t].here THEN UNCHANGED <<page, toWorker>>
           ELSE CASE m.type = "started" -> Started(t, m) /\ UNCHANGED toWorker
                  [] m.type = "changed" -> NetworkChanged(t, m) /\ UNCHANGED toWorker
                  [] m.type = "prepared" -> Prepared(t, m)
                  [] m.type = "replaced" -> Replaced(t, m)
        /\ UNCHANGED <<worker, prepares, rust, acts, taken>>

-----------------------------------------------------------------------------
\* The runtime, as worker.js calls it.

\* request_network
Accepts(n) == rust.network = n /\ ~rust.switching

\* release_remote_hls_runtime, of the session or of the preparation that is on.
Ended(r) == [r EXCEPT !.session = 0, !.key = None]
hls_control_release(n, session) == IF Accepts(n) /\ rust.view = session THEN Ended(rust) ELSE rust
cancel_hls_prepare(n, key) ==
    IF Accepts(n) /\ rust.key = key THEN [Ended(rust) EXCEPT !.view = @ + 1] ELSE rust

Key(lease) == <<lease.tab, lease.attempt>>
cancelHlsLease(lease) ==
    IF lease.session # 0 THEN hls_control_release(worker.network, lease.session)
    ELSE cancel_hls_prepare(worker.network, Key(lease))

-----------------------------------------------------------------------------
\* worker.js: the network.

Send(t, m) == IF t \in worker.clients THEN [toPage EXCEPT ![t] = Append(@, m)] ELSE toPage
StartAnswer(m, ok) == [type |-> "started", id |-> m.id, ok |-> ok, network |-> m.network]

\* performStart until it calls the runtime: a switch is refused while transfers
\* run or another window plays, and ends the stream of its own window.
Switches(n) == worker.network # None /\ worker.network # n
Refuses_IgnoresTransfers(t) == worker.lease # None /\ worker.lease.tab # t
Refuses(t) == worker.transfers # {} \/ (worker.lease # None /\ worker.lease.tab # t)
performStart(t, m) ==
    IF Switches(m.network) /\ Refuses(t)
    THEN toPage' = Send(t, StartAnswer(m, FALSE)) /\ UNCHANGED <<worker, rust>>
    ELSE LET stale == IF Switches(m.network) THEN worker.lease ELSE None
         IN  /\ worker' = [worker EXCEPT !.lease = IF Switches(m.network) THEN None ELSE @,
                                         !.network = m.network,
                                         !.start = [tab |-> t, message |-> m, previous |-> worker.network]]
             /\ rust' = IF stale = None THEN rust ELSE cancelHlsLease(stale)
             /\ UNCHANGED toPage

Performing == worker.start # None
Target == worker.start.message.network

\* Weeb3WorkerRuntime::start, into set_network_id.
RuntimeSwitches ==
    /\ Performing /\ ~rust.switching
    /\ rust.network # Target /\ (rust.network = None \/ ~rust.unsettled)
    /\ rust' = [rust EXCEPT !.view = @ + 1, !.session = 0, !.switching = TRUE]
    /\ UNCHANGED <<page, toWorker, toPage, worker, prepares, acts, taken>>

\* ... and out of it: whoever is connected hears of a change, then the window
\* that asked for it.
StartSucceeds ==
    /\ Performing /\ (rust.switching \/ rust.network = Target)
    /\ rust' = [rust EXCEPT !.network = Target, !.switching = FALSE]
    /\ worker' = [worker EXCEPT !.start = None]
    /\ LET t == worker.start.tab
           notice == IF worker.start.previous = Target THEN <<>>
                     ELSE <<[type |-> "changed", network |-> Target]>>
           answer == <<StartAnswer(worker.start.message, TRUE)>>
       IN  toPage' = [x \in Tab |-> toPage[x]
               \o (IF x \in worker.clients THEN notice ELSE <<>>) \o (IF x = t THEN answer ELSE <<>>)]
    /\ UNCHANGED <<page, toWorker, prepares, acts, taken>>

\* Refused while accounting is unsettled.
StartFails ==
    /\ Performing /\ ~rust.switching
    /\ rust.network \notin {None, Target} /\ rust.unsettled
    /\ worker' = [worker EXCEPT !.failed = TRUE]
    /\ UNCHANGED <<page, toWorker, toPage, prepares, rust, acts, taken>>

-----------------------------------------------------------------------------
\* worker.js: the other messages, which wait while a start is performed.

\* removeClient
Without(t) == [worker EXCEPT !.clients = @ \ {t}, !.lease = IF @ # None /\ @.tab = t THEN None ELSE @]
removeClient(t) ==
    /\ worker' = Without(t)
    /\ rust' = IF worker.lease # None /\ worker.lease.tab = t THEN cancelHlsLease(worker.lease) ELSE rust

\* dispatchRuntimeMessage of what carries accounting
StartTransfer(m) ==
    /\ worker' = IF Accepts(m.network)
                 THEN [worker EXCEPT !.transfers = @ \cup {[id |-> m.id, network |-> m.network]}]
                 ELSE worker
    /\ UNCHANGED rust
TransferEnds ==
    /\ \E x \in worker.transfers : worker' = [worker EXCEPT !.transfers = @ \ {x}]
    /\ \E unsettled \in BOOLEAN : rust' = [rust EXCEPT !.unsettled = @ \/ unsettled]
    /\ UNCHANGED <<page, toWorker, toPage, prepares, acts, taken>>
Settle ==
    /\ rust.unsettled
    /\ rust' = [rust EXCEPT !.unsettled = FALSE]
    /\ UNCHANGED <<page, toWorker, toPage, worker, prepares, acts, taken>>

PrepareAnswer(p, ok, session) ==
    [type |-> "prepared", attempt |-> p.lease.attempt, ok |-> ok, network |-> p.network,
     session |-> session]

\* WEEB3_HLS_PREPARE: the lease is this window's at once, the stale one cancelled.
Prepare(t, m) ==
    LET lease == Lease(t, m.attempt, 0)
        stale == worker.lease
        other == stale # None /\ stale.tab # t
    IN  /\ worker' = [worker EXCEPT !.lease = lease]
        /\ prepares' = prepares \cup {[lease |-> lease, network |-> m.network, view |-> 0]}
        /\ toPage' = IF other
                     THEN Send(stale.tab, [type |-> "replaced", attempt |-> stale.attempt]) ELSE toPage
        /\ taken' = IF other THEN taken \cup {Key(stale)} ELSE taken
        /\ rust' = IF stale = None THEN rust ELSE cancelHlsLease(stale)

Owns_ByWindow(lease) == worker.lease # None /\ worker.lease.tab = lease.tab
Owns(lease) == worker.lease # None /\ Key(worker.lease) = Key(lease)
\* WEEB3_HLS_ABANDON, of the attempt that has the lease
AbandonLease(t, m) ==
    IF Owns(Lease(t, m.attempt, 0))
    THEN worker' = [worker EXCEPT !.lease = None] /\ rust' = cancelHlsLease(worker.lease)
    ELSE UNCHANGED <<worker, rust>>
\* WEEB3_HLS_RELEASE, of the session the lease has
Release(t, m) ==
    IF worker.lease # None /\ worker.lease.tab = t /\ worker.lease.session = m.session
    THEN worker' = [worker EXCEPT !.lease = None] /\ rust' = hls_control_release(m.network, m.session)
    ELSE UNCHANGED <<worker, rust>>

\* What fails: of that a window heeds the answer to a preparation.
Targets(m) == worker.network # None /\ m.network = worker.network
Refused(t, m) ==
    /\ toPage' = IF m.type = "prepare"
                 THEN Send(t, [type |-> "prepared", attempt |-> m.attempt, ok |-> FALSE,
                               network |-> m.network, session |-> 0])
                 ELSE toPage
    /\ UNCHANGED <<worker, rust>>

\* Behind any start, a message of another network is refused (409), and
\* everything but a start before there is one (503).
dispatch(t) ==
    LET m == Head(toWorker[t])
    IN  /\ toWorker[t] # <<>> /\ ~Performing
        /\ toWorker' = [toWorker EXCEPT ![t] = Tail(@)]
        /\ \/ m.type = "start" /\ performStart(t, m) /\ UNCHANGED <<prepares, taken>>
           \/ m.type = "close" /\ removeClient(t) /\ UNCHANGED <<toPage, prepares, taken>>
           \/ /\ m.type \notin {"start", "close"} /\ ~Targets(m)
              /\ Refused(t, m) /\ UNCHANGED <<prepares, taken>>
           \/ /\ m.type \notin {"start", "close"} /\ Targets(m)
              /\ \/ m.type = "fetch" /\ StartTransfer(m) /\ UNCHANGED <<toPage, prepares, taken>>
                 \/ m.type = "prepare" /\ Prepare(t, m)
                 \/ m.type = "abandon" /\ AbandonLease(t, m) /\ UNCHANGED <<toPage, prepares, taken>>
                 \/ m.type = "release" /\ Release(t, m) /\ UNCHANGED <<toPage, prepares, taken>>
        /\ UNCHANGED <<page, acts>>

\* What waited for a start that fails is failed with it, be it a close, which
\* then removes nobody; what comes later is dispatched ...
WaiterFails(t) ==
    LET m == Head(toWorker[t])
    IN  /\ toWorker[t] # <<>> /\ worker.failed /\ m.type # "start"
        /\ toWorker' = [toWorker EXCEPT ![t] = Tail(@)]
        /\ Refused(t, m)
        /\ UNCHANGED <<page, prepares, acts, taken>>

\* ... and the network is what it was.
StartFailed ==
    /\ worker.failed
    /\ worker' = [worker EXCEPT !.start = None, !.failed = FALSE, !.network = worker.start.previous]
    /\ toPage' = Send(worker.start.tab, StartAnswer(worker.start.message, FALSE))
    /\ UNCHANGED <<page, toWorker, prepares, rust, acts, taken>>

-----------------------------------------------------------------------------
\* WEEB3_HLS_PREPARE behind its awaits.

\* prepare_hls_response takes the view and the session, unless the lease is gone.
PrepareBegins ==
    /\ \E p \in prepares :
          /\ p.view = 0
          /\ IF Owns(p.lease) /\ Accepts(p.network)
             THEN /\ rust' = [rust EXCEPT !.view = @ + 1, !.session = rust.view + 1, !.key = Key(p.lease)]
                  /\ prepares' = (prepares \ {p}) \cup {[p EXCEPT !.view = rust.view + 1]}
                  /\ UNCHANGED <<worker, toPage>>
             ELSE /\ prepares' = prepares \ {p}
                  /\ worker' = [worker EXCEPT !.lease = IF Owns(p.lease) THEN None ELSE @]
                  /\ toPage' = Send(p.lease.tab, PrepareAnswer(p, FALSE, 0))
                  /\ UNCHANGED rust
    /\ UNCHANGED <<page, toWorker, acts, taken>>

\* prepare_hls_feed returns: prepared only while the session is its own.
PrepareReturns ==
    /\ \E p \in prepares, ok \in BOOLEAN :
          /\ p.view # 0 /\ (ok => rust.view = p.view /\ rust.session = p.view)
          /\ prepares' = prepares \ {p}
          /\ LET failed == [rust EXCEPT !.session = IF rust.view = p.view THEN 0 ELSE @,
                                        !.key = IF @ = Key(p.lease) THEN None ELSE @]
             IN  rust' = IF ~ok THEN failed
                         ELSE IF Owns(p.lease) THEN rust
                         ELSE hls_control_release(p.network, p.view)
          /\ worker' = [worker EXCEPT !.lease =
                           IF ~Owns(p.lease) THEN @ ELSE IF ok THEN [@ EXCEPT !.session = p.view] ELSE None]
          /\ toPage' = Send(p.lease.tab, IF ok /\ Owns(p.lease) THEN PrepareAnswer(p, TRUE, p.view)
                                         ELSE PrepareAnswer(p, FALSE, 0))
    /\ UNCHANGED <<page, toWorker, acts, taken>>

-----------------------------------------------------------------------------
Window(t) ==
    \/ \E n \in Network : Start(t, n)
    \/ StartTimeout(t) \/ Fetch(t) \/ Hide(t)
    \/ OpenHls(t) \/ Supersede(t) \/ ReleaseView(t) \/ PrepareTimeout(t)

Run == RuntimeSwitches \/ StartSucceeds \/ StartFails \/ PrepareBegins \/ PrepareReturns

\* All that a failed start fails is failed in one go.
Fails == StartFailed \/ \E t \in Tab : WaiterFails(t)

Next ==
    \/ Fails
    \/ /\ ~worker.failed
       /\ \/ \E t \in Tab : Window(t) \/ Deliver(t) \/ dispatch(t)
          \/ Run \/ TransferEnds \/ Settle

Spec == Init /\ [][Next]_vars

-----------------------------------------------------------------------------
(* Properties. *)

\* A transfer runs to its end on the network it was asked for: whatever
\* waited for another start, was on its way or is being settled, the runtime
\* does not switch under it.
TransfersKeepTheirNetwork ==
    \A x \in worker.transfers : rust.network = x.network /\ ~rust.switching

\* Nothing is left to be handled or delivered.
Quiet ==
    /\ ~Performing /\ prepares = {}
    /\ \A t \in Tab : toWorker[t] = <<>> /\ toPage[t] = <<>>

\* When all is said, worker.js, the runtime and every window are on one
\* network, after starts that crossed, were refused, failed or given up.
OneNetwork ==
    Quiet =>
        /\ worker.network = rust.network
        /\ \A t \in worker.clients : page[t].configured => page[t].network = worker.network

\* The stream of the lease is the one the runtime plays.  When all is said, no
\* stream plays that no window shows, none is held for a window that left it,
\* and no window shows one that another took over: after preparations that were
\* replaced, abandoned, late or lost with their window.
Shows(t, v) == page[t].active # None /\ page[t].active.view = v
OneStream ==
    /\ worker.lease # None /\ worker.lease.session # 0 => rust.session = worker.lease.session
    /\ Quiet =>
        /\ rust.session # 0 => worker.lease # None /\ worker.lease.session = rust.session
        /\ worker.lease # None => Shows(worker.lease.tab, worker.lease.attempt)
        /\ \A lease \in taken : ~Shows(lease[1], lease[2])
=============================================================================
