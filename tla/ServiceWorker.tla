--------------------------- MODULE ServiceWorker ---------------------------
(***************************************************************************)
(* The service worker's way to the runtime (static/service.js): a request  *)
(* of a page is answered by the SharedWorker, over a port of its own       *)
(* (runtimePort) or relayed by a window that is on the right network.      *)
(* Which network a window is on is cached, found out by a ping and found   *)
(* out again when the cache disagrees; one port is bound at a time.        *)
(*                                                                         *)
(* Of the SharedWorker there is its network, the port it has bound and the *)
(* requests that reached it (static/worker.js).  A message to a closed     *)
(* port or window is lost without a sign, and its sender times out.        *)
(***************************************************************************)
EXTENDS RelayedRequest

CONSTANTS
    Tab, Network, None,
    MaxActs   \* bound on switches, failures and timeouts

VARIABLES
    network,    \* configuredNetworkId
    previous,   \* the network a start under way would go back to, else "none"
    bound,      \* serviceWorkerPorts: the port bound, 0 if none
    jobs,       \* requests that reached worker.js: posted, then served
    windows,    \* the windows that are open
    cached,     \* cachedWindowNetworks
    probes,     \* windowNetworkDiscoveries: "none", "asked" or the answer on its way
    port,       \* runtimePort
    binding,    \* runtimePortBinding, and which request awaits it
    opened,     \* nextRuntimePortId
    binds,      \* WEEB3_RUNTIME_PORT_BIND on their way
    notes,      \* what worker.js sent to ports: READY, a refusal, INVALID
    acts

runtime == <<network, previous, bound, jobs, windows>>
ways == <<cached, probes, port, binding, opened, binds, notes>>
vars == <<runtime, ways, request, acts, served, disturbed>>

\* `via` is the port it is sent over, 0 for its window; `spent` that a port failed it.
NoRequest == [at |-> "idle", upload |-> FALSE, network |-> None, origin |-> None, asks |-> {},
              found |-> {}, client |-> None, via |-> 0, spent |-> FALSE, status |-> 0]
Done(status) == [NoRequest EXCEPT !.at = "done", !.status = status]
At(r) == request[r].at
Under == {r \in Request : At(r) \notin {"idle", "done"}}

Init ==
    /\ network \in Network \cup {None} /\ previous = "none" /\ bound = 0 /\ jobs = {}
    /\ windows = Tab
    /\ cached = [w \in Tab |-> None] /\ probes = [w \in Tab |-> "none"]
    /\ port = None /\ binding = None /\ opened = 0 /\ binds = {} /\ notes = {}
    /\ request = [r \in Request |-> NoRequest]
    /\ acts = 0 /\ served = [r \in Request |-> 0] /\ disturbed = {}

Act == acts < MaxActs /\ acts' = acts + 1
Set(r, q) == request' = [request EXCEPT ![r] = q]

-----------------------------------------------------------------------------
\* A request looks for a window (requestClient).

\* It is undisturbed if all it needs is there and no ping is under way.
Arrive(r, n, w, upload) ==
    /\ At(r) = "idle"
    /\ Set(r, [NoRequest EXCEPT !.at = "route", !.upload = upload, !.network = n, !.origin = w])
    /\ disturbed' = IF /\ network = n /\ previous = "none" /\ w \in windows
                       /\ \A x \in Tab : probes[x] = "none"
                    THEN disturbed ELSE disturbed \cup {r}
    /\ UNCHANGED <<runtime, ways, acts, served>>

Port(n) == port # None /\ port.network = n

\* windowMatchesNetwork of every window of `ws`, up to its ping: what is cached
\* is believed if it is what is required, else it is forgotten.
Ask(r, ws, step) ==
    LET q == request[r]
        unsure == {w \in ws : cached[w] # q.network}
    IN  /\ cached' = [w \in Tab |-> IF w \in unsure THEN None ELSE cached[w]]
        /\ probes' = [w \in Tab |-> IF w \in unsure /\ probes[w] = "none" THEN "asked"
                                       ELSE probes[w]]
        /\ Set(r, [q EXCEPT !.at = step, !.asks = unsure, !.found = ws \ unsure])

Unmoved == UNCHANGED <<cached, probes>>

\* Uploads go through the window they come from, and no other.
Route(r) ==
    LET q == request[r]
    IN  /\ q.at = "route"
        /\ IF ~q.upload /\ Port(q.network)
           THEN Set(r, [q EXCEPT !.at = "send", !.via = port.id, !.client = port.fallback]) /\ Unmoved
           ELSE IF q.origin \in windows THEN Ask(r, {q.origin}, "origin")
           ELSE IF q.upload THEN Set(r, Done(503)) /\ Unmoved
           ELSE Set(r, [q EXCEPT !.at = "others"]) /\ Unmoved
        /\ UNCHANGED <<runtime, port, binding, opened, binds, notes, acts, served, disturbed>>

Found(r, w) == [request[r] EXCEPT !.at = IF request[r].upload THEN "send" ELSE "bind", !.client = w]

OriginAnswered(r) ==
    LET q == request[r]
    IN  /\ q.at = "origin" /\ q.asks = {}
        /\ Set(r, IF q.found # {} THEN Found(r, q.origin)
                  ELSE IF q.upload THEN Done(503)
                  ELSE [q EXCEPT !.at = "others"])
        /\ UNCHANGED <<runtime, ways, acts, served, disturbed>>

\* Another window: one known to be on the network, else all are asked.
Others(r) ==
    LET q == request[r]
        candidates == windows \ {q.origin}
        known == {w \in candidates : cached[w] = q.network}
    IN  /\ q.at = "others"
        /\ IF known # {} THEN (\E w \in known : Set(r, Found(r, w))) /\ Unmoved
           ELSE Ask(r, candidates, "all")
        /\ UNCHANGED <<runtime, port, binding, opened, binds, notes, acts, served, disturbed>>

AllAnswered(r) ==
    LET q == request[r]
    IN  /\ q.at = "all" /\ q.asks = {}
        /\ IF q.found = {} THEN Set(r, Done(503)) ELSE \E w \in q.found : Set(r, Found(r, w))
        /\ UNCHANGED <<runtime, ways, acts, served, disturbed>>

\* WEEB3_CLIENT_PING is answered behind any start; None is no PONG.
Ping(w) ==
    /\ probes[w] = "asked" /\ w \in windows /\ previous = "none"
    /\ probes' = [probes EXCEPT ![w] = network]
    /\ UNCHANGED <<runtime, cached, port, binding, opened, binds, notes, request, acts, served, disturbed>>

\* Everyone who awaits the ping learns its answer.
Learn(w, n) ==
    /\ probes' = [probes EXCEPT ![w] = "none"]
    /\ cached' = [cached EXCEPT ![w] = n]
    /\ request' = [r \in Request |-> LET q == request[r] IN
          IF w \notin q.asks THEN q
          ELSE [q EXCEPT !.asks = @ \ {w}, !.found = IF q.network = n THEN @ \cup {w} ELSE @]]

Pong(w) ==
    /\ probes[w] \notin {"none", "asked"} /\ Learn(w, probes[w])
    /\ UNCHANGED <<runtime, port, binding, opened, binds, notes, acts, served, disturbed>>

\* WINDOW_RELAY_TIMEOUT_MS
PingTimeout(w) ==
    /\ probes[w] # "none" /\ Act
    /\ Learn(w, None)
    /\ disturbed' = disturbed \cup {r \in Request : w \in request[r].asks}
    /\ UNCHANGED <<runtime, port, binding, opened, binds, notes, served>>

-----------------------------------------------------------------------------
\* A port of its own (bindRuntimePort).

\* invalidateRuntimePort, of this port only.
Closed(id) == IF port # None /\ port.id = id THEN None ELSE port

\* A port of another network is closed whoever still uses it; then the request
\* waits for a binding under way, or begins one through its window.
Bind(r) ==
    LET q == request[r]
        id == opened + 1
    IN  /\ q.at = "bind"
        /\ IF Port(q.network)
           THEN /\ Set(r, [q EXCEPT !.at = "send", !.via = port.id, !.client = port.fallback])
                /\ UNCHANGED <<port, binding, opened, binds>>
           ELSE /\ port' = None
                /\ IF binding # None
                   THEN Set(r, [q EXCEPT !.at = "queue"]) /\ UNCHANGED <<binding, opened, binds>>
                   ELSE /\ Set(r, [q EXCEPT !.at = "binding"])
                        /\ opened' = id
                        /\ binding' = [id |-> id, network |-> q.network, fallback |-> q.client]
                        /\ binds' = binds \cup {binding'}
        /\ UNCHANGED <<runtime, cached, probes, notes, acts, served, disturbed>>

\* Who began it goes on with the port or else with its window, the others try again.
Bound(id) ==
    /\ binding' = None
    /\ request' = [r \in Request |->
          IF At(r) = "binding" THEN [request[r] EXCEPT !.at = "send", !.via = id]
          ELSE IF At(r) = "queue" THEN [request[r] EXCEPT !.at = "bind"]
          ELSE request[r]]

\* The page passes it on and worker.js binds it, in place of the one before,
\* whether or not the service worker still waits for it.
bindServiceWorkerPort ==
    \E b \in binds :
        /\ binds' = binds \ {b}
        /\ IF b.fallback \notin windows THEN UNCHANGED <<notes, bound>>
           ELSE IF b.network # network
           THEN notes' = notes \cup {[id |-> b.id, type |-> "refused"]} /\ UNCHANGED bound
           ELSE /\ notes' = notes \cup {[id |-> b.id, type |-> "ready"]}
                                  \cup {[id |-> bound, type |-> "invalid"] : x \in {bound} \ {0}}
                /\ bound' = b.id
        /\ UNCHANGED <<network, previous, jobs, windows, cached, probes, port, binding, opened,
                       request, acts, served, disturbed>>

Awaited(id) == binding # None /\ binding.id = id

\* What comes over a port: anything but READY ends its binding, INVALID its use.
Note ==
    \E note \in notes :
        /\ note.type = "invalid" => [note EXCEPT !.type = "ready"] \notin notes
        /\ notes' = notes \ {note}
        /\ IF Awaited(note.id)
           THEN IF note.type = "ready" THEN port' = binding /\ Bound(note.id)
                                       ELSE UNCHANGED port /\ Bound(0)
           ELSE /\ port' = IF note.type = "invalid" THEN Closed(note.id) ELSE port
                /\ UNCHANGED <<binding, request>>
        /\ UNCHANGED <<runtime, cached, probes, opened, binds, acts, served, disturbed>>

\* RUNTIME_PORT_BIND_TIMEOUT_MS
BindTimeout ==
    /\ binding # None /\ Act
    /\ Bound(0)
    /\ UNCHANGED <<runtime, cached, probes, port, opened, binds, notes, served, disturbed>>

-----------------------------------------------------------------------------
\* The request itself (messageRuntime).

Job(r) == [request |-> r, network |-> request[r].network, stage |-> "posted"]
Reaches(q) == IF q.via # 0 THEN Closed(q.via) # port /\ bound = q.via ELSE q.client \in windows

Send(r) ==
    /\ At(r) = "send"
    /\ jobs' = IF Reaches(request[r]) THEN jobs \cup {Job(r)} ELSE jobs
    /\ Set(r, [request[r] EXCEPT !.at = "sent"])
    /\ UNCHANGED <<network, previous, bound, windows, ways, acts, served, disturbed>>

\* What the request went through is not used again.
Invalidate(q) ==
    IF q.via # 0 THEN port' = Closed(q.via) /\ UNCHANGED cached
    ELSE cached' = [cached EXCEPT ![q.client] = None] /\ UNCHANGED port

\* postMessage throws: nothing was sent, the window that bound the port may do.
SendFails(r) ==
    LET q == request[r]
    IN  /\ q.at = "send" /\ Act
        /\ Invalidate(q)
        /\ Set(r, IF q.via # 0 THEN [q EXCEPT !.via = 0, !.spent = TRUE] ELSE Done(502))
        /\ UNCHANGED <<runtime, probes, binding, opened, binds, notes, served, disturbed>>

\* After a port that failed it is that port which a refusal forgets, again: the
\* window that took its place stays trusted.
Answer(r, status) ==
    IF At(r) # "sent" THEN UNCHANGED <<request, port, cached>>
    ELSE /\ Set(r, Done(status))
         /\ IF status = 409 /\ ~request[r].spent
            THEN Invalidate(request[r]) ELSE UNCHANGED <<port, cached>>

\* dispatch: behind any start, a request of another network is refused (409),
\* and any before the first start (503).
Handle(job) ==
    /\ job.stage = "posted" /\ previous = "none"
    /\ IF job.network # network
       THEN /\ jobs' = jobs \ {job} /\ UNCHANGED served
            /\ Answer(job.request, IF network = None THEN 503 ELSE 409)
       ELSE /\ jobs' = (jobs \ {job}) \cup {[job EXCEPT !.stage = "served"]}
            /\ served' = [served EXCEPT ![job.request] = @ + 1]
            /\ UNCHANGED <<request, port, cached>>
    /\ UNCHANGED <<network, previous, bound, windows, probes, binding, opened, binds, notes,
                   acts, disturbed>>

Served(job) ==
    /\ job.stage = "served"
    /\ jobs' = jobs \ {job}
    /\ Answer(job.request, 200)
    /\ UNCHANGED <<network, previous, bound, windows, probes, binding, opened, binds, notes,
                   acts, served, disturbed>>

Timeout_Replays(r) ==  \* mutant: what timed out on the port is sent by the window
    LET q == request[r]
    IN  /\ q.at = "sent" /\ Act
        /\ Invalidate(q)
        /\ Set(r, IF q.via # 0 THEN [q EXCEPT !.via = 0, !.at = "send"] ELSE Done(504))
        /\ UNCHANGED <<runtime, probes, binding, opened, binds, notes, served, disturbed>>

\* FETCH_TIMEOUT_MS: the runtime goes on with it, the page hears of a failure.
Timeout(r) ==
    LET q == request[r]
    IN  /\ q.at = "sent" /\ Act
        /\ Invalidate(q)
        /\ Set(r, Done(504))
        /\ UNCHANGED <<runtime, probes, binding, opened, binds, notes, served, disturbed>>

-----------------------------------------------------------------------------
\* What goes on around it.

\* performStart, for another network with no transfer under way.
Switch(n) ==
    /\ n # network /\ previous = "none" /\ \A job \in jobs : job.stage # "served"
    /\ Act
    /\ network' = n /\ previous' = network /\ bound' = 0
    /\ notes' = notes \cup {[id |-> bound, type |-> "invalid"] : x \in {bound} \ {0}}
    /\ disturbed' = disturbed \cup Under
    /\ UNCHANGED <<jobs, windows, cached, probes, port, binding, opened, binds, request, served>>

\* It ends, on the network it was for ...
Switched ==
    /\ previous # "none" /\ previous' = "none"
    /\ UNCHANGED <<network, bound, jobs, windows, ways, request, acts, served, disturbed>>

\* ... or back on the one before: the requests and pings that waited for it are
\* failed with it, what comes later is handled.
SwitchFails ==
    /\ previous # "none" /\ network' = previous /\ previous' = "none"
    /\ \E lost \in SUBSET {job \in jobs : job.stage = "posted"} :
          /\ jobs' = jobs \ lost
          /\ request' = [r \in Request |->
                IF At(r) = "sent" /\ \E job \in lost : job.request = r THEN Done(500)
                ELSE request[r]]
    /\ \E silent \in SUBSET {w \in windows : probes[w] = "asked"} :
          probes' = [w \in Tab |-> IF w \in silent THEN None ELSE probes[w]]
    /\ UNCHANGED <<bound, windows, cached, port, binding, opened, binds, notes, acts, served, disturbed>>

CloseWindow(w) ==
    /\ w \in windows /\ windows # {w} /\ Act
    /\ windows' = windows \ {w}
    /\ disturbed' = disturbed \cup Under
    /\ UNCHANGED <<network, previous, bound, jobs, ways, request, served>>

ServiceWorker ==
    \/ \E r \in Request :
        \/ Route(r) \/ OriginAnswered(r) \/ Others(r) \/ AllAnswered(r)
        \/ Bind(r) \/ Send(r) \/ SendFails(r) \/ Timeout(r)
    \/ \E w \in Tab : Pong(w) \/ PingTimeout(w)
    \/ Note \/ BindTimeout

Runtime ==
    \/ \E w \in Tab : Ping(w) \/ CloseWindow(w)
    \/ bindServiceWorkerPort \/ Switched \/ SwitchFails
    \/ \E job \in jobs : Handle(job) \/ Served(job)
    \/ \E n \in Network : Switch(n)

Page == \E r \in Request, n \in Network, w \in Tab, upload \in BOOLEAN : Arrive(r, n, w, upload)

Next == ServiceWorker \/ Runtime \/ Page

Spec == Init /\ [][Next]_vars
=============================================================================
