# A TLA+ model of weeb-3

weeb-3 is a Swarm client that runs in a browser: one SharedWorker holds a
libp2p node compiled to WebAssembly, and the tabs, the service worker and the
npm facade send it work. This directory models the parts of it where steps of
different tasks meet (peers, credit, requests, shared downloads, files read and
written, feeds, media playback, windows that share one worker), checks the models
with TLC and proves some of what they show with TLAPS.

Paths below are relative to the repository's `src/src/` unless they say otherwise.
The lines behind every definition are in `PROJECT.json` under `map`.

## 1. The system

### Concurrency

The node is single-threaded: `spawn_local` tasks, libp2p callbacks and timers
interleave only where a task waits. A step of these models is therefore the code
between two waits. Most locks (`async_std::sync::Mutex`) are never held across a
wait for anything but another lock, and then a handler is one step up to its next
wait for a channel, an event, a stream or a timer. Where a lock is held across
such a wait (the close handler of a connection does), a variable says so.
Channels between the tasks are unbounded unless the text below says otherwise.

### Components

| Component | State | Operations | Interacts with | Hard because | Correct when |
|---|---|---|---|---|---|
| Peer accounting and settlement (`accounting.rs`, `lib.rs` refresh and cheque tasks, `network_conventions.rs` drain, `handlers.rs` exchanges) | per peer: balance, surplus, threshold, reserve, `refresh_scheduled`, connection; `ongoing_cheques` | reserve, credit, cancel, refresh, cheque, retire, drain | chunk requests, pushes, connection close, CREDIT_AVAILABLE | a debt is read, sent and applied in three steps while requests, thresholds and sessions change; two ways to settle; a drain that must end | reserves are exact, debt stays bounded, due debts have an owner, cheques clear the account they were drawn on, drains end |
| Connection lifecycle (`lib.rs` event handlers, `network_conventions.rs`) | dial queue, attempts, reservations, `connected_peers`, `overlay_peers`, bootnodes, cooldowns, retries, physical connections, generation | dial, handshake, publish, price, promote, reject duplicate, close, retry, cool down, switch network | libp2p swarm, gossip, timers, accounts | events of one connection are handled by different tasks in any order; late events of an earlier network | the slot counters are exact, only promoted peers are selectable, nothing stale survives, no peer is forgotten |
| Stream exchanges (`handlers.rs`, `*.proto`) | none | handshake, pricing, hive, pseudosettle, SWAP, retrieval, pushsync | sessions | deadlines: retrieval and refreshment have one, pushsync and cheques have none | bound to the session that opened them |
| Chunk retrieval (`retrieval.rs`) | per request: skip list, exchanges in flight, attempt counter, listener | select, reserve, exchange, hedge, wait, give up | accounts, admission, pause, hedge demand | an exchange outlives its request; a peer may reconnect meanwhile; five kinds of wait | no peer asked twice, every reservation settled, the request ends |
| Raw fetch singleflight and dispatcher (`retrieval.rs`, `retrieval_conventions.rs`, `lib.rs`) | flights by key, waiters, admissions, permits, decoded cache | join, lead, leave, dispatch, acquire, complete | requests, cancellation, pause | the last waiter may leave at any point of the flight's life | waiters are reachable, nothing is fetched for nobody, one flight per key |
| Sequence feeds (`feed.rs`, `retrieval.rs` probes) | the search interval of a call | wave of probes, final probe | chunk retrieval | the feed grows and probes fail while it is searched | the index returned is free and only failures hide updates |
| Cancellation generations (`retrieval_conventions.rs`) | latest generation by stream | register, is_current, cancelled | streams, requests | wrap-around order; late registrations | a stale generation never becomes current |
| Joins, root replicas, erasure groups (`retrieval.rs`) | shards received and dispatched, counters, timers | fetch root, fetch group, recover, range join | raw fetches, coding | shards in any order beside a hedge timer | every chunk once, no early failure |
| Erasure layout and coding (`erasure_coding.rs`) | matrix cache | schedules, encode, reconstruct | joins, upload | numeric edges | layouts agree between upload and download |
| Upload pipeline (`upload.rs`, `lib.rs`) | tree buffers, stamp window, slot and receipt windows, skip lists | stamp, push, check, retry, progress | accounts, vault | three bounded windows, retries of what may have been done | success only when every chunk is confirmed |
| Manifests (`manifest.rs`, `manifest_upload.rs`, `bzz_stream.rs`) | visit and target budgets | parse, resolve, build | joins, feeds | cycles through feeds and references | bounded resolution |
| Streaming (`stream.rs`, `stream_conventions.rs`) | response, range and metadata caches, range flights, media states | range reads, prefetch, seek, retry | raw fetches, service worker | flights joined or replaced by generation | a stale generation's bytes are never served as current |
| HLS (`stream_hls.rs`, `stream_hls/`) | feed sessions, body cache, view lease | prepare, extend, serve, release | feeds, streaming | live edge discovery beside playback | the edge only advances, one view per lease |
| Shared runtime (`shared_runtime.rs`, `worker_runtime.rs`, `worker_protocol.rs`, `static/worker.js`) | configured network, transition lock, clients, vault broker | start, switch network, request, relay | every tab | a request times out in a tab and is still done | one network at a time |
| Service worker (`static/service.js`) | relayed ports, pending requests | fetch, respond | shared runtime | ports come and go | every fetch answered |
| WebSocket transport (`websocket.rs`) | one socket's buffers, wakers, timer | connect, read, write, close | libp2p | browser callbacks | wakers never lost |
| Progress store (`events.rs`, `runtime_conventions.rs`) | rows, revision | start, update, finish, snapshot | interface | eviction | done rows stay done |
| Persistence (`persistence.rs`) | four IndexedDB fields | get, set | cheques | stored after sent | payouts never decrease |
| Secure vault client (`secure_vault.rs`) | client, wallet and network of the page | authorise, stamp, sign | upload, feeds | reconnects and retries | calls reach the vault of the active network |
| Wallet and contracts (`on_chain*.rs`, `signer.rs`, `wallet_workflows.rs`, `ens.rs`) | none | purchase, deploy, sign, resolve | external services | user workflows | - |
| Profiles, addresses, routes (`network_profile.rs`, `addresses.rs`, `nav.rs`) | active profile | parse, select | all | - | - |
| Protocol primitives (`conventions.rs`) | none | addresses, signatures | all | - | - |
| Interface and npm facade (`interface*.rs`, `library.rs`) | DOM | render, forward | shared runtime | - | - |
| Development server (`main.rs`, `build.rs`, `docs/`) | none | serve files | - | - | - |

What is hard to test in each is listed under `hazards` in `PROJECT.json`, at the
line where it bites, with the properties that cover it.

## 2. The modules

    Accounting ----+-- Settlement ---- SettlementProofs
                   +-- CreditWait ---- CreditWaitProofs
    PeerPopulation <= ConnectionLifecycle -- ConnectionLifecycleProofs
    ChunkRequest   <= RetrieveChunk ------ RetrieveProofs
    ChunkRequest   .. RawFetch                       (the request a flight runs)
    RawFlights ------ RawFetch ----------- RawFetchProofs
    PushResult ------ PushChunk ---------- PushProofs
    FeedEnd --------- FeedFrontier ------- RetrieveProofs
    RawFetch       .. ErasureGroup                   (a shard is a registration)
    GroupKept ------- ErasureGroup ------- RawFetchProofs
    GroupPromise   <= ErasureGroup
    GroupPromise   .. DataJoin                       (the groups of a walk)
    TreeLayout ----+-- DataJoin
                   +-- UploadData .. PushChunk       (the push of one chunk)
    UploadQueue ----- UploadData --------- PushProofs
    HlsFeed ------------------------------ HlsFeedProofs
    PlayerKept ------ HlsPlayer ---------- HlsFeedProofs
    MediaKept ------- MediaRanges -------- RetrieveProofs
    SharedWorker ------------------------- SharedWorkerProofs
    SharedWorker   .. ServiceWorker                  (requests over the worker's ports)
    RelayedRequest -- ServiceWorker ------ SharedWorkerProofs

`<=` is a refinement TLC checks and TLAPS proves, `..` an assumption taken from the
other module and named in a comment, `--` a module and one that extends or proves
about it. A name such as `complete_Forgets`, defined just before
`complete`, is a faulty variant of it; the mutation runs put it in its place and
expect the property to fail.

Small modules beside a component (`RawFlights`, `PushResult`, `FeedEnd`, `GroupKept`,
`MediaKept`, `UploadQueue`, `PlayerKept`, `RelayedRequest`) declare the variables its properties are
about and state them. The component extends its module; so does a module of runs or of
proofs that holds several components, which instantiates the component and shares
these variables with it: run and theorem then name one and the same property.

`MC*` modules give values to constants (`MCSettlement`, `MCConnectionLifecycle` and
`MCHlsFeed` do no more, `MCPopulation` adds the slot limit and the refinement). Several of them (`MCReads`, `MCWaiters`,
`MCUploadData`, `MCPage`) hold components that share no state in one run: a
variable `part` says which of them a behaviour is about, the others rest in a
first state. Nothing of one part is visible to another; a property that is named
in such a module is the one of its component (`PlayerGoesOn == part = "player" =>
Player!PlayerGoesOn`), and a liveness property says for each part how it ends.
Their fairness is stated once for the paired actions of the parts, of which at
most one can be enabled.

### Accounting and Settlement

`Accounting` holds the arithmetic of `accounting.rs` as operators on an account
record. `Settlement` follows one peer:
its connections, the session that owns it, the accounts it was given, the
requests that hold a reservation, the queued and running settlement tasks and
the cheque being cleared. Actions are the steps of `retrieve_attempt` and
`pushsync_attempt` (deliver, fail, time out), of the refresh task (`RefreshStep`,
`RefreshOutcome`), of the cheque worker (`TakeBatch`, `ChequeStart`, `ChequeResult`,
`ChequeApply`), of retirement (`RetireStep`) and of the handlers for established
and closed connections.

Accounts, sessions and claims are the peer's own. What peers share is the worker that
issues cheques (`lib.rs:1694-1794`): it takes all that is queued as one batch, may ask
the price oracle, and awaits the exchanges of the whole batch before it looks at its
queue again. The cheques of other peers are in the model as the time they take:
while a cheque is queued the worker may be held (`HoldWorker`) and need not be free
again (`FreeWorker` is not fair).

Abstractions: the time of the last refreshment is a Boolean (it is only compared
with "never" when a debt is judged); cheque amounts are debts, not cumulative
payouts; balances cannot saturate, which `CreditWithinThreshold` shows rather
than assumes; `RefreshCheck` merges reads between which nothing else can run; a
peer is not dialled while `disconnect_all_peers` runs, whose maps are emptied one
by one. `peak`, `claimant` and `shared` are history variables no action reads.

### ConnectionLifecycle and PeerPopulation

`ConnectionLifecycle` models dialling, handshake, publication, pricing,
promotion, rejection of duplicates, closing, retry, cooldown and the network
switch of a few peers. Its inputs are those the code has to expect: gossip whose
generation was read before a switch, requested bootnodes, a second connection
nobody asked for, a connection established after its attempt was abandoned,
retryable and final dial errors, late identify events, thresholds of zero.
Attempts and connections are used once each. Timers are implicit in the sets
they empty. Account identity is folded into the attempt.

`PeerPopulation` is what it implements: a peer is free, tried, connected or
resting, one at a time, and tried and connected peers fill at most `Limit`
slots. `MCPopulation` checks it with a slot for each of two peers and with one
slot for both.

### RetrieveChunk, ChunkRequest, CreditWait

`RetrieveChunk` is one call of `retrieve_chunk`: `Turn` is a turn of its loop up
to the next wait (take a result, start an attempt, give up, suspend or wait),
`WakeUp` the five ways out of the wait, `Settle` the separate task of each
exchange. The peer's sessions come and go, the transfer pause toggles, the
admission closes, the hedge demand of the flight is promoted. Credit is the set of
peers that could be charged; its arithmetic is in `CreditWait` and `Settlement`.
A turn has no wait between its two admission checks (`retrieval.rs:1390` and
`1429`), so the second finds what the first found and its branch is not modelled.
The cancel token and the admission are merged in `open`, since both only close.

`ChunkRequest` is what others rely on: claims only while open and within the
budget, everything claimed settles, "empty" only with nothing out, no claim after
the answer. `RetrieveChunk` implements it; `RawFetch` runs it inside a flight.

`CreditWait` models the accounts of several peers, the requests that found no
credit, and `CREDIT_AVAILABLE` with its batching timer (`PENDING`, 160 ms), at
each place that calls `notify_credit_available` and each that does not.

### RawFetch

Callers of a chunk register with `queue_drained_raw_chunk`: the first leads and
queues the request, later ones join its flight, all leave by closing their queue
or by losing their cancel token. The dispatcher takes requests in order, waits
for the pause to end and for a permit, and starts the producer; the producer runs
the request of `ChunkRequest` and completes the flight, unless another took its
key. A waiter is one registration. Callers of a flight whose admission was already
closed (`late`) share its outcome, as `tests/retrieval.rs:1635` expects. Cache
eviction is a nondeterministic step. What has to hold (`FlightsServeTheirWaiters`)
stands in `RawFlights`.

### TreeLayout, ErasureGroup, GroupPromise, DataJoin

`TreeLayout` is how a node of a given span divides it among its children and how
many chunks a file has (`erasure_coding.rs`), as operators both directions use:
`DataJoin` descends with them, `UploadData` compares what it built with them.

`ErasureGroup` is `fetch_data_group_indices_streaming`: cached children first, then
the shards that are asked for at once, the hedge timer, top-ups when shards fail
or are late, recovery once as many shards arrived as there are data shards, and
the emission of the children asked for. A shard's answer is sound, wrong or
missing; decoding and the matrix are its outcome. `GroupPromise` is what a join
may rely on: children asked for, each at most once, all of them if the group ends
well. `ErasureGroup` implements it (`ImplementsGroup` in `GroupKept`, beside
`GivesUpOnlyWhenLost`).

`DataJoin` is a byte range from its root chunk (or its replicas, in growing
batches) through the walk of the tree (a few nodes at a time, each a group at its
promise) to the copies of leaves. Spans that chunks claim may be wrong; the model
keeps the checks of the code (`Fits`, the depth limit) apart from what a sound
file has.

### FeedFrontier

`seek_sequence_feed_frontier`: waves of probes at doubling distances, ended by
the first gap above the highest hit, then the final probe that decides. A probe
answers with the state of the feed at some moment between its dispatch and its
answer, or fails at any time. The owner publishes consecutively and may do so
during the search. What the index returned has to do with the feed (`FrontierIsFound`)
stands in `FeedEnd`. Addresses that cannot be formed (owner or topic of the wrong
length) are left out.

### UploadData and PushChunk

`UploadData` is one file on its way to the network: the producer that stamps
leaves a window at a time, queues them in order, grows the tree with parity chunks
and replicas of the root, behind the windows of slots and receipts; and the
dispatcher of `lib.rs` with its permits, which pushes each chunk, checks it by
retrieval and queues it again when the check fails. A check may find nobody to ask
(`Starve`: everybody is short of credit or was asked) and waits for credit until there is
somebody, or for ever. `UploadQueue` has the chunks in the
dispatcher's hands and what the upload promises of them. `PushChunk` is what a push
does: the closest peers that can be charged are asked one after another, until
enough gave a receipt or too many failed, with peers that come, go, run short of
credit, are gone when asked or answer late; its variables and what its result says
(`PushIsSound`) are in `PushResult`. Both run in `MCUploadData`.

### MediaRanges

The byte ranges of one media file (`stream.rs`): requests that follow or leave the
position, windows that are loaded once for everyone, replaced or rejected by the
generation of the asker, prefetching in batches ahead of the position, and the
registry by which a newer generation cancels the retrieval of an older one
(`retrieval_conventions.rs`). Generations are the numbers of a counter that wraps past
zero, compared as the code compares them; the width of the counter is a constant
(`Generations`, 2^64 in the code). What readers are owed stands in `MediaKept`. Limits on
waiters and loads, metadata and headers are left out.

### HlsFeed

Following one stream of a Swarm feed (`stream_hls/runtime.rs`): a publisher writes
updates that may be lost or carry an end tag; the opener and the follower search for
the frontier beside one another and write to one session, history is read backwards
and joined by its overlap, and an end is confirmed by guards. Two tasks may install
what they found in either order. Segments are numbers; dated windows, masters, bodies,
runway and renditions that are not playing are left out.

### HlsPlayer

One hls.js player of the page (`stream_hls/player.rs`): bootstrap of the codec, seeks
before a playlist's history, choices of rendition that wait for an answer, recovery of
fatal errors and hard restarts with a new instance. Event handlers are one step; the
tasks that wait for the worker answer in any order; hls.js is external (loadSource
forgets levels, a fatal error stops loading, startLoad needs a parsed manifest). The
player's state and its properties are in `PlayerKept`.

### SharedWorker and ServiceWorker

`SharedWorker` is the protocol of the windows (`shared_runtime.rs`,
`stream_hls/page_bridge.rs`), `static/worker.js` and the runtime behind it
(`worker_runtime.rs`, `stream_hls/worker_bridge.rs`): starts and network switches that
cross, are refused, time out or fail and roll back, transfers that pin the network, the
one HLS stream with its lease, and windows that go away. Messages other than starts wait
while a start is performed; if it fails, those that waited are failed with it
(`WaiterFails`; a farewell among them removes nobody) and the network is what it was
(`StartFailed`). A window receives answers and notices in the order they were sent.

`ServiceWorker` is how a request of a page finds its way to that runtime
(`static/service.js`): windows whose network is cached, probed and learned again, the
one port that is bound, refused, invalidated or lost, timeouts and the refusal of a
request for another network (which forgets the way it came by, but not the window that
took the place of a port that failed). A switch that fails takes any of the requests and
pings that waited for it along (`SwitchFails`). What it owes a request is in `RelayedRequest`.

## 3. What the runs show

| Run | Bounds | Shows |
|---|---|---|
| `Settlement_one` | 1 session, 2 requests (one push), 2 prices, thresholds 0, 2, 3, 2 tasks, 1 cheque | the reserve is what requests in flight hold (`ReserveMatchesRequests`); debt and reserve stay within the highest announced threshold (`CreditWithinThreshold`); at most one task owns a settlement and a due debt has an owner (`DebtHasOneOwner`); a retirement ends, unless a push of its account, its cheque, or whatever else the cheque worker is busy with holds it up for ever (`RetirementFinishes`) |
| `Settlement_sessions` | 2 connections, 2 accounts, 1 request, 1 cheque | a cheque clears the account it was drawn on and a session is closed by settlement only when drained (`SessionsStayApart`) |
| `Lifecycle_sessions` | 1 peer, 2 connections, 2 attempts, 1 switch, 1 slot | counters exact (`PopulationExact`); nothing stale, one connection in use, one phase (`OnlyCurrentWork`); the peer is never forgotten (`NotForgotten`) |
| `Lifecycle_duplicates` | 2 peers of one overlay, 1 slot and 2 slots | overlay map and sessions agree (`SelectableIsPromoted`); every step is one of `PeerPopulation` or none (`ImplementsPopulation`) |
| `Lifecycle_live` | 1 peer, 2 connections, 2 attempts | every attempt gives its slot back or becomes a connected peer (`AttemptSettles`) |
| `Lifecycle_network` (violated) | 1 peer, 1 switch | see findings |
| `RetrieveChunk` | 2 peers, 3 sessions together, 2 attempts, budget 2 | nobody asked twice across reconnections, reservations held only by exchanges that are out, managed demand stays serial (`ExchangesAreSound`); "missing" is unanimous (`MissingIsUnanimous`); implements `ChunkRequest` (`KeepsPromise`); ends unless paused or starved, and always once closed (`RequestEnds`) |
| `Waiters` | 2 accounts, 2 requests of prices 1 and 2, thresholds 0, 2, 3; 3 callers of 1 key by two references, 1 permit, 1 claim | no request sleeps beside credit (`NoLostCredit`); waiters reachable, nothing fetched for nobody, one busy flight per key, empty means exhausted (`FlightsServeTheirWaiters`); credit reaches those who wait, who stays is answered, abandoned flights free their key even while paused (`WaitsEnd`) |
| `Reads` | files of up to 4 leaves, spans that claim up to 5, root and replicas in up to 6 requests, 2 children whose spans are wrong, walks of 2 nodes at once; groups of up to 3 data and 2 parity shards; feeds of indices up to 12; a file of 3 windows, 2 requests that ask for its end or less, 2 prefetchers, 2 seeks, 2 faults | a range is whole or its failure has a cause (`RangeOrCause`); a group gives up only when too many shards are lost (`GivesUpOnlyWhenLost`), and keeps `GroupPromise` (`ImplementsGroup`); the feed's frontier is found unless a probe failed (`FrontierIsFound`); media readers of the current generation get their windows (`ReadersAreServed`), the high water is what was loaded (`HighWaterIsLoaded`), prefetching moves on (`PrefetchAdvances`); walks, groups and searches end (`ReadsEnd`) |
| `UploadData` | files of 0, 3, 9 and 13 units in leaves of 2, windows of 4, 2 and 3, 2 permits, 1 failure; a push among 4 peers (or 2), 2 receipts or 2 errors, 2 refusals, 2 changes of a peer | a reference is returned only for confirmed chunks, each counted once (`ReferenceIsConfirmed`); the tree is the one a reader descends, and all the chunks announced beforehand (`TreeIsReadable`); a push ends as its receipts or failures say (`PushIsSound`); uploads end, but for chunks whose check waits for peers for ever, and pushes end (`UploadsEnd`) |
| `HlsFeed` | 4 updates, windows of 2, one lost or one early end, 1 transient failure, 2 switches | the playlist has no hole (`NoHole`); finished only at the frontier (`FinalIsTheFrontier`); the viewer catches up (`CatchesUp`) |
| `Page` | 2 windows, 2 networks, 5 acts, 2 streams each; 2 requests, 3 disturbances; 2 renditions, 3 acts, the code's 2 restarts and 1 recovery | transfers keep their network (`TransfersKeepTheirNetwork`), all agree on one (`OneNetwork`), one stream is played by the window that shows it (`OneStream`); a request is served once at most and finds its way if there is one (`RequestsReachTheirRuntime`); the player goes on (`PlayerGoesOn`), plays what its control shows (`ShownIsPlayed`) and prepares history for the last seek (`HistoryFollowsSeeks`) |

### Why the bounds are enough

*Settlement.* A settlement meets at most one other of its kind (`refresh_scheduled`
and `ongoing_cheques` are single), so two tasks and one cheque give every overlap;
a second generation of the account needs the second connection, which has a run of
its own with one request. Prices below and at the threshold make a request
refused, admitted alone and admitted beside the other. *Lifecycle.* Every
handler touches one peer and the shared counters and maps: two peers meet in
the overlay map and in the slots, one peer meets itself in two attempts and two
connections; one switch separates two generations, and `NothingStale` compares
only "current" with "earlier". *RetrieveChunk.* Two peers give an exchange in
flight, one hedged and one skipped; a third session gives a reconnection; with two
attempts the limit (20 in the code) and the budget are met with an exchange still out.
*RawFetch.* Three registrations of a key give a leader, a follower and a successor
flight, which competes with what is left of the first for the permit. *FeedFrontier.*
Thirteen indices give several doublings and the bounded waves between; the code's own
look-ahead depth is larger but each wave only reads its highest hit and lowest gap.
*DataJoin, ErasureGroup.* Nodes of one and two children with and without parity give
every kind of group; two levels above the leaves give inner nodes of both kinds, a
claimed span of five is one more than a file of these levels can have, and six requests
are the root's own address and its replicas. Three data and two parity shards give
groups that recover with, without and despite a lost parity. *UploadData.* The files end
inside a leaf, at a full group, at a lone last child of a level and are empty; the
windows are smaller than the files, so each of them fills. *PushChunk.* With four peers,
two receipts and two failures a push can end both ways, run out of peers, and find the
overdraft list full. *MediaRanges.* Eight generations of which the seventh
is the first put the wrap between the first and the second seek; two prefetchers give one of an old generation beside the new one.
*HlsFeed.* With four updates of two segments a lost update leaves a gap that the next
bridges or does not, and an early end is continued. *HlsPlayer.* Three acts are a seek, a
choice and an error in every order, across both restarts. *SharedWorker, ServiceWorker.*
Two windows and two networks: one that switches and one that is told; five acts are a
start, a transfer or stream, a switch that crosses it, its refusal or failure, and a
window that leaves. A second request meets the port the first one bound or lost.

### Fairness

Only the node's own tasks and timers are fair; peers are not. Handlers of
queued events and spawned tasks run (the executor is fair to woken tasks). An
exchange ends because it has a deadline: retrieval 3 s (`retrieval.rs`
`retrieve_attempt`), refreshment 3 s (`handlers.rs:456`), a handshake by
`PRE_HANDSHAKE_CONNECTION_TIMEOUT_MS`, `HANDSHAKE_PROTOCOL_TIMEOUT_MS` and
`PRICING_CONNECT_TIMEOUT_MS`. Pushsync and cheque exchanges have none
(`handlers.rs:535`), nor has the question to the price oracle, so `RetirementFinishes`
names them as the exception (`HeldUp`): a push on the account, the peer's cheque, and,
while that cheque is in the queue, whatever holds the worker all peers share or the batch
it is at. `ChequeStart` is fair once the cheque is in a batch, because `join_all` polls
the whole batch. `TakeBatch` is strongly fair because instructions are a queue: each time
the worker is free it takes all that is in it, so a worker that is free again and again comes to this
cheque, however often the batches before it were for others.
`AcquirePermit` is strongly fair because the semaphore queues its waiters. Nothing
makes credit arrive, a pause end or an owner stop publishing: properties that need
it say so in their antecedent. In `RawFetch` the end of a request is fair as
far as `RequestEnds` of `RetrieveChunk` shows it, while neither paused nor
starved. In `Reads` all that goes on (`GoesOn`) is one weakly fair task, which is
less than each of its parts being fair. In `UploadData` producer, dispatcher and push
tasks are fair (`Working`), but not the return of a check that waits for peers
(`retrieval.rs:1543-1557`), which nobody owes it: `UploadsEnd` says that the upload ends
and every chunk is through, unless some check waits for ever, and that all chunks are then
through but those (`Settled`). That a push of a file ends at all is `PushEnds`, which holds while it
is not paused and has peers enough (`PushCanEnd`). In `HlsFeed` the publisher, the
searches, the follower and the player go on; `CatchesUp` excuses a stream that was
closed early and continued. `Page` states no fairness: a window, a service worker or a
player may stop at any time, and its properties are about what may not happen.
`CHECK_DEADLOCK FALSE` marks the instances whose bounded inputs run out or whose
request rests after its answer. Symmetry is used only in runs without liveness.

## 4. What is proved

TLAPS proves the following for every value of the constants: any number of
peers, connections, requests, windows and bounds. For each component below one
inductive invariant is stated; Init establishes it, each action keeps it, one lemma per
action, and the theorems are drawn from it.

**`SettlementProofs`**: `PriceInRange` (prices are positive and bounded, which is
what `Settlement` assumes of `Prices`), `TypeCorrect`, `ReserveExact`,
`CreditBounded`, `OverpaidOwesNothing`. Types are not inductive alone: a task
at work names an account and a connection, and requests hold one (`TypeInv`). The
reserve is compared with the number of units the requests of an account hold
(`Held`, one token per unit); a step of a request adds or removes its tokens and
changes the reserve alike. `CreditBounded` needs the exact reserve: a delivery
moves a reservation into the balance, and this keeps the bound only because the
reservation was there (`CreditInv`).

The same module proves `DebtIsLookedAfter` and `SessionsKeepApart`. That a due debt
has an owner is only inductive with what ties accounts to sessions
(`FollowInv`): an account is used once its peer file is published, tasks and
requests belong to such accounts, nobody can reserve on an account that is being
drained (`Shut`), and a claim lives no longer than its session. `SessionInv` adds
that a drain closes only what has no request left. Every action is shown to leave
each task what it was, to start one, or to release one (`Kept`, `Starts`), and the
invariant is carried through these.

**`CreditWaitProofs`**: `CreditTypes`, `CreditIsNotLost`. Each operation on an
account either admits no request it refused before (`AdmitsNoMore`: commitments
did not shrink and the threshold did not rise) or calls
`notify_credit_available`; `NothingRaised` and `Announced` carry
`NoLostCredit` through the two cases. The case that is easy to miss is a
delivery paid from surplus, which releases more than it adds.

**`ConnectionLifecycleProofs`**: `CountersAreExact`, `SelectableHasSession`,
`WorkIsCurrent`, the action property `DialledPeersAreRemembered`, and the
refinement `LifecycleImplementsPopulation`. `PopulationExact` compares a counter with
the size of a set, so a handler may change one exactly when it changes the other;
whether it does depends on who owns the attempt and the peer file
(`OwnersInv`: both were started for that peer in this network, and once through they
are the same), on a resting peer being in no slot (`RestsInv`) and on every busy
peer being known (`KnownInv`). `OnlyCurrentWork` needs that an open connection
of a connected peer is its own unless the rejection of the other is still to run
(`LinksInv`, `OneConnectionInUse`). Each handler is shown to do one of seven things
to the population (`PeersStay`, `Recovers`, `Retries`, `Marks`, `Publishes`,
`Promotes`, `Leaves`), the network switch stands apart, and the invariant, the
action property and the refinement are each proved once per kind of step.

**`RetrieveProofs`**: `AsksSoundly`, `MissingNeedsAll`, and that the request implements
`ChunkRequest` (`RequestKeepsPromise`). A peer is asked once per session because
of all attempts on it only the last can be unread or unfailed (`AskedInOrder`) and
because an entry of the skip list bounds the sessions that were tried
(`SkiplistKnows`). The counters the code keeps (in flight, confirmed empty, remaining
budget) are the sizes of sets of attempts (`CountsAgree`), so "missing" means what
it says when the loop compares them.

The same module proves `FrontierIsAlwaysFound`, for any feed, lookahead and order of
answers. `FeedInv` says that what was found is there, that an index which may be returned
follows it, and that probes which are out were sent when the search had begun. A probe
that answers "missing" was sent after that beginning, so what it misses was not there
then; the wave that ends the doubling has such a probe right above the highest hit, or a
failed one. The largest level a wave found exists because levels are bounded
(`LargestOfBounded`); doubling is only used where it is guarded against the end of the
index space, and no power of two has to be known to the prover.

And it proves of a media file `HighWater`, `ReadersServed` and the action property
`PrefetchGoesOn`, for any size of file and window, any requests and prefetchers. The
high water moves over ranges that join what is below it; that those which
`mark_complete` pops leave no byte between them out (`JoinedCover`), whatever order they
were stored in, and that a batch marks one window after the other (`MarkedSound`) gives
`WaterInv`. For `ReadersServed` the arithmetic of the counter is needed once: the i-th
generation given out is `Gen(i)`, and of two the later is the newer, also when the counter
wrapped between them (`NewerIs`), as long as fewer are given out than half of its range,
which is what `MediaAssumption` bounds. `ServedInv` then speaks of order alone: the state's generation
is the last one, nobody waits for a load that does not hold the window for the waiter's
generation, a held window has a load that runs, and the latest registered generation is
not older than any registered load's. For `PrefetchGoesOn`, `BatchInv` follows the first
window of a batch, which is wanted, waited for, read or failed until the batch ends; once it
was marked, the high water is past it, or ends at least a byte before it (`ReachedOrLeft`,
`MarkedKnows`).

**`RawFetchProofs`**: `ServesItsWaiters`. The registry holds flights under way
(`RegistryIsCurrent`), the port each queued flight once (`PortIsQueued`), who is on a
list waits for that flight and keeps it open (`ListsAreWaiting`), who waits is on
the list of the registered flight (`WaitingIsListed`); a flight the registry has
lost is closed, has nobody on its list and has claimed nothing unless it ended
(`LostFlightsRest`), which is why it never competes with its successor.

Of groups of shards it proves `OnlyLostGroupsGiveUp` and the refinement
`GroupsImplementPromise`. `GroupInv` accounts for every shard: what was asked for is
received, out or failed, and the code's counters are the sizes of these sets (`Counted`); a
group that does not recover lost nothing yet, and one that rolls has asked for all its data
shards that are not cached and for parity only once it recovers (`Recovers`). With
nothing out and too few received, all shards are then failed or cached in decoded form
alone, and there are more of those than parity shards. That no child is emitted twice is
`requested_ready` being exactly what was emitted, through each of the five ways a child
gets ready.

**`PushProofs`**: `PushesSoundly`. Whom the push asked stays skipped and is never among
those short of credit, whom a nap lets back in (`AsksOnce`); results read and
results waiting are together the attempts that ended (`ResultsAgree`), until the push
returns and reads no more.

Of an upload it proves `OnlyConfirmedFiles` and `UploadsStayInWindows` (`WindowsHold`: the
chunks not pushed once, and those not confirmed, are no more than the windows allow; this
one no run checks). The upload counts receipts and cannot tell whose they are, so
`UploadInv` compares counts: no more receipts were consumed than chunks are confirmed, no
more slots than chunks have signalled. When as many were consumed as were queued, all are
confirmed, for `done` counts each chunk once: the port holds a chunk once and only while
it is queued (`Tidy`), and what is confirmed is never pushed again. A window is full only
while the producer waits for it (`Windowed`).

**`SharedWorkerProofs`**: `NoTransferLosesItsNetwork`, `WindowsAgree`,
`OneStreamIsPlayed`. While a start is
performed, worker.js is ahead of the runtime and remembers where that was; until the
two agree no transfer runs (`NetworkInv`). For the windows the invariant reads
the messages on their way: the last notice that says a network, and everything a
window is told after it, names the runtime's (`Informed`), so that a window with no
notice left knows the right one, though answers to starts that were given up are
ignored.

`OneStream` speaks of the moment when all is said, and is inductive only with an account
of everything on its way (`StreamInv`, nine parts). `PlaysInv`: the session of the runtime
is that of the lease or of one preparation, and no two share a view. `PromisedInv` and
`LeaseInv`: who asks for a stream or has the lease still waits for it with the answer
coming, shows it, or has sent word that it does not, behind the request in its queue or
still unread. `TakenInv`: who lost the lease to another window will be told, or has done
with the stream. These rest on what names cannot be reused or mistaken: an attempt is
asked for once and is unknown to worker.js until then (`FreshInv`), a view belongs to one
network (`AttemptsInv`), a session told or shown is not 0 and never that of another
preparation (`StreamsInv`), the window of the lease is told of its session only
(`AnswersInv`), and a window closes last (`ClientsInv`). The steps of worker.js that start no
stream are proved together (`Falls`: the lease stays, or falls at the latest when its
window's word is read), those of a window through what they send (`WindowDoes`), and
those that move a stream on one by one: asked for, begun, returned, taken.

`RelayServesRequests` is about the requests of the service worker. `RelayInv`: a request
is sent once and has one job at most, whose stage agrees with where the request is and
how often it was served (`RequestSound`, `JobSound`); and a request that nothing
disturbed is on its way to its window (`OnItsWay`), which is still there and on the network
the request is for (`AtHome`). Every action moves a request on or ends it unsent
(`GoesOn`), and only acts of the environment, which mark it as disturbed, move a window
away from under it.

**`HlsFeedProofs`**: `PlaylistHasNoHole`, `FinishedAtTheFrontier`, and `FeedTypes`. That
the playlist is an interval ending at the session's update (`Contiguous`) is kept by
whatever `joins`; the one write that asks no such question is the history of a live
stream, installed after the follower went on, and it fits because the head it leads up
to was installed first and nothing takes a segment away (`HeadInstalled`). A search
carries what was stored when it began: of that, what settled as missing is a failed
probe (`SoundSearch`), so a frontier with no failed guard had nothing behind it, and
this is still so when its history is read later. The beginning resets the playlist
without looking, which is harmless because until then nothing else runs (`Untouched`).

Of the player it proves `PlayerNeverStalls`, `PlayedIsShown` and the action property
`OnlyTheLastSeek`. Its handlers map states to states and call one another, so `PlayerInv`
is stated of a state and each handler is shown to keep it (`Fine`), most through a handler
it ends in. At most one waiting seek and one waiting choice are not old (`SoundTask`), so an
answer that is believed is the one waited for. That something leads to playback
(`Prepared`) needs more than it says: a late answer about the live tail helps only
where there is a manifest to load from, and without one it is loading or a history is
awaited that brings it (`Loads`). That what plays is shown (`Shows`) needs that a hold for
Auto and the rendition prepared for it belong to this instance, which a hard restart
replaces.

The assumptions are those of the modules: amounts are naturals, prices positive,
names disjoint where a variable mixes them, sets finite where they are counted.
`AccountingAssumption`, `SettlementAssumption`, `CreditWaitAssumption`,
`RetrieveAssumption`, `LifecycleAssumption`, `SharedAssumption`, `HlsAssumption`,
`IndexAssumption`, `GroupAssumption`, `WindowAssumption` and `PlayerAssumption` are ASSUMEd where the
constants are declared; `RawFetchAssumption` and `PushAssumption` are hypotheses of their
theorems, because those modules are instantiated beside others, and are ASSUMEd by the
modules that do; so is `MediaAssumption`. TLC evaluates all of them in the runs.

Only model-checked:

- liveness (`RetirementFinishes`, `AttemptSettles`, `RequestEnds`, `WaitsEnd`, `ReadsEnd`,
  `UploadsEnd`, `CatchesUp`), which is outside what the prover
  does;
- `RangeOrCause` and `TreeIsReadable`: what a walk of a tree delivers, and what a tree of
  some span looks like, is defined by recursion on levels and spans (`TreeLayout`), and
  what these definitions compute for every span would take an induction over data;
- of `RetrieveChunk!TypeOK` the bound on the sum of all sessions, which is a limit of
  the model and not of the code.

## 5. Findings

1. `Lifecycle_network`, `BootnodesAreCurrent`: the handshake task adds its peer to
   the bootnodes (`lib.rs:2137`) before it compares the connection generation
   (`lib.rs:2141`). A task of the earlier network that starts after the switch
   leaves its peer among the new network's bootnodes, though the README says the
   generation keeps stale handshakes from leaking into the new session
   (`README.md:253`).

Seen while modelling, and kept as remarks because no property of the models is about
them or because the code does not promise otherwise:

- The README (`README.md:196`) describes a dial target that falls with every hundred
  losses down to 30; `accounting.rs:25` is a constant of 200 and nothing counts losses.
- While the first byte of a media file is missing and what follows is loaded,
  `mark_complete` has nothing to join and a prefetcher reads the same cached windows
  every 25 ms (`stream.rs:1329-1389`, `1401`); `PrefetchAdvances` leaves this case out.
  Two tabs that share a data reference share the loads of its windows though their
  generations differ.
- `push_chunk`: a peer whose session was gone, or whose turn a pause took, stays skipped
  and counts neither way, so that with fewer than receipts + failures - 1 askable peers a
  push need not return, and while paused it does not even when confirmed; the wait after
  its loop (`upload.rs:1307-1326`) cannot run.
- HLS overlap is found by payload: a playlist that repeats the URI of a gap could be joined
  at the wrong place. `HlsFeed` numbers segments and keeps payloads apart.
- `player.rs`: a seek back into what is buffered while history is prepared ends buffering
  by `canplay`, the answer is dropped and loading stays stopped (`PlaybackIsPrepared` speaks
  of players that are not ready); a manifest parsed while playing leaves the prepared
  rendition pinned though the control shows another (`pinned` in `ShownIsPlayed`); a late
  answer about the live tail overrides a newer seek; a fatal network error of the first
  manifest only leaves the error shown.
- Windows and worker: a window that switches network itself keeps its dead stream active
  until it opens another; a request built while its own window switches carries the earlier
  network and is refused with 409; `NETWORK_CHANGED` and answers to starts use different
  ports, of which the model assumes sending order.
- `service.js`: a message to a closed port is lost without a sign and its request waits for
  240 s; a request for another network, or the timeout of one, invalidates the port all
  streams use; a `BIND` that comes after its 1.5 s replaces the good port; a ping under way
  across a switch can strand a request (`disturbed`).

## 6. Plan

Modelled so far: see section 2. What would come next:

1. Proofs: what a walk delivers of one level of a tree (`RangeOrCause`), and one level of
   `TreeIsReadable`.
2. The cumulative payouts of cheques and their persistence (`handlers.rs:384`,
   `persistence.rs`), with a worker that stops in between.
3. Range streams of the service worker (`createRustRangeStream`), feed updates and
   collections of uploads (`upload_resource`), the resolution guard of manifests, the
   WebSocket transport.

### Not modelled

| Part | Why |
|---|---|
| Manifests | resolution is recursive over a wire format; only its guard carries state. Planned. |
| WebSocket transport, progress store, persistence | one socket's callbacks, a sequential store with unit tests, and four stored fields; no state of two actors meets in them. The first and the last are planned. |
| Secure vault client, wallet and contracts | clients of services outside the repository, user workflows in sequence |
| Network profiles, addresses, protocol primitives | constants, parsing and pure functions |
| Interface, npm facade, development server | DOM wiring and conversions of values; what they call is modelled |
| Inside modelled parts | framing, encodings, signatures, encryption and GF(256) arithmetic are outcomes; what else is left out is said at each module in section 2 and in `components` of `PROJECT.json` |

## 7. Running

    tlc -config Settlement_one.cfg MCSettlement.tla
    tlapm SettlementProofs.tla

Each row of `runs` in `PROJECT.json` names a module and a configuration; the
longest (`Reads`, `Lifecycle_sessions`) take about three minutes with two workers.
