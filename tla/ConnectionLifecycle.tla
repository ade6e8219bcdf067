------------------------- MODULE ConnectionLifecycle -------------------------
(***************************************************************************)
(* From a dial candidate to a counted, selectable peer and back: dial      *)
(* attempts, physical connections, the Swarm handshake, publication and    *)
(* promotion of a peer, duplicates, reconnect backoff, the population      *)
(* counters that bound it all, and the network switch that starts over.    *)
(*                                                                         *)
(* Every handler runs on one thread, and none keeps a lock while it waits  *)
(* for anything but a lock: an acquisition finds its lock free, and a      *)
(* handler is one step up to its next wait for a channel, an event, a      *)
(* stream or a timer.  What does interleave is the order in which the      *)
(* handlers spawned for swarm events, the channels and the timers get      *)
(* their turn.                                                             *)
(***************************************************************************)
EXTENDS Naturals, FiniteSets

CONSTANTS
    Peer,
    Connection,    \* physical connections, each to the peer
    Of,            \*   Of[c]
    Overlay,       \* the overlay address Overlay[p] of a peer
    Requested,     \* the connections asked for: <<peer, as a bootnode>>
    Attempt,       \* connection attempts, used once each
    Limit,         \* CONNECTION_BUILDUP_LIMIT
    MaxGeneration, \* bound on network switches
    MaxCandidates, \* bound on the candidates that wait at a time
    None

ASSUME LifecycleAssumption ==
    /\ IsFiniteSet(Peer)
    /\ Of \in [Connection -> Peer]
    /\ DOMAIN Overlay = Peer
    /\ Requested \subseteq Peer \X BOOLEAN
    /\ Limit \in Nat /\ MaxGeneration \in Nat /\ MaxCandidates \in Nat
    /\ None \notin Peer \cup Connection \cup Attempt \cup Nat

VARIABLES
    generation,        \* connection_generation
    population,        \* the counters of connected peers and ongoing attempts
    link,              \* what the transport knows of a connection
    physical_connections,
    unseen,            \* established connections whose handler is yet to run
    handshake_ready_connections,
    connection_attempts,  \* the attempt that owns a peer
    work,              \* an attempt, its handshake task and its timer
    connected_peers,   \* the peer file: named by the attempt that made it
    overlay_peers,     \* who is selectable at an overlay address
    accounting_peers,  \* the account: absent, or its threshold still 0, or not
    bootnodes,
    known_peers,       \* the generation a peer was dialled in
    queue,             \* candidates of the dial scheduler
    bootnode_port,     \* requests of the bootnode handler
    connection_cooldowns,  \* what a cooling peer will queue when it is over
    delayed_peer_retries,  \* what a failed peer will queue after its delay
    rejected_duplicate_peers

maps == <<overlay_peers, accounting_peers, bootnodes, known_peers,
          rejected_duplicate_peers>>
waiting == <<queue, bootnode_port, connection_cooldowns, delayed_peer_retries>>
transport == <<link, physical_connections, unseen, handshake_ready_connections>>
sessions == <<connection_attempts, work, connected_peers>>
vars == <<generation, population, transport, sessions, maps, waiting>>

Generation == 0..MaxGeneration
OverlayAddress == {Overlay[p] : p \in Peer}
LinkStates == {"unused", "dialing", "aborted", "failed", "up", "closing", "closed", "gone"}
WorkSteps == {"unused", "instructed", "spawned", "waiting", "opening", "exchanging",
              "failing", "publishing", "pricing", "done"}

PeerDialInstruction == [peer : Peer, bootnode : BOOLEAN, generation : Generation]
Works == [peer : Peer \cup {None}, connection : Connection \cup {None},
          generation : Generation, bootnode : BOOLEAN, step : WorkSteps,
          identify_failed : BOOLEAN, ready : BOOLEAN]
UnusedWork == [peer |-> None, connection |-> None, generation |-> 0, bootnode |-> FALSE,
               step |-> "unused", identify_failed |-> FALSE, ready |-> FALSE]

TypeOK ==
    /\ generation \in Generation
    /\ population \in [connected : Nat, ongoing : Nat]
    /\ link \in [Connection -> LinkStates]
    /\ physical_connections \subseteq Connection
    /\ unseen \subseteq Connection
    /\ handshake_ready_connections \subseteq Connection
    /\ connection_attempts \in [Peer -> Attempt \cup {None}]
    /\ work \in [Attempt -> Works]
    /\ connected_peers \in [Peer -> Attempt \cup {None}]
    /\ overlay_peers \in [OverlayAddress -> Peer \cup {None}]
    /\ accounting_peers \in [Peer -> {"absent", "unpriced", "priced"}]
    /\ bootnodes \subseteq Peer
    /\ known_peers \in [Peer -> Generation \cup {None}]
    /\ queue \subseteq PeerDialInstruction
    /\ bootnode_port \subseteq PeerDialInstruction
    /\ connection_cooldowns \subseteq PeerDialInstruction
    /\ delayed_peer_retries \subseteq PeerDialInstruction
    /\ rejected_duplicate_peers \in [Peer -> Peer \cup {None}]

Init ==
    /\ generation = 0
    /\ population = [connected |-> 0, ongoing |-> 0]
    /\ link = [c \in Connection |-> "unused"]
    /\ physical_connections = {} /\ unseen = {} /\ handshake_ready_connections = {}
    /\ connection_attempts = [p \in Peer |-> None]
    /\ work = [i \in Attempt |-> UnusedWork]
    /\ connected_peers = [p \in Peer |-> None]
    /\ overlay_peers = [o \in OverlayAddress |-> None]
    /\ accounting_peers = [p \in Peer |-> "absent"]
    /\ bootnodes = {}
    /\ known_peers = [p \in Peer |-> None]
    /\ queue = {} /\ bootnode_port = {}
    /\ connection_cooldowns = {} /\ delayed_peer_retries = {}
    /\ rejected_duplicate_peers = [p \in Peer |-> None]

-----------------------------------------------------------------------------
(* Reading the state.                                                      *)

To(p) == {c \in Connection : Of[c] = p}
is_connected(p) == \E c \in To(p) : link[c] \in {"up", "closing"}
IsDialing(p) == \E c \in To(p) : link[c] \in {"dialing", "aborted"}
exclusive_physical_connection(c) == physical_connections \cap To(Of[c]) = {c}
For(instructions, p) == {instruction \in instructions : instruction.peer = p}
CapacityAvailable == population.connected + population.ongoing < Limit

ConnectionOf(i) == IF i = None THEN None ELSE work[i].connection
AttemptConnection(p) == ConnectionOf(connection_attempts[p])
OwnsAttempt(i) == connection_attempts[work[i].peer] = i

saturating_sub(m, n) == IF m >= n THEN m - n ELSE 0
release_connection_reservation == [population EXCEPT !.ongoing = saturating_sub(@, 1)]
release_connected_peer == [population EXCEPT !.connected = saturating_sub(@, 1)]
complete_connection_reservation(connected) ==
    [connected |-> population.connected + (IF connected THEN 1 ELSE 0),
     ongoing |-> saturating_sub(population.ongoing, 1)]

(* swarm.disconnect_peer_id: open connections close, pending dials abort.  *)
disconnect_peers(peers) ==
    [c \in Connection |->
        IF Of[c] \notin peers THEN link[c]
        ELSE CASE link[c] = "up" -> "closing"
               [] link[c] = "dialing" -> "aborted"
               [] OTHER -> link[c]]

close_connection(c) == [link EXCEPT ![c] = IF @ = "up" THEN "closing" ELSE @]

Instruction(p, bootnode) == [peer |-> p, bootnode |-> bootnode, generation |-> generation]

(* The delay replaces the one a peer already has.                          *)
queue_peer_dial_retry(instruction) ==
    (delayed_peer_retries \ For(delayed_peer_retries, instruction.peer)) \cup {instruction}

-----------------------------------------------------------------------------
(* Candidates.                                                             *)

MoreCandidates ==
    Cardinality(queue) + Cardinality(bootnode_port) < MaxCandidates

(* Hive gossip names a peer; its handler read the generation earlier.      *)
Gossip(p, g) ==
    /\ g <= generation /\ MoreCandidates
    /\ LET item == [peer |-> p, bootnode |-> FALSE, generation |-> g]
       IN  item \notin queue /\ queue' = queue \cup {item}
    /\ UNCHANGED <<generation, population, transport, sessions, maps, bootnode_port,
                   connection_cooldowns, delayed_peer_retries>>

connect_bootnodes_for_current_network(p, bootnode) ==
    /\ Instruction(p, bootnode) \notin bootnode_port /\ MoreCandidates
    /\ bootnode_port' = bootnode_port \cup {Instruction(p, bootnode)}
    /\ UNCHANGED <<generation, population, transport, sessions, maps, queue,
                   connection_cooldowns, delayed_peer_retries>>

(* try_mark_connection_attempt                                             *)

Unowned_RestIgnored(p) ==
    /\ connected_peers[p] = None
    /\ connection_attempts[p] = None

Unowned(p) ==
    /\ connected_peers[p] = None
    /\ For(connection_cooldowns, p) = {}
    /\ For(delayed_peer_retries, p) = {}
    /\ connection_attempts[p] = None

(* The attempt that was started owns connection c and its handshake is     *)
(* instructed.                                                             *)
Mark(i, item, c) ==
    /\ connection_attempts' = [connection_attempts EXCEPT ![item.peer] = i]
    /\ work' = [work EXCEPT ![i] =
          [peer |-> item.peer, connection |-> c, generation |-> item.generation,
           bootnode |-> item.bootnode, step |-> "instructed",
           identify_failed |-> FALSE, ready |-> FALSE]]
    /\ known_peers' = [known_peers EXCEPT ![item.peer] = item.generation]
    /\ population' = [population EXCEPT !.ongoing = @ + 1]
    /\ UNCHANGED delayed_peer_retries

(* start_owned_connection_attempt: take over the only open connection, or  *)
(* dial.  A refusal gives the slot back and tries again later; `known' is  *)
(* what it leaves in known_peers.                                          *)
start_owned_connection_attempt(i, item, known) ==
    /\ work[i] = UnusedWork
    /\ bootnodes' = IF item.bootnode THEN bootnodes \cup {item.peer} ELSE bootnodes
    /\ \/ \E c \in To(item.peer) :
             /\ is_connected(item.peer) /\ exclusive_physical_connection(c)
             /\ Mark(i, item, c)
             /\ UNCHANGED link
       \/ \E c \in To(item.peer) :
             /\ ~is_connected(item.peer) /\ ~IsDialing(item.peer) /\ link[c] = "unused"
             /\ Mark(i, item, c)
             /\ link' = [link EXCEPT ![c] = "dialing"]
       \/ /\ is_connected(item.peer) \/ IsDialing(item.peer)
          /\ ~\E c \in To(item.peer) :
                is_connected(item.peer) /\ exclusive_physical_connection(c)
          /\ delayed_peer_retries' = queue_peer_dial_retry(item)
          /\ known_peers' = [known_peers EXCEPT ![item.peer] = known]
          /\ UNCHANGED <<connection_attempts, work, population, link>>
    /\ UNCHANGED <<generation, physical_connections, unseen, handshake_ready_connections,
                   connected_peers, overlay_peers, accounting_peers,
                   rejected_duplicate_peers, connection_cooldowns>>

(* peer_dial_scheduler: candidates of another generation, of connected     *)
(* peers and of rejected duplicates are dropped; the others stay until     *)
(* they are eligible and there is room.                                    *)
DropCandidate(item) ==
    /\ item \in queue
    /\ \/ item.generation # generation
       \/ connected_peers[item.peer] # None
       \/ rejected_duplicate_peers[item.peer] # None
    /\ queue' = queue \ {item}
    /\ UNCHANGED <<generation, population, transport, sessions, maps, bootnode_port,
                   connection_cooldowns, delayed_peer_retries>>

DialCandidate(i, item) ==
    /\ item \in queue /\ item.generation = generation
    /\ rejected_duplicate_peers[item.peer] = None
    /\ Unowned(item.peer) /\ CapacityAvailable
    /\ queue' = queue \ {item}
    /\ start_owned_connection_attempt(i, item, generation)
    /\ UNCHANGED bootnode_port

(* bootnode_change_handle waits for room, not for the peer.                *)
DropBootnode(item) ==
    /\ item \in bootnode_port
    /\ item.generation # generation \/ (CapacityAvailable /\ ~Unowned(item.peer))
    /\ bootnode_port' = bootnode_port \ {item}
    /\ UNCHANGED <<generation, population, transport, sessions, maps, queue,
                   connection_cooldowns, delayed_peer_retries>>

DialBootnode(i, item) ==
    /\ item \in bootnode_port /\ item.generation = generation
    /\ CapacityAvailable /\ Unowned(item.peer)
    /\ bootnode_port' = bootnode_port \ {item}
    /\ start_owned_connection_attempt(i, item, None)
    /\ UNCHANGED queue

-----------------------------------------------------------------------------
(* The transport, and the handlers of its events.                          *)

Establish(c) ==
    /\ link[c] \in {"dialing", "aborted"}
    /\ link' = [link EXCEPT ![c] = "up"]
    /\ physical_connections' = physical_connections \cup {c}
    /\ unseen' = unseen \cup {c}
    /\ UNCHANGED <<generation, population, handshake_ready_connections, sessions, maps,
                   waiting>>

(* A connection no attempt asked for.                                      *)
EstablishUnasked(c) ==
    /\ link[c] = "unused" /\ is_connected(Of[c])
    /\ link' = [link EXCEPT ![c] = "up"]
    /\ physical_connections' = physical_connections \cup {c}
    /\ unseen' = unseen \cup {c}
    /\ UNCHANGED <<generation, population, handshake_ready_connections, sessions, maps,
                   waiting>>

(* A connection to a peer that is looked after by another is closed.       *)
HandleEstablished_Tolerant(c) ==
    /\ c \in unseen
    /\ unseen' = unseen \ {c}
    /\ UNCHANGED <<generation, population, link, physical_connections,
                   handshake_ready_connections, sessions, maps, waiting>>

HandleEstablished(c) ==
    LET p == Of[c]
        owners == {ConnectionOf(connected_peers[p]), AttemptConnection(p)} \ {None}
        known == owners # {} \/ For(connection_cooldowns, p) # {}
    IN  /\ c \in unseen
        /\ unseen' = unseen \ {c}
        /\ link' = IF known /\ c \notin owners THEN close_connection(c) ELSE link
        /\ UNCHANGED <<generation, population, physical_connections,
                       handshake_ready_connections, sessions, maps, waiting>>

(* The node's own reasons to close: a failed ping, a retired settlement.   *)
CloseConnection(c) ==
    /\ link[c] = "up"
    /\ link' = close_connection(c)
    /\ UNCHANGED <<generation, population, physical_connections, unseen,
                   handshake_ready_connections, sessions, maps, waiting>>

Close(c) ==
    /\ link[c] \in {"up", "closing"}
    /\ link' = [link EXCEPT ![c] = "closed"]
    /\ physical_connections' = physical_connections \ {c}
    /\ handshake_ready_connections' = handshake_ready_connections \ {c}
    /\ UNCHANGED <<generation, population, unseen, sessions, maps, waiting>>

FailDial(c) ==
    /\ link[c] \in {"dialing", "aborted"}
    /\ link' = [link EXCEPT ![c] = "failed"]
    /\ UNCHANGED <<generation, population, physical_connections, unseen,
                   handshake_ready_connections, sessions, maps, waiting>>

(* The OutgoingConnectionError handler: a dial that reached the wrong peer *)
(* is not retried.                                                         *)
HandleDialError(c, retryable) ==
    LET p == Of[c]
        current == known_peers[p] = generation
    IN  /\ link[c] = "failed"
        /\ link' = [link EXCEPT ![c] = "gone"]
        /\ \/ /\ AttemptConnection(p) # c
              /\ UNCHANGED <<connection_attempts, population, delayed_peer_retries,
                             known_peers>>
           \/ /\ AttemptConnection(p) = c
              /\ connection_attempts' = [connection_attempts EXCEPT ![p] = None]
              /\ population' = release_connection_reservation
              /\ delayed_peer_retries' =
                    IF retryable /\ current
                    THEN queue_peer_dial_retry(Instruction(p, p \in bootnodes))
                    ELSE delayed_peer_retries
              /\ known_peers' = IF ~retryable /\ current
                                THEN [known_peers EXCEPT ![p] = None] ELSE known_peers
        /\ UNCHANGED <<generation, physical_connections, unseen,
                       handshake_ready_connections, work, connected_peers, overlay_peers,
                       accounting_peers, bootnodes, rejected_duplicate_peers, queue,
                       bootnode_port, connection_cooldowns>>

(* mark_handshake_ready_connection: the token of a connection that is not  *)
(* the only one is held back.                                              *)
ReadyAttempt(c) ==
    LET i == connection_attempts[Of[c]]
    IN  IF /\ i # None /\ ConnectionOf(i) = c /\ c \in physical_connections
           /\ ~work[i].identify_failed
        THEN {i} ELSE {}

Tokens(c) ==
    [i \in Attempt |-> IF i \in ReadyAttempt(c) /\ exclusive_physical_connection(c)
                       THEN [work[i] EXCEPT !.ready = TRUE] ELSE work[i]]

(* The ConnectionClosed handler.                                           *)
ClosedIsOwner(c) ==
    LET p == Of[c]
    IN  c = IF connected_peers[p] # None
            THEN ConnectionOf(connected_peers[p]) ELSE AttemptConnection(p)

(* The attempt a closed connection takes along.                            *)
HadAttempt_Always(p) == TRUE
HadAttempt(p) ==
    connected_peers[p] = None \/ connection_attempts[p] = connected_peers[p]

HandleUnownedClosed(c) ==
    /\ link[c] = "closed" /\ c \notin unseen
    /\ ~ClosedIsOwner(c)
    /\ link' = [link EXCEPT ![c] = "gone"]
    /\ \/ \E d \in handshake_ready_connections :
             /\ Of[d] = Of[c] /\ exclusive_physical_connection(d)
             /\ work' = Tokens(d)
       \/ /\ ~\E d \in handshake_ready_connections :
                 Of[d] = Of[c] /\ exclusive_physical_connection(d)
          /\ UNCHANGED work
    /\ UNCHANGED <<generation, population, physical_connections, unseen,
                   handshake_ready_connections, connection_attempts, connected_peers,
                   maps, waiting>>

HandleOwnedClosed(c) ==
    LET p == Of[c]
        file == connected_peers[p]
        had_attempt == HadAttempt(p)
        owned_overlay == file # None /\ overlay_peers[Overlay[p]] = p
        tracked_bootnode == file # None /\ p \in bootnodes
    IN  /\ link[c] = "closed" /\ c \notin unseen
        /\ ClosedIsOwner(c)
        /\ link' = [link EXCEPT ![c] = "gone"]
        /\ connected_peers' = [connected_peers EXCEPT ![p] = None]
        /\ rejected_duplicate_peers' =
              [q \in Peer |-> IF rejected_duplicate_peers[q] = p
                              THEN None ELSE rejected_duplicate_peers[q]]
        /\ overlay_peers' = IF owned_overlay
                            THEN [overlay_peers EXCEPT ![Overlay[p]] = None]
                            ELSE overlay_peers
        /\ connection_attempts' = IF had_attempt
                                  THEN [connection_attempts EXCEPT ![p] = None]
                                  ELSE connection_attempts
        /\ accounting_peers' = [accounting_peers EXCEPT ![p] = "absent"]
        /\ known_peers' = [known_peers EXCEPT ![p] = None]
        /\ connection_cooldowns' =
              IF known_peers[p] = generation
              THEN connection_cooldowns \cup {Instruction(p, p \in bootnodes)}
              ELSE connection_cooldowns
        /\ population' = IF had_attempt THEN release_connection_reservation
                         ELSE IF owned_overlay \/ tracked_bootnode
                              THEN release_connected_peer
                              ELSE population
        /\ UNCHANGED <<generation, physical_connections, unseen,
                       handshake_ready_connections, work, bootnodes, queue,
                       bootnode_port, delayed_peer_retries>>

(* Identify: the connection may start its handshake, or never will.        *)
IdentifyReceived(c) ==
    /\ c \in physical_connections \ handshake_ready_connections
    /\ work' = Tokens(c)
    /\ handshake_ready_connections' =
          IF ReadyAttempt(c) # {} THEN handshake_ready_connections \cup {c}
          ELSE handshake_ready_connections
    /\ UNCHANGED <<generation, population, link, physical_connections, unseen,
                   connection_attempts, connected_peers, maps, waiting>>

close_failed_identify_connection(c) ==
    /\ c \notin handshake_ready_connections
    /\ \E i \in ReadyAttempt(c) :
          work' = [work EXCEPT ![i].identify_failed = TRUE]
    /\ link' = close_connection(c)
    /\ UNCHANGED <<generation, population, physical_connections, unseen,
                   handshake_ready_connections, connection_attempts, connected_peers,
                   maps, waiting>>

-----------------------------------------------------------------------------
(* The handshake task of an attempt.                                       *)

Step(i, step) == work' = [work EXCEPT ![i].step = step]

(* handshake_instruction_handle checks the generation and spawns the task. *)
HandleInstruction(i) ==
    /\ work[i].step = "instructed"
    /\ Step(i, IF work[i].generation = generation THEN "spawned" ELSE "done")
    /\ UNCHANGED <<generation, population, transport, connection_attempts,
                   connected_peers, maps, waiting>>

BeginHandshake(i) ==
    LET p == work[i].peer
        current == work[i].generation = generation
    IN  /\ work[i].step = "spawned"
        /\ bootnodes' = IF work[i].bootnode THEN bootnodes \cup {p} ELSE bootnodes
        /\ IF ~current /\ OwnsAttempt(i)
           THEN /\ connection_attempts' = [connection_attempts EXCEPT ![p] = None]
                /\ population' = release_connection_reservation
           ELSE UNCHANGED <<connection_attempts, population>>
        /\ Step(i, IF ~current \/ ~OwnsAttempt(i) THEN "done"
                   ELSE IF work[i].connection \notin handshake_ready_connections
                        THEN "waiting"
                        ELSE IF exclusive_physical_connection(work[i].connection)
                             THEN "opening" ELSE "waiting")
        /\ UNCHANGED <<generation, transport, connected_peers, overlay_peers,
                       accounting_peers, known_peers, rejected_duplicate_peers, waiting>>

(* Each token is one more look at the connection.                          *)
TakeToken(i) ==
    /\ work[i].step = "waiting" /\ work[i].ready
    /\ work' = [work EXCEPT ![i].ready = FALSE,
                            ![i].step =
                  IF work[i].generation # generation \/ ~OwnsAttempt(i) THEN "failing"
                  ELSE IF exclusive_physical_connection(work[i].connection)
                       THEN "opening" ELSE "waiting"]
    /\ UNCHANGED <<generation, population, transport, connection_attempts,
                   connected_peers, maps, waiting>>

(* connection_handler captures the session once its stream is open; the    *)
(* exchange ends by handing over the peer file.                            *)
OpenHandshake(i) ==
    /\ work[i].step = "opening"
    /\ Step(i, IF exclusive_physical_connection(work[i].connection)
               THEN "exchanging" ELSE "failing")
    /\ UNCHANGED <<generation, population, transport, connection_attempts,
                   connected_peers, maps, waiting>>

FinishHandshake(i) ==
    /\ work[i].step = "exchanging"
    /\ Step(i, "publishing")
    /\ UNCHANGED <<generation, population, transport, connection_attempts,
                   connected_peers, maps, waiting>>

(* PRE_HANDSHAKE_CONNECTION_TIMEOUT_MS, HANDSHAKE_PROTOCOL_TIMEOUT_MS, or  *)
(* a stream that failed.  A dial that is still pending is given up here;   *)
(* an open connection is closed and its close handler does the rest.       *)
FailHandshake_Unretried(i) ==
    LET p == work[i].peer
    IN  /\ work[i].step \in {"waiting", "opening", "exchanging", "failing"}
        /\ Step(i, "done")
        /\ link' = IF OwnsAttempt(i) THEN disconnect_peers({p}) ELSE link
        /\ IF OwnsAttempt(i) /\ ~is_connected(p)
           THEN /\ connection_attempts' = [connection_attempts EXCEPT ![p] = None]
                /\ population' = release_connection_reservation
           ELSE UNCHANGED <<connection_attempts, population>>
        /\ UNCHANGED <<generation, physical_connections, unseen,
                       handshake_ready_connections, connected_peers, maps, waiting>>

FailHandshake(i) ==
    LET p == work[i].peer
    IN  /\ work[i].step \in {"waiting", "opening", "exchanging", "failing"}
        /\ Step(i, "done")
        /\ link' = IF OwnsAttempt(i) THEN disconnect_peers({p}) ELSE link
        /\ IF OwnsAttempt(i) /\ ~is_connected(p)
           THEN /\ connection_attempts' = [connection_attempts EXCEPT ![p] = None]
                /\ delayed_peer_retries' = queue_peer_dial_retry(
                      [peer |-> p, bootnode |-> work[i].bootnode,
                       generation |-> work[i].generation])
                /\ population' = release_connection_reservation
           ELSE UNCHANGED <<connection_attempts, delayed_peer_retries, population>>
        /\ UNCHANGED <<generation, physical_connections, unseen,
                       handshake_ready_connections, connected_peers, maps, queue,
                       bootnode_port, connection_cooldowns>>

-----------------------------------------------------------------------------
(* Publication and promotion.                                              *)

\* A bootnode takes no overlay; another peer takes one that has no owner.
CanBePromoted_TakesOver(p) == TRUE
CanBePromoted(p) == p \in bootnodes \/ overlay_peers[Overlay[p]] = None

(* promote_priced_peer, once the peer file and account of p are as given.  *)
promote_priced_peer(p, files, accounts) ==
    LET file == files[p]
        owner == overlay_peers[Overlay[p]]
        promoted == CanBePromoted(p)
        rejected == ~promoted /\ owner # p
    IN  IF /\ file # None /\ exclusive_physical_connection(ConnectionOf(file))
           /\ connection_attempts[p] = file
        THEN /\ connection_attempts' = [connection_attempts EXCEPT ![p] = None]
             /\ population' = complete_connection_reservation(promoted)
             /\ overlay_peers' = IF p \notin bootnodes /\ promoted
                                 THEN [overlay_peers EXCEPT ![Overlay[p]] = p]
                                 ELSE overlay_peers
             /\ IF rejected
                THEN /\ rejected_duplicate_peers' =
                           [rejected_duplicate_peers EXCEPT ![p] = owner]
                     /\ connected_peers' = [files EXCEPT ![p] = None]
                     /\ accounting_peers' = [accounts EXCEPT ![p] = "absent"]
                     /\ known_peers' = [known_peers EXCEPT ![p] = None]
                     /\ delayed_peer_retries' =
                           delayed_peer_retries \ For(delayed_peer_retries, p)
                     /\ link' = disconnect_peers({p})
                ELSE /\ connected_peers' = files
                     /\ accounting_peers' = accounts
                     /\ UNCHANGED <<rejected_duplicate_peers, known_peers,
                                    delayed_peer_retries, link>>
        ELSE /\ connected_peers' = files
             /\ accounting_peers' = accounts
             /\ UNCHANGED <<connection_attempts, population, overlay_peers, link,
                            rejected_duplicate_peers, known_peers, delayed_peer_retries>>

(* accounting_event_handle: the handshake's peer file.                     *)
RefusePeerFile(i) ==
    LET p == work[i].peer
        refused == \/ ~exclusive_physical_connection(work[i].connection)
                   \/ ~OwnsAttempt(i)
    IN  /\ work[i].step = "publishing"
        /\ refused \/ connected_peers[p] \notin {None, i}
        /\ Step(i, "done")
        /\ link' = IF refused /\ OwnsAttempt(i) THEN disconnect_peers({p}) ELSE link
        /\ UNCHANGED <<generation, population, physical_connections, unseen,
                       handshake_ready_connections, connection_attempts,
                       connected_peers, maps, waiting>>

PublishPeerFile(i) ==
    LET p == work[i].peer
    IN  /\ work[i].step = "publishing"
        /\ exclusive_physical_connection(work[i].connection) /\ OwnsAttempt(i)
        /\ connected_peers[p] \in {None, i}
        /\ IF accounting_peers[p] = "priced"
           THEN /\ Step(i, "done")
                /\ promote_priced_peer(p, [connected_peers EXCEPT ![p] = i],
                                       accounting_peers)
           ELSE /\ Step(i, "pricing")
                /\ connected_peers' = [connected_peers EXCEPT ![p] = i]
                /\ accounting_peers' = [accounting_peers EXCEPT ![p] = "unpriced"]
                /\ UNCHANGED <<connection_attempts, population, overlay_peers, link,
                               rejected_duplicate_peers, known_peers,
                               delayed_peer_retries>>
        /\ UNCHANGED <<generation, physical_connections, unseen,
                       handshake_ready_connections, bootnodes, queue, bootnode_port,
                       connection_cooldowns>>

(* pricing_event_handle: an announcement counts on the connection the peer *)
(* is owned by, before or after its peer file.                             *)
AnnouncePricing(c, price) ==
    LET p == Of[c]
    IN  /\ exclusive_physical_connection(c)
        /\ c = IF connected_peers[p] # None
               THEN ConnectionOf(connected_peers[p]) ELSE AttemptConnection(p)
        /\ promote_priced_peer(p, connected_peers, [accounting_peers EXCEPT ![p] = price])
        /\ UNCHANGED <<generation, physical_connections, unseen,
                       handshake_ready_connections, work, bootnodes, queue,
                       bootnode_port, connection_cooldowns>>

(* PRICING_CONNECT_TIMEOUT_MS: a peer that announced nothing is let go.    *)
TimeOutPricing_Lenient(i) ==
    /\ work[i].step = "pricing"
    /\ Step(i, "done")
    /\ UNCHANGED <<generation, population, transport, connection_attempts,
                   connected_peers, maps, waiting>>

TimeOutPricing(i) ==
    LET p == work[i].peer
    IN  /\ work[i].step = "pricing"
        /\ Step(i, "done")
        /\ link' = IF /\ work[i].generation = generation
                      /\ connected_peers[p] = i
                      /\ accounting_peers[p] = "unpriced"
                      /\ OwnsAttempt(i)
                   THEN disconnect_peers({p}) ELSE link
        /\ UNCHANGED <<generation, population, physical_connections, unseen,
                       handshake_ready_connections, connection_attempts,
                       connected_peers, maps, waiting>>

-----------------------------------------------------------------------------
(* Timers, and the network switch.                                         *)

EndCooldown(item) ==
    /\ item \in connection_cooldowns
    /\ connection_cooldowns' = connection_cooldowns \ {item}
    /\ queue' = queue \cup {item}
    /\ UNCHANGED <<generation, population, transport, sessions, maps, bootnode_port,
                   delayed_peer_retries>>

EndRetryDelay(item) ==
    /\ item \in delayed_peer_retries
    /\ delayed_peer_retries' = delayed_peer_retries \ {item}
    /\ queue' = IF item.generation = generation THEN queue \cup {item} ELSE queue
    /\ UNCHANGED <<generation, population, transport, sessions, maps, bootnode_port,
                   connection_cooldowns>>

(* set_network_id: the new generation, then disconnect_all_peers.          *)
set_network_id ==
    /\ generation < MaxGeneration
    /\ generation' = generation + 1
    /\ population' = [connected |-> 0, ongoing |-> 0]
    /\ link' = disconnect_peers({p \in Peer : connection_attempts[p] # None \/ is_connected(p)})
    /\ physical_connections' = {} /\ handshake_ready_connections' = {}
    /\ connection_attempts' = [p \in Peer |-> None]
    /\ connected_peers' = [p \in Peer |-> None]
    /\ overlay_peers' = [o \in OverlayAddress |-> None]
    /\ accounting_peers' = [p \in Peer |-> "absent"]
    /\ bootnodes' = {}
    /\ known_peers' = [p \in Peer |-> None]
    /\ connection_cooldowns' = {} /\ delayed_peer_retries' = {}
    /\ rejected_duplicate_peers' = [p \in Peer |-> None]
    /\ UNCHANGED <<unseen, work, queue, bootnode_port>>

-----------------------------------------------------------------------------
Candidates ==
    \/ \E p \in Peer, g \in Generation : Gossip(p, g)
    \/ \E r \in Requested : connect_bootnodes_for_current_network(r[1], r[2])
    \/ \E item \in PeerDialInstruction :
          \/ DropCandidate(item) \/ DropBootnode(item)
          \/ EndCooldown(item) \/ EndRetryDelay(item)
          \/ \E i \in Attempt : DialCandidate(i, item) \/ DialBootnode(i, item)

TransportStep(c) ==
    \/ Establish(c) \/ EstablishUnasked(c) \/ HandleEstablished(c)
    \/ CloseConnection(c) \/ Close(c) \/ FailDial(c)
    \/ \E retryable \in BOOLEAN : HandleDialError(c, retryable)
    \/ HandleUnownedClosed(c) \/ HandleOwnedClosed(c)
    \/ IdentifyReceived(c) \/ close_failed_identify_connection(c)
    \/ \E price \in {"unpriced", "priced"} : AnnouncePricing(c, price)

HandshakeStep(i) ==
    \/ HandleInstruction(i) \/ BeginHandshake(i) \/ TakeToken(i)
    \/ OpenHandshake(i) \/ FinishHandshake(i) \/ FailHandshake(i)
    \/ RefusePeerFile(i) \/ PublishPeerFile(i) \/ TimeOutPricing(i)

Next ==
    \/ Candidates
    \/ \E c \in Connection : TransportStep(c)
    \/ \E i \in Attempt : HandshakeStep(i)
    \/ set_network_id

Spec == Init /\ [][Next]_vars

(* The node's own tasks and timers run; a dial, a close and a handshake    *)
(* end one way or the other.  No peer is obliged to announce a price, and  *)
(* nobody to name candidates.                                              *)
Fairness ==
    /\ \A c \in Connection :
          /\ WF_vars(Establish(c) \/ FailDial(c))
          /\ WF_vars(HandleEstablished(c))
          /\ WF_vars(link[c] = "closing" /\ Close(c))
          /\ WF_vars(\E retryable \in BOOLEAN : HandleDialError(c, retryable))
          /\ WF_vars(HandleUnownedClosed(c) \/ HandleOwnedClosed(c))
    /\ \A i \in Attempt : WF_vars(HandshakeStep(i))

FairSpec == Spec /\ Fairness

-----------------------------------------------------------------------------
(* Safety.                                                                 *)

Tried == {p \in Peer : connection_attempts[p] # None}
Promoted == {p \in Peer : connected_peers[p] # None /\ connection_attempts[p] = None}
Resting == {item.peer : item \in connection_cooldowns \cup delayed_peer_retries}

(* The two counters that admit new dials are what they count, whichever    *)
(* handler ended an attempt or a session, in whichever order, across       *)
(* duplicates, late events and network switches: no slot leaks and none is *)
(* given back twice (complete_connection_reservation and the releases).    *)
PopulationExact ==
    /\ population.ongoing = Cardinality(Tried)
    /\ population.connected = Cardinality(Promoted)

(* A peer that counts as connected can be selected at its overlay address  *)
(* (bootnodes excepted), and whoever is selected there has a session: what *)
(* retrieval picks from overlay_peers and what the counters count agree.   *)
SelectableIsPromoted ==
    /\ \A p \in Promoted : overlay_peers[Overlay[p]] = p \/ p \in bootnodes
    /\ \A o \in OverlayAddress : overlay_peers[o] # None =>
          overlay_peers[o] \in Promoted /\ Overlay[overlay_peers[o]] = o

(* Nothing of an earlier network survives the switch: "stale dialing,      *)
(* handshake, and connection events do not leak into the new network       *)
(* session" (README.md).                                                   *)
NothingStale ==
    \A p \in Peer :
       /\ \A i \in {connection_attempts[p], connected_peers[p]} \ {None} :
             work[i].generation = generation /\ work[i].peer = p
       /\ known_peers[p] \in {generation, None}
       /\ \A item \in For(connection_cooldowns \cup delayed_peer_retries, p) :
             item.generation = generation

(* A connected peer has one connection in use: any other one is on its way *)
(* out once its established event has been handled, whether it came while  *)
(* the peer was dialled, published or promoted.                            *)
OneConnectionInUse ==
    \A c \in Connection :
       link[c] = "up" /\ c \notin unseen /\ Of[c] \in Promoted
         => c = ConnectionOf(connected_peers[Of[c]])

(* What the lifecycle promises of each peer.                               *)
Phase == [p \in Peer |->
             CASE p \in Tried -> "tried"
               [] p \in Promoted -> "connected"
               [] p \in Resting -> "resting"
               [] OTHER -> "free"]

Population == INSTANCE PeerPopulation WITH phase <- Phase

(* A peer with an attempt, a session or a rest is in no other of the       *)
(* three: a cooling peer is not dialled ("Bee-compatible reconnect delay"),*)
(* and a peer has a single retry under way.                                *)
OnePhase ==
    /\ Resting \cap (Tried \cup Promoted) = {}
    /\ \A p \in Peer :
          Cardinality(For(connection_cooldowns \cup delayed_peer_retries, p)) <= 1

(* Whatever is late or comes twice, the work under way for a peer is of    *)
(* this network, over one connection and in one phase, and who is          *)
(* selectable is who is connected.                                         *)
OnlyCurrentWork == NothingStale /\ OneConnectionInUse /\ OnePhase /\ SelectableIsPromoted

(* The work of an earlier network adds no bootnode to this one: no         *)
(* handshake leaks into the new session (README.md:253).  It does not hold,*)
(* BeginHandshake does.                                                    *)
BootnodesAreCurrent ==
    [][\A i \in Attempt :
          /\ work[i] # UnusedWork /\ work'[i] # work[i]
          /\ work[i].generation # generation
          => bootnodes' \subseteq bootnodes]_vars

(* A peer the node has dialled is not forgotten within a network: when its *)
(* attempt or session ends it rests before it is dialled again, unless it  *)
(* turned out to be another peer's duplicate or not itself.                *)
NotForgotten ==
    [][\A p \in Peer :
          /\ p \in Tried \cup Promoted /\ p \notin (Tried \cup Promoted)'
          /\ generation' = generation
          => \/ p \in Resting'
             \/ rejected_duplicate_peers'[p] # None
             \/ \E c \in To(p) : link[c] = "failed"]_vars

-----------------------------------------------------------------------------
(* Liveness.                                                               *)

(* No attempt holds its slot for ever: it ends in a promotion, a retry or  *)
(* a rest, however its dial, handshake and pricing go.                     *)
AttemptSettles ==
    \A i \in Attempt, p \in Peer :
       connection_attempts[p] = i ~> connection_attempts[p] # i
=============================================================================
