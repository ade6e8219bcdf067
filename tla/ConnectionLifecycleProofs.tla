---------------------- MODULE ConnectionLifecycleProofs ----------------------
(***************************************************************************)
(* Proofs that the counters of the population are exact, that only current *)
(* work goes on for a peer, that no dialled peer is forgotten, and that    *)
(* the lifecycle implements PeerPopulation, for any peers, connections,    *)
(* overlays, attempts, network switches and limit.                         *)
(***************************************************************************)
EXTENDS ConnectionLifecycle, FiniteSetTheorems, TLAPS

Rests == connection_cooldowns \cup delayed_peer_retries
Busy == Tried \cup Promoted

(* An attempt that was started is about one peer and one connection to it. *)
WorkInv ==
    \A i \in Attempt : work[i].step # "unused" =>
        /\ work[i].peer \in Peer /\ work[i].connection \in Connection
        /\ Of[work[i].connection] = work[i].peer

(* Who owns a peer or its file was started for that peer in this network,  *)
(* and the peer file is that of the attempt, once it is through.           *)
OwnersInv ==
    \A p \in Peer : \A i \in Attempt :
        /\ connection_attempts[p] = i \/ connected_peers[p] = i =>
              /\ work[i].step # "unused"
              /\ work[i].peer = p /\ work[i].generation = generation
        /\ connected_peers[p] = i =>
              /\ connection_attempts[p] \in {None, i}
              /\ work[i].step \in {"pricing", "done"}

(* A resting peer has one thing to wait for, and is not busy.              *)
RestsInv ==
    \A item \in Rests :
        /\ item.peer \notin Busy /\ item.generation = generation
        /\ \A other \in Rests : other.peer = item.peer => other = item

(* A peer that is busy was dialled in this network.                        *)
KnownInv ==
    \A p \in Peer :
        /\ known_peers[p] \in {generation, None}
        /\ p \in Busy => known_peers[p] = generation

(* What the transport says is open is open, and a session's connection was.*)
LinksInv ==
    /\ \A c \in Connection :
          /\ link[c] = "up" => c \in physical_connections
          /\ c \in physical_connections => link[c] \in {"up", "closing"}
    /\ \A p \in Peer : connected_peers[p] # None =>
          link[ConnectionOf(connected_peers[p])] \in {"up", "closing", "closed"}

PeersInv == OwnersInv /\ RestsInv /\ KnownInv /\ SelectableIsPromoted /\ PopulationExact
SessionsInv == LinksInv /\ OneConnectionInUse

(* The inductive invariant.                                                *)
LifecycleInv == WorkInv /\ PeersInv /\ SessionsInv

-----------------------------------------------------------------------------
(* What a step does to the attempts, to the connections and to a peer.     *)

WorkKept ==
    \A i \in Attempt :
        /\ work'[i].peer = work[i].peer /\ work'[i].connection = work[i].connection
        /\ work'[i].generation = work[i].generation
        /\ work'[i].step = "unused" <=> work[i].step = "unused"
        /\ work[i].step \in {"pricing", "done"} => work'[i].step \in {"pricing", "done"}

(* No connection opens for a connected peer but one whose handler is yet   *)
(* to run, and none disappears while a session is on it.                   *)
LinksKept ==
    \A c \in Connection :
        /\ link'[c] = "up" => c \in physical_connections'
        /\ c \in physical_connections' => link'[c] \in {"up", "closing"}
        /\ link[c] \in {"up", "closing", "closed"} /\ link'[c] \notin {"up", "closing", "closed"}
              => link[c] = "closed"
                 /\ \A p \in Peer : connected_peers'[p] # None => ConnectionOf(connected_peers[p]) # c
        /\ link'[c] = "up" /\ c \notin unseen' /\ Of[c] \in Promoted =>
              \/ link[c] = "up" /\ c \notin unseen
              \/ c = ConnectionOf(connected_peers[Of[c]])

Unbusy(p) ==
    /\ connection_attempts[p] = None /\ connected_peers[p] = None
    /\ \A item \in Rests : item.peer # p

PeersStay ==
    /\ UNCHANGED <<generation, population, connection_attempts, connected_peers, overlay_peers,
                   known_peers>>
    /\ Rests' = Rests /\ bootnodes \subseteq bootnodes'

Recovers(item) ==
    /\ item \in Rests /\ Rests' \in {Rests, Rests \ {item}}
    /\ UNCHANGED <<generation, population, connection_attempts, connected_peers, overlay_peers,
                   known_peers, bootnodes>>

Retries(item) ==
    /\ Unbusy(item.peer) /\ item.generation = generation
    /\ Rests' = Rests \cup {item}
    /\ \E known \in {generation, None} : known_peers' = [known_peers EXCEPT ![item.peer] = known]
    /\ UNCHANGED <<generation, population, connection_attempts, connected_peers, overlay_peers>>
    /\ bootnodes \subseteq bootnodes'

Marks(p, i) ==
    /\ Unbusy(p) /\ CapacityAvailable
    /\ work[i].step = "unused" /\ work'[i].step # "unused"
    /\ work'[i].peer = p /\ work'[i].generation = generation
    /\ work'[i].connection \in Connection /\ Of[work'[i].connection] = p
    /\ \A j \in Attempt \ {i} : work'[j] = work[j]
    /\ connection_attempts' = [connection_attempts EXCEPT ![p] = i]
    /\ known_peers' = [known_peers EXCEPT ![p] = generation]
    /\ population'.ongoing = population.ongoing + 1
    /\ population'.connected = population.connected
    /\ UNCHANGED <<generation, connected_peers, overlay_peers>>
    /\ Rests' = Rests /\ bootnodes \subseteq bootnodes'

Publishes(p, i) ==
    /\ connection_attempts[p] = i /\ connected_peers[p] \in {None, i}
    /\ connected_peers' = [connected_peers EXCEPT ![p] = i]
    /\ work'[i].step \in {"pricing", "done"}
    /\ link'[work[i].connection] \in {"up", "closing"}
    /\ UNCHANGED <<generation, population, connection_attempts, overlay_peers, known_peers,
                   bootnodes>>
    /\ Rests' = Rests

Promotes(p, i) ==
    /\ connection_attempts[p] = i /\ connected_peers[p] \in {None, i}
    /\ connection_attempts' = [connection_attempts EXCEPT ![p] = None]
    /\ connected_peers' = [connected_peers EXCEPT ![p] = i]
    /\ work'[i].step \in {"pricing", "done"}
    /\ exclusive_physical_connection(work[i].connection)
    /\ UNCHANGED <<link, physical_connections, unseen>>
    /\ population'.ongoing = saturating_sub(population.ongoing, 1)
    /\ population'.connected = population.connected + 1
    /\ \/ p \in bootnodes /\ overlay_peers' = overlay_peers
       \/ /\ overlay_peers[Overlay[p]] = None
          /\ overlay_peers' = [overlay_peers EXCEPT ![Overlay[p]] = p]
    /\ UNCHANGED <<generation, known_peers, bootnodes>>
    /\ Rests' = Rests

Leaves(p) ==
    /\ p \in Busy
    /\ connection_attempts' = [connection_attempts EXCEPT ![p] = None]
    /\ connected_peers' = [connected_peers EXCEPT ![p] = None]
    /\ population'.ongoing =
          IF p \in Tried THEN saturating_sub(population.ongoing, 1) ELSE population.ongoing
    /\ population'.connected =
          IF p \in Tried THEN population.connected ELSE saturating_sub(population.connected, 1)
    /\ \A o \in OverlayAddress :
          overlay_peers'[o] = IF overlay_peers[o] = p THEN None ELSE overlay_peers[o]
    /\ \E known \in {known_peers[p], None} : known_peers' = [known_peers EXCEPT ![p] = known]
    /\ \/ Rests' = Rests
       \/ \E item \in PeerDialInstruction :
             item.peer = p /\ item.generation = generation /\ Rests' = Rests \cup {item}
    /\ UNCHANGED <<generation, bootnodes>>
    /\ \/ p \in Resting' \/ rejected_duplicate_peers'[p] # None
       \/ \E c \in To(p) : link[c] = "failed"

Moves ==
    \/ PeersStay
    \/ \E item \in PeerDialInstruction : Recovers(item) \/ Retries(item)
    \/ \E p \in Peer : Leaves(p)
    \/ \E p \in Peer, i \in Attempt : Publishes(p, i) \/ Promotes(p, i)

-----------------------------------------------------------------------------
(* Every such step keeps the invariant.                                    *)

LEMMA BusyFacts ==
    ASSUME TypeOK
    PROVE  /\ IsFiniteSet(Tried) /\ Cardinality(Tried) \in Nat
           /\ IsFiniteSet(Promoted) /\ Cardinality(Promoted) \in Nat
           /\ Tried \cap Promoted = {}
  <1>1. Tried \in SUBSET Peer /\ Promoted \in SUBSET Peer /\ Tried \cap Promoted = {}
    BY DEF Tried, Promoted
  <1> QED  BY <1>1, FS_Subset, FS_CardinalityType, LifecycleAssumption

LEMMA NoneFacts ==
    /\ None \notin Peer /\ None \notin Connection /\ None \notin Attempt
    /\ \A g \in Generation : g # None
  BY LifecycleAssumption DEF Generation

\* The counters follow the sets they count.
LEMMA Counted ==
    ASSUME TypeOK, PopulationExact,
           NEW tried, NEW promoted, tried = Tried', promoted = Promoted',
           NEW p,
           \/ tried = Tried /\ promoted = Promoted /\ population' = population
           \/ /\ p \notin Tried /\ tried = Tried \cup {p} /\ promoted = Promoted
              /\ population'.ongoing = population.ongoing + 1
              /\ population'.connected = population.connected
           \/ /\ p \in Tried /\ tried = Tried \ {p}
              /\ population'.ongoing = saturating_sub(population.ongoing, 1)
              /\ \/ /\ promoted = Promoted
                    /\ population'.connected = population.connected
                 \/ /\ p \notin Promoted /\ promoted = Promoted \cup {p}
                    /\ population'.connected = population.connected + 1
           \/ /\ tried = Tried /\ population'.ongoing = population.ongoing
              /\ p \in Promoted /\ promoted = Promoted \ {p}
              /\ population'.connected = saturating_sub(population.connected, 1)
    PROVE  PopulationExact'
  <1>1. /\ IsFiniteSet(Tried) /\ Cardinality(Tried) \in Nat
        /\ IsFiniteSet(Promoted) /\ Cardinality(Promoted) \in Nat
    BY BusyFacts
  <1>2. /\ p \notin Tried => Cardinality(Tried \cup {p}) = Cardinality(Tried) + 1
        /\ p \notin Promoted => Cardinality(Promoted \cup {p}) = Cardinality(Promoted) + 1
    BY <1>1, FS_AddElement
  <1>3. /\ p \in Tried => Cardinality(Tried \ {p}) = Cardinality(Tried) - 1
        /\ p \in Promoted => Cardinality(Promoted \ {p}) = Cardinality(Promoted) - 1
        /\ Cardinality(Tried \ {p}) \in Nat /\ Cardinality(Promoted \ {p}) \in Nat
    BY <1>1, FS_RemoveElement, FS_CardinalityType
  <1>4. population.ongoing = Cardinality(Tried) /\ population.connected = Cardinality(Promoted)
    BY DEF PopulationExact
  <1>5. population'.ongoing = Cardinality(tried) /\ population'.connected = Cardinality(promoted)
    <2>1. CASE tried = Tried /\ promoted = Promoted /\ population' = population
      BY <1>4, <2>1
    <2>2. CASE /\ p \notin Tried /\ tried = Tried \cup {p} /\ promoted = Promoted
               /\ population'.ongoing = population.ongoing + 1
               /\ population'.connected = population.connected
      BY <1>2, <1>4, <2>2
    <2>3. p \in Tried => saturating_sub(population.ongoing, 1) = Cardinality(Tried \ {p})
      BY <1>1, <1>3, <1>4 DEF saturating_sub
    <2>4. p \in Promoted => saturating_sub(population.connected, 1) = Cardinality(Promoted \ {p})
      BY <1>1, <1>3, <1>4 DEF saturating_sub
    <2>5. CASE /\ p \in Tried /\ tried = Tried \ {p}
               /\ population'.ongoing = saturating_sub(population.ongoing, 1)
               /\ \/ /\ promoted = Promoted
                     /\ population'.connected = population.connected
                  \/ /\ p \notin Promoted /\ promoted = Promoted \cup {p}
                     /\ population'.connected = population.connected + 1
      BY <1>2, <1>4, <2>3, <2>5
    <2>6. CASE /\ tried = Tried /\ population'.ongoing = population.ongoing
               /\ p \in Promoted /\ promoted = Promoted \ {p}
               /\ population'.connected = saturating_sub(population.connected, 1)
      BY <1>4, <2>4, <2>6
    <2> QED  BY <2>1, <2>2, <2>5, <2>6
  <1> QED  BY <1>5 DEF PopulationExact

LEMMA StayPeers ==
    ASSUME TypeOK, PeersInv, WorkKept, PeersStay
    PROVE  PeersInv' /\ Tried' = Tried /\ Promoted' = Promoted
  <1>1. Tried' = Tried /\ Promoted' = Promoted
    BY DEF PeersStay, Tried, Promoted
  <1>2. OwnersInv'
    BY DEF PeersInv, OwnersInv, PeersStay, WorkKept
  <1>3. RestsInv' /\ KnownInv'
    BY <1>1 DEF PeersInv, RestsInv, KnownInv, PeersStay, Busy
  <1>4. SelectableIsPromoted'
    BY <1>1 DEF PeersInv, SelectableIsPromoted, PeersStay
  <1>5. PopulationExact'
    BY <1>1 DEF PeersInv, PopulationExact, PeersStay
  <1> QED  BY <1>1, <1>2, <1>3, <1>4, <1>5 DEF PeersInv

LEMMA RecoversPeers ==
    ASSUME TypeOK, PeersInv, WorkKept, NEW item \in PeerDialInstruction, Recovers(item)
    PROVE  PeersInv' /\ Tried' = Tried /\ Promoted' = Promoted
  <1>1. Tried' = Tried /\ Promoted' = Promoted
    BY DEF Recovers, Tried, Promoted
  <1>2. OwnersInv'
    BY DEF PeersInv, OwnersInv, Recovers, WorkKept
  <1>3. RestsInv' /\ KnownInv'
    <2>1. Rests' \subseteq Rests
      BY DEF Recovers
    <2> QED  BY <1>1, <2>1 DEF PeersInv, RestsInv, KnownInv, Recovers, Busy
  <1>4. SelectableIsPromoted'
    BY <1>1 DEF PeersInv, SelectableIsPromoted, Recovers
  <1>5. PopulationExact'
    BY <1>1 DEF PeersInv, PopulationExact, Recovers
  <1> QED  BY <1>1, <1>2, <1>3, <1>4, <1>5 DEF PeersInv

LEMMA RetriesPeers ==
    ASSUME TypeOK, PeersInv, WorkKept, NEW item \in PeerDialInstruction, Retries(item)
    PROVE  PeersInv' /\ Tried' = Tried /\ Promoted' = Promoted
  <1>1. Tried' = Tried /\ Promoted' = Promoted
    BY DEF Retries, Tried, Promoted
  <1>2. OwnersInv'
    BY DEF PeersInv, OwnersInv, Retries, WorkKept
  <1>3. RestsInv'
    <2>1. item.peer \in Peer /\ item.peer \notin Busy
      BY DEF Retries, Unbusy, Busy, Tried, Promoted, PeerDialInstruction
    <2> QED  BY <1>1, <2>1 DEF PeersInv, RestsInv, Retries, Unbusy, Busy
  <1>4. KnownInv'
    <2>1. item.peer \notin Busy
      BY DEF Retries, Unbusy, Busy, Tried, Promoted
    <2> QED  BY <1>1, <2>1 DEF PeersInv, KnownInv, Retries, Busy, TypeOK
  <1>5. SelectableIsPromoted'
    BY <1>1 DEF PeersInv, SelectableIsPromoted, Retries
  <1>6. PopulationExact'
    BY <1>1 DEF PeersInv, PopulationExact, Retries
  <1> QED  BY <1>1, <1>2, <1>3, <1>4, <1>5, <1>6 DEF PeersInv

LEMMA MarksPeers ==
    ASSUME TypeOK, PeersInv, NEW p \in Peer, NEW i \in Attempt, Marks(p, i)
    PROVE  PeersInv' /\ Tried' = Tried \cup {p} /\ Promoted' = Promoted /\ p \notin Busy
  <1>1. /\ connection_attempts' = [connection_attempts EXCEPT ![p] = i]
        /\ connection_attempts \in [Peer -> Attempt \cup {None}]
        /\ connected_peers' = connected_peers /\ connected_peers[p] = None
        /\ connection_attempts[p] = None
    BY DEF Marks, Unbusy, TypeOK
  <1>2. Tried' = Tried \cup {p} /\ Promoted' = Promoted /\ p \notin Busy
    BY <1>1, NoneFacts DEF Tried, Promoted, Busy
  <1>3. OwnersInv'
    <2> SUFFICES ASSUME NEW q \in Peer, NEW j \in Attempt
                 PROVE  /\ connection_attempts'[q] = j \/ connected_peers'[q] = j =>
                              /\ work'[j].step # "unused"
                              /\ work'[j].peer = q /\ work'[j].generation = generation'
                        /\ connected_peers'[q] = j =>
                              /\ connection_attempts'[q] \in {None, j}
                              /\ work'[j].step \in {"pricing", "done"}
      BY DEF OwnersInv
    <2>1. connection_attempts[q] # i /\ connected_peers[q] # i
      BY DEF PeersInv, OwnersInv, Marks
    <2>2. generation' = generation /\ \A k \in Attempt \ {i} : work'[k] = work[k]
      BY DEF Marks
    <2>3. CASE j = i
      BY <1>1, <2>1, <2>2, <2>3 DEF Marks
    <2>4. CASE j # i
      <3>1. work'[j] = work[j]
        BY <2>2, <2>4
      <3>2. connection_attempts'[q] = j => connection_attempts[q] = j
        BY <1>1, <2>4
      <3>3. connected_peers[q] = j => q # p
        BY <1>1, NoneFacts
      <3>4. q # p => connection_attempts'[q] = connection_attempts[q]
        BY <1>1
      <3> QED  BY <1>1, <2>2, <3>1, <3>2, <3>3, <3>4 DEF PeersInv, OwnersInv
    <2> QED  BY <2>3, <2>4
  <1>4. RestsInv'
    BY <1>2 DEF PeersInv, RestsInv, Marks, Unbusy, Busy
  <1>5. KnownInv'
    BY <1>2 DEF PeersInv, KnownInv, Marks, Busy, TypeOK
  <1>6. SelectableIsPromoted'
    BY <1>2 DEF PeersInv, SelectableIsPromoted, Marks
  <1>7. PopulationExact'
    BY <1>2, Counted DEF PeersInv, Marks, Busy
  <1> QED  BY <1>2, <1>3, <1>4, <1>5, <1>6, <1>7 DEF PeersInv

\* An attempt that is over: the file of p is that of i, whoever else works.
LEMMA FileOwners ==
    ASSUME TypeOK, PeersInv, WorkKept, NEW p \in Peer, NEW i \in Attempt,
           connection_attempts[p] = i, connected_peers' = [connected_peers EXCEPT ![p] = i],
           work'[i].step \in {"pricing", "done"}, generation' = generation,
           \/ connection_attempts' = connection_attempts
           \/ connection_attempts' = [connection_attempts EXCEPT ![p] = None]
    PROVE  OwnersInv'
  <1>1. /\ connection_attempts \in [Peer -> Attempt \cup {None}]
        /\ connected_peers \in [Peer -> Attempt \cup {None}]
    BY DEF TypeOK
  <1> SUFFICES ASSUME NEW q \in Peer, NEW j \in Attempt
               PROVE  /\ connection_attempts'[q] = j \/ connected_peers'[q] = j =>
                            /\ work'[j].step # "unused"
                            /\ work'[j].peer = q /\ work'[j].generation = generation'
                      /\ connected_peers'[q] = j =>
                            /\ connection_attempts'[q] \in {None, j}
                            /\ work'[j].step \in {"pricing", "done"}
    BY DEF OwnersInv
  <1>2. CASE q = p
    <2>1. /\ connected_peers'[p] = i /\ connection_attempts'[p] \in {None, i}
      BY <1>1
    <2>2. work[i].step # "unused" /\ work[i].peer = p /\ work[i].generation = generation
      BY DEF PeersInv, OwnersInv
    <2> QED  BY <1>2, <2>1, <2>2, NoneFacts DEF WorkKept
  <1>3. CASE q # p
    <2>1. connected_peers'[q] = connected_peers[q] /\ connection_attempts'[q] = connection_attempts[q]
      BY <1>1, <1>3
    <2> QED  BY <2>1 DEF PeersInv, OwnersInv, WorkKept
  <1> QED  BY <1>2, <1>3

LEMMA PublishesPeers ==
    ASSUME TypeOK, PeersInv, WorkKept, NEW p \in Peer, NEW i \in Attempt, Publishes(p, i)
    PROVE  PeersInv' /\ Tried' = Tried /\ Promoted' = Promoted
  <1>1. /\ connected_peers' = [connected_peers EXCEPT ![p] = i] /\ connection_attempts[p] = i
        /\ connected_peers \in [Peer -> Attempt \cup {None}]
        /\ connection_attempts' = connection_attempts
    BY DEF Publishes, TypeOK
  <1>2. Tried' = Tried /\ Promoted' = Promoted
    BY <1>1, NoneFacts DEF Tried, Promoted
  <1>3. OwnersInv'
    BY FileOwners DEF Publishes
  <1>4. RestsInv' /\ KnownInv'
    BY <1>2 DEF PeersInv, RestsInv, KnownInv, Publishes, Busy
  <1>5. SelectableIsPromoted'
    BY <1>2 DEF PeersInv, SelectableIsPromoted, Publishes
  <1>6. PopulationExact'
    BY <1>2 DEF PeersInv, PopulationExact, Publishes
  <1> QED  BY <1>2, <1>3, <1>4, <1>5, <1>6 DEF PeersInv

LEMMA PromotesPeers ==
    ASSUME TypeOK, PeersInv, WorkKept, NEW p \in Peer, NEW i \in Attempt, Promotes(p, i)
    PROVE  /\ PeersInv' /\ p \in Tried
           /\ Tried' = Tried \ {p} /\ Promoted' = Promoted \cup {p}
  <1>1. /\ connected_peers' = [connected_peers EXCEPT ![p] = i] /\ connection_attempts[p] = i
        /\ connected_peers \in [Peer -> Attempt \cup {None}]
        /\ connection_attempts \in [Peer -> Attempt \cup {None}]
        /\ connection_attempts' = [connection_attempts EXCEPT ![p] = None]
    BY DEF Promotes, TypeOK
  <1>2. p \in Tried /\ p \notin Promoted /\ Tried' = Tried \ {p} /\ Promoted' = Promoted \cup {p}
    BY <1>1, NoneFacts DEF Tried, Promoted
  <1>3. OwnersInv'
    BY FileOwners DEF Promotes
  <1>4. RestsInv' /\ KnownInv'
    <2>1. (Tried \cup Promoted)' = Tried \cup Promoted
      BY <1>2
    <2> QED  BY <2>1 DEF PeersInv, RestsInv, KnownInv, Promotes, Busy
  <1>5. SelectableIsPromoted'
    <2>1. /\ \A o \in OverlayAddress : overlay_peers[o] # p
          /\ Overlay[p] \in OverlayAddress /\ overlay_peers \in [OverlayAddress -> Peer \cup {None}]
      BY <1>2, NoneFacts DEF PeersInv, SelectableIsPromoted, OverlayAddress, TypeOK
    <2>2. CASE p \in bootnodes /\ overlay_peers' = overlay_peers
      BY <1>2, <2>2 DEF PeersInv, SelectableIsPromoted, Promotes
    <2>3. CASE /\ overlay_peers[Overlay[p]] = None
               /\ overlay_peers' = [overlay_peers EXCEPT ![Overlay[p]] = p]
      <3>1. \A q \in Promoted' : overlay_peers'[Overlay[q]] = q \/ q \in bootnodes
        <4> TAKE q \in Promoted'
        <4>1. CASE q = p
          BY <2>1, <2>3, <4>1
        <4>2. CASE q # p
          <5>1. q \in Promoted /\ q \in Peer /\ Overlay[q] \in OverlayAddress
            BY <1>2, <4>2 DEF Promoted, OverlayAddress
          <5>2. overlay_peers[Overlay[q]] = q \/ q \in bootnodes
            BY <5>1 DEF PeersInv, SelectableIsPromoted
          <5> QED  BY <2>1, <2>3, <5>1, <5>2, NoneFacts
        <4> QED  BY <4>1, <4>2
      <3>2. ASSUME NEW o \in OverlayAddress, overlay_peers'[o] # None
            PROVE  overlay_peers'[o] \in Promoted' /\ Overlay[overlay_peers'[o]] = o
        <4>1. CASE o = Overlay[p]
          BY <1>2, <2>1, <2>3, <4>1
        <4>2. CASE o # Overlay[p]
          <5>1. overlay_peers'[o] = overlay_peers[o]
            BY <2>1, <2>3, <4>2
          <5> QED  BY <1>2, <3>2, <5>1 DEF PeersInv, SelectableIsPromoted
        <4> QED  BY <4>1, <4>2
      <3> QED  BY <3>1, <3>2 DEF SelectableIsPromoted, Promotes
    <2> QED  BY <2>2, <2>3 DEF Promotes
  <1>6. PopulationExact'
    BY <1>2, Counted DEF PeersInv, Promotes
  <1> QED  BY <1>2, <1>3, <1>4, <1>5, <1>6 DEF PeersInv

LEMMA LeavesPeers ==
    ASSUME TypeOK, PeersInv, WorkKept, NEW p \in Peer, Leaves(p)
    PROVE  PeersInv' /\ Tried' = Tried \ {p} /\ Promoted' = Promoted \ {p}
  <1>1. /\ connected_peers' = [connected_peers EXCEPT ![p] = None]
        /\ connected_peers \in [Peer -> Attempt \cup {None}]
        /\ connection_attempts \in [Peer -> Attempt \cup {None}]
        /\ connection_attempts' = [connection_attempts EXCEPT ![p] = None]
        /\ generation' = generation
    BY DEF Leaves, TypeOK
  <1>2. Tried' = Tried \ {p} /\ Promoted' = Promoted \ {p} /\ Tried \cap Promoted = {}
    BY <1>1 DEF Tried, Promoted
  <1>3. OwnersInv'
    <2>1. ASSUME NEW q \in Peer, q # p
          PROVE  connected_peers'[q] = connected_peers[q] /\ connection_attempts'[q] = connection_attempts[q]
      BY <1>1, <2>1
    <2>2. connected_peers'[p] = None /\ connection_attempts'[p] = None
      BY <1>1
    <2> QED  BY <1>1, <2>1, <2>2, NoneFacts DEF PeersInv, OwnersInv, WorkKept
  <1>4. RestsInv'
    <2>1. \A item \in Rests : item.peer # p
      BY DEF PeersInv, RestsInv, Leaves
    <2>2. p \notin Busy' /\ Busy' \subseteq Busy
      BY <1>2 DEF Busy
    <2>3. CASE Rests' = Rests
      BY <1>1, <2>2, <2>3 DEF PeersInv, RestsInv
    <2>4. ASSUME NEW item, item.peer = p, item.generation = generation, Rests' = Rests \cup {item}
          PROVE  RestsInv'
      BY <1>1, <2>1, <2>2, <2>4 DEF PeersInv, RestsInv
    <2> QED  BY <2>3, <2>4 DEF Leaves
  <1>5. KnownInv'
    <2>1. PICK known \in {known_peers[p], None} : known_peers' = [known_peers EXCEPT ![p] = known]
      BY DEF Leaves
    <2>2. known_peers \in [Peer -> Generation \cup {None}]
      BY DEF TypeOK
    <2> QED  BY <1>1, <1>2, <2>1, <2>2 DEF PeersInv, KnownInv, Busy
  <1>6. SelectableIsPromoted'
    <2>1. \A o \in OverlayAddress :
             overlay_peers'[o] = IF overlay_peers[o] = p THEN None ELSE overlay_peers[o]
      BY DEF Leaves
    <2>2. bootnodes' = bootnodes /\ \A q \in Peer : Overlay[q] \in OverlayAddress
      BY DEF Leaves, OverlayAddress
    <2>3. \A q \in Promoted' : q \in Promoted /\ q # p /\ q \in Peer
      BY <1>2 DEF Promoted
    <2>4. \A q \in Promoted' : overlay_peers'[Overlay[q]] = q \/ q \in bootnodes'
      BY <2>1, <2>2, <2>3 DEF PeersInv, SelectableIsPromoted
    <2>5. \A o \in OverlayAddress : overlay_peers'[o] # None =>
             overlay_peers'[o] \in Promoted' /\ Overlay[overlay_peers'[o]] = o
      BY <1>2, <2>1 DEF PeersInv, SelectableIsPromoted
    <2> QED  BY <2>4, <2>5 DEF SelectableIsPromoted
  <1>7. PopulationExact'
    <2>1. CASE p \in Tried
      <3>1. Promoted' = Promoted
        BY <1>2, <2>1
      <3> QED  BY <1>2, <2>1, <3>1, Counted DEF PeersInv, Leaves
    <2>2. CASE p \notin Tried
      <3>1. Tried' = Tried /\ p \in Promoted
        BY <1>2, <2>2 DEF Leaves, Busy
      <3> QED  BY <1>2, <2>2, <3>1, Counted DEF PeersInv, Leaves
    <2> QED  BY <2>1, <2>2
  <1> QED  BY <1>2, <1>3, <1>4, <1>5, <1>6, <1>7 DEF PeersInv

\* The sessions there are go on: none is new and none is over another
\* connection than it was.
FilesKept ==
    \A p \in Peer : connected_peers'[p] # None =>
        /\ connected_peers'[p] = connected_peers[p]
        /\ work'[connected_peers[p]].connection = work[connected_peers[p]].connection

LEMMA OwnerFacts ==
    ASSUME TypeOK, WorkInv, OwnersInv, NEW p \in Peer
    PROVE  /\ connected_peers[p] # None =>
                 /\ connected_peers[p] \in Attempt
                 /\ ConnectionOf(connected_peers[p]) = work[connected_peers[p]].connection
                 /\ ConnectionOf(connected_peers[p]) \in Connection
                 /\ Of[ConnectionOf(connected_peers[p])] = p
           /\ connection_attempts[p] # None =>
                 /\ connection_attempts[p] \in Attempt
                 /\ AttemptConnection(p) = work[connection_attempts[p]].connection
                 /\ AttemptConnection(p) \in Connection
                 /\ Of[AttemptConnection(p)] = p
           /\ connection_attempts[p] = None => AttemptConnection(p) = None
  <1>1. connected_peers[p] \in Attempt \cup {None} /\ connection_attempts[p] \in Attempt \cup {None}
    BY DEF TypeOK
  <1>2. \A i \in Attempt : connection_attempts[p] = i \/ connected_peers[p] = i =>
           work[i].connection \in Connection /\ Of[work[i].connection] = p
    BY DEF OwnersInv, WorkInv
  <1> QED  BY <1>1, <1>2 DEF ConnectionOf, AttemptConnection

LEMMA LinksKeptFacts ==
    ASSUME LinksInv, LinksKept, NEW p \in Peer, connected_peers'[p] # None,
           connected_peers[p] # None, NEW c \in Connection, c = ConnectionOf(connected_peers[p])
    PROVE  link'[c] \in {"up", "closing", "closed"}
  BY DEF LinksInv, LinksKept

LEMMA KeptSessions ==
    ASSUME TypeOK, WorkInv, OwnersInv, SessionsInv, LinksKept, FilesKept,
           Promoted' \subseteq Promoted
    PROVE  SessionsInv'
  <1>1. ASSUME NEW p \in Peer, connected_peers'[p] # None
        PROVE  /\ connected_peers[p] # None
               /\ ConnectionOf(connected_peers[p])' = ConnectionOf(connected_peers[p])
    BY <1>1 DEF FilesKept, ConnectionOf
  <1>2. ASSUME NEW p \in Peer, connected_peers'[p] # None
        PROVE  link'[ConnectionOf(connected_peers[p])'] \in {"up", "closing", "closed"}
    <2>1. PICK c \in Connection : c = ConnectionOf(connected_peers[p])
      BY <1>1, <1>2, OwnerFacts
    <2> QED  BY <1>1, <1>2, <2>1, LinksKeptFacts DEF SessionsInv
  <1>3. LinksInv'
    BY <1>2 DEF LinksInv, LinksKept
  <1>4. OneConnectionInUse'
    <2> SUFFICES ASSUME NEW c \in Connection, link'[c] = "up", c \notin unseen', Of[c] \in Promoted'
                 PROVE  c = ConnectionOf(connected_peers[Of[c]])'
      BY DEF OneConnectionInUse
    <2>1. Of[c] \in Promoted /\ Of[c] \in Peer /\ connected_peers'[Of[c]] # None
      BY DEF Promoted
    <2>2. \/ link[c] = "up" /\ c \notin unseen
          \/ c = ConnectionOf(connected_peers[Of[c]])
      BY <2>1 DEF LinksKept
    <2>3. c = ConnectionOf(connected_peers[Of[c]])
      BY <2>1, <2>2 DEF SessionsInv, OneConnectionInUse
    <2> QED  BY <1>1, <2>1, <2>3
  <1> QED  BY <1>3, <1>4 DEF SessionsInv

LEMMA PublishesSessions ==
    ASSUME TypeOK, WorkInv, OwnersInv, SessionsInv, WorkKept, LinksKept,
           NEW p \in Peer, NEW i \in Attempt, Publishes(p, i)
    PROVE  SessionsInv'
  <1>1. /\ connected_peers' = [connected_peers EXCEPT ![p] = i] /\ connection_attempts[p] = i
        /\ connected_peers \in [Peer -> Attempt \cup {None}]
        /\ connection_attempts' = connection_attempts
        /\ work'[i].connection = work[i].connection
        /\ link'[work[i].connection] \in {"up", "closing"}
    BY DEF Publishes, TypeOK, WorkKept
  <1>2. ASSUME NEW q \in Peer, q # p, connected_peers'[q] # None
        PROVE  /\ connected_peers[q] # None
               /\ ConnectionOf(connected_peers[q])' = ConnectionOf(connected_peers[q])
    <2>1. connected_peers'[q] = connected_peers[q] /\ connected_peers[q] \in Attempt
      BY <1>1, <1>2
    <2> QED  BY <1>2, <2>1 DEF WorkKept, ConnectionOf
  <1>3. ConnectionOf(connected_peers[p])' = work[i].connection
    BY <1>1, NoneFacts DEF ConnectionOf
  <1>4. ASSUME NEW q \in Peer, connected_peers'[q] # None
        PROVE  link'[ConnectionOf(connected_peers[q])'] \in {"up", "closing", "closed"}
    <2>1. CASE q = p
      BY <1>1, <1>3, <2>1
    <2>2. CASE q # p
      <3>1. PICK c \in Connection : c = ConnectionOf(connected_peers[q])
        BY <1>2, <1>4, <2>2, OwnerFacts
      <3> QED  BY <1>2, <1>4, <2>2, <3>1, LinksKeptFacts DEF SessionsInv
    <2> QED  BY <2>1, <2>2
  <1>5. LinksInv'
    BY <1>4 DEF LinksInv, LinksKept
  <1>6. OneConnectionInUse'
    <2> SUFFICES ASSUME NEW c \in Connection, link'[c] = "up", c \notin unseen', Of[c] \in Promoted'
                 PROVE  c = ConnectionOf(connected_peers[Of[c]])'
      BY DEF OneConnectionInUse
    <2>1. Of[c] # p /\ Of[c] \in Promoted /\ Of[c] \in Peer /\ connected_peers'[Of[c]] # None
      BY <1>1, NoneFacts DEF Promoted
    <2>2. \/ link[c] = "up" /\ c \notin unseen
          \/ c = ConnectionOf(connected_peers[Of[c]])
      BY <2>1 DEF LinksKept
    <2>3. c = ConnectionOf(connected_peers[Of[c]])
      BY <2>1, <2>2 DEF SessionsInv, OneConnectionInUse
    <2> QED  BY <1>2, <2>1, <2>3
  <1> QED  BY <1>5, <1>6 DEF SessionsInv

LEMMA PromotesSessions ==
    ASSUME TypeOK, WorkInv, OwnersInv, SessionsInv, WorkKept,
           NEW p \in Peer, NEW i \in Attempt, Promotes(p, i)
    PROVE  SessionsInv'
  <1>1. /\ connected_peers' = [connected_peers EXCEPT ![p] = i] /\ connection_attempts[p] = i
        /\ connected_peers \in [Peer -> Attempt \cup {None}]
        /\ connection_attempts \in [Peer -> Attempt \cup {None}]
        /\ connection_attempts' = [connection_attempts EXCEPT ![p] = None]
        /\ work'[i].connection = work[i].connection
        /\ link' = link /\ physical_connections' = physical_connections /\ unseen' = unseen
        /\ exclusive_physical_connection(work[i].connection)
    BY DEF Promotes, TypeOK, WorkKept
  <1>2. ASSUME NEW q \in Peer, q # p, connected_peers'[q] # None
        PROVE  /\ connected_peers[q] # None
               /\ ConnectionOf(connected_peers[q])' = ConnectionOf(connected_peers[q])
    <2>1. connected_peers'[q] = connected_peers[q] /\ connected_peers[q] \in Attempt
      BY <1>1, <1>2
    <2> QED  BY <1>2, <2>1 DEF WorkKept, ConnectionOf
  <1>3. ConnectionOf(connected_peers[p])' = work[i].connection
    BY <1>1, NoneFacts DEF ConnectionOf
  <1>4. work[i].connection \in Connection /\ Of[work[i].connection] = p
    BY <1>1, NoneFacts DEF OwnersInv, WorkInv
  <1>5. \A c \in Connection : c \in physical_connections /\ Of[c] = p <=> c = work[i].connection
    BY <1>1, <1>4 DEF exclusive_physical_connection, To, TypeOK
  <1>6. LinksInv'
    <2>1. link[work[i].connection] \in {"up", "closing"}
      BY <1>4, <1>5 DEF SessionsInv, LinksInv
    <2>2. ASSUME NEW q \in Peer, connected_peers'[q] # None
          PROVE  link[ConnectionOf(connected_peers[q])'] \in {"up", "closing", "closed"}
      BY <1>2, <1>3, <2>1, <2>2 DEF SessionsInv, LinksInv
    <2> QED  BY <1>1, <2>2 DEF SessionsInv, LinksInv
  <1>7. OneConnectionInUse'
    <2> SUFFICES ASSUME NEW c \in Connection, link[c] = "up", c \notin unseen, Of[c] \in Promoted'
                 PROVE  c = ConnectionOf(connected_peers[Of[c]])'
      BY <1>1 DEF OneConnectionInUse
    <2>1. c \in physical_connections
      BY DEF SessionsInv, LinksInv
    <2>2. CASE Of[c] = p
      BY <1>3, <1>5, <2>1, <2>2
    <2>3. CASE Of[c] # p
      <3>1. Of[c] \in Promoted /\ Of[c] \in Peer /\ connected_peers'[Of[c]] # None
        BY <1>1, <2>3 DEF Promoted
      <3> QED  BY <1>2, <2>3, <3>1 DEF SessionsInv, OneConnectionInUse
    <2> QED  BY <2>2, <2>3
  <1> QED  BY <1>6, <1>7 DEF SessionsInv

-----------------------------------------------------------------------------
(* One step of the lifecycle within a network.                             *)

LEMMA MovesKeep ==
    ASSUME TypeOK, LifecycleInv, WorkKept, LinksKept, Moves
    PROVE  LifecycleInv'
  <1>1. WorkInv'
    BY DEF LifecycleInv, WorkInv, WorkKept
  <1>2. ASSUME \A p \in Peer : connected_peers'[p] \in {connected_peers[p], None}
        PROVE  FilesKept
    BY <1>2 DEF FilesKept, WorkKept, TypeOK
  <1>3. CASE PeersStay
    BY <1>1, <1>2, <1>3, StayPeers, KeptSessions DEF LifecycleInv, PeersInv, PeersStay
  <1>4. ASSUME NEW item \in PeerDialInstruction, Recovers(item)
        PROVE  LifecycleInv'
    BY <1>1, <1>2, <1>4, RecoversPeers, KeptSessions DEF LifecycleInv, PeersInv, Recovers
  <1>5. ASSUME NEW item \in PeerDialInstruction, Retries(item)
        PROVE  LifecycleInv'
    BY <1>1, <1>2, <1>5, RetriesPeers, KeptSessions DEF LifecycleInv, PeersInv, Retries
  <1>6. ASSUME NEW p \in Peer, Leaves(p)
        PROVE  LifecycleInv'
    <2>1. PeersInv' /\ Promoted' \subseteq Promoted
      BY <1>6, LeavesPeers DEF LifecycleInv
    <2>2. FilesKept
      BY <1>2, <1>6 DEF Leaves, TypeOK
    <2> QED  BY <1>1, <2>1, <2>2, KeptSessions DEF LifecycleInv, PeersInv
  <1>7. ASSUME NEW p \in Peer, NEW i \in Attempt, Publishes(p, i)
        PROVE  LifecycleInv'
    BY <1>1, <1>7, PublishesPeers, PublishesSessions DEF LifecycleInv, PeersInv
  <1>8. ASSUME NEW p \in Peer, NEW i \in Attempt, Promotes(p, i)
        PROVE  LifecycleInv'
    BY <1>1, <1>8, PromotesPeers, PromotesSessions DEF LifecycleInv, PeersInv
  <1> QED  BY <1>3, <1>4, <1>5, <1>6, <1>7, <1>8 DEF Moves

LEMMA MarksKeep ==
    ASSUME TypeOK, LifecycleInv, LinksKept, NEW p \in Peer, NEW i \in Attempt, Marks(p, i)
    PROVE  LifecycleInv'
  <1>1. WorkInv'
    BY DEF LifecycleInv, WorkInv, Marks
  <1>2. PeersInv' /\ Promoted' = Promoted
    BY MarksPeers DEF LifecycleInv
  <1>3. FilesKept
    <2>1. connected_peers' = connected_peers /\ work[i].step = "unused"
          /\ \A j \in Attempt \ {i} : work'[j] = work[j]
      BY DEF Marks
    <2>2. \A q \in Peer : connected_peers[q] # None =>
             connected_peers[q] \in Attempt /\ work[connected_peers[q]].step # "unused"
      BY DEF LifecycleInv, PeersInv, OwnersInv, TypeOK
    <2> QED  BY <2>1, <2>2 DEF FilesKept
  <1> QED  BY <1>1, <1>2, <1>3, KeptSessions DEF LifecycleInv, PeersInv

-----------------------------------------------------------------------------
(* What such a step is for PeerPopulation, and for who is remembered.      *)

LEMMA PhaseFacts ==
    ASSUME TypeOK, LifecycleInv
    PROVE  /\ Resting = {item.peer : item \in Rests}
           /\ \A p \in Peer :
                 /\ Phase[p] \in {"tried", "connected", "resting", "free"}
                 /\ Phase[p] = "tried" <=> p \in Tried
                 /\ Phase[p] = "connected" <=> p \in Promoted
                 /\ Phase[p] = "resting" <=> p \in Resting
           /\ Tried \cap Promoted = {} /\ Resting \cap Busy = {}
  <1>1. Resting = {item.peer : item \in Rests}
    BY DEF Resting, Rests
  <1>2. Tried \cap Promoted = {}
    BY DEF Tried, Promoted
  <1>3. Resting \cap Busy = {}
    BY <1>1 DEF LifecycleInv, PeersInv, RestsInv
  <1>4. ASSUME NEW p \in Peer
        PROVE  /\ Phase[p] \in {"tried", "connected", "resting", "free"}
               /\ Phase[p] = "tried" <=> p \in Tried
               /\ Phase[p] = "connected" <=> p \in Promoted
               /\ Phase[p] = "resting" <=> p \in Resting
    BY <1>2, <1>3 DEF Phase, Busy
  <1> QED  BY <1>1, <1>2, <1>3, <1>4

LEMMA OthersStay ==
    ASSUME NEW p \in Peer, NEW to, Phase'[p] = to,
           \A q \in Peer \ {p} : /\ q \in Tried' <=> q \in Tried
                                 /\ q \in Promoted' <=> q \in Promoted
                                 /\ q \in Resting' <=> q \in Resting
    PROVE  Phase' = [Phase EXCEPT ![p] = to]
  <1>1. \A q \in Peer \ {p} : Phase'[q] = Phase[q]
    BY DEF Phase
  <1>2. /\ Phase = [q \in Peer |-> Phase[q]]
        /\ Phase' = [q \in Peer |-> Phase'[q]]
    BY DEF Phase
  <1> QED  BY <1>1, <1>2

LEMMA SameCardinality ==
    ASSUME NEW S
    PROVE  Population!Cardinality(S) = Cardinality(S)
  BY DEF Population!Cardinality, Cardinality, Population!IsFiniteSet, IsFiniteSet

LEMMA SlotsLeft ==
    ASSUME TypeOK, LifecycleInv, CapacityAvailable
    PROVE  Cardinality(Population!Occupied) < Limit
  <1>1. Population!Occupied = Tried \cup Promoted
    <2>1. Tried \subseteq Peer /\ Promoted \subseteq Peer
      BY DEF Tried, Promoted
    <2> QED  BY <2>1, PhaseFacts DEF Population!Occupied
  <1>2. Cardinality(Tried \cup Promoted) = Cardinality(Tried) + Cardinality(Promoted)
    <2>1. /\ IsFiniteSet(Tried) /\ IsFiniteSet(Promoted) /\ Tried \cap Promoted = {}
          /\ Cardinality(Tried) \in Nat /\ Cardinality(Promoted) \in Nat
      BY BusyFacts
    <2>2. Cardinality(Tried \cup Promoted)
             = Cardinality(Tried) + Cardinality(Promoted) - Cardinality(Tried \cap Promoted)
      BY <2>1, FS_Union
    <2>3. Cardinality(Tried \cap Promoted) = 0
      BY <2>1, FS_EmptySet
    <2> QED  BY <2>1, <2>2, <2>3
  <1>3. Cardinality(Tried) + Cardinality(Promoted) < Limit
    BY BusyFacts DEF CapacityAvailable, LifecycleInv, PeersInv, PopulationExact
  <1> QED  BY <1>1, <1>2, <1>3

\* The same, for the peers of the step's end.
LEMMA NextPhase ==
    ASSUME TypeOK', LifecycleInv', NEW p \in Peer
    PROVE  /\ p \in Tried' => Phase'[p] = "tried"
           /\ p \in Promoted' => Phase'[p] = "connected"
           /\ p \in Resting' => Phase'[p] = "resting"
           /\ p \notin Tried' /\ p \notin Promoted' /\ p \notin Resting' => Phase'[p] = "free"
  <1>1. Resting' = {item.peer : item \in Rests'}
    BY DEF Resting, Rests
  <1>2. Tried' \cap Promoted' = {}
    BY DEF Tried, Promoted
  <1>3. Resting' \cap Tried' = {} /\ Resting' \cap Promoted' = {}
    BY <1>1 DEF LifecycleInv, PeersInv, RestsInv, Busy
  <1> QED  BY <1>2, <1>3 DEF Phase

LEMMA MarksTries ==
    ASSUME TypeOK, LifecycleInv, NEW p \in Peer, NEW i \in Attempt, Marks(p, i), TypeOK', LifecycleInv'
    PROVE  Population!Next
  <1>1. Tried' = Tried \cup {p} /\ Promoted' = Promoted /\ p \notin Busy
    BY MarksPeers DEF LifecycleInv
  <1>2. Resting' = Resting /\ p \notin Resting
    BY DEF Marks, Unbusy, Resting, Rests
  <1>3. Phase[p] = "free"
    BY <1>1, <1>2, PhaseFacts DEF Busy
  <1>4. Phase'[p] = "tried"
    BY <1>1, NextPhase
  <1>5. Phase' = [Phase EXCEPT ![p] = "tried"]
    BY <1>1, <1>2, <1>4, OthersStay
  <1>6. Population!Try(p)
    BY <1>3, <1>5, SlotsLeft, SameCardinality DEF Population!Try, Population!Move, Marks
  <1> QED  BY <1>6 DEF Population!Next

\* What happens to the rests and to the busy, by the kind of step.
LEMMA MovesPhases ==
    ASSUME TypeOK, LifecycleInv, WorkKept, Moves, TypeOK', LifecycleInv'
    PROVE  Population!Next \/ Phase' = Phase
  <1>1. Resting = {item.peer : item \in Rests} /\ Resting' = {item.peer : item \in Rests'}
    BY DEF Resting, Rests
  <1>2. ASSUME Tried' = Tried, Promoted' = Promoted, Rests' = Rests
        PROVE  Phase' = Phase
    BY <1>1, <1>2 DEF Phase
  <1>3. CASE PeersStay
    BY <1>2, <1>3, StayPeers DEF LifecycleInv, PeersStay
  <1>4. ASSUME NEW p \in Peer, NEW i \in Attempt, Publishes(p, i)
        PROVE  Phase' = Phase
    BY <1>2, <1>4, PublishesPeers DEF LifecycleInv, Publishes
  <1>5. ASSUME NEW p \in Peer, NEW i \in Attempt, Promotes(p, i)
        PROVE  Population!Next
    <2>1. p \in Tried /\ Tried' = Tried \ {p} /\ Promoted' = Promoted \cup {p} /\ Resting' = Resting
      BY <1>1, <1>5, PromotesPeers DEF LifecycleInv, Promotes
    <2>2. Phase[p] = "tried" /\ Phase'[p] = "connected"
      BY <2>1, PhaseFacts, NextPhase
    <2>3. Phase' = [Phase EXCEPT ![p] = "connected"]
      BY <2>1, <2>2, OthersStay
    <2>4. Population!Connect(p)
      BY <2>2, <2>3 DEF Population!Connect, Population!Move
    <2> QED  BY <2>4 DEF Population!Next
  <1>6. ASSUME NEW p \in Peer, Leaves(p)
        PROVE  Population!Next
    <2>1. p \in Busy /\ Tried' = Tried \ {p} /\ Promoted' = Promoted \ {p}
      BY <1>6, LeavesPeers DEF LifecycleInv, Leaves
    <2>2. \A q \in Peer \ {p} : q \in Resting' <=> q \in Resting
      BY <1>1, <1>6 DEF Leaves
    <2>3. Phase[p] \in {"tried", "connected"}
      BY <2>1, PhaseFacts DEF Busy
    <2>4. Phase'[p] \in {"resting", "free"}
      BY <2>1, NextPhase
    <2>5. CASE Phase'[p] = "resting"
      <3>1. Population!Rest(p)
        BY <2>1, <2>2, <2>3, <2>5, OthersStay DEF Population!Rest, Population!Move
      <3> QED  BY <3>1 DEF Population!Next
    <2>6. CASE Phase'[p] = "free"
      <3>1. Population!GiveUp(p)
        BY <2>1, <2>2, <2>3, <2>6, OthersStay DEF Population!GiveUp, Population!Move
      <3> QED  BY <3>1 DEF Population!Next
    <2> QED  BY <2>4, <2>5, <2>6
  <1>7. ASSUME NEW item \in PeerDialInstruction, Retries(item)
        PROVE  Population!Next
    <2> DEFINE p == item.peer
    <2>1. p \in Peer /\ p \notin Tried /\ p \notin Promoted /\ p \notin Resting
      BY <1>1, <1>7 DEF Retries, Unbusy, Tried, Promoted, PeerDialInstruction
    <2>2. Tried' = Tried /\ Promoted' = Promoted
      BY <1>7, RetriesPeers DEF LifecycleInv
    <2>3. p \in Resting' /\ \A q \in Peer \ {p} : q \in Resting' <=> q \in Resting
      BY <1>1, <1>7 DEF Retries
    <2>4. Phase[p] = "free" /\ Phase'[p] = "resting"
      BY <2>1, <2>3, PhaseFacts, NextPhase
    <2>5. Phase' = [Phase EXCEPT ![p] = "resting"]
      BY <2>1, <2>2, <2>3, <2>4, OthersStay
    <2>6. Population!Rest(p)
      BY <2>4, <2>5 DEF Population!Rest, Population!Move
    <2> QED  BY <2>1, <2>6 DEF Population!Next
  <1>8. ASSUME NEW item \in PeerDialInstruction, Recovers(item)
        PROVE  Population!Next \/ Phase' = Phase
    <2> DEFINE p == item.peer
    <2>1. item \in Rests /\ p \in Peer /\ p \in Resting
      BY <1>1, <1>8 DEF Recovers, PeerDialInstruction
    <2>2. Tried' = Tried /\ Promoted' = Promoted
      BY <1>8, RecoversPeers DEF LifecycleInv
    <2>3. CASE Rests' = Rests
      BY <1>2, <2>2, <2>3
    <2>4. CASE Rests' = Rests \ {item}
      <3>1. \A other \in Rests : other.peer = p => other = item
        BY <2>1 DEF LifecycleInv, PeersInv, RestsInv
      <3>2. p \notin Resting' /\ p \notin Tried /\ p \notin Promoted
        BY <1>1, <2>1, <2>4, <3>1, PhaseFacts DEF Busy
      <3>3. \A q \in Peer \ {p} : q \in Resting' <=> q \in Resting
        BY <1>1, <2>4
      <3>4. Phase[p] = "resting" /\ Phase'[p] = "free"
        BY <2>1, <2>2, <3>2, PhaseFacts, NextPhase
      <3>5. Phase' = [Phase EXCEPT ![p] = "free"]
        BY <2>1, <2>2, <3>3, <3>4, OthersStay
      <3>6. Population!Recover(p)
        BY <3>4, <3>5 DEF Population!Recover, Population!Move
      <3> QED  BY <2>1, <3>6 DEF Population!Next
    <2> QED  BY <1>8, <2>3, <2>4 DEF Recovers
  <1> QED  BY <1>3, <1>4, <1>5, <1>6, <1>7, <1>8 DEF Moves

LEMMA MovesRemember ==
    ASSUME TypeOK, LifecycleInv, WorkKept, Moves,
           NEW p \in Peer, p \in Tried \cup Promoted, p \notin (Tried \cup Promoted)'
    PROVE  \/ p \in Resting' \/ rejected_duplicate_peers'[p] # None
           \/ \E c \in To(p) : link[c] = "failed"
  <1>1. CASE PeersStay
    BY <1>1, StayPeers DEF LifecycleInv
  <1>2. ASSUME NEW item \in PeerDialInstruction, Recovers(item)
        PROVE  FALSE
    BY <1>2, RecoversPeers DEF LifecycleInv
  <1>3. ASSUME NEW item \in PeerDialInstruction, Retries(item)
        PROVE  FALSE
    BY <1>3, RetriesPeers DEF LifecycleInv
  <1>4. ASSUME NEW q \in Peer, Leaves(q)
        PROVE  \/ p \in Resting' \/ rejected_duplicate_peers'[p] # None
               \/ \E c \in To(p) : link[c] = "failed"
    <2>1. p = q
      BY <1>4, LeavesPeers DEF LifecycleInv
    <2> QED  BY <1>4, <2>1 DEF Leaves
  <1>5. ASSUME NEW q \in Peer, NEW i \in Attempt, Publishes(q, i)
        PROVE  FALSE
    BY <1>5, PublishesPeers DEF LifecycleInv
  <1>6. ASSUME NEW q \in Peer, NEW i \in Attempt, Promotes(q, i)
        PROVE  FALSE
    BY <1>6, PromotesPeers DEF LifecycleInv
  <1> QED  BY <1>1, <1>2, <1>3, <1>4, <1>5, <1>6 DEF Moves

-----------------------------------------------------------------------------
(* Every handler within a network is such a step.                          *)

Within ==
    /\ LinksKept
    /\ \/ WorkKept /\ Moves
       \/ \E p \in Peer, i \in Attempt : Marks(p, i)

(* No connection opens or ends: at most it starts to close, or a dial goes *)
(* on to its end.                                                          *)
Open == {"up", "closing", "closed"}
QuietLinks ==
    /\ UNCHANGED <<physical_connections, unseen>>
    /\ \A c \in Connection :
          \/ link'[c] = link[c]
          \/ link[c] = "up" /\ link'[c] = "closing"
          \/ link[c] \notin Open /\ link'[c] \notin Open

LEMMA LinksQuiet ==
    ASSUME TypeOK, LifecycleInv, QuietLinks
    PROVE  LinksKept
  <1>1. ASSUME NEW c \in Connection
        PROVE  /\ link'[c] = "up" => link[c] = "up"
               /\ link[c] \in {"up", "closing"} => link'[c] \in {"up", "closing"}
               /\ link[c] \in {"up", "closing", "closed"} =>
                     link'[c] \in {"up", "closing", "closed"}
    BY DEF QuietLinks, Open
  <1> QED  BY <1>1 DEF LinksKept, QuietLinks, LifecycleInv, SessionsInv, LinksInv

LEMMA Disconnects ==
    ASSUME TypeOK, NEW peers, link' = disconnect_peers(peers)
    PROVE  /\ link' \in [Connection -> LinkStates]
           /\ \A c \in Connection :
                 \/ link'[c] = link[c]
                 \/ link[c] = "up" /\ link'[c] = "closing"
                 \/ link[c] \notin Open /\ link'[c] \notin Open
  <1>1. link \in [Connection -> LinkStates]
    BY DEF TypeOK
  <1>2. ASSUME NEW c \in Connection
        PROVE  \/ link'[c] = link[c]
               \/ link[c] = "up" /\ link'[c] = "closing"
               \/ link[c] = "dialing" /\ link'[c] = "aborted"
    BY DEF disconnect_peers
  <1>3. link' = [c \in Connection |-> link'[c]]
    BY DEF disconnect_peers
  <1> QED  BY <1>1, <1>2, <1>3 DEF LinkStates, Open

LEMMA ClosesConnection ==
    ASSUME TypeOK, NEW d \in Connection, link' = close_connection(d)
    PROVE  /\ link' \in [Connection -> LinkStates]
           /\ \A c \in Connection :
                 link'[c] = link[c] \/ (link[c] = "up" /\ link'[c] = "closing")
  BY DEF TypeOK, LinkStates, close_connection

LEMMA Quietly ==
    ASSUME TypeOK, LifecycleInv, QuietLinks, WorkKept, PeersStay
    PROVE  Within
  BY LinksQuiet DEF Within, Moves

LEMMA StepKeeps ==
    ASSUME TypeOK, NEW i \in Attempt, NEW step \in WorkSteps, Step(i, step),
           work[i].step # "unused", step # "unused",
           work[i].step \in {"pricing", "done"} => step \in {"pricing", "done"}
    PROVE  WorkKept /\ work' \in [Attempt -> Works] /\ work'[i].step = step
  <1>1. work \in [Attempt -> Works] /\ work' = [work EXCEPT ![i].step = step]
    BY DEF TypeOK, Step
  <1>2. \A j \in Attempt : work[j] \in Works
    BY <1>1
  <1>3. ASSUME NEW j \in Attempt
        PROVE  /\ work'[j].peer = work[j].peer /\ work'[j].connection = work[j].connection
               /\ work'[j].generation = work[j].generation
               /\ work'[j].step = IF j = i THEN step ELSE work[j].step
               /\ work'[j] \in Works
    BY <1>1, <1>2 DEF Works
  <1> QED  BY <1>1, <1>3 DEF WorkKept

(* A record of a dial whose token is taken, or whose identify failed, is   *)
(* still the record of that dial.                                          *)
LEMMA WorkForms ==
    ASSUME NEW w \in Works, NEW step \in WorkSteps
    PROVE  /\ [w EXCEPT !.identify_failed = TRUE] \in Works
           /\ [w EXCEPT !.identify_failed = TRUE].peer = w.peer
           /\ [w EXCEPT !.identify_failed = TRUE].connection = w.connection
           /\ [w EXCEPT !.identify_failed = TRUE].generation = w.generation
           /\ [w EXCEPT !.identify_failed = TRUE].step = w.step
           /\ [w EXCEPT !.ready = FALSE, !.step = step] \in Works
           /\ [w EXCEPT !.ready = FALSE, !.step = step].peer = w.peer
           /\ [w EXCEPT !.ready = FALSE, !.step = step].connection = w.connection
           /\ [w EXCEPT !.ready = FALSE, !.step = step].generation = w.generation
           /\ [w EXCEPT !.ready = FALSE, !.step = step].step = step
  <1>1. [w EXCEPT !.identify_failed = TRUE] \in Works
    BY DEF Works
  <1>2. [w EXCEPT !.ready = FALSE, !.step = step] \in Works
    BY DEF Works
  <1>3. /\ [w EXCEPT !.identify_failed = TRUE].peer = w.peer
        /\ [w EXCEPT !.identify_failed = TRUE].connection = w.connection
        /\ [w EXCEPT !.identify_failed = TRUE].generation = w.generation
        /\ [w EXCEPT !.identify_failed = TRUE].step = w.step
    BY DEF Works
  <1>4. /\ [w EXCEPT !.ready = FALSE, !.step = step].peer = w.peer
        /\ [w EXCEPT !.ready = FALSE, !.step = step].connection = w.connection
        /\ [w EXCEPT !.ready = FALSE, !.step = step].generation = w.generation
        /\ [w EXCEPT !.ready = FALSE, !.step = step].step = step
    BY DEF Works
  <1> QED  BY <1>1, <1>2, <1>3, <1>4

LEMMA TokensKeep ==
    ASSUME TypeOK, NEW c \in Connection, work' = Tokens(c)
    PROVE  WorkKept /\ work' \in [Attempt -> Works]
  <1>1. \A i \in Attempt : work[i] \in Works
    BY DEF TypeOK
  <1>2. ASSUME NEW i \in Attempt
        PROVE  /\ work'[i].peer = work[i].peer /\ work'[i].connection = work[i].connection
               /\ work'[i].generation = work[i].generation
               /\ work'[i].step = work[i].step /\ work'[i] \in Works
    BY <1>1 DEF Tokens, Works
  <1>3. work' = [i \in Attempt |-> work'[i]]
    BY DEF Tokens
  <1> QED  BY <1>2, <1>3 DEF WorkKept

LEMMA SameWork ==
    ASSUME work' = work
    PROVE  WorkKept
  BY DEF WorkKept

\* The candidates that wait or are dropped change nothing of a peer.
LEMMA CandidatesWait ==
    ASSUME TypeOK, LifecycleInv, UNCHANGED <<generation, population, transport, sessions, maps>>,
           Rests' = Rests
    PROVE  Within
  <1>1. WorkKept
    BY SameWork DEF sessions
  <1>2. QuietLinks
    BY DEF QuietLinks, transport
  <1>3. PeersStay
    BY DEF PeersStay, sessions, maps
  <1> QED  BY <1>1, <1>2, <1>3, Quietly

LEMMA RestEnds ==
    ASSUME TypeOK, LifecycleInv, UNCHANGED <<generation, population, transport, sessions, maps>>,
           NEW item \in PeerDialInstruction, item \in Rests, Rests' \in {Rests, Rests \ {item}}
    PROVE  Within
  <1>1. WorkKept
    BY SameWork DEF sessions
  <1>2. LinksKept
    BY LinksQuiet DEF QuietLinks, transport
  <1>3. Recovers(item)
    BY DEF Recovers, sessions, maps
  <1> QED  BY <1>1, <1>2, <1>3 DEF Within, Moves

LEMMA UnownedFacts ==
    ASSUME NEW p, Unowned(p)
    PROVE  Unbusy(p)
  BY DEF Unowned, Unbusy, For, Rests

\* An instruction that takes a peer with nothing under way, when there is
\* room, starts its attempt or lets it rest.
LEMMA Starts ==
    ASSUME TypeOK, LifecycleInv, NEW i \in Attempt, NEW item \in PeerDialInstruction,
           NEW known \in {generation, None}, item.generation = generation,
           Unowned(item.peer), CapacityAvailable,
           start_owned_connection_attempt(i, item, known),
           queue' \subseteq queue, bootnode_port' \subseteq bootnode_port
    PROVE  TypeOK' /\ Within
  <1>1. /\ item.peer \in Peer /\ item.bootnode \in BOOLEAN /\ item.generation \in Generation
        /\ known \in Generation \cup {None} /\ generation \in Generation
    BY DEF PeerDialInstruction, TypeOK
  <1>2. work[i] = UnusedWork /\ work[i].step = "unused"
    BY DEF start_owned_connection_attempt, UnusedWork
  <1>3. /\ UNCHANGED <<generation, physical_connections, unseen, handshake_ready_connections,
                       connected_peers, overlay_peers, accounting_peers,
                       rejected_duplicate_peers, connection_cooldowns>>
        /\ bootnodes \subseteq bootnodes' /\ bootnodes' \subseteq Peer
    BY <1>1 DEF start_owned_connection_attempt, TypeOK
  <1>4. ASSUME NEW c \in To(item.peer), Mark(i, item, c), QuietLinks,
               link' \in [Connection -> LinkStates]
        PROVE  TypeOK' /\ Within
    <2> DEFINE new == [peer |-> item.peer, connection |-> c, generation |-> item.generation,
                       bootnode |-> item.bootnode, step |-> "instructed",
                       identify_failed |-> FALSE, ready |-> FALSE]
    <2>1. c \in Connection /\ Of[c] = item.peer
      BY DEF To
    <2>2. /\ new \in Works /\ new.step = "instructed" /\ new.peer = item.peer
          /\ new.connection = c /\ new.generation = item.generation
      BY <1>1, <2>1 DEF Works, WorkSteps
    <2>3. work' = [work EXCEPT ![i] = new] /\ work \in [Attempt -> Works]
      BY <1>4 DEF Mark, TypeOK
    <2> HIDE DEF new
    <2>4. work'[i] = new /\ \A j \in Attempt \ {i} : work'[j] = work[j]
      BY <2>3
    <2>5. population'.ongoing = population.ongoing + 1 /\ population'.connected = population.connected
          /\ population' \in [connected : Nat, ongoing : Nat]
      BY <1>4 DEF Mark, TypeOK
    <2>6. /\ connection_attempts' = [connection_attempts EXCEPT ![item.peer] = i]
          /\ known_peers' = [known_peers EXCEPT ![item.peer] = generation]
          /\ delayed_peer_retries' = delayed_peer_retries
      BY <1>4 DEF Mark
    <2>7. Unbusy(item.peer)
      BY UnownedFacts
    <2>8. Marks(item.peer, i)
      BY <1>2, <1>3, <2>1, <2>2, <2>4, <2>5, <2>6, <2>7 DEF Marks, Rests
    <2>9. TypeOK'
      BY <1>1, <1>3, <1>4, <2>2, <2>3, <2>5, <2>6 DEF TypeOK
    <2> QED  BY <1>1, <1>4, <2>8, <2>9, LinksQuiet DEF Within
  <1>5. CASE \E c \in To(item.peer) : Mark(i, item, c) /\ UNCHANGED link
    <2>1. QuietLinks /\ link' \in [Connection -> LinkStates]
      BY <1>3, <1>5 DEF QuietLinks, TypeOK
    <2> QED  BY <1>4, <1>5, <2>1
  <1>6. ASSUME NEW c \in To(item.peer), link[c] = "unused", Mark(i, item, c),
               link' = [link EXCEPT ![c] = "dialing"]
        PROVE  TypeOK' /\ Within
    <2>1. c \in Connection /\ link \in [Connection -> LinkStates]
      BY DEF To, TypeOK
    <2>2. QuietLinks /\ link' \in [Connection -> LinkStates]
      BY <1>3, <1>6, <2>1 DEF QuietLinks, LinkStates, Open
    <2> QED  BY <1>4, <1>6, <2>2
  <1>7. CASE /\ delayed_peer_retries' = queue_peer_dial_retry(item)
             /\ known_peers' = [known_peers EXCEPT ![item.peer] = known]
             /\ UNCHANGED <<connection_attempts, work, population, link>>
    <2>1. Unbusy(item.peer)
      BY UnownedFacts
    <2>2. For(delayed_peer_retries, item.peer) = {}
      BY DEF Unowned
    <2>3. Rests' = Rests \cup {item} /\ delayed_peer_retries' \subseteq PeerDialInstruction
      BY <1>3, <1>7, <2>2 DEF Rests, queue_peer_dial_retry, TypeOK
    <2>4. Retries(item)
      BY <1>3, <1>7, <2>1, <2>3 DEF Retries
    <2>5. WorkKept /\ QuietLinks
      BY <1>3, <1>7, SameWork DEF QuietLinks
    <2>6. TypeOK'
      BY <1>1, <1>3, <1>7, <2>3 DEF TypeOK
    <2> QED  BY <2>4, <2>5, <2>6, LinksQuiet DEF Within, Moves
  <1> QED  BY <1>5, <1>6, <1>7 DEF start_owned_connection_attempt

LEMMA CandidatesKeep ==
    ASSUME TypeOK, LifecycleInv, Candidates
    PROVE  TypeOK' /\ Within
  <1>1. ASSUME NEW p \in Peer, NEW g \in Generation, Gossip(p, g)
        PROVE  TypeOK' /\ Within
    <2>1. [peer |-> p, bootnode |-> FALSE, generation |-> g] \in PeerDialInstruction
      BY DEF PeerDialInstruction
    <2>2. TypeOK'
      BY <1>1, <2>1 DEF Gossip, TypeOK, transport, sessions, maps
    <2> QED  BY <1>1, <2>2, CandidatesWait DEF Gossip, Rests
  <1>2. ASSUME NEW r \in Requested, connect_bootnodes_for_current_network(r[1], r[2])
        PROVE  TypeOK' /\ Within
    <2>1. Instruction(r[1], r[2]) \in PeerDialInstruction
      BY LifecycleAssumption DEF PeerDialInstruction, Instruction, TypeOK
    <2>2. TypeOK'
      BY <1>2, <2>1
      DEF connect_bootnodes_for_current_network, TypeOK, transport, sessions, maps
    <2> QED  BY <1>2, <2>2, CandidatesWait DEF connect_bootnodes_for_current_network, Rests
  <1>3. ASSUME NEW item \in PeerDialInstruction, DropCandidate(item)
        PROVE  TypeOK' /\ Within
    <2>1. TypeOK'
      BY <1>3 DEF DropCandidate, TypeOK, transport, sessions, maps
    <2> QED  BY <1>3, <2>1, CandidatesWait DEF DropCandidate, Rests
  <1>4. ASSUME NEW item \in PeerDialInstruction, DropBootnode(item)
        PROVE  TypeOK' /\ Within
    <2>1. TypeOK'
      BY <1>4 DEF DropBootnode, TypeOK, transport, sessions, maps
    <2> QED  BY <1>4, <2>1, CandidatesWait DEF DropBootnode, Rests
  <1>5. ASSUME NEW item \in PeerDialInstruction, EndCooldown(item)
        PROVE  TypeOK' /\ Within
    <2>1. TypeOK'
      BY <1>5 DEF EndCooldown, TypeOK, transport, sessions, maps
    <2>2. item \in Rests /\ Rests' \in {Rests, Rests \ {item}}
      BY <1>5 DEF EndCooldown, Rests
    <2> QED  BY <1>5, <2>1, <2>2, RestEnds DEF EndCooldown
  <1>6. ASSUME NEW item \in PeerDialInstruction, EndRetryDelay(item)
        PROVE  TypeOK' /\ Within
    <2>1. TypeOK'
      BY <1>6 DEF EndRetryDelay, TypeOK, transport, sessions, maps
    <2>2. item \in Rests /\ Rests' \in {Rests, Rests \ {item}}
      BY <1>6 DEF EndRetryDelay, Rests
    <2> QED  BY <1>6, <2>1, <2>2, RestEnds DEF EndRetryDelay
  <1>7. ASSUME NEW item \in PeerDialInstruction, NEW i \in Attempt, DialCandidate(i, item)
        PROVE  TypeOK' /\ Within
    BY <1>7, Starts DEF DialCandidate
  <1>8. ASSUME NEW item \in PeerDialInstruction, NEW i \in Attempt, DialBootnode(i, item)
        PROVE  TypeOK' /\ Within
    BY <1>8, Starts DEF DialBootnode
  <1> QED  BY <1>1, <1>2, <1>3, <1>4, <1>5, <1>6, <1>7, <1>8 DEF Candidates

LEMMA EstablishKeeps ==
    ASSUME TypeOK, LifecycleInv, NEW c \in Connection, Establish(c) \/ EstablishUnasked(c)
    PROVE  TypeOK' /\ Within
  <1>1. /\ link' = [link EXCEPT ![c] = "up"] /\ link \in [Connection -> LinkStates]
        /\ physical_connections' = physical_connections \cup {c}
        /\ unseen' = unseen \cup {c}
        /\ UNCHANGED <<generation, population, handshake_ready_connections, sessions, maps,
                       waiting>>
        /\ link[c] \notin {"up", "closing", "closed"}
    BY DEF Establish, EstablishUnasked, TypeOK
  <1>2. TypeOK'
    BY <1>1 DEF TypeOK, sessions, maps, waiting, LinkStates
  <1>3. LinksKept
    BY <1>1 DEF LinksKept, LifecycleInv, SessionsInv, LinksInv
  <1>4. WorkKept /\ PeersStay
    BY <1>1, SameWork DEF PeersStay, sessions, maps, waiting, Rests
  <1> QED  BY <1>2, <1>3, <1>4 DEF Within, Moves

LEMMA HandleEstablishedKeeps ==
    ASSUME TypeOK, LifecycleInv, NEW c \in Connection, HandleEstablished(c)
    PROVE  TypeOK' /\ Within
  <1> DEFINE p == Of[c]
             owners == {ConnectionOf(connected_peers[p]), AttemptConnection(p)} \ {None}
             known == owners # {} \/ For(connection_cooldowns, p) # {}
  <1>1. /\ unseen' = unseen \ {c}
        /\ UNCHANGED <<generation, population, physical_connections,
                       handshake_ready_connections, sessions, maps, waiting>>
        /\ known /\ c \notin owners => link' = close_connection(c)
        /\ ~(known /\ c \notin owners) => link' = link
    BY DEF HandleEstablished
  <1>2. p \in Peer /\ link \in [Connection -> LinkStates]
    BY LifecycleAssumption DEF TypeOK
  <1>3. /\ link' \in [Connection -> LinkStates]
        /\ \A d \in Connection :
              link'[d] = link[d] \/ (link[d] = "up" /\ link'[d] = "closing")
    <2>1. CASE known /\ c \notin owners
      BY <1>1, <2>1, ClosesConnection
    <2>2. CASE ~(known /\ c \notin owners)
      BY <1>1, <1>2, <2>2
    <2> QED  BY <2>1, <2>2
  <1>4. ASSUME p \in Promoted, link'[c] = "up"
        PROVE  c = ConnectionOf(connected_peers[p])
    <2>1. /\ ConnectionOf(connected_peers[p]) \in Connection
          /\ AttemptConnection(p) = None
      BY <1>2, <1>4, OwnerFacts DEF Promoted, LifecycleInv, PeersInv
    <2>2. owners = {ConnectionOf(connected_peers[p])}
      BY <2>1, NoneFacts
    <2>3. CASE c \in owners
      BY <2>2, <2>3
    <2>4. CASE c \notin owners
      <3>1. link' = close_connection(c)
        BY <1>1, <2>2, <2>4
      <3>2. link'[c] # "up"
        BY <1>2, <3>1 DEF close_connection
      <3> QED  BY <1>4, <3>2
    <2> QED  BY <2>3, <2>4
  <1>5. LinksKept
    <2>1. ASSUME NEW d \in Connection
          PROVE  /\ link'[d] = "up" => link[d] = "up"
                 /\ link[d] \in {"up", "closing"} => link'[d] \in {"up", "closing"}
                 /\ link[d] \in {"up", "closing", "closed"} =>
                       link'[d] \in {"up", "closing", "closed"}
      BY <1>3
    <2>2. ASSUME NEW d \in Connection, link'[d] = "up", d \notin unseen', Of[d] \in Promoted
          PROVE  \/ link[d] = "up" /\ d \notin unseen
                 \/ d = ConnectionOf(connected_peers[Of[d]])
      BY <1>1, <1>4, <2>1, <2>2
    <2> QED  BY <1>1, <2>1, <2>2 DEF LinksKept, LifecycleInv, SessionsInv, LinksInv
  <1>6. TypeOK'
    BY <1>1, <1>3 DEF TypeOK, sessions, maps, waiting
  <1>7. WorkKept /\ PeersStay
    BY <1>1, SameWork DEF PeersStay, sessions, maps, waiting, Rests
  <1> QED  BY <1>5, <1>6, <1>7 DEF Within, Moves

LEMMA CloseKeeps ==
    ASSUME TypeOK, LifecycleInv, NEW c \in Connection,
           CloseConnection(c) \/ Close(c) \/ FailDial(c)
    PROVE  TypeOK' /\ Within
  <1>1. WorkKept /\ PeersStay
    BY SameWork DEF CloseConnection, Close, FailDial, PeersStay, sessions, maps, waiting, Rests
  <1>2. CASE CloseConnection(c)
    <2>1. QuietLinks /\ TypeOK'
      BY <1>2, ClosesConnection
      DEF CloseConnection, QuietLinks, TypeOK, sessions, maps, waiting
    <2> QED  BY <1>1, <2>1, Quietly
  <1>3. CASE Close(c)
    <2>1. /\ link' = [link EXCEPT ![c] = "closed"] /\ link \in [Connection -> LinkStates]
          /\ physical_connections' = physical_connections \ {c}
          /\ unseen' = unseen /\ link[c] \in {"up", "closing"}
      BY <1>3 DEF Close, TypeOK
    <2>2. LinksKept
      BY <2>1 DEF LinksKept, LifecycleInv, SessionsInv, LinksInv
    <2>3. TypeOK'
      BY <1>3 DEF Close, TypeOK, sessions, maps, waiting, LinkStates
    <2> QED  BY <1>1, <2>2, <2>3 DEF Within, Moves
  <1>4. CASE FailDial(c)
    <2>1. QuietLinks /\ TypeOK'
      BY <1>4 DEF FailDial, QuietLinks, TypeOK, sessions, maps, waiting, LinkStates, Open
    <2> QED  BY <1>1, <2>1, Quietly
  <1> QED  BY <1>2, <1>3, <1>4

LEMMA InstructionFacts ==
    ASSUME TypeOK, NEW p \in Peer
    PROVE  \E item \in PeerDialInstruction :
              item = Instruction(p, p \in bootnodes) /\ item.peer = p /\ item.generation = generation
  <1>1. PICK bootnode \in BOOLEAN : bootnode = (p \in bootnodes)
    <2>1. (p \in bootnodes) \in BOOLEAN
      OBVIOUS
    <2> QED  BY <2>1, Zenon
  <1>2. Instruction(p, p \in bootnodes) = Instruction(p, bootnode)
    BY <1>1
  <1>3. PICK item \in {Instruction(p, bootnode)} : TRUE
    OBVIOUS
  <1>4. item.peer = p /\ item.generation = generation /\ item \in PeerDialInstruction
    BY <1>3 DEF Instruction, PeerDialInstruction, TypeOK
  <1> QED  BY <1>2, <1>3, <1>4

\* A failed dial is the end of the attempt that asked for it.
LEMMA HandleDialErrorKeeps ==
    ASSUME TypeOK, LifecycleInv, NEW c \in Connection, NEW retryable \in BOOLEAN,
           HandleDialError(c, retryable)
    PROVE  TypeOK' /\ Within
  <1> DEFINE p == Of[c]
  <1>1. /\ link[c] = "failed" /\ link' = [link EXCEPT ![c] = "gone"]
        /\ link \in [Connection -> LinkStates]
        /\ UNCHANGED <<generation, physical_connections, unseen,
                       handshake_ready_connections, work, connected_peers, overlay_peers,
                       accounting_peers, bootnodes, rejected_duplicate_peers, queue,
                       bootnode_port, connection_cooldowns>>
        /\ p \in Peer /\ c \in To(p)
    BY LifecycleAssumption DEF HandleDialError, TypeOK, To
  <1>2. QuietLinks /\ link' \in [Connection -> LinkStates] /\ WorkKept
    BY <1>1, SameWork DEF QuietLinks, LinkStates, Open
  <1>3. CASE UNCHANGED <<connection_attempts, population, delayed_peer_retries, known_peers>>
    <2>1. PeersStay
      BY <1>1, <1>3 DEF PeersStay, Rests
    <2>2. TypeOK'
      BY <1>1, <1>2, <1>3 DEF TypeOK
    <2> QED  BY <1>2, <2>1, <2>2, Quietly
  <1>4. CASE AttemptConnection(p) = c
    <2>1. CASE UNCHANGED <<connection_attempts, population, delayed_peer_retries, known_peers>>
      BY <1>3, <2>1
    <2>2. CASE /\ connection_attempts' = [connection_attempts EXCEPT ![p] = None]
               /\ population' = release_connection_reservation
               /\ \/ delayed_peer_retries' = delayed_peer_retries
                  \/ delayed_peer_retries' = queue_peer_dial_retry(Instruction(p, p \in bootnodes))
               /\ known_peers' \in {[known_peers EXCEPT ![p] = None], known_peers}
      <3>1. connection_attempts[p] # None /\ connection_attempts[p] \in Attempt
        BY <1>1, <1>4, OwnerFacts, NoneFacts DEF LifecycleInv, PeersInv
      <3>2. connected_peers[p] = None
        <4>1. connected_peers[p] # None => connected_peers[p] = connection_attempts[p]
          BY <1>1, <3>1 DEF LifecycleInv, PeersInv, OwnersInv, TypeOK
        <4>2. connected_peers[p] # None => ConnectionOf(connected_peers[p]) = c
          BY <1>4, <4>1 DEF AttemptConnection
        <4> QED  BY <1>1, <4>2 DEF LifecycleInv, SessionsInv, LinksInv
      <3>3. p \in Tried /\ p \in Busy /\ p \notin Promoted
        BY <1>1, <3>1, <3>2 DEF Tried, Busy, Promoted
      <3>4. \A o \in OverlayAddress : overlay_peers[o] # p
        BY <1>1, <3>3, NoneFacts DEF LifecycleInv, PeersInv, SelectableIsPromoted
      <3>5. PICK item \in PeerDialInstruction :
               item = Instruction(p, p \in bootnodes) /\ item.peer = p /\ item.generation = generation
        BY <1>1, InstructionFacts
      <3>6. For(delayed_peer_retries, p) = {}
        BY <3>3 DEF LifecycleInv, PeersInv, RestsInv, Rests, For
      <3>7. /\ Rests' = Rests \/ Rests' = Rests \cup {item}
            /\ delayed_peer_retries' \subseteq PeerDialInstruction
        BY <1>1, <2>2, <3>5, <3>6 DEF Rests, queue_peer_dial_retry, TypeOK
      <3>8. /\ connected_peers' = [connected_peers EXCEPT ![p] = None]
            /\ known_peers' \in {[known_peers EXCEPT ![p] = known_peers[p]],
                                 [known_peers EXCEPT ![p] = None]}
        BY <1>1, <2>2, <3>2 DEF TypeOK
      <3>9. /\ population'.ongoing = saturating_sub(population.ongoing, 1)
            /\ population'.connected = population.connected
            /\ population' \in [connected : Nat, ongoing : Nat]
        BY <2>2 DEF release_connection_reservation, TypeOK, saturating_sub
      <3>10. Leaves(p)
        BY <1>1, <2>2, <3>3, <3>4, <3>5, <3>7, <3>8, <3>9 DEF Leaves
      <3>11. TypeOK'
        BY <1>1, <1>2, <2>2, <3>7, <3>9 DEF TypeOK
      <3> QED  BY <1>1, <1>2, <3>10, <3>11, LinksQuiet DEF Within, Moves
    <2> QED  BY <1>4, <2>1, <2>2 DEF HandleDialError
  <1> QED  BY <1>3, <1>4 DEF HandleDialError

\* A connection that no session is on is closed for good.
LEMMA GoneKeeps ==
    ASSUME TypeOK, LifecycleInv, NEW c \in Connection, link[c] = "closed",
           link' = [link EXCEPT ![c] = "gone"],
           UNCHANGED <<physical_connections, unseen>>,
           \A p \in Peer : connected_peers'[p] # None => ConnectionOf(connected_peers[p]) # c
    PROVE  LinksKept /\ link' \in [Connection -> LinkStates]
  <1>1. link \in [Connection -> LinkStates]
    BY DEF TypeOK
  <1>2. ASSUME NEW d \in Connection, d # c
        PROVE  link'[d] = link[d]
    BY <1>1, <1>2
  <1>3. link'[c] = "gone" /\ c \notin physical_connections
    BY <1>1 DEF LifecycleInv, SessionsInv, LinksInv
  <1>4. link' \in [Connection -> LinkStates]
    BY <1>1 DEF LinkStates
  <1> QED  BY <1>2, <1>3, <1>4 DEF LinksKept, LifecycleInv, SessionsInv, LinksInv

LEMMA HandleUnownedClosedKeeps ==
    ASSUME TypeOK, LifecycleInv, NEW c \in Connection, HandleUnownedClosed(c)
    PROVE  TypeOK' /\ Within
  <1>1. /\ link[c] = "closed" /\ link' = [link EXCEPT ![c] = "gone"] /\ ~ClosedIsOwner(c)
        /\ UNCHANGED <<generation, population, physical_connections, unseen,
                       handshake_ready_connections, connection_attempts, connected_peers,
                       maps, waiting>>
    BY DEF HandleUnownedClosed
  <1>2. \A p \in Peer : connected_peers[p] # None => ConnectionOf(connected_peers[p]) # c
    <2>1. ASSUME NEW p \in Peer, connected_peers[p] # None, ConnectionOf(connected_peers[p]) = c
          PROVE  FALSE
      <3>1. Of[c] = p
        BY <2>1, OwnerFacts DEF LifecycleInv, PeersInv
      <3> QED  BY <1>1, <2>1, <3>1 DEF ClosedIsOwner
    <2> QED  BY <2>1
  <1>3. LinksKept /\ link' \in [Connection -> LinkStates]
    BY <1>1, <1>2, GoneKeeps
  <1>4. WorkKept /\ work' \in [Attempt -> Works]
    <2>1. CASE work' = work
      BY <2>1, SameWork DEF TypeOK
    <2>2. ASSUME NEW d \in handshake_ready_connections, work' = Tokens(d)
          PROVE  WorkKept /\ work' \in [Attempt -> Works]
      <3>1. d \in Connection
        BY DEF TypeOK
      <3> QED  BY <2>2, <3>1, TokensKeep
    <2> QED  BY <2>1, <2>2 DEF HandleUnownedClosed
  <1>5. PeersStay
    BY <1>1 DEF PeersStay, maps, waiting, Rests
  <1>6. TypeOK'
    BY <1>1, <1>3, <1>4 DEF TypeOK, maps, waiting
  <1> QED  BY <1>3, <1>4, <1>5, <1>6 DEF Within, Moves

\* The end of the connection a peer is owned by is the end of its attempt
\* or of its session, and the start of its cooldown.
LEMMA HandleOwnedClosedKeeps ==
    ASSUME TypeOK, LifecycleInv, NEW c \in Connection, HandleOwnedClosed(c)
    PROVE  TypeOK' /\ Within
  <1> DEFINE p == Of[c]
             file == connected_peers[p]
             owned_overlay == file # None /\ overlay_peers[Overlay[p]] = p
  <1>1. /\ link[c] = "closed" /\ link' = [link EXCEPT ![c] = "gone"] /\ ClosedIsOwner(c)
        /\ connected_peers' = [connected_peers EXCEPT ![p] = None]
        /\ rejected_duplicate_peers' =
              [q \in Peer |-> IF rejected_duplicate_peers[q] = p
                              THEN None ELSE rejected_duplicate_peers[q]]
        /\ accounting_peers' = [accounting_peers EXCEPT ![p] = "absent"]
        /\ known_peers' = [known_peers EXCEPT ![p] = None]
        /\ UNCHANGED <<generation, physical_connections, unseen,
                       handshake_ready_connections, work, bootnodes, queue,
                       bootnode_port, delayed_peer_retries>>
    BY DEF HandleOwnedClosed
  <1>2. /\ p \in Peer /\ Overlay[p] \in OverlayAddress
        /\ connected_peers \in [Peer -> Attempt \cup {None}]
        /\ connection_attempts \in [Peer -> Attempt \cup {None}]
        /\ overlay_peers \in [OverlayAddress -> Peer \cup {None}]
    BY LifecycleAssumption DEF TypeOK, OverlayAddress
  <1>3. file = None => connection_attempts[p] # None
    <2>1. file = None => AttemptConnection(p) = c
      BY <1>1 DEF ClosedIsOwner
    <2> QED  BY <1>2, <2>1, OwnerFacts, NoneFacts DEF LifecycleInv, PeersInv
  <1>4. file # None => connection_attempts[p] \in {None, file}
    BY <1>2 DEF LifecycleInv, PeersInv, OwnersInv
  <1>5. HadAttempt(p) <=> p \in Tried
    BY <1>2, <1>3, <1>4 DEF HadAttempt, Tried
  <1>6. p \in Busy /\ (p \notin Tried => p \in Promoted)
    BY <1>2, <1>3 DEF Busy, Tried, Promoted
  <1>7. p \notin Tried => owned_overlay \/ (file # None /\ p \in bootnodes)
    BY <1>6 DEF LifecycleInv, PeersInv, SelectableIsPromoted, Promoted
  <1>8. connection_attempts' = [connection_attempts EXCEPT ![p] = None]
    <2>1. CASE p \in Tried
      BY <1>5, <2>1 DEF HandleOwnedClosed
    <2>2. CASE p \notin Tried
      <3>1. connection_attempts' = connection_attempts /\ connection_attempts[p] = None
        BY <1>2, <1>5, <2>2 DEF HandleOwnedClosed, Tried
      <3> QED  BY <1>2, <3>1
    <2> QED  BY <2>1, <2>2
  <1>9. /\ population'.ongoing =
              IF p \in Tried THEN saturating_sub(population.ongoing, 1) ELSE population.ongoing
        /\ population'.connected =
              IF p \in Tried THEN population.connected ELSE saturating_sub(population.connected, 1)
        /\ population' \in [connected : Nat, ongoing : Nat]
    <2>1. population' = IF p \in Tried THEN release_connection_reservation
                        ELSE release_connected_peer
      BY <1>5, <1>7 DEF HandleOwnedClosed
    <2>2. population \in [connected : Nat, ongoing : Nat]
      BY DEF TypeOK
    <2> QED  BY <2>1, <2>2
             DEF release_connection_reservation, release_connected_peer, saturating_sub
  <1>10. /\ \A o \in OverlayAddress :
               overlay_peers'[o] = IF overlay_peers[o] = p THEN None ELSE overlay_peers[o]
         /\ overlay_peers' \in [OverlayAddress -> Peer \cup {None}]
    <2>1. \A o \in OverlayAddress : overlay_peers[o] = p => owned_overlay /\ o = Overlay[p]
      BY <1>2, NoneFacts DEF LifecycleInv, PeersInv, SelectableIsPromoted, Promoted
    <2>2. CASE owned_overlay
      <3>1. overlay_peers' = [overlay_peers EXCEPT ![Overlay[p]] = None]
        BY <2>2 DEF HandleOwnedClosed
      <3> QED  BY <1>2, <2>1, <2>2, <3>1
    <2>3. CASE ~owned_overlay
      <3>1. overlay_peers' = overlay_peers
        BY <2>3 DEF HandleOwnedClosed
      <3> QED  BY <1>2, <2>1, <2>3, <3>1
    <2> QED  BY <2>2, <2>3
  <1>11. PICK item \in PeerDialInstruction :
            item = Instruction(p, p \in bootnodes) /\ item.peer = p /\ item.generation = generation
    BY <1>2, InstructionFacts
  <1>12. known_peers[p] = generation
    BY <1>2, <1>6 DEF LifecycleInv, PeersInv, KnownInv
  <1>13. connection_cooldowns' = connection_cooldowns \cup {item}
    BY <1>11, <1>12 DEF HandleOwnedClosed
  <1>14. Rests' = Rests \cup {item} /\ p \in Resting'
    BY <1>1, <1>11, <1>13 DEF Rests, Resting
  <1>15. Leaves(p)
    BY <1>1, <1>6, <1>8, <1>9, <1>10, <1>11, <1>14 DEF Leaves
  <1>16. \A q \in Peer : connected_peers'[q] # None => ConnectionOf(connected_peers[q]) # c
    <2>1. ASSUME NEW q \in Peer, connected_peers'[q] # None, ConnectionOf(connected_peers[q]) = c
          PROVE  FALSE
      <3>1. q # p /\ connected_peers[q] # None
        BY <1>1, <1>2, <2>1
      <3> QED  BY <2>1, <3>1, OwnerFacts DEF LifecycleInv, PeersInv
    <2> QED  BY <2>1
  <1>17. LinksKept /\ link' \in [Connection -> LinkStates]
    BY <1>1, <1>16, GoneKeeps
  <1>18. TypeOK'
    <2>1. rejected_duplicate_peers' \in [Peer -> Peer \cup {None}]
      BY <1>1 DEF TypeOK
    <2>2. /\ accounting_peers' \in [Peer -> {"absent", "unpriced", "priced"}]
          /\ known_peers' \in [Peer -> Generation \cup {None}]
          /\ connected_peers' \in [Peer -> Attempt \cup {None}]
          /\ connection_attempts' \in [Peer -> Attempt \cup {None}]
      BY <1>1, <1>2, <1>8 DEF TypeOK
    <2>3. connection_cooldowns' \subseteq PeerDialInstruction
      BY <1>13 DEF TypeOK
    <2> QED  BY <1>1, <1>9, <1>10, <1>17, <2>1, <2>2, <2>3 DEF TypeOK
  <1> QED  BY <1>1, <1>2, <1>15, <1>17, <1>18, SameWork DEF Within, Moves

LEMMA IdentifyKeeps ==
    ASSUME TypeOK, LifecycleInv, NEW c \in Connection,
           IdentifyReceived(c) \/ close_failed_identify_connection(c)
    PROVE  TypeOK' /\ Within
  <1>1. CASE IdentifyReceived(c)
    <2>1. WorkKept /\ work' \in [Attempt -> Works]
      BY <1>1, TokensKeep DEF IdentifyReceived
    <2>2. PeersStay /\ QuietLinks
      BY <1>1 DEF IdentifyReceived, PeersStay, maps, waiting, Rests, QuietLinks
    <2>3. TypeOK'
      BY <1>1, <2>1 DEF IdentifyReceived, TypeOK, maps, waiting
    <2> QED  BY <2>1, <2>2, <2>3, Quietly
  <1>2. CASE close_failed_identify_connection(c)
    <2>1. PICK i \in ReadyAttempt(c) : work' = [work EXCEPT ![i].identify_failed = TRUE]
      BY <1>2 DEF close_failed_identify_connection
    <2>2. i \in Attempt
      BY LifecycleAssumption DEF ReadyAttempt, TypeOK
    <2>3. work \in [Attempt -> Works] /\ work[i] \in Works /\ "done" \in WorkSteps
      BY <2>2 DEF TypeOK, WorkSteps
    <2>4. PICK new \in Works : /\ new = [work[i] EXCEPT !.identify_failed = TRUE]
                               /\ new.peer = work[i].peer /\ new.connection = work[i].connection
                               /\ new.generation = work[i].generation /\ new.step = work[i].step
      BY <2>3, WorkForms
    <2>8. work' = [work EXCEPT ![i] = new]
      BY <2>1, <2>4
    <2>5. WorkKept /\ work' \in [Attempt -> Works]
      BY <2>2, <2>3, <2>4, <2>8 DEF WorkKept
    <2>6. PeersStay /\ QuietLinks /\ link' \in [Connection -> LinkStates]
      BY <1>2, ClosesConnection
      DEF close_failed_identify_connection, PeersStay, maps, waiting, Rests, QuietLinks
    <2>7. TypeOK'
      BY <1>2, <2>5, <2>6 DEF close_failed_identify_connection, TypeOK, maps, waiting
    <2> QED  BY <2>5, <2>6, <2>7, Quietly
  <1> QED  BY <1>1, <1>2

\* A handshake that goes on changes nothing of its peer.
LEMMA HandshakeGoesOn ==
    ASSUME TypeOK, LifecycleInv, WorkKept, work' \in [Attempt -> Works],
           UNCHANGED <<generation, population, connection_attempts, connected_peers,
                       physical_connections, unseen, handshake_ready_connections>>,
           UNCHANGED <<overlay_peers, accounting_peers, known_peers, rejected_duplicate_peers>>,
           UNCHANGED waiting,
           bootnodes \subseteq bootnodes', bootnodes' \subseteq Peer,
           \/ link' = link
           \/ \E peers \in SUBSET Peer : link' = disconnect_peers(peers)
    PROVE  TypeOK' /\ Within
  <1>1. QuietLinks /\ link' \in [Connection -> LinkStates]
    <2>1. CASE link' = link
      BY <2>1 DEF QuietLinks, TypeOK
    <2>2. ASSUME NEW peers \in SUBSET Peer, link' = disconnect_peers(peers)
          PROVE  QuietLinks /\ link' \in [Connection -> LinkStates]
      BY <2>2, Disconnects DEF QuietLinks
    <2> QED  BY <2>1, <2>2
  <1>2. PeersStay
    BY DEF PeersStay, waiting, Rests
  <1>3. TypeOK'
    BY <1>1 DEF TypeOK, waiting
  <1> QED  BY <1>1, <1>2, <1>3, Quietly

LEMMA AttemptFacts ==
    ASSUME TypeOK, LifecycleInv, NEW i \in Attempt, work[i].step # "unused"
    PROVE  /\ work[i].peer \in Peer /\ work[i].connection \in Connection
           /\ Of[work[i].connection] = work[i].peer
           /\ work[i].bootnode \in BOOLEAN /\ work[i].generation \in Generation
           /\ OwnsAttempt(i) => work[i].generation = generation
  <1>1. work[i] \in Works /\ work[i].peer \in Peer /\ work[i].connection \in Connection
        /\ Of[work[i].connection] = work[i].peer
    BY DEF TypeOK, LifecycleInv, WorkInv
  <1>2. OwnsAttempt(i) => work[i].generation = generation
    BY <1>1 DEF OwnsAttempt, LifecycleInv, PeersInv, OwnersInv
  <1> QED  BY <1>1, <1>2 DEF Works

LEMMA HandshakesGoOn ==
    ASSUME TypeOK, LifecycleInv, NEW i \in Attempt,
           \/ HandleInstruction(i) \/ BeginHandshake(i) \/ TakeToken(i) \/ OpenHandshake(i)
           \/ FinishHandshake(i) \/ RefusePeerFile(i) \/ TimeOutPricing(i)
    PROVE  TypeOK' /\ Within
  <1>1. work[i].step # "unused"
    BY DEF HandleInstruction, BeginHandshake, TakeToken, OpenHandshake, FinishHandshake,
           RefusePeerFile, TimeOutPricing
  <1>2. /\ work[i].peer \in Peer /\ bootnodes \subseteq Peer
        /\ OwnsAttempt(i) => work[i].generation = generation
    BY <1>1, AttemptFacts DEF TypeOK
  <1>3. CASE HandleInstruction(i)
    <2>1. PICK step \in {"spawned", "done"} : Step(i, step)
      BY <1>3 DEF HandleInstruction
    <2>2. WorkKept /\ work' \in [Attempt -> Works]
      BY <1>3, <2>1, StepKeeps DEF HandleInstruction, WorkSteps
    <2> QED  BY <1>2, <1>3, <2>2, HandshakeGoesOn DEF HandleInstruction, transport, maps
  <1>4. CASE BeginHandshake(i)
    <2>1. PICK step \in {"done", "waiting", "opening"} : Step(i, step)
      BY <1>4 DEF BeginHandshake
    <2>2. WorkKept /\ work' \in [Attempt -> Works]
      BY <1>4, <2>1, StepKeeps DEF BeginHandshake, WorkSteps
    <2>3. UNCHANGED <<connection_attempts, population>>
      BY <1>2, <1>4 DEF BeginHandshake
    <2>4. bootnodes \subseteq bootnodes' /\ bootnodes' \subseteq Peer
      BY <1>2, <1>4 DEF BeginHandshake
    <2> QED  BY <1>4, <2>2, <2>3, <2>4, HandshakeGoesOn DEF BeginHandshake, transport
  <1>5. CASE TakeToken(i)
    <2>1. PICK step \in {"failing", "opening", "waiting"} :
             work' = [work EXCEPT ![i].ready = FALSE, ![i].step = step]
      BY <1>5 DEF TakeToken
    <2>2. work \in [Attempt -> Works] /\ work[i] \in Works /\ step \in WorkSteps
      BY DEF TypeOK, WorkSteps
    <2>3. PICK new \in Works : /\ new = [work[i] EXCEPT !.ready = FALSE, !.step = step]
                               /\ new.peer = work[i].peer /\ new.connection = work[i].connection
                               /\ new.generation = work[i].generation /\ new.step = step
      BY <2>2, WorkForms
    <2>6. work' = [work EXCEPT ![i] = new]
      BY <2>1, <2>2, <2>3
    <2>7. work[i].step \notin {"unused", "pricing", "done"}
      BY <1>5 DEF TakeToken
    <2>4. WorkKept
      BY <2>2, <2>3, <2>6, <2>7 DEF WorkKept
    <2>5. work' \in [Attempt -> Works]
      BY <2>2, <2>6
    <2> QED  BY <1>2, <1>5, <2>4, <2>5, HandshakeGoesOn DEF TakeToken, transport, maps
  <1>6. CASE OpenHandshake(i)
    <2>1. PICK step \in {"exchanging", "failing"} : Step(i, step)
      BY <1>6 DEF OpenHandshake
    <2>2. WorkKept /\ work' \in [Attempt -> Works]
      BY <1>6, <2>1, StepKeeps DEF OpenHandshake, WorkSteps
    <2> QED  BY <1>2, <1>6, <2>2, HandshakeGoesOn DEF OpenHandshake, transport, maps
  <1>7. CASE FinishHandshake(i)
    <2>1. WorkKept /\ work' \in [Attempt -> Works]
      BY <1>7, StepKeeps DEF FinishHandshake, WorkSteps
    <2> QED  BY <1>2, <1>7, <2>1, HandshakeGoesOn DEF FinishHandshake, transport, maps
  <1>8. CASE RefusePeerFile(i)
    <2>1. WorkKept /\ work' \in [Attempt -> Works]
      BY <1>8, StepKeeps DEF RefusePeerFile, WorkSteps
    <2>2. \/ link' = link
          \/ \E peers \in SUBSET Peer : link' = disconnect_peers(peers)
      BY <1>2, <1>8 DEF RefusePeerFile
    <2> QED  BY <1>2, <1>8, <2>1, <2>2, HandshakeGoesOn DEF RefusePeerFile, maps
  <1>9. CASE TimeOutPricing(i)
    <2>1. WorkKept /\ work' \in [Attempt -> Works]
      BY <1>9, StepKeeps DEF TimeOutPricing, WorkSteps
    <2>2. \/ link' = link
          \/ \E peers \in SUBSET Peer : link' = disconnect_peers(peers)
      BY <1>2, <1>9 DEF TimeOutPricing
    <2> QED  BY <1>2, <1>9, <2>1, <2>2, HandshakeGoesOn DEF TimeOutPricing, maps
  <1> QED  BY <1>3, <1>4, <1>5, <1>6, <1>7, <1>8, <1>9

\* A handshake that fails before its dial is through gives the slot back
\* and lets the peer rest.
LEMMA FailHandshakeKeeps ==
    ASSUME TypeOK, LifecycleInv, NEW i \in Attempt, FailHandshake(i)
    PROVE  TypeOK' /\ Within
  <1> DEFINE p == work[i].peer
  <1>1. /\ work[i].step \in {"waiting", "opening", "exchanging", "failing"}
        /\ Step(i, "done")
        /\ UNCHANGED <<generation, physical_connections, unseen,
                       handshake_ready_connections, connected_peers, maps, queue,
                       bootnode_port, connection_cooldowns>>
    BY DEF FailHandshake
  <1>2. /\ p \in Peer /\ work[i].bootnode \in BOOLEAN /\ work[i].generation \in Generation
        /\ OwnsAttempt(i) => work[i].generation = generation
    BY <1>1, AttemptFacts
  <1>3. WorkKept /\ work' \in [Attempt -> Works]
    BY <1>1, StepKeeps DEF WorkSteps
  <1>4. /\ link' = link \/ \E peers \in SUBSET Peer : link' = disconnect_peers(peers)
    BY <1>2 DEF FailHandshake
  <1>5. CASE UNCHANGED <<connection_attempts, delayed_peer_retries, population>>
    BY <1>1, <1>2, <1>3, <1>4, <1>5, HandshakeGoesOn DEF maps, waiting, TypeOK
  <1>6. CASE /\ OwnsAttempt(i)
             /\ connection_attempts' = [connection_attempts EXCEPT ![p] = None]
             /\ delayed_peer_retries' = queue_peer_dial_retry(
                   [peer |-> p, bootnode |-> work[i].bootnode,
                    generation |-> work[i].generation])
             /\ population' = release_connection_reservation
    <2>1. QuietLinks /\ link' \in [Connection -> LinkStates]
      <3>1. CASE link' = link
        BY <1>1, <3>1 DEF QuietLinks, TypeOK
      <3>2. ASSUME NEW peers \in SUBSET Peer, link' = disconnect_peers(peers)
            PROVE  QuietLinks /\ link' \in [Connection -> LinkStates]
        BY <1>1, <3>2, Disconnects DEF QuietLinks
      <3> QED  BY <1>4, <3>1, <3>2
    <2>2. connection_attempts[p] = i /\ work[i].generation = generation
      BY <1>2, <1>6 DEF OwnsAttempt
    <2>3. connected_peers[p] = None
      <3>1. connected_peers[p] \in Attempt => connection_attempts[p] \in {None, connected_peers[p]}
        BY <1>2 DEF LifecycleInv, PeersInv, OwnersInv
      <3>2. connected_peers[p] # i
        BY <1>1, <1>2 DEF LifecycleInv, PeersInv, OwnersInv
      <3> QED  BY <1>2, <2>2, <3>1, <3>2, NoneFacts DEF TypeOK
    <2>4. p \in Tried /\ p \in Busy /\ p \notin Promoted
      BY <1>2, <2>2, <2>3, NoneFacts DEF Tried, Busy, Promoted
    <2>5. \A o \in OverlayAddress : overlay_peers[o] # p
      BY <1>2, <2>4, NoneFacts DEF LifecycleInv, PeersInv, SelectableIsPromoted
    <2>6. PICK item \in PeerDialInstruction :
             /\ item = [peer |-> p, bootnode |-> work[i].bootnode, generation |-> work[i].generation]
             /\ item.peer = p /\ item.generation = generation
      <3> DEFINE given == [peer |-> p, bootnode |-> work[i].bootnode,
                           generation |-> work[i].generation]
      <3>1. given \in PeerDialInstruction
        BY <1>2 DEF PeerDialInstruction
      <3>2. given.peer = p /\ given.generation = generation
        BY <2>2
      <3> QED  BY <3>1, <3>2
    <2>7. For(delayed_peer_retries, p) = {}
      BY <2>4 DEF LifecycleInv, PeersInv, RestsInv, Rests, For
    <2>8. delayed_peer_retries' = delayed_peer_retries \cup {item}
      BY <1>6, <2>6, <2>7 DEF queue_peer_dial_retry
    <2>9. Rests' = Rests \cup {item} /\ p \in Resting'
      BY <1>1, <2>6, <2>8 DEF Rests, Resting
    <2>10. /\ connected_peers' = [connected_peers EXCEPT ![p] = None]
           /\ known_peers' = [known_peers EXCEPT ![p] = known_peers[p]]
      BY <1>1, <2>3 DEF maps, TypeOK
    <2>11. /\ population'.ongoing = saturating_sub(population.ongoing, 1)
           /\ population'.connected = population.connected
           /\ population' \in [connected : Nat, ongoing : Nat]
      BY <1>6 DEF release_connection_reservation, TypeOK, saturating_sub
    <2>12. overlay_peers' = overlay_peers /\ bootnodes' = bootnodes /\ generation' = generation
      BY <1>1 DEF maps
    <2>13. Leaves(p)
      BY <1>6, <2>4, <2>5, <2>6, <2>9, <2>10, <2>11, <2>12 DEF Leaves
    <2>14. TypeOK'
      BY <1>1, <1>2, <1>3, <1>6, <2>1, <2>8, <2>11 DEF TypeOK, maps
    <2> QED  BY <1>2, <1>3, <2>1, <2>13, <2>14, LinksQuiet DEF Within, Moves
  <1> QED  BY <1>5, <1>6 DEF FailHandshake

\* A promotion fills the slot of its attempt, or gives it back to end as
\* the duplicate of the peer that owns the overlay.
LEMMA Promotion ==
    ASSUME TypeOK, LifecycleInv, WorkKept, work' \in [Attempt -> Works],
           NEW p \in Peer, NEW i \in Attempt, NEW files, NEW accounts,
           accounts \in [Peer -> {"absent", "unpriced", "priced"}],
           files = [connected_peers EXCEPT ![p] = i],
           connection_attempts[p] = i, connected_peers[p] \in {None, i},
           exclusive_physical_connection(work[i].connection),
           work'[i].step \in {"pricing", "done"},
           promote_priced_peer(p, files, accounts),
           UNCHANGED <<generation, physical_connections, unseen, handshake_ready_connections,
                       bootnodes, queue, bootnode_port, connection_cooldowns>>
    PROVE  TypeOK' /\ Within
  <1> DEFINE owner == overlay_peers[Overlay[p]]
  <1>1. /\ connected_peers \in [Peer -> Attempt \cup {None}] /\ files[p] = i
        /\ files \in [Peer -> Attempt \cup {None}]
        /\ connection_attempts \in [Peer -> Attempt \cup {None}]
        /\ overlay_peers \in [OverlayAddress -> Peer \cup {None}] /\ Overlay[p] \in OverlayAddress
        /\ ConnectionOf(i) = work[i].connection
    BY NoneFacts DEF TypeOK, ConnectionOf, OverlayAddress
  <1>2. p \in Tried /\ p \in Busy /\ p \notin Promoted
    BY NoneFacts DEF Tried, Busy, Promoted
  <1>3. \A o \in OverlayAddress : overlay_peers[o] # p
    BY <1>2, NoneFacts DEF LifecycleInv, PeersInv, SelectableIsPromoted
  <1>4. /\ connection_attempts' = [connection_attempts EXCEPT ![p] = None]
        /\ population' = complete_connection_reservation(CanBePromoted(p))
        /\ overlay_peers' = IF p \notin bootnodes /\ CanBePromoted(p)
                            THEN [overlay_peers EXCEPT ![Overlay[p]] = p]
                            ELSE overlay_peers
        /\ IF ~CanBePromoted(p) /\ owner # p
           THEN /\ rejected_duplicate_peers' = [rejected_duplicate_peers EXCEPT ![p] = owner]
                /\ connected_peers' = [files EXCEPT ![p] = None]
                /\ accounting_peers' = [accounts EXCEPT ![p] = "absent"]
                /\ known_peers' = [known_peers EXCEPT ![p] = None]
                /\ delayed_peer_retries' =
                      delayed_peer_retries \ For(delayed_peer_retries, p)
                /\ link' = disconnect_peers({p})
           ELSE /\ connected_peers' = files
                /\ accounting_peers' = accounts
                /\ UNCHANGED <<rejected_duplicate_peers, known_peers,
                               delayed_peer_retries, link>>
    <2>1. files[p] # None /\ exclusive_physical_connection(ConnectionOf(files[p]))
          /\ connection_attempts[p] = files[p]
      BY <1>1, NoneFacts
    <2> QED  BY <2>1 DEF promote_priced_peer
  <1>5. CASE CanBePromoted(p)
    <2>1. /\ population'.ongoing = saturating_sub(population.ongoing, 1)
          /\ population'.connected = population.connected + 1
          /\ population' \in [connected : Nat, ongoing : Nat]
      BY <1>4, <1>5 DEF complete_connection_reservation, TypeOK, saturating_sub
    <2>2. /\ connected_peers' = files /\ accounting_peers' = accounts
          /\ UNCHANGED <<rejected_duplicate_peers, known_peers, delayed_peer_retries, link>>
      BY <1>4, <1>5
    <2>3. \/ p \in bootnodes /\ overlay_peers' = overlay_peers
          \/ /\ overlay_peers[Overlay[p]] = None
             /\ overlay_peers' = [overlay_peers EXCEPT ![Overlay[p]] = p]
      BY <1>4, <1>5 DEF CanBePromoted
    <2>4. Promotes(p, i)
      BY <1>4, <2>1, <2>2, <2>3 DEF Promotes, Rests
    <2>5. QuietLinks
      BY <2>2 DEF QuietLinks
    <2>6. TypeOK'
      BY <1>1, <1>4, <2>1, <2>2, <2>3 DEF TypeOK
    <2> QED  BY <2>4, <2>5, <2>6, LinksQuiet DEF Within, Moves
  <1>6. CASE ~CanBePromoted(p)
    <2>1. owner \in Peer /\ owner # p /\ p \notin bootnodes
      BY <1>1, <1>3, <1>6 DEF CanBePromoted
    <2>2. /\ rejected_duplicate_peers' = [rejected_duplicate_peers EXCEPT ![p] = owner]
          /\ connected_peers' = [files EXCEPT ![p] = None]
          /\ accounting_peers' = [accounts EXCEPT ![p] = "absent"]
          /\ known_peers' = [known_peers EXCEPT ![p] = None]
          /\ delayed_peer_retries' = delayed_peer_retries \ For(delayed_peer_retries, p)
          /\ link' = disconnect_peers({p})
          /\ overlay_peers' = overlay_peers
      BY <1>4, <1>6, <2>1
    <2>3. /\ population'.ongoing = saturating_sub(population.ongoing, 1)
          /\ population'.connected = population.connected
          /\ population' \in [connected : Nat, ongoing : Nat]
      BY <1>4, <1>6 DEF complete_connection_reservation, TypeOK, saturating_sub
    <2>4. connected_peers' = [connected_peers EXCEPT ![p] = None]
      BY <1>1, <2>2
    <2>5. For(delayed_peer_retries, p) = {}
      BY <1>2 DEF LifecycleInv, PeersInv, RestsInv, Rests, For
    <2>6. Rests' = Rests
      BY <2>2, <2>5 DEF Rests
    <2>7. rejected_duplicate_peers'[p] # None
          /\ rejected_duplicate_peers' \in [Peer -> Peer \cup {None}]
      BY <2>1, <2>2, NoneFacts DEF TypeOK
    <2>8. Leaves(p)
      BY <1>2, <1>3, <1>4, <2>2, <2>3, <2>4, <2>6, <2>7 DEF Leaves
    <2>9. QuietLinks /\ link' \in [Connection -> LinkStates]
      BY <2>2, Disconnects DEF QuietLinks
    <2>10. TypeOK'
      <3>1. /\ connected_peers' \in [Peer -> Attempt \cup {None}]
            /\ connection_attempts' \in [Peer -> Attempt \cup {None}]
            /\ accounting_peers' \in [Peer -> {"absent", "unpriced", "priced"}]
            /\ known_peers' \in [Peer -> Generation \cup {None}]
            /\ delayed_peer_retries' \subseteq PeerDialInstruction
        BY <1>1, <1>4, <2>2, <2>4 DEF TypeOK
      <3> QED  BY <2>2, <2>3, <2>7, <2>9, <3>1 DEF TypeOK
    <2> QED  BY <2>8, <2>9, <2>10, LinksQuiet DEF Within, Moves
  <1> QED  BY <1>5, <1>6

LEMMA PublishPeerFileKeeps ==
    ASSUME TypeOK, LifecycleInv, NEW i \in Attempt, PublishPeerFile(i)
    PROVE  TypeOK' /\ Within
  <1> DEFINE p == work[i].peer
             files == [connected_peers EXCEPT ![p] = i]
  <1>1. /\ work[i].step = "publishing"
        /\ exclusive_physical_connection(work[i].connection) /\ OwnsAttempt(i)
        /\ connected_peers[p] \in {None, i}
        /\ UNCHANGED <<generation, physical_connections, unseen, handshake_ready_connections,
                       bootnodes, queue, bootnode_port, connection_cooldowns>>
    BY DEF PublishPeerFile
  <1>2. /\ p \in Peer /\ connection_attempts[p] = i
        /\ work[i].connection \in Connection /\ Of[work[i].connection] = p
    BY <1>1, AttemptFacts DEF OwnsAttempt
  <1>3. CASE accounting_peers[p] = "priced"
    <2>1. Step(i, "done") /\ promote_priced_peer(p, files, accounting_peers)
      BY <1>3 DEF PublishPeerFile
    <2>2. WorkKept /\ work' \in [Attempt -> Works] /\ work'[i].step = "done"
      BY <1>1, <2>1, StepKeeps DEF WorkSteps
    <2>3. accounting_peers \in [Peer -> {"absent", "unpriced", "priced"}]
      BY DEF TypeOK
    <2> QED  BY <1>1, <1>2, <2>1, <2>2, <2>3, Promotion
  <1>4. CASE accounting_peers[p] # "priced"
    <2>1. /\ Step(i, "pricing") /\ connected_peers' = files
          /\ accounting_peers' = [accounting_peers EXCEPT ![p] = "unpriced"]
          /\ UNCHANGED <<connection_attempts, population, overlay_peers, link,
                         rejected_duplicate_peers, known_peers, delayed_peer_retries>>
      BY <1>4 DEF PublishPeerFile
    <2>2. WorkKept /\ work' \in [Attempt -> Works] /\ work'[i].step = "pricing"
      BY <1>1, <2>1, StepKeeps DEF WorkSteps
    <2>3. link[work[i].connection] \in {"up", "closing"}
      <3>1. work[i].connection \in physical_connections
        BY <1>1 DEF exclusive_physical_connection
      <3> QED  BY <1>2, <3>1 DEF LifecycleInv, SessionsInv, LinksInv
    <2>4. Publishes(p, i)
      BY <1>1, <1>2, <2>1, <2>2, <2>3 DEF Publishes, Rests
    <2>5. QuietLinks
      BY <1>1, <2>1 DEF QuietLinks
    <2>6. TypeOK'
      BY <1>1, <2>1, <2>2 DEF TypeOK
    <2> QED  BY <1>2, <2>2, <2>4, <2>5, <2>6, LinksQuiet DEF Within, Moves
  <1> QED  BY <1>3, <1>4

LEMMA AnnouncePricingKeeps ==
    ASSUME TypeOK, LifecycleInv, NEW c \in Connection, NEW price \in {"unpriced", "priced"},
           AnnouncePricing(c, price)
    PROVE  TypeOK' /\ Within
  <1> DEFINE p == Of[c]
             accounts == [accounting_peers EXCEPT ![p] = price]
             file == connected_peers[p]
  <1>1. /\ promote_priced_peer(p, connected_peers, accounts)
        /\ UNCHANGED <<generation, physical_connections, unseen,
                       handshake_ready_connections, work, bootnodes, queue,
                       bootnode_port, connection_cooldowns>>
    BY DEF AnnouncePricing
  <1>2. p \in Peer /\ accounts \in [Peer -> {"absent", "unpriced", "priced"}]
        /\ connected_peers \in [Peer -> Attempt \cup {None}]
    BY LifecycleAssumption DEF TypeOK
  <1>3. WorkKept /\ work' \in [Attempt -> Works]
    BY <1>1, SameWork DEF TypeOK
  <1>4. CASE /\ file # None /\ exclusive_physical_connection(ConnectionOf(file))
             /\ connection_attempts[p] = file
    <2>1. PICK i \in Attempt : i = file
      BY <1>2, <1>4
    <2>2. connected_peers = [connected_peers EXCEPT ![p] = i]
      BY <1>2, <2>1
    <2>3. work[i].step \in {"pricing", "done"} /\ work'[i] = work[i]
      BY <1>1, <1>2, <2>1 DEF LifecycleInv, PeersInv, OwnersInv
    <2>4. exclusive_physical_connection(work[i].connection)
      BY <1>4, <2>1 DEF ConnectionOf
    <2> QED  BY <1>1, <1>2, <1>3, <1>4, <2>1, <2>2, <2>3, <2>4, Promotion
  <1>5. CASE ~(/\ file # None /\ exclusive_physical_connection(ConnectionOf(file))
               /\ connection_attempts[p] = file)
    <2>1. /\ connected_peers' = connected_peers /\ accounting_peers' = accounts
          /\ UNCHANGED <<connection_attempts, population, overlay_peers, link,
                         rejected_duplicate_peers, known_peers, delayed_peer_retries>>
      BY <1>1, <1>5 DEF promote_priced_peer
    <2>2. PeersStay /\ QuietLinks
      BY <1>1, <2>1 DEF PeersStay, QuietLinks, Rests
    <2>3. TypeOK'
      BY <1>1, <1>2, <2>1 DEF TypeOK
    <2> QED  BY <1>3, <2>2, <2>3, Quietly
  <1> QED  BY <1>4, <1>5

LEMMA StutterKeeps ==
    ASSUME TypeOK, LifecycleInv, UNCHANGED vars
    PROVE  TypeOK' /\ Within
  <1>1. Rests' = Rests /\ UNCHANGED <<generation, population, transport, sessions, maps>>
    BY DEF vars, waiting, Rests
  <1>2. TypeOK'
    BY DEF TypeOK, vars, transport, sessions, maps, waiting
  <1> QED  BY <1>1, <1>2, CandidatesWait

\* The network switch leaves no peer busy or resting, and nothing open.
LEMMA SwitchKeeps ==
    ASSUME TypeOK, LifecycleInv, set_network_id
    PROVE  TypeOK' /\ LifecycleInv' /\ Population!Reset
  <1>1. /\ generation' = generation + 1 /\ generation' \in Generation
        /\ population' = [connected |-> 0, ongoing |-> 0]
        /\ connection_attempts' = [p \in Peer |-> None]
        /\ connected_peers' = [p \in Peer |-> None]
        /\ overlay_peers' = [o \in OverlayAddress |-> None]
        /\ known_peers' = [p \in Peer |-> None]
        /\ physical_connections' = {} /\ Rests' = {} /\ work' = work
    BY LifecycleAssumption DEF set_network_id, Rests, TypeOK, Generation
  <1>2. Tried' = {} /\ Promoted' = {} /\ Resting' = {}
    BY <1>1 DEF Tried, Promoted, Resting, Rests
  <1>3. link' \in [Connection -> LinkStates] /\ \A c \in Connection : link'[c] # "up"
    <2> DEFINE peers == {p \in Peer : connection_attempts[p] # None \/ is_connected(p)}
    <2>1. link' = disconnect_peers(peers)
      BY DEF set_network_id
    <2>2. ASSUME NEW c \in Connection, link'[c] = "up"
          PROVE  FALSE
      <3>1. link'[c] = IF Of[c] \notin peers THEN link[c]
                       ELSE CASE link[c] = "up" -> "closing"
                              [] link[c] = "dialing" -> "aborted"
                              [] OTHER -> link[c]
        BY <2>1 DEF disconnect_peers
      <3>2. link[c] = "up" => Of[c] \in peers
        BY LifecycleAssumption DEF is_connected, To
      <3> QED  BY <2>2, <3>1, <3>2
    <2> QED  BY <2>1, <2>2, Disconnects
  <1>4. TypeOK'
    <2>1. /\ population' \in [connected : Nat, ongoing : Nat]
          /\ unseen' \subseteq Connection /\ queue' \subseteq PeerDialInstruction
          /\ bootnode_port' \subseteq PeerDialInstruction
          /\ work' \in [Attempt -> Works]
      BY <1>1 DEF set_network_id, TypeOK
    <2> QED  BY <1>1, <1>3, <2>1 DEF TypeOK, set_network_id
  <1>5. WorkInv' /\ OwnersInv' /\ RestsInv' /\ KnownInv'
    BY <1>1, <1>2, NoneFacts DEF LifecycleInv, WorkInv, OwnersInv, RestsInv, KnownInv, Busy
  <1>6. SelectableIsPromoted' /\ OneConnectionInUse'
    BY <1>1, <1>2 DEF SelectableIsPromoted, OneConnectionInUse
  <1>7. PopulationExact'
    BY <1>1, <1>2, FS_EmptySet DEF PopulationExact
  <1>8. LinksInv'
    BY <1>1, <1>3 DEF LinksInv
  <1>9. Population!Reset
    BY <1>2 DEF Population!Reset, Phase
  <1> QED  BY <1>4, <1>5, <1>6, <1>7, <1>8, <1>9 DEF LifecycleInv, PeersInv, SessionsInv

-----------------------------------------------------------------------------
(* The theorems.                                                           *)

LEMMA InitHolds ==
    ASSUME Init
    PROVE  TypeOK /\ LifecycleInv /\ Population!Init
  <1>1. Tried = {} /\ Promoted = {} /\ Resting = {} /\ Rests = {}
    BY DEF Init, Tried, Promoted, Resting, Rests
  <1>2. TypeOK
    BY LifecycleAssumption
    DEF Init, TypeOK, Generation, LinkStates, Works, WorkSteps, UnusedWork
  <1>3. WorkInv /\ OwnersInv /\ RestsInv /\ KnownInv
    BY <1>1, NoneFacts DEF Init, UnusedWork, WorkInv, OwnersInv, RestsInv, KnownInv, Busy
  <1>4. SelectableIsPromoted /\ OneConnectionInUse /\ LinksInv
    BY <1>1 DEF Init, SelectableIsPromoted, OneConnectionInUse, LinksInv
  <1>5. PopulationExact
    BY <1>1, FS_EmptySet DEF Init, PopulationExact
  <1>6. Population!Init
    BY <1>1 DEF Population!Init, Phase
  <1> QED  BY <1>2, <1>3, <1>4, <1>5, <1>6 DEF LifecycleInv, PeersInv, SessionsInv

LEMMA StepIsWithin ==
    ASSUME TypeOK, LifecycleInv, [Next]_vars, ~set_network_id
    PROVE  TypeOK' /\ Within
  <1>1. CASE UNCHANGED vars
    BY <1>1, StutterKeeps
  <1>2. CASE Candidates
    BY <1>2, CandidatesKeep
  <1>3. ASSUME NEW c \in Connection, TransportStep(c)
        PROVE  TypeOK' /\ Within
    BY <1>3, EstablishKeeps, HandleEstablishedKeeps, CloseKeeps, HandleDialErrorKeeps,
       HandleUnownedClosedKeeps, HandleOwnedClosedKeeps, IdentifyKeeps, AnnouncePricingKeeps
    DEF TransportStep
  <1>4. ASSUME NEW i \in Attempt, HandshakeStep(i)
        PROVE  TypeOK' /\ Within
    BY <1>4, HandshakesGoOn, FailHandshakeKeeps, PublishPeerFileKeeps DEF HandshakeStep
  <1> QED  BY <1>1, <1>2, <1>3, <1>4 DEF Next

LEMMA StepKeepsInvariants ==
    ASSUME TypeOK, LifecycleInv, [Next]_vars
    PROVE  TypeOK' /\ LifecycleInv'
  <1>1. CASE set_network_id
    BY <1>1, SwitchKeeps
  <1>2. CASE ~set_network_id
    BY <1>2, StepIsWithin, MovesKeep, MarksKeep DEF Within
  <1> QED  BY <1>1, <1>2

LEMMA AlwaysHolds == Spec => [](TypeOK /\ LifecycleInv)
  <1>1. Init => TypeOK /\ LifecycleInv
    BY InitHolds
  <1>2. TypeOK /\ LifecycleInv /\ [Next]_vars => (TypeOK /\ LifecycleInv)'
    BY StepKeepsInvariants
  <1> QED  BY <1>1, <1>2, PTL DEF Spec

(* Every variable of the lifecycle keeps its type, whichever handlers,     *)
(* timers and events take their turn.                                      *)
THEOREM TypesHold == Spec => []TypeOK
  BY AlwaysHolds, PTL

(* The counters that admit dials are what they count, for any number of    *)
(* peers, connections, attempts and network switches: no slot of           *)
(* CONNECTION_BUILDUP_LIMIT leaks, none is given back twice.               *)
THEOREM CountersAreExact == Spec => []PopulationExact
  <1>1. LifecycleInv => PopulationExact
    BY DEF LifecycleInv, PeersInv
  <1> QED  BY <1>1, AlwaysHolds, PTL

(* Who is selectable at an overlay address has a session, and who has one  *)
(* is selectable there, bootnodes excepted.                                *)
THEOREM SelectableHasSession == Spec => []SelectableIsPromoted
  <1>1. LifecycleInv => SelectableIsPromoted
    BY DEF LifecycleInv, PeersInv
  <1> QED  BY <1>1, AlwaysHolds, PTL

LEMMA OneRest ==
    ASSUME TypeOK, LifecycleInv, NEW p \in Peer
    PROVE  Cardinality(For(connection_cooldowns \cup delayed_peer_retries, p)) <= 1
  <1> DEFINE rests == For(connection_cooldowns \cup delayed_peer_retries, p)
  <1>1. CASE rests = {}
    BY <1>1, FS_EmptySet
  <1>2. ASSUME NEW item \in rests
        PROVE  rests = {item}
    BY DEF For, LifecycleInv, PeersInv, RestsInv, Rests
  <1>3. ASSUME NEW item \in rests
        PROVE  Cardinality(rests) = 1
    BY <1>2, FS_Singleton
  <1> QED  BY <1>1, <1>3

(* Nothing of an earlier network is under way for a peer, it is over one   *)
(* connection and in one phase, and who is selectable is who is connected. *)
THEOREM WorkIsCurrent == Spec => []OnlyCurrentWork
  <1>1. ASSUME TypeOK, LifecycleInv
        PROVE  OnlyCurrentWork
    <2>1. NothingStale
      BY <1>1, NoneFacts DEF NothingStale, LifecycleInv, PeersInv, OwnersInv, KnownInv, RestsInv, Rests,
                       For, TypeOK
    <2>2. OnePhase
      BY <1>1, PhaseFacts, OneRest DEF OnePhase, Busy
    <2> QED  BY <1>1, <2>1, <2>2 DEF OnlyCurrentWork, LifecycleInv, PeersInv, SessionsInv
  <1>2. TypeOK /\ LifecycleInv => OnlyCurrentWork
    BY <1>1
  <1> QED  BY <1>2, AlwaysHolds, PTL

(* A peer the node has dialled is not forgotten within a network: it rests *)
(* when its attempt or session ends, unless it was a duplicate or its dial *)
(* reached another peer.                                                   *)
THEOREM DialledPeersAreRemembered == Spec => NotForgotten
  <1> DEFINE Remembered ==
        \A p \in Peer :
          /\ p \in Tried \cup Promoted /\ p \notin (Tried \cup Promoted)'
          /\ generation' = generation
          => \/ p \in Resting'
             \/ rejected_duplicate_peers'[p] # None
             \/ \E c \in To(p) : link[c] = "failed"
  <1>1. ASSUME TypeOK, LifecycleInv, [Next]_vars
        PROVE  Remembered
    <2> SUFFICES ASSUME NEW p \in Peer, p \in Tried \cup Promoted,
                        p \notin (Tried \cup Promoted)', generation' = generation
                 PROVE  \/ p \in Resting'
                        \/ rejected_duplicate_peers'[p] # None
                        \/ \E c \in To(p) : link[c] = "failed"
      OBVIOUS
    <2>1. ~set_network_id
      BY <1>1 DEF set_network_id, TypeOK, Generation
    <2>2. Within
      BY <2>1, <1>1, StepIsWithin
    <2>3. CASE WorkKept /\ Moves
      BY <1>1, <2>3, MovesRemember
    <2>4. ASSUME NEW q \in Peer, NEW i \in Attempt, Marks(q, i)
          PROVE  FALSE
      BY <1>1, <2>4, MarksPeers DEF LifecycleInv
    <2> QED  BY <2>2, <2>3, <2>4 DEF Within
  <1>2. TypeOK /\ LifecycleInv /\ [Next]_vars => [Remembered]_vars
    BY <1>1
  <1>3. Spec => [][Remembered]_vars
    BY <1>2, AlwaysHolds, PTL DEF Spec
  <1> QED  BY <1>3 DEF NotForgotten

(* The lifecycle does what it promises of each peer: every step of every   *)
(* handler frees, tries, connects or rests one peer as PeerPopulation      *)
(* allows, within its limit, or is the network switch.                     *)
THEOREM LifecycleImplementsPopulation == Spec => Population!Spec
  <1>1. Init => Population!Init
    BY InitHolds
  <1>2. ASSUME TypeOK, LifecycleInv, [Next]_vars
        PROVE  [Population!Next]_Phase
    <2>1. CASE set_network_id
      BY <1>2, <2>1, SwitchKeeps DEF Population!Next
    <2>2. CASE ~set_network_id
      <3>1. Within /\ TypeOK' /\ LifecycleInv'
        BY <1>2, <2>2, StepIsWithin, StepKeepsInvariants
      <3>2. CASE WorkKept /\ Moves
        BY <1>2, <3>1, <3>2, MovesPhases
      <3>3. ASSUME NEW p \in Peer, NEW i \in Attempt, Marks(p, i)
            PROVE  Population!Next
        BY <1>2, <3>1, <3>3, MarksTries
      <3> QED  BY <3>1, <3>2, <3>3 DEF Within
    <2> QED  BY <2>1, <2>2
  <1>3. TypeOK /\ LifecycleInv /\ [Next]_vars => [Population!Next]_Phase
    BY <1>2
  <1> QED  BY <1>1, <1>3, AlwaysHolds, PTL DEF Spec, Population!Spec

=============================================================================
