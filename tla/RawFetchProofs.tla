--------------------------- MODULE RawFetchProofs ---------------------------
(***************************************************************************)
(* Proofs about the raw chunks fetched once for everyone (RawFetch), for   *)
(* any number of keys, callers and permits: whoever waits is on the list   *)
(* of a flight that is under way, and no key has two flights at work.      *)
(* At the end, about who fetches them for a group of children              *)
(* (ErasureGroup), of any shape: it keeps what it promised (GroupPromise), *)
(* and gives up only when too many shards are lost.                        *)
(***************************************************************************)
EXTENDS RawFetch, GroupKept, FiniteSetTheorems, WellFoundedInduction, TLAPS

VARIABLES rolling, hedge_due, loop, shards_out
Group == INSTANCE ErasureGroup WITH g <- loop, out <- shards_out

Flight == [key : Key, stage : Stages, open : BOOLEAN, waiters : SUBSET Waiter,
           references : SUBSET Reference, claimed : Nat, out : Nat, exhausted : BOOLEAN]

Types ==
    /\ flights \in [Key -> Nat \cup {NoFlight}]
    /\ flight \in Seq(Flight)
    /\ port \in Seq(Nat)
    /\ waiter \in [Waiter -> Waiters]

(* The registry holds flights of its keys that are under way, and the port *)
(* the ones not dispatched, each once.                                     *)
RegistryIsCurrent ==
    \A k \in Key : flights[k] /= NoFlight =>
        /\ flights[k] \in FlightId
        /\ flight[flights[k]].key = k /\ flight[flights[k]].stage /= "done"

PortIsQueued ==
    /\ \A i \in DOMAIN port : port[i] \in FlightId /\ flight[port[i]].stage = "queued"
    /\ \A i, j \in DOMAIN port : i /= j => port[i] /= port[j]

(* A flight the registry has lost wants nothing any more: it is closed,    *)
(* nobody waits for it, and nothing was claimed unless it ended.           *)
LostFlightsRest ==
    \A f \in FlightId : ~Registered(f) =>
        /\ ~flight[f].open /\ flight[f].waiters = {}
        /\ flight[f].stage /= "done" => flight[f].claimed = 0

(* Who is on the list of a flight waits for it; who was there while it was *)
(* open keeps it open.                                                     *)
ListsAreWaiting ==
    \A f \in FlightId :
        /\ flight[f].out <= flight[f].claimed
        /\ flight[f].open => flight[f].waiters /= {}
        /\ \A w \in flight[f].waiters :
              /\ waiter[w].step = "waiting" /\ waiter[w].flight_id = f
              /\ waiter[w].late \/ flight[f].open

OnList(w, f) == waiter[w].flight_id = f /\ Registered(f) /\ w \in flight[f].waiters
WaitingIsListed ==
    \A w \in Waiter :
        /\ waiter[w].flight_id \in {0} \cup FlightId
        /\ waiter[w].step = "waiting" => \E f \in FlightId : OnList(w, f)
        /\ waiter[w].step \in {"new", "waiting"} => waiter[w].result = "none"

ToldEmpty ==
    \A w \in Waiter : waiter[w].result = "empty" =>
        /\ waiter[w].flight_id \in FlightId
        /\ \/ waiter[w].late
           \/ flight[waiter[w].flight_id].stage = "done" /\ flight[waiter[w].flight_id].exhausted

FetchInv ==
    /\ Types /\ RegistryIsCurrent /\ PortIsQueued /\ LostFlightsRest
    /\ ListsAreWaiting /\ WaitingIsListed /\ ToldEmpty

-----------------------------------------------------------------------------
LEMMA FlightFacts ==
    ASSUME flight \in Seq(Flight)
    PROVE  /\ DOMAIN flight = FlightId /\ Len(flight) \in Nat /\ FlightId \subseteq Nat
           /\ \A f \in FlightId :
                 /\ flight[f] \in Flight
                 /\ flight[f].key \in Key /\ flight[f].open \in BOOLEAN
                 /\ flight[f].waiters \subseteq Waiter
                 /\ flight[f].claimed \in Nat /\ flight[f].out \in Nat
  <1>1. DOMAIN flight = FlightId /\ Len(flight) \in Nat /\ FlightId \subseteq Nat
    BY DEF FlightId
  <1>2. \A f \in FlightId : flight[f] \in Flight
    BY <1>1
  <1> QED  BY <1>1, <1>2 DEF Flight

LEMMA Changed ==
    ASSUME flight \in Seq(Flight), NEW f \in FlightId, NEW new \in Flight,
           flight' = [flight EXCEPT ![f] = new]
    PROVE  /\ flight' \in Seq(Flight) /\ FlightId' = FlightId
           /\ flight'[f] = new
           /\ \A g \in FlightId : g /= f => flight'[g] = flight[g]
  <1>1. DOMAIN flight = FlightId
    BY FlightFacts
  <1> QED  BY <1>1 DEF FlightId

\* A step of one flight that keeps its key, its list, its admission and, if
\* it has ended, its end.
LEMMA FlightWorks ==
    ASSUME FetchInv, NEW f \in FlightId, NEW new \in Flight,
           flight' = [flight EXCEPT ![f] = new], UNCHANGED <<flights, waiter>>,
           new.key = flight[f].key, new.open = flight[f].open,
           new.waiters = flight[f].waiters, new.exhausted = flight[f].exhausted,
           new.out <= new.claimed,
           new.stage = "done" <=> flight[f].stage = "done",
           flight[f].open \/ flight[f].claimed = new.claimed
    PROVE  /\ RegistryIsCurrent' /\ LostFlightsRest' /\ ListsAreWaiting'
           /\ WaitingIsListed' /\ ToldEmpty' /\ flight' \in Seq(Flight)
           /\ FlightId' = FlightId
           /\ \A g \in FlightId : g /= f => flight'[g] = flight[g]
  <1>1. /\ flight' \in Seq(Flight) /\ FlightId' = FlightId
        /\ flight'[f] = new
        /\ \A g \in FlightId : g /= f => flight'[g] = flight[g]
    BY Changed DEF FetchInv, Types
  <1>2. \A g \in FlightId :
           /\ flight'[g].key = flight[g].key /\ flight'[g].open = flight[g].open
           /\ flight'[g].waiters = flight[g].waiters
           /\ flight'[g].exhausted = flight[g].exhausted
           /\ flight'[g].stage = "done" <=> flight[g].stage = "done"
           /\ flight'[g].out <= flight'[g].claimed
           /\ flight[g].open \/ flight'[g].claimed = flight[g].claimed
    BY <1>1 DEF FetchInv, ListsAreWaiting
  <1>3. \A g \in FlightId : Registered(g)' <=> Registered(g)
    BY <1>1, <1>2 DEF Registered
  <1>4. RegistryIsCurrent'
    BY <1>1, <1>2 DEF FetchInv, RegistryIsCurrent
  <1>5. LostFlightsRest'
    BY <1>1, <1>2, <1>3 DEF FetchInv, LostFlightsRest
  <1>6. ListsAreWaiting'
    BY <1>1, <1>2 DEF FetchInv, ListsAreWaiting
  <1>7. WaitingIsListed' /\ ToldEmpty'
    <2>1. \A v \in Waiter, g \in FlightId : OnList(v, g) => OnList(v, g)'
      BY <1>2, <1>3 DEF OnList
    <2>2. WaitingIsListed'
      BY <1>1, <2>1 DEF FetchInv, WaitingIsListed
    <2> QED  BY <1>1, <1>2, <2>2 DEF FetchInv, ToldEmpty
  <1> QED  BY <1>1, <1>4, <1>5, <1>6, <1>7

\* The port is not touched, nor a flight that waits in it.
LEMMA PortStays ==
    ASSUME FetchInv, port' = port, FlightId \subseteq FlightId',
           \A g \in FlightId : flight[g].stage = "queued" => flight'[g].stage = "queued"
    PROVE  PortIsQueued' /\ port' \in Seq(Nat)
  <1>1. port \in Seq(Nat)
    BY DEF FetchInv, Types
  <1> QED  BY <1>1 DEF FetchInv, PortIsQueued

-----------------------------------------------------------------------------
(* Callers come and go.                                                    *)

LEMMA HitKeeps ==
    ASSUME FetchInv, NEW w \in Waiter, waiter[w].step = "new", Hit(w)
    PROVE  FetchInv'
  <1> USE DEF FetchInv
  <1>1. /\ UNCHANGED <<flights, flight, port>>
        /\ waiter' = [waiter EXCEPT ![w].step = "answered", ![w].result = "canonical"]
    BY DEF Hit
  <1>2. /\ waiter' \in [Waiter -> Waiters]
        /\ waiter'[w].step = "answered" /\ waiter'[w].result = "canonical"
        /\ waiter'[w].flight_id = waiter[w].flight_id
        /\ \A v \in Waiter : v /= w => waiter'[v] = waiter[v]
    BY <1>1 DEF Types, Waiters, Results
  <1>3. \A f \in FlightId : w \notin flight[f].waiters
    BY DEF ListsAreWaiting
  <1>4. Types' /\ RegistryIsCurrent' /\ PortIsQueued' /\ LostFlightsRest'
    BY <1>1, <1>2
    DEF Types, RegistryIsCurrent, PortIsQueued, LostFlightsRest, FlightId, Registered
  <1>5. ListsAreWaiting'
    <2>1. \A f \in FlightId : \A v \in flight[f].waiters : waiter'[v] = waiter[v]
      BY <1>2, <1>3, FlightFacts DEF Types
    <2>2. flight' = flight /\ FlightId' = FlightId
      BY <1>1 DEF FlightId
    <2> QED  BY <2>1, <2>2 DEF ListsAreWaiting
  <1>6. WaitingIsListed' /\ ToldEmpty'
    <2>1. flight' = flight /\ FlightId' = FlightId
      BY <1>1 DEF FlightId
    <2>2. \A v \in Waiter, g \in FlightId : v /= w /\ OnList(v, g) => OnList(v, g)'
      BY <1>1, <1>2 DEF OnList, Registered
    <2>3. WaitingIsListed'
      BY <1>2, <2>1, <2>2 DEF WaitingIsListed
    <2> QED  BY <1>2, <2>1, <2>3 DEF ToldEmpty
  <1> QED  BY <1>4, <1>5, <1>6

LEMMA JoinKeeps ==
    ASSUME FetchInv, KeyOf \in [Waiter -> Key], NEW w \in Waiter, waiter[w].step = "new", Join(w)
    PROVE  FetchInv'
  <1> USE DEF FetchInv
  <1>0. PICK f \in Nat \cup {NoFlight} : f = flights[KeyOf[w]]
    BY DEF Types
  <1>1. /\ f /= NoFlight /\ UNCHANGED <<flights, port>>
        /\ flight' = [flight EXCEPT ![f].waiters = @ \cup {w},
                                    ![f].references = @ \cup {ReferenceOf[w]}]
        /\ waiter' = [waiter EXCEPT ![w].step = "waiting", ![w].flight_id = f,
                                    ![w].late = ~flight[f].open]
    BY <1>0 DEF Join
  <1>2. /\ f \in FlightId /\ flight[f].stage /= "done" /\ Registered(f)
        /\ flight[f] \in Flight /\ f \in Nat
    BY <1>0, <1>1, FlightFacts DEF RegistryIsCurrent, Registered, Types
  <1>3. PICK new \in Flight :
           new = [flight[f] EXCEPT !.waiters = @ \cup {w}, !.references = @ \cup {ReferenceOf[w]}]
    <2>1. [flight[f] EXCEPT !.waiters = @ \cup {w}, !.references = @ \cup {ReferenceOf[w]}] \in Flight
      BY <1>2 DEF Flight, Reference
    <2> QED  BY <2>1
  <1>4. /\ new \in Flight /\ new.key = flight[f].key /\ new.stage = flight[f].stage
        /\ new.open = flight[f].open /\ new.waiters = flight[f].waiters \cup {w}
        /\ new.claimed = flight[f].claimed /\ new.out = flight[f].out
        /\ new.exhausted = flight[f].exhausted
    BY <1>2, <1>3 DEF Flight, Reference
  <1>5. /\ flight' \in Seq(Flight) /\ FlightId' = FlightId
        /\ flight'[f] = new
        /\ \A g \in FlightId : g /= f => flight'[g] = flight[g]
    <2>1. flight' = [flight EXCEPT ![f] = new]
      BY <1>1, <1>2, <1>3 DEF Flight
    <2> QED  BY <1>2, <2>1, Changed DEF Types
  <1>6. /\ waiter' \in [Waiter -> Waiters]
        /\ waiter'[w].step = "waiting" /\ waiter'[w].flight_id = f
        /\ waiter'[w].late <=> ~flight[f].open
        /\ waiter'[w].result = waiter[w].result
        /\ \A v \in Waiter : v /= w => waiter'[v] = waiter[v]
    BY <1>1, <1>2 DEF Types, Waiters
  <1>7. \A g \in FlightId : w \notin flight[g].waiters
    BY DEF ListsAreWaiting
  <1>8. \A g \in FlightId : /\ Registered(g)' <=> Registered(g)
                            /\ flight'[g].key = flight[g].key
                            /\ flight'[g].stage = flight[g].stage
                            /\ flight'[g].exhausted = flight[g].exhausted
    BY <1>1, <1>4, <1>5 DEF Registered
  <1>9. Types'
    BY <1>1, <1>5, <1>6 DEF Types
  <1>10. RegistryIsCurrent'
    BY <1>1, <1>5, <1>8 DEF RegistryIsCurrent
  <1>11. PortIsQueued'
    BY <1>1, <1>5, <1>8, PortStays
  <1>12. LostFlightsRest'
    BY <1>2, <1>5, <1>8 DEF LostFlightsRest
  <1>13. ListsAreWaiting'
    <2>1. ASSUME NEW g \in FlightId, g /= f
          PROVE  /\ flight'[g].out <= flight'[g].claimed
                 /\ flight'[g].open => flight'[g].waiters /= {}
                 /\ \A v \in flight'[g].waiters :
                       /\ waiter'[v].step = "waiting" /\ waiter'[v].flight_id = g
                       /\ waiter'[v].late \/ flight'[g].open
      <3>1. \A v \in flight[g].waiters : waiter'[v] = waiter[v]
        BY <1>6, <1>7, FlightFacts DEF Types
      <3> QED  BY <1>5, <2>1, <3>1 DEF ListsAreWaiting
    <2>2. /\ flight'[f].out <= flight'[f].claimed
          /\ flight'[f].waiters /= {}
          /\ \A v \in flight'[f].waiters :
                /\ waiter'[v].step = "waiting" /\ waiter'[v].flight_id = f
                /\ waiter'[v].late \/ flight'[f].open
      <3>1. \A v \in flight[f].waiters : waiter'[v] = waiter[v]
        BY <1>2, <1>6, <1>7, FlightFacts DEF Types
      <3>2. \A v \in flight'[f].waiters : v = w \/ v \in flight[f].waiters
        BY <1>4, <1>5
      <3>3. flight'[f].open <=> flight[f].open
        BY <1>4, <1>5
      <3>4. ASSUME NEW v \in flight'[f].waiters
            PROVE  /\ waiter'[v].step = "waiting" /\ waiter'[v].flight_id = f
                   /\ waiter'[v].late \/ flight'[f].open
        <4>1. CASE v = w
          BY <1>6, <3>3, <4>1
        <4>2. CASE v \in flight[f].waiters
          BY <1>2, <3>1, <3>3, <4>2 DEF ListsAreWaiting
        <4> QED  BY <3>2, <4>1, <4>2
      <3>5. flight'[f].waiters /= {} /\ flight'[f].out <= flight'[f].claimed
        BY <1>2, <1>4, <1>5 DEF ListsAreWaiting
      <3> QED  BY <3>4, <3>5
    <2> QED  BY <1>5, <2>1, <2>2 DEF ListsAreWaiting
  <1>14. WaitingIsListed'
    <2>1. \A g \in FlightId : flight[g].waiters \subseteq flight'[g].waiters
      BY <1>4, <1>5
    <2>2. w \in flight'[f].waiters
      BY <1>4, <1>5
    <2>3. OnList(w, f)'
      BY <1>2, <1>6, <1>8, <2>2 DEF OnList
    <2>4. ASSUME NEW v \in Waiter, v /= w, waiter[v].step = "waiting"
          PROVE  \E g \in FlightId : OnList(v, g)'
      <3>1. PICK g \in FlightId : OnList(v, g)
        BY <2>4 DEF WaitingIsListed
      <3>2. OnList(v, g)'
        BY <1>6, <1>8, <2>1, <2>4, <3>1 DEF OnList
      <3> QED  BY <3>2
    <2> QED  BY <1>2, <1>5, <1>6, <2>3, <2>4 DEF WaitingIsListed
  <1>15. ToldEmpty'
    BY <1>5, <1>6, <1>8 DEF ToldEmpty, WaitingIsListed
  <1> QED  BY <1>9, <1>10, <1>11, <1>12, <1>13, <1>14, <1>15

LEMMA LeadKeeps ==
    ASSUME FetchInv, KeyOf \in [Waiter -> Key], NoFlight \notin Nat,
           NEW w \in Waiter, waiter[w].step = "new", Lead(w)
    PROVE  FetchInv'
  <1> USE DEF FetchInv
  <1>0. PICK f \in Nat \ {0} : f = Len(flight) + 1
    BY DEF Types
  <1>1. PICK new \in Flight :
           new = [key |-> KeyOf[w], stage |-> "queued", open |-> TRUE,
                  waiters |-> {w}, references |-> {ReferenceOf[w]},
                  claimed |-> 0, out |-> 0, exhausted |-> FALSE]
    <2>1. [key |-> KeyOf[w], stage |-> "queued", open |-> TRUE,
           waiters |-> {w}, references |-> {ReferenceOf[w]},
           claimed |-> 0, out |-> 0, exhausted |-> FALSE] \in Flight
      BY DEF Flight, Reference, Stages
    <2> QED  BY <2>1
  <1>2. /\ new.key = KeyOf[w] /\ new.stage = "queued" /\ new.open /\ new.waiters = {w}
        /\ new.claimed = 0 /\ new.out = 0 /\ ~new.exhausted
    BY <1>1
  <1>3. /\ flights[KeyOf[w]] = NoFlight
        /\ flights' = [flights EXCEPT ![KeyOf[w]] = f]
        /\ flight' = Append(flight, new)
        /\ port' = Append(port, f)
        /\ waiter' = [waiter EXCEPT ![w].step = "waiting", ![w].flight_id = f]
    BY <1>0, <1>1 DEF Lead
  <1>4. /\ flight' \in Seq(Flight) /\ FlightId' = FlightId \cup {f} /\ f \notin FlightId
        /\ flight'[f] = new
        /\ \A g \in FlightId : flight'[g] = flight[g]
    BY <1>0, <1>3 DEF Types, FlightId
  <1>5. /\ waiter' \in [Waiter -> Waiters]
        /\ waiter'[w].step = "waiting" /\ waiter'[w].flight_id = f
        /\ waiter'[w].result = waiter[w].result
        /\ \A v \in Waiter : v /= w => waiter'[v] = waiter[v]
    BY <1>3 DEF Types, Waiters
  <1>6. /\ flights' \in [Key -> Nat \cup {NoFlight}] /\ flights'[KeyOf[w]] = f
        /\ \A k \in Key : k /= KeyOf[w] => flights'[k] = flights[k]
    BY <1>3 DEF Types
  <1>7. \A g \in FlightId : g \in Nat /\ g /= f /\ flight[g].key \in Key
    BY <1>4, FlightFacts DEF Types
  <1>8. Registered(f)' /\ \A g \in FlightId : Registered(g)' <=> Registered(g)
    <2>1. Registered(f)'
      BY <1>2, <1>4, <1>6 DEF Registered
    <2>2. ASSUME NEW g \in FlightId PROVE Registered(g)' <=> Registered(g)
      <3>1. g /= NoFlight /\ g /= f /\ flight'[g].key = flight[g].key
        BY <1>4, <1>7
      <3> QED  BY <1>3, <1>6, <1>7, <3>1 DEF Registered
    <2> QED  BY <2>1, <2>2
  <1>9. \A g \in FlightId : w \notin flight[g].waiters
    BY DEF ListsAreWaiting
  <1>10. Types'
    BY <1>3, <1>4, <1>5, <1>6 DEF Types
  <1>11. RegistryIsCurrent'
    BY <1>2, <1>4, <1>6, <1>7 DEF RegistryIsCurrent
  <1>12. PortIsQueued'
    <2>1. /\ DOMAIN port' = DOMAIN port \cup {Len(port) + 1} /\ port'[Len(port) + 1] = f
          /\ \A i \in DOMAIN port : port'[i] = port[i]
      BY <1>3 DEF Types
    <2>2. \A i \in DOMAIN port : port[i] \in FlightId /\ port[i] /= f
      BY <1>4 DEF PortIsQueued
    <2>3. \A i \in DOMAIN port' : port'[i] \in FlightId' /\ flight'[port'[i]].stage = "queued"
      BY <1>2, <1>4, <2>1, <2>2 DEF PortIsQueued
    <2>4. \A i, j \in DOMAIN port' : i /= j => port'[i] /= port'[j]
      BY <2>1, <2>2 DEF PortIsQueued
    <2> QED  BY <2>3, <2>4 DEF PortIsQueued
  <1>13. LostFlightsRest'
    BY <1>4, <1>8 DEF LostFlightsRest
  <1>14. ListsAreWaiting'
    <2>1. ASSUME NEW g \in FlightId
          PROVE  \A v \in flight[g].waiters : waiter'[v] = waiter[v]
      BY <1>5, <1>9, FlightFacts DEF Types
    <2> QED  BY <1>2, <1>4, <1>5, <2>1 DEF ListsAreWaiting
  <1>15. WaitingIsListed'
    <2>1. OnList(w, f)'
      BY <1>2, <1>4, <1>5, <1>8 DEF OnList
    <2>2. \A v \in Waiter, g \in FlightId : v /= w /\ OnList(v, g) => OnList(v, g)'
      BY <1>4, <1>5, <1>8 DEF OnList
    <2> QED  BY <1>4, <1>5, <2>1, <2>2 DEF WaitingIsListed
  <1>16. ToldEmpty'
    BY <1>4, <1>5 DEF ToldEmpty, WaitingIsListed
  <1> QED  BY <1>10, <1>11, <1>12, <1>13, <1>14, <1>15, <1>16

\* The caller that leaves, and the flight it leaves.
LEMMA LeaveKeeps ==
    ASSUME FetchInv, NoFlight \notin Nat, NEW w \in Waiter, Leave(w)
    PROVE  FetchInv'
  <1> USE DEF FetchInv
  <1>0. PICK f \in {0} \cup FlightId : f = waiter[w].flight_id
    BY DEF WaitingIsListed
  <1>1. /\ waiter[w].step \in {"waiting", "answered"} /\ port' = port
        /\ waiter' = [waiter EXCEPT ![w].step = "left"]
    BY DEF Leave
  <1>2. /\ waiter' \in [Waiter -> Waiters] /\ waiter'[w].step = "left"
        /\ \A v \in Waiter : v /= w => waiter'[v] = waiter[v]
        /\ \A v \in Waiter : /\ waiter'[v].flight_id = waiter[v].flight_id
                            /\ waiter'[v].result = waiter[v].result
                            /\ waiter'[v].late = waiter[v].late
    BY <1>1 DEF Types, Waiters
  <1>3. \A g \in FlightId : /\ g \in Nat \ {0} /\ flight[g] \in Flight
                            /\ flight[g].key \in Key /\ flight[g].waiters \subseteq Waiter
    BY FlightFacts DEF Types, FlightId
  <1>4. CASE ~IsWaiter(w, f)
    <2>1. flights' = flights /\ flight' = flight /\ FlightId' = FlightId
      BY <1>0, <1>4 DEF Leave, remove_raw_fetch_waiter, FlightId
    <2>2. waiter[w].step = "answered"
      <3>1. SUFFICES ASSUME waiter[w].step = "waiting" PROVE FALSE
        BY <1>1
      <3>2. PICK g \in FlightId : OnList(w, g)
        BY <3>1 DEF WaitingIsListed
      <3>3. g = f /\ g /= 0
        BY <1>0, <1>3, <3>2 DEF OnList
      <3> QED  BY <1>4, <3>2, <3>3 DEF IsWaiter, OnList
    <2>3. \A g \in FlightId : w \notin flight[g].waiters
      BY <2>2 DEF ListsAreWaiting
    <2>4. Types' /\ RegistryIsCurrent' /\ PortIsQueued' /\ LostFlightsRest'
      BY <1>1, <1>2, <2>1
      DEF Types, RegistryIsCurrent, PortIsQueued, LostFlightsRest, Registered
    <2>5. ListsAreWaiting'
      <3>1. \A g \in FlightId : \A v \in flight[g].waiters : waiter'[v] = waiter[v]
        BY <1>2, <1>3, <2>3
      <3> QED  BY <2>1, <3>1 DEF ListsAreWaiting
    <2>6. \A v \in Waiter, g \in FlightId : v /= w /\ OnList(v, g) => OnList(v, g)'
      BY <1>2, <2>1 DEF OnList, Registered
    <2>7. WaitingIsListed'
      BY <1>2, <2>1, <2>6 DEF WaitingIsListed
    <2>8. ToldEmpty'
      BY <1>2, <2>1 DEF ToldEmpty
    <2> QED  BY <2>4, <2>5, <2>7, <2>8
  <1>5. CASE IsWaiter(w, f)
    <2>1. /\ f \in FlightId /\ Registered(f) /\ w \in flight[f].waiters
          /\ flight[f] \in Flight /\ flight[f].key \in Key
      BY <1>3, <1>5 DEF IsWaiter
    <2>2. PICK new \in Flight :
             new = [flight[f] EXCEPT !.waiters = @ \ {w}, !.open = StaysOpen(w, f)]
      <3>1. [flight[f] EXCEPT !.waiters = @ \ {w}, !.open = StaysOpen(w, f)] \in Flight
        BY <2>1 DEF Flight, StaysOpen
      <3> QED  BY <3>1
    <2>3. /\ new.key = flight[f].key /\ new.stage = flight[f].stage
          /\ new.waiters = flight[f].waiters \ {w}
          /\ new.claimed = flight[f].claimed /\ new.out = flight[f].out
          /\ new.exhausted = flight[f].exhausted
      BY <2>1, <2>2 DEF Flight
    <2>4. new.open <=> flight[f].open /\ flight[f].waiters /= {w}
      BY <2>1, <2>2 DEF Flight, StaysOpen, IsLast
    <2>5. flight' = [flight EXCEPT ![f] = new]
      <3>1. flight' = [flight EXCEPT ![f].waiters = @ \ {w}, ![f].open = StaysOpen(w, f)]
        BY <1>0, <1>5 DEF Leave, remove_raw_fetch_waiter
      <3> QED  BY <2>1, <2>2, <3>1 DEF Flight
    <2>6. /\ flight' \in Seq(Flight) /\ FlightId' = FlightId
          /\ flight'[f] = new
          /\ \A g \in FlightId : g /= f => flight'[g] = flight[g]
      BY <2>1, <2>5, Changed DEF Types
    <2>7. /\ flights' \in [Key -> Nat \cup {NoFlight}]
          /\ \A k \in Key : flights'[k] = flights[k] \/ (flights'[k] = NoFlight /\ flights[k] = f)
          /\ \/ flights' = flights
             \/ flights'[flight[f].key] = NoFlight /\ flight[f].waiters = {w} /\ flight[f].claimed = 0
      <3>1. flights' = IF IsLast(w, f) /\ TakesFlight(f)
                       THEN [flights EXCEPT ![flight[f].key] = NoFlight] ELSE flights
        BY <1>0, <1>5 DEF Leave, remove_raw_fetch_waiter
      <3> QED  BY <2>1, <3>1 DEF Types, IsLast, TakesFlight, Registered
    <2>8. \A g \in FlightId :
             /\ flight'[g].key = flight[g].key /\ flight'[g].stage = flight[g].stage
             /\ flight'[g].claimed = flight[g].claimed /\ flight'[g].out = flight[g].out
             /\ flight'[g].exhausted = flight[g].exhausted
             /\ flight'[g].waiters = flight[g].waiters \ {w}
      <3>1. \A g \in FlightId : g /= f => w \notin flight[g].waiters
        BY <2>1 DEF ListsAreWaiting
      <3> QED  BY <2>3, <2>6, <3>1
    <2>9. \A g \in FlightId : g /= f => (Registered(g)' <=> Registered(g))
      <3>1. ASSUME NEW g \in FlightId, g /= f PROVE Registered(g)' <=> Registered(g)
        <4>1. g /= NoFlight /\ flight'[g].key = flight[g].key /\ flight[g].key \in Key
          BY <1>3, <2>8
        <4> QED  BY <2>7, <3>1, <4>1 DEF Registered
      <3> QED  BY <3>1
    <2>10. Registered(f)' \/ (flight[f].waiters = {w} /\ flight[f].claimed = 0)
      BY <2>1, <2>7, <2>8 DEF Registered
    <2>11. Types' /\ RegistryIsCurrent' /\ PortIsQueued'
      <3>1. Types'
        BY <1>1, <1>2, <2>6, <2>7 DEF Types
      <3>2. RegistryIsCurrent'
        BY <2>6, <2>7, <2>8 DEF RegistryIsCurrent
      <3>3. PortIsQueued'
        BY <1>1, <2>6, <2>8, PortStays
      <3> QED  BY <3>1, <3>2, <3>3
    <2>12. LostFlightsRest'
      <3>1. ASSUME NEW g \in FlightId, ~Registered(g)'
            PROVE  /\ ~flight'[g].open /\ flight'[g].waiters = {}
                   /\ flight'[g].stage /= "done" => flight'[g].claimed = 0
        <4>1. CASE g = f
          BY <2>3, <2>4, <2>6, <2>10, <3>1, <4>1
        <4>2. CASE g /= f
          BY <2>6, <2>9, <3>1, <4>2 DEF LostFlightsRest
        <4> QED  BY <4>1, <4>2
      <3> QED  BY <2>6, <3>1 DEF LostFlightsRest
    <2>13. ListsAreWaiting'
      <3>1. ASSUME NEW g \in FlightId, NEW v \in flight'[g].waiters
            PROVE  /\ waiter'[v].step = "waiting" /\ waiter'[v].flight_id = g
                   /\ waiter'[v].late \/ flight'[g].open
        <4>1. v /= w /\ v \in flight[g].waiters /\ waiter'[v] = waiter[v]
          BY <1>2, <1>3, <2>8
        <4>2. waiter[v].late \/ flight[g].open
          BY <4>1 DEF ListsAreWaiting
        <4>3. flight[g].open => flight'[g].open
          BY <2>4, <2>6, <4>1
        <4> QED  BY <4>1, <4>2, <4>3 DEF ListsAreWaiting
      <3>2. ASSUME NEW g \in FlightId, flight'[g].open PROVE flight'[g].waiters /= {}
        <4>1. CASE g = f
          BY <2>1, <2>3, <2>4, <2>6, <3>2, <4>1
        <4>2. CASE g /= f
          BY <2>6, <3>2, <4>2 DEF ListsAreWaiting
        <4> QED  BY <4>1, <4>2
      <3>3. \A g \in FlightId : flight'[g].out <= flight'[g].claimed
        BY <2>8 DEF ListsAreWaiting
      <3> QED  BY <2>6, <3>1, <3>2, <3>3 DEF ListsAreWaiting
    <2>14. WaitingIsListed'
      <3>1. ASSUME NEW v \in Waiter, NEW g \in FlightId, v /= w, OnList(v, g)
            PROVE  OnList(v, g)'
        <4>1. Registered(g)'
          BY <2>9, <2>10, <3>1 DEF OnList
        <4> QED  BY <1>2, <2>8, <3>1, <4>1 DEF OnList
      <3> QED  BY <1>2, <2>6, <3>1 DEF WaitingIsListed
    <2>15. ToldEmpty'
      BY <1>2, <2>6, <2>8 DEF ToldEmpty
    <2> QED  BY <2>11, <2>12, <2>13, <2>14, <2>15
  <1> QED  BY <1>4, <1>5

-----------------------------------------------------------------------------
(* Flights end.                                                            *)

\* What a completion leaves of the invariant, whoever completes: all but
\* the port.
LEMMA CompleteKeeps ==
    ASSUME FetchInv, NoFlight \notin Nat, NEW f \in FlightId, flight[f].stage /= "done",
           NEW result \in Results, Complete(f, result)
    PROVE  /\ flights' \in [Key -> Nat \cup {NoFlight}] /\ flight' \in Seq(Flight)
           /\ waiter' \in [Waiter -> Waiters]
           /\ RegistryIsCurrent' /\ LostFlightsRest' /\ ListsAreWaiting'
           /\ WaitingIsListed' /\ ToldEmpty'
           /\ FlightId' = FlightId /\ \A g \in FlightId : g /= f => flight'[g] = flight[g]
  <1> USE DEF FetchInv
  <1>1. \A g \in FlightId : /\ g \in Nat \ {0} /\ flight[g] \in Flight
                            /\ flight[g].key \in Key /\ flight[g].open \in BOOLEAN
                            /\ flight[g].waiters \subseteq Waiter
    BY FlightFacts DEF Types, FlightId
  <1>2. CASE ~Registered(f)
    <2>1. PICK new \in Flight :
             new = [flight[f] EXCEPT !.stage = "done", !.exhausted = flight[f].open]
      <3>1. PICK open \in BOOLEAN : open = flight[f].open
        BY <1>1
      <3>0. flight[f] \in Flight
        BY <1>1
      <3>2. [flight[f] EXCEPT !.stage = "done", !.exhausted = open] \in Flight
        BY <3>0 DEF Flight, Stages
      <3>3. [flight[f] EXCEPT !.stage = "done", !.exhausted = open] =
              [flight[f] EXCEPT !.stage = "done", !.exhausted = flight[f].open]
        BY <3>1
      <3> QED  BY <3>1, <3>2, <3>3
    <2>2. /\ new.key = flight[f].key /\ new.stage = "done"
          /\ new.waiters = flight[f].waiters
          /\ new.claimed = flight[f].claimed /\ new.out = flight[f].out
          /\ new.open = flight[f].open
      BY <1>1, <2>1 DEF Flight
    <2>3. /\ flight' = [flight EXCEPT ![f] = new]
          /\ UNCHANGED <<flights, waiter, cache>>
      <3>1. /\ flight' = [flight EXCEPT ![f].stage = "done", ![f].exhausted = flight[f].open]
            /\ UNCHANGED <<flights, waiter, cache>>
        BY <1>2 DEF Complete, Takes
      <3> QED  BY <1>1, <2>1, <3>1 DEF Flight
    <2>4. /\ flight' \in Seq(Flight) /\ FlightId' = FlightId
          /\ flight'[f] = new
          /\ \A g \in FlightId : g /= f => flight'[g] = flight[g]
      BY <2>3, Changed DEF Types
    <2>5. \A g \in FlightId :
             /\ flight'[g].key = flight[g].key /\ flight'[g].open = flight[g].open
             /\ flight'[g].waiters = flight[g].waiters
             /\ flight'[g].claimed = flight[g].claimed /\ flight'[g].out = flight[g].out
      BY <2>2, <2>4
    <2>6. \A g \in FlightId : Registered(g)' <=> Registered(g)
      BY <2>3, <2>5 DEF Registered
    <2>7. RegistryIsCurrent'
      <3>1. ASSUME NEW k \in Key, flights[k] /= NoFlight PROVE flights[k] \in FlightId \ {f}
        BY <1>2, <3>1 DEF RegistryIsCurrent, Registered
      <3> QED  BY <2>3, <2>4, <3>1 DEF RegistryIsCurrent
    <2>8. LostFlightsRest'
      <3>1. ASSUME NEW g \in FlightId, ~Registered(g)', flight'[g].stage /= "done"
            PROVE  flight'[g].claimed = 0
        <4>1. g /= f
          BY <2>2, <2>4, <3>1
        <4> QED  BY <2>4, <2>6, <3>1, <4>1 DEF LostFlightsRest
      <3>2. ASSUME NEW g \in FlightId, ~Registered(g)'
            PROVE  ~flight'[g].open /\ flight'[g].waiters = {}
        BY <2>5, <2>6, <3>2 DEF LostFlightsRest
      <3> QED  BY <2>4, <3>1, <3>2 DEF LostFlightsRest
    <2>9. ListsAreWaiting'
      BY <2>3, <2>4, <2>5 DEF ListsAreWaiting
    <2>10. WaitingIsListed'
      <3>1. \A v \in Waiter, g \in FlightId : OnList(v, g) => OnList(v, g)'
        BY <2>3, <2>5, <2>6 DEF OnList
      <3> QED  BY <2>3, <2>4, <3>1 DEF WaitingIsListed
    <2>11. ToldEmpty'
      <3>1. ASSUME NEW v \in Waiter, waiter[v].result = "empty", ~waiter[v].late
            PROVE  waiter[v].flight_id \in FlightId \ {f}
        BY <3>1 DEF ToldEmpty
      <3> QED  BY <2>3, <2>4, <3>1 DEF ToldEmpty
    <2> QED  BY <2>3, <2>4, <2>7, <2>8, <2>9, <2>10, <2>11 DEF Types
  <1>3. CASE Registered(f)
    <2>1. PICK new \in Flight :
             new = [flight[f] EXCEPT !.stage = "done", !.exhausted = flight[f].open,
                                     !.open = FALSE, !.waiters = {}]
      <3>1. PICK open \in BOOLEAN : open = flight[f].open
        BY <1>1
      <3>0. flight[f] \in Flight
        BY <1>1
      <3>2. [flight[f] EXCEPT !.stage = "done", !.exhausted = open,
                              !.open = FALSE, !.waiters = {}] \in Flight
        BY <3>0 DEF Flight, Stages
      <3> QED  BY <3>1, <3>2
    <2>2. /\ new.key = flight[f].key /\ new.stage = "done" /\ ~new.open /\ new.waiters = {}
          /\ new.claimed = flight[f].claimed /\ new.out = flight[f].out
      BY <1>1, <2>1 DEF Flight
    <2>3. new.exhausted <=> flight[f].open
      BY <1>1, <2>1 DEF Flight
    <2>4. flight' = [flight EXCEPT ![f] = new]
      <3>1. flight' = [[flight EXCEPT ![f].stage = "done", ![f].exhausted = flight[f].open]
                          EXCEPT ![f].open = FALSE, ![f].waiters = {}]
        BY <1>3 DEF Complete, Takes, Registered
      <3> QED  BY <1>1, <2>1, <3>1 DEF Flight
    <2>5. /\ flight' \in Seq(Flight) /\ FlightId' = FlightId
          /\ flight'[f] = new
          /\ \A g \in FlightId : g /= f => flight'[g] = flight[g]
      BY <2>4, Changed DEF Types
    <2>6. flights' = [flights EXCEPT ![flight[f].key] = NoFlight]
      BY <1>3 DEF Complete, Takes
    <2>7. waiter' = [w \in Waiter |->
                       IF w \in flight[f].waiters /\ waiter[w].step = "waiting"
                       THEN [waiter[w] EXCEPT !.step = "answered", !.result = result]
                       ELSE waiter[w]]
      BY <1>3 DEF Complete, Takes, Registered
    <2>8. \A v \in flight[f].waiters :
             /\ v \in Waiter /\ waiter'[v] \in Waiters
             /\ waiter'[v].step = "answered" /\ waiter'[v].flight_id = f
             /\ waiter'[v].late = waiter[v].late
      <3>1. ASSUME NEW v \in flight[f].waiters
            PROVE  v \in Waiter /\ waiter[v].step = "waiting" /\ waiter[v].flight_id = f /\ waiter[v] \in Waiters
        BY <1>1 DEF ListsAreWaiting, Types
      <3>2. ASSUME NEW v \in flight[f].waiters
            PROVE  waiter'[v] = [waiter[v] EXCEPT !.step = "answered", !.result = result]
        BY <2>7, <3>1
      <3>3. \A w \in Waiters : /\ [w EXCEPT !.step = "answered", !.result = result] \in Waiters
                               /\ [w EXCEPT !.step = "answered", !.result = result].step = "answered"
                               /\ [w EXCEPT !.step = "answered", !.result = result].flight_id = w.flight_id
                               /\ [w EXCEPT !.step = "answered", !.result = result].late = w.late
        BY DEF Waiters
      <3>4. ASSUME NEW v \in flight[f].waiters
            PROVE  /\ v \in Waiter /\ waiter'[v] \in Waiters
                   /\ waiter'[v].step = "answered" /\ waiter'[v].flight_id = f
                   /\ waiter'[v].late = waiter[v].late
        <4>1. PICK w \in Waiters : w = waiter[v]
          BY <3>1
        <4>2. PICK answered \in {[w EXCEPT !.step = "answered", !.result = result]} : waiter'[v] = answered
          BY <3>2, <4>1
        <4>3. v \in Waiter /\ w.flight_id = f
          BY <3>1, <4>1
        <4> QED  BY <3>3, <4>1, <4>2, <4>3, Zenon
      <3> QED  BY <3>4
    <2>9. \A v \in Waiter : v \notin flight[f].waiters => waiter'[v] = waiter[v]
      BY <2>7
    <2>10. waiter' \in [Waiter -> Waiters]
      <3>1. \A v \in Waiter : waiter'[v] \in Waiters
        BY <2>8, <2>9 DEF Types
      <3> QED  BY <2>7, <3>1
    <2>11. \A g \in FlightId : g /= f => (Registered(g)' <=> Registered(g))
      <3>1. ASSUME NEW g \in FlightId, g /= f PROVE Registered(g)' <=> Registered(g)
        <4>1. g /= NoFlight /\ flight'[g].key = flight[g].key /\ flight[g].key \in Key
          BY <1>1, <2>5, <3>1
        <4> QED  BY <1>3, <2>6, <3>1, <4>1 DEF Registered, Types
      <3> QED  BY <3>1
    <2>12. /\ flights' \in [Key -> Nat \cup {NoFlight}]
           /\ \A k \in Key : flights'[k] /= NoFlight => flights'[k] = flights[k] /\ k /= flight[f].key
      BY <2>6 DEF Types
    <2>13. RegistryIsCurrent'
      <3>1. ASSUME NEW k \in Key, flights'[k] /= NoFlight
            PROVE  flights'[k] = flights[k] /\ flights[k] \in FlightId \ {f}
        BY <2>12, <3>1 DEF RegistryIsCurrent
      <3> QED  BY <2>5, <3>1 DEF RegistryIsCurrent
    <2>14. LostFlightsRest'
      BY <2>2, <2>5, <2>11 DEF LostFlightsRest
    <2>15. ListsAreWaiting'
      <3>1. ASSUME NEW g \in FlightId, NEW v \in flight'[g].waiters
            PROVE  /\ waiter'[v].step = "waiting" /\ waiter'[v].flight_id = g
                   /\ waiter'[v].late \/ flight'[g].open
        <4>1. g /= f /\ v \in flight[g].waiters /\ v \in Waiter
          BY <1>1, <2>2, <2>5
        <4>2. v \notin flight[f].waiters
          BY <4>1 DEF ListsAreWaiting
        <4> QED  BY <2>5, <2>9, <4>1, <4>2 DEF ListsAreWaiting
      <3>2. \A g \in FlightId : flight'[g].open => flight'[g].waiters /= {}
        BY <2>2, <2>5 DEF ListsAreWaiting
      <3>3. \A g \in FlightId : flight'[g].out <= flight'[g].claimed
        BY <2>2, <2>5 DEF ListsAreWaiting
      <3> QED  BY <2>5, <3>1, <3>2, <3>3 DEF ListsAreWaiting
    <2>16. WaitingIsListed'
      <3>1. ASSUME NEW v \in Waiter, NEW g \in FlightId, v \notin flight[f].waiters, OnList(v, g)
            PROVE  OnList(v, g)'
        <4>1. g /= f
          BY <3>1 DEF OnList
        <4> QED  BY <2>5, <2>9, <2>11, <3>1, <4>1 DEF OnList
      <3>2. ASSUME NEW v \in Waiter, v \notin flight[f].waiters, waiter'[v].step = "waiting"
            PROVE  \E g \in FlightId : OnList(v, g)'
        <4>1. PICK g \in FlightId : OnList(v, g)
          BY <2>9, <3>2 DEF WaitingIsListed
        <4> QED  BY <3>1, <3>2, <4>1
      <3> QED  BY <2>5, <2>8, <2>9, <3>2 DEF WaitingIsListed
    <2>17. ToldEmpty'
      <3>1. ASSUME NEW v \in flight[f].waiters
            PROVE  waiter'[v].late \/ flight'[f].exhausted
        <4>1. waiter[v].late \/ flight[f].open
          BY DEF ListsAreWaiting
        <4> QED  BY <2>3, <2>5, <2>8, <4>1
      <3>2. ASSUME NEW v \in Waiter, v \notin flight[f].waiters, waiter[v].result = "empty"
            PROVE  /\ waiter[v].flight_id \in FlightId
                   /\ \/ waiter[v].late
                      \/ /\ flight'[waiter[v].flight_id].stage = "done"
                         /\ flight'[waiter[v].flight_id].exhausted
        <4>1. PICK g \in FlightId : g = waiter[v].flight_id
          BY <3>2 DEF ToldEmpty
        <4>2. waiter[v].late \/ (flight[g].stage = "done" /\ flight[g].exhausted)
          BY <3>2, <4>1 DEF ToldEmpty
        <4>3. CASE waiter[v].late
          BY <4>1, <4>3
        <4>4. CASE flight[g].stage = "done" /\ flight[g].exhausted
          BY <2>5, <4>1, <4>4
        <4> QED  BY <4>2, <4>3, <4>4
      <3> QED  BY <2>2, <2>5, <2>8, <2>9, <3>1, <3>2 DEF ToldEmpty
    <2> QED  BY <2>5, <2>10, <2>12, <2>13, <2>14, <2>15, <2>16, <2>17
  <1> QED  BY <1>2, <1>3

\* The dispatcher takes the first request of the port: it ends it or spawns
\* its task, and no other place of the port holds it.
LEMMA DispatchKeeps ==
    ASSUME FetchInv, NoFlight \notin Nat, Dispatch
    PROVE  FetchInv'
  <1> USE DEF FetchInv
  <1>0. port \in Seq(Nat) /\ port /= <<>> /\ port' = Tail(port)
    BY DEF Dispatch, Types
  <1>1. PICK f \in FlightId : f = Head(port) /\ f = port[1] /\ flight[f].stage = "queued"
    BY <1>0 DEF PortIsQueued
  <1>2. /\ port' \in Seq(Nat)
        /\ \A i \in DOMAIN port' : i + 1 \in DOMAIN port /\ i \in Nat \ {0} /\ port'[i] = port[i + 1]
    BY <1>0
  <1>3. \A i \in DOMAIN port' : port'[i] \in FlightId \ {f} /\ flight[port'[i]].stage = "queued"
    <2>1. 1 \in DOMAIN port
      BY <1>0
    <2>2. ASSUME NEW i \in DOMAIN port' PROVE port[i + 1] /= port[1]
      BY <1>2, <2>1 DEF PortIsQueued
    <2> QED  BY <1>1, <1>2, <2>2 DEF PortIsQueued
  <1>4. \A i, j \in DOMAIN port' : i /= j => port'[i] /= port'[j]
    <2>1. ASSUME NEW i \in DOMAIN port', NEW j \in DOMAIN port', i /= j PROVE i + 1 /= j + 1
      BY <1>2, <2>1
    <2> QED  BY <1>2, <2>1 DEF PortIsQueued
  <1>5. ASSUME FlightId' = FlightId, \A g \in FlightId : g /= f => flight'[g] = flight[g]
        PROVE  PortIsQueued'
    BY <1>3, <1>4, <1>5 DEF PortIsQueued
  <1>6. CASE Complete(f, "empty")
    <2>1. "empty" \in Results /\ flight[f].stage /= "done"
      BY <1>1 DEF Results
    <2> HIDE DEF FetchInv
    <2>2. /\ flights' \in [Key -> Nat \cup {NoFlight}] /\ flight' \in Seq(Flight)
          /\ waiter' \in [Waiter -> Waiters]
          /\ RegistryIsCurrent' /\ LostFlightsRest' /\ ListsAreWaiting'
          /\ WaitingIsListed' /\ ToldEmpty'
          /\ FlightId' = FlightId /\ \A g \in FlightId : g /= f => flight'[g] = flight[g]
      BY <1>6, <2>1, CompleteKeeps
    <2>3. PortIsQueued'
      BY <1>5, <2>2
    <2> QED  BY <1>2, <2>2, <2>3 DEF FetchInv, Types
  <1>7. CASE /\ flight[f].open /\ flight' = [flight EXCEPT ![f].stage = "spawned"]
             /\ UNCHANGED <<flights, waiter, cache>>
    <2>1. flight[f] \in Flight
      BY FlightFacts DEF Types
    <2>2. PICK new \in Flight : new = [flight[f] EXCEPT !.stage = "spawned"]
      <3>1. [flight[f] EXCEPT !.stage = "spawned"] \in Flight
        BY <2>1 DEF Flight, Stages
      <3> QED  BY <3>1
    <2>3. /\ new.key = flight[f].key /\ new.open = flight[f].open
          /\ new.waiters = flight[f].waiters /\ new.exhausted = flight[f].exhausted
          /\ new.claimed = flight[f].claimed /\ new.out = flight[f].out /\ new.stage = "spawned"
      BY <2>1, <2>2 DEF Flight
    <2>4. flight' = [flight EXCEPT ![f] = new]
      BY <1>7, <2>1, <2>2 DEF Flight
    <2>5. new.out <= new.claimed
      BY <2>3 DEF ListsAreWaiting
    <2> HIDE DEF FetchInv
    <2>6. /\ RegistryIsCurrent' /\ LostFlightsRest' /\ ListsAreWaiting'
          /\ WaitingIsListed' /\ ToldEmpty' /\ flight' \in Seq(Flight)
          /\ FlightId' = FlightId
          /\ \A g \in FlightId : g /= f => flight'[g] = flight[g]
      BY <1>1, <1>7, <2>3, <2>4, <2>5, FlightWorks
    <2>7. PortIsQueued'
      BY <1>5, <2>6
    <2> QED  BY <1>2, <1>7, <2>6, <2>7 DEF FetchInv, Types
  <1> QED  BY <1>1, <1>6, <1>7 DEF Dispatch

\* A completion outside the dispatcher: the flight has left the port.
LEMMA EndKeeps ==
    ASSUME FetchInv, NoFlight \notin Nat, port' = port,
           NEW f \in FlightId, flight[f].stage \in {"spawned", "running"},
           NEW result \in Results, Complete(f, result)
    PROVE  FetchInv'
  <1>1. /\ flights' \in [Key -> Nat \cup {NoFlight}] /\ flight' \in Seq(Flight)
        /\ waiter' \in [Waiter -> Waiters]
        /\ RegistryIsCurrent' /\ LostFlightsRest' /\ ListsAreWaiting'
        /\ WaitingIsListed' /\ ToldEmpty'
        /\ FlightId' = FlightId /\ \A g \in FlightId : g /= f => flight'[g] = flight[g]
    BY CompleteKeeps
  <1>2. PortIsQueued' /\ port' \in Seq(Nat)
    BY <1>1, PortStays
  <1> QED  BY <1>1, <1>2 DEF FetchInv, Types

\* A step of a dispatched flight's task that does not end it.
LEMMA WorkKeeps ==
    ASSUME FetchInv, UNCHANGED <<flights, waiter, port>>,
           NEW f \in FlightId, NEW new \in Flight, flight' = [flight EXCEPT ![f] = new],
           new.key = flight[f].key, new.open = flight[f].open,
           new.waiters = flight[f].waiters, new.exhausted = flight[f].exhausted,
           new.out <= new.claimed,
           new.stage = "done" <=> flight[f].stage = "done",
           flight[f].stage = "queued" => new.stage = "queued",
           flight[f].open \/ flight[f].claimed = new.claimed
    PROVE  FetchInv'
  <1>1. /\ RegistryIsCurrent' /\ LostFlightsRest' /\ ListsAreWaiting'
        /\ WaitingIsListed' /\ ToldEmpty' /\ flight' \in Seq(Flight)
        /\ FlightId' = FlightId
        /\ \A g \in FlightId : g /= f => flight'[g] = flight[g]
    BY FlightWorks
  <1>2. flight'[f] = new
    BY Changed DEF FetchInv, Types
  <1>3. PortIsQueued' /\ port' \in Seq(Nat)
    BY <1>1, <1>2, PortStays
  <1> QED  BY <1>1, <1>3 DEF FetchInv, Types

LEMMA TaskKeeps ==
    ASSUME FetchInv, NoFlight \notin Nat, NEW f \in FlightId,
           AcquirePermit(f) \/ Claim(f) \/ Settle(f) \/ Answer(f)
    PROVE  FetchInv'
  <1>1. /\ flight[f] \in Flight /\ flight[f].claimed \in Nat /\ flight[f].out \in Nat
        /\ flight[f].out <= flight[f].claimed
    BY FlightFacts DEF FetchInv, Types, ListsAreWaiting
  <1>2. CASE AcquirePermit(f)
    <2>1. CASE Complete(f, "empty")
      BY <1>2, <2>1, EndKeeps DEF AcquirePermit, Results
    <2>2. CASE flight' = [flight EXCEPT ![f].stage = "running"] /\ UNCHANGED <<flights, waiter, cache>>
      <3>1. PICK new \in Flight : new = [flight[f] EXCEPT !.stage = "running"]
        <4>1. [flight[f] EXCEPT !.stage = "running"] \in Flight
          BY <1>1 DEF Flight, Stages
        <4> QED  BY <4>1
      <3>2. /\ new.key = flight[f].key /\ new.open = flight[f].open
            /\ new.waiters = flight[f].waiters /\ new.exhausted = flight[f].exhausted
            /\ new.claimed = flight[f].claimed /\ new.out = flight[f].out /\ new.stage = "running"
        BY <1>1, <3>1 DEF Flight
      <3>3. flight' = [flight EXCEPT ![f] = new]
        BY <1>1, <2>2, <3>1 DEF Flight
      <3>4. flight[f].stage = "spawned" /\ UNCHANGED <<flights, waiter, port>>
        BY <1>2, <2>2 DEF AcquirePermit
      <3> QED  BY <1>1, <3>2, <3>3, <3>4, WorkKeeps
    <2> QED  BY <1>2, <2>1, <2>2 DEF AcquirePermit
  <1>3. CASE Claim(f)
    <2>1. PICK new \in Flight : new = [flight[f] EXCEPT !.claimed = @ + 1, !.out = @ + 1]
      <3>1. flight[f].claimed + 1 \in Nat /\ flight[f].out + 1 \in Nat
        BY <1>1
      <3>2. [flight[f] EXCEPT !.claimed = @ + 1] \in Flight
        BY <1>1, <3>1 DEF Flight
      <3>3. [flight[f] EXCEPT !.claimed = @ + 1, !.out = @ + 1] \in Flight
        BY <1>1, <3>1, <3>2 DEF Flight
      <3> QED  BY <3>3
    <2>2. /\ new.key = flight[f].key /\ new.open = flight[f].open
          /\ new.waiters = flight[f].waiters /\ new.exhausted = flight[f].exhausted
          /\ new.claimed = flight[f].claimed + 1 /\ new.out = flight[f].out + 1
          /\ new.stage = flight[f].stage
      BY <1>1, <2>1 DEF Flight
    <2>3. /\ flight[f].open /\ UNCHANGED <<flights, waiter, port>>
          /\ flight' = [flight EXCEPT ![f].claimed = @ + 1, ![f].out = @ + 1]
      BY <1>3 DEF Claim
    <2>4. flight' = [flight EXCEPT ![f] = new]
      BY <1>1, <2>1, <2>3 DEF Flight
    <2>5. new.out <= new.claimed
      BY <1>1, <2>2
    <2>6. flight[f].open /\ UNCHANGED <<flights, waiter, port>>
      BY <2>3
    <2> QED  BY <1>1, <2>2, <2>4, <2>5, <2>6, WorkKeeps
  <1>4. CASE Settle(f)
    <2>1. PICK new \in Flight : new = [flight[f] EXCEPT !.out = @ - 1]
      <3>1. flight[f].out - 1 \in Nat
        BY <1>1, <1>4 DEF Settle
      <3>2. [flight[f] EXCEPT !.out = @ - 1] \in Flight
        BY <1>1, <3>1 DEF Flight
      <3> QED  BY <3>2
    <2>2. /\ new.key = flight[f].key /\ new.open = flight[f].open
          /\ new.waiters = flight[f].waiters /\ new.exhausted = flight[f].exhausted
          /\ new.claimed = flight[f].claimed /\ new.out = flight[f].out - 1
          /\ new.stage = flight[f].stage
      BY <1>1, <2>1 DEF Flight
    <2>3. /\ UNCHANGED <<flights, waiter, port>>
          /\ flight' = [flight EXCEPT ![f].out = @ - 1]
      BY <1>4 DEF Settle
    <2>4. flight' = [flight EXCEPT ![f] = new]
      BY <1>1, <2>1, <2>3 DEF Flight
    <2>5. new.out <= new.claimed
      BY <1>1, <2>2
    <2> QED  BY <2>2, <2>3, <2>4, <2>5, WorkKeeps
  <1>5. CASE Answer(f)
    <2>1. flight[f].stage = "running" /\ port' = port
      BY <1>5 DEF Answer
    <2>2. PICK result \in Results : Complete(f, result)
      BY <1>5 DEF Answer, Results
    <2> QED  BY <2>1, <2>2, EndKeeps
  <1> QED  BY <1>2, <1>3, <1>4, <1>5

-----------------------------------------------------------------------------
LEMMA FetchInit ==
    ASSUME Init
    PROVE  FetchInv
  <1>1. flights = [k \in Key |-> NoFlight] /\ flight = <<>> /\ port = <<>> /\ FlightId = {}
    BY DEF Init, FlightId
  <1>2. /\ waiter \in [Waiter -> Waiters]
        /\ \A w \in Waiter : /\ waiter[w].step = "new" /\ waiter[w].flight_id = 0
                            /\ waiter[w].result = "none"
    BY DEF Init, Waiters
  <1>3. Types
    BY <1>1, <1>2 DEF Types
  <1>4. RegistryIsCurrent /\ PortIsQueued /\ LostFlightsRest /\ ListsAreWaiting
    BY <1>1 DEF RegistryIsCurrent, PortIsQueued, LostFlightsRest, ListsAreWaiting
  <1>5. WaitingIsListed /\ ToldEmpty
    BY <1>2 DEF WaitingIsListed, ToldEmpty
  <1> QED  BY <1>3, <1>4, <1>5 DEF FetchInv

LEMMA FetchStep ==
    ASSUME KeyOf \in [Waiter -> Key], NoFlight \notin Nat, FetchInv, [Next]_vars
    PROVE  FetchInv'
  <1>1. CASE UNCHANGED <<flights, flight, port, waiter>>
    <2>1. FlightId' = FlightId
      BY <1>1 DEF FlightId
    <2> QED  BY <1>1, <2>1
        DEF FetchInv, Types, RegistryIsCurrent, PortIsQueued, LostFlightsRest, ListsAreWaiting,
            WaitingIsListed, ToldEmpty, Registered, OnList
  <1>2. ASSUME NEW w \in Waiter, queue_drained_raw_chunk(w) PROVE FetchInv'
    <2>1. waiter[w].step = "new" /\ (Hit(w) \/ Join(w) \/ Lead(w))
      BY <1>2 DEF queue_drained_raw_chunk
    <2> QED  BY <2>1, HitKeeps, JoinKeeps, LeadKeeps
  <1>3. ASSUME NEW w \in Waiter, Leave(w) PROVE FetchInv'
    BY <1>3, LeaveKeeps
  <1>4. ASSUME Dispatch PROVE FetchInv'
    BY <1>4, DispatchKeeps
  <1>5. ASSUME NEW f \in FlightId, AcquirePermit(f) \/ Claim(f) \/ Settle(f) \/ Answer(f)
        PROVE  FetchInv'
    BY <1>5, TaskKeeps
  <1>6. ASSUME (\E k \in Key : Cancel(k)) \/ toggle \/ Evict PROVE FetchInv'
    BY <1>1, <1>6 DEF Cancel, toggle, Evict
  <1>7. ASSUME UNCHANGED vars PROVE FetchInv'
    BY <1>1, <1>7 DEF vars
  <1> QED  BY <1>2, <1>3, <1>4, <1>5, <1>6, <1>7 DEF Next

LEMMA FetchServes ==
    ASSUME FetchInv, NoFlight \notin Nat
    PROVE  FlightsServeTheirWaiters
  <1> USE DEF FetchInv
  <1>1. \A g \in FlightId : /\ g \in Nat \ {0} /\ flight[g].key \in Key
                            /\ flight[g].claimed \in Nat /\ flight[g].out \in Nat
    BY FlightFacts DEF Types, FlightId
  <1>2. WaitersAreReachable
    <2>1. ASSUME NEW w \in Waiter, waiter[w].step = "waiting"
          PROVE  /\ Registered(waiter[w].flight_id) /\ w \in flight[waiter[w].flight_id].waiters
                 /\ flight[waiter[w].flight_id].stage /= "done"
      <3>1. PICK f \in FlightId : OnList(w, f)
        BY <2>1 DEF WaitingIsListed
      <3>2. flight[f].stage /= "done"
        BY <1>1, <3>1 DEF OnList, Registered, RegistryIsCurrent
      <3> QED  BY <3>1, <3>2 DEF OnList
    <2> QED  BY <2>1 DEF WaitersAreReachable
  <1>3. WorkIsWanted
    BY DEF WorkIsWanted, ListsAreWaiting
  <1>4. OneBusyFlight
    <2>1. ASSUME NEW f \in FlightId, Busy(f) PROVE Registered(f)
      <3>1. SUFFICES ASSUME ~Registered(f) PROVE FALSE
        OBVIOUS
      <3>2. ~flight[f].open /\ flight[f].claimed = 0 /\ flight[f].out <= flight[f].claimed
        BY <2>1, <3>1 DEF LostFlightsRest, ListsAreWaiting, Busy
      <3> QED  BY <1>1, <2>1, <3>2 DEF Busy
    <2> QED  BY <2>1 DEF OneBusyFlight, Registered
  <1>5. EmptyIsExhaustion
    BY DEF EmptyIsExhaustion, ToldEmpty
  <1> QED  BY <1>2, <1>3, <1>4, <1>5 DEF FlightsServeTheirWaiters

(* However the callers, the dispatcher and the tasks interleave, and       *)
(* however many there are: whoever waits is on the list of the flight that *)
(* is registered for its key and under way, an open flight has a waiter, a *)
(* key has one busy flight, and "empty" is told only of a request that ran *)
(* out (complete_raw_fetch, remove_raw_fetch_waiter).                      *)
THEOREM ServesItsWaiters ==
    ASSUME RawFetchAssumption
    PROVE  Spec => []FlightsServeTheirWaiters
  <1> USE DEF RawFetchAssumption
  <1>1. Init => FetchInv
    BY FetchInit
  <1>2. FetchInv /\ [Next]_vars => FetchInv'
    BY FetchStep
  <1>3. FetchInv => FlightsServeTheirWaiters
    BY FetchServes
  <1> QED  BY <1>1, <1>2, <1>3, PTL DEF Spec

-----------------------------------------------------------------------------
(* The shards of the group, as the invariant names them *)
Total == Group!total_count
Shards == 0..(Total - 1)

GroupTypes ==
    /\ group \in Group!Groups
    /\ {rolling, hedge_due, group_cancelled} \subseteq BOOLEAN
    /\ group_pc \in {"start", "wait", "done", "none"}
    /\ loop \in Group!Locals
    /\ loop.requested_ready \subseteq requested
    /\ emitted = [i \in Index |-> IF i \in loop.requested_ready THEN 1 ELSE 0]

(* Every shard asked for is out, failed or received, and counted so; every *)
(* child asked for is ready, on its way or failed.                         *)
Counted(l, o, f) ==
    /\ l \in Group!Locals
    /\ l.received_shards \subseteq Shards /\ o \subseteq Shards /\ f \subseteq Shards
    /\ l.requested_ready \subseteq requested
    /\ l.dispatched_shards = l.received_shards \cup o \cup f
    /\ l.received_shards \cap o = {} /\ l.received_shards \cap f = {} /\ o \cap f = {}
    /\ l.successes = Cardinality(l.received_shards)
    /\ l.dispatched = l.completed + Cardinality(o)
    /\ requested \subseteq l.requested_ready \cup o \cup f

(* A group that does not recover lost nothing yet; one that rolls has      *)
(* asked for every data shard that is not cached, and for parity only once *)
(* it recovers.                                                            *)
Recovers(l, f) ==
    /\ rolling =>
          /\ parity_count > 0
          /\ Group!Data \subseteq l.dispatched_shards \cup InCache({"decoded"})
          /\ ~l.recovery_dispatched => l.dispatched_shards \subseteq Group!Data
    /\ ~rolling /\ ~l.recovery_dispatched => f = {}

GroupInv ==
    /\ GroupTypes
    /\ group_pc = "start" => loop.requested_ready = {} /\ loop.dispatched_shards = {}
                             /\ loop.received_shards = {} /\ loop.dispatched = 0 /\ loop.completed = 0
                             /\ ~loop.recovery_dispatched
                             /\ shards_out = {} /\ failed = {}
    /\ group_pc = "wait" => Counted(loop, shards_out, failed) /\ Recovers(loop, failed)
    /\ GivesUpOnlyWhenLost

LEMMA SameCardinality == \A S : Group!Cardinality(S) = Cardinality(S)
  BY DEF Group!Cardinality, Cardinality

\* The shape of a group.
LEMMA GroupShape ==
    ASSUME group \in Group!Groups
    PROVE  /\ group.data \in Nat /\ group.data > 0 /\ parity_count \in Nat
           /\ Group!data_count = group.data /\ Total = group.data + parity_count
           /\ Total \in Nat /\ group.data <= MaxData
           /\ Group!Data = 0..(group.data - 1) /\ Group!Data \subseteq Shards
           /\ requested \subseteq Group!Data /\ requested # {}
           /\ Shards \subseteq Group!Shard /\ requested \subseteq Index
           /\ Group!requested = requested /\ Group!parity_count = parity_count
           /\ Group!Index = Index
           /\ \A kinds : Group!InCache(kinds) = InCache(kinds) /\ InCache(kinds) \subseteq requested
  <1>1. /\ group.data \in 1..MaxData /\ group.parity \in 0..MaxParity
        /\ group.first \in Index /\ group.last \in Index /\ group.first <= group.last
        /\ group.last < group.data
    BY DEF Group!Groups, Index, Group!Index
  <1>2. MaxData \in Nat /\ MaxParity \in Nat
    BY GroupAssumption
  <1>3. group.first \in requested
    BY <1>1 DEF requested, Index
  <1>4. \A kinds : Group!InCache(kinds) = InCache(kinds) /\ InCache(kinds) \subseteq requested
    BY DEF Group!InCache, InCache, Group!requested, requested
  <1>5. requested \subseteq Group!Data
    BY <1>1, <1>2 DEF requested, Index, Group!Data, Group!data_count
  <1>6. Shards = 0..(group.data + group.parity - 1)
    BY <1>1, <1>2 DEF Shards, Total, Group!total_count, Group!data_count, Group!parity_count
  <1>7. Shards \subseteq Group!Shard
    BY <1>1, <1>2, <1>6 DEF Group!Shard
  <1>8. Group!Data \subseteq Shards
    BY <1>1, <1>2, <1>6 DEF Group!Data, Group!data_count
  <1>9. requested \subseteq Index
    BY <1>1, <1>2 DEF requested, Index
  <1> QED  BY <1>1, <1>2, <1>3, <1>4, <1>5, <1>7, <1>8, <1>9
           DEF Total, Group!total_count, Group!data_count, Group!parity_count, parity_count,
               Group!Data, requested, Group!requested, Group!Index, Index

LEMMA ShardsFinite ==
    ASSUME group \in Group!Groups
    PROVE  /\ IsFiniteSet(Shards) /\ Cardinality(Shards) = Total
           /\ \A S \in SUBSET Shards : IsFiniteSet(S) /\ Cardinality(S) \in Nat
  <1>1. Total \in Nat
    BY GroupShape
  <1>2. IsFiniteSet(Shards) /\ Cardinality(Shards) = Total
    BY <1>1, FS_Interval DEF Shards
  <1> QED  BY <1>2, FS_Subset, FS_CardinalityType

LEMMA DisjointUnion ==
    ASSUME NEW S, NEW T, IsFiniteSet(S), IsFiniteSet(T), S \cap T = {}
    PROVE  IsFiniteSet(S \cup T) /\ Cardinality(S \cup T) = Cardinality(S) + Cardinality(T)
  <1>1. Cardinality(S) \in Nat /\ Cardinality(T) \in Nat
    BY FS_CardinalityType
  <1> QED  BY <1>1, FS_Union, FS_EmptySet

\* Shards are asked for in order: none only if none is left.
LEMMA UndispatchedShards ==
    ASSUME group \in Group!Groups, NEW l, NEW start \in Nat, NEW limit
    PROVE  /\ Group!Undispatched(l, start, limit) \subseteq Shards
           /\ Group!Undispatched(l, start, limit) \cap l.dispatched_shards = {}
           /\ \A s \in Group!Undispatched(l, start, limit) : s >= start
           /\ limit \in Nat /\ limit > 0 /\ Group!Undispatched(l, start, limit) = {} =>
                 start..(Total - 1) \subseteq l.dispatched_shards
  <1> DEFINE free == {s \in start..(Total - 1) : s \notin l.dispatched_shards}
             asked == {s \in free : Cardinality({t \in free : t < s}) < limit}
  <1>1. Group!Undispatched(l, start, limit) = asked
    BY SameCardinality DEF Group!Undispatched, Total
  <1>2. free \subseteq Shards /\ free \cap l.dispatched_shards = {} /\ \A s \in free : s >= start
    <2>1. Total \in Nat
      BY GroupShape
    <2>2. start..(Total - 1) \subseteq Shards /\ \A s \in start..(Total - 1) : s >= start
      BY <2>1 DEF Shards
    <2> QED  BY <2>2
  <1>3. ASSUME limit \in Nat, limit > 0, free # {}
        PROVE  asked # {}
    <2>1. free \subseteq Nat
      BY <1>2, GroupShape DEF Shards
    <2>2. PICK s \in free : \A t \in free : ~(<<t, s>> \in OpToRel(<, Nat))
      BY <1>3, <2>1, NatLessThanWellFounded, WFMin
    <2>3. \A t \in free : ~(t < s)
      BY <2>1, <2>2 DEF OpToRel
    <2>4. {t \in free : t < s} = {}
      BY <2>3
    <2>5. Cardinality({t \in free : t < s}) < limit
      BY <1>3, <2>4, FS_EmptySet
    <2> QED  BY <2>5
  <1> QED  BY <1>1, <1>2, <1>3

\* Shards not asked for yet are put on their way.
LEMMA AskingKeepsCount ==
    ASSUME group \in Group!Groups, NEW l, NEW o, NEW f, Counted(l, o, f),
           NEW more \in SUBSET Shards, more \cap l.dispatched_shards = {},
           NEW new \in Group!Locals,
           new.dispatched_shards = l.dispatched_shards \cup more,
           new.dispatched = l.dispatched + Cardinality(more),
           new.completed = l.completed, new.successes = l.successes,
           new.received_shards = l.received_shards, new.requested_ready = l.requested_ready
    PROVE  Counted(new, o \cup more, f)
  <1>1. /\ IsFiniteSet(o) /\ IsFiniteSet(more) /\ o \cap more = {}
        /\ Cardinality(o) \in Nat /\ Cardinality(more) \in Nat
    BY ShardsFinite DEF Counted
  <1>2. Cardinality(o \cup more) = Cardinality(o) + Cardinality(more)
    BY <1>1, DisjointUnion
  <1>3. l.completed \in Nat
    BY DEF Counted, Group!Locals
  <1>4. new.dispatched = new.completed + Cardinality(o \cup more)
    BY <1>1, <1>2, <1>3 DEF Counted
  <1> QED  BY <1>4 DEF Counted

LEMMA AskFields ==
    ASSUME group \in Group!Groups, NEW l \in Group!Locals, NEW more \in SUBSET Shards
    PROVE  \E new \in Group!Locals :
              /\ new = Group!Ask(l, more)
              /\ new.dispatched_shards = l.dispatched_shards \cup more
              /\ new.dispatched = l.dispatched + Cardinality(more)
              /\ new.completed = l.completed /\ new.successes = l.successes
              /\ new.received_shards = l.received_shards
              /\ new.requested_ready = l.requested_ready
              /\ new.recovery_dispatched = l.recovery_dispatched
  <1>1. Cardinality(more) \in Nat /\ more \subseteq Group!Shard
    BY ShardsFinite, GroupShape
  <1>2. \A S \in SUBSET Group!Shard, n \in Nat :
           [l EXCEPT !.dispatched_shards = S, !.dispatched = n] \in Group!Locals
    BY DEF Group!Locals
  <1>3. \A S, n :
           LET new == [l EXCEPT !.dispatched_shards = S, !.dispatched = n]
           IN  /\ new.dispatched_shards = S /\ new.dispatched = n
               /\ new.completed = l.completed /\ new.successes = l.successes
               /\ new.received_shards = l.received_shards
               /\ new.requested_ready = l.requested_ready
    BY DEF Group!Locals
  <1>4. \A S, n :
           LET new == [l EXCEPT !.dispatched_shards = S, !.dispatched = n]
           IN  new.recovery_dispatched = l.recovery_dispatched
    BY Zenon DEF Group!Locals
  <1> DEFINE S == l.dispatched_shards \cup more
             n == l.dispatched + Cardinality(more)
             asking == [l EXCEPT !.dispatched_shards = S, !.dispatched = n]
  <1>5. S \in SUBSET Group!Shard /\ n \in Nat
    <2>1. l.dispatched_shards \in SUBSET Group!Shard /\ l.dispatched \in Nat
      BY DEF Group!Locals
    <2> QED  BY <1>1, <2>1
  <1>6. Group!Ask(l, more) = asking
    BY SameCardinality DEF Group!Ask
  <1>7. asking \in Group!Locals
    BY <1>2, <1>5, Zenon
  <1>8. /\ asking.dispatched_shards = S /\ asking.dispatched = n
        /\ asking.completed = l.completed /\ asking.successes = l.successes
        /\ asking.received_shards = l.received_shards
        /\ asking.requested_ready = l.requested_ready
        /\ asking.recovery_dispatched = l.recovery_dispatched
    <2> HIDE DEF S, n
    <2>1. asking.recovery_dispatched = l.recovery_dispatched
      BY <1>4, Zenon
    <2>2. /\ asking.dispatched_shards = S /\ asking.dispatched = n
          /\ asking.completed = l.completed /\ asking.successes = l.successes
          /\ asking.received_shards = l.received_shards
          /\ asking.requested_ready = l.requested_ready
      BY <1>3
    <2> HIDE DEF asking
    <2> QED  BY <2>1, <2>2, Zenon
  <1> HIDE DEF asking
  <1> QED  BY <1>6, <1>7, <1>8, Zenon

\* Whether a group recovers is marked beside its counts.
LEMMA RecoveryMarked ==
    ASSUME NEW l \in Group!Locals, NEW mark \in BOOLEAN
    PROVE  \E new \in Group!Locals :
              /\ new = [l EXCEPT !.recovery_dispatched = mark]
              /\ new.recovery_dispatched = mark
              /\ new.dispatched_shards = l.dispatched_shards
              /\ new.dispatched = l.dispatched
              /\ new.completed = l.completed /\ new.successes = l.successes
              /\ new.received_shards = l.received_shards
              /\ new.requested_ready = l.requested_ready
  <1> DEFINE marked == [l EXCEPT !.recovery_dispatched = mark]
  <1>1. marked \in Group!Locals
    BY DEF Group!Locals
  <1>2. /\ marked.dispatched_shards = l.dispatched_shards /\ marked.dispatched = l.dispatched
        /\ marked.completed = l.completed /\ marked.successes = l.successes
        /\ marked.received_shards = l.received_shards
        /\ marked.requested_ready = l.requested_ready
    BY DEF Group!Locals
  <1>3. marked.recovery_dispatched = mark
    BY Zenon DEF Group!Locals
  <1>4. marked = [l EXCEPT !.recovery_dispatched = mark]
    OBVIOUS
  <1> HIDE DEF marked
  <1> QED  BY <1>1, <1>2, <1>3, <1>4, Zenon

\* The answers of shards that were out are counted.
LEMMA ResultsKeepCount ==
    ASSUME group \in Group!Groups, rolling \in BOOLEAN,
           Counted(loop, shards_out, failed), Recovers(loop, failed),
           NEW shards \in SUBSET shards_out, NEW answers \in [shards -> Group!Answer],
           NEW f, f = failed \cup {s \in shards : ~Group!Usable(answers[s])}
    PROVE  LET l == Group!Results(answers)
           IN  /\ Counted(l, shards_out \ shards, f) /\ Recovers(l, f)
               /\ loop.requested_ready \subseteq l.requested_ready
  <1> DEFINE usable == {s \in shards : Group!Usable(answers[s])}
             done == loop.completed + Cardinality(shards)
             received == loop.received_shards \cup usable
             count == loop.successes + Cardinality(usable)
             ready == loop.requested_ready \cup (usable \cap requested)
             mark == loop.recovery_dispatched \/ (~rolling /\ usable # shards)
  <1>1. /\ loop \in Group!Locals /\ loop.completed \in Nat /\ loop.dispatched \in Nat
        /\ loop.recovery_dispatched \in BOOLEAN
    BY DEF Counted, Group!Locals
  <1>2. /\ usable \subseteq shards /\ shards \subseteq Shards /\ shards_out \subseteq Shards
        /\ loop.received_shards \subseteq Shards /\ failed \subseteq Shards
        /\ loop.received_shards \cap shards_out = {} /\ failed \cap shards_out = {}
        /\ loop.received_shards \cap failed = {}
        /\ loop.dispatched_shards = loop.received_shards \cup shards_out \cup failed
        /\ loop.successes = Cardinality(loop.received_shards)
        /\ loop.dispatched = loop.completed + Cardinality(shards_out)
        /\ requested \subseteq loop.requested_ready \cup shards_out \cup failed
        /\ loop.requested_ready \subseteq requested
    BY DEF Counted
  <1>3. /\ IsFiniteSet(usable) /\ IsFiniteSet(shards) /\ IsFiniteSet(shards_out \ shards)
        /\ IsFiniteSet(loop.received_shards)
        /\ Cardinality(usable) \in Nat /\ Cardinality(shards) \in Nat
        /\ Cardinality(shards_out \ shards) \in Nat /\ Cardinality(loop.received_shards) \in Nat
    <2>1. usable \in SUBSET Shards /\ shards_out \ shards \in SUBSET Shards
      BY <1>2
    <2> QED  BY <1>2, <2>1, ShardsFinite
  <1>4. count = Cardinality(received)
    <2>1. loop.received_shards \cap usable = {}
      BY <1>2
    <2> QED  BY <1>2, <1>3, <2>1, DisjointUnion
  <1>5. Cardinality(shards_out) = Cardinality(shards_out \ shards) + Cardinality(shards)
    <2>1. (shards_out \ shards) \cup shards = shards_out /\ (shards_out \ shards) \cap shards = {}
      OBVIOUS
    <2> QED  BY <1>3, <2>1, DisjointUnion
  <1>6. /\ done \in Nat /\ count \in Nat /\ received \in SUBSET Group!Shard
        /\ ready \in SUBSET Index /\ mark \in BOOLEAN
    <2>1. Shards \subseteq Group!Shard /\ requested \subseteq Index
      BY GroupShape
    <2> QED  BY <1>1, <1>2, <1>3, <2>1
  <1>7. PICK l \in Group!Locals :
           /\ l = Group!Results(answers)
           /\ l.recovery_dispatched = mark
           /\ l.dispatched_shards = loop.dispatched_shards /\ l.dispatched = loop.dispatched
           /\ l.completed = done /\ l.successes = count
           /\ l.received_shards = received /\ l.requested_ready = ready
    <2> DEFINE new == [loop EXCEPT !.completed = done, !.received_shards = received,
                                   !.successes = count, !.requested_ready = ready,
                                   !.recovery_dispatched = mark]
    <2>1. Group!Results(answers) = new
      <3>1. DOMAIN answers = shards /\ Group!requested = requested
        BY GroupShape
      <3> QED  BY <3>1, SameCardinality DEF Group!Results
    <2> HIDE DEF done, received, count, ready, mark
    <2>2. PICK first \in Group!Locals :
             /\ first = [loop EXCEPT !.completed = done, !.received_shards = received,
                                     !.successes = count, !.requested_ready = ready]
             /\ first.dispatched_shards = loop.dispatched_shards
             /\ first.dispatched = loop.dispatched
             /\ first.completed = done /\ first.successes = count
             /\ first.received_shards = received /\ first.requested_ready = ready
      <3> DEFINE taken == [loop EXCEPT !.completed = done, !.received_shards = received,
                                       !.successes = count, !.requested_ready = ready]
      <3>1. taken \in Group!Locals
        BY <1>1, <1>6 DEF Group!Locals, Group!Index, Index
      <3>2. /\ taken.dispatched_shards = loop.dispatched_shards
            /\ taken.dispatched = loop.dispatched
            /\ taken.completed = done /\ taken.successes = count
            /\ taken.received_shards = received /\ taken.requested_ready = ready
        BY <1>1 DEF Group!Locals
      <3>3. taken = [loop EXCEPT !.completed = done, !.received_shards = received,
                                 !.successes = count, !.requested_ready = ready]
        OBVIOUS
      <3> HIDE DEF taken
      <3> QED  BY <3>1, <3>2, <3>3
    <2>3. PICK second \in Group!Locals :
             /\ second = [first EXCEPT !.recovery_dispatched = mark]
             /\ second.recovery_dispatched = mark
             /\ second.dispatched_shards = first.dispatched_shards
             /\ second.dispatched = first.dispatched
             /\ second.completed = first.completed /\ second.successes = first.successes
             /\ second.received_shards = first.received_shards
             /\ second.requested_ready = first.requested_ready
      BY <1>6, RecoveryMarked, Zenon
    <2>4. second = Group!Results(answers)
      BY <2>1, <2>2, <2>3, Zenon
    <2> QED  BY <2>2, <2>3, <2>4, Zenon
  <1>8. f \subseteq Shards /\ f = failed \cup (shards \ usable)
    BY <1>2
  <1>9. Counted(l, shards_out \ shards, f)
    <2>1. l.dispatched = l.completed + Cardinality(shards_out \ shards)
      BY <1>1, <1>2, <1>3, <1>5, <1>7
    <2>2. /\ l.received_shards \subseteq Shards /\ shards_out \ shards \subseteq Shards
          /\ l.requested_ready \subseteq requested
      BY <1>2, <1>7
    <2>3. /\ l.dispatched_shards = l.received_shards \cup (shards_out \ shards) \cup f
          /\ l.received_shards \cap (shards_out \ shards) = {} /\ l.received_shards \cap f = {}
          /\ (shards_out \ shards) \cap f = {}
      BY <1>2, <1>7, <1>8
    <2>4. requested \subseteq l.requested_ready \cup (shards_out \ shards) \cup f
      BY <1>2, <1>7, <1>8
    <2> HIDE DEF done, received, count, ready, mark, usable
    <2> QED  BY <1>4, <1>7, <1>8, <2>1, <2>2, <2>3, <2>4 DEF Counted
  <1>10. Recovers(l, f)
    <2>1. l.recovery_dispatched <=> (loop.recovery_dispatched \/ (~rolling /\ usable # shards))
      BY <1>7, Zenon
    <2>2. usable = shards /\ failed = {} => f = {}
      BY <1>8
    <2>3. l.dispatched_shards = loop.dispatched_shards
      BY <1>7
    <2>4. rolling =>
             /\ parity_count > 0
             /\ Group!Data \subseteq l.dispatched_shards \cup InCache({"decoded"})
             /\ ~l.recovery_dispatched => l.dispatched_shards \subseteq Group!Data
      <3> HIDE DEF usable
      <3> QED  BY <2>1, <2>3 DEF Recovers
    <2>5. ~rolling /\ ~l.recovery_dispatched => f = {}
      <3> HIDE DEF usable
      <3> QED  BY <2>1, <2>2 DEF Recovers
    <2> HIDE DEF usable
    <2> QED  BY <2>4, <2>5 DEF Recovers
  <1> QED  BY <1>7, <1>9, <1>10

Ended == {"done", "none"}

\* A step that goes on emits what became ready, and ends well with all ready.
Progress ==
    /\ group_pc \notin Ended /\ group' = group
    /\ loop.requested_ready \subseteq loop'.requested_ready
    /\ loop'.requested_ready \subseteq requested
    /\ emitted' = [i \in Index |-> IF i \in loop'.requested_ready THEN 1 ELSE 0]
    /\ group_pc' = "done" => loop'.requested_ready = requested

LEMMA EmitKeeps ==
    ASSUME GroupTypes, NEW l, Group!Emit(l),
           loop.requested_ready \subseteq l.requested_ready, l.requested_ready \subseteq requested
    PROVE  emitted' = [i \in Index |-> IF i \in l.requested_ready THEN 1 ELSE 0]
  BY DEF GroupTypes, Group!Emit, Group!Index, Index

LEMMA ReplacedShards ==
    ASSUME group \in Group!Groups, NEW l
    PROVE  Group!Replace(l) \in SUBSET Shards /\ Group!Replace(l) \cap l.dispatched_shards = {}
  <1>1. Group!data_count \in Nat /\ 0 \in Nat
    BY GroupShape
  <1>2. \A limit : /\ Group!Undispatched(l, Group!data_count, limit) \in SUBSET Shards
                   /\ Group!Undispatched(l, Group!data_count, limit) \cap l.dispatched_shards = {}
                   /\ Group!Undispatched(l, 0, limit) \in SUBSET Shards
                   /\ Group!Undispatched(l, 0, limit) \cap l.dispatched_shards = {}
    BY <1>1, UndispatchedShards
  <1> QED  BY <1>2 DEF Group!Replace

\* Too many shards are lost when nothing is out and there is none to ask for.
LEMMA NothingLeftToAsk ==
    ASSUME group \in Group!Groups, rolling \in BOOLEAN, NEW l, NEW f,
           Counted(l, {}, f), Recovers(l, f), ~Group!terminal(l),
           Group!Replace(l) = {}, rolling => hedge_due'
    PROVE  Cardinality(f) + Cardinality(InCache({"decoded"})) > parity_count
  <1> DEFINE D == InCache({"decoded"})
  <1>1. /\ group.data \in Nat /\ group.data > 0 /\ parity_count \in Nat
        /\ Group!data_count = group.data /\ Total = group.data + parity_count
        /\ Group!Data = 0..(group.data - 1) /\ Shards = 0..(Total - 1)
        /\ D \in SUBSET Shards
    <2>1. D \subseteq requested /\ requested \subseteq Group!Data /\ Group!Data \subseteq Shards
      BY GroupShape
    <2> QED  BY <2>1, GroupShape DEF Shards
  <1>2. /\ Cardinality({}) = 0 /\ l.completed \in Nat /\ l.successes \in Nat /\ l.dispatched \in Nat
        /\ l.dispatched_shards = l.received_shards \cup f
        /\ l.received_shards \in SUBSET Shards /\ f \in SUBSET Shards
        /\ l.successes = Cardinality(l.received_shards)
        /\ l.dispatched = l.completed
        /\ requested \subseteq l.requested_ready \cup f
    BY FS_EmptySet DEF Counted, Group!Locals
  <1>3. Group!active(l) = 0
    BY <1>2 DEF Group!active
  <1>4. l.recovery_dispatched /\ Shards \subseteq l.dispatched_shards \cup D
    <2>1. CASE rolling
      <3>1. Group!Undispatched(l, Group!data_count, Group!data_count - Group!active(l)) = {}
        BY <2>1 DEF Group!Replace
      <3>2. Group!data_count..(Total - 1) \subseteq l.dispatched_shards
        <4>1. Group!data_count - Group!active(l) \in Nat /\ Group!data_count - Group!active(l) > 0
          BY <1>1, <1>3
        <4> QED  BY <1>1, <3>1, <4>1, UndispatchedShards
      <3>3. /\ parity_count > 0 /\ Group!Data \subseteq l.dispatched_shards \cup D
            /\ ~l.recovery_dispatched => l.dispatched_shards \subseteq Group!Data
        BY <2>1 DEF Recovers
      <3>4. group.data \in l.dispatched_shards /\ group.data \notin Group!Data
        BY <1>1, <3>2, <3>3
      <3>5. Shards \subseteq Group!Data \cup (Group!data_count..(Total - 1))
        BY <1>1
      <3> QED  BY <3>2, <3>3, <3>4, <3>5
    <2>2. CASE ~rolling
      <3>1. l.recovery_dispatched
        <4>1. SUFFICES ASSUME ~l.recovery_dispatched PROVE FALSE
          OBVIOUS
        <4>2. requested \subseteq l.requested_ready
          BY <1>2, <2>2, <4>1 DEF Recovers
        <4>3. Group!unresolved(l) = {}
          BY <4>2, GroupShape DEF Group!unresolved
        <4> QED  BY <4>3 DEF Group!terminal
      <3>2. Group!Undispatched(l, 0, Group!recovery_top_up_count(l)) = {}
        BY <2>2, <3>1 DEF Group!Replace
      <3>3. l.successes < group.data
        BY <1>1, <1>2, <3>1 DEF Group!terminal
      <3>4. Group!recovery_top_up_count(l) \in Nat /\ Group!recovery_top_up_count(l) > 0
        <4>1. ExtraShards \in Nat
          BY GroupAssumption
        <4>2. /\ group.data + ExtraShards > l.successes + 0
              /\ group.data + ExtraShards - (l.successes + 0) \in Nat
              /\ group.data + ExtraShards - (l.successes + 0) > 0
          BY <1>1, <1>2, <3>3, <4>1
        <4>3. Group!recovery_top_up_count(l) = group.data + ExtraShards - (l.successes + 0)
          BY <1>1, <1>2, <1>3, <4>1, <4>2 DEF Group!recovery_top_up_count, Group!Monus
        <4> QED  BY <4>2, <4>3
      <3>5. 0..(Total - 1) \subseteq l.dispatched_shards
        BY <3>2, <3>4, UndispatchedShards
      <3> QED  BY <1>1, <3>1, <3>5
    <2> QED  BY <2>1, <2>2
  <1>5. l.successes < group.data
    BY <1>1, <1>2, <1>4 DEF Group!terminal
  <1>6. Shards = l.received_shards \cup (f \cup D)
    BY <1>1, <1>2, <1>4
  <1>7. /\ f \cup D \in SUBSET Shards /\ IsFiniteSet(l.received_shards) /\ IsFiniteSet(f)
        /\ IsFiniteSet(D) /\ IsFiniteSet(f \cup D)
        /\ Cardinality(f) \in Nat /\ Cardinality(D) \in Nat /\ Cardinality(f \cup D) \in Nat
        /\ Cardinality(l.received_shards) \in Nat
    <2>1. f \cup D \in SUBSET Shards
      BY <1>1, <1>2
    <2> QED  BY <1>1, <1>2, <2>1, ShardsFinite
  <1>8. \A S, T : IsFiniteSet(S) /\ IsFiniteSet(T) /\ Cardinality(S) \in Nat /\ Cardinality(T) \in Nat =>
           Cardinality(S \cup T) <= Cardinality(S) + Cardinality(T)
    <2> SUFFICES ASSUME NEW S, NEW T, IsFiniteSet(S), IsFiniteSet(T),
                        Cardinality(S) \in Nat, Cardinality(T) \in Nat
                 PROVE  Cardinality(S \cup T) <= Cardinality(S) + Cardinality(T)
      OBVIOUS
    <2>1. Cardinality(S \cup T) = Cardinality(S) + Cardinality(T) - Cardinality(S \cap T)
      BY FS_Union
    <2>2. Cardinality(S \cap T) \in Nat
      BY FS_Intersection, FS_CardinalityType
    <2> QED  BY <2>1, <2>2
  <1> HIDE DEF D
  <1>9. /\ Cardinality(Shards) <= Cardinality(l.received_shards) + Cardinality(f \cup D)
        /\ Cardinality(f \cup D) <= Cardinality(f) + Cardinality(D)
    BY <1>6, <1>7, <1>8
  <1>10. Cardinality(Shards) = group.data + parity_count
    BY <1>1, ShardsFinite
  <1>11. Cardinality(f) + Cardinality(D) > parity_count
    BY <1>1, <1>2, <1>5, <1>7, <1>9, <1>10
  <1> QED  BY <1>11 DEF D

\* A turn of the loop, with the results or shards it takes counted.
LEMMA TurnKeeps ==
    ASSUME GroupInv, group_pc = "wait", UNCHANGED <<group, rolling, group_cancelled>>,
           hedge_due' \in BOOLEAN, NEW l, NEW o,
           Counted(l, o, failed'), Recovers(l, failed'),
           loop.requested_ready \subseteq l.requested_ready, Group!Turn(l, o)
    PROVE  GroupInv' /\ Progress
  <1>1. /\ GroupTypes /\ group \in Group!Groups /\ rolling \in BOOLEAN
        /\ l \in Group!Locals /\ l.requested_ready \subseteq requested
        /\ l.completed \in Nat /\ l.dispatched \in Nat
        /\ l.successes = Cardinality(l.received_shards)
    BY DEF GroupInv, GroupTypes, Counted, Group!Locals
  <1>2. /\ Group!requested = requested /\ Group!data_count = group.data /\ requested \subseteq Index
        /\ group.data \in Nat
    BY <1>1, GroupShape
  <1>3. /\ group' = group /\ requested' = requested /\ Index' = Index
        /\ parity_count' = parity_count
        /\ \A kinds : InCache(kinds)' = InCache(kinds)
    BY DEF requested, Index, parity_count, InCache
  <1>4. CASE Group!terminal(l)
    <2>1. Group!Finish(l) /\ shards_out' = o
      BY <1>4 DEF Group!Turn
    <2>2. CASE group_pc' = "done" /\ loop' = [l EXCEPT !.requested_ready = requested]
               /\ Group!Emit(loop')
      <3>1. loop' \in Group!Locals /\ loop'.requested_ready = requested
        BY <1>1, <1>2, <2>2 DEF Group!Locals, Group!Index, Index
      <3>2. emitted' = [i \in Index |-> IF i \in loop'.requested_ready THEN 1 ELSE 0]
        <4>1. PICK last : last = loop' /\ Group!Emit(last)
          BY <2>2
        <4>2. /\ last.requested_ready = requested
              /\ loop.requested_ready \subseteq last.requested_ready
          BY <1>1, <3>1, <4>1
        <4>3. emitted' = [i \in Index |-> IF i \in last.requested_ready THEN 1 ELSE 0]
          BY <1>1, <4>1, <4>2, EmitKeeps
        <4> QED  BY <4>1, <4>3
      <3>3. GroupTypes'
        BY <1>1, <1>3, <2>2, <3>1, <3>2 DEF GroupTypes
      <3>4. GivesUpOnlyWhenLost'
        BY <2>2 DEF GivesUpOnlyWhenLost
      <3>5. Progress
        BY <1>1, <1>3, <2>2, <3>1, <3>2 DEF Progress, Ended
      <3> QED  BY <2>2, <3>3, <3>4, <3>5 DEF GroupInv
    <2>3. CASE /\ ~(Cardinality(l.received_shards) >= group.data /\ group.consistent)
               /\ Group!unresolved(l) # {}
               /\ group_pc' = "none" /\ loop' = l /\ Group!Emit(l)
      <3>1. ~group.consistent
        BY <1>1, <1>2, <1>4, <2>3 DEF Group!terminal
      <3>2. emitted' = [i \in Index |-> IF i \in loop'.requested_ready THEN 1 ELSE 0]
        BY <1>1, <2>3, EmitKeeps
      <3>3. GroupTypes'
        BY <1>1, <1>3, <2>3, <3>2 DEF GroupTypes
      <3>4. GivesUpOnlyWhenLost'
        BY <1>3, <3>1 DEF GivesUpOnlyWhenLost
      <3>5. Progress
        BY <1>1, <1>3, <2>3, <3>2 DEF Progress, Ended
      <3> QED  BY <2>3, <3>3, <3>4, <3>5 DEF GroupInv
    <2> QED  BY <1>2, <2>1, <2>2, <2>3, SameCardinality DEF Group!Finish
  <1>5. CASE ~Group!terminal(l)
    <2>1. PICK more \in SUBSET Shards :
             more = Group!Replace(l) /\ more \cap l.dispatched_shards = {}
      BY <1>1, ReplacedShards
    <2>2. PICK asked \in Group!Locals :
             /\ asked = Group!Ask(l, more)
             /\ asked.dispatched_shards = l.dispatched_shards \cup more
             /\ asked.dispatched = l.dispatched + Cardinality(more)
             /\ asked.completed = l.completed /\ asked.successes = l.successes
             /\ asked.received_shards = l.received_shards
             /\ asked.requested_ready = l.requested_ready
             /\ asked.recovery_dispatched = l.recovery_dispatched
      BY <1>1, AskFields, Zenon
    <2> DEFINE mark == asked.recovery_dispatched \/ (rolling /\ more # {})
    <2>3. mark \in BOOLEAN
      BY <1>1
    <2>4. PICK new \in Group!Locals :
             /\ new = [asked EXCEPT !.recovery_dispatched = mark]
             /\ new.recovery_dispatched = mark
             /\ new.dispatched_shards = asked.dispatched_shards
             /\ new.dispatched = asked.dispatched
             /\ new.completed = asked.completed /\ new.successes = asked.successes
             /\ new.received_shards = asked.received_shards
             /\ new.requested_ready = asked.requested_ready
      BY <2>3, RecoveryMarked, Zenon
    <2>5. /\ loop' = new /\ Group!Emit(new) /\ shards_out' = o \cup more
          /\ group_pc' = IF new.completed = new.dispatched /\ (~rolling \/ hedge_due')
                         THEN "none" ELSE "wait"
      BY <1>5, <2>1, <2>2, <2>4, Zenon DEF Group!Turn
    <2>6. /\ loop' \in Group!Locals /\ loop'.requested_ready = l.requested_ready
          /\ loop'.dispatched_shards = l.dispatched_shards \cup more
          /\ loop'.dispatched = l.dispatched + Cardinality(more)
          /\ loop'.completed = l.completed /\ loop'.successes = l.successes
          /\ loop'.received_shards = l.received_shards
      BY <2>2, <2>4, <2>5
    <2>7. loop'.recovery_dispatched <=> (l.recovery_dispatched \/ (rolling /\ more # {}))
      BY <2>2, <2>4, <2>5, Zenon
    <2> HIDE DEF mark
    <2>8. Counted(loop', shards_out', failed')
      BY <1>1, <2>1, <2>5, <2>6, AskingKeepsCount
    <2>9. Recovers(loop', failed')
      BY <2>6, <2>7 DEF Recovers
    <2>10. emitted' = [i \in Index |-> IF i \in loop'.requested_ready THEN 1 ELSE 0]
      <3>0. Group!Emit(new) /\ new.requested_ready = l.requested_ready
        BY <2>2, <2>4, <2>5
      <3>1. emitted' = [i \in Index |-> IF i \in new.requested_ready THEN 1 ELSE 0]
        BY <1>1, <3>0, EmitKeeps
      <3> QED  BY <2>5, <3>1
    <2>11. group_pc' \in {"wait", "none"}
      BY <2>5
    <2>12. GroupTypes'
      BY <1>1, <1>3, <2>6, <2>10, <2>11 DEF GroupTypes
    <2>13. Progress
      BY <1>1, <1>3, <2>6, <2>10, <2>11 DEF Progress, Ended
    <2>14. group_pc' = "none" => Cardinality(failed') + Cardinality(InCache({"decoded"})) > parity_count
      <3> SUFFICES ASSUME group_pc' = "none"
                   PROVE  Cardinality(failed') + Cardinality(InCache({"decoded"})) > parity_count
        OBVIOUS
      <3>1. new.completed = new.dispatched /\ (rolling => hedge_due')
        BY <2>5
      <3>2. /\ IsFiniteSet(o) /\ IsFiniteSet(more)
            /\ Cardinality(o) \in Nat /\ Cardinality(more) \in Nat
            /\ l.dispatched = l.completed + Cardinality(o)
        BY <1>1, ShardsFinite DEF Counted
      <3>3. Cardinality(o) = 0 /\ Cardinality(more) = 0
        BY <1>1, <2>2, <2>4, <3>1, <3>2
      <3>4. o = {} /\ more = {}
        BY <3>2, <3>3, FS_EmptySet
      <3>5. Counted(l, {}, failed')
        BY <3>4
      <3> QED  BY <1>1, <1>5, <2>1, <3>1, <3>4, <3>5, NothingLeftToAsk
    <2>15. GivesUpOnlyWhenLost'
      BY <1>3, <2>14 DEF GivesUpOnlyWhenLost
    <2>16. Counted(loop, shards_out, failed)' /\ Recovers(loop, failed)'
      <3>1. Shards' = Shards /\ Group!Data' = Group!Data /\ rolling' = rolling
        BY DEF Shards, Total, Group!total_count, Group!data_count, Group!parity_count, Group!Data
      <3> QED  BY <1>3, <2>8, <2>9, <3>1 DEF Counted, Recovers, Group!Locals, Group!Shard, Group!Index
    <2> QED  BY <2>11, <2>12, <2>13, <2>15, <2>16 DEF GroupInv
  <1> QED  BY <1>4, <1>5

LEMMA GroupConstant ==
    ASSUME UNCHANGED group
    PROVE  /\ requested' = requested /\ Index' = Index /\ parity_count' = parity_count
           /\ \A kinds : InCache(kinds)' = InCache(kinds)
           /\ Shards' = Shards /\ Group!Data' = Group!Data /\ Group!Locals' = Group!Locals
           /\ Group!Groups' = Group!Groups
  BY DEF requested, Index, parity_count, InCache, Shards, Total, Group!total_count,
         Group!data_count, Group!parity_count, Group!Data, Group!Locals, Group!Groups

\* The group gives up, or stays where it is.
LEMMA RestKeeps ==
    ASSUME GroupInv, UNCHANGED <<group, rolling, loop, shards_out, emitted>>,
           hedge_due' \in BOOLEAN, group_cancelled' \in BOOLEAN,
           \/ group_pc' = group_pc /\ failed' = failed /\ (group_cancelled => group_cancelled')
           \/ group_pc' = "none" /\ GivesUpOnlyWhenLost'
    PROVE  GroupInv' /\ (group_pc \notin Ended /\ group_pc' # "done" => Progress)
  <1>1. GroupTypes' /\ (group_pc \notin Ended /\ group_pc' # "done" => Progress)
    BY GroupConstant DEF GroupInv, GroupTypes, Progress
  <1>2. CASE group_pc' = "none" /\ GivesUpOnlyWhenLost'
    BY <1>1, <1>2 DEF GroupInv
  <1>3. CASE group_pc' = group_pc /\ failed' = failed /\ (group_cancelled => group_cancelled')
    <2>1. GivesUpOnlyWhenLost'
      BY <1>3, GroupConstant DEF GroupInv, GivesUpOnlyWhenLost
    <2>2. group_pc = "wait" => Counted(loop, shards_out, failed)' /\ Recovers(loop, failed)'
      BY <1>3, GroupConstant DEF GroupInv, Counted, Recovers
    <2> QED  BY <1>1, <1>3, <2>1, <2>2 DEF GroupInv
  <1> QED  BY <1>2, <1>3

LEMMA ReceiveKeeps ==
    ASSUME GroupInv, Group!Receive
    PROVE  GroupInv' /\ Progress
  <1>1. PICK shards \in Group!Batch : \E answers \in [shards -> Group!Answer] :
          /\ \A s \in shards : ~Group!Decodes(answers[s]) => ~group.consistent
          /\ failed' = failed \cup {s \in shards : ~Group!Usable(answers[s])}
          /\ hedge_due' \in {hedge_due, rolling}
          /\ IF group_cancelled \/ Group!Fatal(answers)
             THEN group_pc' = "none" /\ UNCHANGED <<loop, shards_out, emitted>>
             ELSE Group!Turn(Group!Results(answers), shards_out \ shards)
    BY DEF Group!Receive
  <1>2. PICK answers \in [shards -> Group!Answer] :
          /\ \A s \in shards : ~Group!Decodes(answers[s]) => ~group.consistent
          /\ failed' = failed \cup {s \in shards : ~Group!Usable(answers[s])}
          /\ hedge_due' \in {hedge_due, rolling}
          /\ IF group_cancelled \/ Group!Fatal(answers)
             THEN group_pc' = "none" /\ UNCHANGED <<loop, shards_out, emitted>>
             ELSE Group!Turn(Group!Results(answers), shards_out \ shards)
    BY <1>1
  <1>3. group_pc = "wait" /\ UNCHANGED <<group, rolling, group_cancelled>>
    BY DEF Group!Receive
  <1>4. /\ GroupTypes /\ group \in Group!Groups /\ rolling \in BOOLEAN /\ hedge_due' \in BOOLEAN
        /\ group_cancelled \in BOOLEAN
        /\ Counted(loop, shards_out, failed) /\ Recovers(loop, failed)
    BY <1>2, <1>3 DEF GroupInv, GroupTypes
  <1>5. shards \in SUBSET shards_out
    BY DEF Group!Batch
  <1>6. CASE group_cancelled \/ Group!Fatal(answers)
    <2>1. group_pc' = "none" /\ UNCHANGED <<loop, shards_out, emitted>>
      BY <1>2, <1>6
    <2>2. GivesUpOnlyWhenLost'
      <3> SUFFICES ASSUME ~group_cancelled, group.consistent
                   PROVE  parity_count' = 0 /\ failed' # {}
        BY <1>3 DEF GivesUpOnlyWhenLost
      <3>1. PICK s \in shards :
               \/ ~Group!Usable(answers[s]) /\ Group!parity_count = 0
               \/ ~Group!Decodes(answers[s])
        BY <1>6 DEF Group!Fatal
      <3>2. ~Group!Usable(answers[s]) /\ Group!parity_count = 0
        BY <1>2, <3>1
      <3>3. s \in failed'
        BY <1>2, <3>2
      <3> QED  BY <1>3, <1>4, <3>2, <3>3, GroupShape, GroupConstant
    <2> QED  BY <1>3, <1>4, <2>1, <2>2, RestKeeps DEF Ended
  <1>7. CASE ~(group_cancelled \/ Group!Fatal(answers))
    <2>1. PICK l : l = Group!Results(answers) /\ Group!Turn(l, shards_out \ shards)
      BY <1>2, <1>7
    <2>2. PICK f : f = failed'
      OBVIOUS
    <2>3. f = failed \cup {s \in shards : ~Group!Usable(answers[s])}
      BY <1>2, <2>2
    <2>4. /\ Counted(l, shards_out \ shards, f) /\ Recovers(l, f)
          /\ loop.requested_ready \subseteq l.requested_ready
      BY <1>4, <1>5, <2>1, <2>3, ResultsKeepCount
    <2> QED  BY <1>3, <1>4, <2>1, <2>2, <2>4, TurnKeeps
  <1> QED  BY <1>6, <1>7

LEMMA TimeoutKeeps ==
    ASSUME GroupInv, Group!Timeout
    PROVE  GroupInv' /\ Progress
  <1>1. group_pc = "wait" /\ UNCHANGED <<group, group_cancelled>>
    BY DEF Group!Timeout
  <1>2. /\ GroupTypes /\ group \in Group!Groups /\ rolling \in BOOLEAN /\ hedge_due \in BOOLEAN
        /\ group_cancelled \in BOOLEAN /\ loop \in Group!Locals
        /\ Counted(loop, shards_out, failed) /\ Recovers(loop, failed)
    BY <1>1 DEF GroupInv, GroupTypes
  <1>3. CASE group_cancelled
    <2>1. Group!GiveUp
      BY <1>3 DEF Group!Timeout
    <2>2. GivesUpOnlyWhenLost'
      BY <1>1, <1>3 DEF GivesUpOnlyWhenLost
    <2> QED  BY <1>1, <1>2, <2>1, <2>2, RestKeeps DEF Group!GiveUp, Ended
  <1>4. CASE ~group_cancelled
    <2>1. PICK more : more = Group!AtTimeout
      OBVIOUS
    <2>2. more \in SUBSET Shards /\ more \cap loop.dispatched_shards = {} /\ (rolling => more = {})
      <3>1. Group!data_count \in Nat /\ 0 \in Nat
        BY <1>2, GroupShape
      <3>2. \A limit :
               /\ Group!Undispatched(loop, Group!data_count, limit) \in SUBSET Shards
               /\ Group!Undispatched(loop, Group!data_count, limit) \cap loop.dispatched_shards = {}
               /\ Group!Undispatched(loop, 0, limit) \in SUBSET Shards
               /\ Group!Undispatched(loop, 0, limit) \cap loop.dispatched_shards = {}
        BY <1>2, <3>1, UndispatchedShards
      <3> QED  BY <2>1, <3>2 DEF Group!AtTimeout
    <2>3. PICK asked \in Group!Locals :
             /\ asked = Group!Ask(loop, more)
             /\ asked.dispatched_shards = loop.dispatched_shards \cup more
             /\ asked.dispatched = loop.dispatched + Cardinality(more)
             /\ asked.completed = loop.completed /\ asked.successes = loop.successes
             /\ asked.received_shards = loop.received_shards
             /\ asked.requested_ready = loop.requested_ready
             /\ asked.recovery_dispatched = loop.recovery_dispatched
      BY <1>2, <2>2, AskFields, Zenon
    <2> DEFINE mark == asked.recovery_dispatched \/ ~rolling
    <2>4. mark \in BOOLEAN
      BY <1>2
    <2>5. PICK l \in Group!Locals :
             /\ l = [asked EXCEPT !.recovery_dispatched = mark]
             /\ l.recovery_dispatched = mark
             /\ l.dispatched_shards = asked.dispatched_shards
             /\ l.dispatched = asked.dispatched
             /\ l.completed = asked.completed /\ l.successes = asked.successes
             /\ l.received_shards = asked.received_shards
             /\ l.requested_ready = asked.requested_ready
      BY <2>4, RecoveryMarked, Zenon
    <2>6. Group!Turn(l, shards_out \cup more) /\ hedge_due' = rolling /\ UNCHANGED <<rolling, failed>>
      BY <1>4, <2>1, <2>3, <2>5, Zenon DEF Group!Timeout
    <2>7. l.recovery_dispatched <=> (loop.recovery_dispatched \/ ~rolling)
      BY <2>3, <2>5, Zenon
    <2>8. /\ l.dispatched_shards = loop.dispatched_shards \cup more
          /\ l.dispatched = loop.dispatched + Cardinality(more)
          /\ l.completed = loop.completed /\ l.successes = loop.successes
          /\ l.received_shards = loop.received_shards
          /\ l.requested_ready = loop.requested_ready
      BY <2>3, <2>5
    <2> HIDE DEF mark
    <2>9. Counted(l, shards_out \cup more, failed)
      BY <1>2, <2>2, <2>8, AskingKeepsCount
    <2>10. Recovers(l, failed)
      BY <1>2, <2>2, <2>7, <2>8 DEF Recovers
    <2>11. Counted(l, shards_out \cup more, failed') /\ Recovers(l, failed')
      BY <2>6, <2>9, <2>10
    <2> QED  BY <1>1, <1>2, <2>6, <2>8, <2>11, TurnKeeps
  <1> QED  BY <1>3, <1>4

LEMMA StartKeeps ==
    ASSUME GroupInv, Group!Start
    PROVE  GroupInv' /\ Progress
  <1>1. group_pc = "start" /\ UNCHANGED <<group, group_cancelled>>
    BY DEF Group!Start
  <1>2. /\ GroupTypes /\ group \in Group!Groups /\ rolling \in BOOLEAN /\ hedge_due \in BOOLEAN
        /\ group_cancelled \in BOOLEAN /\ loop \in Group!Locals
        /\ loop.requested_ready = {} /\ loop.dispatched_shards = {}
        /\ loop.received_shards = {} /\ loop.dispatched = 0 /\ loop.completed = 0
        /\ ~loop.recovery_dispatched /\ shards_out = {} /\ failed = {}
    BY <1>1 DEF GroupInv, GroupTypes
  <1>3. CASE group_cancelled
    <2>1. Group!GiveUp
      BY <1>3 DEF Group!Start
    <2>2. GivesUpOnlyWhenLost'
      BY <1>1, <1>3 DEF GivesUpOnlyWhenLost
    <2> QED  BY <1>1, <1>2, <2>1, <2>2, RestKeeps DEF Group!GiveUp, Ended
  <1>4. CASE ~group_cancelled
    <2> DEFINE cached == InCache({"decoded", "raw"})
               fetched == requested \ cached
               received == IF rolling' THEN InCache({"raw"}) ELSE {}
    <2>1. /\ requested \subseteq Group!Data /\ Group!Data \subseteq Shards /\ requested \subseteq Index
          /\ Shards \subseteq Group!Shard /\ Group!requested = requested
          /\ Group!data_count = group.data /\ group.data \in Nat
          /\ Group!Data = 0..(group.data - 1)
          /\ Group!parity_count = parity_count
          /\ InCache({"raw"}) \subseteq requested /\ cached \subseteq requested
          /\ cached = InCache({"decoded"}) \cup InCache({"raw"})
          /\ \A kinds : Group!InCache(kinds) = InCache(kinds)
      <3>1. cached = InCache({"decoded"}) \cup InCache({"raw"})
        BY DEF InCache
      <3> QED  BY <1>2, <3>1, GroupShape
    <2>2. /\ fetched \in SUBSET Shards /\ received \in SUBSET Shards /\ fetched \cap received = {}
          /\ received \subseteq cached
      BY <2>1
    <2>3. /\ IsFiniteSet(received) /\ Cardinality(received) \in Nat
          /\ IsFiniteSet(fetched) /\ Cardinality(fetched) \in Nat
      BY <1>2, <2>2, ShardsFinite
    <2>4. PICK asked \in Group!Locals :
             /\ asked = Group!Ask(loop, fetched)
             /\ asked.dispatched_shards = loop.dispatched_shards \cup fetched
             /\ asked.dispatched = loop.dispatched + Cardinality(fetched)
             /\ asked.completed = loop.completed /\ asked.successes = loop.successes
             /\ asked.received_shards = loop.received_shards
             /\ asked.requested_ready = loop.requested_ready
             /\ asked.recovery_dispatched = loop.recovery_dispatched
      BY <1>2, <2>2, AskFields, Zenon
    <2>5. PICK l :
             l = [asked EXCEPT !.dispatched_shards = @ \cup received,
                               !.received_shards = received,
                               !.successes = Cardinality(received),
                               !.requested_ready = cached]
      OBVIOUS
    <2>6. /\ rolling' = Group!rolling_full_group_eligible(cached)
          /\ loop' = l /\ Group!Emit(l) /\ shards_out' = fetched
          /\ group_pc' = IF fetched = {} THEN "done" ELSE "wait"
          /\ UNCHANGED <<hedge_due, failed>>
      BY <1>4, <2>1, <2>4, <2>5, SameCardinality DEF Group!Start
    <2>7. l \in Group!Locals
      <3> HIDE DEF fetched, received, cached
      <3>1. /\ asked.dispatched_shards \cup received \in SUBSET Group!Shard
            /\ received \in SUBSET Group!Shard /\ cached \in SUBSET Index
        BY <1>2, <2>1, <2>2, <2>4
      <3> QED  BY <2>3, <2>5, <3>1 DEF Group!Locals, Group!Index, Index
    <2>8. /\ l.dispatched_shards = fetched \cup received /\ l.dispatched = Cardinality(fetched)
          /\ l.completed = 0 /\ l.successes = Cardinality(received)
          /\ l.received_shards = received /\ l.requested_ready = cached
      <3> HIDE DEF fetched, received, cached
      <3> QED  BY <1>2, <2>3, <2>4, <2>5 DEF Group!Locals
    <2>9. ~l.recovery_dispatched
      <3>1. l.recovery_dispatched = asked.recovery_dispatched
        BY <2>5, Zenon DEF Group!Locals
      <3> QED  BY <1>2, <2>4, <3>1, Zenon
    <2>10. rolling' \in BOOLEAN /\ (rolling' => parity_count > 0 /\ Group!Data = requested)
      <3>1. rolling' <=> /\ Cardinality(requested) = group.data /\ parity_count > 0
                         /\ requested \ cached # {}
                         /\ Cardinality(InCache({"decoded"})) < parity_count
        BY <2>1, <2>6, SameCardinality
           DEF Group!rolling_full_group_eligible, Group!static_rolling_candidate,
               Group!requested_count
      <3>2. IsFiniteSet(Group!Data) /\ Cardinality(Group!Data) = group.data
        BY <2>1, FS_Interval
      <3>3. Cardinality(requested) = group.data => requested = Group!Data
        BY <2>1, <3>2, FS_Subset
      <3>4. rolling' \in BOOLEAN
        BY <2>6, Zenon DEF Group!rolling_full_group_eligible
      <3> QED  BY <3>1, <3>3, <3>4
    <2>11. Counted(l, fetched, {})
      <3>1. requested \subseteq cached \cup fetched \cup {}
        OBVIOUS
      <3> HIDE DEF fetched, received, cached
      <3> QED  BY <2>1, <2>2, <2>3, <2>7, <2>8, <3>1 DEF Counted
    <2>12. Recovers(l, {})'
      <3>1. rolling' => Group!Data \subseteq l.dispatched_shards \cup InCache({"decoded"})
        BY <2>1, <2>8, <2>10
      <3>2. l.dispatched_shards \subseteq requested
        BY <2>1, <2>8
      <3> HIDE DEF fetched, received, cached
      <3> QED  BY <1>1, <2>9, <2>10, <3>1, <3>2, GroupConstant DEF Recovers
    <2>13. emitted' = [i \in Index |-> IF i \in loop'.requested_ready THEN 1 ELSE 0]
      <3>1. emitted' = [i \in Index |-> IF i \in l.requested_ready THEN 1 ELSE 0]
        <4>1. loop.requested_ready \subseteq l.requested_ready /\ l.requested_ready \subseteq requested
          BY <1>2, <2>1, <2>8
        <4> QED  BY <1>2, <2>6, <4>1, EmitKeeps
      <3> QED  BY <2>6, <3>1
    <2>14. group_pc' \in {"done", "wait"} /\ (group_pc' = "done" => cached = requested)
      <3>1. fetched = {} => cached = requested
        BY <2>1
      <3> QED  BY <2>6, <3>1
    <2>15. loop' \in Group!Locals /\ loop'.requested_ready = cached /\ cached \subseteq requested
      BY <2>1, <2>6, <2>7, <2>8
    <2> HIDE DEF fetched, received, cached
    <2>16. GroupTypes'
      BY <1>1, <1>2, <2>6, <2>10, <2>13, <2>14, <2>15, GroupConstant DEF GroupTypes
    <2>17. Progress
      BY <1>1, <1>2, <2>13, <2>14, <2>15 DEF Progress, Ended
    <2>18. GivesUpOnlyWhenLost'
      BY <2>14 DEF GivesUpOnlyWhenLost
    <2>19. Counted(loop, shards_out, failed)' /\ Recovers(loop, failed)'
      <3>1. Counted(loop', shards_out', failed')
        BY <1>2, <2>6, <2>11
      <3>2. failed' = {} /\ loop' = l
        BY <1>2, <2>6
      <3> QED  BY <1>1, <2>12, <3>1, <3>2, GroupConstant DEF Counted, Recovers
    <2> QED  BY <2>14, <2>16, <2>17, <2>18, <2>19 DEF GroupInv
  <1> QED  BY <1>3, <1>4

LEMMA GroupStep ==
    ASSUME GroupInv, [Group!Next]_(Group!vars)
    PROVE  /\ GroupInv'
           /\ Progress \/ UNCHANGED <<group, group_pc, emitted>>
  <1>1. CASE Group!Start
    BY <1>1, StartKeeps
  <1>2. CASE Group!Receive
    BY <1>2, ReceiveKeeps
  <1>3. CASE Group!Timeout
    BY <1>3, TimeoutKeeps
  <1>4. CASE Group!StopWaiting
    <2>1. group_pc = "wait" /\ group_cancelled /\ Group!GiveUp /\ UNCHANGED <<group, group_cancelled>>
      BY <1>4 DEF Group!StopWaiting
    <2>2. GivesUpOnlyWhenLost'
      BY <2>1 DEF GivesUpOnlyWhenLost
    <2>3. hedge_due' \in BOOLEAN /\ group_cancelled' \in BOOLEAN
      BY <2>1 DEF Group!GiveUp, GroupInv, GroupTypes
    <2> QED  BY <2>1, <2>2, <2>3, RestKeeps DEF Group!GiveUp, Ended
  <1>5. CASE Group!Cancel \/ Group!Rest \/ UNCHANGED Group!vars
    <2>1. /\ UNCHANGED <<group, rolling, loop, shards_out, emitted, group_pc, failed>>
          /\ hedge_due' \in BOOLEAN /\ group_cancelled' \in BOOLEAN
          /\ group_cancelled => group_cancelled'
      <3>1. hedge_due \in BOOLEAN /\ group_cancelled \in BOOLEAN
        BY DEF GroupInv, GroupTypes
      <3>2. CASE Group!Cancel
        BY <3>1, <3>2 DEF Group!Cancel
      <3>3. CASE Group!Rest \/ UNCHANGED Group!vars
        BY <3>1, <3>3 DEF Group!Rest, Group!vars
      <3> QED  BY <1>5, <3>2, <3>3
    <2> QED  BY <2>1, RestKeeps
  <1> QED  BY <1>1, <1>2, <1>3, <1>4, <1>5 DEF Group!Next

LEMMA GroupInitial == Group!Init => GroupInv
  <1> SUFFICES ASSUME Group!Init PROVE GroupInv
    OBVIOUS
  <1> DEFINE first == [dispatched_shards |-> {}, requested_ready |-> {}, received_shards |-> {},
                       successes |-> 0, dispatched |-> 0, completed |-> 0,
                       recovery_dispatched |-> FALSE]
  <1>1. /\ group \in Group!Groups /\ {rolling, hedge_due, group_cancelled} \subseteq BOOLEAN
        /\ group_pc = "start" /\ loop = first /\ shards_out = {} /\ failed = {}
        /\ emitted = [i \in Index |-> 0]
    BY DEF Group!Init, Group!Index, Index
  <1>2. first \in Group!Locals /\ first.requested_ready = {} /\ first.dispatched_shards = {}
        /\ first.received_shards = {} /\ first.dispatched = 0 /\ first.completed = 0
    BY DEF Group!Locals
  <1>3. ~first.recovery_dispatched
    OBVIOUS
  <1> HIDE DEF first
  <1> QED  BY <1>1, <1>2, <1>3 DEF GroupInv, GroupTypes, GivesUpOnlyWhenLost

LEMMA GroupInvariant == Group!Spec => []GroupInv
  <1> QED  BY GroupInitial, GroupStep, PTL DEF Group!Spec

(* However the shards of a group fail, are late or are replaced, a group   *)
(* that is wanted and sound gives up only once too many shards are lost.   *)
THEOREM OnlyLostGroupsGiveUp == Group!Spec => []GivesUpOnlyWhenLost
  <1>1. GroupInv => GivesUpOnlyWhenLost
    BY DEF GroupInv
  <1> QED  BY GroupInvariant, <1>1, PTL

\* Going on is serving some of the missing children.
LEMMA ProgressServes ==
    ASSUME GroupInv, Progress, group_pc' \in {"start", "wait", "done", "none"}
    PROVE  Promise!Serve
  <1> DEFINE children == loop'.requested_ready \ loop.requested_ready
  <1>1. /\ emitted = [i \in Index |-> IF i \in loop.requested_ready THEN 1 ELSE 0]
        /\ emitted' = [i \in Index |-> IF i \in loop'.requested_ready THEN 1 ELSE 0]
        /\ loop.requested_ready \subseteq loop'.requested_ready
        /\ loop'.requested_ready \subseteq requested /\ requested \subseteq Index
        /\ group_pc' = "done" => loop'.requested_ready = requested
        /\ group_pc \notin Ended /\ requested' = requested
    BY GroupShape, GroupConstant DEF GroupInv, GroupTypes, Progress
  <1>2. Promise!Missing = requested \ loop.requested_ready
    BY <1>1 DEF Promise!Missing
  <1>3. Promise!Emit(children)
    BY <1>1 DEF Promise!Emit
  <1>4. children \in SUBSET Promise!Missing /\ (group_pc' = "done" => children = Promise!Missing)
    BY <1>1, <1>2
  <1>5. ended = "no" /\ ended' \in {"no", "lost"} \cup (IF children = Promise!Missing THEN {"all"} ELSE {})
    BY <1>1, <1>4 DEF ended, Ended
  <1> HIDE DEF children
  <1> QED  BY <1>1, <1>3, <1>4, <1>5 DEF Promise!Serve

(* Whatever comes from the cache, arrives, fails, is late or is            *)
(* reconstructed, a group keeps its promise to the join that asked: only   *)
(* the children asked for, none of them twice, all if it ends well.        *)
THEOREM GroupsImplementPromise == Group!Spec => ImplementsGroup
  <1>1. Group!Init => Promise!Init
    <2> SUFFICES ASSUME Group!Init PROVE Promise!Init
      OBVIOUS
    <2>1. requested \subseteq Index
      BY GroupShape DEF Group!Init
    <2> QED  BY <2>1 DEF Group!Init, Promise!Init, ended, Group!Index, Index
  <1>2. GroupInv /\ GroupInv' /\ [Group!Next]_(Group!vars) => [Promise!Serve]_(Promise!vars)
    <2> SUFFICES ASSUME GroupInv, GroupInv', [Group!Next]_(Group!vars)
                 PROVE  [Promise!Serve]_(Promise!vars)
      OBVIOUS
    <2>1. group_pc' \in {"start", "wait", "done", "none"}
      BY DEF GroupInv, GroupTypes
    <2>2. CASE Progress
      BY <2>1, <2>2, ProgressServes
    <2>3. CASE UNCHANGED <<group, group_pc, emitted>>
      BY <2>3, GroupConstant DEF Promise!vars, ended
    <2> QED  BY <2>2, <2>3, GroupStep
  <1> QED  BY <1>1, <1>2, GroupInvariant, PTL DEF Group!Spec, ImplementsGroup, Promise!Spec
=============================================================================
