------------------------------ MODULE RawFetch ------------------------------
(***************************************************************************)
(* Raw chunks fetched once for everyone who wants them: a registry keeps   *)
(* one flight per key (SingleflightRegistry, RAW_FETCH_FLIGHTS), callers   *)
(* join it and leave it, the dispatcher of lib.rs runs its request, and    *)
(* its completion answers whoever still waits and fills the cache.  What   *)
(* happens inside the request is ChunkRequest, which RetrieveChunk         *)
(* implements.                                                             *)
(***************************************************************************)
EXTENDS RawFlights, FiniteSetsExt

\* What a configuration has to give.
RawFetchAssumption ==
    /\ KeyOf \in [Waiter -> Key]
    /\ DOMAIN ReferenceOf = Waiter
    /\ Permits \in Nat \ {0} /\ MaxClaims \in Nat \ {0}
    /\ NoFlight \notin Nat

vars == <<flights, flight, port, waiter, cache, cancelled, paused>>

Reference == {ReferenceOf[w] : w \in Waiter}
Stages == {"queued", "spawned", "running", "done"}
Results == {"canonical", "soc", "empty"}

Flights == [key : Key, stage : Stages, open : BOOLEAN, waiters : SUBSET Waiter,
            references : SUBSET Reference, claimed : 0..MaxClaims, out : 0..MaxClaims,
            exhausted : BOOLEAN]  \* exhausted: ended while still open (history)

Waiters == [step : {"new", "waiting", "answered", "left"}, flight_id : Nat,
            result : {"none"} \cup Results,
            late : BOOLEAN]  \* joined a flight that was already closed (history)

TypeOK ==
    /\ flights \in [Key -> Nat \cup {NoFlight}]
    /\ \A k \in Key : flights[k] /= NoFlight => flights[k] \in FlightId
    /\ flight \in Seq(Flights)
    /\ \A f \in FlightId : flight[f].out <= flight[f].claimed
    /\ port \in Seq(FlightId)
    /\ waiter \in [Waiter -> Waiters]
    /\ cache \subseteq Reference /\ cancelled \subseteq Key /\ paused \in BOOLEAN
    /\ Cardinality({f \in FlightId : flight[f].stage = "running"}) <= Permits

Init ==
    /\ flights = [k \in Key |-> NoFlight]
    /\ flight = <<>> /\ port = <<>>
    /\ waiter = [w \in Waiter |-> [step |-> "new", flight_id |-> 0, result |-> "none", late |-> FALSE]]
    /\ cache = {} /\ cancelled = {} /\ paused = FALSE

-----------------------------------------------------------------------------
(* Callers (RawFetchQueue) *)

Current(f) == flight[f].key \notin cancelled

Hit(w) ==
    /\ ReferenceOf[w] \in cache
    /\ waiter' = [waiter EXCEPT ![w].step = "answered", ![w].result = "canonical"]
    /\ UNCHANGED <<flights, flight, port>>

Join(w) ==
    LET f == flights[KeyOf[w]]
    IN  /\ ReferenceOf[w] \notin cache /\ f /= NoFlight
        /\ flight' = [flight EXCEPT ![f].waiters = @ \cup {w},
                                    ![f].references = @ \cup {ReferenceOf[w]}]
        /\ waiter' = [waiter EXCEPT ![w].step = "waiting", ![w].flight_id = f,
                                    ![w].late = ~flight[f].open]
        /\ UNCHANGED <<flights, port>>

Lead(w) ==
    LET f == Len(flight) + 1
    IN  /\ ReferenceOf[w] \notin cache /\ flights[KeyOf[w]] = NoFlight
        /\ flights' = [flights EXCEPT ![KeyOf[w]] = f]
        /\ flight' = Append(flight, [key |-> KeyOf[w], stage |-> "queued", open |-> TRUE,
                                     waiters |-> {w}, references |-> {ReferenceOf[w]},
                                     claimed |-> 0, out |-> 0, exhausted |-> FALSE])
        /\ port' = Append(port, f)
        /\ waiter' = [waiter EXCEPT ![w].step = "waiting", ![w].flight_id = f]

queue_drained_raw_chunk(w) ==
    /\ waiter[w].step = "new"
    /\ Hit(w) \/ Join(w) \/ Lead(w)
    /\ UNCHANGED <<cache, cancelled, paused>>

(* The queue is dropped or closed: each registration still known to its    *)
(* flight is removed; the last one closes the admission, and takes the     *)
(* flight away when nothing was dispatched for it.                         *)
IsWaiter(w, f) == f /= 0 /\ Registered(f) /\ w \in flight[f].waiters
TakesFlight(f) == flight[f].claimed = 0
IsLast_Ignored(w, f) == TRUE
IsLast(w, f) == flight[f].waiters = {w}
StaysOpen(w, f) == flight[f].open /\ ~IsLast(w, f)

remove_raw_fetch_waiter(w) ==
    LET f == waiter[w].flight_id
    IN  IF ~IsWaiter(w, f)
        THEN UNCHANGED <<flights, flight>>
        ELSE /\ flight' = [flight EXCEPT ![f].waiters = @ \ {w},
                                         ![f].open = StaysOpen(w, f)]
             /\ flights' = IF IsLast(w, f) /\ TakesFlight(f)
                           THEN [flights EXCEPT ![flight[f].key] = NoFlight] ELSE flights

Leave(w) ==
    /\ waiter[w].step \in {"waiting", "answered"}
    /\ remove_raw_fetch_waiter(w)
    /\ waiter' = [waiter EXCEPT ![w].step = "left"]
    /\ UNCHANGED <<port, cache, cancelled, paused>>

-----------------------------------------------------------------------------
(* Completion (complete_raw_fetch): only the flight's own producer takes   *)
(* it; a canonical chunk is cached whether or not anybody still waits.     *)

Takes(f) == Registered(f)

Complete(f, result) ==
    LET k == flight[f].key
        taken == flights[k]
        done == [flight EXCEPT ![f].stage = "done",
                               ![f].exhausted = flight[f].open]
    IN  IF ~Takes(f)
        THEN flight' = done /\ UNCHANGED <<flights, waiter, cache>>
        ELSE /\ flights' = [flights EXCEPT ![k] = NoFlight]
             /\ flight' = [done EXCEPT ![taken].open = FALSE, ![taken].waiters = {}]
             /\ cache' = IF result = "canonical" THEN cache \cup flight[taken].references ELSE cache
             /\ waiter' = [w \in Waiter |->
                   IF w \in flight[taken].waiters /\ waiter[w].step = "waiting"
                   THEN [waiter[w] EXCEPT !.step = "answered", !.result = result]
                   ELSE waiter[w]]

-----------------------------------------------------------------------------
(* The dispatcher (retrieve_chunk_handle): requests leave the port in      *)
(* order; the first one holds up the rest while transfers are paused,      *)
(* unless its admission closes.                                            *)

Running == Cardinality({f \in FlightId : flight[f].stage = "running"})

Dispatch ==
    /\ port /= <<>>
    /\ LET f == Head(port)
       IN  \/ /\ ~flight[f].open \/ (~paused /\ ~Current(f))
              /\ Complete(f, "empty")
           \/ /\ flight[f].open /\ ~paused /\ Current(f)
              /\ flight' = [flight EXCEPT ![f].stage = "spawned"]
              /\ UNCHANGED <<flights, waiter, cache>>
    /\ port' = Tail(port)
    /\ UNCHANGED <<cancelled, paused>>

\* acquire_retrieve_permit gives up when the admission closes.  The task has
\* looked at the pause before and looks again while it holds the permit: a
\* paused one is "running" and claims nothing.
HasPermit == Running < Permits
AcquirePermit(f) ==
    /\ flight[f].stage = "spawned"
    /\ \/ /\ ~flight[f].open \/ (HasPermit /\ ~Current(f))
          /\ Complete(f, "empty")
       \/ /\ flight[f].open /\ HasPermit /\ Current(f)
          /\ flight' = [flight EXCEPT ![f].stage = "running"]
          /\ UNCHANGED <<flights, waiter, cache>>
    /\ UNCHANGED <<port, cancelled, paused>>

(* The request (ChunkRequest) *)

Claim(f) ==
    /\ flight[f].stage = "running" /\ flight[f].open /\ Current(f) /\ ~paused
    /\ flight[f].claimed < MaxClaims
    /\ flight' = [flight EXCEPT ![f].claimed = @ + 1, ![f].out = @ + 1]
    /\ UNCHANGED <<flights, port, waiter, cache, cancelled, paused>>

Settle(f) ==
    /\ flight[f].out > 0
    /\ flight' = [flight EXCEPT ![f].out = @ - 1]
    /\ UNCHANGED <<flights, port, waiter, cache, cancelled, paused>>

Answer_Found(f) ==
    /\ flight[f].stage = "running" /\ flight[f].claimed > 0
    /\ \E result \in {"canonical", "soc"} : Complete(f, result)
    /\ UNCHANGED <<port, cancelled, paused>>

Answer(f) ==
    /\ flight[f].stage = "running"
    /\ \/ flight[f].out = 0 /\ Complete(f, "empty")
       \/ flight[f].claimed > 0 /\ \E result \in {"canonical", "soc"} : Complete(f, result)
    /\ UNCHANGED <<port, cancelled, paused>>

-----------------------------------------------------------------------------
(* The rest of the node *)

\* A newer generation registers for the stream (RetrieveCancelRegistry).
Cancel(k) ==
    /\ k \notin cancelled /\ cancelled' = cancelled \cup {k}
    /\ UNCHANGED <<flights, flight, port, waiter, cache, paused>>

toggle ==
    /\ paused' = ~paused
    /\ UNCHANGED <<flights, flight, port, waiter, cache, cancelled>>

\* DecodedChunkCache is bounded: the least recently used entry goes.
Evict ==
    /\ \E r \in cache : cache' = cache \ {r}
    /\ UNCHANGED <<flights, flight, port, waiter, cancelled, paused>>

Next ==
    \/ \E w \in Waiter : queue_drained_raw_chunk(w) \/ Leave(w)
    \/ Dispatch
    \/ \E f \in FlightId : AcquirePermit(f) \/ Claim(f) \/ Settle(f) \/ Answer(f)
    \/ \E k \in Key : Cancel(k)
    \/ toggle \/ Evict

Spec == Init /\ [][Next]_vars

\* The dispatcher and the spawned tasks run; exchanges settle by their
\* timeout and requests end (EndsUnlessStarved of RetrieveChunk); a free
\* permit reaches every task that keeps waiting for one.
FairSpec ==
    /\ Spec /\ WF_vars(Dispatch)
    /\ \A f \in 1..Cardinality(Waiter) :
          /\ SF_vars(f \in FlightId /\ AcquirePermit(f))
          /\ WF_vars(f \in FlightId /\ Settle(f))
          /\ WF_vars(f \in FlightId /\ Answer(f))

-----------------------------------------------------------------------------
(* Properties *)

\* Every caller that stays is answered, unless transfers are paused over and
\* over: with its flight's result, also when the flight was closed before it
\* joined.
WaitersAnswered ==
    <>[]~paused =>
        \A w \in Waiter : waiter[w].step = "waiting" ~> waiter[w].step /= "waiting"

\* A key does not stay with a closed flight: the flight its last caller
\* abandoned drains and frees the key, paused or not.
AbandonedFlightsDrain ==
    \A k \in Key : (flights[k] /= NoFlight /\ ~flight[flights[k]].open) ~>
        (flights[k] = NoFlight \/ flight[flights[k]].open)

\* No flight lasts: neither its waiters nor its key stay with it.
FlightsEnd == WaitersAnswered /\ AbandonedFlightsDrain
=============================================================================
