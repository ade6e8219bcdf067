------------------------------ MODULE RawFlights ------------------------------
(***************************************************************************)
(* What the flights of raw chunks owe those who wait for them: the state   *)
(* RawFetch changes, and what has to hold of it.                           *)
(***************************************************************************)
EXTENDS Naturals, Sequences

CONSTANTS
    Key,        \* RawFetchKey: address, expected CAC, cancel scope
    Waiter,     \* registrations: one queue_drained_raw_chunk each
    KeyOf,      \*   the key it asks for
    ReferenceOf,\*   the cache reference it gives
    Permits,    \* RETRIEVE_CHUNK_CONCURRENCY
    MaxClaims,  \* bound on the exchanges of a request
    NoFlight

VARIABLES
    flights,   \* RAW_FETCH_FLIGHTS: the flight registered for a key
    flight,    \* every flight, by its id
    port,      \* chunk_port: the requests not yet dispatched
    waiter,    \* a registration: where it stands and what it was answered
    cache,     \* references whose raw chunk is cached
    cancelled, \* keys whose cancel token is stale
    paused

FlightId == 1..Len(flight)

\* f is the flight registered for its key.
Registered(f) == flights[flight[f].key] = f

-----------------------------------------------------------------------------
\* Nobody waits for a flight that the registry has lost: whoever joins,
\* leaves or completes in between, a waiting caller is on the list of the
\* flight registered for its key, whose request is still under way.
WaitersAreReachable ==
    \A w \in Waiter : waiter[w].step = "waiting" =>
        LET f == waiter[w].flight_id
        IN  Registered(f) /\ w \in flight[f].waiters /\ flight[f].stage /= "done"

\* Exchanges are admitted only for somebody: a request that may still claim
\* one has a waiter.
WorkIsWanted ==
    \A f \in FlightId : flight[f].open /\ flight[f].stage /= "done" => flight[f].waiters /= {}

\* A chunk is not fetched twice at once: of the flights of a key at most one
\* is open or has exchanges out before its answer, however often the key was
\* abandoned and asked for again.
Busy(f) == flight[f].stage /= "done" /\ (flight[f].open \/ flight[f].out > 0)
OneBusyFlight ==
    \A f, g \in FlightId :
        Busy(f) /\ Busy(g) /\ flight[f].key = flight[g].key => f = g

\* A caller who joined while the flight was open is told "empty" only when
\* the request itself ran out, or its stream was cancelled: others leaving
\* never end it under him.
EmptyIsExhaustion ==
    \A w \in Waiter :
        LET f == waiter[w].flight_id
        IN  waiter[w].result = "empty" /\ ~waiter[w].late =>
                flight[f].stage = "done" /\ flight[f].exhausted

\* However often a key is abandoned and asked for again, its flights work for
\* somebody, one at a time, nobody waits for a flight that was lost and nobody
\* is told "empty" because others left.
FlightsServeTheirWaiters ==
    WaitersAreReachable /\ WorkIsWanted /\ OneBusyFlight /\ EmptyIsExhaustion
=============================================================================
