------------------------------ MODULE MCWaiters ------------------------------
(***************************************************************************)
(* Those who wait, for TLC.  A behaviour is either that of requests which  *)
(* wait for credit (CreditWait) or that of the callers of raw chunks who   *)
(* wait for a flight (RawFetch); the other rests where it starts.          *)
(***************************************************************************)
EXTENDS CreditWait, RawFlights

CONSTANTS
    cheap, expensive,
    k1, w1, w2, w3, plain, encrypted

VARIABLE part

Fetch == INSTANCE RawFetch

ASSUME Fetch!RawFetchAssumption

\* A cheap and an expensive request.
Prices == [r \in Request |-> IF r = cheap THEN 1 ELSE 2]

\* Three callers of one chunk, by its plain and by its encrypted reference.
OneKey == [w \in Waiter |-> k1]
TwoReferences == [w \in Waiter |-> IF w = w2 THEN encrypted ELSE plain]

fetchvars == <<flights, flight, port, waiter, cache, cancelled, paused>>
allvars == <<part, vars, fetchvars>>

MCInit ==
    /\ part \in {"credit", "fetch"}
    /\ Init /\ Fetch!Init
    /\ part = "fetch" => selectable = {} /\ \A p \in Peer : account[p].threshold = 0

RunsCredit(A) == part = "credit" /\ A /\ UNCHANGED <<part, fetchvars>>
RunsFetch(A) == part = "fetch" /\ A /\ UNCHANGED <<part, vars>>

MCNext == RunsCredit(Next) \/ RunsFetch(Fetch!Next)

\* FairSpec of the one or of the other: notified requests are polled, and of a
\* flight its exchanges and then its request end.
Asking(n) == IF n = 1 THEN cheap ELSE expensive

MCSpec ==
    /\ MCInit /\ [][MCNext]_allvars
    /\ WF_allvars(RunsCredit(NotificationTimer) \/ RunsFetch(Fetch!Dispatch))
    /\ \A n \in 1..Cardinality(Waiter) :
          /\ SF_allvars(RunsFetch(n \in Fetch!FlightId /\ Fetch!AcquirePermit(n)))
          /\ WF_allvars(\/ RunsCredit(WakeUp(Asking(n)))
                        \/ RunsFetch(n \in Fetch!FlightId /\ (Fetch!Settle(n) \/ Fetch!Answer(n))))

-----------------------------------------------------------------------------
(* The endings of both.                                                    *)

Beside(r) == r \in Listening /\ Affordable(r) /= {}
Callers == {w \in Waiter : waiter[w].step = "waiting"}
Abandoned == {k \in Key : flights[k] /= NoFlight /\ ~flight[flights[k]].open}

\* Credit that comes, or stays, reaches every request that waits for it
\* (CreditReachesWaiters).  The callers of flights are answered, unless
\* transfers are paused over and over, and no key stays with a flight its last
\* caller abandoned (FlightsEnd, where callers come once and the key is one).
WaitsEnd ==
    /\ <>[]~paused =>
          (Beside(cheap) \/ Callers /= {}) ~> (cheap \notin Listening /\ Callers = {})
    /\ (Beside(expensive) \/ Abandoned /= {}) ~> (expensive \notin Listening /\ Abandoned = {})
=============================================================================
