--------------------------- MODULE RelayedRequest ---------------------------
(***************************************************************************)
(* What the service worker (ServiceWorker) owes the requests it relays.    *)
(***************************************************************************)
EXTENDS Naturals

CONSTANT Request  \* requests to come

VARIABLES
    request,           \* where each one is, and the status the page was told
    served, disturbed  \* how often a request was served, and whether its
                       \* surroundings changed under it (history)

-----------------------------------------------------------------------------
(* Properties. *)

\* Whatever times out, is refused, is lost with its port or goes another way
\* after all, the runtime serves a request at most once, and not if the page
\* is told that it was not sent or was refused.
ServedOnce ==
    \A r \in Request :
        /\ served[r] <= 1
        /\ request[r].status = 200 => served[r] = 1
        /\ request[r].status \in {409, 502, 503} => served[r] = 0

\* A switch of network leaves no window behind: a request of the network the
\* runtime is on, whose window is there, finds a way to it, whatever was cached.
NoneStranded == \A r \in Request : request[r].status = 503 => r \in disturbed

\* The runtime serves a request once at most and not if it was refused, and
\* a request whose window and network are there finds its way to it.
RequestsReachTheirRuntime == ServedOnce /\ NoneStranded
=============================================================================
