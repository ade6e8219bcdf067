------------------------------- MODULE MCPage -------------------------------
(***************************************************************************)
(* The windows of an origin for TLC, two of them and two networks.  A      *)
(* behaviour is that of the SharedWorker and its windows (SharedWorker),   *)
(* of requests on their way through the service worker (ServiceWorker), or *)
(* of the one player a window shows (HlsPlayer); the others rest in a      *)
(* first state.                                                            *)
(***************************************************************************)
EXTENDS SharedWorker, RelayedRequest, PlayerKept, TLC

CONSTANTS
    MaxRelayActs,
    MaxTasks, MaxPlayerActs,
    t1, t2, n1, n2, r1, r2

VARIABLES
    part,  \* "worker", "relay" or "player"
    network, previous, bound, jobs, windows, cached, probes, port, binding, opened, binds, notes,
    relay_acts,
    player_acts

Relay == INSTANCE ServiceWorker WITH MaxActs <- MaxRelayActs, acts <- relay_acts
Player == INSTANCE HlsPlayer WITH MaxActs <- MaxPlayerActs, acts <- player_acts

AnyNetwork == [{t1, t2} -> {n1, n2}]
Symmetry == Permutations({t1, t2}) \cup Permutations({n1, n2})

relayvars == <<network, previous, bound, jobs, windows, cached, probes, port, binding, opened,
               binds, notes, request, relay_acts, served, disturbed>>
playervars == <<player, quality, hls, from, tasks, player_acts>>
allvars == <<part, vars, relayvars, playervars>>

\* At rest windows were all on one network from the start, a service worker
\* has no network, a player is live and of a complete playlist.
Alike == \A t, u \in Tab : page[t].network = page[u].network
PlayerRests == player.live /\ ~player.boot /\ from = 0

MCInit ==
    /\ part \in {"worker", "relay", "player"}
    /\ Init /\ Relay!Init /\ Player!Init
    /\ part # "worker" => Alike
    /\ IF part = "relay" THEN \A t \in Tab : network \in {page[t].network, None}
                         ELSE network = None
    /\ part # "player" => PlayerRests

RunsWorker(A) == part = "worker" /\ A /\ UNCHANGED <<part, relayvars, playervars>>
RunsRelay(A) == part = "relay" /\ A /\ UNCHANGED <<part, vars, playervars>>
RunsPlayer(A) == part = "player" /\ A /\ UNCHANGED <<part, vars, relayvars>>

MCNext == RunsWorker(Next) \/ RunsRelay(Relay!Next) \/ RunsPlayer(Player!Next)
MCSpec == MCInit /\ [][MCNext]_allvars
=============================================================================
