--------------------------- MODULE PeerPopulation ---------------------------
(***************************************************************************)
(* What the connection lifecycle promises of each peer: it is free, tried, *)
(* connected or resting, one at a time; the tried and the connected fill   *)
(* at most Limit slots; a peer becomes connected only from an attempt, and *)
(* is tried again only after its rest.                                     *)
(***************************************************************************)
EXTENDS Naturals, FiniteSets

CONSTANTS Peer, Limit

VARIABLE phase

Occupied == {p \in Peer : phase[p] \in {"tried", "connected"}}

Init == phase = [p \in Peer |-> "free"]

Move(p, from, to) ==
    /\ phase[p] \in from
    /\ phase' = [phase EXCEPT ![p] = to]

Try(p) == Cardinality(Occupied) < Limit /\ Move(p, {"free"}, "tried")
Connect(p) == Move(p, {"tried"}, "connected")
GiveUp(p) == Move(p, {"tried", "connected"}, "free")
Rest(p) == Move(p, {"free", "tried", "connected"}, "resting")
Recover(p) == Move(p, {"resting"}, "free")

(* A network switch forgets every peer.                                    *)
Reset == phase' = [p \in Peer |-> "free"]

Next ==
    \/ \E p \in Peer : Try(p) \/ Connect(p) \/ GiveUp(p) \/ Rest(p) \/ Recover(p)
    \/ Reset

Spec == Init /\ [][Next]_phase
=============================================================================
