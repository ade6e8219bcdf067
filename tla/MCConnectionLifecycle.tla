----------------------- MODULE MCConnectionLifecycle -----------------------
(***************************************************************************)
(* The connection lifecycle on small instances: p1 and p2 announce the     *)
(* same overlay, p1 may be connected to twice.                             *)
(***************************************************************************)
EXTENDS ConnectionLifecycle, TLC

CONSTANTS p1, p2, c1, c2, c3, i1, i2

(* Two peers of one overlay, and one peer by itself.                       *)
TwoPeersOverlay == (p1 :> "overlay") @@ (p2 :> "overlay")
PairOf == (c1 :> p1) @@ (c3 :> p2)
OnePeerOf == (c1 :> p1) @@ (c2 :> p1)
OnePeerOverlay == (p1 :> "overlay")

NoRequest == {}
EveryRequest == Peer \X BOOLEAN

(* The connections c1 and c2 of p1 are alike, and the attempts are.        *)
Symmetry == Permutations({c1, c2}) \cup Permutations({i1, i2})
(* Two peers with their connections are alike when neither is a bootnode.  *)
PairSymmetry == {a @@ b : a \in {(p1 :> p1) @@ (p2 :> p2) @@ (c1 :> c1) @@ (c3 :> c3),
                                 (p1 :> p2) @@ (p2 :> p1) @@ (c1 :> c3) @@ (c3 :> c1)},
                         b \in Permutations({i1, i2})}
=============================================================================
