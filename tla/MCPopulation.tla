---------------------------- MODULE MCPopulation ----------------------------
(***************************************************************************)
(* Two peers of one overlay address, with a slot for each of them or one   *)
(* slot for both, against what PeerPopulation promises for that limit.     *)
(***************************************************************************)
EXTENDS MCConnectionLifecycle

VARIABLE limit

OneSlot == INSTANCE ConnectionLifecycle WITH Limit <- 1

MCInit == limit \in {1, Limit} /\ Init
MCNext ==
    /\ UNCHANGED limit
    /\ \/ limit = Limit /\ Next
       \/ limit = 1 /\ OneSlot!Next
MCSpec == MCInit /\ [][MCNext]_<<limit, vars>>

-----------------------------------------------------------------------------
(* Whatever the handlers do with a peer is a step of PeerPopulation for    *)
(* the limit there is, or changes no peer's phase: no peer is dialled      *)
(* while it rests, connected without an attempt, or dialled beyond the     *)
(* slots there are (try_start_peer_dial and whatever frees a slot).        *)
ImplementsPopulation ==
    /\ Population!Init
    /\ [][IF limit = 1 THEN OneSlot!Population!Next ELSE Population!Next]_Phase
=============================================================================
