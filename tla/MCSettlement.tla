---------------------------- MODULE MCSettlement ----------------------------
(***************************************************************************)
(* Settlement on small instances.  The amounts keep the proportions of the *)
(* constants of src/accounting.rs: a chunk costs less than one refreshment,*)
(* a threshold covers a few of them.                                       *)
(***************************************************************************)
EXTENDS Settlement, TLC

Symmetry == Permutations(Request) \cup Permutations(Task)
                \cup Permutations(Account) \cup Permutations(Connection)
=============================================================================
