------------------------------ MODULE GroupKept ------------------------------
(***************************************************************************)
(* What the fetch of a group of children (ErasureGroup) keeps to, whatever *)
(* becomes of its shards.                                                  *)
(***************************************************************************)
EXTENDS Naturals, FiniteSets

CONSTANTS
    MaxData, MaxParity, \* bounds on a group's shape (the code: 256 together)
    ExtraShards,        \* RETRIEVE_RECOVERY_EXTRA_SHARDS
    ProgressiveBatch    \* RETRIEVE_RECOVERY_PROGRESSIVE_BATCH

ASSUME GroupAssumption ==
    {MaxData, MaxParity, ExtraShards, ProgressiveBatch} \subseteq Nat

VARIABLES
    group,     \* the request: shape, children asked for, what is cached, and
               \*   whether its shards decode and belong together
    group_cancelled, \* the generation of the request is stale
    group_pc,  \* "start", "wait", "done" (Some) or "none" (None)
    failed,    \* shards that answered with nothing usable (history)
    emitted    \* how often each child was emitted

Index == 0..(MaxData - 1)
parity_count == group.parity
requested == group.first..group.last
InCache(kinds) == {i \in requested : group.cached[i] \in kinds}

-----------------------------------------------------------------------------
(* Properties *)

ended == IF group_pc = "done" THEN "all" ELSE IF group_pc = "none" THEN "lost" ELSE "no"

Promise == INSTANCE GroupPromise WITH Child <- Index

\* The join gets what it was promised: the children it asked for, none of
\* them twice although a child may be in the cache, arrive, arrive again as
\* a recovery shard or be reconstructed, and all of them if the group ends
\* well.
ImplementsGroup == Promise!Spec

\* A group whose generation is current and whose shards are what the uploader
\* should have made gives up only when it must: so many shards failed that,
\* with those cached in decoded form alone, of which no raw shard is at hand,
\* fewer than data_count are left.
GivesUpOnlyWhenLost ==
    group_pc = "none" /\ ~group_cancelled /\ group.consistent =>
        \/ parity_count = 0 /\ failed /= {}
        \/ Cardinality(failed) + Cardinality(InCache({"decoded"})) > parity_count
=============================================================================
