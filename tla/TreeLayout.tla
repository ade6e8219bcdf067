----------------------------- MODULE TreeLayout -----------------------------
(***************************************************************************)
(* The shape of a file's tree (erasure_coding.rs): how a node of a given   *)
(* span divides it among its children, and how many chunks the tree of a   *)
(* file has.  Sizes are in units of which a chunk holds ChunkSize.         *)
(***************************************************************************)
EXTENDS Naturals, FiniteSetsExt

CONSTANTS
    ChunkSize,  \* CHUNK_SIZE
    MaxShards,  \* RedundancyLevel::max_shards: data references in a full node
    Parities,   \* RedundancyLevel::parities: parity chunks for so many children
    MaxLevels   \* BEE_MAX_UPLOAD_TREE_LEVELS

ASSUME LayoutAssumption ==
    /\ ChunkSize \in Nat \ {0} /\ MaxLevels \in Nat
    /\ MaxShards \in Nat \ {0, 1}
    /\ Parities \in [0..MaxShards -> Nat]

ceil(a, b) == (a + b - 1) \div b

\* The span below a full node at some height above the leaves.
Capacity(height) == ChunkSize * MaxShards^height

\* The largest full subtree that fits more than once is the child of a node.
reference_layout(span) ==
    LET height == Min({h \in 0..span : Capacity(h + 1) >= span})
        data == ceil(span, Capacity(height))
    IN  [data_shards |-> data, parity_shards |-> Parities[data],
         child_capacity |-> Capacity(height)]

\* What the child at an index of a node of that layout may span.
child_limit(span, layout, index) ==
    IF index + 1 = layout.data_shards THEN span - layout.child_capacity * index
    ELSE layout.child_capacity

\* Chunks above input_chunks of them: full groups, one partial group if more
\* than one chunk is left over, and a single left-over chunk carried up.
Above[input_chunks \in Nat] ==
    IF input_chunks <= 1 THEN 0
    ELSE LET full == input_chunks \div MaxShards
             left == input_chunks % MaxShards
             partial == IF left > 1 THEN 1 + Parities[left] ELSE 0
         IN  full * (1 + Parities[MaxShards]) + partial
                + Above[full + (IF left > 0 THEN 1 ELSE 0)]

Levels[input_chunks \in Nat] ==
    IF input_chunks <= 1 THEN 0 ELSE 1 + Levels[ceil(input_chunks, MaxShards)]

leaf_chunks(length) == Max({1, ceil(length, ChunkSize)})

fits_upload_tree(length) == Levels[leaf_chunks(length)] <= MaxLevels
upload_tree_chunk_count(length) == leaf_chunks(length) + Above[leaf_chunks(length)]
=============================================================================
