----------------------------- MODULE UploadData -----------------------------
(***************************************************************************)
(* One file on its way to the network (push_data_input_with_root): leaves  *)
(* are stamped a window at a time and queued in order, the tree above them *)
(* grows as they go, with parity chunks for every group and replicas of    *)
(* the root; the dispatcher of lib.rs pushes each chunk, checks that it    *)
(* can be retrieved and pushes it again until it can.  Two windows bound   *)
(* the chunks whose first push has not ended and those not yet confirmed.  *)
(*                                                                         *)
(* The producer is one task: `todo` are the chunks it still has to put     *)
(* into the tree, `flush` those it is queueing.  Chunks are known by the   *)
(* number of their turn in the queue.  A push ends, one way or the other   *)
(* (PushChunk says when); a check may wait for peers for ever; pauses of   *)
(* the transfer only delay its steps.                                      *)
(***************************************************************************)
EXTENDS TreeLayout, UploadQueue, SequencesExt

CONSTANTS
    Lengths,       \* lengths of the files to upload
    Replicas,      \* replicas of a root: RedundancyLevel::replica_count
    StampWindow,   \* STAMP_CHUNK_WINDOW
    Permits,       \* PUSH_CHUNK_CONCURRENCY
    MaxFailures    \* bound on the pushes of a file that fail

ASSUME UploadAssumption ==
    /\ Lengths \subseteq Nat /\ Replicas \in Nat /\ MaxFailures \in Nat
    /\ {StampWindow, Permits} \subseteq Nat \ {0}

VARIABLES
    length,     \* data_length of the file
    read,       \* leaves cut off so far
    flush,      \* spans of the chunks being stamped and queued, in order
    purpose,    \* what they are: "leaves", "parity", "parent" or "replicas"
    window,     \* spans of the leaves of this stamp window already queued
    todo,       \* chunks to put into the tree: their span and level
    buffers,    \* spans of the chunks without a parent, by level
    parent,     \* the group a parent is being built for: its level and children
    slots,      \* slot receipts consumed: chunk_slot_receipts has the others
    receipts,   \* receipts consumed: chunk_receipts has the others
    port,       \* chunk_push_port: the pushes not yet dispatched
    failures,   \* pushes that failed so far
    total,      \* chunks announced: UploadProgressDelta
    nodes,      \* the groups that got a parent (history)
    cause       \* why the upload failed: "input", "stamp", "shape" (history)

producer == <<length, pc, read, flush, purpose, window, todo, buffers, parent, nodes, cause>>
pushes == <<chunks, port, failures, done>>
vars == <<producer, pushes, slots, receipts, total>>

Steps == {"read", "flush", "slot", "receipt", "insert", "drain", "done", "failed"}
Stages == {"queued", "pushing", "checking", "waiting", "retry", "confirmed", "dropped"}
Tree == 0..(MaxLevels + 1)
NoGroup == [level |-> 0, children |-> <<>>]

Closed == pc = "failed"  \* feedback.is_closed: the receipts were dropped with the upload

leaf_spans(file) ==
    [i \in 1..leaf_chunks(file) |-> IF i * ChunkSize <= file THEN ChunkSize ELSE file % ChunkSize]
Total(spans) == FoldSeq(+, 0, spans)
Buffered == SumFunction([level \in Tree |-> Len(buffers[level])])

TypeOK ==
    /\ length \in Lengths /\ pc \in Steps /\ read \in 0..leaf_chunks(length)
    /\ buffers \in [Tree -> Seq(Nat)]
    /\ chunks \in Seq([stage : Stages, signalled : BOOLEAN])
    /\ slots \in 0..Cardinality(Signalled) /\ receipts \in 0..done

Init ==
    /\ length \in {file \in Lengths : fits_upload_tree(file)}
    /\ pc = "read" /\ read = 0 /\ flush = <<>> /\ purpose = "leaves"
    /\ window = <<>> /\ todo = <<>> /\ parent = NoGroup
    /\ buffers = [level \in Tree |-> <<>>]
    /\ total = upload_tree_chunk_count(length)
    /\ done = 0 /\ slots = 0 /\ receipts = 0
    /\ chunks = <<>> /\ port = <<>> /\ failures = 0
    /\ nodes = {} /\ cause = "none"

Fail(why) == pc' = "failed" /\ cause' = why

-----------------------------------------------------------------------------
\* The producer.

Flush(spans, what) == pc' = "flush" /\ flush' = spans /\ purpose' = what

\* The next stamp window of leaves; the bytes left over are a leaf of their own.
ReadLeaves ==
    LET leaves == leaf_spans(length)
        next == Min({read + StampWindow, Len(leaves)})
    IN  /\ pc = "read" /\ read < Len(leaves)
        /\ \/ Fail("input") /\ UNCHANGED <<read, flush, purpose>>
           \/ /\ Flush(SubSeq(leaves, read + 1, next), "leaves")
              /\ read' = next
              /\ UNCHANGED cause
        /\ UNCHANGED <<length, window, todo, buffers, parent, nodes, pushes, slots, receipts, total>>

\* enqueue_stamped_chunk.  A chunk without a stamp fails the upload in its turn.
Queue ==
    LET tracked == Len(chunks) + 1 - slots
    IN  /\ pc = "flush" /\ flush # <<>>
        /\ \/ Fail("stamp") /\ UNCHANGED <<chunks, port>>
           \/ /\ chunks' = Append(chunks, [stage |-> "queued", signalled |-> FALSE])
              /\ port' = Append(port, Len(chunks'))
              /\ pc' = IF tracked >= SlotWindow THEN "slot" ELSE "receipt"
              /\ UNCHANGED cause
        /\ UNCHANGED <<length, read, flush, purpose, window, todo, buffers, parent, nodes,
                       failures, done, slots, receipts, total>>

\* wait_for_next_chunk_push takes whichever slot was given first.
TakeSlot ==
    /\ pc = "slot" /\ slots < Cardinality(Signalled)
    /\ slots' = slots + 1 /\ pc' = "receipt"
    /\ UNCHANGED <<length, read, flush, purpose, window, todo, buffers, parent, nodes, cause,
                   pushes, receipts, total>>

\* As many chunks as may be are not known to be confirmed.
Full == Len(chunks) - receipts >= ReceiptWindow

\* ... and whichever receipt, before the chunk counts as queued.
TakeReceipt ==
    /\ pc = "receipt" /\ (Full => receipts < done)
    /\ receipts' = IF Full THEN receipts + 1 ELSE receipts
    /\ pc' = "flush" /\ flush' = Tail(flush)
    /\ window' = IF purpose = "leaves" THEN Append(window, Head(flush)) ELSE window
    /\ UNCHANGED <<length, read, purpose, todo, buffers, parent, nodes, cause,
                   pushes, slots, total>>

At(spans, level) == [i \in DOMAIN spans |-> [span |-> spans[i], level |-> level]]

\* Leaves enter the tree; parity chunks are followed by their parent; the
\* parent enters the tree a level up; after the replicas only receipts are left.
Flushed ==
    /\ pc = "flush" /\ flush = <<>>
    /\ \/ /\ purpose = "leaves"
          /\ pc' = "insert" /\ todo' = At(window, 0) /\ window' = <<>>
          /\ UNCHANGED <<flush, purpose, parent>>
       \/ /\ purpose = "parity"
          /\ Flush(<<Total(parent.children)>>, "parent")
          /\ UNCHANGED <<todo, window, parent>>
       \/ /\ purpose = "parent"
          /\ pc' = "insert" /\ parent' = NoGroup
          /\ todo' = At(<<Total(parent.children)>>, parent.level + 1) \o todo
          /\ UNCHANGED <<flush, purpose, window>>
       \/ /\ purpose = "replicas"
          /\ pc' = "drain" /\ UNCHANGED <<flush, purpose, todo, window, parent>>
    /\ UNCHANGED <<length, read, buffers, nodes, cause, pushes, slots, receipts, total>>

\* build_parent_chunk up to its parity chunks.
Build(group) ==
    LET layout == reference_layout(Total(group.children))
        parity_count == Parities[Len(group.children)]
    IN  /\ nodes' = nodes \cup {group.children}
        /\ parent' = group
        /\ IF layout.data_shards # Len(group.children) \/ layout.parity_shards # parity_count
           THEN Fail("shape") /\ UNCHANGED <<flush, purpose>>
           ELSE Flush([i \in 1..parity_count |-> 0], "parity") /\ UNCHANGED cause

Insert_AtFront ==  \* mutant: a chunk is put before its elders
    /\ pc = "insert" /\ todo # <<>>
    /\ LET level == Head(todo).level
           group == <<Head(todo).span>> \o buffers[level]
       IN  IF Len(group) < MaxShards
           THEN /\ buffers' = [buffers EXCEPT ![level] = group]
                /\ UNCHANGED <<pc, flush, purpose, parent, nodes, cause>>
           ELSE /\ buffers' = [buffers EXCEPT ![level] = <<>>]
                /\ Build([level |-> level, children |-> group])
    /\ todo' = Tail(todo)
    /\ UNCHANGED <<length, read, window, pushes, slots, receipts, total>>

\* insert_tree_chunk: a full group gets its parent before anything else goes on.
Insert ==
    /\ pc = "insert" /\ todo # <<>>
    /\ LET level == Head(todo).level
           group == Append(buffers[level], Head(todo).span)
       IN  IF Len(group) < MaxShards
           THEN /\ buffers' = [buffers EXCEPT ![level] = group]
                /\ UNCHANGED <<pc, flush, purpose, parent, nodes, cause>>
           ELSE /\ buffers' = [buffers EXCEPT ![level] = <<>>]
                /\ Build([level |-> level, children |-> group])
    /\ todo' = Tail(todo)
    /\ UNCHANGED <<length, read, window, pushes, slots, receipts, total>>

\* Everything in hand is in the tree: more leaves, or the end of the tree.
Inserted ==
    /\ pc = "insert" /\ todo = <<>> /\ read < leaf_chunks(length)
    /\ pc' = "read"
    /\ UNCHANGED <<length, read, flush, purpose, window, todo, buffers, parent, nodes, cause,
                   pushes, slots, receipts, total>>

\* The lowest group left gets a parent; a chunk alone in it moves up as it is.
Close ==
    /\ pc = "insert" /\ todo = <<>> /\ read = leaf_chunks(length) /\ Buffered > 1
    /\ LET level == Min({l \in Tree : buffers[l] # <<>>})
           children == buffers[level]
       IN  /\ buffers' = [buffers EXCEPT ![level] = <<>>]
           /\ IF Len(children) = 1
              THEN /\ todo' = At(children, level + 1)
                   /\ UNCHANGED <<pc, flush, purpose, parent, nodes, cause>>
              ELSE /\ Build([level |-> level, children |-> children])
                   /\ UNCHANGED todo
    /\ UNCHANGED <<length, read, window, pushes, slots, receipts, total>>

\* stamp_root_replicas of the one chunk left.
Root ==
    /\ pc = "insert" /\ todo = <<>> /\ read = leaf_chunks(length) /\ Buffered = 1
    /\ total' = total + Replicas
    /\ buffers' = [level \in Tree |-> <<>>]
    /\ Flush([i \in 1..Replicas |-> 0], "replicas")
    /\ UNCHANGED <<length, read, window, todo, parent, nodes, cause, pushes, slots, receipts>>

Drain_AtOnce ==  \* mutant: the reference is returned while pushes are under way
    /\ pc = "drain" /\ pc' = "done"
    /\ UNCHANGED <<length, read, flush, purpose, window, todo, buffers, parent, nodes, cause,
                   pushes, slots, receipts, total>>

\* wait_for_chunk_pushes, then the reference is returned.
Drain ==
    /\ pc = "drain"
    /\ IF receipts = Len(chunks)
       THEN pc' = "done" /\ UNCHANGED receipts
       ELSE receipts < done /\ receipts' = receipts + 1 /\ UNCHANGED pc
    /\ UNCHANGED <<length, read, flush, purpose, window, todo, buffers, parent, nodes, cause,
                   pushes, slots, total>>

Producer ==
    \/ ReadLeaves \/ Queue \/ TakeSlot \/ TakeReceipt \/ Flushed
    \/ Insert \/ Inserted \/ Close \/ Root \/ Drain

-----------------------------------------------------------------------------
\* The dispatcher and the tasks it spawns.

SetStage(k, stage) == chunks' = [chunks EXCEPT ![k].stage = stage]

\* A push of an upload that is gone gives its slot back and is forgotten.
Dispatch ==
    LET k == Head(port)
    IN  /\ port # <<>>
        /\ IF Closed
           THEN chunks' = [chunks EXCEPT ![k] = [stage |-> "dropped", signalled |-> TRUE]]
           ELSE Cardinality(In({"pushing"})) < Permits /\ SetStage(k, "pushing")
        /\ port' = Tail(port)
        /\ UNCHANGED <<producer, failures, done, slots, receipts, total>>

AfterFailure == IF Closed THEN "dropped" ELSE "retry"

\* push_chunk returns: the slot is given whatever came of it.
Pushed(k) ==
    /\ k \in In({"pushing"})
    /\ \/ /\ chunks' = [chunks EXCEPT ![k] = [stage |-> "checking", signalled |-> TRUE]]
          /\ UNCHANGED failures
       \/ /\ failures < MaxFailures /\ failures' = failures + 1
          /\ chunks' = [chunks EXCEPT ![k] = [stage |-> AfterFailure, signalled |-> TRUE]]
    /\ UNCHANGED <<producer, port, done, slots, receipts, total>>

\* The chunk is where it should be: the receipt is given.
Confirm(k) == SetStage(k, "confirmed") /\ done' = done + 1 /\ UNCHANGED failures

\* retrieve_check_chunk has no peer to ask, for credit or because it asked all
\* there are: it waits for credit, until there is one, with no deadline.
Starve(k) ==
    /\ k \in In({"checking"})
    /\ SetStage(k, "waiting")
    /\ UNCHANGED <<producer, port, failures, done, slots, receipts, total>>

\* It returns: peers enough had the chunk, or too many failed.
Checked(k) ==
    /\ k \in In({"checking", "waiting"})
    /\ \/ Confirm(k)
       \/ /\ failures < MaxFailures /\ failures' = failures + 1
          /\ SetStage(k, AfterFailure)
          /\ UNCHANGED done
    /\ UNCHANGED <<producer, port, slots, receipts, total>>

Retry_Forgotten(k) ==  \* mutant: a failed push is not queued again
    /\ k \in In({"retry"})
    /\ SetStage(k, "dropped")
    /\ UNCHANGED <<producer, port, failures, done, slots, receipts, total>>

\* The same request, behind everything queued meanwhile.
Retry(k) ==
    /\ k \in In({"retry"})
    /\ IF Closed THEN SetStage(k, "dropped") /\ UNCHANGED port
       ELSE SetStage(k, "queued") /\ port' = Append(port, k)
    /\ UNCHANGED <<producer, failures, done, slots, receipts, total>>

Task == \E k \in Chunk : Pushed(k) \/ Starve(k) \/ Checked(k) \/ Retry(k)

Next == Producer \/ Dispatch \/ Task

Spec == Init /\ [][Next]_vars

\* What goes on by itself: nobody owes a peer to a check that waits for one.
Working ==
    \E k \in Chunk :
        Pushed(k) \/ Starve(k) \/ (k \in In({"checking"}) /\ Checked(k)) \/ Retry(k)
FairSpec == Spec /\ WF_vars(Producer) /\ WF_vars(Dispatch) /\ WF_vars(Working)

-----------------------------------------------------------------------------
(* Properties. *)

\* The tree built from the bottom up is the one a reader descends from the
\* top: in every group each child spans exactly what the reader lets it span.
\* And it is the one announced to the progress bar before it was known, by the
\* closed form upload_tree_chunk_count: with the replicas, all that is queued.
TreeIsReadable ==
    /\ cause # "shape"
    /\ \A children \in nodes :
        \A i \in DOMAIN children :
            children[i] = child_limit(Total(children), reference_layout(Total(children)), i - 1)
    /\ pc = "done" => total = Len(chunks)

\* No wait for a slot, a receipt or a permit is forever while pushes end, and
\* what a failed upload left behind comes to an end too; only checks that never
\* find a peer hold the upload up, and they hold up no other chunk in the queue.
Settled ==
    /\ In({"confirmed", "dropped", "waiting"}) = Chunk
    /\ pc \in {"done", "failed"} \/ In({"waiting"}) # {}
UploadEnds == <>[]Settled
=============================================================================
