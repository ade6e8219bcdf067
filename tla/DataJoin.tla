------------------------------ MODULE DataJoin ------------------------------
(***************************************************************************)
(* A byte range of a file, read from the network: the root chunk is asked  *)
(* for under its own address and, in growing batches, under those of its   *)
(* replicas; then the tree below it is walked, a few nodes at a time, each *)
(* as a group that emits the children wanted (GroupPromise, implemented by *)
(* ErasureGroup), and the leaves are copied to their place.                *)
(*                                                                         *)
(* The code between two waits runs on one thread: a turn of a loop is one  *)
(* step.                                                                   *)
(***************************************************************************)
EXTENDS TreeLayout, Sequences

CONSTANTS
    MaxSpan,     \* bound on the size of a file
    Defects,     \* bound on the children of a file that span too little or too much
    Ranges,      \* first and last byte of the ranges read
    Requests,    \* the root's own address and its replicas
    Concurrency  \* RETRIEVE_DATA_GROUP_CONCURRENCY

ASSUME JoinAssumption ==
    /\ MaxSpan \in Nat \ {0} /\ Defects \in Nat /\ Requests \in Nat \ {0} /\ Concurrency \in Nat \ {0}
    /\ Ranges \subseteq {r \in (0..MaxSpan) \X (0..MaxSpan) : r[1] <= r[2]}

VARIABLES
    file,       \* what is read, once its root is there: size and range, whether
                \*   its tree is one that an upload makes, and how many children
                \*   yet to come may have another span than they should
    cancelled,
    pc,         \* "start", "root", "join", "some", "none"
    root,       \* the root requests: next to send, completed, batch size
    out,        \*   and those not answered
    pending,    \* nodes to visit, in order
    groups,     \* nodes whose children are being fetched
    events,     \* children emitted and not yet taken up, in order
    written,    \* bytes copied to the output
    copies,     \* how often each byte was copied (history)
    lost        \* something was not to be had: the root, or a group (history)

vars == <<file, cancelled, pc, root, out, pending, groups, events, written, copies, lost>>

Byte == 0..(MaxSpan - 1)
Request == 0..(Requests - 1)

NoFile == [span |-> 0, from |-> 0, to |-> 0, sound |-> TRUE, defects |-> 0]
Files == {[span |-> span, from |-> r[1], to |-> r[2],
              sound |-> defects = 0, defects |-> defects] :
             span \in 0..MaxSpan, r \in Ranges, defects \in {0, Defects}}

NoRequests == [next |-> 0, completed |-> 0, next_batch |-> 2]
Nodes == [start : Byte, depth : Nat, span : 0..MaxSpan]

TypeOK ==
    /\ {cancelled, lost} \subseteq BOOLEAN
    /\ pc \in {"start", "root", "join", "some", "none"}
    /\ root \in [next : Nat, completed : Nat, next_batch : Nat]
    /\ out \subseteq Request
    /\ pending \in Seq(Nodes)
    /\ written \in Nat /\ copies \in [Byte -> Nat]

Init ==
    /\ file = NoFile /\ cancelled = FALSE
    /\ pc = "start"
    /\ root = NoRequests
    /\ out = {} /\ pending = <<>> /\ groups = {} /\ events = <<>>
    /\ written = 0 /\ copies = [b \in Byte |-> 0]
    /\ lost = FALSE

walk == <<pending, groups, events, written, copies>>

End(result) == pc' = result /\ UNCHANGED <<file, root, out, walk, lost>>

-----------------------------------------------------------------------------
(* The walk (retrieve_data_range_from_root) *)

\* The layout of every node there may be.
Layout == [span \in 1..MaxSpan |-> reference_layout(span)]

Limit(span, index) == child_limit(span, Layout[span], index)

payload_end == IF file.to < file.span THEN file.to ELSE file.span - 1
requested_len == payload_end - file.from + 1

\* A leaf is copied where it meets the range.
Meets(start, span) == {b \in start..(start + span - 1) : file.from <= b /\ b <= payload_end}

\* The children a node is asked for: those its range falls on.
requested_indices(node) ==
    LET layout == Layout[node.span]
        final == layout.data_shards - 1
        first == (IF file.from > node.start THEN file.from - node.start ELSE 0)
                    \div layout.child_capacity
        last == (payload_end - node.start) \div layout.child_capacity
    IN  {i \in 0..final : (first <= i \/ i = final) /\ i <= last}

Leaf(node) == node.span <= ChunkSize
Unusable(node) ==
    \/ node.depth > MaxLevels \/ node.span = 0
    \/ ~Leaf(node) /\ requested_indices(node) = {}

\* Nodes are visited in order while there is room for another group.
Visited(nodes, room) ==
    {i \in DOMAIN nodes : Cardinality({j \in 1..(i - 1) : ~Leaf(nodes[j])}) < room}

Idle(running) == running = {} /\ events' = <<>>

\* A turn of the loop, with the nodes and groups there are: leaves are copied,
\* other nodes become groups, and the walk ends when no group is running and
\* no child is queued.
Continue(nodes, running) ==
    LET visited == Visited(nodes, Concurrency - Cardinality(running))
        leaves == {i \in visited : Leaf(nodes[i])}
        copied == {<<i, b>> \in leaves \X Byte : b \in Meets(nodes[i].start, nodes[i].span)}
    IN  /\ pending' = SubSeq(nodes, Cardinality(visited) + 1, Len(nodes))
        /\ groups' = running \cup {[node |-> nodes[i], wanted |-> requested_indices(nodes[i])] :
                                      i \in visited \ leaves}
        /\ written' = written + Cardinality(copied)
        /\ copies' = [b \in Byte |-> copies[b] + Cardinality({c \in copied : c[2] = b})]
        /\ pc' = IF cancelled \/ (\E i \in visited : Unusable(nodes[i])) THEN "none"
                 ELSE IF ~Idle(groups') THEN "join"
                 ELSE IF written' = requested_len THEN "some" ELSE "none"

-----------------------------------------------------------------------------
(* The root (retrieve_raw_root_cancellable) *)

\* The root is there: the walk begins, unless the range asked for is empty.  A
\* file read as a whole is the range of all its bytes.
RootIsThere ==
    /\ file' \in Files
    /\ pc' = IF file'.from >= file'.span THEN "some" ELSE "join"
    /\ pending' = IF pc' = "some" THEN <<>>
                  ELSE <<[start |-> 0, depth |-> 0, span |-> file'.span]>>
    /\ root' = NoRequests /\ out' = {}   \* raw_fetches.close
    /\ UNCHANGED <<groups, events, written, copies, lost>>

\* A batch of further requests.
Batch(r, size, outstanding) ==
    LET end == Min({r.next + size, Requests})
    IN  /\ out' = outstanding \cup r.next..(end - 1)
        /\ root' = [r EXCEPT !.next = end]

NextBatch(r, outstanding) == Batch([r EXCEPT !.next_batch = 2 * @], r.next_batch, outstanding)

RootStart ==
    /\ pc = "start"
    /\ IF cancelled THEN End("none")
       ELSE \/ RootIsThere   \* cached
            \/ pc' = "root" /\ Batch(root, 3, {}) /\ UNCHANGED <<file, walk, lost>>
    /\ UNCHANGED cancelled

\* An answer is the root if it is the chunk expected, or whatever lies at
\* the address itself; a root that does not decode ends the read.
Accepted(index, answer) == answer = "canonical" \/ (answer = "other" /\ index = 0)

Exhausted(r) == r.completed = r.next /\ r.next = Requests

RootAnswer ==
    /\ pc = "root"
    /\ \E index \in out, answer \in {"canonical", "other", "empty"}, decodes \in BOOLEAN :
          LET r == [root EXCEPT !.completed = @ + 1]
          IN  IF cancelled
              THEN End("none")
              ELSE IF Accepted(index, answer)
              THEN IF decodes THEN RootIsThere
                   ELSE pc' = "none" /\ lost' = TRUE /\ UNCHANGED <<file, root, out, walk>>
              ELSE IF Exhausted(r)
              THEN pc' = "none" /\ lost' = (out = {index}) /\ UNCHANGED <<file, root, out, walk>>
              ELSE /\ UNCHANGED <<file, pc, walk, lost>>
                   /\ IF r.completed < r.next
                      THEN root' = r /\ out' = out \ {index}
                      ELSE NextBatch(r, out \ {index})
    /\ UNCHANGED cancelled

RootTimeout ==
    /\ pc = "root" /\ root.next < Requests
    /\ IF cancelled THEN End("none")
       ELSE NextBatch(root, out) /\ UNCHANGED <<file, pc, walk, lost>>
    /\ UNCHANGED cancelled

\* Once everything is asked for, the wait itself ends with the generation.
RootStopWaiting ==
    /\ pc = "root" /\ root.next = Requests /\ cancelled
    /\ End("none")
    /\ UNCHANGED cancelled

-----------------------------------------------------------------------------
(* The groups (GroupPromise): each emits the children wanted of it, one    *)
(* after the other, and ends when all are emitted, or fails.               *)

\* In a sound tree a child spans all that its place allows, in another one
\* less or more.
MaySpan(limit) ==
    {limit} \cup (IF file.defects = 0 THEN {} ELSE {limit - 1, limit + 1} \cap 0..MaxSpan)

GroupEmits(gr) ==
    /\ pc = "join"
    /\ \E index \in gr.wanted : \E span \in MaySpan(Limit(gr.node.span, index)) :
          /\ events' = Append(events, [parent |-> gr.node, index |-> index, span |-> span])
          /\ groups' = (groups \ {gr}) \cup {[gr EXCEPT !.wanted = @ \ {index}]}
          /\ file' = [file EXCEPT !.defects =
                          IF span = Limit(gr.node.span, index) THEN @ ELSE @ - 1]
    /\ UNCHANGED <<cancelled, pc, root, out, pending, written, copies, lost>>

\* The first turn of the walk.
FirstTurn ==
    /\ pc = "join" /\ pending /= <<>> /\ groups = {} /\ events = <<>>
    /\ UNCHANGED <<file, cancelled, root, out, events, lost>>
    /\ Continue(pending, {})

\* The loop takes up a group's end, or a child.
GroupEnds(gr) ==
    /\ pc = "join" /\ gr.wanted = {}
    /\ UNCHANGED <<file, cancelled, root, out, events, lost>>
    /\ Continue(pending, groups \ {gr})

GroupFails(gr) ==
    /\ pc = "join"
    /\ lost' = TRUE /\ pc' = "none"
    /\ UNCHANGED <<file, cancelled, root, out, walk>>

Fits_Unchecked(parent, index, span) == TRUE
Fits(parent, index, span) == span <= Limit(parent.span, index)

TakeChild ==
    /\ pc = "join" /\ events /= <<>>
    /\ events' = Tail(events)
    /\ LET parent == Head(events).parent
           index == Head(events).index
           start == parent.start + Layout[parent.span].child_capacity * index
           limit == Limit(parent.span, index)
           child == [start |-> start, depth |-> parent.depth + 1, span |-> Head(events).span]
       IN  IF cancelled \/ ~Fits(parent, index, child.span)
           THEN pc' = "none" /\ UNCHANGED <<pending, groups, written, copies>>
           ELSE Continue(IF Meets(start, limit) /= {} THEN Append(pending, child) ELSE pending,
                         groups)
    /\ UNCHANGED <<file, cancelled, root, out, lost>>

Cancel ==
    /\ ~cancelled /\ pc \in {"start", "root", "join"}
    /\ cancelled' = TRUE
    /\ UNCHANGED <<file, pc, root, out, walk, lost>>

Rest == pc \in {"some", "none"} /\ UNCHANGED vars

WalkStep ==
    \/ FirstTurn \/ TakeChild
    \/ \E gr \in groups : GroupEmits(gr) \/ GroupEnds(gr)

Next ==
    \/ RootStart \/ RootAnswer \/ RootTimeout \/ RootStopWaiting
    \/ WalkStep \/ (\E gr \in groups : GroupFails(gr))
    \/ Cancel \/ Rest

Spec == Init /\ [][Next]_vars

\* The task runs, requests are answered, timers fire, groups end.
FairSpec ==
    /\ Spec /\ WF_vars(RootStart) /\ WF_vars(RootAnswer) /\ WF_vars(RootStopWaiting)
    /\ WF_vars(WalkStep)

-----------------------------------------------------------------------------
(* Properties *)

\* What is returned is the range: every byte of it was copied, and no byte
\* twice, however the groups finish and whatever spans the chunks claim; the
\* code itself only counts bytes.
JoinedOnce ==
    pc = "some" /\ file.from < file.span =>
        \A b \in Byte : copies[b] = (IF b \in file.from..payload_end THEN 1 ELSE 0)

\* Nothing is dropped on the way: a read of a sound file fails only because
\* it was cancelled, because neither the root nor any replica was to be had,
\* because a group gave up, or because the tree is deeper than any upload.
FailureHasCause ==
    pc = "none" /\ file.sound /\ ~cancelled =>
        lost \/ file.span > Capacity(MaxLevels)

\* A reader is told the truth: the bytes it asked for, or that they could not
\* be had.
RangeOrCause == JoinedOnce /\ FailureHasCause

\* The read ends, however requests and groups answer.
JoinEnds == <>(pc \in {"some", "none"})
=============================================================================
