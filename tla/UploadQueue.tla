---------------------------- MODULE UploadQueue ----------------------------
(***************************************************************************)
(* The chunks of one upload in the hands of the dispatcher, and what the   *)
(* upload (UploadData) keeps of them.                                      *)
(***************************************************************************)
EXTENDS Naturals, Sequences, FiniteSets

CONSTANTS
    SlotWindow,    \* PUSH_CHUNK_QUEUE_WINDOW
    ReceiptWindow  \* PUSH_CHUNK_RECEIPT_WINDOW

ASSUME WindowAssumption == {SlotWindow, ReceiptWindow} \subseteq Nat \ {0}

VARIABLES
    pc,         \* what the producer is at
    chunks,     \* every chunk queued, in order: where its push stands
    done        \* chunks confirmed: UploadProgressDelta

Chunk == 1..Len(chunks)
In(stages) == {k \in Chunk : chunks[k].stage \in stages}
Signalled == {k \in Chunk : chunks[k].signalled}

\* A reference is returned only for a file all of whose chunks can be
\* retrieved, each counted once, whatever was pushed again meanwhile.
ReferenceIsConfirmed == pc = "done" => In({"confirmed"}) = Chunk /\ done = Len(chunks)

\* However long the file, and whichever chunks are slow: those not pushed
\* once and those not confirmed stay within the windows the upload waits for,
\* although it waits for any chunk and not for the eldest.
WindowsHold ==
    /\ Cardinality(Chunk \ Signalled) <= SlotWindow
    /\ Cardinality(Chunk \ In({"confirmed"})) <= ReceiptWindow
=============================================================================
