---------------------------- MODULE MCUploadData ----------------------------
(***************************************************************************)
(* An upload for TLC.  A behaviour is either that of one file (UploadData, *)
(* parity for every group but a lone chunk), whose pushes end one way or   *)
(* the other, or that of one push (PushChunk); the other rests at first.   *)
(***************************************************************************)
EXTENDS UploadData, PushResult

VARIABLE part  \* "file" or "push"

Push == INSTANCE PushChunk

ASSUME Push!PushAssumption

SomeParity == [n \in 0..MaxShards |-> IF n > 1 THEN 1 ELSE 0]

pushvars == <<at, peers, transfer_paused, skiplist, overdraftlist, reserved, attempts, attempt_in,
              in_flight, success_count, error_count, refusals, changes>>
allvars == <<part, vars, pushvars>>

MCInit ==
    /\ part \in {"file", "push"}
    /\ Init /\ Push!Init
    /\ part = "file" => peers = {}
    /\ part = "push" => length = 0 /\ peers \in {Peer, {1, 2}}

RunsFile(A) == part = "file" /\ A /\ UNCHANGED <<part, pushvars>>
RunsPush(A) == part = "push" /\ A /\ UNCHANGED <<part, vars>>

MCNext == RunsFile(Next) \/ RunsPush(Push!Next)

MCSpec ==
    /\ MCInit /\ [][MCNext]_allvars
    /\ WF_allvars(RunsFile(Producer) \/ RunsPush(Push!Caller))
    /\ WF_allvars(RunsFile(Working) \/ RunsPush(Push!Answers))
    /\ WF_allvars(RunsFile(Dispatch))

-----------------------------------------------------------------------------
(* The endings of both.                                                    *)

\* A file is uploaded or given up and all its pushes end, unless checks wait for
\* peers for ever, and these hold up no other chunk in the queue (UploadEnds); a
\* push with peers enough that is not paused returns (PushEnds).
UploadsEnd ==
    <>[]CASE part = "file" -> Settled
          [] part = "push" -> at = "returned" \/ ~Push!PushCanEnd
=============================================================================
