------------------------------ MODULE PushResult ------------------------------
(***************************************************************************)
(* What the push of a chunk promises: the state PushChunk changes, and     *)
(* what its result says of the peers that were asked.                      *)
(***************************************************************************)
EXTENDS Integers, FiniteSets

CONSTANTS
    Peer,          \* peers, by proximity
    Confirmations, \* PUSH_CHUNK_CONFIRMATION_PEERS
    MaxErrors,     \* max_error
    MaxRefusals,   \* bound on the peers that cannot be asked when their turn comes
    MaxChanges     \* bound on the peers that come and go and on pauses

VARIABLES
    at,             \* what push_chunk is at: "loop" or an await, "returned" at last
    peers,          \* peers: the connected ones
    transfer_paused,
    skiplist, overdraftlist,
    reserved,       \* reserves of accounting on behalf of this push, by peer
    attempts,       \* every attempt started: its peer and how it ended
    attempt_in,     \* results sent and not yet read
    in_flight, success_count, error_count,
    refusals, changes

-----------------------------------------------------------------------------
Asked(ends) == {attempts[i].peer : i \in {j \in DOMAIN attempts : attempts[j].end \in ends}}

\* A push that ends well has receipts of as many different peers as it needs,
\* one that fails has failed with too many; whatever naps, late results and
\* pauses come between, every reserve is held by an attempt under way.
PushIsSound ==
    /\ at = "returned" =>
        IF success_count >= Confirmations
        THEN Cardinality(Asked({"receipt"})) >= Confirmations
        ELSE Cardinality(Asked({"failure"})) >= MaxErrors
    /\ \A p \in Peer :
        reserved[p] = Cardinality({i \in DOMAIN attempts :
                                      attempts[i].peer = p /\ attempts[i].end = "none"})
=============================================================================
