---------------------------- MODULE ChunkRequest ----------------------------
(***************************************************************************)
(* What one chunk request promises to whoever asked for it: exchanges with *)
(* peers are claimed only while its admission is open and within the       *)
(* budget; whatever was claimed settles; it answers once, "empty" only     *)
(* when none of its exchanges is out, and after answering claims no more.  *)
(***************************************************************************)
EXTENDS Naturals

CONSTANT Limit       \* of the attempts a request may make

VARIABLES
    open,    \* its admission
    claimed, \* exchanges claimed so far
    out,     \* of them, the ones not settled
    answer   \* "none", "Found" or "Empty"

vars == <<open, claimed, out, answer>>

Init == open \in BOOLEAN /\ claimed = 0 /\ out = 0 /\ answer = "none"

Close == open' = FALSE /\ UNCHANGED <<claimed, out, answer>>

Claim ==
    /\ open /\ answer = "none" /\ claimed < Limit
    /\ claimed' = claimed + 1 /\ out' = out + 1
    /\ open' \in {TRUE, FALSE}   \* the last of a finite budget closes it
    /\ UNCHANGED answer

Settle ==
    /\ out > 0 /\ out' = out - 1
    /\ UNCHANGED <<open, claimed, answer>>

Answer ==
    /\ answer = "none"
    /\ \/ answer' = "Found" /\ claimed > 0
       \/ answer' = "Empty" /\ out = 0
    /\ UNCHANGED <<open, claimed, out>>

Next == Close \/ Claim \/ Settle \/ Answer

Spec == Init /\ [][Next]_vars
=============================================================================
