---------------------------- MODULE GroupPromise ----------------------------
(***************************************************************************)
(* What the recovery of a group of children promises to the join that asks *)
(* for them: the children asked for are emitted, each at most once and in  *)
(* any order, and the group ends with all of them or, at any moment, with  *)
(* nothing more to say.                                                    *)
(***************************************************************************)
EXTENDS Naturals

CONSTANT Child

VARIABLES
    requested,  \* the children asked for
    emitted,    \* how often each child was emitted
    ended       \* "no", "all" (Some) or "lost" (None)

vars == <<requested, emitted, ended>>

Init ==
    /\ requested \in SUBSET Child
    /\ emitted = [c \in Child |-> 0]
    /\ ended = "no"

Missing == {c \in requested : emitted[c] = 0}

Emit(children) == emitted' = [c \in Child |-> emitted[c] + (IF c \in children THEN 1 ELSE 0)]

Serve ==
    /\ ended = "no"
    /\ \E children \in SUBSET Missing :
          /\ Emit(children)
          /\ ended' \in {"no", "lost"} \cup (IF children = Missing THEN {"all"} ELSE {})
    /\ UNCHANGED requested

Spec == Init /\ [][Serve]_vars
=============================================================================
