----------------------------- MODULE MCHlsFeed -----------------------------
(* HlsFeed with a few fates of the updates of a short stream. *)
EXTENDS HlsFeed

Fate(lost, closing) == [lost |-> lost, closing |-> closing]
ClosedFates ==
    {Fate({1}, {3}), Fate({}, {1})}
=============================================================================
