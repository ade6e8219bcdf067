------------------------------- MODULE FeedEnd -------------------------------
(***************************************************************************)
(* What the search for the end of a sequence feed (FeedFrontier) returns,  *)
(* and what that has to do with the feed.                                  *)
(***************************************************************************)
EXTENDS Naturals

CONSTANTS
    MaxIndex,   \* u64::MAX
    Lookahead   \* FEED_FRONTIER_LOOKAHEAD_LEVELS

ASSUME IndexAssumption == {MaxIndex, Lookahead} \subseteq Nat \ {0}

VARIABLES
    length,   \* updates published so far: indexes 0 .. length - 1
    feed_pc,  \* which probes are out: "first", "wave", "final"; or "done"
    latest,   \* last index found, NoIndex before the first
    next,     \* the index of the final probe, then the one returned
    started,  \* length when the search began (history)
    unsure    \* some probe failed without saying found or missing (history)

NoIndex == MaxIndex + 1

\* The index returned for the next update follows the latest update found,
\* overwrites nothing that was there when the search began and leaves no
\* hole before it, whatever is published and whichever probes fail while the
\* waves are out.
NextIsTheFrontier ==
    feed_pc = "done" /\ next /= NoIndex =>
        /\ started <= next /\ next <= length
        /\ next = (IF latest = NoIndex THEN 0 ELSE latest + 1)

\* Only a failed probe, or a feed that is full, makes the search give up the
\* frontier; otherwise the update it returns is no older than the last one
\* published before it began.
OnlyFailureHidesUpdates ==
    feed_pc = "done" /\ ~unsure =>
        /\ next = NoIndex => latest = MaxIndex
        /\ started > 0 => latest /= NoIndex /\ latest >= started - 1

\* What the search returns is the frontier: neither short of an update there
\* was, unless a probe failed, nor past a hole or onto an update.
FrontierIsFound == NextIsTheFrontier /\ OnlyFailureHidesUpdates
=============================================================================
