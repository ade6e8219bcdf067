----------------------------- MODULE PlayerKept -----------------------------
(***************************************************************************)
(* The state of one player of a window (HlsPlayer), and what it keeps for  *)
(* its user.                                                               *)
(***************************************************************************)
EXTENDS Naturals

CONSTANTS
    Levels,        \* renditions of the master, at least two
    LastPosition,
    MaxHardRestarts, MaxMediaRecoveries  \* of the code

Level == 1..Levels
AutoLevel == 0
Position == 0..LastPosition
Nowhere == LastPosition + 1

ASSUME PlayerAssumption ==
    /\ {LastPosition, MaxHardRestarts, MaxMediaRecoveries} \subseteq Nat
    /\ Levels \in Nat \ {0, 1}

VARIABLES
    player, \* Player, and media.currentTime
    quality,\* QualityControl: its select, and whether buffering is held for a flush
    hls,    \* the current hls.js instance
    from,   \* where its playlist begins; 0: it is complete
    tasks   \* seek_hls, select_quality and resolve_remote_tail_failure, waiting

state == [p |-> player, q |-> quality, h |-> hls, tasks |-> tasks]

-----------------------------------------------------------------------------
(* What still waits for an answer it will believe.                         *)

\* What seek_hls waits for is still the latest seek, of this instance.
AwaitsHistory_SameHls(s, t) == t.kind = "history" /\ t.hls = s.p.restarts  \* mutant
AwaitsHistory(s, t) ==
    /\ t.kind = "history" /\ ~t.old
    /\ t.hls = s.p.restarts /\ t.position = s.p.reload

\* The choice that waits is still what is shown.
AwaitsQuality(s, t) ==
    /\ t.kind = "quality" /\ ~t.old
    /\ s.p.ready /\ t.hls = s.p.restarts /\ s.q.select = t.selected

AwaitsTail(s, t) == t.kind = "tail" /\ t.hls = s.p.restarts

-----------------------------------------------------------------------------
(* Properties. *)

\* Buffering that is held has somebody who resumes it: the bootstrap, or the
\* flush of a chosen rendition, of this instance.  Without, playback would
\* run dry with nothing to show for it.
HoldsEnd == hls.buffering \/ player.boot \/ quality.flush \/ player.failed

\* Until enough is buffered something is under way that leads there: loading,
\* or an answer that will be believed; else an error is shown.
PlaybackIsPrepared ==
    \/ player.ready \/ player.failed \/ player.error
    \/ hls.loading # "stopped"
    \/ \E t \in tasks : AwaitsHistory(state, t) \/ AwaitsTail(state, t)

\* Whatever errors, seeks, restarts and choices interleave, the player does
\* not stall by itself.
PlayerGoesOn == HoldsEnd /\ PlaybackIsPrepared

\* While no choice waits, what hls.js plays is what the control shows: a hold
\* for Auto ends with the change it was for, and a late answer changes
\* nothing.  After a live tail was abandoned it may show another one.
ShownIsPlayed ==
    /\ player.ready /\ hls.parsed /\ ~player.failed /\ ~player.pinned
    /\ \A t \in tasks : ~AwaitsQuality(state, t)
    => hls.manual = quality.select

\* History is prepared for the last seek only: what an earlier one asked for
\* is not loaded.  (Seeks during the bootstrap are not followed.)
HistoryFollowsSeeks == [][~player.boot => from' = player.position]_from
=============================================================================
