------------------------------ MODULE MCReads ------------------------------
(***************************************************************************)
(* The reads of data for TLC.  A behaviour is one of: the walk of a file   *)
(* (DataJoin, nodes of two children, one of them with parity), which takes *)
(* its groups at their promise; one group in detail (ErasureGroup), which  *)
(* is shown to keep that promise; the search for the end of a feed         *)
(* (FeedFrontier); the byte ranges a media player asks for (MediaRanges).  *)
(* The others rest in a first state.                                       *)
(***************************************************************************)
EXTENDS DataJoin, FeedEnd, GroupKept, MediaKept

CONSTANTS
    Size, WindowBytes, StartupBytes, ActiveBytes, KeepAhead, SeekGap, Stages, MaxParallel,
    Starts, Stops, MediaRequests, Prefetchers, Generations, FirstGeneration,
    MaxRequests, MaxGenerations, MaxFaults

VARIABLES
    part,  \* "walk", "group", "feed" or "ranges"
    rolling, hedge_due, g, group_out,
    level_limit, known_missing, answers, sent,
    sequence, cached, asked, seeks, faults

Group == INSTANCE ErasureGroup WITH out <- group_out
Feed == INSTANCE FeedFrontier
Media == INSTANCE MediaRanges WITH Requests <- MediaRequests

ASSUME Media!MediaAssumption

SomeParity == [n \in 0..MaxShards |-> IF n = MaxShards THEN 1 ELSE 0]
\* All of the largest file and more, its middle, its ends.
SomeRanges == {<<0, 5>>, <<1, 2>>, <<4, 4>>, <<0, 0>>}

groupvars == <<group, rolling, hedge_due, group_cancelled, group_pc, g, group_out, failed, emitted>>
feedvars == <<length, feed_pc, latest, level_limit, known_missing, answers, next, started, sent,
              unsure>>
mediavars == <<media, sequence, cached, flights, producers, scope_latest, task, asked, seeks,
               faults, loaded, wronged>>
allvars == <<part, vars, groupvars, feedvars, mediavars>>

\* The first states of the group and the feed at rest.
Resting == CHOOSE s \in Group!Groups : s.data = 1

MCInit ==
    /\ part \in {"walk", "group", "feed", "ranges"}
    /\ Init /\ Group!Init /\ Feed!Init /\ Media!Init
    /\ part /= "group" => group = Resting /\ ~group_cancelled
    /\ part /= "feed" => length = 0

RunsWalk(A) == part = "walk" /\ A /\ UNCHANGED <<part, groupvars, feedvars, mediavars>>
RunsGroup(A) == part = "group" /\ A /\ UNCHANGED <<part, vars, feedvars, mediavars>>
RunsFeed(A) == part = "feed" /\ A /\ UNCHANGED <<part, vars, groupvars, mediavars>>
RunsRanges(A) == part = "ranges" /\ A /\ UNCHANGED <<part, vars, groupvars, feedvars>>

MCNext ==
    RunsWalk(Next) \/ RunsGroup(Group!Next) \/ RunsFeed(Feed!Next) \/ RunsRanges(Media!Next)

\* What each module's FairSpec asks for goes on, in some order: together they
\* are one task, which is less than each of them being fair.
GoesOn ==
    \/ RunsWalk(RootStart \/ RootAnswer \/ RootStopWaiting \/ WalkStep)
    \/ RunsGroup(Group!Start \/ Group!Receive \/ Group!Timeout \/ Group!StopWaiting)
    \/ RunsFeed(Feed!Probed)
MCSpec == MCInit /\ [][MCNext]_allvars /\ WF_allvars(GoesOn)

-----------------------------------------------------------------------------
\* The properties of the instances, named for the run.

\* The walk, the group and the search end, whichever requests, shards and
\* probes fail or are late (JoinEnds, GroupEnds, Terminates).
ReadsEnd ==
    <>CASE part = "walk" -> pc \in {"some", "none"}
        [] part = "group" -> group_pc \in {"done", "none"}
        [] part = "feed" -> feed_pc = "done"
        [] part = "ranges" -> TRUE  \* follows its player, without an end
=============================================================================
