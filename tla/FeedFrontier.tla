---------------------------- MODULE FeedFrontier ----------------------------
(***************************************************************************)
(* The search for the end of a sequence feed (feed.rs).  Updates live at   *)
(* consecutive indexes from zero; the search probes indexes a power of two *)
(* beyond the last one found, a wave of levels at a time and all levels of *)
(* a wave at once, while the feed's owner may go on publishing.  What it   *)
(* returns is the latest update and the index the next one is to use.      *)
(***************************************************************************)
EXTENDS FeedEnd, FiniteSetsExt

VARIABLES
    level_limit,
    known_missing, \* an index a wave found empty just above its highest find
    answers,       \* of the wave: [level |-> answer], "pending" while out
    sent           \* length when the outstanding probes were sent (history)

vars == <<length, feed_pc, latest, level_limit, known_missing, answers, next,
          started, sent, unsure>>

Index   == 0 .. MaxIndex
Levels  == 1 .. Lookahead
Answer  == {"Found", "Missing", "Transient"}

Init ==
    /\ length \in 0 .. MaxIndex + 1
    /\ feed_pc = "first"
    /\ latest = NoIndex /\ known_missing = NoIndex /\ next = NoIndex
    /\ level_limit = Lookahead
    /\ answers = <<>>
    /\ started = length /\ sent = length
    /\ unsure = FALSE

(* What a probe of index may answer: the feed is looked up at some moment  *)
(* between the sending of the probe and its answer.                        *)
MayAnswer(index, answer) ==
    CASE answer = "Found"     -> index \in 0 .. (length - 1)
      [] answer = "Missing"   -> index >= sent
      [] answer = "Transient" -> TRUE

Publish ==
    /\ feed_pc /= "done" /\ length <= MaxIndex
    /\ length' = length + 1
    /\ UNCHANGED <<feed_pc, latest, level_limit, known_missing, answers, next,
                   started, sent, unsure>>

-----------------------------------------------------------------------------
(* The search *)

probe_index(base, level) == base + 2^level - 1

\* The levels a wave from base asks for: those whose index is representable.
Effective(base, limit) ==
    LET representable == {l \in 1 .. limit : probe_index(base, l) <= MaxIndex}
    IN  IF representable = {} THEN 1 ELSE Max(representable)

\* The loop comes round with a new latest, limit and known_missing.
Wave(base, limit, missing) ==
    /\ latest' = base
    /\ level_limit' = limit
    /\ known_missing' = missing
    /\ sent' = length
    /\ IF base = MaxIndex
       THEN feed_pc' = "done" /\ next' = NoIndex /\ answers' = <<>>
       ELSE /\ feed_pc' = "wave" /\ next' = NoIndex
            /\ answers' = [l \in 1 .. Effective(base, limit) |-> "pending"]

Final(base, index, limit) ==
    /\ feed_pc' = "final" /\ next' = index /\ latest' = base
    /\ level_limit' = limit
    /\ answers' = <<>> /\ known_missing' = NoIndex
    /\ sent' = length

Return(index) ==
    /\ feed_pc' = "done" /\ next' = index
    /\ UNCHANGED <<latest, level_limit, known_missing, answers, sent>>

FirstProbe(answer) ==
    /\ feed_pc = "first" /\ MayAnswer(0, answer)
    /\ CASE answer = "Found"     -> Wave(0, Lookahead, NoIndex)
         [] answer = "Missing"   -> Return(0)
         [] answer = "Transient" -> Return(NoIndex)
    /\ unsure' = (unsure \/ answer = "Transient")
    /\ UNCHANGED <<length, started>>

(* A wave is over when every level above the highest one found has         *)
(* answered, or when none is out; the probes below are dropped.            *)
Highest(wave) == Max({0} \cup {l \in DOMAIN wave : wave[l] = "Found"})

WaveOver(wave) ==
    \A l \in DOMAIN wave : l > Highest(wave) => wave[l] /= "pending"

MissingAbove(wave) ==
    LET above == Highest(wave) + 1
    IN  IF above \in DOMAIN wave /\ wave[above] = "Missing"
        THEN probe_index(latest, above) ELSE NoIndex

EndOfWave(wave) ==
    LET high    == Highest(wave)
        found   == probe_index(latest, high)
        missing == MissingAbove(wave)
    IN  \/ /\ high = 0
           /\ Final(latest, latest + 1, level_limit)
        \/ /\ high > 0 /\ high /= Max(DOMAIN wave)
           /\ Wave(found, IF missing /= NoIndex THEN high ELSE Lookahead, missing)
        \/ /\ high > 0 /\ high = Max(DOMAIN wave)
           /\ IF known_missing = found + 1 /\ found < MaxIndex
              THEN Final(found, known_missing, Lookahead)
              ELSE Wave(found, Lookahead, NoIndex)

WaveProbe(level, answer) ==
    /\ feed_pc = "wave" /\ level \in DOMAIN answers
    /\ answers[level] = "pending"
    /\ MayAnswer(probe_index(latest, level), answer)
    /\ unsure' = (unsure \/ answer = "Transient")
    /\ LET wave == [answers EXCEPT ![level] = answer]
       IN  IF WaveOver(wave)
           THEN EndOfWave(wave)
           ELSE /\ answers' = wave
                /\ UNCHANGED <<feed_pc, latest, level_limit, known_missing, next, sent>>
    /\ UNCHANGED <<length, started>>

FinalProbe_StopsWhenFound(answer) ==
    /\ feed_pc = "final" /\ MayAnswer(next, answer)
    /\ Return(IF answer = "Missing" THEN next ELSE NoIndex)
    /\ unsure' = (unsure \/ answer = "Transient")
    /\ UNCHANGED <<length, started>>

FinalProbe(answer) ==
    /\ feed_pc = "final" /\ MayAnswer(next, answer)
    /\ CASE answer = "Found"     -> Wave(next, Lookahead, NoIndex)
         [] answer = "Missing"   -> Return(next)
         [] answer = "Transient" -> Return(NoIndex)
    /\ unsure' = (unsure \/ answer = "Transient")
    /\ UNCHANGED <<length, started>>

Rest == feed_pc = "done" /\ UNCHANGED vars

Probed ==
    \E answer \in Answer :
        \/ FirstProbe(answer)
        \/ \E level \in Levels : WaveProbe(level, answer)
        \/ FinalProbe(answer)

Next == Publish \/ Probed \/ Rest

Spec == Init /\ [][Next]_vars

\* Every probe is answered, if only by a failure.
FairSpec == Spec /\ WF_vars(Probed)

-----------------------------------------------------------------------------
(* Properties *)

\* The variables keep their types; no index beyond MaxIndex is ever asked
\* for, so the u64 arithmetic of probe_index cannot wrap.
TypeOK ==
    /\ length \in 0 .. MaxIndex + 1
    /\ feed_pc \in {"first", "wave", "final", "done"}
    /\ {latest, known_missing, next} \subseteq Index \cup {NoIndex}
    /\ level_limit \in Levels
    /\ DOMAIN answers \subseteq Levels
    /\ \A l \in DOMAIN answers :
          /\ answers[l] \in Answer \cup {"pending"}
          /\ probe_index(latest, l) \in Index
    /\ started \in 0 .. MaxIndex + 1 /\ sent \in 0 .. MaxIndex + 1
    /\ unsure \in BOOLEAN

\* The search ends however the answers of its waves interleave.
Terminates == <>(feed_pc = "done")
=============================================================================
