--------------------------- MODULE HlsFeedProofs ---------------------------
(***************************************************************************)
(* Proofs that the playlist of a followed stream has no hole and that it   *)
(* is taken for finished only at its frontier, whatever is lost or fails;  *)
(* and that a player of it neither stalls by itself nor plays or loads     *)
(* what its user did not ask for last.                                     *)
(***************************************************************************)
EXTENDS HlsFeed, PlayerKept, TLAPS

SessionRecord ==
    [open : BOOLEAN, index : -1..(Updates - 1), segments : SUBSET Index,
     finalized : BOOLEAN, ready : BOOLEAN]
SearchRecord ==
    [pc : {"idle", "edge", "confirm", "history"}, index : Int, settled : SUBSET Int,
     failed : SUBSET Int, residue : Int, head : Int, seen : SUBSET Index]
FollowerRecord ==
    [pc : {"off", "head", "probe", "recover"}, head : Int, offset : Int,
     skipped : BOOLEAN, progress : {"none", "open", "closing"}, due : BOOLEAN]

FeedType ==
    /\ stored \subseteq Index
    /\ start \in {"live", "beginning"}
    /\ session \in SessionRecord
    /\ search \in [Searcher -> SearchRecord]
    /\ follower \in FollowerRecord

(* A playlist without a hole, which ends at the session's update.          *)
Contiguous(segments, index) ==
    segments # {} => \E first \in 0..index : segments = first..index

(* A search found what it is at; what was there when it began and settled  *)
(* as missing is a failed probe; a confirmed one saw nothing behind.       *)
SoundSearch(s, there) ==
    /\ s.seen \subseteq there
    /\ s.pc = "confirm" => s.index \in Index /\ s.seen \cap s.settled \subseteq s.failed
    /\ s.pc = "history" =>
          s.head \in Index /\ s.seen \cap ((s.head + 1)..(s.head + Guards)) = {}
SearchesSound == \A t \in Searcher : SoundSearch(search[t], stored)

(* The live head was installed before its history is read.                 *)
HeadInstalled ==
    start = "live" /\ search["open"].pc = "history" /\ session.open
       => search["open"].head \in session.segments

(* From the beginning nothing runs before the first segment was found.     *)
Untouched ==
    start = "beginning" /\ ~session.ready =>
        /\ ~session.finalized /\ follower.pc = "off"
        /\ search["follow"].pc = "idle" /\ search["open"].pc \in {"edge", "idle"}

FeedInv ==
    /\ FeedType /\ SearchesSound /\ HeadInstalled /\ Untouched
    /\ Contiguous(session.segments, session.index)
    /\ FinalIsTheFrontier

-----------------------------------------------------------------------------
(* Windows and playlists are intervals.                                    *)

LEMMA Positive ==
    /\ Updates \in Nat \ {0} /\ Window \in Nat \ {0} /\ Stride \in Nat \ {0}
    /\ Guards \in Nat \ {0} /\ BeginWidth \in Nat \ {0}
    /\ Index \subseteq Nat
BY HlsAssumption DEF HlsAssumption, Index

LEMMA IntervalEnds ==
    ASSUME NEW a \in Int, NEW b \in Int, a <= b
    PROVE  Min(a..b) = a /\ Max(a..b) = b
<1>1. /\ a \in a..b /\ \A y \in a..b : a =< y
      /\ b \in a..b /\ \A y \in a..b : b >= y
    OBVIOUS
<1>2. \A x \in a..b : (\A y \in a..b : x =< y) => x = a
    BY <1>1
<1>3. \A x \in a..b : (\A y \in a..b : x >= y) => x = b
    BY <1>1
<1>4. Min(a..b) = a
    BY <1>1, <1>2 DEF Min
<1>5. Max(a..b) = b
    BY <1>1, <1>3 DEF Max
<1>. QED BY <1>4, <1>5

LEMMA WindowIsInterval ==
    ASSUME NEW i \in Index
    PROVE  \E lo \in 0..i : Segments(i) = lo..i /\ First(Segments(i)) = lo
<1>. PICK lo \in 0..i : Segments(i) = lo..i
    BY Positive DEF Segments
<1>. i \in Int /\ lo \in Int /\ lo <= i
    BY Positive
<1>. QED BY IntervalEnds DEF First

LEMMA HistoryIsInterval ==
    ASSUME NEW i \in Index
    PROVE  First(0..i) = 0
BY IntervalEnds, Positive DEF First

(* What joins a playlist without a hole, adjoins or overlaps its end: the  *)
(* two together have none.                                                 *)
LEMMA JoinedIsContiguous ==
    ASSUME NEW segments \in SUBSET Index, NEW index \in Int, NEW i \in Index,
           NEW lo \in 0..i,
           Contiguous(segments, index),
           segments # {} => joins(segments, lo, i)
    PROVE  Contiguous(segments \cup (lo..i), i)
<1>1. CASE segments = {}
    <2>1. segments \cup (lo..i) = lo..i
        BY <1>1
    <2>. QED BY <2>1 DEF Contiguous
<1>2. CASE segments # {}
    <2>1. PICK first \in 0..index : segments = first..index
        BY <1>2 DEF Contiguous
    <2>2. first \in Int /\ lo \in Int /\ i \in Int /\ first <= index /\ 0 <= first /\ 0 <= lo /\ lo <= i
        BY Positive
    <2>3. lo <= index + 1 /\ index <= i
        BY <1>2, <2>1, <2>2, IntervalEnds DEF joins
    <2>4. CASE first <= lo
        <3>1. segments \cup (lo..i) = first..i
            BY <2>1, <2>2, <2>3, <2>4
        <3>2. first \in 0..i
            BY <2>2, <2>3
        <3>. QED BY <3>1, <3>2 DEF Contiguous
    <2>5. CASE lo < first
        <3>1. segments \cup (lo..i) = lo..i
            BY <2>1, <2>2, <2>3, <2>5
        <3>. QED BY <3>1 DEF Contiguous
    <2>. QED BY <2>2, <2>4, <2>5
<1>. QED BY <1>1, <1>2

(* The history of an update the playlist holds ends within it.             *)
LEMMA HistoryIsBefore ==
    ASSUME NEW segments \in SUBSET Index, NEW index \in Int, NEW head \in segments,
           Contiguous(segments, index)
    PROVE  Contiguous(segments \cup (0..head), index)
<1>1. PICK first \in 0..index : segments = first..index
    BY DEF Contiguous
<1>2. head \in Int /\ first \in Int /\ 0 <= first /\ first <= head /\ head <= index
    BY <1>1
<1>3. segments \cup (0..head) = 0..index
    BY <1>1, <1>2
<1>4. 0 \in 0..index
    BY <1>2
<1>. QED BY <1>3, <1>4 DEF Contiguous

-----------------------------------------------------------------------------
(* Steps of a search.                                                      *)

LEMMA NoSearchType == NoSearch \in SearchRecord /\ [NoSearch EXCEPT !.pc = "edge"] \in SearchRecord
BY DEF NoSearch, SearchRecord

LEMMA SearchChanges ==
    ASSUME FeedType, SearchesSound, NEW t \in Searcher, NEW new \in SearchRecord,
           SoundSearch(new, stored), stored' = stored,
           search' = [search EXCEPT ![t] = new]
    PROVE  /\ search' \in [Searcher -> SearchRecord] /\ SearchesSound'
           /\ search'[t] = new /\ \A u \in Searcher \ {t} : search'[u] = search[u]
<1>1. search \in [Searcher -> SearchRecord]
    BY DEF FeedType
<1>2. /\ search' \in [Searcher -> SearchRecord]
      /\ search'[t] = new /\ \A u \in Searcher \ {t} : search'[u] = search[u]
    BY <1>1
<1>3. \A u \in Searcher : SoundSearch(search'[u], stored)
    BY <1>2 DEF SearchesSound
<1>. QED BY <1>2, <1>3 DEF SearchesSound

LEMMA FollowerStarts ==
    ASSUME NEW f \in FollowerRecord
    PROVE  Spawned(f) \in FollowerRecord
<1>1. NoFollower \in FollowerRecord
    BY DEF NoFollower, FollowerRecord
<1>2. \A g \in FollowerRecord : [g EXCEPT !.pc = "head"] \in FollowerRecord
    BY DEF FollowerRecord
<1>3. [NoFollower EXCEPT !.pc = "head"] \in FollowerRecord
    BY <1>1, <1>2
<1>. QED BY <1>1, <1>3 DEF Spawned

(* A search that ended without a result is idle, or starts again.          *)
LEMMA SearchEnds ==
    ASSUME FeedType, SearchesSound, NEW t \in Searcher, Unsuccessful(t), stored' = stored
    PROVE  /\ search' \in [Searcher -> SearchRecord] /\ SearchesSound'
           /\ search'[t].pc \in {"idle", "edge"}
           /\ t = "follow" => search'[t].pc = "idle"
           /\ \A u \in Searcher \ {t} : search'[u] = search[u]
           /\ follower' \in FollowerRecord
           /\ t # "follow" => follower' = follower
<1>. DEFINE new == IF t = "open" /\ session.open THEN [NoSearch EXCEPT !.pc = "edge"]
                   ELSE NoSearch
<1>1. /\ new \in SearchRecord /\ new.pc \in {"idle", "edge"} /\ new.seen = {}
      /\ t = "follow" => new.pc = "idle"
    BY NoSearchType DEF NoSearch
<1>2. SoundSearch(new, stored)
    BY <1>1 DEF SoundSearch
<1>3. search' = [search EXCEPT ![t] = new]
    BY DEF Unsuccessful
<1>. HIDE DEF new
<1>4. /\ search' \in [Searcher -> SearchRecord] /\ SearchesSound'
      /\ search'[t] = new /\ \A u \in Searcher \ {t} : search'[u] = search[u]
    BY <1>1, <1>2, <1>3, SearchChanges
<1>5. /\ follower' \in FollowerRecord
      /\ t # "follow" => follower' = follower
    BY DEF Unsuccessful, FeedType, FollowerRecord
<1>. QED BY <1>1, <1>4, <1>5

(* A confirmed frontier: everything within the guards settled and nothing  *)
(* failed, so nothing that was there lies behind it.                       *)
LEMMA ConfirmedFrontier ==
    ASSUME FeedType, SearchesSound, NEW t \in Searcher, Settled(t), Proven(t)
    PROVE  /\ search[t].index \in Index
           /\ search[t].seen \cap ((search[t].index + 1)..(search[t].index + Guards)) = {}
<1>1. /\ search[t] \in SearchRecord /\ SoundSearch(search[t], stored)
      /\ search[t].pc = "confirm" /\ Outstanding(t) = {} /\ search[t].failed = {}
    BY DEF FeedType, SearchesSound, Settled, Proven
<1>2. ((search[t].index + 1)..(search[t].index + Guards)) \subseteq search[t].settled
    BY <1>1 DEF Outstanding
<1>. QED BY <1>1, <1>2 DEF SoundSearch

(* The invariant, taken apart for a step that leaves the session alone.    *)
LEMMA SessionKept ==
    ASSUME FeedInv,
           UNCHANGED <<start, fate, session, early>>,
           stored' \subseteq Index,
           search' \in [Searcher -> SearchRecord], SearchesSound',
           follower' \in FollowerRecord,
           start = "live" /\ search'["open"].pc = "history" /\ session.open
              => search'["open"].head \in session.segments,
           start = "beginning" /\ ~session.ready =>
              /\ follower'.pc = "off" /\ search'["follow"].pc = "idle"
              /\ search'["open"].pc \in {"edge", "idle"}
    PROVE  FeedInv'
<1>1. FeedType'
    BY DEF FeedInv, FeedType
<1>2. HeadInstalled' /\ Untouched'
    BY DEF FeedInv, HeadInstalled, Untouched
<1>3. Contiguous(session.segments, session.index)'
    BY DEF FeedInv, Contiguous
<1>4. FinalIsTheFrontier'
    BY DEF FeedInv, FinalIsTheFrontier
<1>. QED BY <1>1, <1>2, <1>3, <1>4 DEF FeedInv

LEMMA EdgeKeeps ==
    ASSUME FeedInv, NEW t \in Searcher, Edge(t)
    PROVE  FeedInv'
<1>1. /\ FeedType /\ SearchesSound /\ Untouched /\ stored \subseteq Index
      /\ search[t] \in SearchRecord /\ search[t].pc = "edge"
      /\ t = "open" => start = "live" \/ session.ready
      /\ UNCHANGED <<start, fate, stored, session, early>>
    BY DEF Edge, FeedInv, FeedType
<1>2. start = "beginning" => session.ready
    BY <1>1 DEF Untouched, Searcher
<1>3. CASE Unsuccessful(t)
    <2>1. /\ search' \in [Searcher -> SearchRecord] /\ SearchesSound'
          /\ search'[t].pc \in {"idle", "edge"}
          /\ \A u \in Searcher \ {t} : search'[u] = search[u]
          /\ follower' \in FollowerRecord
        BY <1>1, <1>3, SearchEnds
    <2>2. start = "live" /\ search'["open"].pc = "history" /\ session.open
              => search'["open"].head \in session.segments
        BY <2>1 DEF FeedInv, HeadInstalled, Searcher
    <2>. QED BY <1>1, <1>2, <2>1, <2>2, SessionKept
<1>4. ASSUME NEW i \in stored,
             search' = [search EXCEPT ![t] =
                    [@ EXCEPT !.pc = "confirm", !.index = i, !.settled = {}, !.failed = {},
                              !.residue = i % Stride, !.seen = {x \in stored : x > i}]],
             follower' = follower
      PROVE  FeedInv'
    <2>. DEFINE new == [search[t] EXCEPT !.pc = "confirm", !.index = i, !.settled = {},
                          !.failed = {}, !.residue = i % Stride, !.seen = {x \in stored : x > i}]
    <2>1. i \in Nat /\ i % Stride \in Int
        BY <1>1, Positive
    <2>2. /\ new \in SearchRecord /\ new.pc = "confirm" /\ new.index = i
          /\ new.settled = {} /\ new.seen \subseteq stored
        <3>1. PICK residue \in Int : residue = i % Stride
            BY <2>1
        <3>2. PICK seen \in SUBSET Index : seen = {x \in stored : x > i} /\ seen \subseteq stored
            BY <1>1
        <3>3. PICK s \in SearchRecord : s = search[t]
            BY <1>1
        <3>4. new = [s EXCEPT !.pc = "confirm", !.index = i, !.settled = {},
                        !.failed = {}, !.residue = residue, !.seen = seen]
            BY <3>1, <3>2, <3>3
        <3>. HIDE DEF new
        <3>5. new = [pc |-> "confirm", index |-> i, settled |-> {}, failed |-> {},
                     residue |-> residue, head |-> s.head, seen |-> seen]
            BY <3>4 DEF SearchRecord
        <3>6. new \in SearchRecord
            BY <2>1, <3>5 DEF SearchRecord
        <3>. QED BY <3>2, <3>5, <3>6
    <2>3. SoundSearch(new, stored)
        BY <1>1, <2>2 DEF SoundSearch
    <2>4. search' = [search EXCEPT ![t] = new]
        BY <1>4
    <2>. HIDE DEF new
    <2>5. /\ search' \in [Searcher -> SearchRecord] /\ SearchesSound'
          /\ search'[t] = new /\ \A u \in Searcher \ {t} : search'[u] = search[u]
        BY <1>1, <2>2, <2>3, <2>4, SearchChanges
    <2>6. start = "live" /\ search'["open"].pc = "history" /\ session.open
              => search'["open"].head \in session.segments
        BY <2>2, <2>5 DEF FeedInv, HeadInstalled, Searcher
    <2>7. follower' \in FollowerRecord
        BY <1>1, <1>4 DEF FeedType
    <2>. QED BY <1>1, <1>2, <2>5, <2>6, <2>7, SessionKept
<1>. QED BY <1>3, <1>4 DEF Edge

LEMMA ConfirmKeeps ==
    ASSUME FeedInv, NEW t \in Searcher, Confirm(t)
    PROVE  FeedInv'
<1>1. /\ FeedType /\ SearchesSound /\ Untouched /\ stored \subseteq Index
      /\ search[t] \in SearchRecord /\ search[t].pc = "confirm"
      /\ SoundSearch(search[t], stored)
      /\ UNCHANGED <<start, fate, stored, session, follower, early>>
    BY DEF Confirm, FeedInv, FeedType, SearchesSound
<1>2. start = "beginning" => session.ready
    BY <1>1 DEF Untouched, Searcher
<1>. PICK i \in Outstanding(t) :
          \/ /\ Found(i)
             /\ LET Above(set) == {x \in set : x > i}
                    now == search[t]
                IN  search' = [search EXCEPT ![t] =
                        [now EXCEPT !.index = i, !.settled = Above(now.settled),
                                    !.failed = Above(now.failed), !.seen = Above(now.seen)]]
          \/ /\ ~Found(i)
             /\ search' = [search EXCEPT ![t].settled = @ \cup {i}]
          \/ search' = [search EXCEPT ![t].settled = @ \cup {i}, ![t].failed = @ \cup {i}]
    BY DEF Confirm
<1>3. i \in Int
    BY <1>1 DEF Outstanding, SearchRecord
<1>4. ASSUME NEW new \in SearchRecord, SoundSearch(new, stored), new.pc = "confirm",
             search' = [search EXCEPT ![t] = new]
      PROVE  FeedInv'
    <2>1. /\ search' \in [Searcher -> SearchRecord] /\ SearchesSound'
          /\ search'[t] = new /\ \A u \in Searcher \ {t} : search'[u] = search[u]
        BY <1>1, <1>4, SearchChanges
    <2>2. start = "live" /\ search'["open"].pc = "history" /\ session.open
              => search'["open"].head \in session.segments
        BY <1>4, <2>1 DEF FeedInv, HeadInstalled, Searcher
    <2>3. follower' \in FollowerRecord
        BY <1>1 DEF FeedType
    <2>. QED BY <1>1, <1>2, <2>1, <2>2, <2>3, SessionKept
<1>5. ASSUME Found(i), NEW now, now = search[t],
             search' = [search EXCEPT ![t] =
                [now EXCEPT !.index = i, !.settled = {x \in now.settled : x > i},
                            !.failed = {x \in now.failed : x > i},
                            !.seen = {x \in now.seen : x > i}]]
      PROVE  FeedInv'
    <2>. DEFINE new == [now EXCEPT !.index = i, !.settled = {x \in now.settled : x > i},
                            !.failed = {x \in now.failed : x > i},
                            !.seen = {x \in now.seen : x > i}]
    <2>1. /\ new \in SearchRecord /\ new.pc = "confirm" /\ new.index = i
          /\ new.settled = {x \in now.settled : x > i}
          /\ new.failed = {x \in now.failed : x > i}
          /\ new.seen = {x \in now.seen : x > i}
        BY <1>1, <1>3, <1>5 DEF SearchRecord
    <2>2. i \in Index
        BY <1>1, <1>5 DEF Found
    <2>. HIDE DEF new
    <2>3. SoundSearch(new, stored)
        BY <1>1, <1>5, <2>1, <2>2 DEF SoundSearch
    <2>. QED BY <1>4, <1>5, <2>1, <2>3 DEF new
<1>6. ASSUME ~Found(i), search' = [search EXCEPT ![t].settled = @ \cup {i}]
      PROVE  FeedInv'
    <2>. DEFINE new == [search[t] EXCEPT !.settled = @ \cup {i}]
    <2>1. /\ new \in SearchRecord /\ new.pc = "confirm" /\ new.index = search[t].index
          /\ new.settled = search[t].settled \cup {i}
          /\ new.failed = search[t].failed /\ new.seen = search[t].seen
        BY <1>1, <1>3 DEF SearchRecord
    <2>2. search' = [search EXCEPT ![t] = new]
        BY <1>6
    <2>. HIDE DEF new
    <2>3. SoundSearch(new, stored)
        BY <1>1, <1>6, <2>1 DEF SoundSearch, Found
    <2>. QED BY <1>4, <2>1, <2>2, <2>3
<1>7. ASSUME search' = [search EXCEPT ![t].settled = @ \cup {i}, ![t].failed = @ \cup {i}]
      PROVE  FeedInv'
    <2>. DEFINE new == [search[t] EXCEPT !.settled = @ \cup {i}, !.failed = @ \cup {i}]
    <2>1. /\ new \in SearchRecord /\ new.pc = "confirm" /\ new.index = search[t].index
          /\ new.settled = search[t].settled \cup {i}
          /\ new.failed = search[t].failed \cup {i} /\ new.seen = search[t].seen
        BY <1>1, <1>3 DEF SearchRecord
    <2>2. search' = [search EXCEPT ![t] = new]
        <3>1. search \in [Searcher -> SearchRecord]
            BY <1>1 DEF FeedType
        <3>. QED BY <1>7, <3>1
    <2>. HIDE DEF new
    <2>3. SoundSearch(new, stored)
        BY <1>1, <2>1 DEF SoundSearch
    <2>. QED BY <1>4, <2>1, <2>2, <2>3
<1>. QED BY <1>5, <1>6, <1>7

LEMMA UnconfirmedKeeps ==
    ASSUME FeedInv, NEW t \in Searcher, Unconfirmed(t)
    PROVE  FeedInv'
<1>1. /\ FeedType /\ SearchesSound /\ Untouched /\ stored \subseteq Index
      /\ search[t].pc = "confirm" /\ Unsuccessful(t)
      /\ UNCHANGED <<start, fate, stored, session, early>>
    BY DEF Unconfirmed, Settled, FeedInv, FeedType
<1>2. start = "beginning" => session.ready
    BY <1>1 DEF Untouched, Searcher
<1>3. /\ search' \in [Searcher -> SearchRecord] /\ SearchesSound'
      /\ search'[t].pc \in {"idle", "edge"}
      /\ \A u \in Searcher \ {t} : search'[u] = search[u]
      /\ follower' \in FollowerRecord
    BY <1>1, SearchEnds
<1>4. start = "live" /\ search'["open"].pc = "history" /\ session.open
          => search'["open"].head \in session.segments
    BY <1>3 DEF FeedInv, HeadInstalled, Searcher
<1>. QED BY <1>1, <1>2, <1>3, <1>4, SessionKept

(* A confirmed frontier becomes the head whose history is read.            *)
LEMMA HeadSet ==
    ASSUME FeedType, SearchesSound, NEW t \in Searcher, Settled(t), Proven(t),
           stored' = stored,
           search' = [search EXCEPT ![t].pc = "history", ![t].head = search[t].index]
    PROVE  /\ search' \in [Searcher -> SearchRecord] /\ SearchesSound'
           /\ search'[t].head = search[t].index
           /\ \A u \in Searcher \ {t} : search'[u] = search[u]
<1>1. PICK s \in SearchRecord : s = search[t]
    BY DEF FeedType
<1>2. /\ s.index \in Index
      /\ s.seen \cap ((s.index + 1)..(s.index + Guards)) = {}
      /\ s.seen \subseteq stored
    BY <1>1, ConfirmedFrontier DEF SearchesSound, SoundSearch
<1>. DEFINE new == [s EXCEPT !.pc = "history", !.head = s.index]
<1>3. /\ new \in SearchRecord /\ new.pc = "history" /\ new.head = s.index
      /\ new.seen = s.seen
    BY <1>1 DEF SearchRecord
<1>4. search' = [search EXCEPT ![t] = new]
    BY <1>1 DEF FeedType
<1>. HIDE DEF new
<1>5. SoundSearch(new, stored)
    BY <1>2, <1>3 DEF SoundSearch
<1>. QED BY <1>1, <1>3, <1>4, <1>5, SearchChanges

LEMMA ReadHistoryKeeps ==
    ASSUME FeedInv, NEW t \in Searcher, ReadHistory(t)
    PROVE  FeedInv'
<1>1. /\ FeedType /\ SearchesSound /\ Untouched /\ stored \subseteq Index
      /\ Settled(t) /\ Proven(t) /\ search[t].pc = "confirm" /\ ~Opening(t)
      /\ search' = [search EXCEPT ![t].pc = "history", ![t].head = search[t].index]
      /\ UNCHANGED <<start, fate, stored, session, follower, early>>
    BY DEF ReadHistory, Settled, FeedInv, FeedType
<1>2. start = "beginning" => session.ready
    BY <1>1 DEF Untouched, Searcher
<1>3. /\ search' \in [Searcher -> SearchRecord] /\ SearchesSound'
      /\ \A u \in Searcher \ {t} : search'[u] = search[u]
      /\ follower' \in FollowerRecord
    BY <1>1, HeadSet DEF FeedType
<1>4. start = "live" /\ search'["open"].pc = "history" /\ session.open
          => search'["open"].head \in session.segments
    BY <1>1, <1>3 DEF FeedInv, HeadInstalled, Searcher, Opening
<1>. QED BY <1>1, <1>2, <1>3, <1>4, SessionKept

-----------------------------------------------------------------------------
(* Steps that write to the session.                                        *)

(* What a confirmed snapshot leaves: it joined, and it ended the stream    *)
(* only with an end tag behind which the search saw nothing.               *)
LEMMA ConfirmedApplied ==
    ASSUME FeedInv, NEW t \in Searcher, NEW i \in Index, NEW lo \in 0..i,
           AppliesConfirmed(i, lo..i), ApplyConfirmed(t, i, lo..i), fate' = fate,
           search[t].seen \cap ((i + 1)..(i + Guards)) = {}
    PROVE  /\ session' \in SessionRecord
           /\ session'.open = session.open /\ session'.ready = session.ready
           /\ session'.segments = session.segments \cup (lo..i)
           /\ Contiguous(session.segments, session.index)'
           /\ FinalIsTheFrontier'
<1>1. PICK s \in SessionRecord : s = session
    BY DEF FeedInv, FeedType
<1>2. i \in Nat /\ lo \in Int /\ lo <= i /\ First(lo..i) = lo /\ lo..i \subseteq Index
    BY Positive, IntervalEnds DEF First, Index
<1>3. i \in -1..(Updates - 1)
    BY <1>2, Positive DEF Index
<1>4. Contiguous(s.segments \cup (lo..i), i)
    <2>1. s.segments # {} => joins(s.segments, lo, i)
        BY <1>1, <1>2 DEF AppliesConfirmed
    <2>2. s.segments \in SUBSET Index /\ s.index \in Int /\ Contiguous(s.segments, s.index)
        BY <1>1, Positive DEF SessionRecord, FeedInv
    <2>. QED BY <2>1, <2>2, JoinedIsContiguous
<1>5. ~early' /\ (session.finalized => session.index \in fate.closing)
    BY DEF ApplyConfirmed, FeedInv, FinalIsTheFrontier
<1>6. ASSUME session' = [s EXCEPT !.segments = @ \cup (lo..i), !.index = i, !.finalized = TRUE],
             i \in fate.closing
      PROVE  /\ session' \in SessionRecord
             /\ session'.open = s.open /\ session'.ready = s.ready
             /\ session'.segments = s.segments \cup (lo..i) /\ session'.index = i
             /\ FinalIsTheFrontier'
    <2>1. session' = [open |-> s.open, index |-> i, segments |-> s.segments \cup (lo..i),
                      finalized |-> TRUE, ready |-> s.ready]
        BY <1>6 DEF SessionRecord
    <2>2. session' \in SessionRecord
        BY <1>2, <1>3, <2>1 DEF SessionRecord
    <2>. QED BY <1>5, <1>6, <2>1, <2>2 DEF FinalIsTheFrontier
<1>7. ASSUME session' = [s EXCEPT !.segments = @ \cup (lo..i), !.index = i, !.finalized = FALSE]
      PROVE  /\ session' \in SessionRecord
             /\ session'.open = s.open /\ session'.ready = s.ready
             /\ session'.segments = s.segments \cup (lo..i) /\ session'.index = i
             /\ FinalIsTheFrontier'
    <2>1. session' = [open |-> s.open, index |-> i, segments |-> s.segments \cup (lo..i),
                      finalized |-> FALSE, ready |-> s.ready]
        BY <1>7 DEF SessionRecord
    <2>2. session' \in SessionRecord
        BY <1>2, <1>3, <2>1 DEF SessionRecord
    <2>. QED BY <1>5, <2>1, <2>2 DEF FinalIsTheFrontier
<1>8. \/ /\ session' = [s EXCEPT !.segments = @ \cup (lo..i), !.index = i, !.finalized = TRUE]
         /\ i \in fate.closing
      \/ session' = [s EXCEPT !.segments = @ \cup (lo..i), !.index = i, !.finalized = FALSE]
    <2>. DEFINE final == i \in fate.closing \/ (session.index = i /\ session.finalized)
    <2>1. session' = [s EXCEPT !.segments = @ \cup (lo..i), !.index = i, !.finalized = final]
        BY <1>1 DEF ApplyConfirmed
    <2>2. final \in BOOLEAN /\ (final => i \in fate.closing)
        BY <1>5
    <2>. HIDE DEF final
    <2>3. CASE final
        <3>1. final = TRUE
            BY <2>2, <2>3
        <3>. QED BY <2>1, <2>2, <3>1
    <2>4. CASE ~final
        <3>1. final = FALSE
            BY <2>2, <2>4
        <3>. QED BY <2>1, <3>1
    <2>. QED BY <2>3, <2>4
<1>. QED BY <1>1, <1>4, <1>6, <1>7, <1>8 DEF Contiguous

(* The invariant, taken apart for a step that writes to a session which is *)
(* under way.                                                              *)
LEMMA SessionWritten ==
    ASSUME FeedInv, UNCHANGED <<start, stored>>,
           session' \in SessionRecord,
           search' \in [Searcher -> SearchRecord], SearchesSound',
           follower' \in FollowerRecord,
           Contiguous(session.segments, session.index)',
           FinalIsTheFrontier',
           HeadInstalled',
           start = "beginning" => session'.ready
    PROVE  FeedInv'
<1>1. FeedType'
    BY DEF FeedInv, FeedType
<1>2. Untouched'
    BY DEF Untouched
<1>. QED BY <1>1, <1>2 DEF FeedInv

LEMMA InstallWindowKeeps ==
    ASSUME FeedInv, NEW t \in Searcher, InstallWindow(t)
    PROVE  FeedInv'
<1>. PICK i \in {search[t].index} : TRUE
    OBVIOUS
<1>1. /\ FeedType /\ SearchesSound /\ Untouched
      /\ Settled(t) /\ Proven(t) /\ search[t].pc = "confirm"
      /\ AppliesConfirmed(i, Segments(i)) /\ ApplyConfirmed(t, i, Segments(i))
      /\ UNCHANGED <<start, fate, stored>>
    BY DEF InstallWindow, Settled, FeedInv
<1>2. start = "beginning" => session.ready
    BY <1>1 DEF Untouched, Searcher
<1>3. i \in Index /\ search[t].seen \cap ((i + 1)..(i + Guards)) = {}
    BY <1>1, ConfirmedFrontier
<1>4. PICK lo \in 0..i : Segments(i) = lo..i
    BY <1>3, WindowIsInterval
<1>5. /\ session' \in SessionRecord
      /\ session'.open = session.open /\ session'.ready = session.ready
      /\ session'.segments = session.segments \cup (lo..i)
      /\ Contiguous(session.segments, session.index)'
      /\ FinalIsTheFrontier'
    BY <1>1, <1>3, <1>4, ConfirmedApplied
<1>6. CASE Opening(t)
    <2>1. /\ search' = [search EXCEPT ![t].pc = "history", ![t].head = search[t].index]
          /\ follower' = Spawned(follower)
        BY <1>6 DEF InstallWindow
    <2>2. /\ search' \in [Searcher -> SearchRecord] /\ SearchesSound'
          /\ search'[t].head = i
        BY <1>1, <2>1, HeadSet
    <2>3. follower' \in FollowerRecord
        BY <1>1, <2>1, FollowerStarts DEF FeedType
    <2>4. i \in lo..i
        BY <1>3, <1>4, Positive
    <2>5. HeadInstalled'
        BY <1>5, <1>6, <2>2, <2>4 DEF HeadInstalled, Opening
    <2>. QED BY <1>1, <1>2, <1>5, <2>2, <2>3, <2>5, SessionWritten
<1>7. CASE ~Opening(t)
    <2>1. Unsuccessful(t)
        BY <1>7 DEF InstallWindow
    <2>2. /\ search' \in [Searcher -> SearchRecord] /\ SearchesSound'
          /\ search'[t].pc \in {"idle", "edge"}
          /\ \A u \in Searcher \ {t} : search'[u] = search[u]
          /\ follower' \in FollowerRecord
        BY <1>1, <2>1, SearchEnds
    <2>3. HeadInstalled'
        BY <1>1, <1>5, <2>2 DEF FeedInv, HeadInstalled, Searcher
    <2>. QED BY <1>1, <1>2, <1>5, <2>2, <2>3, SessionWritten
<1>. QED BY <1>6, <1>7

LEMMA BeginKeeps ==
    ASSUME FeedInv, Begin
    PROVE  FeedInv'
<1>1. /\ start = "beginning" /\ ~session.ready
      /\ session \in SessionRecord /\ stored \subseteq Index
      /\ ~session.finalized /\ ~early
      /\ follower' = Spawned(follower)
      /\ UNCHANGED <<start, fate, stored, search, early>>
    BY DEF Begin, FeedInv, FeedType, Untouched, FinalIsTheFrontier
<1>0. PICK i \in stored :
        session' = [session EXCEPT !.segments = Segments(i), !.index = i, !.ready = TRUE]
    BY DEF Begin
<1>2. PICK lo \in 0..i : Segments(i) = lo..i
    BY <1>1, WindowIsInterval
<1>3. i \in Index /\ i \in -1..(Updates - 1) /\ lo..i \in SUBSET Index
    BY <1>1, Positive DEF Index
<1>4. session' = [open |-> session.open, index |-> i, segments |-> lo..i,
                  finalized |-> session.finalized, ready |-> TRUE]
    BY <1>0, <1>1, <1>2 DEF SessionRecord
<1>5. session' \in SessionRecord
    BY <1>1, <1>3, <1>4 DEF SessionRecord
<1>6. Contiguous(session.segments, session.index)'
    BY <1>4 DEF Contiguous
<1>7. FinalIsTheFrontier'
    BY <1>1, <1>4 DEF FinalIsTheFrontier
<1>8. follower' \in FollowerRecord /\ search' \in [Searcher -> SearchRecord] /\ SearchesSound'
    BY <1>1, FollowerStarts DEF FeedInv, FeedType, SearchesSound
<1>9. HeadInstalled' /\ session'.ready
    BY <1>1, <1>4 DEF HeadInstalled
<1>. QED BY <1>1, <1>5, <1>6, <1>7, <1>8, <1>9, SessionWritten

(* The history of a live head ends within what was followed meanwhile.     *)
LEMMA OpenedKeeps ==
    ASSUME FeedInv, search["open"].pc = "history", start = "live", session.open,
           session' = [session EXCEPT !.segments = @ \cup (0..search["open"].head), !.ready = TRUE],
           search' = [search EXCEPT !["open"] = NoSearch],
           UNCHANGED <<start, fate, stored, follower, early>>
    PROVE  FeedInv'
<1>. PICK head \in {search["open"].head} : TRUE
    OBVIOUS
<1>1. /\ head \in Index /\ head \in session.segments /\ session \in SessionRecord
      /\ Contiguous(session.segments, session.index)
    BY DEF FeedInv, FeedType, SearchesSound, SoundSearch, HeadInstalled, Searcher
<1>2. Contiguous(session.segments \cup (0..head), session.index)
    <2>1. session.segments \in SUBSET Index /\ session.index \in Int
        BY <1>1, Positive DEF SessionRecord
    <2>. QED BY <1>1, <2>1, HistoryIsBefore
<1>3. session' = [open |-> session.open, index |-> session.index,
                  segments |-> session.segments \cup (0..head),
                  finalized |-> session.finalized, ready |-> TRUE]
    BY <1>1 DEF SessionRecord
<1>4. 0..head \subseteq Index
    BY <1>1, Positive DEF Index
<1>5. session' \in SessionRecord
    BY <1>1, <1>3, <1>4 DEF SessionRecord
<1>6. Contiguous(session.segments, session.index)' /\ FinalIsTheFrontier'
    BY <1>2, <1>3 DEF Contiguous, FeedInv, FinalIsTheFrontier
<1>7. /\ search' \in [Searcher -> SearchRecord] /\ SearchesSound'
      /\ search'["open"] = NoSearch
    <2>1. SoundSearch(NoSearch, stored) /\ "open" \in Searcher
        BY DEF SoundSearch, NoSearch, Searcher
    <2>2. FeedType /\ SearchesSound
        BY DEF FeedInv
    <2>. QED BY <2>1, <2>2, NoSearchType, SearchChanges
<1>8. HeadInstalled'
    BY <1>7 DEF HeadInstalled, NoSearch
<1>9. follower' \in FollowerRecord
    BY DEF FeedInv, FeedType
<1>. QED BY <1>3, <1>5, <1>6, <1>7, <1>8, <1>9, SessionWritten

(* A search is over, and whoever followed goes on.                         *)
Over(t) ==
    /\ search' = [search EXCEPT ![t] = NoSearch]
    /\ follower' = IF t = "follow" THEN [follower EXCEPT !.pc = "head"] ELSE follower

LEMMA OverType ==
    ASSUME FeedInv, NEW t \in Searcher, Over(t), stored' = stored
    PROVE  /\ search' \in [Searcher -> SearchRecord] /\ SearchesSound'
           /\ search'[t].pc = "idle" /\ \A u \in Searcher \ {t} : search'[u] = search[u]
           /\ follower' \in FollowerRecord
<1>1. FeedType /\ SearchesSound /\ SoundSearch(NoSearch, stored) /\ NoSearch.pc = "idle"
    BY DEF FeedInv, SoundSearch, NoSearch
<1>2. /\ search' \in [Searcher -> SearchRecord] /\ SearchesSound'
      /\ search'[t].pc = "idle" /\ \A u \in Searcher \ {t} : search'[u] = search[u]
    BY <1>1, NoSearchType, SearchChanges DEF Over
<1>3. follower' \in FollowerRecord
    BY <1>1 DEF Over, FeedType, FollowerRecord
<1>. QED BY <1>2, <1>3

LEMMA HistoryKeeps ==
    ASSUME FeedInv, NEW t \in Searcher, History(t)
    PROVE  FeedInv'
<1>. PICK head \in {search[t].head} : TRUE
    OBVIOUS
<1>1. /\ FeedType /\ SearchesSound /\ Untouched /\ stored \subseteq Index
      /\ search[t].pc = "history" /\ SoundSearch(search[t], stored)
      /\ UNCHANGED <<start, fate, stored, active>>
    BY DEF History, FeedInv, FeedType, SearchesSound
<1>2. start = "beginning" => session.ready
    BY <1>1 DEF Untouched, Searcher
<1>3. \/ /\ t = "open" /\ start = "live" /\ session.open
         /\ session' = [session EXCEPT !.segments = @ \cup (0..head), !.ready = TRUE]
         /\ search' = [search EXCEPT ![t] = NoSearch]
         /\ UNCHANGED <<follower, early>>
      \/ /\ AppliesConfirmed(head, 0..head) /\ ApplyConfirmed(t, head, 0..head)
         /\ Over(t)
      \/ Over(t) /\ UNCHANGED <<session, early>>
      \/ /\ t = "open" /\ start = "live"
         /\ session' = NoSession /\ search' = [search EXCEPT ![t] = NoSearch]
         /\ UNCHANGED <<follower, early>>
      \/ Unsuccessful(t) /\ UNCHANGED <<session, early>>
    BY ZenonT(60) DEF History, Over
<1>4. CASE /\ t = "open" /\ start = "live" /\ session.open
           /\ session' = [session EXCEPT !.segments = @ \cup (0..head), !.ready = TRUE]
           /\ search' = [search EXCEPT ![t] = NoSearch]
           /\ UNCHANGED <<follower, early>>
    BY <1>1, <1>4, OpenedKeeps
<1>5. CASE /\ AppliesConfirmed(head, 0..head) /\ ApplyConfirmed(t, head, 0..head)
           /\ Over(t)
    <2>1. /\ search' \in [Searcher -> SearchRecord] /\ SearchesSound'
          /\ search'[t].pc = "idle" /\ \A u \in Searcher \ {t} : search'[u] = search[u]
          /\ follower' \in FollowerRecord
        BY <1>1, <1>5, OverType
    <2>0. head \in Index /\ search[t].seen \cap ((head + 1)..(head + Guards)) = {}
        BY <1>1 DEF SoundSearch
    <2>2. 0 \in 0..head
        BY <2>0, Positive
    <2>3. /\ session' \in SessionRecord
          /\ session'.open = session.open /\ session'.ready = session.ready
          /\ session'.segments = session.segments \cup (0..head)
          /\ Contiguous(session.segments, session.index)'
          /\ FinalIsTheFrontier'
        BY <1>1, <1>5, <2>0, <2>2, ConfirmedApplied
    <2>4. HeadInstalled'
        BY <1>1, <2>1, <2>3 DEF FeedInv, HeadInstalled, Searcher
    <2>. QED BY <1>1, <1>2, <2>1, <2>3, <2>4, SessionWritten
<1>6. CASE Over(t) /\ UNCHANGED <<session, early>>
    <2>1. /\ search' \in [Searcher -> SearchRecord] /\ SearchesSound'
          /\ search'[t].pc = "idle" /\ \A u \in Searcher \ {t} : search'[u] = search[u]
          /\ follower' \in FollowerRecord
        BY <1>1, <1>6, OverType
    <2>2. start = "live" /\ search'["open"].pc = "history" /\ session.open
              => search'["open"].head \in session.segments
        BY <2>1 DEF FeedInv, HeadInstalled, Searcher
    <2>. QED BY <1>1, <1>2, <1>6, <2>1, <2>2, SessionKept
<1>7. CASE /\ t = "open" /\ start = "live"
           /\ session' = NoSession /\ search' = [search EXCEPT ![t] = NoSearch]
           /\ UNCHANGED <<follower, early>>
    <2>1. Over(t)
        BY <1>7 DEF Over
    <2>2. /\ search' \in [Searcher -> SearchRecord] /\ SearchesSound'
          /\ search'[t].pc = "idle"
          /\ follower' \in FollowerRecord
        BY <1>1, <2>1, OverType
    <2>3. /\ session' \in SessionRecord /\ Contiguous(session.segments, session.index)'
          /\ FinalIsTheFrontier'
        BY <1>7, Positive DEF NoSession, SessionRecord, Contiguous, FeedInv, FinalIsTheFrontier
    <2>4. HeadInstalled'
        BY <1>7, <2>2 DEF HeadInstalled
    <2>5. start # "beginning"
        BY <1>7
    <2>. QED BY <1>1, <2>2, <2>3, <2>4, <2>5, SessionWritten
<1>8. CASE Unsuccessful(t) /\ UNCHANGED <<session, early>>
    <2>1. /\ search' \in [Searcher -> SearchRecord] /\ SearchesSound'
          /\ search'[t].pc \in {"idle", "edge"}
          /\ \A u \in Searcher \ {t} : search'[u] = search[u]
          /\ follower' \in FollowerRecord
        BY <1>1, <1>8, SearchEnds
    <2>2. start = "live" /\ search'["open"].pc = "history" /\ session.open
              => search'["open"].head \in session.segments
        BY <2>1 DEF FeedInv, HeadInstalled, Searcher
    <2>. QED BY <1>1, <1>2, <1>8, <2>1, <2>2, SessionKept
<1>. QED BY <1>3, <1>4, <1>5, <1>6, <1>7, <1>8

-----------------------------------------------------------------------------
(* The publisher, the follower and the viewer.                             *)

LEMMA PublishKeeps ==
    ASSUME FeedInv, Publish
    PROVE  FeedInv'
<1>1. PICK i \in Index : stored' = stored \cup {i}
    BY DEF Publish
<1>2. UNCHANGED <<start, fate, session, search, follower, early>>
    BY DEF Publish
<1>3. stored' \subseteq Index /\ SearchesSound'
    BY <1>1, <1>2 DEF FeedInv, FeedType, SearchesSound, SoundSearch
<1>4. search' \in [Searcher -> SearchRecord] /\ follower' \in FollowerRecord
    BY <1>2 DEF FeedInv, FeedType
<1>5. start = "live" /\ search'["open"].pc = "history" /\ session.open
          => search'["open"].head \in session.segments
    BY <1>2 DEF FeedInv, HeadInstalled
<1>6. start = "beginning" /\ ~session.ready =>
          /\ follower'.pc = "off" /\ search'["follow"].pc = "idle"
          /\ search'["open"].pc \in {"edge", "idle"}
    BY <1>2 DEF FeedInv, Untouched
<1>. QED BY <1>2, <1>3, <1>4, <1>5, <1>6, SessionKept

(* A step of the follower, which runs only once there is something to      *)
(* follow, and which leaves the session and the searches alone.            *)
LEMMA FollowerMoves ==
    ASSUME FeedInv, UNCHANGED <<start, fate, stored, session, search, early>>,
           follower' \in FollowerRecord,
           start = "beginning" => session.ready
    PROVE  FeedInv'
<1>1. stored' \subseteq Index /\ search' \in [Searcher -> SearchRecord]
    BY DEF FeedInv, FeedType
<1>2. SearchesSound'
    BY DEF FeedInv, SearchesSound
<1>3. start = "live" /\ search'["open"].pc = "history" /\ session.open
          => search'["open"].head \in session.segments
    BY DEF FeedInv, HeadInstalled
<1>. QED BY <1>1, <1>2, <1>3, SessionKept

LEMMA NoFollowerType == NoFollower \in FollowerRecord
BY DEF NoFollower, FollowerRecord

LEMMA LookKeeps ==
    ASSUME FeedInv, Look
    PROVE  FeedInv'
<1>1. /\ follower.pc = "head" /\ follower \in FollowerRecord
      /\ UNCHANGED <<start, fate, stored, session, search, early>>
    BY DEF Look, FeedInv, FeedType
<1>2. start = "beginning" => session.ready
    BY <1>1 DEF FeedInv, Untouched
<1>3. PICK index \in Int : index = session.index
    BY Positive DEF FeedInv, FeedType, SessionRecord
<1>4. [follower EXCEPT !.pc = "probe", !.head = index, !.offset = 1, !.skipped = FALSE,
                       !.progress = "none"] \in FollowerRecord
    <2>1. PICK f \in FollowerRecord : f = follower
        BY <1>1
    <2>2. PICK new \in {[f EXCEPT !.pc = "probe", !.head = index, !.offset = 1,
                                  !.skipped = FALSE, !.progress = "none"]} : TRUE
        OBVIOUS
    <2>3. new = [pc |-> "probe", head |-> index, offset |-> 1, skipped |-> FALSE,
                 progress |-> "none", due |-> f.due]
        BY DEF FollowerRecord
    <2>4. new \in FollowerRecord
        BY <2>3 DEF FollowerRecord
    <2>. QED BY <2>1, <2>4
<1>5. follower' \in FollowerRecord
    <2>1. \/ follower' = NoFollower
          \/ follower' = [follower EXCEPT !.pc = "probe", !.head = index, !.offset = 1,
                                          !.skipped = FALSE, !.progress = "none"]
        BY <1>3 DEF Look
    <2>. QED BY <1>4, <2>1, NoFollowerType
<1>. QED BY <1>1, <1>2, <1>5, FollowerMoves

(* What the follower may become while it probes.                           *)
LEMMA ProberType ==
    ASSUME NEW f \in FollowerRecord
    PROVE  LET over == [f EXCEPT !.offset = FollowAhead + 1]
           IN  /\ over \in FollowerRecord
               /\ [over EXCEPT !.progress = "closing"] \in FollowerRecord
               /\ [f EXCEPT !.offset = @ + 1, !.progress = "open"] \in FollowerRecord
               /\ [f EXCEPT !.offset = @ + 1, !.skipped = TRUE] \in FollowerRecord
<1>1. FollowAhead + 1 \in Int
    BY HlsAssumption DEF HlsAssumption
<1>. PICK over \in {[f EXCEPT !.offset = FollowAhead + 1]} : TRUE
    OBVIOUS
<1>2. over \in FollowerRecord
    BY <1>1 DEF FollowerRecord
<1>3. [over EXCEPT !.progress = "closing"] \in FollowerRecord
    BY <1>2 DEF FollowerRecord
<1>4. [f EXCEPT !.offset = @ + 1, !.progress = "open"] \in FollowerRecord
    <2>1. \A n \in Int, p \in {"none", "open", "closing"} :
              [f EXCEPT !.offset = n, !.progress = p] \in FollowerRecord
        BY DEF FollowerRecord
    <2>2. PICK offset \in Int : offset = f.offset + 1
        BY DEF FollowerRecord
    <2>. QED BY <2>1, <2>2
<1>5. [f EXCEPT !.offset = @ + 1, !.skipped = TRUE] \in FollowerRecord
    <2>1. PICK offset \in Int : offset = f.offset + 1
        BY DEF FollowerRecord
    <2>2. PICK new \in {[f EXCEPT !.offset = offset, !.skipped = TRUE]} : TRUE
        OBVIOUS
    <2>3. new = [pc |-> f.pc, head |-> f.head, offset |-> offset, skipped |-> TRUE,
                 progress |-> f.progress, due |-> f.due]
        BY DEF FollowerRecord
    <2>4. /\ f.pc \in {"off", "head", "probe", "recover"} /\ f.head \in Int
          /\ f.progress \in {"none", "open", "closing"} /\ f.due \in BOOLEAN
        BY DEF FollowerRecord
    <2>5. new \in FollowerRecord
        BY <2>3, <2>4 DEF FollowerRecord
    <2>. QED BY <2>1, <2>5
<1>. QED BY <1>2, <1>3, <1>4, <1>5

LEMMA ProbeKeeps ==
    ASSUME FeedInv, Probe
    PROVE  FeedInv'
<1>. PICK i \in {follower.head + follower.offset} : TRUE
    OBVIOUS
<1>. DEFINE over == [follower EXCEPT !.offset = FollowAhead + 1]
<1>1. /\ follower.pc = "probe" /\ follower \in FollowerRecord
      /\ stored \subseteq Index /\ session \in SessionRecord
      /\ UNCHANGED <<start, fate, stored, search, early>>
    BY DEF Probe, FeedInv, FeedType
<1>2. start = "beginning" => session.ready
    BY <1>1 DEF FeedInv, Untouched
<1>3. \/ follower' = NoFollower
      \/ follower' = over
      \/ follower' = [over EXCEPT !.progress = "closing"]
      \/ follower' = [follower EXCEPT !.offset = @ + 1, !.progress = "open"]
      \/ follower' = [follower EXCEPT !.offset = @ + 1, !.skipped = TRUE]
    BY Zenon DEF Probe
<1>4. follower' \in FollowerRecord
    BY <1>1, <1>3, NoFollowerType, ProberType
<1>5. UNCHANGED session \/ (Found(i) /\ Applies(i) /\ Apply(i))
    BY Zenon DEF Probe
<1>6. CASE UNCHANGED session
    BY <1>1, <1>2, <1>4, <1>6, FollowerMoves
<1>7. CASE Found(i) /\ Applies(i) /\ Apply(i)
    <2>1. i \in Index /\ i \in -1..(Updates - 1)
        BY <1>1, <1>7, Positive DEF Found, Index
    <2>2. PICK lo \in 0..i : Segments(i) = lo..i /\ First(Segments(i)) = lo
        BY <2>1, WindowIsInterval
    <2>3. lo..i \in SUBSET Index
        BY <2>1, <2>2, Positive DEF Index
    <2>4. session' = [open |-> session.open, index |-> i,
                      segments |-> session.segments \cup (lo..i),
                      finalized |-> FALSE, ready |-> session.ready]
        BY <1>1, <1>7, <2>2 DEF Apply, SessionRecord
    <2>5. session' \in SessionRecord
        BY <1>1, <2>1, <2>3, <2>4 DEF SessionRecord
    <2>6. Contiguous(session.segments, session.index)'
        <3>1. joins(session.segments, lo, i)
            BY <1>7, <2>2 DEF Applies
        <3>2. session.segments \in SUBSET Index /\ session.index \in Int
              /\ Contiguous(session.segments, session.index)
            BY <1>1, Positive DEF SessionRecord, FeedInv
        <3>3. Contiguous(session.segments \cup (lo..i), i)
            BY <2>1, <3>1, <3>2, JoinedIsContiguous
        <3>. QED BY <2>4, <3>3 DEF Contiguous
    <2>7. FinalIsTheFrontier'
        BY <1>1, <2>4 DEF FeedInv, FinalIsTheFrontier
    <2>8. search' \in [Searcher -> SearchRecord] /\ SearchesSound'
        BY <1>1 DEF FeedInv, FeedType, SearchesSound
    <2>9. HeadInstalled'
        BY <1>1, <2>4 DEF FeedInv, HeadInstalled
    <2>. QED BY <1>1, <1>2, <1>4, <2>4, <2>5, <2>6, <2>7, <2>8, <2>9, SessionWritten
<1>. QED BY <1>5, <1>6, <1>7

LEMMA PollKeeps ==
    ASSUME FeedInv, Poll
    PROVE  FeedInv'
<1>1. /\ follower.pc = "probe" /\ follower \in FollowerRecord
      /\ FeedType /\ SearchesSound /\ session.index \in Int
      /\ UNCHANGED <<start, fate, stored, session, early>>
    BY Positive DEF Poll, FeedInv, FeedType, SessionRecord
<1>2. start = "beginning" => session.ready
    BY <1>1 DEF FeedInv, Untouched
<1>3. PICK due \in BOOLEAN : due = (follower.progress = "none")
    OBVIOUS
<1>4. \/ follower' = NoFollower /\ UNCHANGED search
      \/ /\ follower' = [follower EXCEPT !.pc = "recover", !.due = FALSE]
         /\ search' = [search EXCEPT !["follow"] =
                [NoSearch EXCEPT !.pc = "edge", !.head = session.index]]
      \/ follower' = [follower EXCEPT !.pc = "head", !.due = due] /\ UNCHANGED search
    BY <1>3, Zenon DEF Poll
<1>5. /\ [follower EXCEPT !.pc = "recover", !.due = FALSE] \in FollowerRecord
      /\ [follower EXCEPT !.pc = "head", !.due = due] \in FollowerRecord
    BY <1>1 DEF FollowerRecord
<1>6. CASE UNCHANGED search
    BY <1>1, <1>2, <1>4, <1>5, <1>6, NoFollowerType, FollowerMoves
<1>7. CASE search' = [search EXCEPT !["follow"] =
                [NoSearch EXCEPT !.pc = "edge", !.head = session.index]]
    <2>. DEFINE new == [NoSearch EXCEPT !.pc = "edge", !.head = session.index]
    <2>1. new \in SearchRecord /\ new.pc = "edge" /\ new.seen = {}
        <3>1. \A s \in SearchRecord, head \in Int :
                 /\ [s EXCEPT !.pc = "edge", !.head = head] \in SearchRecord
                 /\ [s EXCEPT !.pc = "edge", !.head = head].pc = "edge"
                 /\ [s EXCEPT !.pc = "edge", !.head = head].seen = s.seen
            BY DEF SearchRecord
        <3>2. NoSearch \in SearchRecord /\ NoSearch.seen = {}
            BY NoSearchType DEF NoSearch
        <3>. QED BY <1>1, <3>1, <3>2
    <2>. HIDE DEF new
    <2>2. SoundSearch(new, stored)
        BY <2>1 DEF SoundSearch
    <2>3. /\ search' \in [Searcher -> SearchRecord] /\ SearchesSound'
          /\ search'["open"] = search["open"]
        BY <1>1, <1>7, <2>1, <2>2, SearchChanges DEF new, Searcher
    <2>4. start = "live" /\ search'["open"].pc = "history" /\ session.open
              => search'["open"].head \in session.segments
        BY <2>3 DEF FeedInv, HeadInstalled
    <2>5. follower' \in FollowerRecord /\ stored' \subseteq Index
        BY <1>1, <1>4, <1>5, NoFollowerType DEF FeedType
    <2>. QED BY <1>1, <1>2, <2>3, <2>4, <2>5, SessionKept
<1>. QED BY <1>4, <1>6, <1>7

LEMMA SwitchKeeps ==
    ASSUME FeedInv, Switch
    PROVE  FeedInv'
<1>1. session.ready /\ UNCHANGED <<start, fate, stored, session, search, follower, early>>
    BY DEF Switch
<1>2. follower' \in FollowerRecord
    BY <1>1 DEF FeedInv, FeedType
<1>. QED BY <1>1, <1>2, FollowerMoves

LEMMA PlayKeeps ==
    ASSUME FeedInv, Play
    PROVE  FeedInv'
<1>1. /\ session.ready /\ UNCHANGED <<start, fate, stored, session, search, early>>
      /\ follower' = Spawned(follower)
    BY DEF Play
<1>2. follower' \in FollowerRecord
    BY <1>1, FollowerStarts DEF FeedInv, FeedType
<1>. QED BY <1>1, <1>2, FollowerMoves

-----------------------------------------------------------------------------
LEMMA FeedStarts == Init => FeedInv
<1>. SUFFICES ASSUME Init PROVE FeedInv
    OBVIOUS
<1>1. session = [open |-> TRUE, index |-> -1, segments |-> {}, finalized |-> FALSE,
                 ready |-> FALSE]
    BY DEF Init, NoSession
<1>2. session \in SessionRecord
    BY <1>1, Positive DEF SessionRecord
<1>3. \A t \in Searcher : search[t] \in SearchRecord /\ SoundSearch(search[t], stored)
    BY NoSearchType DEF Init, NoSearch, SoundSearch
<1>4. search \in [Searcher -> SearchRecord]
    BY NoSearchType DEF Init
<1>5. search["open"].pc = "edge" /\ search["follow"].pc = "idle"
    BY DEF Init, NoSearch, Searcher
<1>6. follower \in FollowerRecord /\ follower.pc = "off"
    BY NoFollowerType DEF Init, NoFollower
<1>7. FeedType
    BY <1>2, <1>4, <1>6 DEF Init, FeedType
<1>8. SearchesSound
    BY <1>3 DEF SearchesSound
<1>9. HeadInstalled /\ Untouched
    BY <1>1, <1>5, <1>6 DEF HeadInstalled, Untouched
<1>10. Contiguous(session.segments, session.index)
    BY <1>1 DEF Contiguous
<1>11. FinalIsTheFrontier
    BY <1>1 DEF Init, FinalIsTheFrontier
<1>. QED BY <1>7, <1>8, <1>9, <1>10, <1>11 DEF FeedInv

LEMMA FeedStep == FeedInv /\ [Next]_vars => FeedInv'
<1>. SUFFICES ASSUME FeedInv, [Next]_vars PROVE FeedInv'
    OBVIOUS
<1>1. CASE UNCHANGED vars
    BY <1>1 DEF vars, FeedInv, FeedType, SearchesSound, SoundSearch, HeadInstalled, Untouched,
                Contiguous, FinalIsTheFrontier
<1>2. ASSUME NEW t \in Searcher, Search(t) PROVE FeedInv'
    BY <1>2, EdgeKeeps, ConfirmKeeps, HistoryKeeps, UnconfirmedKeeps, InstallWindowKeeps,
       ReadHistoryKeeps DEF Search
<1>3. CASE Follow
    BY <1>3, LookKeeps, ProbeKeeps, PollKeeps DEF Follow
<1>. QED BY <1>1, <1>2, <1>3, PublishKeeps, BeginKeeps, SwitchKeeps, PlayKeeps DEF Next

(* Every value of the model stays in its type (the records of runtime.rs). *)
THEOREM FeedTypes == Spec => []TypeOK
<1>1. FeedInv => TypeOK
    BY DEF FeedInv, FeedType, TypeOK, SessionRecord, SearchRecord, FollowerRecord
<1>2. Spec => []FeedInv
    BY FeedStarts, FeedStep, PTL DEF Spec
<1>. QED BY <1>1, <1>2, PTL

(* The playlist of a followed stream has no hole: whatever was lost, was   *)
(* late, failed or was overtaken by the other task, what apply_update,     *)
(* apply_confirmed_snapshot and install_snapshot put together is every     *)
(* segment from the first one to the newest.                               *)
THEOREM PlaylistHasNoHole == Spec => []NoHole
<1>1. FeedInv => NoHole
    <2>. SUFFICES ASSUME FeedInv, session.segments # {}
                  PROVE  session.segments = First(session.segments)..session.index
        BY DEF NoHole
    <2>1. PICK first \in 0..session.index : session.segments = first..session.index
        BY DEF FeedInv, Contiguous
    <2>2. session.index \in Int /\ first \in Int /\ first <= session.index
        BY Positive DEF FeedInv, FeedType, SessionRecord
    <2>. QED BY <2>1, <2>2, IntervalEnds DEF First
<1>2. Spec => []FeedInv
    BY FeedStarts, FeedStep, PTL DEF Spec
<1>. QED BY <1>1, <1>2, PTL

(* A stream is taken for finished only at an update with an end tag behind *)
(* which the search that confirmed it (confirm_hls_feed_head) saw no       *)
(* stored update within reach of its guards.                               *)
THEOREM FinishedAtTheFrontier == Spec => []FinalIsTheFrontier
<1>1. FeedInv => FinalIsTheFrontier
    BY DEF FeedInv
<1>2. Spec => []FeedInv
    BY FeedStarts, FeedStep, PTL DEF Spec
<1>. QED BY <1>1, <1>2, PTL

-----------------------------------------------------------------------------
(* A player of a window (HlsPlayer).                                       *)

CONSTANTS MaxTasks, MaxPlayerActs
VARIABLE player_acts
Player == INSTANCE HlsPlayer WITH MaxActs <- MaxPlayerActs, acts <- player_acts

\* PlayerInv, the inductive invariant, is stated of a state of the player, for
\* the handlers map states to states.  Of what waits one seek and one choice at
\* most are not old.
SoundTask(t, ts, f) ==
    /\ {"kind", "old"} \subseteq DOMAIN t
    /\ t.kind = "history" /\ ~t.old =>
          /\ f # 0 /\ t.position # Nowhere
          /\ \A u \in ts : u.kind = "history" /\ ~u.old => u = t
    /\ t.kind = "quality" /\ ~t.old =>
          /\ t.automatic => t.selected = AutoLevel
          /\ ~t.automatic => t.level = t.selected
          /\ \A u \in ts : u.kind = "quality" /\ ~u.old => u = t

Formed(s) ==
    /\ DOMAIN s = {"p", "q", "h", "tasks"}
    /\ DOMAIN s.p = {"ready", "bootstrap", "boot", "live", "codec", "reload", "position",
                     "restarts", "recoveries", "initial", "data", "failed", "error", "pinned"}
    /\ DOMAIN s.q = {"shown", "select", "disabled", "flush"}
    /\ DOMAIN s.h = {"parsed", "loading", "buffering", "manual"}

Basic(s, f) ==
    /\ Formed(s) /\ s.p.position # Nowhere
    /\ \A t \in s.tasks : SoundTask(t, s.tasks, f)

\* A manifest that is not there cannot be loaded from: then it is loading, or a
\* history is awaited that brings it.
Held(s) == s.h.buffering \/ s.p.boot \/ s.q.flush
Prepared(s) ==
    \/ s.p.ready \/ s.p.error \/ s.h.loading # "stopped"
    \/ \E t \in s.tasks : AwaitsHistory(s, t) \/ (s.h.parsed /\ AwaitsTail(s, t))
Loads(s) ==
    /\ s.p.boot /\ s.p.reload # Nowhere => ~s.h.parsed
    /\ s.h.loading = "media" => s.h.parsed
    /\ s.h.parsed => s.q.shown

\* A seek is followed once the bootstrap is over; what plays is shown, or there
\* is a choice that waits.
Follows(s) ==
    \A t \in s.tasks : AwaitsHistory(s, t) /\ ~s.p.boot => s.p.reload = s.p.position
Shows(s) ==
    s.p.ready /\ s.h.parsed /\ ~s.p.pinned =>
       s.h.manual = s.q.select \/ \E t \in s.tasks : AwaitsQuality(s, t)

Good(s, f) == Basic(s, f) /\ Held(s) /\ Prepared(s) /\ Loads(s) /\ Follows(s) /\ Shows(s)
Fine(s, f) == Formed(s) /\ (s.p.failed \/ Good(s, f))
PlayerInv == Fine(state, from)

\* The names of the player as HlsPlayer has them.
LEMMA SameNames ==
    /\ Player!Nowhere = Nowhere /\ Player!AutoLevel = AutoLevel /\ Player!state = state
    /\ \A s, t : /\ Player!AwaitsHistory(s, t) <=> AwaitsHistory(s, t)
                 /\ Player!AwaitsQuality(s, t) <=> AwaitsQuality(s, t)
                 /\ Player!AwaitsTail(s, t) <=> AwaitsTail(s, t)
  BY DEF Player!Nowhere, Nowhere, Player!AutoLevel, AutoLevel, Player!state, state,
     Player!AwaitsHistory, AwaitsHistory, Player!AwaitsQuality, AwaitsQuality,
     Player!AwaitsTail, AwaitsTail

-----------------------------------------------------------------------------
(* Tasks.                                                                  *)

LEMMA OutdateFacts ==
    ASSUME NEW kind, NEW ts, \A t \in ts : {"kind", "old"} \subseteq DOMAIN t
    PROVE  /\ \A u \in Player!Outdate(kind, ts) :
                 /\ {"kind", "old"} \subseteq DOMAIN u
                 /\ (u.kind = kind /\ u.old) \/ (u.kind # kind /\ u \in ts)
           /\ \A t \in ts : t.kind # kind => t \in Player!Outdate(kind, ts)
  BY DEF Player!Outdate

LEMMA OutdateSound ==
    ASSUME NEW f, NEW kind, NEW ts, \A t \in ts : SoundTask(t, ts, f),
           NEW us, us = Player!Outdate(kind, ts)
    PROVE  /\ \A u \in us : SoundTask(u, us, f)
           /\ \A u \in us : u.kind = kind => u.old
           /\ \A u \in us : u.kind # kind => u \in ts
           /\ \A t \in ts : t.kind # kind => t \in us
  <1>1. \A t \in ts : {"kind", "old"} \subseteq DOMAIN t
    BY DEF SoundTask
  <1>2. /\ \A u \in us :
              /\ {"kind", "old"} \subseteq DOMAIN u
              /\ (u.kind = kind /\ u.old) \/ (u.kind # kind /\ u \in ts)
        /\ \A t \in ts : t.kind # kind => t \in us
    BY <1>1, OutdateFacts
  <1>3. ASSUME NEW u \in us
        PROVE  SoundTask(u, us, f)
    <2>1. CASE u.kind = kind /\ u.old
      BY <1>2, <2>1 DEF SoundTask
    <2>2. CASE u.kind # kind /\ u \in ts
      <3>1. \A v \in us : v.kind = u.kind => v \in ts
        BY <1>2, <2>2
      <3> QED  BY <1>2, <2>2, <3>1 DEF SoundTask
    <2> QED  BY <1>2, <2>1, <2>2
  <1> QED  BY <1>2, <1>3

\* A task that begins is the only one of its kind that is not old.
LEMMA AddSound ==
    ASSUME NEW f, NEW ts, \A t \in ts : SoundTask(t, ts, f),
           NEW new, SoundTask(new, {new}, f),
           \A t \in ts : t.kind = new.kind /\ new.kind # "tail" => t.old
    PROVE  \A t \in ts \cup {new} : SoundTask(t, ts \cup {new}, f)
  <1>1. PICK us : us = ts \cup {new}
    OBVIOUS
  <1>2. ASSUME NEW t \in us
        PROVE  SoundTask(t, us, f)
    <2>1. CASE t = new
      BY <1>1, <2>1 DEF SoundTask
    <2>2. CASE t \in ts
      BY <1>1, <2>2 DEF SoundTask
    <2> QED  BY <1>1, <2>1, <2>2
  <1> QED  BY <1>1, <1>2

LEMMA RemoveSound ==
    ASSUME NEW f, NEW ts, \A t \in ts : SoundTask(t, ts, f), NEW us, us \subseteq ts
    PROVE  \A t \in us : SoundTask(t, us, f)
  BY DEF SoundTask

-----------------------------------------------------------------------------
(* States of the player.                                                   *)

\* The invariant reads nothing of a state but its fields.
LEMMA SameFine ==
    ASSUME NEW x, NEW y, NEW f, Fine(x, f), DOMAIN y = {"p", "q", "h", "tasks"},
           y.p = x.p, y.q = x.q, y.h = x.h, y.tasks = x.tasks
    PROVE  Fine(y, f)
  <1>1. \A t : /\ AwaitsHistory(y, t) <=> AwaitsHistory(x, t)
               /\ AwaitsQuality(y, t) <=> AwaitsQuality(x, t)
               /\ AwaitsTail(y, t) <=> AwaitsTail(x, t)
    BY DEF AwaitsHistory, AwaitsQuality, AwaitsTail
  <1>2. Formed(y) /\ (y.p.failed <=> x.p.failed)
    BY DEF Fine, Formed
  <1>3. ASSUME Good(x, f)
        PROVE  Good(y, f)
    <2>1. Basic(y, f)
      BY <1>2, <1>3 DEF Good, Basic
    <2>2. Held(y) /\ Loads(y)
      BY <1>3 DEF Good, Held, Loads
    <2>3. Prepared(y)
      BY <1>1, <1>3 DEF Good, Prepared
    <2>4. Follows(y)
      BY <1>1, <1>3 DEF Good, Follows
    <2>5. Shows(y)
      BY <1>1, <1>3 DEF Good, Shows
    <2> QED  BY <2>1, <2>2, <2>3, <2>4, <2>5 DEF Good
  <1> QED  BY <1>2, <1>3 DEF Fine

\* A handler ends in one of its states.
LEMMA EndsFine ==
    ASSUME NEW S, Player!Ends(S), \A x \in S : Fine(x, from')
    PROVE  PlayerInv'
  <1>1. PICK x \in S : player' = x.p /\ quality' = x.q /\ hls' = x.h /\ tasks' = x.tasks
    BY DEF Player!Ends
  <1>2. PICK y, f : y = state' /\ f = from'
    OBVIOUS
  <1>3. /\ DOMAIN y = {"p", "q", "h", "tasks"}
        /\ y.p = x.p /\ y.q = x.q /\ y.h = x.h /\ y.tasks = x.tasks
    BY <1>1, <1>2 DEF state
  <1>4. Fine(y, f)
    BY <1>2, <1>3, SameFine
  <1> QED  BY <1>2, <1>4 DEF PlayerInv

\* A handler begins in a good state.
LEMMA EndsFacts ==
    ASSUME PlayerInv, NEW S, Player!Ends(S)
    PROVE  /\ Good(state, from)
           /\ state.p = player /\ state.q = quality /\ state.h = hls /\ state.tasks = tasks
  <1>1. state.p = player /\ state.q = quality /\ state.h = hls /\ state.tasks = tasks
    BY DEF state
  <1>2. ~player.failed
    BY DEF Player!Ends
  <1> QED  BY <1>1, <1>2 DEF PlayerInv, Fine

\* A state differs from another in what hls.js does.
LEMMA WithHls ==
    ASSUME NEW s, Formed(s), NEW h, DOMAIN h = DOMAIN s.h, NEW x, x = [s EXCEPT !.h = h]
    PROVE  Formed(x) /\ x.p = s.p /\ x.q = s.q /\ x.h = h /\ x.tasks = s.tasks
  BY DEF Formed

LEMMA StartLoadFields ==
    ASSUME NEW s, Formed(s), NEW x, x = Player!start_load(s)
    PROVE  /\ Formed(x) /\ x.p = s.p /\ x.q = s.q /\ x.tasks = s.tasks
           /\ x.h.manual = s.h.manual
           /\ x.h.parsed <=> s.h.parsed
           /\ x.h.buffering <=> s.h.buffering
           /\ s.h.parsed => x.h.loading = "media"
           /\ ~s.h.parsed => x.h.loading = s.h.loading
  BY DEF Player!start_load, Formed

LEMMA StopLoadFields ==
    ASSUME NEW s, Formed(s), NEW x, x = Player!stop_load(s)
    PROVE  /\ Formed(x) /\ x.p = s.p /\ x.q = s.q /\ x.tasks = s.tasks
           /\ x.h.manual = s.h.manual
           /\ x.h.parsed <=> s.h.parsed
           /\ x.h.buffering <=> s.h.buffering
           /\ x.h.loading = "stopped"
  BY DEF Player!stop_load, Formed

LEMMA LoadSourceFields ==
    ASSUME NEW s, Formed(s), NEW x, x = Player!load_source(s)
    PROVE  /\ Formed(x) /\ x.p = s.p /\ x.q = s.q /\ x.tasks = s.tasks
           /\ ~x.h.parsed
           /\ x.h.buffering <=> s.h.buffering
           /\ x.h.loading = "manifest"
  BY DEF Player!load_source, Formed

LEMMA FlushFields ==
    ASSUME NEW s, Formed(s), NEW x, x = Player!finish_quality_flush(s)
    PROVE  /\ Formed(x) /\ x.p = s.p /\ x.tasks = s.tasks
           /\ x.q.select = s.q.select
           /\ x.q.shown <=> s.q.shown
           /\ x.h.manual = s.h.manual /\ x.h.loading = s.h.loading
           /\ x.h.parsed <=> s.h.parsed
           /\ s.h.buffering \/ s.q.flush => x.h.buffering
  BY DEF Player!finish_quality_flush, Formed

LEMMA CancelFields ==
    ASSUME NEW s, Formed(s), NEW x, x = Player!cancel(s)
    PROVE  /\ Formed(x) /\ x.p = s.p /\ x.q = s.q /\ x.h = s.h
           /\ x.tasks = Player!Outdate("quality", s.tasks)
  BY DEF Player!cancel, Formed

LEMMA ReplacedFields ==
    ASSUME NEW s, Formed(s), s.p.position # Nowhere, NEW n, NEW x, x = Player!Replaced(s, n)
    PROVE  /\ Formed(x) /\ x.q = s.q /\ x.tasks = s.tasks
           /\ ~x.p.ready /\ x.p.reload = Nowhere /\ x.p.position # Nowhere
           /\ ~x.h.parsed /\ x.h.loading = "manifest" /\ x.h.buffering
  <1>1. PICK p : p = [s.p EXCEPT
                        !.restarts = n, !.reload = Nowhere, !.ready = FALSE,
                        !.position = IF s.p.reload = Nowhere THEN s.p.position ELSE s.p.reload,
                        !.boot = s.p.bootstrap, !.recoveries = 0, !.data = FALSE,
                        !.pinned = FALSE, !.error = FALSE,
                        !.codec = IF s.p.codec = "none" THEN "none" ELSE "blind"]
    OBVIOUS
  <1>2. PICK h : h = Player!Fresh
    OBVIOUS
  <1>3. x = [s EXCEPT !.h = h, !.p = p]
    BY <1>1, <1>2, SameNames, Zenon DEF Player!Replaced
  <1>4. /\ DOMAIN p = DOMAIN s.p /\ ~p.ready /\ p.reload = Nowhere
        /\ p.position = IF s.p.reload = Nowhere THEN s.p.position ELSE s.p.reload
    <2>1. PICK o, at, codec, boot :
              /\ o = s.p /\ boot = s.p.bootstrap
              /\ at = IF s.p.reload = Nowhere THEN s.p.position ELSE s.p.reload
              /\ codec = IF s.p.codec = "none" THEN "none" ELSE "blind"
      OBVIOUS
    <2>2. p = [o EXCEPT !.restarts = n, !.reload = Nowhere, !.ready = FALSE, !.position = at,
                        !.boot = boot, !.recoveries = 0, !.data = FALSE, !.pinned = FALSE,
                        !.error = FALSE, !.codec = codec]
      BY <1>1, <2>1, Zenon
    <2> QED  BY <2>1, <2>2 DEF Formed
  <1>5. DOMAIN h = DOMAIN s.h /\ ~h.parsed /\ h.loading = "manifest" /\ h.buffering
    BY <1>2 DEF Player!Fresh, Formed
  <1>6. DOMAIN x = DOMAIN s /\ x.p = p /\ x.q = s.q /\ x.h = h /\ x.tasks = s.tasks
    BY <1>3 DEF Formed
  <1> QED  BY <1>4, <1>5, <1>6 DEF Formed

-----------------------------------------------------------------------------
(* What the calls of hls.js keep.                                          *)

\* No history is awaited that the player did not ask for.
LEMMA NothingAwaited ==
    ASSUME NEW s, NEW f, Basic(s, f), f = 0 \/ s.p.reload = Nowhere
    PROVE  \A t \in s.tasks : ~AwaitsHistory(s, t)
  BY DEF Basic, SoundTask, AwaitsHistory

LEMMA BasicFlush ==
    ASSUME NEW s, NEW f, Basic(s, f), NEW x, x = Player!finish_quality_flush(s)
    PROVE  Basic(x, f)
  BY FlushFields DEF Basic

LEMMA BasicCancel ==
    ASSUME NEW s, NEW f, Basic(s, f), NEW x, x = Player!cancel(s)
    PROVE  /\ Basic(x, f) /\ x.p = s.p /\ x.q = s.q /\ x.h = s.h
           /\ \A u \in x.tasks : u.kind = "quality" => u.old
           /\ \A u \in x.tasks : u.kind # "quality" => u \in s.tasks
           /\ \A t \in s.tasks : t.kind # "quality" => t \in x.tasks
  <1>1. /\ Formed(x) /\ x.p = s.p /\ x.q = s.q /\ x.h = s.h
        /\ x.tasks = Player!Outdate("quality", s.tasks)
    BY CancelFields DEF Basic
  <1>2. /\ \A u \in x.tasks : SoundTask(u, x.tasks, f)
        /\ \A u \in x.tasks : u.kind = "quality" => u.old
        /\ \A u \in x.tasks : u.kind # "quality" => u \in s.tasks
        /\ \A t \in s.tasks : t.kind # "quality" => t \in x.tasks
    <2>1. PICK ts, us : ts = s.tasks /\ us = x.tasks
      OBVIOUS
    <2>2. us = Player!Outdate("quality", ts) /\ \A t \in ts : SoundTask(t, ts, f)
      BY <1>1, <2>1 DEF Basic
    <2>3. /\ \A u \in us : SoundTask(u, us, f)
          /\ \A u \in us : u.kind = "quality" => u.old
          /\ \A u \in us : u.kind # "quality" => u \in ts
          /\ \A t \in ts : t.kind # "quality" => t \in us
      BY <2>2, OutdateSound
    <2> QED  BY <2>1, <2>3
  <1> QED  BY <1>1, <1>2 DEF Basic

LEMMA RestartFine ==
    ASSUME NEW s, NEW f, Basic(s, f), NEW x, x \in Player!hard_restart(s)
    PROVE  Fine(x, f)
  <1>1. PICK r : r = Player!finish_quality_flush(s)
    OBVIOUS
  <1>2. PICK q : q = Player!cancel(r)
    OBVIOUS
  <1>3. Basic(q, f) /\ \A u \in q.tasks : u.kind = "quality" => u.old
    <2>1. Basic(r, f)
      BY <1>1, BasicFlush
    <2> QED  BY <1>2, <2>1, BasicCancel
  <1>4. \/ \E n : x = Player!Replaced(q, n)
        \/ x = [q EXCEPT !.p.restarts = MaxHardRestarts, !.p.failed = TRUE]
    BY <1>1, <1>2 DEF Player!hard_restart
  <1>5. ASSUME NEW n, x = Player!Replaced(q, n)
        PROVE  Fine(x, f)
    <2>1. /\ Formed(x) /\ x.q = q.q /\ x.tasks = q.tasks
          /\ ~x.p.ready /\ x.p.reload = Nowhere /\ x.p.position # Nowhere
          /\ ~x.h.parsed /\ x.h.loading = "manifest" /\ x.h.buffering
      BY <1>3, <1>5, ReplacedFields DEF Basic
    <2>2. Basic(x, f)
      BY <1>3, <2>1 DEF Basic
    <2>3. Held(x) /\ Prepared(x) /\ Loads(x) /\ Shows(x)
      BY <2>1 DEF Held, Prepared, Loads, Shows
    <2>4. Follows(x)
      BY <2>1, <2>2, NothingAwaited DEF Follows
    <2> QED  BY <2>1, <2>2, <2>3, <2>4 DEF Fine, Good
  <1>6. CASE x = [q EXCEPT !.p.restarts = MaxHardRestarts, !.p.failed = TRUE]
    <2>1. Formed(q)
      BY <1>3 DEF Basic
    <2>2. Formed(x) /\ x.p.failed
      BY <1>6, <2>1 DEF Formed
    <2> QED  BY <2>2 DEF Fine
  <1> QED  BY <1>4, <1>5, <1>6

LEMMA TryFine ==
    ASSUME NEW s, NEW f, Basic(s, f), NEW after, Good(after, f), NEW x, x \in Player!Try(s, after)
    PROVE  Fine(x, f)
  BY RestartFine DEF Player!Try, Fine, Good, Basic

\* Loading goes on from a manifest that is there.
LEMMA StartLoadGood ==
    ASSUME NEW s, NEW f, Basic(s, f), Held(s), Loads(s), Follows(s), Shows(s),
           s.h.parsed \/ Prepared(s), NEW x, x = Player!start_load(s)
    PROVE  Good(x, f)
  <1>1. /\ Formed(x) /\ x.p = s.p /\ x.q = s.q /\ x.tasks = s.tasks
        /\ x.h.manual = s.h.manual
        /\ x.h.parsed <=> s.h.parsed
        /\ x.h.buffering <=> s.h.buffering
        /\ s.h.parsed => x.h.loading = "media"
        /\ ~s.h.parsed => x.h.loading = s.h.loading
    BY StartLoadFields DEF Basic
  <1>2. \A t : /\ AwaitsHistory(x, t) <=> AwaitsHistory(s, t)
               /\ AwaitsQuality(x, t) <=> AwaitsQuality(s, t)
               /\ AwaitsTail(x, t) <=> AwaitsTail(s, t)
    BY <1>1 DEF AwaitsHistory, AwaitsQuality, AwaitsTail
  <1>3. Basic(x, f)
    BY <1>1 DEF Basic
  <1>4. Held(x) /\ Loads(x)
    BY <1>1 DEF Held, Loads
  <1>5. Follows(x)
    BY <1>1, <1>2 DEF Follows
  <1>6. Shows(x)
    BY <1>1, <1>2 DEF Shows
  <1>7. Prepared(x)
    <2>1. CASE s.h.parsed
      BY <1>1, <2>1 DEF Prepared
    <2>2. CASE ~s.h.parsed
      BY <1>1, <1>2, <2>2 DEF Prepared
    <2> QED  BY <2>1, <2>2
  <1> QED  BY <1>3, <1>4, <1>5, <1>6, <1>7 DEF Good

\* The manifest is loaded again, which no history is awaited for any more.
LEMMA LoadSourceGood ==
    ASSUME NEW s, NEW f, Basic(s, f), Held(s), \A t \in s.tasks : ~AwaitsHistory(s, t),
           NEW x, x = Player!load_source(s)
    PROVE  Good(x, f)
  <1>1. /\ Formed(x) /\ x.p = s.p /\ x.q = s.q /\ x.tasks = s.tasks
        /\ ~x.h.parsed
        /\ x.h.buffering <=> s.h.buffering
        /\ x.h.loading = "manifest"
    BY LoadSourceFields DEF Basic
  <1>2. Basic(x, f)
    BY <1>1 DEF Basic
  <1>3. Held(x) /\ Loads(x) /\ Prepared(x) /\ Shows(x)
    BY <1>1 DEF Held, Loads, Prepared, Shows
  <1>4. Follows(x)
    BY <1>1 DEF Follows, AwaitsHistory
  <1> QED  BY <1>2, <1>3, <1>4 DEF Good

\* Nothing but buffering and what is held for it changes.
LEMMA FlushKeeps ==
    ASSUME NEW s, NEW f, Basic(s, f), Held(s), NEW x, x = Player!finish_quality_flush(s)
    PROVE  /\ Basic(x, f) /\ Held(x)
           /\ Prepared(s) => Prepared(x)
           /\ Loads(s) => Loads(x)
           /\ Follows(s) => Follows(x)
           /\ Shows(s) => Shows(x)
  <1>1. /\ Formed(x) /\ x.p = s.p /\ x.tasks = s.tasks
        /\ x.q.select = s.q.select
        /\ x.q.shown <=> s.q.shown
        /\ x.h.manual = s.h.manual /\ x.h.loading = s.h.loading
        /\ x.h.parsed <=> s.h.parsed
        /\ s.h.buffering \/ s.q.flush => x.h.buffering
    BY FlushFields DEF Basic
  <1>2. \A t : /\ AwaitsHistory(x, t) <=> AwaitsHistory(s, t)
               /\ AwaitsQuality(x, t) <=> AwaitsQuality(s, t)
               /\ AwaitsTail(x, t) <=> AwaitsTail(s, t)
    BY <1>1 DEF AwaitsHistory, AwaitsQuality, AwaitsTail
  <1>3. Basic(x, f) /\ Held(x)
    BY <1>1 DEF Basic, Held
  <1>4. Loads(s) => Loads(x)
    BY <1>1 DEF Loads
  <1>5. Prepared(s) => Prepared(x)
    BY <1>1, <1>2 DEF Prepared
  <1>6. Follows(s) => Follows(x)
    BY <1>1, <1>2 DEF Follows
  <1>7. Shows(s) => Shows(x)
    BY <1>1, <1>2 DEF Shows
  <1> QED  BY <1>3, <1>4, <1>5, <1>6, <1>7

LEMMA FlushGood ==
    ASSUME NEW s, NEW f, Good(s, f), NEW x, x = Player!finish_quality_flush(s)
    PROVE  Good(x, f)
  BY FlushKeeps DEF Good

\* No choice waits any more; but for that all stays.
LEMMA CancelKeeps ==
    ASSUME NEW s, NEW f, Basic(s, f), NEW x, x = Player!cancel(s)
    PROVE  /\ Held(s) => Held(x)
           /\ Prepared(s) => Prepared(x)
           /\ Loads(s) => Loads(x)
           /\ Follows(s) => Follows(x)
  <1>1. /\ x.p = s.p /\ x.q = s.q /\ x.h = s.h
        /\ \A u \in x.tasks : u.kind # "quality" => u \in s.tasks
        /\ \A t \in s.tasks : t.kind # "quality" => t \in x.tasks
    BY BasicCancel
  <1>2. \A t : /\ AwaitsHistory(x, t) <=> AwaitsHistory(s, t)
               /\ AwaitsTail(x, t) <=> AwaitsTail(s, t)
               /\ AwaitsHistory(s, t) => t.kind # "quality"
               /\ AwaitsTail(s, t) => t.kind # "quality"
    BY <1>1 DEF AwaitsHistory, AwaitsTail
  <1>3. (Held(s) => Held(x)) /\ (Loads(s) => Loads(x))
    BY <1>1 DEF Held, Loads
  <1>4. Prepared(s) => Prepared(x)
    BY <1>1, <1>2 DEF Prepared
  <1>5. Follows(s) => Follows(x)
    BY <1>1, <1>2 DEF Follows
  <1> QED  BY <1>3, <1>4, <1>5

-----------------------------------------------------------------------------
(* Buffering and the start of playback.                                    *)

LEMMA FinishFields ==
    ASSUME NEW s, Formed(s), NEW x, x = Player!finish_buffering(s)
    PROVE  /\ Formed(x) /\ x.tasks = s.tasks
           /\ x.p.ready /\ x.p.reload = Nowhere /\ x.p.position = s.p.position
           /\ x.p.boot <=> s.p.boot
           /\ x.q.select = s.q.select
           /\ x.q.shown <=> s.q.shown
           /\ x.q.flush <=> s.q.flush
           /\ s.q.shown => x.h.manual = s.q.select
           /\ x.h.parsed <=> s.h.parsed
           /\ x.h.buffering <=> s.h.buffering
           /\ x.h.loading = s.h.loading
  <1>1. PICK p, q : /\ p = [s.p EXCEPT !.ready = TRUE, !.initial = FALSE, !.reload = Nowhere,
                                       !.pinned = FALSE]
                    /\ q = [s.q EXCEPT !.disabled = FALSE]
    OBVIOUS
  <1>2. PICK r : r = [s EXCEPT !.q = q, !.p = p]
    OBVIOUS
  <1>3. /\ DOMAIN p = DOMAIN s.p /\ p.ready /\ p.reload = Nowhere /\ p.position = s.p.position
        /\ p.boot <=> s.p.boot
    BY <1>1 DEF Formed
  <1>4. /\ DOMAIN q = DOMAIN s.q /\ q.select = s.q.select
        /\ q.shown <=> s.q.shown
        /\ q.flush <=> s.q.flush
    BY <1>1 DEF Formed
  <1>5. Formed(r) /\ r.p = p /\ r.q = q /\ r.h = s.h /\ r.tasks = s.tasks
    BY <1>2, <1>3, <1>4 DEF Formed
  <1>6. x = Player!begin_playback(r)
    BY <1>1, <1>2, SameNames, Zenon DEF Player!finish_buffering
  <1>7. PICK m : m = IF r.q.shown THEN r.q.select ELSE AutoLevel
    OBVIOUS
  <1>8. x = [r EXCEPT !.h.manual = m]
    BY <1>6, <1>7, SameNames, Zenon DEF Player!begin_playback
  <1>9. /\ Formed(x) /\ x.p = r.p /\ x.q = r.q /\ x.tasks = r.tasks
        /\ x.h.manual = m
        /\ x.h.parsed <=> r.h.parsed
        /\ x.h.buffering <=> r.h.buffering
        /\ x.h.loading = r.h.loading
    BY <1>5, <1>8 DEF Formed
  <1> QED  BY <1>3, <1>4, <1>5, <1>7, <1>9

LEMMA FinishGood ==
    ASSUME NEW s, NEW f, Basic(s, f), Held(s), Loads(s),
           NEW x, x = Player!finish_buffering(s)
    PROVE  Good(x, f)
  <1>1. /\ Formed(x) /\ x.tasks = s.tasks
        /\ x.p.ready /\ x.p.reload = Nowhere /\ x.p.position = s.p.position
        /\ x.p.boot <=> s.p.boot
        /\ x.q.select = s.q.select
        /\ x.q.shown <=> s.q.shown
        /\ x.q.flush <=> s.q.flush
        /\ s.q.shown => x.h.manual = s.q.select
        /\ x.h.parsed <=> s.h.parsed
        /\ x.h.buffering <=> s.h.buffering
        /\ x.h.loading = s.h.loading
    BY FinishFields DEF Basic
  <1>2. Basic(x, f)
    BY <1>1 DEF Basic
  <1>3. Held(x) /\ Prepared(x) /\ Loads(x)
    BY <1>1 DEF Held, Prepared, Loads
  <1>4. Follows(x)
    BY <1>1, <1>2, NothingAwaited DEF Follows
  <1>5. Shows(x)
    BY <1>1 DEF Loads, Shows
  <1> QED  BY <1>2, <1>3, <1>4, <1>5 DEF Good

LEMMA BufferedGood ==
    ASSUME NEW s, NEW f, Good(s, f), NEW x \in Player!Buffered(s)
    PROVE  Good(x, f)
  BY FinishGood DEF Player!Buffered, Good

\* A state changes in nothing of what is wanted of it.
LEMMA Unconcerned ==
    ASSUME NEW s, NEW f, Good(s, f), NEW x, Formed(x), x.tasks = s.tasks,
           x.p.ready <=> s.p.ready, x.p.boot <=> s.p.boot, x.p.pinned <=> s.p.pinned,
           s.p.error => x.p.error,
           x.p.reload = s.p.reload, x.p.position = s.p.position, x.p.restarts = s.p.restarts,
           x.q.select = s.q.select, x.q.shown <=> s.q.shown, x.q.flush <=> s.q.flush,
           x.h.manual = s.h.manual, x.h.parsed <=> s.h.parsed, x.h.loading = s.h.loading,
           Held(s) => Held(x)
    PROVE  Good(x, f)
  <1>1. \A t : /\ AwaitsHistory(x, t) <=> AwaitsHistory(s, t)
               /\ AwaitsQuality(x, t) <=> AwaitsQuality(s, t)
               /\ AwaitsTail(x, t) <=> AwaitsTail(s, t)
    BY DEF AwaitsHistory, AwaitsQuality, AwaitsTail
  <1>2. Basic(x, f) /\ Held(x)
    BY DEF Good, Basic
  <1>3. Loads(x)
    BY DEF Good, Loads
  <1>4. Prepared(x)
    BY <1>1 DEF Good, Prepared
  <1>5. Follows(x)
    BY <1>1 DEF Good, Follows
  <1>6. Shows(x)
    BY <1>1 DEF Good, Shows
  <1> QED  BY <1>2, <1>3, <1>4, <1>5, <1>6 DEF Good

-----------------------------------------------------------------------------
(* Seeks and choices.                                                      *)

\* A seek that asks for history: what waited before is old.
Historic(s) ==
    [Player!cancel(s) EXCEPT
        !.p = [@ EXCEPT !.reload = s.p.position, !.ready = FALSE, !.error = FALSE],
        !.q.disabled = TRUE]

LEMMA HistoryFields ==
    ASSUME NEW s, NEW f, Basic(s, f), NEW history, history = Historic(s)
    PROVE  /\ Basic(history, f) /\ history.h = s.h
           /\ ~history.p.ready /\ history.p.reload = s.p.position
           /\ history.p.position = s.p.position /\ history.p.restarts = s.p.restarts
           /\ history.p.boot <=> s.p.boot
           /\ history.q.shown <=> s.q.shown
           /\ history.q.flush <=> s.q.flush
  <1>1. PICK c : c = Player!cancel(s)
    OBVIOUS
  <1>2. Basic(c, f) /\ c.p = s.p /\ c.q = s.q /\ c.h = s.h
    BY <1>1, BasicCancel
  <1>3. PICK p, q : /\ p = [c.p EXCEPT !.reload = s.p.position, !.ready = FALSE, !.error = FALSE]
                    /\ q = [c.q EXCEPT !.disabled = TRUE]
    OBVIOUS
  <1>4. /\ DOMAIN p = DOMAIN c.p /\ ~p.ready /\ p.reload = s.p.position
        /\ p.position = s.p.position /\ p.restarts = s.p.restarts
        /\ p.boot <=> s.p.boot
    BY <1>2, <1>3 DEF Basic, Formed
  <1>5. /\ DOMAIN q = DOMAIN c.q /\ q.select = s.q.select
        /\ q.shown <=> s.q.shown
        /\ q.flush <=> s.q.flush
    BY <1>2, <1>3 DEF Basic, Formed
  <1>6. history = [c EXCEPT !.p = p, !.q = q]
    BY <1>1, <1>3, Zenon DEF Historic
  <1>7. Formed(history) /\ history.p = p /\ history.q = q /\ history.h = s.h
        /\ history.tasks = c.tasks
    BY <1>2, <1>4, <1>5, <1>6 DEF Basic, Formed
  <1>8. Basic(history, f)
    BY <1>2, <1>4, <1>7 DEF Basic
  <1> QED  BY <1>4, <1>5, <1>7, <1>8

LEMMA HistoryGood ==
    ASSUME NEW s, NEW f, Basic(s, f), Held(s), f # 0, s.h.parsed => s.q.shown,
           s.p.boot => ~s.h.parsed, ~s.p.ready, s.p.reload = s.p.position,
           NEW task, task = [kind |-> "history", old |-> FALSE, hls |-> s.p.restarts,
                             position |-> s.p.position],
           NEW x, x = [Player!stop_load(s) EXCEPT
                          !.tasks = Player!Outdate("history", @) \cup {task}]
    PROVE  Good(x, f)
  <1>1. PICK r : r = Player!stop_load(s)
    OBVIOUS
  <1>2. Formed(s)
    BY DEF Basic
  <1>3. /\ Formed(r) /\ r.p = s.p /\ r.q = s.q /\ r.tasks = s.tasks
        /\ r.h.parsed <=> s.h.parsed
        /\ r.h.buffering <=> s.h.buffering
        /\ r.h.loading = "stopped"
    BY <1>1, <1>2, StopLoadFields
  <1>4. PICK ts, us : ts = s.tasks /\ us = Player!Outdate("history", ts)
    OBVIOUS
  <1>5. x = [r EXCEPT !.tasks = us \cup {task}]
    BY <1>1, <1>3, <1>4, Zenon
  <1>6. Formed(x) /\ x.p = s.p /\ x.q = s.q /\ x.h = r.h /\ x.tasks = us \cup {task}
    BY <1>3, <1>5 DEF Formed
  <1>7. \A t \in x.tasks : SoundTask(t, x.tasks, f)
    <2>1. \A t \in ts : SoundTask(t, ts, f)
      BY <1>4 DEF Basic
    <2>2. (\A t \in us : SoundTask(t, us, f)) /\ \A u \in us : u.kind = "history" => u.old
      BY <1>4, <2>1, OutdateSound
    <2>3. task.kind = "history" /\ SoundTask(task, {task}, f)
      BY DEF SoundTask, Basic
    <2>4. \A t \in us : t.kind = task.kind /\ task.kind # "tail" => t.old
      BY <2>2, <2>3
    <2>5. \A t \in us \cup {task} : SoundTask(t, us \cup {task}, f)
      BY <2>2, <2>3, <2>4, AddSound
    <2> QED  BY <1>6, <2>5
  <1>8. Basic(x, f)
    BY <1>6, <1>7 DEF Basic
  <1>9. AwaitsHistory(x, task) /\ task \in x.tasks
    BY <1>6 DEF AwaitsHistory
  <1>10. Held(x) /\ Loads(x)
    BY <1>3, <1>6 DEF Held, Loads
  <1>11. Prepared(x) /\ Follows(x) /\ Shows(x)
    BY <1>6, <1>9 DEF Prepared, Follows, Shows
  <1> QED  BY <1>8, <1>10, <1>11 DEF Good

LEMMA SeekFine ==
    ASSUME NEW s0, Basic(s0, from), Held(s0), Loads(s0), Shows(s0),
           s0.p.boot => ~s0.h.parsed,
           \/ s0.h.parsed \/ s0.p.ready \/ s0.p.error \/ s0.h.loading # "stopped"
           \/ from # 0 /\ s0.p.reload # Nowhere,
           NEW x, x \in Player!seek_hls(s0)
    PROVE  Fine(x, from)
  <1>1. PICK s : s = Player!finish_quality_flush(s0)
    OBVIOUS
  <1>2. /\ Basic(s, from) /\ Held(s) /\ Loads(s) /\ Shows(s)
        /\ s.p = s0.p /\ s.h.loading = s0.h.loading
        /\ s.h.parsed <=> s0.h.parsed
    <2>1. Basic(s, from) /\ Held(s) /\ Loads(s) /\ Shows(s)
      BY <1>1, FlushKeeps
    <2>2. Formed(s0)
      BY DEF Basic
    <2>3. /\ s.p = s0.p /\ s.h.loading = s0.h.loading
          /\ s.h.parsed <=> s0.h.parsed
      BY <1>1, <2>2, FlushFields
    <2> QED  BY <2>1, <2>3
  <1>3. PICK history, task :
            /\ history = Historic(s)
            /\ task = [kind |-> "history", old |-> FALSE, hls |-> s.p.restarts,
                       position |-> s.p.position]
    OBVIOUS
  <1>4. \/ /\ from = 0 \/ s.p.reload = Nowhere
           /\ x \in Player!Try(s, Player!start_load(s))
        \/ /\ from # 0
           /\ x \in Player!Try(history, [Player!stop_load(history) EXCEPT
                          !.tasks = Player!Outdate("history", @) \cup {task}])
    BY <1>1, <1>3, SameNames, Zenon DEF Player!seek_hls, Historic
  <1>5. CASE /\ from = 0 \/ s.p.reload = Nowhere
             /\ x \in Player!Try(s, Player!start_load(s))
    <2>1. Follows(s)
      BY <1>2, <1>5, NothingAwaited DEF Follows
    <2>2. s.h.parsed \/ Prepared(s)
      BY <1>2, <1>5 DEF Prepared
    <2>3. Good(Player!start_load(s), from)
      BY <1>2, <2>1, <2>2, StartLoadGood
    <2> QED  BY <1>2, <1>5, <2>3, TryFine
  <1>6. CASE /\ from # 0
             /\ x \in Player!Try(history, [Player!stop_load(history) EXCEPT
                            !.tasks = Player!Outdate("history", @) \cup {task}])
    <2>1. PICK y : y = [Player!stop_load(history) EXCEPT
                           !.tasks = Player!Outdate("history", @) \cup {task}]
      OBVIOUS
    <2>2. /\ Basic(history, from) /\ history.h = s.h
          /\ ~history.p.ready /\ history.p.reload = s.p.position
          /\ history.p.position = s.p.position /\ history.p.restarts = s.p.restarts
          /\ history.p.boot <=> s.p.boot
          /\ history.q.shown <=> s.q.shown
          /\ history.q.flush <=> s.q.flush
      BY <1>2, <1>3, HistoryFields
    <2>4. Held(history) /\ (history.p.boot => ~history.h.parsed)
          /\ (history.h.parsed => history.q.shown)
      BY <1>2, <2>2 DEF Held, Loads
    <2>5. task = [kind |-> "history", old |-> FALSE, hls |-> history.p.restarts,
                  position |-> history.p.position]
      BY <1>3, <2>2, Zenon
    <2>6. Good(y, from)
      BY <1>6, <2>1, <2>2, <2>4, <2>5, HistoryGood
    <2>3. x \in Player!Try(history, y)
      BY <1>6, <2>1, Zenon
    <2> QED  BY <2>2, <2>3, <2>6, TryFine
  <1> QED  BY <1>4, <1>5, <1>6

\* hls.js is given a rendition.
Given(s, level) == [s EXCEPT !.h.manual = level]

LEMMA GivenFields ==
    ASSUME NEW s, Formed(s), NEW level, NEW x, x = Given(s, level)
    PROVE  /\ Formed(x) /\ x.p = s.p /\ x.q = s.q /\ x.tasks = s.tasks
           /\ x.h.manual = level /\ x.h.loading = s.h.loading
           /\ x.h.parsed <=> s.h.parsed
           /\ x.h.buffering <=> s.h.buffering
  BY DEF Formed, Given

LEMMA GivenKeeps ==
    ASSUME NEW s, NEW f, Basic(s, f), NEW level, NEW x, x = Given(s, level)
    PROVE  /\ Basic(x, f)
           /\ Held(s) => Held(x)
           /\ Prepared(s) => Prepared(x)
           /\ Loads(s) => Loads(x)
           /\ Follows(s) => Follows(x)
           /\ ~s.p.ready \/ level = s.q.select => Shows(x)
  <1>1. /\ Formed(x) /\ x.p = s.p /\ x.q = s.q /\ x.tasks = s.tasks
        /\ x.h.manual = level /\ x.h.loading = s.h.loading
        /\ x.h.parsed <=> s.h.parsed
        /\ x.h.buffering <=> s.h.buffering
    BY GivenFields DEF Basic
  <1>2. \A t : /\ AwaitsHistory(x, t) <=> AwaitsHistory(s, t)
               /\ AwaitsTail(x, t) <=> AwaitsTail(s, t)
    BY <1>1 DEF AwaitsHistory, AwaitsTail
  <1>3. Basic(x, f)
    BY <1>1 DEF Basic
  <1>4. (Held(s) => Held(x)) /\ (Loads(s) => Loads(x))
    BY <1>1 DEF Held, Loads
  <1>5. Prepared(s) => Prepared(x)
    BY <1>1, <1>2 DEF Prepared
  <1>6. Follows(s) => Follows(x)
    BY <1>1, <1>2 DEF Follows
  <1>7. ~s.p.ready \/ level = s.q.select => Shows(x)
    BY <1>1 DEF Shows
  <1> QED  BY <1>3, <1>4, <1>5, <1>6, <1>7

\* A choice waits for its playlist, the only one that does.
Choosing(s, task) == [s EXCEPT !.tasks = @ \cup {task}]

LEMMA ChoosingGood ==
    ASSUME NEW s, NEW f, Basic(s, f), Held(s), Prepared(s), Loads(s), Follows(s), s.p.ready,
           \A u \in s.tasks : u.kind = "quality" => u.old,
           NEW task, task.kind = "quality", {"kind", "old"} \subseteq DOMAIN task, ~task.old,
           task.hls = s.p.restarts, task.selected = s.q.select,
           task.automatic => s.q.select = AutoLevel,
           ~task.automatic => task.level = s.q.select,
           NEW w, w = Choosing(s, task)
    PROVE  /\ Good(w, f) /\ w.p = s.p
           /\ \A level : Good(Given(w, level), f)
  <1>1. Formed(w) /\ w.p = s.p /\ w.q = s.q /\ w.h = s.h /\ w.tasks = s.tasks \cup {task}
    BY DEF Basic, Formed, Choosing
  <1>2. \A t \in w.tasks : SoundTask(t, w.tasks, f)
    <2>1. SoundTask(task, {task}, f)
      BY DEF SoundTask
    <2>2. PICK ts : ts = s.tasks
      OBVIOUS
    <2>3. /\ \A t \in ts : SoundTask(t, ts, f)
          /\ \A t \in ts : t.kind = task.kind /\ task.kind # "tail" => t.old
      BY <2>2 DEF Basic
    <2>4. \A t \in ts \cup {task} : SoundTask(t, ts \cup {task}, f)
      BY <2>1, <2>3, AddSound
    <2> QED  BY <1>1, <2>2, <2>4
  <1>3. Basic(w, f)
    BY <1>1, <1>2 DEF Basic
  <1>4. Held(w) /\ Loads(w) /\ Prepared(w)
    BY <1>1 DEF Held, Loads, Prepared
  <1>5. Follows(w)
    BY <1>1 DEF Follows, AwaitsHistory
  <1>6. ASSUME NEW x, x.p = s.p, x.q = s.q, x.tasks = w.tasks
        PROVE  Shows(x)
    <2>1. AwaitsQuality(x, task) /\ task \in x.tasks
      BY <1>1, <1>6 DEF AwaitsQuality
    <2> QED  BY <2>1 DEF Shows
  <1>7. Good(w, f)
    BY <1>1, <1>3, <1>4, <1>5, <1>6 DEF Good
  <1>8. ASSUME NEW level
        PROVE  Good(Given(w, level), f)
    <2>1. PICK x : x = Given(w, level)
      OBVIOUS
    <2>2. x.p = s.p /\ x.q = s.q /\ x.tasks = w.tasks
      BY <1>1, <2>1, GivenFields
    <2>3. Basic(x, f) /\ Held(x) /\ Prepared(x) /\ Loads(x) /\ Follows(x)
      BY <1>3, <1>4, <1>5, <2>1, GivenKeeps
    <2> QED  BY <1>6, <2>1, <2>2, <2>3 DEF Good
  <1> QED  BY <1>1, <1>7, <1>8

LEMMA SelectFine ==
    ASSUME NEW s0, Basic(s0, from), Held(s0), Prepared(s0), Loads(s0), Follows(s0),
           NEW level, NEW automatic,
           s0.p.ready /\ automatic => s0.q.select = AutoLevel /\ s0.h.manual = AutoLevel,
           ~automatic => level = s0.q.select,
           NEW x, x \in Player!select_quality(s0, level, automatic)
    PROVE  Fine(x, from)
  <1>1. PICK r, s : r = Player!finish_quality_flush(s0) /\ s = Player!cancel(r)
    OBVIOUS
  <1>2. /\ Basic(r, from) /\ Held(r) /\ Prepared(r) /\ Loads(r) /\ Follows(r)
        /\ r.p = s0.p /\ r.q.select = s0.q.select /\ r.h.manual = s0.h.manual
    <2>1. Formed(s0)
      BY DEF Basic
    <2> QED  BY <1>1, <2>1, FlushKeeps, FlushFields
  <1>3. /\ Basic(s, from) /\ Held(s) /\ Prepared(s) /\ Loads(s) /\ Follows(s)
        /\ s.p = s0.p /\ s.q.select = s0.q.select /\ s.h.manual = s0.h.manual
        /\ \A u \in s.tasks : u.kind = "quality" => u.old
    <2>1. Basic(s, from) /\ s.p = r.p /\ s.q = r.q /\ s.h = r.h
          /\ \A u \in s.tasks : u.kind = "quality" => u.old
      BY <1>1, <1>2, BasicCancel
    <2>2. Held(s) /\ Prepared(s) /\ Loads(s) /\ Follows(s)
      BY <1>1, <1>2, CancelKeeps
    <2> QED  BY <1>2, <2>1, <2>2
  <1>4. PICK task, w, pinned :
            /\ task = [kind |-> "quality", old |-> FALSE, hls |-> s.p.restarts,
                       automatic |-> automatic, selected |-> s.q.select, level |-> level,
                       previous |-> s.h.manual]
            /\ w = Choosing(s, task)
            /\ pinned = Given(s, level)
    OBVIOUS
  <1>5. PICK sought : sought = [pinned EXCEPT !.p.position = s.p.reload]
    OBVIOUS
  <1>6. \/ ~s.p.ready /\ s.p.reload # Nowhere /\ x \in Player!seek_hls(sought)
        \/ ~s.p.ready /\ s.p.reload = Nowhere /\ x \in Player!Try(pinned, Player!start_load(pinned))
        \/ s.p.ready /\ level = AutoLevel /\ x = pinned
        \/ s.p.ready /\ automatic /\ (x = s \/ \E p : x = Given(w, p))
        \/ s.p.ready /\ ~automatic /\ x = w
    <2>1. x \in IF ~s.p.ready
                THEN IF s.p.reload # Nowhere THEN Player!seek_hls(sought)
                     ELSE Player!Try(pinned, Player!start_load(pinned))
                ELSE IF level = AutoLevel THEN {pinned}
                ELSE IF automatic
                THEN {s} \cup {[w EXCEPT !.h.manual = p] : p \in Player!Level \ {level}}
                ELSE {w}
      BY <1>1, <1>4, <1>5, SameNames, Zenon DEF Player!select_quality, Given, Choosing
    <2>2. \A y : y \in {[w EXCEPT !.h.manual = p] : p \in Player!Level \ {level}} =>
                    \E p : y = Given(w, p)
      BY Zenon DEF Given
    <2> QED  BY <2>1, <2>2, Zenon
  <1>7. Basic(pinned, from) /\ Held(pinned) /\ Prepared(pinned) /\ Loads(pinned) /\ Follows(pinned)
        /\ (~s.p.ready \/ level = s.q.select => Shows(pinned))
    BY <1>3, <1>4, GivenKeeps
  <1>8. CASE ~s.p.ready /\ s.p.reload # Nowhere /\ x \in Player!seek_hls(sought)
    <2>1. Formed(s)
      BY <1>3 DEF Basic
    <2>2. /\ Formed(pinned) /\ pinned.p = s.p /\ pinned.q = s.q /\ pinned.tasks = s.tasks
          /\ pinned.h.loading = s.h.loading
          /\ pinned.h.parsed <=> s.h.parsed
          /\ pinned.h.buffering <=> s.h.buffering
      BY <1>4, <2>1, GivenFields
    <2>3. /\ Formed(sought) /\ sought.q = pinned.q /\ sought.h = pinned.h
          /\ sought.tasks = s.tasks /\ sought.p.position = s.p.reload
          /\ sought.p.reload = s.p.reload
          /\ ~sought.p.ready
          /\ sought.p.boot <=> s.p.boot
          /\ sought.p.error <=> s.p.error
      BY <1>5, <1>8, <2>2 DEF Formed
    <2>4. Basic(sought, from)
      BY <1>3, <1>8, <2>3 DEF Basic
    <2>5. Held(sought) /\ Loads(sought) /\ Shows(sought) /\ (sought.p.boot => ~sought.h.parsed)
      BY <1>3, <1>8, <2>2, <2>3 DEF Held, Loads, Shows
    <2>6. \/ sought.h.parsed \/ sought.p.ready \/ sought.p.error \/ sought.h.loading # "stopped"
          \/ from # 0 /\ sought.p.reload # Nowhere
      <3>1. \A t \in s.tasks : AwaitsHistory(s, t) => from # 0
        BY <1>3, NothingAwaited
      <3> QED  BY <1>3, <1>8, <2>2, <2>3, <3>1 DEF Prepared
    <2> QED  BY <1>8, <2>4, <2>5, <2>6, SeekFine
  <1>9. CASE ~s.p.ready /\ s.p.reload = Nowhere
             /\ x \in Player!Try(pinned, Player!start_load(pinned))
    <2>1. Good(Player!start_load(pinned), from)
      BY <1>7, <1>9, StartLoadGood
    <2> QED  BY <1>7, <1>9, <2>1, TryFine
  <1>10. CASE s.p.ready /\ level = AutoLevel /\ x = pinned
    <2>1. level = s.q.select
      BY <1>3, <1>10
    <2> QED  BY <1>7, <1>10, <2>1 DEF Fine, Good, Basic
  <1>11. CASE s.p.ready /\ automatic /\ x = s
    BY <1>3, <1>11 DEF Fine, Good, Basic, Shows
  <1>12. ASSUME s.p.ready
         PROVE  Good(w, from) /\ \A p : Good(Given(w, p), from)
    <2>1. /\ task.kind = "quality" /\ {"kind", "old"} \subseteq DOMAIN task /\ ~task.old
          /\ task.hls = s.p.restarts /\ task.selected = s.q.select /\ task.level = level
      BY <1>4
    <2>2. task.automatic <=> automatic
      BY <1>4, Zenon
    <2>3. (task.automatic => s.q.select = AutoLevel) /\ (~task.automatic => task.level = s.q.select)
      BY <1>3, <1>12, <2>1, <2>2
    <2> QED  BY <1>3, <1>4, <1>12, <2>1, <2>3, ChoosingGood
  <1>13. CASE s.p.ready /\ automatic /\ \E p : x = Given(w, p)
    BY <1>12, <1>13 DEF Fine, Good, Basic
  <1>14. CASE s.p.ready /\ ~automatic /\ x = w
    BY <1>12, <1>14 DEF Fine, Good, Basic
  <1> QED  BY <1>6, <1>8, <1>9, <1>10, <1>11, <1>13, <1>14

-----------------------------------------------------------------------------
(* Errors.                                                                 *)

LEMMA ReleaseGood ==
    ASSUME NEW s, NEW f, Good(s, f), NEW failure,
           NEW x, x = Player!release_auto_quality(s, failure)
    PROVE  /\ Good(x, f) /\ x.p = s.p /\ x.q = s.q /\ x.h.loading = s.h.loading
           /\ x.h.parsed <=> s.h.parsed
  <1>1. PICK c : c = Player!cancel(s)
    OBVIOUS
  <1>2. \/ x = s
        \/ s.q.select = AutoLevel /\ x = Given(c, AutoLevel)
    BY <1>1, SameNames, Zenon DEF Player!release_auto_quality, Player!Releases, Given
  <1>3. CASE x = s
    BY <1>3
  <1>4. CASE s.q.select = AutoLevel /\ x = Given(c, AutoLevel)
    <2>1. Basic(s, f) /\ Held(s) /\ Prepared(s) /\ Loads(s) /\ Follows(s)
      BY DEF Good
    <2>2. /\ Basic(c, f) /\ Held(c) /\ Prepared(c) /\ Loads(c) /\ Follows(c)
          /\ c.p = s.p /\ c.q = s.q /\ c.h = s.h
      BY <1>1, <2>1, BasicCancel, CancelKeeps
    <2>3. Basic(x, f) /\ Held(x) /\ Prepared(x) /\ Loads(x) /\ Follows(x) /\ Shows(x)
      BY <1>4, <2>2, GivenKeeps
    <2>4. Formed(c)
      BY <2>2 DEF Basic
    <2>5. /\ x.p = c.p /\ x.q = c.q /\ x.h.loading = c.h.loading
          /\ x.h.parsed <=> c.h.parsed
      BY <1>4, <2>4, GivenFields
    <2> QED  BY <2>2, <2>3, <2>5 DEF Good
  <1> QED  BY <1>2, <1>3, <1>4

LEMMA ReportedGood ==
    ASSUME PlayerInv, ~player.failed, NEW gaveUp, NEW x, x = Player!Reported(gaveUp)
    PROVE  /\ Good(x, from) /\ x.p = player /\ x.h.loading = hls.loading
           /\ x.h.parsed <=> hls.parsed
  <1>1. Good(state, from) /\ state.p = player /\ state.h = hls
    BY DEF PlayerInv, Fine, state
  <1>2. PICK st : st = state
    OBVIOUS
  <1>3. PICK f : f = Player!finish_quality_flush(st)
    OBVIOUS
  <1>4. PICK s : s = IF gaveUp THEN Player!GivenUp(f) ELSE f
    OBVIOUS
  <1>5. PICK failure, r : failure = TRUE /\ r = Player!release_auto_quality(s, failure)
    OBVIOUS
  <1>6. x = IF player.boot THEN Player!Resumed(r) ELSE r
    BY <1>2, <1>3, <1>4, <1>5, SameNames DEF Player!Reported
  <1>7. /\ Good(f, from) /\ f.p = player /\ f.h.loading = hls.loading
        /\ f.h.parsed <=> hls.parsed
    <2>1. Good(st, from) /\ Formed(st)
      BY <1>1, <1>2 DEF Good, Basic
    <2>2. Good(f, from)
      BY <1>3, <2>1, FlushGood
    <2>3. f.p = st.p /\ f.h.loading = st.h.loading /\ (f.h.parsed <=> st.h.parsed)
      BY <1>3, <2>1, FlushFields
    <2> QED  BY <1>1, <1>2, <2>2, <2>3
  <1>8. /\ Good(s, from) /\ s.p = player /\ s.h.loading = hls.loading
        /\ s.h.parsed <=> hls.parsed
    <2>1. CASE gaveUp
      <3>1. s = Player!GivenUp(f)
        BY <1>4, <2>1
      <3>2. Formed(f)
        BY <1>7 DEF Good, Basic
      <3>3. /\ Formed(s) /\ s.p = f.p /\ s.tasks = f.tasks
            /\ s.q.select = AutoLevel /\ s.h.manual = AutoLevel /\ s.h.loading = f.h.loading
            /\ s.q.shown <=> f.q.shown
            /\ s.q.flush <=> f.q.flush
            /\ s.h.parsed <=> f.h.parsed
            /\ s.h.buffering <=> f.h.buffering
        BY <3>1, <3>2, SameNames DEF Formed, Player!GivenUp
      <3>4. Basic(s, from) /\ Held(s) /\ Loads(s) /\ Shows(s)
        BY <1>7, <3>3 DEF Good, Basic, Held, Loads, Shows
      <3>5. Prepared(s) /\ Follows(s)
        BY <1>7, <3>3 DEF Good, Prepared, Follows, AwaitsHistory, AwaitsTail
      <3> QED  BY <1>7, <3>3, <3>4, <3>5 DEF Good
    <2>2. CASE ~gaveUp
      BY <1>4, <1>7, <2>2
    <2> QED  BY <2>1, <2>2
  <1>9. /\ Good(r, from) /\ r.p = player /\ r.h.loading = hls.loading
        /\ r.h.parsed <=> hls.parsed
    <2>1. Good(s, from)
      BY <1>8
    <2>2. /\ Good(r, from) /\ r.p = s.p /\ r.h.loading = s.h.loading
          /\ r.h.parsed <=> s.h.parsed
      <3>1. r = Player!release_auto_quality(s, failure)
        BY <1>5
      <3> QED  BY <2>1, <3>1, ReleaseGood
    <2> QED  BY <1>8, <2>2
  <1>10. CASE player.boot
    <2>1. x = Player!Resumed(r) /\ Formed(r)
      BY <1>6, <1>9, <1>10 DEF Good, Basic
    <2>2. /\ Formed(x) /\ x.p = r.p /\ x.q = r.q /\ x.tasks = r.tasks
          /\ x.h.manual = r.h.manual /\ x.h.loading = r.h.loading /\ x.h.buffering
          /\ x.h.parsed <=> r.h.parsed
      BY <2>1 DEF Formed, Player!Resumed
    <2>3. Good(x, from)
      BY <1>9, <2>2, Unconcerned DEF Held
    <2> QED  BY <1>9, <2>2, <2>3
  <1>11. CASE ~player.boot
    BY <1>6, <1>9, <1>11
  <1> QED  BY <1>10, <1>11

\* Loading was stopped, by hls.js or to ask the worker, and is resumed.
LEMMA FatalFine ==
    ASSUME NEW s, NEW f, Basic(s, f), Held(s), Loads(s), Follows(s), Shows(s), NEW type,
           type = "mediaError" => s.h.parsed \/ Prepared(s),
           NEW x, x \in Player!fatal_recovery_action(s, type)
    PROVE  Fine(x, f)
  <1>1. PICK l : l = Player!start_load(s)
    OBVIOUS
  <1>2. PICK r : r = [s EXCEPT !.p.recoveries = s.p.recoveries + 1]
    OBVIOUS
  <1>3. PICK y : y = [l EXCEPT !.p.error = ~s.h.parsed]
    OBVIOUS
  <1>4. \/ x \in Player!Try(s, y)
        \/ type = "mediaError" /\ x \in Player!Try(r, Player!start_load(r))
        \/ x \in Player!hard_restart(s)
    BY <1>1, <1>2, <1>3 DEF Player!fatal_recovery_action
  <1>5. CASE x \in Player!Try(s, y)
    <2>1. Formed(s)
      BY DEF Basic
    <2>2. /\ Formed(l) /\ l.p = s.p /\ l.q = s.q /\ l.tasks = s.tasks
          /\ l.h.manual = s.h.manual
          /\ l.h.parsed <=> s.h.parsed
          /\ l.h.buffering <=> s.h.buffering
          /\ s.h.parsed => l.h.loading = "media"
          /\ ~s.h.parsed => l.h.loading = s.h.loading
      BY <1>1, <2>1, StartLoadFields
    <2>3. PICK e : e = ~s.h.parsed
      OBVIOUS
    <2>4. y = [l EXCEPT !.p.error = e]
      BY <1>3, <2>3, Zenon
    <2>5. /\ Formed(y) /\ y.q = l.q /\ y.h = l.h /\ y.tasks = l.tasks
          /\ y.p.ready <=> l.p.ready
          /\ y.p.boot <=> l.p.boot
          /\ y.p.pinned <=> l.p.pinned
          /\ y.p.reload = l.p.reload /\ y.p.position = l.p.position
          /\ y.p.restarts = l.p.restarts
          /\ y.p.error = e
      BY <2>2, <2>4 DEF Formed
    <2>6. ~s.h.parsed => y.p.error
      BY <2>3, <2>5, Zenon
    <2>7. Basic(y, f) /\ Held(y) /\ Loads(y)
      BY <2>2, <2>5 DEF Basic, Held, Loads
    <2>8. Prepared(y)
      BY <2>2, <2>5, <2>6 DEF Prepared
    <2>9. Follows(y)
      BY <2>2, <2>5 DEF Follows, AwaitsHistory
    <2>10. Shows(y)
      <3>1. \A t : AwaitsQuality(y, t) <=> AwaitsQuality(s, t)
        BY <2>2, <2>5 DEF AwaitsQuality
      <3> QED  BY <2>2, <2>5, <3>1 DEF Shows
    <2> QED  BY <1>5, <2>7, <2>8, <2>9, <2>10, TryFine DEF Good
  <1>6. CASE type = "mediaError" /\ x \in Player!Try(r, Player!start_load(r))
    <2>1. /\ Formed(r) /\ r.q = s.q /\ r.h = s.h /\ r.tasks = s.tasks
          /\ r.p.ready <=> s.p.ready
          /\ r.p.boot <=> s.p.boot
          /\ r.p.pinned <=> s.p.pinned
          /\ r.p.error <=> s.p.error
          /\ r.p.reload = s.p.reload /\ r.p.position = s.p.position
          /\ r.p.restarts = s.p.restarts
      BY <1>2 DEF Basic, Formed
    <2>2. \A t : /\ AwaitsHistory(r, t) <=> AwaitsHistory(s, t)
                 /\ AwaitsQuality(r, t) <=> AwaitsQuality(s, t)
                 /\ AwaitsTail(r, t) <=> AwaitsTail(s, t)
      BY <2>1 DEF AwaitsHistory, AwaitsQuality, AwaitsTail
    <2>3. Basic(r, f) /\ Held(r) /\ Loads(r)
      BY <2>1 DEF Basic, Held, Loads
    <2>4. Follows(r) /\ (Prepared(s) => Prepared(r))
      BY <2>1, <2>2 DEF Follows, Prepared
    <2>5. Shows(r)
      BY <2>1, <2>2 DEF Shows
    <2>6. r.h.parsed \/ Prepared(r)
      BY <1>6, <2>1, <2>4
    <2>7. Good(Player!start_load(r), f)
      BY <2>3, <2>4, <2>5, <2>6, StartLoadGood
    <2> QED  BY <1>6, <2>3, <2>7, TryFine
  <1>7. CASE x \in Player!hard_restart(s)
    BY <1>7, RestartFine
  <1> QED  BY <1>4, <1>5, <1>6, <1>7

-----------------------------------------------------------------------------
(* The events of an instance.                                              *)

LEMMA StartGood ==
    ASSUME NEW s, NEW f, Basic(s, f), Held(s), s.p.reload = Nowhere, s.h.parsed,
           NEW x, x \in Player!Start(s)
    PROVE  Good(x, f)
  <1>1. PICK l : l = Player!start_load(s)
    OBVIOUS
  <1>2. PICK level : x = [l EXCEPT !.h.manual = level, !.p.pinned = s.p.ready,
                                   !.q.select = IF s.q.shown THEN @ ELSE level,
                                   !.q.shown = TRUE]
    BY <1>1, Zenon DEF Player!Start
  <1>3. PICK e, m : e = s.p.ready /\ m = IF s.q.shown THEN l.q.select ELSE level
    OBVIOUS
  <1>4. x = [l EXCEPT !.h.manual = level, !.p.pinned = e, !.q.select = m, !.q.shown = TRUE]
    BY <1>2, <1>3, Zenon
  <1>5. /\ Formed(l) /\ l.p = s.p /\ l.q = s.q /\ l.tasks = s.tasks
        /\ l.h.parsed /\ l.h.loading = "media"
        /\ l.h.buffering <=> s.h.buffering
    BY <1>1, StartLoadFields DEF Basic
  <1>6. /\ Formed(x) /\ x.tasks = s.tasks
        /\ x.p.position = s.p.position /\ x.p.reload = Nowhere
        /\ x.p.ready <=> s.p.ready
        /\ x.p.boot <=> s.p.boot
        /\ x.p.pinned = e
        /\ x.q.shown
        /\ x.q.flush <=> s.q.flush
        /\ x.h.parsed /\ x.h.loading = "media"
        /\ x.h.buffering <=> s.h.buffering
    BY <1>4, <1>5 DEF Formed
  <1>7. s.p.ready => x.p.pinned
    BY <1>3, <1>6, Zenon
  <1>8. Basic(x, f)
    BY <1>6 DEF Basic
  <1>9. Held(x) /\ Prepared(x) /\ Loads(x)
    BY <1>6 DEF Held, Prepared, Loads
  <1>10. Shows(x)
    BY <1>6, <1>7 DEF Shows
  <1>11. Follows(x)
    BY <1>6, <1>8, NothingAwaited DEF Follows
  <1> QED  BY <1>8, <1>9, <1>10, <1>11 DEF Good

LEMMA ManifestParsedFine ==
    ASSUME PlayerInv, Player!ManifestParsed
    PROVE  PlayerInv'
  <1>1. PICK st : st = state
    OBVIOUS
  <1>2. PICK s : s = [st EXCEPT !.h.parsed = TRUE]
    OBVIOUS
  <1>3. PICK at : at = IF s.p.reload = Nowhere THEN s
                       ELSE [s EXCEPT !.p.position = s.p.reload, !.p.reload = Nowhere]
    OBVIOUS
  <1>4. PICK S : S = Player!Start(at) \cup Player!hard_restart(s)
    OBVIOUS
  <1>5. Player!Ends(S) /\ from' = from
    BY <1>1, <1>2, <1>3, <1>4, SameNames, Zenon DEF Player!ManifestParsed
  <1>6. Good(st, from)
    BY <1>1, <1>5, EndsFacts
  <1>7. /\ Formed(s) /\ s.p = st.p /\ s.q = st.q /\ s.tasks = st.tasks /\ s.h.parsed
        /\ s.h.buffering <=> st.h.buffering
    BY <1>2, <1>6 DEF Good, Basic, Formed
  <1>8. Basic(s, from) /\ Held(s)
    BY <1>6, <1>7 DEF Good, Basic, Held
  <1>9. /\ Formed(at) /\ at.q = s.q /\ at.h = s.h /\ at.tasks = s.tasks
        /\ at.p.reload = Nowhere /\ at.p.position # Nowhere
        /\ at.p.boot <=> s.p.boot
    BY <1>3, <1>7, <1>8 DEF Formed, Basic
  <1>10. Basic(at, from) /\ Held(at)
    BY <1>8, <1>9 DEF Basic, Held
  <1>11. ASSUME NEW x \in S
         PROVE  Fine(x, from)
    <2>1. CASE x \in Player!Start(at)
      <3>1. Good(x, from)
        BY <1>7, <1>9, <1>10, <2>1, StartGood
      <3> QED  BY <3>1 DEF Fine, Good, Basic
    <2>2. CASE x \in Player!hard_restart(s)
      BY <1>8, <2>2, RestartFine
    <2> QED  BY <1>4, <2>1, <2>2
  <1> QED  BY <1>5, <1>11, EndsFine

LEMMA BufferCreatedFine ==
    ASSUME PlayerInv, Player!BufferCreated
    PROVE  PlayerInv'
  <1>1. PICK s, x : s = state /\ x = [s EXCEPT !.p.codec = "video"]
    OBVIOUS
  <1>2. Player!Ends({x}) /\ from' = from
    BY <1>1, SameNames, Zenon DEF Player!BufferCreated
  <1>3. Good(s, from)
    BY <1>1, <1>2, EndsFacts
  <1>4. /\ Formed(x) /\ x.q = s.q /\ x.h = s.h /\ x.tasks = s.tasks
        /\ x.p.ready <=> s.p.ready
        /\ x.p.boot <=> s.p.boot
        /\ x.p.pinned <=> s.p.pinned
        /\ x.p.error <=> s.p.error
        /\ x.p.reload = s.p.reload /\ x.p.position = s.p.position
        /\ x.p.restarts = s.p.restarts
    BY <1>1, <1>3 DEF Good, Basic, Formed
  <1>5. Good(x, from)
    BY <1>3, <1>4, Unconcerned DEF Held
  <1>6. Fine(x, from)
    BY <1>5 DEF Fine, Good, Basic
  <1> QED  BY <1>2, <1>6, EndsFine

LEMMA BufferAppendedFine ==
    ASSUME PlayerInv, NEW main, Player!BufferAppended(main)
    PROVE  PlayerInv'
  <1>1. PICK st, s, y : /\ st = state /\ s = [st EXCEPT !.p.data = TRUE]
                        /\ y = [s EXCEPT !.h.buffering = FALSE]
    OBVIOUS
  <1>2. PICK S : S = IF player.boot /\ main THEN Player!Try(s, y) ELSE Player!Buffered(s)
    OBVIOUS
  <1>3. Player!Ends(S) /\ from' = from
    BY <1>1, <1>2, SameNames, Zenon DEF Player!BufferAppended
  <1>4. Good(st, from) /\ st.p = player
    BY <1>1, <1>3, EndsFacts
  <1>5. /\ Formed(s) /\ s.q = st.q /\ s.h = st.h /\ s.tasks = st.tasks
        /\ s.p.ready <=> st.p.ready
        /\ s.p.boot <=> st.p.boot
        /\ s.p.pinned <=> st.p.pinned
        /\ s.p.error <=> st.p.error
        /\ s.p.reload = st.p.reload /\ s.p.position = st.p.position
        /\ s.p.restarts = st.p.restarts
    BY <1>1, <1>4 DEF Good, Basic, Formed
  <1>6. Good(s, from)
    BY <1>4, <1>5, Unconcerned DEF Held
  <1>7. ASSUME NEW x \in S
        PROVE  Fine(x, from)
    <2>1. CASE player.boot /\ main
      <3>1. x \in Player!Try(s, y)
        BY <1>2, <1>7, <2>1
      <3>2. /\ Formed(y) /\ y.p = s.p /\ y.q = s.q /\ y.tasks = s.tasks
            /\ y.h.manual = s.h.manual /\ y.h.loading = s.h.loading
            /\ y.h.parsed <=> s.h.parsed
        BY <1>1, <1>5 DEF Formed
      <3>3. Held(y)
        BY <1>4, <1>5, <2>1, <3>2 DEF Held
      <3>4. Good(y, from)
        BY <1>6, <3>2, <3>3, Unconcerned
      <3> QED  BY <1>6, <3>1, <3>4, TryFine DEF Good
    <2>2. CASE ~(player.boot /\ main)
      <3>1. x \in Player!Buffered(s)
        BY <1>2, <1>7, <2>2
      <3>2. Good(x, from)
        BY <1>6, <3>1, BufferedGood
      <3> QED  BY <3>2 DEF Fine, Good, Basic
    <2> QED  BY <2>1, <2>2
  <1> QED  BY <1>3, <1>7, EndsFine

LEMMA BootstrappedFine ==
    ASSUME NEW s, NEW f, Good(s, f), s.p.boot, s.h.loading = "media",
           NEW x, x \in Player!Bootstrapped(s)
    PROVE  Fine(x, f)
  <1>1. PICK b : b = [s EXCEPT !.p.boot = FALSE, !.h.buffering = TRUE]
    OBVIOUS
  <1>2. x = Player!finish_buffering(b) \/ x \in Player!Try(b, Player!start_load(b))
    BY <1>1 DEF Player!Bootstrapped
  <1>3. /\ Formed(b) /\ b.q = s.q /\ b.tasks = s.tasks
        /\ b.p.ready <=> s.p.ready
        /\ b.p.pinned <=> s.p.pinned
        /\ b.p.reload = s.p.reload /\ b.p.position = s.p.position
        /\ b.p.restarts = s.p.restarts /\ ~b.p.boot
        /\ b.h.manual = s.h.manual /\ b.h.loading = s.h.loading
        /\ b.h.parsed <=> s.h.parsed
        /\ b.h.buffering
    BY <1>1 DEF Good, Basic, Formed
  <1>4. s.h.parsed /\ s.p.reload = Nowhere
    BY DEF Good, Loads
  <1>5. Basic(b, f) /\ Held(b) /\ Loads(b)
    BY <1>3, <1>4 DEF Good, Basic, Held, Loads
  <1>6. Follows(b)
    BY <1>3, <1>4, <1>5, NothingAwaited DEF Follows
  <1>7. Shows(b)
    <2>1. \A t : AwaitsQuality(b, t) <=> AwaitsQuality(s, t)
      BY <1>3 DEF AwaitsQuality
    <2> QED  BY <1>3, <2>1 DEF Good, Shows
  <1>8. Good(Player!start_load(b), f)
    BY <1>3, <1>4, <1>5, <1>6, <1>7, StartLoadGood
  <1>9. CASE x = Player!finish_buffering(b)
    <2>1. Good(x, f)
      BY <1>5, <1>9, FinishGood
    <2> QED  BY <2>1 DEF Fine, Good, Basic
  <1>10. CASE x \in Player!Try(b, Player!start_load(b))
    BY <1>5, <1>8, <1>10, TryFine
  <1> QED  BY <1>2, <1>9, <1>10

LEMMA FragBufferedFine ==
    ASSUME PlayerInv, NEW main, Player!FragBuffered(main)
    PROVE  PlayerInv'
  <1>1. PICK s, y : s = state /\ y = [s EXCEPT !.p.recoveries = 0]
    OBVIOUS
  <1>2. PICK S : /\ Player!Ends(S) /\ from' = from /\ hls.loading = "media"
                 /\ \A x \in S : \/ x = y
                                 \/ x \in Player!Buffered(s)
                                 \/ player.boot /\ x \in Player!Bootstrapped(s)
                                 \/ x = s
                                 \/ x \in Player!hard_restart(s)
    <2>1. from' = from /\ hls.loading = "media"
      BY DEF Player!FragBuffered
    <2>2. CASE ~player.boot
      <3>1. Player!Ends(IF player.ready THEN {y} ELSE Player!Buffered(s))
        BY <1>1, <2>2, SameNames, Zenon DEF Player!FragBuffered
      <3>2. \A x \in IF player.ready THEN {y} ELSE Player!Buffered(s) :
                x = y \/ x \in Player!Buffered(s)
        OBVIOUS
      <3> QED  BY <2>1, <3>1, <3>2, Zenon
    <2>3. CASE player.boot
      <3>1. PICK T : T = IF player.codec = "none" THEN Player!Bootstrapped(s)
                         ELSE {s} \cup (IF player.codec = "blind" THEN Player!hard_restart(s)
                                                                 ELSE Player!Bootstrapped(s))
        OBVIOUS
      <3>2. Player!Ends(T)
        BY <1>1, <2>3, <3>1, SameNames, Zenon DEF Player!FragBuffered
      <3>3. \A x \in T : \/ x \in Player!Bootstrapped(s)
                         \/ x = s
                         \/ x \in Player!hard_restart(s)
        BY <3>1
      <3> QED  BY <2>1, <2>3, <3>2, <3>3, Zenon
    <2> QED  BY <2>2, <2>3
  <1>3. Good(s, from) /\ s.p = player /\ s.h = hls
    BY <1>1, <1>2, EndsFacts
  <1>4. ASSUME NEW x \in S
        PROVE  Fine(x, from)
    <2>1. CASE x = y
      <3>1. /\ Formed(y) /\ y.q = s.q /\ y.h = s.h /\ y.tasks = s.tasks
            /\ y.p.ready <=> s.p.ready
            /\ y.p.boot <=> s.p.boot
            /\ y.p.pinned <=> s.p.pinned
            /\ y.p.error <=> s.p.error
            /\ y.p.reload = s.p.reload /\ y.p.position = s.p.position
            /\ y.p.restarts = s.p.restarts
        BY <1>1, <1>3 DEF Good, Basic, Formed
      <3>2. Good(y, from)
        BY <1>3, <3>1, Unconcerned DEF Held
      <3> QED  BY <2>1, <3>2 DEF Fine, Good, Basic
    <2>2. CASE x \in Player!Buffered(s)
      <3>1. Good(x, from)
        BY <1>3, <2>2, BufferedGood
      <3> QED  BY <3>1 DEF Fine, Good, Basic
    <2>3. CASE player.boot /\ x \in Player!Bootstrapped(s)
      BY <1>2, <1>3, <2>3, BootstrappedFine
    <2>4. CASE x = s
      BY <1>3, <2>4 DEF Fine, Good, Basic
    <2>5. CASE x \in Player!hard_restart(s)
      BY <1>3, <2>5, RestartFine DEF Good
    <2> QED  BY <1>2, <2>1, <2>2, <2>3, <2>4, <2>5
  <1> QED  BY <1>2, <1>4, EndsFine

LEMMA CanPlayFine ==
    ASSUME PlayerInv, Player!CanPlay
    PROVE  PlayerInv'
  <1>1. PICK s, x : s = state /\ x = Player!finish_buffering(s)
    OBVIOUS
  <1>2. Player!Ends({x}) /\ from' = from
    BY <1>1, SameNames, Zenon DEF Player!CanPlay
  <1>3. Good(s, from)
    BY <1>1, <1>2, EndsFacts
  <1>4. Good(x, from)
    BY <1>1, <1>3, FinishGood DEF Good
  <1>5. Fine(x, from)
    BY <1>4 DEF Fine, Good, Basic
  <1> QED  BY <1>2, <1>5, EndsFine

-----------------------------------------------------------------------------
(* The user's seeks, and what they wait for.                               *)

LEMMA SeekEventFine ==
    ASSUME PlayerInv, NEW p, p # Nowhere, NEW buffered, Player!Seek(p, buffered)
    PROVE  PlayerInv'
  <1>1. PICK st, m : st = state /\ m = [st EXCEPT !.p.position = p, !.p.data = buffered]
    OBVIOUS
  <1>2. PICK s : s = Player!finish_quality_flush(m)
    OBVIOUS
  <1>3. PICK at : at = IF player.ready THEN s ELSE [s EXCEPT !.p.reload = p]
    OBVIOUS
  <1>4. PICK mustLoad : mustLoad <=>
               /\ ~player.boot
               /\ \/ player.reload # Nowhere
                  \/ player.ready /\ ~buffered
                  \/ ~player.ready /\ player.live /\ player.initial /\ p # player.position
    OBVIOUS
  <1>5. PICK S : S = IF mustLoad THEN Player!seek_hls(at) ELSE {s}
    OBVIOUS
  <1>6. Player!Ends(S) /\ from' = from
    BY <1>1, <1>2, <1>3, <1>4, <1>5, SameNames, Zenon DEF Player!Seek
  <1>7. Good(st, from) /\ st.p = player
    BY <1>1, <1>6, EndsFacts
  <1>8. /\ Formed(m) /\ m.q = st.q /\ m.h = st.h /\ m.tasks = st.tasks
        /\ m.p.ready <=> st.p.ready
        /\ m.p.boot <=> st.p.boot
        /\ m.p.pinned <=> st.p.pinned
        /\ m.p.error <=> st.p.error
        /\ m.p.reload = st.p.reload /\ m.p.position = p
        /\ m.p.restarts = st.p.restarts
    BY <1>1, <1>7 DEF Good, Basic, Formed
  <1>9. \A t : /\ AwaitsHistory(m, t) <=> AwaitsHistory(st, t)
               /\ AwaitsQuality(m, t) <=> AwaitsQuality(st, t)
               /\ AwaitsTail(m, t) <=> AwaitsTail(st, t)
    BY <1>8 DEF AwaitsHistory, AwaitsQuality, AwaitsTail
  <1>10. Basic(m, from) /\ Held(m) /\ Loads(m)
    BY <1>7, <1>8 DEF Good, Basic, Held, Loads
  <1>11. Prepared(m)
    BY <1>7, <1>8, <1>9 DEF Good, Prepared
  <1>12. Shows(m)
    BY <1>7, <1>8, <1>9 DEF Good, Shows
  <1>13. /\ Basic(s, from) /\ Held(s) /\ Loads(s) /\ Prepared(s) /\ Shows(s)
         /\ Follows(m) => Follows(s)
    BY <1>2, <1>10, <1>11, <1>12, FlushKeeps
  <1>14. s.p = m.p
    BY <1>2, <1>10, FlushFields DEF Basic
  <1>15. ASSUME NEW x \in S
         PROVE  Fine(x, from)
    <2>1. CASE mustLoad
      <3>1. x \in Player!seek_hls(at) /\ ~player.boot
        BY <1>4, <1>5, <1>15, <2>1
      <3>2. CASE player.ready
        <4>1. at = s /\ ~s.p.boot /\ s.p.ready
          BY <1>3, <1>7, <1>8, <1>14, <3>1, <3>2
        <4> QED  BY <1>13, <3>1, <4>1, SeekFine
      <3>3. CASE ~player.ready
        <4>1. at = [s EXCEPT !.p.reload = p]
          BY <1>3, <3>3
        <4>2. /\ Formed(at) /\ at.q = s.q /\ at.h = s.h /\ at.tasks = s.tasks
              /\ at.p.position = p /\ at.p.reload = p
              /\ ~at.p.ready /\ ~at.p.boot
              /\ at.p.error <=> s.p.error
          <5>1. Formed(s) /\ s.p.position = p /\ ~s.p.ready /\ ~s.p.boot
            BY <1>7, <1>8, <1>13, <1>14, <3>1, <3>3 DEF Basic
          <5> QED  BY <4>1, <5>1 DEF Formed
        <4>3. Basic(at, from)
          BY <1>13, <4>2 DEF Basic
        <4>4. Held(at) /\ Loads(at) /\ Shows(at)
          BY <1>7, <1>8, <1>13, <1>14, <3>1, <4>2 DEF Held, Loads, Shows
        <4>5. \/ at.h.parsed \/ at.p.ready \/ at.p.error \/ at.h.loading # "stopped"
              \/ from # 0 /\ at.p.reload # Nowhere
          <5>1. \A t \in s.tasks : AwaitsHistory(s, t) => from # 0
            BY <1>13, NothingAwaited
          <5> QED  BY <1>7, <1>8, <1>13, <1>14, <3>3, <4>2, <5>1 DEF Prepared
        <4> QED  BY <3>1, <4>2, <4>3, <4>4, <4>5, SeekFine
      <3> QED  BY <3>2, <3>3
    <2>2. CASE ~mustLoad
      <3>1. x = s /\ (player.boot \/ player.reload = Nowhere)
        BY <1>4, <1>5, <1>15, <2>2
      <3>2. Follows(m)
        <4>1. CASE player.boot
          BY <1>7, <1>8, <4>1 DEF Follows
        <4>2. CASE player.reload = Nowhere
          BY <1>7, <1>8, <1>10, <4>2, NothingAwaited DEF Follows
        <4> QED  BY <3>1, <4>1, <4>2
      <3> QED  BY <1>13, <3>1, <3>2 DEF Fine, Good, Basic
    <2> QED  BY <2>1, <2>2
  <1> QED  BY <1>6, <1>15, EndsFine

\* A task has ended.
Without(s, t) == [s EXCEPT !.tasks = @ \ {t}]

LEMMA WithoutFields ==
    ASSUME NEW s, Formed(s), NEW t, NEW x, x = Without(s, t)
    PROVE  Formed(x) /\ x.p = s.p /\ x.q = s.q /\ x.h = s.h /\ x.tasks = s.tasks \ {t}
  BY DEF Formed, Without

LEMMA WithoutKeeps ==
    ASSUME NEW s, NEW f, Basic(s, f), NEW t, NEW x, x = Without(s, t)
    PROVE  /\ Basic(x, f)
           /\ Held(s) => Held(x)
           /\ Loads(s) => Loads(x)
           /\ Follows(s) => Follows(x)
           /\ Prepared(s) /\ ~AwaitsHistory(s, t) /\ ~AwaitsTail(s, t) => Prepared(x)
           /\ Shows(s) /\ ~AwaitsQuality(s, t) => Shows(x)
  <1>1. Formed(x) /\ x.p = s.p /\ x.q = s.q /\ x.h = s.h /\ x.tasks = s.tasks \ {t}
    BY WithoutFields DEF Basic
  <1>2. \A u : /\ AwaitsHistory(x, u) <=> AwaitsHistory(s, u)
               /\ AwaitsQuality(x, u) <=> AwaitsQuality(s, u)
               /\ AwaitsTail(x, u) <=> AwaitsTail(s, u)
    BY <1>1 DEF AwaitsHistory, AwaitsQuality, AwaitsTail
  <1>3. Basic(x, f)
    <2>1. PICK ts, us : ts = s.tasks /\ us = x.tasks
      OBVIOUS
    <2>2. (\A u \in ts : SoundTask(u, ts, f)) /\ us \subseteq ts
      BY <1>1, <2>1 DEF Basic
    <2>3. \A u \in us : SoundTask(u, us, f)
      BY <2>2, RemoveSound
    <2> QED  BY <1>1, <2>1, <2>3 DEF Basic
  <1>4. (Held(s) => Held(x)) /\ (Loads(s) => Loads(x))
    BY <1>1 DEF Held, Loads
  <1>5. Follows(s) => Follows(x)
    BY <1>1, <1>2 DEF Follows
  <1>6. Prepared(s) /\ ~AwaitsHistory(s, t) /\ ~AwaitsTail(s, t) => Prepared(x)
    BY <1>1, <1>2 DEF Prepared
  <1>7. Shows(s) /\ ~AwaitsQuality(s, t) => Shows(x)
    BY <1>1, <1>2 DEF Shows
  <1> QED  BY <1>3, <1>4, <1>5, <1>6, <1>7

\* History is there: the manifest is loaded again, from where it now begins.
LEMMA HistoryPreparedFine ==
    ASSUME PlayerInv, NEW t, t \in tasks, Player!HistoryPrepared(t)
    PROVE  PlayerInv'
  <1>1. PICK st, s, f : st = state /\ s = Without(st, t) /\ f = from'
    OBVIOUS
  <1>2. PICK S : S = Player!Try(s, Player!load_source(s))
    OBVIOUS
  <1>3. Player!Ends(S) /\ AwaitsHistory(st, t)
    BY <1>1, <1>2, SameNames, Zenon DEF Player!HistoryPrepared, Without
  <1>4. Good(st, from) /\ st.tasks = tasks
    BY <1>1, <1>3, EndsFacts
  <1>5. Formed(s) /\ s.p = st.p /\ s.q = st.q /\ s.h = st.h /\ s.tasks = st.tasks \ {t}
    BY <1>1, <1>4, WithoutFields DEF Good, Basic
  <1>6. Basic(s, from)
    BY <1>1, <1>4, WithoutKeeps DEF Good
  <1>7. \A u \in s.tasks : u.kind = "history" => u.old
    BY <1>3, <1>4, <1>5 DEF Good, Basic, SoundTask, AwaitsHistory
  <1>8. Basic(s, f) /\ Held(s)
    <2>1. \A u \in s.tasks : SoundTask(u, s.tasks, f)
      BY <1>6, <1>7 DEF Basic, SoundTask
    <2> QED  BY <1>4, <1>5, <1>6, <2>1 DEF Basic, Good, Held
  <1>9. \A u \in s.tasks : ~AwaitsHistory(s, u)
    BY <1>7 DEF AwaitsHistory
  <1>10. Good(Player!load_source(s), f)
    BY <1>8, <1>9, LoadSourceGood
  <1>11. \A x \in S : Fine(x, from')
    BY <1>1, <1>2, <1>8, <1>10, TryFine
  <1> QED  BY <1>3, <1>11, EndsFine

LEMMA HistoryRefusedFine ==
    ASSUME PlayerInv, NEW t, Player!HistoryRefused(t)
    PROVE  PlayerInv'
  <1>1. PICK st, s, x : /\ st = state /\ s = Without(st, t)
                        /\ x = [st EXCEPT !.tasks = @ \ {t}, !.q.disabled = FALSE, !.p.error = TRUE]
    OBVIOUS
  <1>2. Player!Ends({x}) /\ from' = from /\ AwaitsHistory(st, t)
    BY <1>1, SameNames, Zenon DEF Player!HistoryRefused
  <1>3. Good(st, from)
    BY <1>1, <1>2, EndsFacts
  <1>4. Formed(st)
    BY <1>3 DEF Good, Basic
  <1>5. /\ Basic(s, from) /\ Held(s) /\ Loads(s) /\ Follows(s) /\ Shows(s)
        /\ s.p = st.p /\ s.q = st.q /\ s.h = st.h /\ s.tasks = st.tasks \ {t}
    <2>1. ~AwaitsQuality(st, t)
      BY <1>2 DEF AwaitsHistory, AwaitsQuality
    <2>2. Basic(s, from) /\ Held(s) /\ Loads(s) /\ Follows(s) /\ Shows(s)
      BY <1>1, <1>3, <2>1, WithoutKeeps DEF Good
    <2> QED  BY <1>1, <1>4, <2>2, WithoutFields
  <1>6. /\ Formed(x) /\ x.h = st.h /\ x.tasks = st.tasks \ {t}
        /\ x.p.ready <=> st.p.ready
        /\ x.p.boot <=> st.p.boot
        /\ x.p.pinned <=> st.p.pinned
        /\ x.p.error
        /\ x.p.reload = st.p.reload /\ x.p.position = st.p.position
        /\ x.p.restarts = st.p.restarts
        /\ x.q.select = st.q.select
        /\ x.q.shown <=> st.q.shown
        /\ x.q.flush <=> st.q.flush
    BY <1>1, <1>4 DEF Formed
  <1>7. \A u : /\ AwaitsHistory(x, u) <=> AwaitsHistory(s, u)
               /\ AwaitsQuality(x, u) <=> AwaitsQuality(s, u)
    BY <1>5, <1>6 DEF AwaitsHistory, AwaitsQuality
  <1>8. Basic(x, from) /\ Held(x) /\ Loads(x)
    BY <1>5, <1>6 DEF Basic, Held, Loads
  <1>9. Prepared(x)
    BY <1>6 DEF Prepared
  <1>10. Follows(x)
    BY <1>5, <1>6, <1>7 DEF Follows
  <1>11. Shows(x)
    BY <1>5, <1>6, <1>7 DEF Shows
  <1>12. Fine(x, from)
    BY <1>8, <1>9, <1>10, <1>11 DEF Fine, Good, Basic
  <1> QED  BY <1>2, <1>12, EndsFine

LEMMA HistoryLostFine ==
    ASSUME PlayerInv, NEW t, Player!HistoryLost(t)
    PROVE  PlayerInv'
  <1>1. PICK s, x : s = state /\ x = [s EXCEPT !.q.disabled = FALSE]
    OBVIOUS
  <1>2. Player!Ends({x}) /\ from' = from
    BY <1>1, SameNames, Zenon DEF Player!HistoryLost
  <1>3. Good(s, from)
    BY <1>1, <1>2, EndsFacts
  <1>4. /\ Formed(x) /\ x.p = s.p /\ x.h = s.h /\ x.tasks = s.tasks
        /\ x.q.select = s.q.select
        /\ x.q.shown <=> s.q.shown
        /\ x.q.flush <=> s.q.flush
    BY <1>1, <1>3 DEF Good, Basic, Formed
  <1>5. Good(x, from)
    BY <1>3, <1>4, Unconcerned DEF Held
  <1>6. Fine(x, from)
    BY <1>5 DEF Fine, Good, Basic
  <1> QED  BY <1>2, <1>6, EndsFine

-----------------------------------------------------------------------------
(* Renditions.                                                             *)

LEMMA ChooseFine ==
    ASSUME PlayerInv, NEW select, Player!Choose(select)
    PROVE  PlayerInv'
  <1>1. PICK st, s, automatic : /\ st = state /\ s = [st EXCEPT !.q.select = select]
                                /\ automatic = FALSE
    OBVIOUS
  <1>2. PICK S : S = Player!select_quality(s, select, automatic)
    OBVIOUS
  <1>3. Player!Ends(S) /\ from' = from
    BY <1>1, <1>2, SameNames, Zenon DEF Player!Choose
  <1>4. Good(st, from)
    BY <1>1, <1>3, EndsFacts
  <1>5. /\ Formed(s) /\ s.p = st.p /\ s.h = st.h /\ s.tasks = st.tasks
        /\ s.q.select = select
        /\ s.q.shown <=> st.q.shown
        /\ s.q.flush <=> st.q.flush
    BY <1>1, <1>4 DEF Good, Basic, Formed
  <1>6. Basic(s, from) /\ Held(s) /\ Loads(s)
    BY <1>4, <1>5 DEF Good, Basic, Held, Loads
  <1>7. Prepared(s) /\ Follows(s)
    <2>1. \A t : /\ AwaitsHistory(s, t) <=> AwaitsHistory(st, t)
                 /\ AwaitsTail(s, t) <=> AwaitsTail(st, t)
      BY <1>5 DEF AwaitsHistory, AwaitsTail
    <2> QED  BY <1>4, <1>5, <2>1 DEF Good, Prepared, Follows
  <1>8. ASSUME NEW x \in S
        PROVE  Fine(x, from)
    <2>1. x \in Player!select_quality(s, select, automatic) /\ ~automatic
      BY <1>1, <1>2, <1>8
    <2> QED  BY <1>5, <1>6, <1>7, <2>1, SelectFine
  <1> QED  BY <1>3, <1>8, EndsFine

LEMMA LevelSwitchingFine ==
    ASSUME PlayerInv, NEW level, Player!LevelSwitching(level)
    PROVE  PlayerInv'
  <1>1. PICK st, s, automatic : /\ st = state /\ s = Player!finish_quality_flush(st)
                                /\ automatic = TRUE
    OBVIOUS
  <1>2. PICK T : T = Player!select_quality(st, level, automatic)
    OBVIOUS
  <1>3. PICK S : S = IF quality.disabled \/ quality.select # AutoLevel THEN {s} ELSE {s} \cup T
    OBVIOUS
  <1>4. Player!Ends(S) /\ from' = from /\ hls.manual = AutoLevel
    BY <1>1, <1>2, <1>3, SameNames, Zenon DEF Player!LevelSwitching
  <1>5. Good(st, from) /\ st.q = quality /\ st.h = hls
    BY <1>1, <1>4, EndsFacts
  <1>6. ASSUME NEW x \in S
        PROVE  Fine(x, from)
    <2>1. CASE x = s
      <3>1. Good(x, from)
        BY <1>1, <1>5, <2>1, FlushGood
      <3> QED  BY <3>1 DEF Fine, Good, Basic
    <2>2. CASE quality.select = AutoLevel /\ x \in T
      <3>1. x \in Player!select_quality(st, level, automatic)
        BY <1>2, <2>2
      <3>2. st.q.select = AutoLevel /\ st.h.manual = AutoLevel /\ automatic
        BY <1>1, <1>4, <1>5, <2>2
      <3> QED  BY <1>5, <3>1, <3>2, SelectFine DEF Good
    <2> QED  BY <1>3, <2>1, <2>2
  <1> QED  BY <1>4, <1>6, EndsFine

\* The rendition is switched to that is shown.
LEMMA QualityCoversFine ==
    ASSUME PlayerInv, NEW t, t \in tasks, Player!QualityCovers(t)
    PROVE  PlayerInv'
  <1>1. PICK st, s, held : /\ st = state /\ s = Without(st, t)
                           /\ held = [s EXCEPT !.h.buffering = FALSE, !.q.flush = TRUE,
                                               !.h.manual = t.level]
    OBVIOUS
  <1>2. PICK level : level = IF t.automatic THEN AutoLevel ELSE t.level
    OBVIOUS
  <1>3. PICK S : /\ Player!Ends(S)
                 /\ \A x \in S : \/ x = Given(s, level)
                                 \/ ~t.automatic /\ x = held
                                 \/ x \in Player!hard_restart(s)
    <2>1. PICK T : T = IF t.automatic THEN {[s EXCEPT !.h.manual = AutoLevel]}
                       ELSE {[s EXCEPT !.h.manual = t.level]}
                            \cup (IF hls.buffering THEN {held} \cup Player!hard_restart(s) ELSE {})
      OBVIOUS
    <2>2. Player!Ends(T)
      BY <1>1, <2>1, SameNames, Zenon DEF Player!QualityCovers, Without
    <2>3. CASE t.automatic
      <3>1. T = {Given(s, level)}
        BY <1>2, <2>1, <2>3, Zenon DEF Given
      <3> QED  BY <2>2, <3>1
    <2>4. CASE ~t.automatic
      <3>1. T = {Given(s, level)}
                \cup (IF hls.buffering THEN {held} \cup Player!hard_restart(s) ELSE {})
        BY <1>2, <2>1, <2>4, Zenon DEF Given
      <3> QED  BY <2>2, <2>4, <3>1
    <2> QED  BY <2>3, <2>4
  <1>4. AwaitsQuality(st, t) /\ from' = from
    BY <1>1, SameNames, Zenon DEF Player!QualityCovers
  <1>5. Good(st, from) /\ st.tasks = tasks
    BY <1>1, <1>3, EndsFacts
  <1>6. level = st.q.select
    BY <1>2, <1>4, <1>5 DEF Good, Basic, SoundTask, AwaitsQuality
  <1>7. /\ Basic(s, from) /\ Held(s) /\ Prepared(s) /\ Loads(s) /\ Follows(s)
        /\ s.p = st.p /\ s.q = st.q /\ s.h = st.h /\ s.tasks = st.tasks \ {t}
    <2>1. ~AwaitsHistory(st, t) /\ ~AwaitsTail(st, t)
      BY <1>4 DEF AwaitsHistory, AwaitsTail, AwaitsQuality
    <2>2. Basic(s, from) /\ Held(s) /\ Prepared(s) /\ Loads(s) /\ Follows(s)
      BY <1>1, <1>5, <2>1, WithoutKeeps DEF Good
    <2>3. Formed(st)
      BY <1>5 DEF Good, Basic
    <2> QED  BY <1>1, <2>2, <2>3, WithoutFields
  <1>8. ASSUME NEW x \in S
        PROVE  Fine(x, from)
    <2>1. CASE x = Given(s, level)
      <3>1. /\ Basic(x, from) /\ Held(x) /\ Prepared(x) /\ Loads(x) /\ Follows(x)
            /\ Shows(x)
        BY <1>6, <1>7, <2>1, GivenKeeps
      <3> QED  BY <3>1 DEF Fine, Good, Basic
    <2>2. CASE ~t.automatic /\ x = held
      <3>1. Formed(s)
        BY <1>7 DEF Basic
      <3>2. /\ Formed(x) /\ x.p = s.p /\ x.tasks = s.tasks
            /\ x.q.select = s.q.select
            /\ x.q.shown <=> s.q.shown
            /\ x.q.flush
            /\ x.h.manual = t.level /\ x.h.loading = s.h.loading
            /\ x.h.parsed <=> s.h.parsed
        BY <1>1, <2>2, <3>1 DEF Formed
      <3>3. Basic(x, from) /\ Held(x) /\ Loads(x)
        BY <1>7, <3>2 DEF Basic, Held, Loads
      <3>4. Prepared(x) /\ Follows(x)
        BY <1>7, <3>2 DEF Prepared, Follows, AwaitsHistory, AwaitsTail
      <3>5. Shows(x)
        BY <1>2, <1>6, <1>7, <2>2, <3>2 DEF Shows
      <3> QED  BY <3>3, <3>4, <3>5 DEF Fine, Good, Basic
    <2>3. CASE x \in Player!hard_restart(s)
      BY <1>7, <2>3, RestartFine
    <2> QED  BY <1>3, <2>1, <2>2, <2>3
  <1> QED  BY <1>3, <1>4, <1>8, EndsFine

LEMMA QualityUncoveredFine ==
    ASSUME PlayerInv, NEW t, Player!QualityUncovered(t)
    PROVE  PlayerInv'
  <1>1. PICK st, s, x : /\ st = state /\ s = Without(st, t)
                        /\ x = [st EXCEPT !.tasks = @ \ {t}, !.q.select = t.previous,
                                          !.h.manual = t.previous]
    OBVIOUS
  <1>2. Player!Ends({x}) /\ from' = from /\ AwaitsQuality(st, t)
    BY <1>1, SameNames, Zenon DEF Player!QualityUncovered
  <1>3. Good(st, from)
    BY <1>1, <1>2, EndsFacts
  <1>4. Formed(st)
    BY <1>3 DEF Good, Basic
  <1>5. /\ Basic(s, from) /\ Held(s) /\ Prepared(s) /\ Loads(s) /\ Follows(s)
        /\ s.p = st.p /\ s.q = st.q /\ s.h = st.h /\ s.tasks = st.tasks \ {t}
    <2>1. ~AwaitsHistory(st, t) /\ ~AwaitsTail(st, t)
      BY <1>2 DEF AwaitsHistory, AwaitsTail, AwaitsQuality
    <2>2. Basic(s, from) /\ Held(s) /\ Prepared(s) /\ Loads(s) /\ Follows(s)
      BY <1>1, <1>3, <2>1, WithoutKeeps DEF Good
    <2> QED  BY <1>1, <1>4, <2>2, WithoutFields
  <1>6. /\ Formed(x) /\ x.p = s.p /\ x.tasks = s.tasks
        /\ x.q.shown <=> s.q.shown
        /\ x.q.flush <=> s.q.flush
        /\ x.h.manual = x.q.select /\ x.h.loading = s.h.loading
        /\ x.h.parsed <=> s.h.parsed
        /\ x.h.buffering <=> s.h.buffering
    BY <1>1, <1>4, <1>5 DEF Formed
  <1>7. Basic(x, from) /\ Held(x) /\ Loads(x) /\ Shows(x)
    BY <1>5, <1>6 DEF Basic, Held, Loads, Shows
  <1>8. Prepared(x) /\ Follows(x)
    BY <1>5, <1>6 DEF Prepared, Follows, AwaitsHistory, AwaitsTail
  <1>9. Fine(x, from)
    BY <1>7, <1>8 DEF Fine, Good, Basic
  <1> QED  BY <1>2, <1>9, EndsFine

LEMMA FlushedFine ==
    ASSUME PlayerInv, Player!Flushed
    PROVE  PlayerInv'
  <1>1. PICK s, x : s = state /\ x = Player!finish_quality_flush(s)
    OBVIOUS
  <1>2. Player!Ends({x}) /\ from' = from
    BY <1>1, SameNames, Zenon DEF Player!Flushed
  <1>3. Good(x, from)
    BY <1>1, <1>2, EndsFacts, FlushGood
  <1>4. Fine(x, from)
    BY <1>3 DEF Fine, Good, Basic
  <1> QED  BY <1>2, <1>4, EndsFine

LEMMA WaitingFine ==
    ASSUME PlayerInv, Player!Waiting
    PROVE  PlayerInv'
  <1>1. PICK st, s, failure : /\ st = state /\ s = Player!finish_quality_flush(st)
                              /\ failure = FALSE
    OBVIOUS
  <1>2. PICK x : x = Player!release_auto_quality(s, failure)
    OBVIOUS
  <1>3. Player!Ends({x}) /\ from' = from
    BY <1>1, <1>2, SameNames, Zenon DEF Player!Waiting
  <1>4. Good(s, from)
    BY <1>1, <1>3, EndsFacts, FlushGood
  <1>5. Good(x, from)
    BY <1>2, <1>4, ReleaseGood
  <1>6. Fine(x, from)
    BY <1>5 DEF Fine, Good, Basic
  <1> QED  BY <1>3, <1>6, EndsFine

-----------------------------------------------------------------------------
(* Errors, and the tasks they wait for.                                    *)

LEMMA ErrorFine ==
    ASSUME PlayerInv, NEW gaveUp, Player!Error(gaveUp)
    PROVE  PlayerInv'
  <1>1. PICK x : x = Player!Reported(gaveUp)
    OBVIOUS
  <1>2. Player!Ends({x}) /\ from' = from /\ ~player.failed
    BY <1>1, Zenon DEF Player!Error, Player!Ends
  <1>3. Good(x, from)
    BY <1>1, <1>2, ReportedGood
  <1>4. Fine(x, from)
    BY <1>3 DEF Fine, Good, Basic
  <1> QED  BY <1>2, <1>4, EndsFine

LEMMA MissingVideoFine ==
    ASSUME PlayerInv, Player!MissingVideo
    PROVE  PlayerInv'
  <1>1. PICK gaveUp, r : gaveUp = FALSE /\ r = Player!Reported(gaveUp)
    OBVIOUS
  <1>2. PICK s : s = [r EXCEPT !.p.codec = "blind", !.p.bootstrap = TRUE]
    OBVIOUS
  <1>3. Player!Ends(Player!hard_restart(s)) /\ from' = from /\ ~player.failed
    BY <1>1, <1>2, Zenon DEF Player!MissingVideo, Player!Ends
  <1>4. Good(r, from)
    BY <1>1, <1>3, ReportedGood
  <1>5. Formed(s) /\ s.p.position = r.p.position /\ s.tasks = r.tasks
    BY <1>2, <1>4 DEF Good, Basic, Formed
  <1>6. Basic(s, from)
    BY <1>4, <1>5 DEF Good, Basic
  <1>7. \A x \in Player!hard_restart(s) : Fine(x, from)
    BY <1>6, RestartFine
  <1> QED  BY <1>3, <1>7, EndsFine

\* Loading has stopped when a fatal error is handled.
LEMMA StoppedFields ==
    ASSUME PlayerInv, ~player.failed,
           NEW gaveUp, NEW s, s = Player!stop_load(Player!Reported(gaveUp))
    PROVE  /\ Basic(s, from) /\ Held(s) /\ Loads(s) /\ Follows(s) /\ Shows(s)
           /\ s.p = player
           /\ s.h.parsed <=> hls.parsed
  <1>1. PICK r : r = Player!Reported(gaveUp)
    OBVIOUS
  <1>2. /\ Good(r, from) /\ r.p = player
        /\ r.h.parsed <=> hls.parsed
    BY <1>1, ReportedGood
  <1>3. /\ Formed(s) /\ s.p = r.p /\ s.q = r.q /\ s.tasks = r.tasks
        /\ s.h.manual = r.h.manual
        /\ s.h.parsed <=> r.h.parsed
        /\ s.h.buffering <=> r.h.buffering
        /\ s.h.loading = "stopped"
    <2>1. Formed(r)
      BY <1>2 DEF Good, Basic
    <2> QED  BY <1>1, <2>1, StopLoadFields
  <1>4. Basic(s, from) /\ Held(s) /\ Loads(s)
    BY <1>2, <1>3 DEF Good, Basic, Held, Loads
  <1>5. Follows(s)
    BY <1>2, <1>3 DEF Good, Follows, AwaitsHistory
  <1>6. Shows(s)
    <2>1. \A t : AwaitsQuality(s, t) <=> AwaitsQuality(r, t)
      BY <1>3 DEF AwaitsQuality
    <2> QED  BY <1>2, <1>3, <2>1 DEF Good, Shows
  <1> QED  BY <1>2, <1>3, <1>4, <1>5, <1>6

LEMMA FatalErrorFine ==
    ASSUME PlayerInv, NEW type, Player!FatalError(type)
    PROVE  PlayerInv'
  <1>1. PICK gaveUp, s : gaveUp = FALSE /\ s = Player!stop_load(Player!Reported(gaveUp))
    OBVIOUS
  <1>2. PICK S : S = IF player.reload # Nowhere THEN Player!hard_restart(s)
                     ELSE Player!fatal_recovery_action(s, type)
    OBVIOUS
  <1>3. Player!Ends(S) /\ from' = from /\ (type = "mediaError" => hls.parsed)
    BY <1>1, <1>2, SameNames, Zenon DEF Player!FatalError
  <1>4. ~player.failed
    BY <1>3, Zenon DEF Player!Ends
  <1>5. /\ Basic(s, from) /\ Held(s) /\ Loads(s) /\ Follows(s) /\ Shows(s)
        /\ s.h.parsed <=> hls.parsed
    BY <1>1, <1>4, StoppedFields
  <1>6. ASSUME NEW x \in S
        PROVE  Fine(x, from)
    <2>1. CASE x \in Player!hard_restart(s)
      BY <1>5, <2>1, RestartFine
    <2>2. CASE x \in Player!fatal_recovery_action(s, type)
      BY <1>3, <1>5, <2>2, FatalFine
    <2> QED  BY <1>2, <2>1, <2>2
  <1> QED  BY <1>3, <1>6, EndsFine

LEMMA TailErrorFine ==
    ASSUME PlayerInv, NEW type, Player!TailError(type)
    PROVE  PlayerInv'
  <1>1. PICK gaveUp, s : gaveUp = FALSE /\ s = Player!stop_load(Player!Reported(gaveUp))
    OBVIOUS
  <1>2. PICK task, x : /\ task = [kind |-> "tail", old |-> FALSE, hls |-> player.restarts,
                                  type |-> type]
                       /\ x = [s EXCEPT !.tasks = @ \cup {task}]
    OBVIOUS
  <1>3. Player!Ends({x}) /\ from' = from /\ hls.loading = "media"
    BY <1>1, <1>2, Zenon DEF Player!TailError
  <1>4. ~player.failed
    BY <1>3, Zenon DEF Player!Ends
  <1>5. /\ Basic(s, from) /\ Held(s) /\ Loads(s) /\ Follows(s) /\ Shows(s)
        /\ s.p = player
        /\ s.h.parsed <=> hls.parsed
    BY <1>1, <1>4, StoppedFields
  <1>6. hls.parsed
    <2>1. Good(state, from) /\ state.h = hls
      BY <1>3, EndsFacts
    <2> QED  BY <1>3, <2>1 DEF Good, Loads
  <1>7. Formed(x) /\ x.p = s.p /\ x.q = s.q /\ x.h = s.h /\ x.tasks = s.tasks \cup {task}
    BY <1>2, <1>5 DEF Basic, Formed
  <1>8. task.kind = "tail" /\ task.hls = player.restarts /\ {"kind", "old"} \subseteq DOMAIN task
    BY <1>2
  <1>9. Basic(x, from)
    <2>1. PICK ts : ts = s.tasks
      OBVIOUS
    <2>2. \A t \in ts : SoundTask(t, ts, from)
      BY <1>5, <2>1 DEF Basic
    <2>3. SoundTask(task, {task}, from)
      BY <1>8 DEF SoundTask
    <2>4. \A t \in ts : t.kind = task.kind /\ task.kind # "tail" => t.old
      BY <1>8
    <2>5. \A t \in ts \cup {task} : SoundTask(t, ts \cup {task}, from)
      BY <2>2, <2>3, <2>4, AddSound
    <2> QED  BY <1>5, <1>7, <2>1, <2>5 DEF Basic
  <1>10. Held(x) /\ Loads(x)
    BY <1>5, <1>7 DEF Held, Loads
  <1>11. Prepared(x)
    <2>1. AwaitsTail(x, task) /\ task \in x.tasks /\ x.h.parsed
      BY <1>5, <1>6, <1>7, <1>8 DEF AwaitsTail
    <2> QED  BY <2>1 DEF Prepared
  <1>12. Follows(x)
    BY <1>5, <1>7, <1>8 DEF Follows, AwaitsHistory
  <1>13. Shows(x)
    <2>1. \A t : AwaitsQuality(x, t) <=> AwaitsQuality(s, t)
      BY <1>7 DEF AwaitsQuality
    <2> QED  BY <1>5, <1>7, <2>1 DEF Shows
  <1>14. Fine(x, from)
    BY <1>9, <1>10, <1>11, <1>12, <1>13 DEF Fine, Good, Basic
  <1> QED  BY <1>3, <1>14, EndsFine

\* The player retreats to a position that no history is asked for.
LEMMA TailAbandonedFine ==
    ASSUME PlayerInv, NEW t, NEW target, Player!TailAbandoned(t, target)
    PROVE  PlayerInv'
  <1>1. PICK st, w, s :
            /\ st = state /\ w = Without(st, t)
            /\ s = [st EXCEPT
                      !.tasks = @ \ {t},
                      !.p = [@ EXCEPT !.recoveries = 0, !.reload = target, !.initial = FALSE,
                                      !.data = FALSE]]
    OBVIOUS
  <1>2. PICK S : S = Player!Try(s, Player!load_source(s))
    OBVIOUS
  <1>3. /\ Player!Ends(S) /\ from' = from
        /\ \A u \in tasks : u.kind = "history" => u.position # target
    BY <1>1, <1>2, SameNames, Zenon DEF Player!TailAbandoned
  <1>4. Good(st, from) /\ st.tasks = tasks
    BY <1>1, <1>3, EndsFacts
  <1>5. Basic(w, from) /\ w.p = st.p /\ w.tasks = st.tasks \ {t}
    <2>1. Basic(st, from) /\ Formed(st)
      BY <1>4 DEF Good, Basic
    <2>2. Basic(w, from)
      BY <1>1, <2>1, WithoutKeeps
    <2>3. w.p = st.p /\ w.tasks = st.tasks \ {t}
      BY <1>1, <2>1, WithoutFields
    <2> QED  BY <2>2, <2>3
  <1>6. PICK p : p = [st.p EXCEPT !.recoveries = 0, !.reload = target, !.initial = FALSE,
                                  !.data = FALSE]
    OBVIOUS
  <1>7. s = [st EXCEPT !.tasks = @ \ {t}, !.p = p]
    BY <1>1, <1>6, Zenon
  <1>8. /\ DOMAIN p = DOMAIN st.p /\ p.position = st.p.position /\ p.reload = target
        /\ p.boot <=> st.p.boot
    BY <1>4, <1>6 DEF Good, Basic, Formed
  <1>9. Formed(s) /\ s.p = p /\ s.q = st.q /\ s.h = st.h /\ s.tasks = w.tasks
    BY <1>4, <1>5, <1>7, <1>8 DEF Good, Basic, Formed
  <1>10. Basic(s, from) /\ Held(s)
    BY <1>4, <1>5, <1>8, <1>9 DEF Good, Basic, Held
  <1>11. \A u \in s.tasks : ~AwaitsHistory(s, u)
    BY <1>3, <1>4, <1>5, <1>8, <1>9 DEF AwaitsHistory
  <1>12. Good(Player!load_source(s), from)
    BY <1>10, <1>11, LoadSourceGood
  <1>13. \A x \in S : Fine(x, from)
    BY <1>2, <1>10, <1>12, TryFine
  <1> QED  BY <1>3, <1>13, EndsFine

LEMMA TailUnknownFine ==
    ASSUME PlayerInv, NEW t, t \in tasks, Player!TailUnknown(t)
    PROVE  PlayerInv'
  <1>1. PICK st, s : st = state /\ s = Without(st, t)
    OBVIOUS
  <1>2. PICK S : S = Player!fatal_recovery_action(s, t.type)
    OBVIOUS
  <1>3. Player!Ends(S) /\ from' = from /\ AwaitsTail(st, t)
    BY <1>1, <1>2, SameNames, Zenon DEF Player!TailUnknown, Without
  <1>4. Good(st, from)
    BY <1>1, <1>3, EndsFacts
  <1>5. /\ Basic(s, from) /\ Held(s) /\ Loads(s) /\ Follows(s) /\ Shows(s)
        /\ s.p = st.p /\ s.h = st.h /\ s.tasks = st.tasks \ {t}
    <2>1. ~AwaitsQuality(st, t)
      BY <1>3 DEF AwaitsTail, AwaitsQuality
    <2>2. Basic(s, from) /\ Held(s) /\ Loads(s) /\ Follows(s) /\ Shows(s)
      BY <1>1, <1>4, <2>1, WithoutKeeps DEF Good
    <2>3. Formed(st)
      BY <1>4 DEF Good, Basic
    <2> QED  BY <1>1, <2>2, <2>3, WithoutFields
  <1>6. s.h.parsed \/ Prepared(s)
    <2>1. \A u : AwaitsHistory(s, u) <=> AwaitsHistory(st, u)
      BY <1>5 DEF AwaitsHistory
    <2>2. ~AwaitsHistory(st, t)
      BY <1>3 DEF AwaitsTail, AwaitsHistory
    <2> QED  BY <1>4, <1>5, <2>1, <2>2 DEF Good, Prepared
  <1>7. \A x \in S : Fine(x, from)
    BY <1>2, <1>5, <1>6, FatalFine
  <1> QED  BY <1>3, <1>7, EndsFine

LEMMA DropFine ==
    ASSUME PlayerInv, NEW t, Player!Drop(t)
    PROVE  PlayerInv'
  <1>1. PICK s, x : s = state /\ x = Without(s, t)
    OBVIOUS
  <1>2. Player!Ends({x}) /\ from' = from
    BY <1>1, SameNames, Zenon DEF Player!Drop, Without
  <1>3. ~AwaitsHistory(s, t) /\ ~AwaitsQuality(s, t) /\ ~AwaitsTail(s, t)
    BY <1>1, SameNames DEF Player!Drop, Player!Awaits
  <1>4. Good(s, from)
    BY <1>1, <1>2, EndsFacts
  <1>5. Good(x, from)
    BY <1>1, <1>3, <1>4, WithoutKeeps DEF Good
  <1>6. Fine(x, from)
    BY <1>5 DEF Fine, Good, Basic
  <1> QED  BY <1>2, <1>6, EndsFine

-----------------------------------------------------------------------------
(* Every step.                                                             *)

LEMMA PlayerStarts ==
    ASSUME Player!Init
    PROVE  PlayerInv
  <1>1. PICK s : s = state
    OBVIOUS
  <1>2. /\ Formed(s) /\ s.p.reload = Nowhere /\ s.p.position = LastPosition
        /\ ~s.p.ready /\ s.tasks = {}
        /\ ~s.h.parsed /\ s.h.loading = "manifest" /\ s.h.buffering
    BY <1>1, SameNames DEF Player!Init, Player!Fresh, state, Formed
  <1>3. LastPosition # Nowhere
    BY PlayerAssumption DEF Nowhere
  <1>4. Good(s, from)
    BY <1>2, <1>3 DEF Good, Basic, Held, Prepared, Loads, Follows, Shows
  <1> QED  BY <1>1, <1>2, <1>4 DEF PlayerInv, Fine

LEMMA PlayerStep ==
    ASSUME PlayerInv, [Player!Next]_(Player!vars)
    PROVE  PlayerInv'
  <1>1. CASE Player!Events
    <2>1. ASSUME Player!ManifestParsed \/ Player!BufferCreated \/ Player!CanPlay
                 \/ Player!Flushed \/ Player!Waiting \/ Player!MissingVideo
          PROVE  PlayerInv'
      BY <2>1, ManifestParsedFine, BufferCreatedFine, CanPlayFine, FlushedFine, WaitingFine,
         MissingVideoFine
    <2>2. ASSUME NEW main, Player!BufferAppended(main) \/ Player!FragBuffered(main)
          PROVE  PlayerInv'
      BY <2>2, BufferAppendedFine, FragBufferedFine
    <2>3. ASSUME NEW gaveUp, Player!Error(gaveUp)
          PROVE  PlayerInv'
      BY <2>3, ErrorFine
    <2>4. ASSUME NEW type, Player!FatalError(type) \/ Player!TailError(type)
          PROVE  PlayerInv'
      BY <2>4, FatalErrorFine, TailErrorFine
    <2>5. ASSUME NEW level, Player!LevelSwitching(level)
          PROVE  PlayerInv'
      BY <2>5, LevelSwitchingFine
    <2> QED  BY <1>1, <2>1, <2>2, <2>3, <2>4, <2>5 DEF Player!Events
  <1>2. CASE Player!User
    <2>1. ASSUME NEW p \in Player!Position, NEW buffered, Player!Seek(p, buffered)
          PROVE  PlayerInv'
      <3>1. p # Nowhere
        BY PlayerAssumption DEF Player!Position, Nowhere
      <3> QED  BY <2>1, <3>1, SeekEventFine
    <2>2. ASSUME NEW select, Player!Choose(select)
          PROVE  PlayerInv'
      BY <2>2, ChooseFine
    <2> QED  BY <1>2, <2>1, <2>2 DEF Player!User
  <1>3. CASE Player!Answers
    <2>1. PICK t \in tasks :
              \/ Player!HistoryPrepared(t) \/ Player!HistoryRefused(t) \/ Player!HistoryLost(t)
              \/ Player!QualityCovers(t) \/ Player!QualityUncovered(t)
              \/ \E target \in Player!Position : Player!TailAbandoned(t, target)
              \/ Player!TailUnknown(t)
              \/ Player!Drop(t)
      BY <1>3 DEF Player!Answers
    <2>2. CASE Player!HistoryPrepared(t) \/ Player!HistoryRefused(t) \/ Player!HistoryLost(t)
      BY <2>2, HistoryPreparedFine, HistoryRefusedFine, HistoryLostFine
    <2>3. CASE Player!QualityCovers(t) \/ Player!QualityUncovered(t)
      BY <2>3, QualityCoversFine, QualityUncoveredFine
    <2>4. CASE \E target \in Player!Position : Player!TailAbandoned(t, target)
      BY <2>4, TailAbandonedFine
    <2>5. CASE Player!TailUnknown(t) \/ Player!Drop(t)
      BY <2>5, TailUnknownFine, DropFine
    <2> QED  BY <2>1, <2>2, <2>3, <2>4, <2>5
  <1>4. CASE UNCHANGED Player!vars
    <2>1. state' = state /\ from' = from
      BY <1>4 DEF Player!vars, state
    <2> QED  BY <2>1 DEF PlayerInv
  <1> QED  BY <1>1, <1>2, <1>3, <1>4 DEF Player!Next

LEMMA PlayerInvHolds == Player!Spec => []PlayerInv
  <1>1. Player!Init => PlayerInv
    BY PlayerStarts
  <1>2. PlayerInv /\ [Player!Next]_(Player!vars) => PlayerInv'
    BY PlayerStep
  <1> QED  BY <1>1, <1>2, PTL DEF Player!Spec

\* A player does not stall by itself, however errors, seeks, restarts and
\* choices interleave: held buffering has somebody who resumes it, and until
\* enough is buffered something is under way or an error is shown.
THEOREM PlayerNeverStalls == Player!Spec => []PlayerGoesOn
  <1>1. PlayerInv => PlayerGoesOn
    BY DEF PlayerInv, Fine, Good, Held, Prepared, PlayerGoesOn, HoldsEnd, PlaybackIsPrepared, state
  <1> QED  BY <1>1, PlayerInvHolds, PTL

\* While no choice waits, hls.js plays the rendition the control shows,
\* whatever answers come late and whatever restarts come between.
THEOREM PlayedIsShown == Player!Spec => []ShownIsPlayed
  <1>1. PlayerInv => ShownIsPlayed
    BY DEF PlayerInv, Fine, Good, Shows, ShownIsPlayed, state
  <1> QED  BY <1>1, PlayerInvHolds, PTL

\* Only the last seek's history is loaded.
THEOREM OnlyTheLastSeek == Player!Spec => HistoryFollowsSeeks
  <1>1. ASSUME PlayerInv, [Player!Next]_(Player!vars)
        PROVE  [~player.boot => from' = player.position]_from
    <2>1. ASSUME NEW t \in tasks, Player!HistoryPrepared(t), ~player.boot
          PROVE  from' = player.position
      <3>1. from' = t.position /\ AwaitsHistory(state, t) /\ ~player.failed
        BY <2>1, SameNames DEF Player!HistoryPrepared, Player!Ends
      <3>2. Follows(state)
        BY <1>1, <3>1 DEF PlayerInv, Fine, Good, state
      <3> QED  BY <2>1, <3>1, <3>2 DEF Follows, AwaitsHistory, state
    <2>2. from' = from \/ \E t \in tasks : Player!HistoryPrepared(t)
      <3>1. CASE Player!Events
        BY <3>1 DEF Player!Events, Player!ManifestParsed, Player!BufferCreated, Player!CanPlay,
           Player!Flushed, Player!Waiting, Player!MissingVideo, Player!BufferAppended,
           Player!FragBuffered, Player!Error, Player!FatalError, Player!TailError,
           Player!LevelSwitching
      <3>2. CASE Player!User
        BY <3>2 DEF Player!User, Player!Seek, Player!Choose
      <3>3. CASE Player!Answers
        BY <3>3 DEF Player!Answers, Player!HistoryRefused, Player!HistoryLost,
           Player!QualityCovers, Player!QualityUncovered, Player!TailAbandoned,
           Player!TailUnknown, Player!Drop
      <3>4. CASE UNCHANGED Player!vars
        BY <3>4 DEF Player!vars
      <3> QED  BY <1>1, <3>1, <3>2, <3>3, <3>4 DEF Player!Next
    <2> QED  BY <2>1, <2>2
  <1> QED  BY <1>1, PlayerInvHolds, PTL DEF Player!Spec, HistoryFollowsSeeks
=============================================================================
