----------------------------- MODULE MediaKept -----------------------------
(***************************************************************************)
(* What the byte ranges of a media file (MediaRanges) owe those who read   *)
(* them.                                                                   *)
(***************************************************************************)
EXTENDS Integers

VARIABLES
    media,     \* MediaState of the file; generation 0: there is none
    flights,   \* pending_ranges: generation and id of the load of a window, id 0: none
    producers, \* the tasks that load windows
    scope_latest, \* RetrieveCancelScope.latest of the file
    task,      \* requests and prefetchers
    loaded,    \* bytes handed to readers of the current generation (history)
    wronged    \* a reader of the current generation was told it is stale (history)
-----------------------------------------------------------------------------
(* Properties. *)

\* What lies between the anchor of playback and the high water has been
\* handed to readers of this generation: prefetching leaves no hole behind
\* itself, whatever order windows arrive in and whichever fail.
HighWaterIsLoaded == media.anchor # -1 => media.anchor..media.high \subseteq loaded

\* Nobody whose generation is the current one is rejected as stale or loses
\* its load to another generation, also after the counter wrapped.
CurrentIsServed == ~wronged

\* A load of the current generation is not cancelled by loads of older ones
\* that reach the registry after it.
CurrentIsNotCancelled ==
    \A p \in producers :
        p.registered /\ p.generation = media.generation => scope_latest = p.generation

\* Who waits for a load waits for the one that holds its window and is
\* still running: a load that is replaced, or of an earlier id, tells nobody.
WaitersHaveALoad ==
    \A t \in DOMAIN task, w \in DOMAIN flights :
        task[t].on[w] # 0 =>
            /\ flights[w].id = task[t].on[w]
            /\ \E p \in producers : p.window = w /\ p.id = flights[w].id

\* A reader of the current generation gets its windows: it is not taken for
\* stale, and what it waits for is under way and not cancelled for older work.
ReadersAreServed == CurrentIsServed /\ CurrentIsNotCancelled /\ WaitersHaveALoad

\* After a batch read in full the next one begins elsewhere, so that no
\* prefetcher reads the same windows over and over.  It does while the first
\* byte of the file is missing and what follows it is loaded, for then
\* mark_complete has nothing to join: that case is left out.
PrefetchAdvances ==
    [][\A p \in DOMAIN task :
          task[p].pc = "batch" /\ task'[p].pc = "read" /\ media'.high # -1
              => media'.high + 1 # task[p].start]_task
=============================================================================
