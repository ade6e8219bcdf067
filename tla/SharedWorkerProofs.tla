------------------------- MODULE SharedWorkerProofs -------------------------
(***************************************************************************)
(* Proofs that no transfer loses the network it runs on, that the windows, *)
(* worker.js and the runtime agree on the network when all is said, and    *)
(* that the one stream is played for the window that shows it, for any     *)
(* number of windows, networks, starts and streams; and that the service   *)
(* worker relays every request once at most, past all of that.             *)
(***************************************************************************)
EXTENDS SharedWorker, RelayedRequest, TLAPS

(* What the variables and the messages are.                                *)
Calls == [id : Nat, network : Network]
Pages == [here : BOOLEAN, network : Network, configured : BOOLEAN,
          starting : Calls \cup {None}, view : Nat, pending : Attempts \cup {None},
          active : Actives \cup {None}, awaiting : SUBSET Attempts]

Asked ==
    [type : {"start", "fetch"}, id : Nat, network : Network]
    \cup [type : {"close"}]
    \cup [type : {"prepare", "abandon"}, attempt : Nat, network : Network]
    \cup [type : {"release"}, session : Nat, network : Network]
Told ==
    [type : {"started"}, id : Nat, ok : BOOLEAN, network : Network]
    \cup [type : {"changed"}, network : Network]
    \cup [type : {"prepared"}, attempt : Nat, ok : BOOLEAN, network : Network, session : Nat]
    \cup [type : {"replaced"}, attempt : Nat]

Workers == [network : Network \cup {None}, lease : Leases \cup {None}, clients : SUBSET Tab,
            start : Starts \cup {None}, failed : BOOLEAN, transfers : SUBSET Calls]
Rusts == [network : Network \cup {None}, view : Nat, session : Nat,
          key : (Tab \X Nat) \cup {None}, unsettled : BOOLEAN, switching : BOOLEAN]

TypeInv ==
    /\ page \in [Tab -> Pages]
    /\ toWorker \in [Tab -> Seq(Asked)] /\ toPage \in [Tab -> Seq(Told)]
    /\ worker \in Workers /\ rust \in Rusts
    /\ prepares \in SUBSET [lease : Leases, network : Network, view : Nat]
    /\ acts \in Nat

(* A start is performed from the network the runtime is on.  Until it is   *)
(* on the other one no transfer runs, and nothing but a start moves it; one *)
(* that failed has not moved it.                                           *)
NetworkInv ==
    /\ ~Performing => worker.network = rust.network /\ ~rust.switching
    /\ Performing =>
          /\ worker.network = Target
          /\ worker.start.previous = rust.network
          /\ rust.network # Target => worker.transfers = {}
    /\ rust.switching => rust.network # Target
    /\ worker.failed => Performing /\ rust.network # Target /\ ~rust.switching
    /\ \A x \in worker.transfers : x.network = rust.network

(* A message that tells its window a network, and the last word of those   *)
(* still on their way.  With no notice of a change among them, a window    *)
(* that was told a network knows the right one.                            *)
Says(m) == m.type = "changed" \/ (m.type = "started" /\ m.ok)
NoChangeAfter(s, i) == \A j \in 1..Len(s) : i < j => s[j].type # "changed"
Current(s, n) ==
    \A i \in 1..Len(s) : Says(s[i]) /\ NoChangeAfter(s, i) => s[i].network = n

Informed(t) ==
    /\ Current(toPage[t], rust.network)
    /\ page[t].configured /\ NoChangeAfter(toPage[t], 0) => page[t].network = rust.network

WindowInv ==
    /\ \A t \in worker.clients : Informed(t)
    /\ \A t \in Tab : ~page[t].here => ~page[t].configured

SharedInv == NetworkInv /\ WindowInv

-----------------------------------------------------------------------------
(* What most steps leave alone, of the network and of what windows know.   *)
NetworkKept ==
    /\ rust'.network = rust.network /\ rust'.switching = rust.switching
    /\ worker'.network = worker.network /\ worker'.start = worker.start
    /\ worker'.failed = worker.failed /\ worker'.transfers \subseteq worker.transfers

Unchanged(t) ==
    /\ page'[t].network = page[t].network
    /\ page'[t].configured => page[t].configured
SaysNothing(t) ==
    \/ toPage'[t] = toPage[t]
    \/ \E m \in Told : ~Says(m) /\ toPage'[t] = Append(toPage[t], m)

LEMMA KeptNetwork ==
    ASSUME NetworkInv, NetworkKept
    PROVE  NetworkInv'
  BY DEF NetworkInv, NetworkKept, Performing, Target

LEMMA KeptInformed ==
    ASSUME TypeInv, NEW t \in Tab, Informed(t), Unchanged(t), SaysNothing(t),
           rust'.network = rust.network
    PROVE  Informed(t)'
  <1>1. toPage[t] \in Seq(Told)
    BY DEF TypeInv
  <1>2. CASE toPage'[t] = toPage[t]
    BY <1>2 DEF Informed, Current, NoChangeAfter, Unchanged
  <1>3. CASE \E m \in Told : ~Says(m) /\ toPage'[t] = Append(toPage[t], m)
    <2>1. PICK m \in Told : ~Says(m) /\ toPage'[t] = Append(toPage[t], m)
      BY <1>3
    <2>2. /\ Len(toPage'[t]) = Len(toPage[t]) + 1 /\ Len(toPage[t]) \in Nat
          /\ \A i \in 1..Len(toPage[t]) : toPage'[t][i] = toPage[t][i]
          /\ toPage'[t][Len(toPage[t]) + 1] = m
      BY <1>1, <2>1
    <2>3. \A i \in 0..Len(toPage[t]) : NoChangeAfter(toPage'[t], i) => NoChangeAfter(toPage[t], i)
      BY <2>2 DEF NoChangeAfter
    <2>4. Current(toPage'[t], rust'.network)
      <3> SUFFICES ASSUME NEW i \in 1..Len(toPage'[t]),
                          Says(toPage'[t][i]), NoChangeAfter(toPage'[t], i)
                   PROVE  toPage'[t][i].network = rust.network
        BY DEF Current
      <3>1. i \in 1..Len(toPage[t])
        BY <2>1, <2>2
      <3> QED  BY <3>1, <2>2, <2>3 DEF Informed, Current
    <2>5. page'[t].configured /\ NoChangeAfter(toPage'[t], 0) => page'[t].network = rust'.network
      BY <2>2, <2>3 DEF Informed, Unchanged
    <2> QED  BY <2>4, <2>5 DEF Informed
  <1> QED  BY <1>2, <1>3 DEF SaysNothing

(* Ending a stream changes nothing of the runtime's network.               *)
SameRuntime(r) == r.network = rust.network /\ r.switching = rust.switching

LEMMA EndedFacts ==
    ASSUME TypeInv, NEW n, NEW session, NEW key
    PROVE  /\ hls_control_release(n, session) \in Rusts
           /\ SameRuntime(hls_control_release(n, session))
           /\ cancel_hls_prepare(n, key) \in Rusts
           /\ SameRuntime(cancel_hls_prepare(n, key))
  <1>1. rust \in Rusts
    BY DEF TypeInv
  <1>2. PICK e \in {Ended(rust)} : e = Ended(rust)
    OBVIOUS
  <1>3. e \in Rusts /\ SameRuntime(e)
    BY <1>1, <1>2 DEF Ended, Rusts, SameRuntime
  <1>4. PICK f \in {[Ended(rust) EXCEPT !.view = @ + 1]} : f = [e EXCEPT !.view = @ + 1]
    BY <1>2
  <1>5. f \in Rusts /\ SameRuntime(f)
    BY <1>3, <1>4 DEF Rusts, SameRuntime
  <1> QED
    BY <1>1, <1>2, <1>3, <1>4, <1>5 DEF hls_control_release, cancel_hls_prepare, SameRuntime

LEMMA CancelFacts ==
    ASSUME TypeInv, NEW lease
    PROVE  cancelHlsLease(lease) \in Rusts /\ SameRuntime(cancelHlsLease(lease))
  BY EndedFacts DEF cancelHlsLease

LEMMA SendFacts ==
    ASSUME TypeInv, NEW t \in Tab, NEW m \in Told
    PROVE  /\ Send(t, m) \in [Tab -> Seq(Told)]
           /\ \A u \in Tab : Send(t, m)[u] = toPage[u] \/ Send(t, m)[u] = Append(toPage[u], m)
  BY DEF Send, TypeInv

LEMMA SendQuiet ==
    ASSUME TypeInv, NEW t \in Tab, NEW m \in Told, ~Says(m), toPage' = Send(t, m)
    PROVE  toPage' \in [Tab -> Seq(Told)] /\ \A u \in Tab : SaysNothing(u)
  BY SendFacts DEF SaysNothing

-----------------------------------------------------------------------------
(* What a window does by itself: it sends messages and keeps its network.  *)
KeepsWindow(t, new) ==
    /\ new \in Pages /\ page' = [page EXCEPT ![t] = new]
    /\ new.network = page[t].network
    /\ \/ new.configured = FALSE
       \/ new.configured = page[t].configured /\ new.here = page[t].here

LEMMA PostFacts ==
    ASSUME TypeInv, NEW t \in Tab, NEW sent \in Seq(Asked), Post(t, sent)
    PROVE  toWorker' \in [Tab -> Seq(Asked)]
  BY DEF Post, TypeInv

LEMMA ReleaseFacts ==
    ASSUME NEW p \in Pages, NEW v \in Nat
    PROVE  /\ release_hls_matching(p, v) \in Pages
           /\ release_hls_matching(p, v).network = p.network
           /\ release_hls_matching(p, v).configured = p.configured
           /\ release_hls_matching(p, v).here = p.here
           /\ release_hls_matching(p, v).view = p.view
           /\ release_hls_matching(p, v).awaiting = p.awaiting
           /\ Released(p, v) \in Seq(Asked)
  <1>1. PICK r \in {release_hls_matching(p, v)} : r = release_hls_matching(p, v)
    OBVIOUS
  <1>2. /\ r \in Pages
        /\ r.network = p.network /\ r.configured = p.configured /\ r.here = p.here
        /\ r.view = p.view /\ r.awaiting = p.awaiting
    BY <1>1 DEF release_hls_matching, Matches, Pages
  <1>3. p.active # None =>
           <<[type |-> "release", session |-> p.active.session, network |-> p.active.network]>> \in Seq(Asked)
    BY DEF Pages, Actives, Asked
  <1>4. p.pending # None => <<Abandon(p.pending)>> \in Seq(Asked)
    BY DEF Pages, Attempts, Asked, Abandon
  <1>5. Released(p, v) \in Seq(Asked)
    <2> DEFINE one == <<[type |-> "release", session |-> p.active.session, network |-> p.active.network]>>
               two == <<Abandon(p.pending)>>
    <2>1. Released(p, v) = (IF Matches(p, v).active THEN one ELSE <<>>)
                           \o (IF Matches(p, v).pending THEN two ELSE <<>>)
      BY DEF Released
    <2>2. (Matches(p, v).active => one \in Seq(Asked)) /\ (Matches(p, v).pending => two \in Seq(Asked))
      BY <1>3, <1>4 DEF Matches
    <2> HIDE DEF one, two
    <2> QED  BY <2>1, <2>2
  <1> QED  BY <1>1, <1>2, <1>5

LEMMA WindowEffect ==
    ASSUME TypeInv, NEW t \in Tab, Window(t)
    PROVE  /\ \E new \in Pages : KeepsWindow(t, new)
           /\ toWorker' \in [Tab -> Seq(Asked)] /\ acts' \in Nat
           /\ UNCHANGED <<toPage, worker, prepares, rust>>
  <1>1. /\ page \in [Tab -> Pages] /\ page[t] \in Pages /\ acts \in Nat
        /\ toWorker \in [Tab -> Seq(Asked)]
    BY DEF TypeInv
  <1>2. ASSUME NEW n \in Network, Start(t, n)
        PROVE  (\E new \in Pages : KeepsWindow(t, new)) /\ toWorker' \in [Tab -> Seq(Asked)]
    <2>1. PICK start \in Calls : start = [id |-> acts, network |-> n]
      BY <1>1 DEF Calls
    <2>2. PICK new \in {[page[t] EXCEPT !.starting = start]} : page' = [page EXCEPT ![t] = new]
      BY <1>1, <1>2, <2>1 DEF Start
    <2>3. new \in Pages /\ KeepsWindow(t, new)
      BY <1>1, <2>2, <2>1 DEF KeepsWindow, Pages
    <2>4. <<[type |-> "start", id |-> acts, network |-> n]>> \in Seq(Asked)
      BY <1>1 DEF Asked
    <2> QED  BY <1>2, <2>3, <2>4, PostFacts DEF Start
  <1>3. ASSUME StartTimeout(t)
        PROVE  (\E new \in Pages : KeepsWindow(t, new)) /\ toWorker' \in [Tab -> Seq(Asked)]
    <2>1. PICK new \in {[page[t] EXCEPT !.starting = None]} : page' = [page EXCEPT ![t] = new]
      BY <1>1, <1>3 DEF StartTimeout
    <2>2. new \in Pages /\ KeepsWindow(t, new)
      BY <1>1, <2>1 DEF KeepsWindow, Pages
    <2> QED  BY <1>1, <1>3, <2>2 DEF StartTimeout
  <1>4. ASSUME Fetch(t)
        PROVE  (\E new \in Pages : KeepsWindow(t, new)) /\ toWorker' \in [Tab -> Seq(Asked)]
    <2>1. page' = [page EXCEPT ![t] = page[t]]
      BY <1>1, <1>4 DEF Fetch
    <2>2. <<[type |-> "fetch", id |-> acts, network |-> page[t].network]>> \in Seq(Asked)
      BY <1>1 DEF Asked, Pages
    <2> QED  BY <1>1, <1>4, <2>1, <2>2, PostFacts DEF Fetch, KeepsWindow
  <1>5. ASSUME Hide(t)
        PROVE  (\E new \in Pages : KeepsWindow(t, new)) /\ toWorker' \in [Tab -> Seq(Asked)]
    <2>1. PICK new \in {[NoPage EXCEPT !.here = FALSE, !.network = page[t].network, !.view = page[t].view]} :
             page' = [page EXCEPT ![t] = new]
      BY <1>5 DEF Hide
    <2>2. new \in Pages /\ KeepsWindow(t, new)
      BY <1>1, <2>1 DEF KeepsWindow, Pages, NoPage
    <2>3. <<[type |-> "close"]>> \in Seq(Asked)
      BY DEF Asked
    <2> QED  BY <1>5, <2>2, <2>3, PostFacts DEF Hide
  <1>6. ASSUME OpenHls(t)
        PROVE  (\E new \in Pages : KeepsWindow(t, new)) /\ toWorker' \in [Tab -> Seq(Asked)]
    <2>1. PICK view \in Nat : view = page[t].view + 1
      BY <1>1 DEF Pages
    <2>2. PICK attempt \in Attempts : attempt = Attempt(view, page[t].network)
      BY <1>1 DEF Attempt, Attempts, Pages
    <2>3. view = page[t].view + 1 /\ attempt = Attempt(view, page[t].network)
      BY <2>1, <2>2
    <2> DEFINE m == [type |-> "prepare", attempt |-> view, network |-> page[t].network]
    <2>4. m \in Asked
      BY <1>1 DEF Pages, Asked
    <2>5. PICK r \in Pages : /\ r = release_hls_matching(page[t], 0)
                             /\ r.network = page[t].network /\ r.configured = page[t].configured
                             /\ r.here = page[t].here
      BY <1>1, ReleaseFacts
    <2>6. PICK new \in {[r EXCEPT !.view = view, !.pending = attempt, !.awaiting = @ \cup {attempt}]} :
             page' = [page EXCEPT ![t] = new]
      BY <1>6, <2>3, <2>5 DEF OpenHls
    <2>7. r.awaiting \cup {attempt} \in SUBSET Attempts
      BY <2>5, <2>2 DEF Pages
    <2>8. new \in Pages /\ new.network = r.network /\ new.configured = r.configured /\ new.here = r.here
      BY <2>5, <2>6, <2>7 DEF Pages
    <2>9. new \in Pages /\ KeepsWindow(t, new)
      BY <2>5, <2>6, <2>8 DEF KeepsWindow
    <2>10. Post(t, Released(page[t], 0) \o <<m>>)
      BY <1>6, <2>3 DEF OpenHls
    <2>11. Released(page[t], 0) \in Seq(Asked)
      BY <1>1, ReleaseFacts, 0 \in Nat
    <2>12. Released(page[t], 0) \in Seq(Asked) /\ <<m>> \in Seq(Asked)
      BY <2>4, <2>11
    <2> HIDE DEF m
    <2>13. Released(page[t], 0) \o <<m>> \in Seq(Asked)
      BY <2>12
    <2> QED  BY <2>9, <2>10, <2>13, PostFacts
  <1>7. ASSUME Supersede(t)
        PROVE  (\E new \in Pages : KeepsWindow(t, new)) /\ toWorker' \in [Tab -> Seq(Asked)]
    <2>1. PICK view \in Nat : view = page[t].view + 1
      BY <1>1 DEF Pages
    <2>2. PICK new \in {[page[t] EXCEPT !.view = view]} : page' = [page EXCEPT ![t] = new]
      BY <1>1, <1>7, <2>1 DEF Supersede
    <2>3. /\ new \in Pages /\ new.network = page[t].network
          /\ new.configured = page[t].configured /\ new.here = page[t].here
      BY <1>1, <2>2 DEF Pages
    <2>4. KeepsWindow(t, new)
      BY <2>2, <2>3 DEF KeepsWindow
    <2> QED  BY <1>1, <1>7, <2>3, <2>4 DEF Supersede
  <1>8. ASSUME ReleaseView(t)
        PROVE  (\E new \in Pages : KeepsWindow(t, new)) /\ toWorker' \in [Tab -> Seq(Asked)]
    <2>1. page' = [page EXCEPT ![t] = release_hls_matching(page[t], 0)]
      BY <1>1, <1>8 DEF ReleaseView
    <2>2. PICK r \in Pages : /\ r = release_hls_matching(page[t], 0)
                             /\ r.network = page[t].network /\ r.configured = page[t].configured
                             /\ r.here = page[t].here
      BY <1>1, ReleaseFacts
    <2>3. r \in Pages /\ KeepsWindow(t, r)
      BY <2>1, <2>2 DEF KeepsWindow
    <2>4. Released(page[t], 0) \in Seq(Asked) /\ Post(t, Released(page[t], 0))
      BY <1>1, <1>8, ReleaseFacts DEF ReleaseView
    <2> QED  BY <2>3, <2>4, PostFacts
  <1>9. ASSUME PrepareTimeout(t)
        PROVE  (\E new \in Pages : KeepsWindow(t, new)) /\ toWorker' \in [Tab -> Seq(Asked)]
    <2>1. PICK a \in page[t].awaiting :
             /\ page' = [page EXCEPT ![t] = [release_hls_matching(page[t], a.view) EXCEPT !.awaiting = @ \ {a}]]
             /\ Post(t, Released(page[t], a.view))
      BY <1>9 DEF PrepareTimeout
    <2>2. a.view \in Nat
      BY <1>1 DEF Pages, Attempts
    <2>3. PICK r \in Pages : /\ r = release_hls_matching(page[t], a.view)
                             /\ r.network = page[t].network /\ r.configured = page[t].configured
                             /\ r.here = page[t].here
      BY <1>1, <2>2, ReleaseFacts
    <2>4. PICK new \in {[r EXCEPT !.awaiting = @ \ {a}]} : page' = [page EXCEPT ![t] = new]
      BY <1>1, <2>1, <2>3
    <2>5. new \in Pages /\ KeepsWindow(t, new)
      BY <2>3, <2>4 DEF KeepsWindow, Pages
    <2> QED  BY <1>1, <2>1, <2>2, <2>5, ReleaseFacts, PostFacts
  <1>10. acts' \in Nat /\ UNCHANGED <<toPage, worker, prepares, rust>>
    <2>1. ASSUME NEW n \in Network, Start(t, n)
          PROVE  acts' \in Nat /\ UNCHANGED <<toPage, worker, prepares, rust>>
      BY <1>1, <2>1 DEF Act, Start
    <2>2. CASE StartTimeout(t) \/ Fetch(t)
      BY <1>1, <2>2 DEF Act, StartTimeout, Fetch
    <2>3. CASE Hide(t)
      BY <1>1, <2>3 DEF Act, Hide
    <2>4. CASE OpenHls(t)
      BY <1>1, <2>4 DEF Act, OpenHls
    <2>5. CASE Supersede(t) \/ ReleaseView(t)
      BY <1>1, <2>5 DEF Act, Supersede, ReleaseView
    <2>6. CASE PrepareTimeout(t)
      BY <1>1, <2>6 DEF Act, PrepareTimeout
    <2> QED  BY <2>1, <2>4, <2>5, <2>6, <2>2, <2>3 DEF Window
  <1> QED
    BY <1>2, <1>3, <1>4, <1>5, <1>6, <1>7, <1>8, <1>9, <1>10 DEF Window

(* What a window does with an answer or a notice: none but an answer to    *)
(* its start and a notice of a change tells it a network.                  *)
Learns(t, new) ==
    LET m == Head(toPage[t])
    IN  /\ new \in Pages /\ page' = [page EXCEPT ![t] = new]
        /\ new.here = page[t].here
        /\ ~page[t].here => new = page[t]
        /\ m.type # "changed" =>
              \/ new.network = page[t].network /\ new.configured = page[t].configured
              \/ Says(m) /\ new.network = m.network
        /\ m.type = "changed" /\ page[t].here => new.network = m.network

LEMMA DeliverEffect ==
    ASSUME TypeInv, NEW t \in Tab, Deliver(t)
    PROVE  /\ \E new \in Pages : Learns(t, new)
           /\ toPage[t] # <<>> /\ toPage' = [toPage EXCEPT ![t] = Tail(@)]
           /\ toWorker' \in [Tab -> Seq(Asked)]
           /\ UNCHANGED <<worker, prepares, rust, acts>>
  <1>1. /\ page \in [Tab -> Pages] /\ page[t] \in Pages
        /\ toWorker \in [Tab -> Seq(Asked)] /\ toPage[t] \in Seq(Told)
    BY DEF TypeInv
  <1>2. toPage[t] # <<>> /\ toPage' = [toPage EXCEPT ![t] = Tail(@)]
        /\ UNCHANGED <<worker, prepares, rust, acts>>
    BY DEF Deliver
  <1>3. PICK m \in Told : m = Head(toPage[t])
    BY <1>1, <1>2
  <1>4. CASE ~page[t].here
    <2>1. UNCHANGED <<page, toWorker>>
      BY <1>4 DEF Deliver
    <2>2. page' = [page EXCEPT ![t] = page[t]]
      BY <1>1, <2>1
    <2> QED  BY <1>1, <1>2, <1>4, <2>1, <2>2 DEF Learns
  <1>5. CASE page[t].here /\ m.type = "started"
    <2>1. Started(t, m) /\ UNCHANGED toWorker
      BY <1>3, <1>5 DEF Deliver
    <2>2. m.network \in Network /\ m.ok \in BOOLEAN
      BY <1>5 DEF Told
    <2>3. CASE page[t].starting = None \/ page[t].starting.id # m.id
      <3>1. page' = [page EXCEPT ![t] = page[t]]
        BY <1>1, <2>1, <2>3 DEF Started
      <3> QED  BY <1>1, <1>2, <1>3, <1>5, <2>1, <3>1 DEF Learns
    <2>4. CASE ~(page[t].starting = None \/ page[t].starting.id # m.id) /\ m.ok
      <3>1. PICK new \in {[page[t] EXCEPT !.starting = None, !.network = m.network, !.configured = TRUE]} :
               page' = [page EXCEPT ![t] = new]
        BY <1>1, <2>1, <2>4 DEF Started
      <3>2. new \in Pages /\ new.here = page[t].here /\ new.network = m.network
        BY <1>1, <2>2, <3>1 DEF Pages
      <3> QED  BY <1>1, <1>2, <1>3, <1>5, <2>1, <2>4, <3>1, <3>2 DEF Learns, Says
    <2>5. CASE ~(page[t].starting = None \/ page[t].starting.id # m.id) /\ ~m.ok
      <3>3. PICK configured \in {page[t].configured \/ m.ok} : configured = (page[t].configured \/ m.ok)
        OBVIOUS
      <3>4. configured \in BOOLEAN /\ configured = page[t].configured
        BY <1>1, <2>2, <2>5, <3>3 DEF Pages
      <3>1. PICK new \in {[page[t] EXCEPT !.starting = None, !.network = page[t].network,
                                          !.configured = configured]} :
               page' = [page EXCEPT ![t] = new]
        BY <1>1, <2>1, <2>5, <3>3 DEF Started
      <3>2. new \in Pages /\ new.here = page[t].here /\ new.network = page[t].network
            /\ new.configured = page[t].configured
        BY <1>1, <2>2, <3>1, <3>4 DEF Pages
      <3> QED  BY <1>1, <1>2, <1>3, <1>5, <2>1, <3>1, <3>2 DEF Learns
    <2> QED  BY <2>2, <2>3, <2>4, <2>5
  <1>6. CASE page[t].here /\ m.type = "changed"
    <2>1. NetworkChanged(t, m) /\ UNCHANGED toWorker
      BY <1>3, <1>6 DEF Deliver
    <2>2. m.network \in Network
      BY <1>6 DEF Told
    <2>3. PICK new \in {[page[t] EXCEPT !.network = m.network, !.configured = TRUE]} :
             page' = [page EXCEPT ![t] = new]
      BY <1>1, <2>1 DEF NetworkChanged
    <2>4. new \in Pages /\ new.here = page[t].here /\ new.network = m.network
      BY <1>1, <2>2, <2>3 DEF Pages
    <2> QED  BY <1>1, <1>2, <1>3, <1>6, <2>1, <2>3, <2>4 DEF Learns
  <1>7. CASE page[t].here /\ m.type = "prepared"
    <2> DEFINE v == m.attempt
               attempt == Attempt(v, m.network)
    <2>1. Prepared(t, m)
      BY <1>3, <1>7 DEF Deliver
    <2>2. m.attempt \in Nat /\ m.network \in Network /\ m.session \in Nat
      BY <1>7 DEF Told
    <2>3. PICK r \in {[page[t] EXCEPT !.awaiting = @ \ {attempt}]} :
             r = [page[t] EXCEPT !.awaiting = @ \ {attempt}]
      OBVIOUS
    <2>4. page[t].awaiting \ {attempt} \subseteq Attempts
      BY <1>1 DEF Pages
    <2> HIDE DEF attempt
    <2>5. /\ r \in Pages /\ r.network = page[t].network
          /\ r.configured = page[t].configured /\ r.here = page[t].here
      BY <1>1, <2>3, <2>4 DEF Pages
    <2> USE DEF attempt
    <2>6. CASE UNCHANGED <<page, toWorker>>
      <3>1. page' = [page EXCEPT ![t] = page[t]]
        BY <1>1, <2>6
      <3> QED  BY <1>1, <1>2, <1>3, <1>7, <2>6, <3>1 DEF Learns
    <2>7. CASE /\ page' = [page EXCEPT ![t] = release_hls_matching(r, v)]
               /\ Post(t, Released(page[t], v))
      BY <1>1, <1>2, <1>3, <1>7, <2>2, <2>5, <2>7, ReleaseFacts, PostFacts DEF Learns
    <2>8. CASE page' = [page EXCEPT ![t] = r] /\ Post(t, <<Abandon(attempt)>>)
      <3>1. <<Abandon(attempt)>> \in Seq(Asked)
        BY <2>2 DEF Abandon, Attempt, Asked
      <3> QED  BY <1>1, <1>2, <1>3, <1>7, <2>5, <2>8, <3>1, PostFacts DEF Learns
    <2>9. CASE /\ page' = [page EXCEPT ![t] = [r EXCEPT !.pending = None,
                     !.active = [view |-> v, session |-> m.session, network |-> m.network]]]
               /\ UNCHANGED toWorker
      <3>0. PICK active \in Actives :
               active = [view |-> v, session |-> m.session, network |-> m.network]
        BY <2>2 DEF Actives
      <3>1. PICK new \in {[r EXCEPT !.pending = None, !.active = active]} :
               page' = [page EXCEPT ![t] = new]
        BY <2>9, <3>0
      <3>2. new \in Pages /\ new.network = page[t].network /\ new.configured = page[t].configured
            /\ new.here = page[t].here
        BY <2>5, <3>1 DEF Pages
      <3> QED  BY <1>1, <1>2, <1>3, <1>7, <2>9, <3>1, <3>2 DEF Learns
    <2> QED  BY <2>1, <2>5, <2>6, <2>7, <2>8, <2>9 DEF Prepared
  <1>8. CASE page[t].here /\ m.type = "replaced"
    <2>1. Replaced(t, m)
      BY <1>3, <1>8 DEF Deliver
    <2>2. m.attempt \in Nat
      BY <1>8 DEF Told
    <2>3. PICK r \in Pages : /\ r = release_hls_matching(page[t], m.attempt)
                             /\ r.network = page[t].network /\ r.configured = page[t].configured
                             /\ r.here = page[t].here
      BY <1>1, <2>2, ReleaseFacts
    <2>4. PICK new \in {[r EXCEPT !.view =
                           IF @ = m.attempt /\ Released(page[t], m.attempt) # <<>> THEN @ + 1 ELSE @]} :
             page' = [page EXCEPT ![t] = new]
      BY <1>1, <2>1, <2>3 DEF Replaced
    <2>5. new \in Pages /\ new.network = page[t].network /\ new.configured = page[t].configured
          /\ new.here = page[t].here
      BY <2>3, <2>4 DEF Pages
    <2> QED  BY <1>1, <1>2, <1>3, <1>8, <2>1, <2>2, <2>4, <2>5, ReleaseFacts, PostFacts
             DEF Learns, Replaced
  <1>9. m.type \in {"started", "changed", "prepared", "replaced"}
    BY DEF Told
  <1> QED  BY <1>4, <1>5, <1>6, <1>7, <1>8, <1>9

-----------------------------------------------------------------------------
(* The steps that leave the network and what is said of it alone.          *)
StateTyped ==
    /\ toPage' \in [Tab -> Seq(Told)] /\ worker' \in Workers /\ rust' \in Rusts
    /\ prepares' \in SUBSET [lease : Leases, network : Network, view : Nat]

Calm ==
    /\ NetworkKept /\ worker'.clients \subseteq worker.clients
    /\ \A t \in Tab : SaysNothing(t)

LEMMA CalmKeeps ==
    ASSUME TypeInv, SharedInv, Calm, page' = page
    PROVE  SharedInv'
  <1>1. NetworkInv'
    BY KeptNetwork DEF SharedInv, Calm
  <1>2. ASSUME NEW t \in worker'.clients
        PROVE  Informed(t)'
    <2>1. t \in worker.clients /\ t \in Tab
      BY DEF Calm, TypeInv, Workers
    <2>2. Informed(t) /\ Unchanged(t) /\ SaysNothing(t) /\ rust'.network = rust.network
      BY <2>1 DEF SharedInv, WindowInv, Unchanged, Calm, NetworkKept
    <2> QED  BY <2>1, <2>2, KeptInformed
  <1> QED  BY <1>1, <1>2 DEF SharedInv, WindowInv

LEMMA LeaseFacts ==
    ASSUME TypeInv, NEW lease \in Leases \cup {None}
    PROVE  /\ [worker EXCEPT !.lease = lease] \in Workers
           /\ [worker EXCEPT !.lease = lease].network = worker.network
           /\ [worker EXCEPT !.lease = lease].start = worker.start
           /\ [worker EXCEPT !.lease = lease].failed = worker.failed
           /\ [worker EXCEPT !.lease = lease].transfers = worker.transfers
           /\ [worker EXCEPT !.lease = lease].clients = worker.clients
  BY DEF TypeInv, Workers

LEMMA RemoveClientCalm ==
    ASSUME TypeInv, NEW t \in Tab, removeClient(t), UNCHANGED <<toPage, prepares>>
    PROVE  StateTyped /\ Calm
  <1>1. worker \in Workers /\ rust \in Rusts
    BY DEF TypeInv
  <1>2. PICK lease \in Leases \cup {None} :
           worker' = [worker EXCEPT !.clients = @ \ {t}, !.lease = lease]
    BY <1>1 DEF removeClient, Without, Workers
  <1>3. /\ worker' \in Workers /\ worker'.network = worker.network
        /\ worker'.start = worker.start /\ worker'.failed = worker.failed
        /\ worker'.transfers = worker.transfers /\ worker'.clients \subseteq worker.clients
    BY <1>1, <1>2 DEF Workers
  <1>4. rust' \in Rusts /\ SameRuntime(rust')
    BY <1>1, CancelFacts DEF removeClient, SameRuntime
  <1>5. \A u \in Tab : SaysNothing(u)
    BY DEF SaysNothing
  <1> QED  BY <1>3, <1>4, <1>5 DEF StateTyped, Calm, NetworkKept, SameRuntime, TypeInv

LEMMA RefusedCalm ==
    ASSUME TypeInv, NEW t \in Tab, NEW m \in Asked, m.type # "start",
           Refused(t, m), UNCHANGED prepares
    PROVE  StateTyped /\ Calm
  <1>1. toPage' \in [Tab -> Seq(Told)] /\ \A u \in Tab : SaysNothing(u)
    <2>1. CASE m.type = "prepare"
      <3> DEFINE answer == [type |-> "prepared", attempt |-> m.attempt, ok |-> FALSE,
                            network |-> m.network, session |-> 0]
      <3>1. answer \in Told /\ ~Says(answer)
        BY <2>1 DEF Asked, Told, Says
      <3>2. toPage' = Send(t, answer)
        BY <2>1 DEF Refused
      <3> HIDE DEF answer
      <3> QED  BY <3>1, <3>2, SendQuiet
    <2>2. CASE m.type # "prepare"
      BY <2>2 DEF Refused, SaysNothing, TypeInv
    <2> QED  BY <2>1, <2>2
  <1> QED  BY <1>1 DEF Refused, StateTyped, Calm, NetworkKept, TypeInv

LEMMA PrepareCalm ==
    ASSUME TypeInv, NEW t \in Tab, NEW m \in Asked, m.type = "prepare", Prepare(t, m)
    PROVE  StateTyped /\ Calm
  <1>1. m.attempt \in Nat /\ m.network \in Network
    BY DEF Asked
  <1>2. PICK lease \in Leases : lease = Lease(t, m.attempt, 0)
    BY <1>1 DEF Lease, Leases
  <1>3. worker' = [worker EXCEPT !.lease = lease]
    BY <1>2 DEF Prepare
  <1>4. prepares' \in SUBSET [lease : Leases, network : Network, view : Nat]
    BY <1>1, <1>2 DEF Prepare, TypeInv
  <1>5. rust' \in Rusts /\ SameRuntime(rust')
    BY CancelFacts DEF Prepare, SameRuntime, TypeInv
  <1>6. toPage' \in [Tab -> Seq(Told)] /\ \A u \in Tab : SaysNothing(u)
    <2>1. CASE worker.lease # None /\ worker.lease.tab # t
      <3>1. worker.lease.attempt \in Nat /\ worker.lease.tab \in Tab
        BY <2>1 DEF TypeInv, Workers, Leases
      <3> DEFINE notice == [type |-> "replaced", attempt |-> worker.lease.attempt]
      <3>2. notice \in Told /\ ~Says(notice)
        BY <3>1 DEF Told, Says
      <3>3. toPage' = Send(worker.lease.tab, notice)
        BY <2>1 DEF Prepare
      <3> HIDE DEF notice
      <3> QED  BY <3>1, <3>2, <3>3, SendQuiet
    <2>2. CASE ~(worker.lease # None /\ worker.lease.tab # t)
      BY <2>2 DEF Prepare, SaysNothing, TypeInv
    <2> QED  BY <2>1, <2>2
  <1> QED
    BY <1>3, <1>4, <1>5, <1>6, LeaseFacts DEF StateTyped, Calm, NetworkKept, SameRuntime

LEMMA EndCalm ==
    ASSUME TypeInv, NEW t \in Tab, NEW m, AbandonLease(t, m) \/ Release(t, m),
           UNCHANGED <<toPage, prepares>>
    PROVE  StateTyped /\ Calm
  <1>1. worker' = worker \/ worker' = [worker EXCEPT !.lease = None]
    BY DEF AbandonLease, Release
  <1>2. /\ worker' \in Workers /\ worker'.network = worker.network
        /\ worker'.start = worker.start /\ worker'.failed = worker.failed
        /\ worker'.transfers = worker.transfers /\ worker'.clients = worker.clients
    <2>1. CASE worker' = worker
      BY <2>1 DEF TypeInv
    <2>2. CASE worker' = [worker EXCEPT !.lease = None]
      BY <2>2, LeaseFacts
    <2> QED  BY <1>1, <2>1, <2>2
  <1>3. rust' \in Rusts /\ SameRuntime(rust')
    <2>1. SameRuntime(rust) /\ rust \in Rusts
      BY DEF SameRuntime, TypeInv
    <2>2. \/ rust' = rust \/ rust' = cancelHlsLease(worker.lease)
          \/ rust' = hls_control_release(m.network, m.session)
      BY DEF AbandonLease, Release
    <2> QED  BY <2>1, <2>2, CancelFacts, EndedFacts DEF SameRuntime
  <1>4. \A u \in Tab : SaysNothing(u)
    BY DEF SaysNothing
  <1> QED  BY <1>2, <1>3, <1>4 DEF StateTyped, Calm, NetworkKept, SameRuntime, TypeInv

LEMMA PrepareAnswerFacts ==
    ASSUME TypeInv, NEW p \in prepares, NEW ok \in BOOLEAN, NEW session \in Nat
    PROVE  PrepareAnswer(p, ok, session) \in Told /\ ~Says(PrepareAnswer(p, ok, session))
  BY DEF TypeInv, Leases, PrepareAnswer, Told, Says

LEMMA PrepareBeginsCalm ==
    ASSUME TypeInv, PrepareBegins
    PROVE  StateTyped /\ Calm
  <1>1. PICK p \in prepares :
           /\ p.view = 0
           /\ IF Owns(p.lease) /\ Accepts(p.network)
              THEN /\ rust' = [rust EXCEPT !.view = @ + 1, !.session = rust.view + 1, !.key = Key(p.lease)]
                   /\ prepares' = (prepares \ {p}) \cup {[p EXCEPT !.view = rust.view + 1]}
                   /\ UNCHANGED <<worker, toPage>>
              ELSE /\ prepares' = prepares \ {p}
                   /\ worker' = [worker EXCEPT !.lease = IF Owns(p.lease) THEN None ELSE @]
                   /\ toPage' = Send(p.lease.tab, PrepareAnswer(p, FALSE, 0))
                   /\ UNCHANGED rust
    BY DEF PrepareBegins
  <1>2. /\ p \in [lease : Leases, network : Network, view : Nat]
        /\ p.lease \in Leases /\ p.lease.tab \in Tab /\ rust \in Rusts /\ worker \in Workers
    BY DEF TypeInv, Leases
  <1>3. CASE Owns(p.lease) /\ Accepts(p.network)
    <2>1. PICK key \in Tab \X Nat : key = Key(p.lease)
      BY <1>2 DEF Key, Leases
    <2>2. PICK view \in Nat : view = rust.view + 1
      BY <1>2 DEF Rusts
    <2>3. rust' = [rust EXCEPT !.view = view, !.session = view, !.key = key]
      BY <1>1, <1>3, <2>1, <2>2
    <2>4. rust' \in Rusts /\ SameRuntime(rust')
      BY <1>2, <2>1, <2>2, <2>3 DEF Rusts, SameRuntime
    <2>5. [p EXCEPT !.view = view] \in [lease : Leases, network : Network, view : Nat]
      BY <1>2, <2>2
    <2>6. prepares' \in SUBSET [lease : Leases, network : Network, view : Nat]
      BY <1>1, <1>3, <2>2, <2>5 DEF TypeInv
    <2> QED
      BY <1>1, <1>3, <2>4, <2>6 DEF StateTyped, Calm, NetworkKept, SameRuntime, SaysNothing, TypeInv
  <1>4. CASE ~(Owns(p.lease) /\ Accepts(p.network))
    <2>1. PICK lease \in Leases \cup {None} : worker' = [worker EXCEPT !.lease = lease]
      BY <1>1, <1>2, <1>4 DEF Workers
    <2>2. PICK m \in Told : m = PrepareAnswer(p, FALSE, 0) /\ ~Says(m)
      BY PrepareAnswerFacts
    <2>3. toPage' \in [Tab -> Seq(Told)] /\ \A u \in Tab : SaysNothing(u)
      BY <1>1, <1>2, <1>4, <2>2, SendQuiet
    <2> QED
      BY <1>1, <1>4, <2>1, <2>3, LeaseFacts DEF StateTyped, Calm, NetworkKept, TypeInv
  <1> QED  BY <1>3, <1>4

LEMMA PrepareReturnsCalm ==
    ASSUME TypeInv, PrepareReturns
    PROVE  StateTyped /\ Calm
  <1> DEFINE Failed(p) == [rust EXCEPT !.session = IF rust.view = p.view THEN 0 ELSE @,
                                       !.key = IF @ = Key(p.lease) THEN None ELSE @]
  <1>1. PICK p \in prepares, ok \in BOOLEAN :
           /\ prepares' = prepares \ {p}
           /\ \/ rust' = Failed(p)
              \/ rust' = rust
              \/ rust' = hls_control_release(p.network, p.view)
           /\ worker' = [worker EXCEPT !.lease =
                            IF ~Owns(p.lease) THEN @ ELSE IF ok THEN [@ EXCEPT !.session = p.view] ELSE None]
           /\ \/ toPage' = Send(p.lease.tab, PrepareAnswer(p, TRUE, p.view))
              \/ toPage' = Send(p.lease.tab, PrepareAnswer(p, FALSE, 0))
    BY DEF PrepareReturns
  <1>2. /\ p.lease.tab \in Tab /\ p.view \in Nat /\ rust \in Rusts /\ worker \in Workers
    BY DEF TypeInv, Leases
  <1>3. Failed(p) \in Rusts /\ SameRuntime(Failed(p))
    BY <1>2 DEF Rusts, SameRuntime
  <1> HIDE DEF Failed
  <1>4. rust' \in Rusts /\ SameRuntime(rust')
    BY <1>1, <1>2, <1>3, EndedFacts DEF SameRuntime
  <1>5. PICK lease \in Leases \cup {None} : worker' = [worker EXCEPT !.lease = lease]
    <2>1. Owns(p.lease) => worker.lease \in Leases
      BY <1>2 DEF Owns, Workers
    <2>2. Owns(p.lease) => [worker.lease EXCEPT !.session = p.view] \in Leases
      BY <1>2, <2>1 DEF Leases
    <2>3. worker.lease \in Leases \cup {None}
      BY <1>2 DEF Workers
    <2> QED  BY <1>1, <2>2, <2>3
  <1>6. PICK m \in Told : toPage' = Send(p.lease.tab, m) /\ ~Says(m)
    BY <1>1, <1>2, PrepareAnswerFacts
  <1>7. toPage' \in [Tab -> Seq(Told)] /\ \A u \in Tab : SaysNothing(u)
    BY <1>2, <1>6, SendQuiet
  <1> QED
    BY <1>1, <1>4, <1>5, <1>7, LeaseFacts DEF StateTyped, Calm, NetworkKept, SameRuntime, TypeInv

LEMMA TransferCalm ==
    ASSUME TypeInv, TransferEnds \/ Settle
    PROVE  StateTyped /\ Calm
  <1>1. worker \in Workers /\ rust \in Rusts
    BY DEF TypeInv
  <1>2. PICK transfers \in SUBSET worker.transfers : worker' = [worker EXCEPT !.transfers = transfers]
    <2>1. CASE TransferEnds
      BY <1>1, <2>1 DEF TransferEnds, Workers
    <2>2. CASE Settle
      <3>1. worker' = [worker EXCEPT !.transfers = worker.transfers]
        BY <1>1, <2>2 DEF Settle, Workers
      <3> QED  BY <3>1
    <2> QED  BY <2>1, <2>2
  <1>3. /\ worker' \in Workers /\ worker'.network = worker.network
        /\ worker'.start = worker.start /\ worker'.failed = worker.failed
        /\ worker'.transfers \subseteq worker.transfers /\ worker'.clients = worker.clients
    BY <1>1, <1>2 DEF Workers
  <1>4. PICK unsettled \in BOOLEAN : rust' = [rust EXCEPT !.unsettled = unsettled]
    BY <1>1 DEF TransferEnds, Settle, Rusts
  <1>5. rust' \in Rusts /\ SameRuntime(rust')
    BY <1>1, <1>4 DEF Rusts, SameRuntime
  <1>6. UNCHANGED <<toPage, prepares>>
    BY DEF TransferEnds, Settle
  <1> QED
    BY <1>3, <1>5, <1>6 DEF StateTyped, Calm, NetworkKept, SameRuntime, SaysNothing, TypeInv

-----------------------------------------------------------------------------
(* The steps that move the network, or add a transfer to it.               *)

\* The windows while the network of the runtime stays what it is.
LEMMA CalmWindows ==
    ASSUME TypeInv, WindowInv, page' = page, \A t \in Tab : SaysNothing(t),
           rust'.network = rust.network, worker'.clients \subseteq worker.clients
    PROVE  WindowInv'
  <1>1. ASSUME NEW t \in worker'.clients
        PROVE  Informed(t)'
    <2>1. t \in Tab /\ Informed(t) /\ Unchanged(t) /\ SaysNothing(t)
      BY DEF WindowInv, Unchanged, TypeInv, Workers
    <2> QED  BY <2>1, KeptInformed
  <1> QED  BY <1>1 DEF WindowInv

LEMMA RefusalFacts ==
    ASSUME NEW m \in [type : {"start"}, id : Nat, network : Network]
    PROVE  StartAnswer(m, FALSE) \in Told /\ ~Says(StartAnswer(m, FALSE))
  <1>1. PICK answer \in {StartAnswer(m, FALSE)} :
           answer = [type |-> "started", id |-> m.id, ok |-> FALSE, network |-> m.network]
    BY DEF StartAnswer
  <1>2. answer.type = "started" /\ answer.ok = FALSE
    BY <1>1
  <1>3. answer \in Told
    BY <1>1 DEF Told
  <1>4. ~Says(answer)
    BY <1>2 DEF Says
  <1> QED  BY <1>3, <1>4

LEMMA PerformStartKeeps ==
    ASSUME TypeInv, SharedInv, NEW t \in Tab, NEW m \in Asked, m.type = "start",
           ~Performing, performStart(t, m), UNCHANGED <<page, prepares>>
    PROVE  StateTyped /\ SharedInv'
  <1>1. /\ worker \in Workers /\ rust \in Rusts
        /\ m \in [type : {"start"}, id : Nat, network : Network]
    BY DEF TypeInv, Asked
  <1>2. CASE Switches(m.network) /\ Refuses(t)
    <2>1. PICK answer \in Told : answer = StartAnswer(m, FALSE) /\ ~Says(answer)
      BY <1>1, RefusalFacts
    <2>2. toPage' = Send(t, answer) /\ UNCHANGED <<worker, rust>>
      BY <1>2, <2>1 DEF performStart
    <2>3. toPage' \in [Tab -> Seq(Told)] /\ \A u \in Tab : SaysNothing(u)
      BY <2>1, <2>2, SendQuiet
    <2>4. StateTyped /\ Calm
      BY <2>2, <2>3 DEF StateTyped, Calm, NetworkKept, TypeInv
    <2> QED  BY <2>4, CalmKeeps
  <1>3. CASE ~(Switches(m.network) /\ Refuses(t))
    <2>1. PICK lease \in Leases \cup {None} :
             lease = IF Switches(m.network) THEN None ELSE worker.lease
      BY <1>1 DEF Workers
    <2>2. PICK start \in Starts :
             start = [tab |-> t, message |-> m, previous |-> worker.network]
      BY <1>1 DEF Starts, Workers
    <2>3. worker' = [worker EXCEPT !.lease = lease, !.network = m.network, !.start = start]
      BY <1>3, <2>1, <2>2 DEF performStart
    <2>4. /\ worker' \in Workers /\ worker'.network = m.network /\ worker'.start = start
          /\ worker'.failed = worker.failed
          /\ worker'.transfers = worker.transfers /\ worker'.clients = worker.clients
      BY <1>1, <2>1, <2>2, <2>3 DEF Workers
    <2>5. rust' \in Rusts /\ SameRuntime(rust') /\ UNCHANGED toPage
      <3>1. UNCHANGED toPage /\ \E old : rust' = rust \/ rust' = cancelHlsLease(old)
        BY <1>3 DEF performStart
      <3> QED  BY <1>1, <3>1, CancelFacts DEF SameRuntime
    <2>6. start # None /\ start.message = m /\ start.previous = worker.network
      BY <2>2, SharedAssumption DEF Starts
    <2>7. worker.network = rust.network /\ ~rust.switching
      BY DEF SharedInv, NetworkInv
    <2>8. rust.network # m.network => worker.transfers = {}
      <3>1. CASE rust.network = None
        <4>1. \A x \in worker.transfers : x.network \in Network /\ x.network = None
          BY <1>1, <3>1 DEF Workers, Calls, SharedInv, NetworkInv
        <4> QED  BY <4>1, SharedAssumption
      <3>2. CASE rust.network # None
        BY <1>3, <2>7, <3>2 DEF Switches, Refuses
      <3> QED  BY <3>1, <3>2
    <2>9. NetworkInv'
      BY <2>4, <2>5, <2>6, <2>7, <2>8
         DEF SharedInv, NetworkInv, Performing, Target, SameRuntime
    <2>10. WindowInv'
      BY <2>4, <2>5, CalmWindows DEF SharedInv, SameRuntime, SaysNothing
    <2>11. StateTyped
      BY <2>4, <2>5 DEF StateTyped, TypeInv
    <2> QED  BY <2>9, <2>10, <2>11 DEF SharedInv
  <1> QED  BY <1>2, <1>3

LEMMA StartTransferKeeps ==
    ASSUME TypeInv, SharedInv, NEW m \in Asked, m.type = "fetch", ~Performing,
           StartTransfer(m), UNCHANGED <<page, toPage, prepares>>
    PROVE  StateTyped /\ SharedInv'
  <1>1. worker \in Workers /\ m.id \in Nat /\ m.network \in Network
    BY DEF TypeInv, Asked
  <1>2. PICK call \in Calls : call = [id |-> m.id, network |-> m.network]
    BY <1>1 DEF Calls
  <1>3. call.network = m.network
    BY <1>2
  <1>4. CASE Accepts(m.network)
    <2>1. worker' = [worker EXCEPT !.transfers = @ \cup {call}] /\ UNCHANGED rust
      BY <1>2, <1>4 DEF StartTransfer
    <2>2. /\ worker' \in Workers /\ worker'.network = worker.network
          /\ worker'.start = worker.start /\ worker'.failed = worker.failed
          /\ worker'.transfers = worker.transfers \cup {call}
          /\ worker'.clients = worker.clients
      BY <1>1, <2>1 DEF Workers
    <2>3. NetworkInv'
      BY <1>3, <1>4, <2>1, <2>2 DEF SharedInv, NetworkInv, Performing, Target, Accepts
    <2>4. WindowInv'
      BY <2>1, <2>2, CalmWindows DEF SharedInv, SaysNothing
    <2> QED  BY <2>1, <2>2, <2>3, <2>4 DEF StateTyped, SharedInv, TypeInv
  <1>5. CASE ~Accepts(m.network)
    <2>1. UNCHANGED <<worker, rust>>
      BY <1>5 DEF StartTransfer
    <2>2. StateTyped /\ Calm
      BY <2>1 DEF StateTyped, Calm, NetworkKept, SaysNothing, TypeInv
    <2> QED  BY <2>2, CalmKeeps
  <1> QED  BY <1>4, <1>5

LEMMA RuntimeSwitchesKeeps ==
    ASSUME TypeInv, SharedInv, ~worker.failed, RuntimeSwitches
    PROVE  StateTyped /\ SharedInv'
  <1>1. rust \in Rusts
    BY DEF TypeInv
  <1>2. PICK view \in Nat : view = rust.view + 1
    BY <1>1 DEF Rusts
  <1>3. rust' = [rust EXCEPT !.view = view, !.session = 0, !.switching = TRUE]
    BY <1>2 DEF RuntimeSwitches
  <1>4. rust' \in Rusts /\ rust'.network = rust.network /\ rust'.switching = TRUE
    BY <1>1, <1>3 DEF Rusts
  <1>5. UNCHANGED <<page, toPage, worker, prepares>> /\ Performing /\ rust.network # Target
    BY DEF RuntimeSwitches
  <1>6. NetworkInv'
    BY <1>4, <1>5 DEF SharedInv, NetworkInv, Performing, Target
  <1>7. WindowInv'
    BY <1>4, <1>5, CalmWindows DEF SharedInv, SaysNothing
  <1> QED  BY <1>4, <1>5, <1>6, <1>7 DEF StateTyped, SharedInv, TypeInv

LEMMA StartFailsKeeps ==
    ASSUME TypeInv, SharedInv, StartFails
    PROVE  StateTyped /\ SharedInv'
  <1>1. worker \in Workers /\ worker' = [worker EXCEPT !.failed = TRUE]
        /\ UNCHANGED <<page, toPage, prepares, rust>>
    BY DEF StartFails, TypeInv
  <1>2. /\ worker' \in Workers /\ worker'.start = worker.start
        /\ worker'.network = worker.network
        /\ worker'.transfers = worker.transfers /\ worker'.clients = worker.clients
    BY <1>1 DEF Workers
  <1>3. Performing /\ rust.network # Target /\ ~rust.switching
    BY DEF StartFails
  <1>4. NetworkInv'
    BY <1>1, <1>2, <1>3 DEF SharedInv, NetworkInv, Performing, Target
  <1>5. WindowInv'
    BY <1>1, <1>2, CalmWindows DEF SharedInv, SaysNothing
  <1> QED  BY <1>1, <1>2, <1>4, <1>5 DEF StateTyped, SharedInv, TypeInv

LEMMA StartFailedKeeps ==
    ASSUME TypeInv, SharedInv, StartFailed
    PROVE  StateTyped /\ SharedInv'
  <1>1. Performing /\ ~rust.switching
    BY DEF StartFailed, SharedInv, NetworkInv
  <1>2. /\ worker \in Workers /\ worker.start \in Starts
        /\ worker.start.previous \in Network \cup {None}
        /\ worker.start.message \in [type : {"start"}, id : Nat, network : Network]
        /\ worker.start.tab \in Tab
        /\ worker' = [worker EXCEPT !.start = None, !.failed = FALSE,
                                    !.network = worker.start.previous]
        /\ UNCHANGED <<page, prepares, rust>>
    BY <1>1 DEF TypeInv, Workers, StartFailed, Performing, Starts
  <1>3. /\ worker' \in Workers /\ worker'.start = None /\ worker'.failed = FALSE
        /\ worker'.network = worker.start.previous
        /\ worker'.transfers = worker.transfers /\ worker'.clients = worker.clients
    BY <1>2 DEF Workers
  <1>4. PICK answer \in Told : answer = StartAnswer(worker.start.message, FALSE) /\ ~Says(answer)
    BY <1>2, RefusalFacts
  <1>5. toPage' = Send(worker.start.tab, answer)
    BY <1>4 DEF StartFailed
  <1>6. toPage' \in [Tab -> Seq(Told)] /\ \A u \in Tab : SaysNothing(u)
    BY <1>2, <1>4, <1>5, SendQuiet
  <1>7. NetworkInv'
    BY <1>1, <1>2, <1>3 DEF SharedInv, NetworkInv, Performing, Target
  <1>8. WindowInv'
    BY <1>2, <1>3, <1>6, CalmWindows DEF SharedInv
  <1> QED  BY <1>2, <1>3, <1>6, <1>7, <1>8 DEF StateTyped, SharedInv, TypeInv

\* One more message: a notice of the network, or an answer that says it.
LEMMA NoticeInforms ==
    ASSUME NEW s \in Seq(Told), NEW m \in Told, NEW n, m.type = "changed", m.network = n
    PROVE  Current(Append(s, m), n) /\ ~NoChangeAfter(Append(s, m), 0)
  <1>1. /\ Len(Append(s, m)) = Len(s) + 1 /\ Len(s) \in Nat
        /\ Append(s, m)[Len(s) + 1] = m
    OBVIOUS
  <1>2. \A i \in 0..Len(s) : ~NoChangeAfter(Append(s, m), i)
    BY <1>1 DEF NoChangeAfter
  <1> QED  BY <1>1, <1>2 DEF Current

LEMMA AnswerInforms ==
    ASSUME NEW s \in Seq(Told), NEW m \in Told, NEW n, m.type = "started", m.network = n,
           Current(s, n)
    PROVE  /\ Current(Append(s, m), n)
           /\ NoChangeAfter(Append(s, m), 0) <=> NoChangeAfter(s, 0)
  <1>1. /\ Len(Append(s, m)) = Len(s) + 1 /\ Len(s) \in Nat
        /\ Append(s, m)[Len(s) + 1] = m
        /\ \A i \in 1..Len(s) : Append(s, m)[i] = s[i]
    OBVIOUS
  <1>2. \A i \in 0..Len(s) : NoChangeAfter(Append(s, m), i) <=> NoChangeAfter(s, i)
    BY <1>1 DEF NoChangeAfter
  <1>3. Current(Append(s, m), n)
    <2> SUFFICES ASSUME NEW i \in 1..Len(Append(s, m)),
                        Says(Append(s, m)[i]), NoChangeAfter(Append(s, m), i)
                 PROVE  Append(s, m)[i].network = n
      BY DEF Current
    <2>1. CASE i = Len(s) + 1
      BY <1>1, <2>1
    <2>2. CASE i \in 1..Len(s)
      BY <1>1, <1>2, <2>2 DEF Current
    <2> QED  BY <1>1, <2>1, <2>2
  <1> QED  BY <1>2, <1>3

LEMMA StartSucceedsKeeps ==
    ASSUME TypeInv, SharedInv, StartSucceeds
    PROVE  StateTyped /\ SharedInv'
  <1>0. ~worker.failed
    BY DEF StartSucceeds, SharedInv, NetworkInv
  <1>1. /\ worker \in Workers /\ rust \in Rusts /\ toPage \in [Tab -> Seq(Told)]
        /\ worker.start \in Starts
        /\ worker.start.message \in [type : {"start"}, id : Nat, network : Network]
        /\ Target \in Network /\ Performing
    BY DEF TypeInv, Workers, StartSucceeds, Performing, Starts, Target
  <1>2. /\ rust' = [rust EXCEPT !.network = Target, !.switching = FALSE]
        /\ worker' = [worker EXCEPT !.start = None] /\ UNCHANGED <<page, prepares>>
    BY DEF StartSucceeds
  <1>3. rust' \in Rusts /\ rust'.network = Target /\ rust'.switching = FALSE
    BY <1>1, <1>2 DEF Rusts
  <1>4. /\ worker' \in Workers /\ worker'.start = None /\ worker'.network = worker.network
        /\ worker'.failed = worker.failed
        /\ worker'.transfers = worker.transfers /\ worker'.clients = worker.clients
    BY <1>1, <1>2 DEF Workers
  <1>5. NetworkInv'
    BY <1>0, <1>1, <1>3, <1>4 DEF SharedInv, NetworkInv, Performing, Target
  <1>6. PICK notice \in Told : notice = [type |-> "changed", network |-> Target]
    BY <1>1 DEF Told
  <1>7. PICK answer \in Told : answer = StartAnswer(worker.start.message, TRUE)
    BY <1>1 DEF StartAnswer, Told
  <1>8. /\ notice.type = "changed" /\ notice.network = Target
        /\ answer.type = "started" /\ answer.network = Target
    BY <1>6, <1>7 DEF StartAnswer, Target
  <1> DEFINE Noticed(x) == IF x \in worker.clients /\ worker.start.previous # Target
                         THEN Append(toPage[x], notice) ELSE toPage[x]
             Answered(x) == IF x = worker.start.tab THEN Append(Noticed(x), answer) ELSE Noticed(x)
  <1>9. \A x \in Tab : Noticed(x) \in Seq(Told) /\ Answered(x) \in Seq(Told)
    BY <1>1
  <1>10. toPage' = [x \in Tab |-> Answered(x)]
    <2>1. toPage' = [x \in Tab |-> toPage[x]
             \o (IF x \in worker.clients
                 THEN IF worker.start.previous = Target THEN <<>> ELSE <<notice>>
                 ELSE <<>>)
             \o (IF x = worker.start.tab THEN <<answer>> ELSE <<>>)]
      BY <1>6, <1>7 DEF StartSucceeds
    <2>2. \A s \in Seq(Told) :
             /\ s \o <<>> = s /\ s \o <<notice>> = Append(s, notice)
             /\ s \o <<answer>> = Append(s, answer)
      OBVIOUS
    <2>3. ASSUME NEW x \in Tab
          PROVE  toPage'[x] = Answered(x)
      <3>1. toPage[x] \in Seq(Told) /\ Noticed(x) \in Seq(Told)
        BY <1>1, <1>9
      <3>2. Noticed(x) = toPage[x]
             \o (IF x \in worker.clients
                 THEN IF worker.start.previous = Target THEN <<>> ELSE <<notice>>
                 ELSE <<>>)
        BY <2>2, <3>1
      <3> HIDE DEF Noticed
      <3>3. toPage'[x] = Noticed(x) \o (IF x = worker.start.tab THEN <<answer>> ELSE <<>>)
        BY <2>1, <3>2
      <3> QED  BY <2>2, <3>1, <3>3
    <2> QED  BY <2>1, <2>3
  <1>11. StateTyped
    BY <1>2, <1>3, <1>4, <1>9, <1>10 DEF StateTyped, TypeInv
  <1>12. ASSUME NEW t \in worker'.clients
         PROVE  Informed(t)'
    <2>1. t \in Tab /\ t \in worker.clients /\ Informed(t) /\ toPage[t] \in Seq(Told)
      BY <1>1, <1>4 DEF SharedInv, WindowInv, Workers
    <2>2. PICK one \in Seq(Told) : one = Noticed(t)
      BY <1>9, <2>1
    <2>3. Current(one, Target) /\ (page[t].configured /\ NoChangeAfter(one, 0) => page[t].network = Target)
      <3>1. CASE worker.start.previous # Target
        <4>1. one = Append(toPage[t], notice)
          BY <2>1, <2>2, <3>1
        <4>2. Current(Append(toPage[t], notice), Target) /\ ~NoChangeAfter(Append(toPage[t], notice), 0)
          BY <1>8, <2>1, NoticeInforms
        <4> QED  BY <4>1, <4>2
      <3>2. CASE worker.start.previous = Target
        <4>1. rust.network = Target
          BY <1>1, <3>2 DEF SharedInv, NetworkInv
        <4>2. one = toPage[t]
          BY <2>2, <3>2
        <4> QED  BY <2>1, <4>1, <4>2 DEF Informed
      <3> QED  BY <3>1, <3>2
    <2>4. PICK two \in Seq(Told) : two = Answered(t) /\ two = toPage'[t]
      BY <1>9, <1>10, <2>1
    <2> HIDE DEF Noticed
    <2>5. Current(two, Target) /\ (NoChangeAfter(two, 0) <=> NoChangeAfter(one, 0))
      <3>1. CASE t = worker.start.tab
        <4>1. two = Append(one, answer)
          BY <2>2, <2>4, <3>1
        <4> QED  BY <1>8, <2>3, <4>1, AnswerInforms
      <3>2. CASE t # worker.start.tab
        BY <2>2, <2>3, <2>4, <3>2
      <3> QED  BY <3>1, <3>2
    <2>6. Current(toPage'[t], rust'.network)
      BY <1>3, <2>4, <2>5
    <2>7. page'[t].configured /\ NoChangeAfter(toPage'[t], 0) => page'[t].network = rust'.network
      BY <1>2, <1>3, <2>3, <2>4, <2>5
    <2> QED  BY <2>6, <2>7 DEF Informed
  <1> QED  BY <1>2, <1>5, <1>11, <1>12 DEF SharedInv, WindowInv

-----------------------------------------------------------------------------
(* A window acts, or hears of the network.                                 *)
LEMMA WindowKeeps ==
    ASSUME TypeInv, SharedInv, NEW t \in Tab, Window(t)
    PROVE  TypeInv' /\ SharedInv'
  <1>1. PICK new \in Pages : KeepsWindow(t, new)
    BY WindowEffect
  <1>2. /\ toWorker' \in [Tab -> Seq(Asked)] /\ acts' \in Nat
        /\ toPage' = toPage /\ worker' = worker /\ prepares' = prepares /\ rust' = rust
    BY WindowEffect
  <1>3. /\ page \in [Tab -> Pages] /\ page' = [page EXCEPT ![t] = new]
        /\ page'[t] = new /\ \A u \in Tab : u # t => page'[u] = page[u]
    BY <1>1 DEF KeepsWindow, TypeInv
  <1>4. TypeInv'
    BY <1>2, <1>3 DEF TypeInv
  <1>5. NetworkInv'
    BY <1>2 DEF SharedInv, NetworkInv, Performing, Target
  <1>6. \A u \in Tab : ~page'[u].here => ~page'[u].configured
    BY <1>1, <1>3 DEF KeepsWindow, SharedInv, WindowInv
  <1>7. ASSUME NEW u \in worker'.clients
        PROVE  Informed(u)'
    <2>1. u \in Tab /\ Informed(u)
      BY <1>2 DEF SharedInv, WindowInv, TypeInv, Workers
    <2>2. Unchanged(u) /\ SaysNothing(u)
      BY <1>1, <1>2, <1>3, <2>1 DEF Unchanged, SaysNothing, KeepsWindow
    <2> QED  BY <1>2, <2>1, <2>2, KeptInformed
  <1> QED  BY <1>4, <1>5, <1>6, <1>7 DEF SharedInv, WindowInv

LEMMA LearnsInformed ==
    ASSUME TypeInv, WindowInv, NEW t \in Tab, NEW new \in Pages, Learns(t, new), Informed(t),
           toPage[t] # <<>>, toPage' = [toPage EXCEPT ![t] = Tail(@)], rust' = rust
    PROVE  Informed(t)'
  <1> DEFINE s == toPage[t]
             n == rust.network
  <1>1. s \in Seq(Told) /\ page \in [Tab -> Pages] /\ toPage \in [Tab -> Seq(Told)]
    BY DEF TypeInv
  <1>2. /\ page'[t] = new /\ toPage'[t] = Tail(s)
    BY <1>1 DEF Learns
  <1>3. /\ Len(s) \in Nat \ {0} /\ Len(Tail(s)) = Len(s) - 1 /\ Head(s) = s[1]
        /\ \A i \in 1..Len(s) - 1 : Tail(s)[i] = s[i + 1]
    BY <1>1
  <1>4. Current(s, n) /\ (page[t].configured /\ NoChangeAfter(s, 0) => page[t].network = n)
    BY DEF Informed
  <1> HIDE DEF s, n
  <1>5. \A i \in 0..Len(s) - 1 : NoChangeAfter(Tail(s), i) <=> NoChangeAfter(s, i + 1)
    <2> SUFFICES ASSUME NEW i \in 0..Len(s) - 1
                 PROVE  NoChangeAfter(Tail(s), i) <=> NoChangeAfter(s, i + 1)
      OBVIOUS
    <2>1. ASSUME NoChangeAfter(Tail(s), i), NEW j \in 1..Len(s), i + 1 < j
          PROVE  s[j].type # "changed"
      <3>1. j - 1 \in 1..Len(s) - 1 /\ i < j - 1 /\ (j - 1) + 1 = j
        BY <1>3, <2>1
      <3>2. Tail(s)[j - 1] = s[j]
        BY <1>3, <3>1
      <3> QED  BY <1>3, <2>1, <3>1, <3>2 DEF NoChangeAfter
    <2>2. ASSUME NoChangeAfter(s, i + 1), NEW j \in 1..Len(Tail(s)), i < j
          PROVE  Tail(s)[j].type # "changed"
      BY <1>3, <2>2 DEF NoChangeAfter
    <2> QED  BY <2>1, <2>2 DEF NoChangeAfter
  <1>6. Current(Tail(s), n)
    <2> SUFFICES ASSUME NEW i \in 1..Len(Tail(s)), Says(Tail(s)[i]), NoChangeAfter(Tail(s), i)
                 PROVE  Tail(s)[i].network = n
      BY DEF Current
    <2>1. i \in 0..Len(s) - 1 /\ i + 1 \in 1..Len(s) /\ Tail(s)[i] = s[i + 1]
      BY <1>3
    <2>2. NoChangeAfter(s, i + 1) /\ Says(s[i + 1])
      BY <1>5, <2>1
    <2> QED  BY <1>4, <2>1, <2>2 DEF Current
  <1>7. ASSUME new.configured, NoChangeAfter(Tail(s), 0)
        PROVE  new.network = n
    <2>1. NoChangeAfter(s, 1)
      BY <1>3, <1>5, <1>7
    <2>2. Says(s[1]) => s[1].network = n
      BY <1>3, <1>4, <2>1 DEF Current
    <2>3. page[t].here
      <3>1. ~page[t].here => new = page[t] /\ ~page[t].configured
        BY DEF Learns, WindowInv
      <3> QED  BY <1>7, <3>1
    <2>4. CASE s[1].type = "changed"
      <3>1. new.network = s[1].network
        BY <1>3, <2>3, <2>4 DEF Learns, s
      <3> QED  BY <2>2, <2>4, <3>1 DEF Says
    <2>5. CASE s[1].type # "changed"
      <3>1. NoChangeAfter(s, 0)
        BY <1>3, <2>1, <2>5 DEF NoChangeAfter
      <3>2. \/ new.network = page[t].network /\ new.configured = page[t].configured
            \/ Says(s[1]) /\ new.network = s[1].network
        BY <1>3, <2>5 DEF Learns, s
      <3> QED  BY <1>4, <1>7, <2>2, <3>1, <3>2
    <2> QED  BY <2>4, <2>5
  <1> QED  BY <1>2, <1>6, <1>7 DEF Informed, n

LEMMA DeliverKeeps ==
    ASSUME TypeInv, SharedInv, NEW t \in Tab, Deliver(t)
    PROVE  TypeInv' /\ SharedInv'
  <1>1. PICK new \in Pages : Learns(t, new)
    BY DeliverEffect
  <1>2. /\ toPage[t] # <<>> /\ toPage' = [toPage EXCEPT ![t] = Tail(@)]
        /\ toWorker' \in [Tab -> Seq(Asked)]
        /\ worker' = worker /\ prepares' = prepares /\ rust' = rust /\ acts' = acts
    BY DeliverEffect
  <1>3. /\ page \in [Tab -> Pages] /\ page' = [page EXCEPT ![t] = new] /\ page'[t] = new
        /\ \A u \in Tab : u # t => page'[u] = page[u] /\ toPage'[u] = toPage[u]
        /\ toPage \in [Tab -> Seq(Told)]
    BY <1>1, <1>2 DEF Learns, TypeInv
  <1>4. TypeInv'
    <2>1. Tail(toPage[t]) \in Seq(Told)
      BY <1>2, <1>3
    <2>2. toPage' \in [Tab -> Seq(Told)]
      BY <1>2, <1>3, <2>1
    <2> QED  BY <1>2, <1>3, <2>2 DEF TypeInv
  <1>5. NetworkInv'
    BY <1>2 DEF SharedInv, NetworkInv, Performing, Target
  <1>6. \A u \in Tab : ~page'[u].here => ~page'[u].configured
    BY <1>1, <1>3 DEF Learns, SharedInv, WindowInv
  <1>7. ASSUME NEW u \in worker'.clients
        PROVE  Informed(u)'
    <2>1. u \in Tab /\ Informed(u)
      BY <1>2 DEF SharedInv, WindowInv, TypeInv, Workers
    <2>2. CASE u = t
      BY <1>1, <1>2, <2>1, <2>2, LearnsInformed DEF SharedInv
    <2>3. CASE u # t
      <3>1. Unchanged(u) /\ SaysNothing(u)
        BY <1>3, <2>1, <2>3 DEF Unchanged, SaysNothing
      <3> QED  BY <1>2, <2>1, <3>1, KeptInformed
    <2> QED  BY <2>2, <2>3
  <1> QED  BY <1>4, <1>5, <1>6, <1>7 DEF SharedInv, WindowInv

-----------------------------------------------------------------------------
LEMMA DispatchKeeps ==
    ASSUME TypeInv, SharedInv, NEW t \in Tab, dispatch(t)
    PROVE  TypeInv' /\ SharedInv'
  <1>1. toWorker \in [Tab -> Seq(Asked)] /\ toWorker[t] \in Seq(Asked) /\ toWorker[t] # <<>>
    BY DEF TypeInv, dispatch
  <1>2. PICK m \in Asked : m = Head(toWorker[t])
    BY <1>1
  <1>3. /\ toWorker' = [toWorker EXCEPT ![t] = Tail(@)] /\ ~Performing
        /\ UNCHANGED <<page, acts>>
    BY DEF dispatch
  <1>4. toWorker' \in [Tab -> Seq(Asked)]
    <2>1. Tail(toWorker[t]) \in Seq(Asked)
      BY <1>1
    <2> QED  BY <1>1, <1>3, <2>1
  <1>5. StateTyped /\ SharedInv'
    <2>1. CASE m.type = "start" /\ performStart(t, m) /\ UNCHANGED prepares
      BY <1>3, <2>1, PerformStartKeeps
    <2>2. CASE removeClient(t) /\ UNCHANGED <<toPage, prepares>>
      BY <1>3, <2>2, RemoveClientCalm, CalmKeeps
    <2>3. CASE m.type \notin {"start", "close"} /\ Refused(t, m) /\ UNCHANGED prepares
      BY <1>3, <2>3, RefusedCalm, CalmKeeps
    <2>4. CASE m.type = "fetch" /\ StartTransfer(m) /\ UNCHANGED <<toPage, prepares>>
      BY <1>3, <2>4, StartTransferKeeps
    <2>5. CASE m.type = "prepare" /\ Prepare(t, m)
      BY <1>3, <2>5, PrepareCalm, CalmKeeps
    <2>6. CASE AbandonLease(t, m) /\ UNCHANGED <<toPage, prepares>>
      BY <1>3, <2>6, EndCalm, CalmKeeps
    <2>7. CASE Release(t, m) /\ UNCHANGED <<toPage, prepares>>
      BY <1>3, <2>7, EndCalm, CalmKeeps
    <2> QED
      BY <1>2, <2>1, <2>2, <2>3, <2>4, <2>5, <2>6, <2>7 DEF dispatch
  <1> QED  BY <1>3, <1>4, <1>5 DEF StateTyped, TypeInv

LEMMA WaiterFailsKeeps ==
    ASSUME TypeInv, SharedInv, NEW t \in Tab, WaiterFails(t)
    PROVE  TypeInv' /\ SharedInv'
  <1>1. toWorker \in [Tab -> Seq(Asked)] /\ toWorker[t] \in Seq(Asked) /\ toWorker[t] # <<>>
    BY DEF TypeInv, WaiterFails
  <1>2. PICK m \in Asked : m = Head(toWorker[t])
    BY <1>1
  <1>3. /\ toWorker' = [toWorker EXCEPT ![t] = Tail(@)] /\ m.type # "start"
        /\ Refused(t, m) /\ UNCHANGED <<page, prepares, acts>>
    BY <1>2 DEF WaiterFails
  <1>4. Tail(toWorker[t]) \in Seq(Asked)
    BY <1>1
  <1>5. StateTyped /\ SharedInv'
    BY <1>3, RefusedCalm, CalmKeeps
  <1> QED  BY <1>1, <1>3, <1>4, <1>5 DEF StateTyped, TypeInv

LEMMA InitHolds ==
    ASSUME Init
    PROVE  TypeInv /\ SharedInv
  <1>1. PICK initial \in Initial : page = [t \in Tab |-> [NoPage EXCEPT !.network = initial[t]]]
    BY DEF Init
  <1>2. initial \in [Tab -> Network]
    BY <1>1, SharedAssumption
  <1>3. ASSUME NEW t \in Tab
        PROVE  page[t] \in Pages /\ page[t].configured = FALSE
    BY <1>1, <1>2 DEF NoPage, Pages
  <1>4. /\ rust \in Rusts /\ rust.network = None /\ rust.switching = FALSE
    BY DEF Init, Rusts
  <1>5. /\ worker \in Workers /\ worker.network = None /\ worker.start = None
        /\ worker.failed = FALSE /\ worker.transfers = {}
    BY DEF Init, Workers
  <1>6. TypeInv
    <2>1. page \in [Tab -> Pages]
      BY <1>1, <1>3
    <2>2. /\ toWorker \in [Tab -> Seq(Asked)] /\ toPage \in [Tab -> Seq(Told)]
          /\ prepares = {} /\ acts = 0
      BY DEF Init
    <2> QED  BY <1>4, <1>5, <2>1, <2>2 DEF TypeInv
  <1>7. \A t \in Tab : Informed(t)
    <2>1. \A t \in Tab : toPage[t] = <<>> /\ Len(toPage[t]) = 0
      BY DEF Init
    <2>2. ASSUME NEW t \in Tab
          PROVE  Informed(t)
      <3>1. 1..Len(toPage[t]) = {}
        BY <2>1
      <3>2. page[t].configured = FALSE
        BY <1>3
      <3>3. Current(toPage[t], rust.network)
        BY <3>1 DEF Current
      <3> QED  BY <3>2, <3>3 DEF Informed
    <2> QED  BY <2>2
  <1>8. NetworkInv
    BY <1>4, <1>5 DEF NetworkInv, Performing
  <1> QED  BY <1>3, <1>5, <1>6, <1>7, <1>8 DEF SharedInv, WindowInv, Workers

LEMMA StepHolds ==
    ASSUME TypeInv, SharedInv, [Next]_vars
    PROVE  TypeInv' /\ SharedInv'
  <1>1. ASSUME NEW t \in Tab, Window(t) \/ Deliver(t) \/ dispatch(t) \/ WaiterFails(t)
        PROVE  TypeInv' /\ SharedInv'
    BY <1>1, WindowKeeps, DeliverKeeps, DispatchKeeps, WaiterFailsKeeps
  <1>2. CASE PrepareBegins \/ PrepareReturns \/ TransferEnds \/ Settle
    <2>1. StateTyped /\ Calm
      BY <1>2, PrepareBeginsCalm, PrepareReturnsCalm, TransferCalm
    <2>2. UNCHANGED <<page, toWorker, acts>>
      BY <1>2 DEF PrepareBegins, PrepareReturns, TransferEnds, Settle
    <2> QED  BY <2>1, <2>2, CalmKeeps DEF StateTyped, TypeInv
  <1>3. CASE (~worker.failed /\ RuntimeSwitches) \/ StartSucceeds \/ StartFails \/ StartFailed
    <2>1. StateTyped /\ SharedInv'
      BY <1>3, RuntimeSwitchesKeeps, StartSucceedsKeeps, StartFailsKeeps, StartFailedKeeps
    <2>2. UNCHANGED <<page, toWorker, acts>>
      BY <1>3 DEF RuntimeSwitches, StartSucceeds, StartFails, StartFailed
    <2> QED  BY <2>1, <2>2 DEF StateTyped, TypeInv
  <1>4. CASE UNCHANGED vars
    <2>1. UNCHANGED <<page, toWorker, toPage, worker, prepares, rust, acts>>
      BY <1>4 DEF vars
    <2>2. StateTyped /\ Calm
      BY <2>1 DEF StateTyped, Calm, NetworkKept, SaysNothing, TypeInv
    <2> QED  BY <2>1, <2>2, CalmKeeps DEF StateTyped, TypeInv
  <1> QED  BY <1>1, <1>2, <1>3, <1>4 DEF Next, Fails, Run

LEMMA InvariantHolds == Spec => [](TypeInv /\ SharedInv)
  <1>1. Init => TypeInv /\ SharedInv
    BY InitHolds
  <1>2. TypeInv /\ SharedInv /\ [Next]_vars => (TypeInv /\ SharedInv)'
    BY StepHolds
  <1> QED  BY <1>1, <1>2, PTL DEF Spec

(* However starts of several windows cross, wait, are refused, fail or are *)
(* given up, the runtime does not leave the network of a transfer that     *)
(* runs on it: worker.js lets a start through only from where the runtime  *)
(* is, and to another network only when nothing runs.                      *)
THEOREM NoTransferLosesItsNetwork == Spec => []TransfersKeepTheirNetwork
  <1>1. TypeInv /\ SharedInv => TransfersKeepTheirNetwork
    <2> SUFFICES ASSUME SharedInv, NEW x \in worker.transfers
                 PROVE  rust.network = x.network /\ ~rust.switching
      BY DEF TransfersKeepTheirNetwork
    <2>1. worker.transfers # {} /\ x.network = rust.network
      BY DEF SharedInv, NetworkInv
    <2>2. Performing => rust.network = Target
      BY <2>1 DEF SharedInv, NetworkInv
    <2>3. ~rust.switching
      BY <2>2 DEF SharedInv, NetworkInv
    <2> QED  BY <2>1, <2>3
  <1> QED  BY <1>1, InvariantHolds, PTL

(* Once nothing is left to be handled or delivered, worker.js, the runtime *)
(* and every window that is still there are on one network: whatever a     *)
(* window was told last, by an answer or a notice, is what the runtime is  *)
(* on, though answers cross notices and some come for starts given up.     *)
THEOREM WindowsAgree == Spec => []OneNetwork
  <1>1. TypeInv /\ SharedInv => OneNetwork
    <2> SUFFICES ASSUME TypeInv, SharedInv, Quiet
                 PROVE  /\ worker.network = rust.network
                        /\ \A t \in worker.clients :
                              page[t].configured => page[t].network = worker.network
      BY DEF OneNetwork
    <2>1. worker.network = rust.network
      BY DEF SharedInv, NetworkInv, Quiet
    <2>2. ASSUME NEW t \in worker.clients, page[t].configured
          PROVE  page[t].network = rust.network
      <3>1. t \in Tab /\ Informed(t)
        BY DEF SharedInv, WindowInv, TypeInv, Workers
      <3>2. toPage[t] = <<>>
        BY <3>1 DEF Quiet
      <3>3. NoChangeAfter(toPage[t], 0)
        BY <3>2 DEF NoChangeAfter
      <3> QED  BY <2>2, <3>1, <3>3 DEF Informed
    <2> QED  BY <2>1, <2>2
  <1> QED  BY <1>1, InvariantHolds, PTL

-----------------------------------------------------------------------------
(* What is on its way from and to a window.                                *)
Sent(t) == {toWorker[t][i] : i \in DOMAIN toWorker[t]}
Heard(t) == {toPage[t][i] : i \in DOMAIN toPage[t]}

(* A window that closes says so last, and shows nothing any more.          *)
ClientsInv ==
    /\ \A t \in Tab :
          /\ page[t].here => t \in worker.clients /\ \A m \in Sent(t) : m.type # "close"
          /\ ~page[t].here => page[t].pending = None /\ page[t].active = None
          /\ t \notin worker.clients => toWorker[t] = <<>>
          /\ \A i \in DOMAIN toWorker[t] : toWorker[t][i].type = "close" => i = Len(toWorker[t])
          /\ page[t].pending = None \/ page[t].active = None
    /\ worker.lease # None => worker.lease.tab \in worker.clients

(* The runtime plays the stream of the lease, or one that is being         *)
(* prepared, on the network of the lease.                                  *)
PlaysInv ==
    /\ rust.session \in {0, rust.view}
    /\ \A p \in prepares :
          /\ p.view <= rust.view
          /\ p.view # 0 /\ p.view = rust.view => p.network = rust.network /\ ~rust.switching
          /\ Owns(p.lease) => worker.lease.session = 0
    /\ \A p, q \in prepares :
          (p.view # 0 /\ p.view = q.view) \/ Key(p.lease) = Key(q.lease) => p = q
    /\ worker.lease # None =>
          /\ worker.network # None /\ worker.network = rust.network /\ ~rust.switching
          /\ worker.lease.session # 0 =>
                /\ rust.session = worker.lease.session
                /\ \A p \in prepares : p.view # worker.lease.session
    /\ rust.session # 0 =>
          \/ worker.lease # None /\ worker.lease.session = rust.session
          \/ \E p \in prepares : p.view = rust.session

(* The attempts of a window that something speaks of: a view is asked for  *)
(* on one network, that of the lease it has.                               *)
Mention(m) == Attempt(m.attempt, m.network)
Speaks(t) ==
    {a \in Attempts :
        \/ page[t].pending = a
        \/ \E m \in Sent(t) : m.type \in {"prepare", "abandon"} /\ a = Mention(m)
        \/ \E m \in Heard(t) : m.type = "prepared" /\ a = Mention(m)
        \/ \E p \in prepares : p.lease.tab = t /\ a = Attempt(p.lease.attempt, p.network)}

AttemptsInv ==
    /\ \A t \in Tab : \A a \in Speaks(t) :
          a.view <= page[t].view /\ \A b \in Speaks(t) : a.view = b.view => a = b
    /\ \A t \in Tab : worker.lease # None /\ worker.lease.tab = t =>
          /\ worker.lease.attempt <= page[t].view
          /\ \A a \in Speaks(t) : a.view = worker.lease.attempt => a.network = worker.network
    /\ \A k \in taken : k[2] <= page[k[1]].view

(* The sessions a window shows, gives back or is told.                     *)
Streams(t) ==
    {x \in [session : Nat, network : Network] :
        \/ page[t].active # None /\ x.session = page[t].active.session
                                 /\ x.network = page[t].active.network
        \/ \E m \in Sent(t) :
              m.type = "release" /\ x.session = m.session /\ x.network = m.network
        \/ \E m \in Heard(t) :
              m.type = "prepared" /\ m.ok /\ x.session = m.session /\ x.network = m.network}

StreamsInv ==
    \A t \in Tab : \A x \in Streams(t) :
        /\ x.session # 0 /\ x.session <= rust.view
        /\ \A p \in prepares : p.view # x.session
        /\ worker.lease # None /\ worker.lease.session = x.session => x.network = worker.network

(* What is to be prepared is asked for once, and worker.js does not yet    *)
(* know of it.                                                             *)
Unknown(t, v) ==
    /\ \A p \in prepares : Key(p.lease) # <<t, v>>
    /\ worker.lease # None => Key(worker.lease) # <<t, v>>
    /\ <<t, v>> \notin taken
    /\ \A m \in Heard(t) : m.type = "prepared" => m.attempt # v

Asks(m, v) == m.type = "prepare" /\ m.attempt = v

FreshInv ==
    \A t \in Tab, v \in Nat : \A i \in DOMAIN toWorker[t] : Asks(toWorker[t][i], v) =>
        /\ Unknown(t, v)
        /\ \A j \in DOMAIN toWorker[t] : Asks(toWorker[t][j], v) => i = j

(* The window of the lease is told of its session or of none.              *)
AnswersInv ==
    /\ worker.lease # None => Key(worker.lease) \notin taken
    /\ \A t \in Tab, v, s \in Nat : worker.lease = Lease(t, v, s) =>
          \A m \in Heard(t) : m.type = "prepared" /\ m.ok /\ m.attempt = v => m.session = s

(* Whoever prepares a stream or has the lease still waits for it, shows it *)
(* or has sent word that it does not.                                      *)
Pends(p, v) == p.pending # None /\ p.pending.view = v /\ p.pending \in p.awaiting
Undoes(m, v) == m.type = "close" \/ (m.type = "abandon" /\ m.attempt = v)
Returns(m, s) == s # 0 /\ m.type = "release" /\ m.session = s

PromisedInv ==
    \A t \in Tab, v \in Nat : \A i \in DOMAIN toWorker[t] : Asks(toWorker[t][i], v) =>
        \/ Pends(page[t], v)
        \/ \E j \in DOMAIN toWorker[t] : i < j /\ Undoes(toWorker[t][j], v)

LookedAfter(t, v, s) ==
    \/ \E m \in Sent(t) : Undoes(m, v) \/ Returns(m, s)
    \/ Pends(page[t], v) /\ s = 0 /\ \E p \in prepares : Key(p.lease) = <<t, v>>
    \/ Pends(page[t], v) /\ \E m \in Heard(t) : m.type = "prepared" /\ m.ok /\ m.attempt = v
    \/ s # 0 /\ Shows(t, v) /\ page[t].active.session = s

LeaseInv ==
    \A t \in Tab, v, s \in Nat : worker.lease = Lease(t, v, s) => LookedAfter(t, v, s)

(* A window that lost the lease hears of it, or has done with it.          *)
TakenInv ==
    /\ taken \subseteq Tab \X Nat
    /\ \A k \in taken :
          \/ \E m \in Heard(k[1]) : m.type = "replaced" /\ m.attempt = k[2]
          \/ ~Shows(k[1], k[2]) /\ (page[k[1]].pending # None => page[k[1]].pending.view # k[2])

StreamInv ==
    /\ ClientsInv /\ PlaysInv /\ AttemptsInv /\ StreamsInv /\ FreshInv /\ AnswersInv
    /\ PromisedInv /\ LeaseInv /\ TakenInv
-----------------------------------------------------------------------------
(* Queues.                                                                 *)
LEMMA Joined ==
    ASSUME NEW S, NEW s \in Seq(S), NEW e \in Seq(S)
    PROVE  /\ s \o e \in Seq(S) /\ Len(s \o e) = Len(s) + Len(e)
           /\ DOMAIN s = 1..Len(s) /\ DOMAIN e = 1..Len(e) /\ DOMAIN (s \o e) = 1..Len(s) + Len(e)
           /\ Len(s) \in Nat /\ Len(e) \in Nat
           /\ \A i \in 1..Len(s) : (s \o e)[i] = s[i]
           /\ \A i \in 1..Len(e) : (s \o e)[Len(s) + i] = e[i]
           /\ \A k \in 1..Len(s) + Len(e) : k \in 1..Len(s) \/ k - Len(s) \in 1..Len(e)
  OBVIOUS

LEMMA Shortened ==
    ASSUME NEW S, NEW s \in Seq(S), s # <<>>
    PROVE  /\ Tail(s) \in Seq(S) /\ Head(s) = s[1] /\ Head(s) \in S
           /\ Len(s) \in Nat \ {0} /\ Len(Tail(s)) = Len(s) - 1
           /\ DOMAIN s = 1..Len(s) /\ DOMAIN Tail(s) = 1..Len(s) - 1
           /\ \A i \in 1..Len(s) - 1 : Tail(s)[i] = s[i + 1]
  OBVIOUS

LEMMA SeqFacts ==
    ASSUME NEW S, NEW s \in Seq(S)
    PROVE  DOMAIN s = 1..Len(s) /\ Len(s) \in Nat /\ \A i \in DOMAIN s : s[i] \in S
  OBVIOUS

-----------------------------------------------------------------------------
(* What a window does to its stream and tells worker.js of it.             *)
WindowDoes(t, new, sent, fresh) ==
    /\ page' = [page EXCEPT ![t] = new]
    /\ toWorker' = [toWorker EXCEPT ![t] = @ \o sent]
    /\ page[t].view <= new.view
    /\ new.pending \in {None, page[t].pending, fresh} /\ new.active \in {None, page[t].active}
    /\ new.pending = None \/ new.active = None
    /\ fresh # None =>
          /\ page[t].view < fresh.view /\ fresh.view <= new.view
          /\ new.pending = fresh /\ fresh \in new.awaiting
    /\ \A i \in DOMAIN sent :
          /\ sent[i].type = "prepare" => i = Len(sent) /\ fresh # None /\ Mention(sent[i]) = fresh
          /\ sent[i].type = "abandon" => Mention(sent[i]) \in Speaks(t)
          /\ sent[i].type = "release" =>
                /\ page[t].active # None /\ sent[i].session = page[t].active.session
                /\ sent[i].network = page[t].active.network
          /\ sent[i].type = "close" => i = Len(sent) /\ ~new.here
    /\ page[t].pending # None =>
          \/ /\ new.pending = page[t].pending
             /\ page[t].pending \in page[t].awaiting => page[t].pending \in new.awaiting
          \/ \E i \in DOMAIN sent : Undoes(sent[i], page[t].pending.view)
    /\ page[t].active # None =>
          \/ new.active = page[t].active
          \/ \E i \in DOMAIN sent :
                \/ sent[i].type = "close"
                \/ sent[i].type = "release" /\ sent[i].session = page[t].active.session
    /\ new.here => page[t].here
    /\ ~new.here => new.pending = None /\ new.active = None
    /\ page[t].here /\ ~new.here => \E i \in DOMAIN sent : sent[i].type = "close"
    /\ ~page[t].here => sent = <<>>

ReleaseOf(active) ==
    [type |-> "release", session |-> active.session, network |-> active.network]

LEMMA MessageFacts ==
    /\ \A a \in Attempts : /\ Abandon(a) \in Asked /\ Abandon(a).type = "abandon"
                           /\ Abandon(a).attempt = a.view /\ Mention(Abandon(a)) = a
    /\ \A a \in Actives : /\ ReleaseOf(a) \in Asked /\ ReleaseOf(a).type = "release"
                          /\ ReleaseOf(a).session = a.session /\ ReleaseOf(a).network = a.network
  BY DEF Attempts, Actives, Abandon, ReleaseOf, Asked, Mention, Attempt

(* What a release takes from a window is what it sends word of.            *)
GivesUp(p, v, r, s) ==
    /\ r \in Pages /\ r.view = p.view /\ r.awaiting = p.awaiting /\ r.here = p.here
    /\ r.pending \in {None, p.pending} /\ r.active \in {None, p.active}
    /\ r.pending = None \/ r.active = None
    /\ s \in Seq(Asked)
    /\ \A i \in DOMAIN s : \/ p.pending # None /\ s[i] = Abandon(p.pending)
                           \/ p.active # None /\ s[i] = ReleaseOf(p.active)
    /\ p.pending # None =>
          \/ r.pending = p.pending /\ v # 0 /\ p.pending.view # v
          \/ r.pending = None /\ \E i \in DOMAIN s : s[i] = Abandon(p.pending)
    /\ p.active # None =>
          \/ r.active = p.active /\ v # 0 /\ p.active.view # v
          \/ r.active = None /\ \E i \in DOMAIN s : s[i] = ReleaseOf(p.active)

LEMMA Releasing ==
    ASSUME NEW p \in Pages, p.pending = None \/ p.active = None, NEW v \in Nat
    PROVE  GivesUp(p, v, release_hls_matching(p, v), Released(p, v))
  <1> DEFINE r == release_hls_matching(p, v)
             s == Released(p, v)
  <1> SUFFICES GivesUp(p, v, r, s)
    OBVIOUS
  <1>1. /\ p.pending \in Attempts \cup {None} /\ p.active \in Actives \cup {None}
    BY DEF Pages
  <1>2. /\ r \in Pages /\ r.view = p.view /\ r.awaiting = p.awaiting /\ r.here = p.here
        /\ r.pending = IF p.pending # None /\ (v = 0 \/ p.pending.view = v) THEN None ELSE p.pending
        /\ r.active = IF p.active # None /\ (v = 0 \/ p.active.view = v) THEN None ELSE p.active
    BY DEF release_hls_matching, Matches, Pages
  <1>3. CASE p.active # None /\ (v = 0 \/ p.active.view = v)
    <2>1. p.pending = None
      BY <1>3
    <2>2. s = <<ReleaseOf(p.active)>> \o <<>>
      BY <1>3, <2>1 DEF Released, Matches, ReleaseOf
    <2>3. ReleaseOf(p.active) \in Asked
      BY <1>1, <1>3, MessageFacts
    <2>4. s = <<ReleaseOf(p.active)>> /\ s \in Seq(Asked) /\ DOMAIN s = 1..1 /\ s[1] = ReleaseOf(p.active)
      BY <2>2, <2>3
    <2> HIDE DEF r, s
    <2> QED  BY <1>2, <1>3, <2>1, <2>4 DEF GivesUp
  <1>4. CASE p.pending # None /\ (v = 0 \/ p.pending.view = v)
    <2>1. p.active = None
      BY <1>4
    <2>2. s = <<>> \o <<Abandon(p.pending)>>
      BY <1>4, <2>1 DEF Released, Matches
    <2>3. Abandon(p.pending) \in Asked
      BY <1>1, <1>4, MessageFacts
    <2>4. s = <<Abandon(p.pending)>> /\ s \in Seq(Asked) /\ DOMAIN s = 1..1 /\ s[1] = Abandon(p.pending)
      BY <2>2, <2>3
    <2> HIDE DEF r, s
    <2> QED  BY <1>2, <1>4, <2>1, <2>4 DEF GivesUp
  <1>5. CASE /\ ~(p.active # None /\ (v = 0 \/ p.active.view = v))
             /\ ~(p.pending # None /\ (v = 0 \/ p.pending.view = v))
    <2>1. s = <<>> \o <<>>
      BY <1>5 DEF Released, Matches
    <2>2. s = <<>> /\ s \in Seq(Asked) /\ DOMAIN s = {}
      BY <2>1
    <2> HIDE DEF r, s
    <2> QED  BY <1>2, <1>5, <2>2 DEF GivesUp
  <1> QED  BY <1>3, <1>4, <1>5

\* The attempt a window waits for is one that something speaks of.
LEMMA PendingSpoken ==
    ASSUME TypeInv, NEW t \in Tab, page[t].pending # None
    PROVE  page[t].pending \in Attempts /\ page[t].pending \in Speaks(t)
  BY DEF TypeInv, Pages, Speaks

LEMMA ReleaseDoes ==
    ASSUME TypeInv, ClientsInv, NEW t \in Tab, page[t].here, NEW v \in Nat,
           NEW r, NEW s, GivesUp(page[t], v, r, s),
           NEW new \in Pages, new.pending = r.pending, new.active = r.active,
           new.here = page[t].here, page[t].view <= new.view,
           \A x \in page[t].awaiting : v # 0 /\ x.view # v => x \in new.awaiting,
           page' = [page EXCEPT ![t] = new], Post(t, s)
    PROVE  s \in Seq(Asked) /\ WindowDoes(t, new, s, None)
  <1>1. page[t] \in Pages /\ (page[t].pending = None \/ page[t].active = None)
    BY DEF TypeInv, ClientsInv
  <1>2. /\ r.pending \in {None, page[t].pending} /\ r.active \in {None, page[t].active}
        /\ r.pending = None \/ r.active = None
        /\ s \in Seq(Asked)
        /\ \A i \in DOMAIN s : \/ page[t].pending # None /\ s[i] = Abandon(page[t].pending)
                               \/ page[t].active # None /\ s[i] = ReleaseOf(page[t].active)
        /\ page[t].pending # None =>
              \/ r.pending = page[t].pending /\ v # 0 /\ page[t].pending.view # v
              \/ r.pending = None /\ \E i \in DOMAIN s : s[i] = Abandon(page[t].pending)
        /\ page[t].active # None =>
              \/ r.active = page[t].active /\ v # 0 /\ page[t].active.view # v
              \/ r.active = None /\ \E i \in DOMAIN s : s[i] = ReleaseOf(page[t].active)
    BY DEF GivesUp
  <1>3. page[t].pending # None =>
           /\ page[t].pending \in Speaks(t)
           /\ Abandon(page[t].pending).type = "abandon"
           /\ Abandon(page[t].pending).attempt = page[t].pending.view
           /\ Mention(Abandon(page[t].pending)) = page[t].pending
    BY PendingSpoken, MessageFacts
  <1>4. page[t].active # None =>
           /\ ReleaseOf(page[t].active).type = "release"
           /\ ReleaseOf(page[t].active).session = page[t].active.session
           /\ ReleaseOf(page[t].active).network = page[t].active.network
    BY <1>1, MessageFacts DEF Pages
  <1>5. \A i \in DOMAIN s :
          /\ s[i].type # "prepare" /\ s[i].type # "close"
          /\ s[i].type = "abandon" => Mention(s[i]) \in Speaks(t)
          /\ s[i].type = "release" =>
                /\ page[t].active # None /\ s[i].session = page[t].active.session
                /\ s[i].network = page[t].active.network
    BY <1>2, <1>3, <1>4
  <1>6. page[t].pending # None =>
          \/ /\ new.pending = page[t].pending
             /\ page[t].pending \in page[t].awaiting => page[t].pending \in new.awaiting
          \/ \E i \in DOMAIN s : Undoes(s[i], page[t].pending.view)
    BY <1>2, <1>3 DEF Undoes
  <1>7. page[t].active # None =>
          \/ new.active = page[t].active
          \/ \E i \in DOMAIN s : \/ s[i].type = "close"
                                 \/ s[i].type = "release" /\ s[i].session = page[t].active.session
    BY <1>2, <1>4
  <1> QED  BY <1>2, <1>5, <1>6, <1>7 DEF WindowDoes, Post

LEMMA QuietDoes ==
    ASSUME TypeInv, ClientsInv, NEW t \in Tab, page[t].here,
           NEW new \in Pages, new.pending = page[t].pending, new.active = page[t].active,
           new.here = page[t].here, page[t].view <= new.view, new.awaiting = page[t].awaiting,
           page' = [page EXCEPT ![t] = new],
           NEW sent \in Seq(Asked), \A i \in DOMAIN sent : sent[i].type \in {"start", "fetch"},
           toWorker' = [toWorker EXCEPT ![t] = @ \o sent]
    PROVE  WindowDoes(t, new, sent, None)
  BY DEF WindowDoes, ClientsInv

LEMMA WindowActs ==
    ASSUME TypeInv, ClientsInv, NEW t \in Tab, Window(t)
    PROVE  /\ UNCHANGED <<toPage, worker, prepares, rust, taken>>
           /\ \E new \in Pages, sent \in Seq(Asked), fresh \in Attempts \cup {None} :
                 WindowDoes(t, new, sent, fresh)
  <1>1. /\ page \in [Tab -> Pages] /\ page[t] \in Pages /\ acts \in Nat
        /\ toWorker \in [Tab -> Seq(Asked)] /\ page[t].view \in Nat /\ page[t].network \in Network
        /\ page[t].pending = None \/ page[t].active = None
    BY DEF TypeInv, Pages, ClientsInv
  <1> DEFINE Does == \E new \in Pages, sent \in Seq(Asked), fresh \in Attempts \cup {None} :
                        WindowDoes(t, new, sent, fresh)
  <1>2. /\ <<>> \in Seq(Asked) /\ DOMAIN <<>> = {} /\ \A s \in Seq(Asked) : s \o <<>> = s
        /\ \A m \in Asked : <<m>> \in Seq(Asked) /\ DOMAIN <<m>> = {1} /\ <<m>>[1] = m /\ Len(<<m>>) = 1
    OBVIOUS
  <1>3. ASSUME UNCHANGED toWorker
        PROVE  toWorker' = [toWorker EXCEPT ![t] = @ \o <<>>]
    BY <1>1, <1>2, <1>3
  <1>4. ASSUME NEW n \in Network, Start(t, n)
        PROVE  Does
    <2>1. PICK start \in Calls : start = [id |-> acts, network |-> n]
      BY <1>1 DEF Calls
    <2>2. PICK new \in {[page[t] EXCEPT !.starting = start]} : page' = [page EXCEPT ![t] = new]
      BY <1>1, <1>4, <2>1 DEF Start
    <2>3. /\ new \in Pages /\ new.pending = page[t].pending /\ new.active = page[t].active
          /\ new.here = page[t].here /\ new.view = page[t].view /\ new.awaiting = page[t].awaiting
      BY <1>1, <2>2, <2>1 DEF Pages
    <2>4. PICK m \in Asked : m = [type |-> "start", id |-> acts, network |-> n]
      BY <1>1 DEF Asked
    <2>5. PICK sent \in Seq(Asked) : sent = <<m>> /\ \A i \in DOMAIN sent : sent[i] = m
      BY <1>2
    <2>6. page[t].here /\ Post(t, sent) /\ m.type = "start"
      BY <1>4, <2>4, <2>5 DEF Start
    <2>7. /\ page[t].here /\ page[t].view <= new.view
          /\ \A i \in DOMAIN sent : sent[i].type \in {"start", "fetch"}
          /\ toWorker' = [toWorker EXCEPT ![t] = @ \o sent]
      BY <1>1, <2>3, <2>5, <2>6 DEF Post
    <2>8. WindowDoes(t, new, sent, None)
      BY <2>2, <2>3, <2>7, QuietDoes
    <2> QED  BY <2>3, <2>8
  <1>5. ASSUME StartTimeout(t)
        PROVE  Does
    <2>1. PICK new \in {[page[t] EXCEPT !.starting = None]} : page' = [page EXCEPT ![t] = new]
      BY <1>1, <1>5 DEF StartTimeout
    <2>2. /\ new \in Pages /\ new.pending = page[t].pending /\ new.active = page[t].active
          /\ new.here = page[t].here /\ new.view = page[t].view /\ new.awaiting = page[t].awaiting
      BY <1>1, <2>1 DEF Pages
    <2>3. page[t].here /\ UNCHANGED toWorker
      BY <1>5 DEF StartTimeout
    <2>4. PICK sent \in Seq(Asked) : sent = <<>> /\ DOMAIN sent = {}
      BY <1>2
    <2>5. toWorker' = [toWorker EXCEPT ![t] = @ \o sent]
      BY <1>3, <2>3, <2>4
    <2>6. page[t].view <= new.view /\ \A i \in DOMAIN sent : sent[i].type \in {"start", "fetch"}
      BY <1>1, <2>2, <2>4
    <2>7. WindowDoes(t, new, sent, None)
      BY <2>1, <2>2, <2>3, <2>5, <2>6, QuietDoes
    <2> QED  BY <2>2, <2>7
  <1>6. ASSUME Fetch(t)
        PROVE  Does
    <2>1. page' = [page EXCEPT ![t] = page[t]] /\ page[t].here
      BY <1>1, <1>6 DEF Fetch, Ensured
    <2>2. PICK m \in Asked : m = [type |-> "fetch", id |-> acts, network |-> page[t].network]
      BY <1>1 DEF Asked
    <2>3. PICK sent \in Seq(Asked) : sent = <<m>> /\ \A i \in DOMAIN sent : sent[i] = m
      BY <1>2
    <2>4. Post(t, sent) /\ m.type = "fetch"
      BY <1>6, <2>2, <2>3 DEF Fetch
    <2>5. /\ page[t].view <= page[t].view /\ page[t] \in Pages
          /\ \A i \in DOMAIN sent : sent[i].type \in {"start", "fetch"}
          /\ toWorker' = [toWorker EXCEPT ![t] = @ \o sent]
      BY <1>1, <2>3, <2>4 DEF Post
    <2>6. WindowDoes(t, page[t], sent, None)
      BY <2>1, <2>5, QuietDoes
    <2> QED  BY <1>1, <2>6
  <1>7. ASSUME Hide(t)
        PROVE  Does
    <2>1. PICK new \in {[NoPage EXCEPT !.here = FALSE, !.network = page[t].network, !.view = page[t].view]} :
             page' = [page EXCEPT ![t] = new]
      BY <1>7 DEF Hide
    <2>2. /\ new \in Pages /\ new.here = FALSE /\ new.pending = None /\ new.active = None
          /\ new.view = page[t].view
      BY <1>1, <2>1 DEF Pages, NoPage
    <2>3. PICK m \in Asked : m = [type |-> "close"]
      BY DEF Asked
    <2>4. Post(t, <<m>>) /\ m.type = "close" /\ page[t].here
      BY <1>7, <2>3 DEF Hide
    <2>5. WindowDoes(t, new, <<m>>, None)
      BY <1>1, <1>2, <2>1, <2>2, <2>4 DEF WindowDoes, Post, Undoes
    <2> QED  BY <1>2, <2>2, <2>5
  <1>8. ASSUME OpenHls(t)
        PROVE  Does
    <2>1. PICK view \in Nat : view = page[t].view + 1
      BY <1>1
    <2>2. PICK attempt \in Attempts : attempt = Attempt(view, page[t].network)
      BY <1>1 DEF Attempt, Attempts
    <2>3. attempt # None /\ attempt.view = view /\ page[t].view < view /\ page[t].here
      BY <1>1, <1>8, <2>1, <2>2, SharedAssumption DEF Attempt, OpenHls, Ensured
    <2>4. PICK m \in Asked : m = [type |-> "prepare", attempt |-> view, network |-> page[t].network]
      BY <1>1 DEF Asked
    <2>5. m.type = "prepare" /\ Mention(m) = attempt
      BY <2>2, <2>4 DEF Mention
    <2>6. PICK r : r = release_hls_matching(page[t], 0)
      OBVIOUS
    <2>7. PICK s : s = Released(page[t], 0)
      OBVIOUS
    <2>8. /\ r \in Pages /\ r.view = page[t].view /\ r.awaiting = page[t].awaiting
          /\ r.here = page[t].here /\ s \in Seq(Asked)
          /\ \A i \in DOMAIN s : \/ page[t].pending # None /\ s[i] = Abandon(page[t].pending)
                                 \/ page[t].active # None /\ s[i] = ReleaseOf(page[t].active)
          /\ page[t].pending # None => \E i \in DOMAIN s : s[i] = Abandon(page[t].pending)
          /\ page[t].active # None => r.active = None /\ \E i \in DOMAIN s : s[i] = ReleaseOf(page[t].active)
          /\ r.active \in {None, page[t].active}
      <3>1. GivesUp(page[t], 0, r, s)
        BY <1>1, <2>6, <2>7, Releasing
      <3> QED  BY <3>1 DEF GivesUp
    <2>9. PICK new \in {[r EXCEPT !.view = view, !.pending = attempt, !.awaiting = @ \cup {attempt}]} :
             page' = [page EXCEPT ![t] = new]
      BY <1>8, <2>1, <2>2, <2>6 DEF OpenHls
    <2>10. r.awaiting \cup {attempt} \in SUBSET Attempts
      BY <2>8, <2>2 DEF Pages
    <2>11. /\ new \in Pages /\ new.view = view /\ new.pending = attempt /\ new.active = r.active
           /\ new.awaiting = r.awaiting \cup {attempt} /\ new.here = r.here
      BY <2>2, <2>8, <2>9, <2>10 DEF Pages
    <2>12. Post(t, s \o <<m>>)
      BY <1>8, <2>1, <2>4, <2>7 DEF OpenHls
    <2>13. PICK sent \in Seq(Asked) : sent = s \o <<m>>
      <3>1. <<m>> \in Seq(Asked) /\ s \in Seq(Asked)
        BY <1>2, <2>8
      <3>2. s \o <<m>> \in Seq(Asked)
        BY <3>1
      <3> QED  BY <3>2
    <2>14. /\ DOMAIN sent = 1..Len(s) + 1 /\ Len(s) \in Nat /\ DOMAIN s = 1..Len(s)
           /\ Len(sent) = Len(s) + 1
           /\ \A i \in DOMAIN s : i \in DOMAIN sent /\ sent[i] = s[i] /\ sent[Len(s) + 1] = m
      <3>1. s \in Seq(Asked) /\ <<m>> \in Seq(Asked)
        BY <1>2, <2>8
      <3> QED  BY <2>13, <3>1
    <2>15. sent[Len(s) + 1] = m
      BY <2>8, <2>13
    <2>16. page[t].pending # None =>
             /\ page[t].pending \in Speaks(t)
             /\ Abandon(page[t].pending).type = "abandon"
             /\ Abandon(page[t].pending).attempt = page[t].pending.view
             /\ Mention(Abandon(page[t].pending)) = page[t].pending
      BY PendingSpoken, MessageFacts
    <2>17. page[t].active # None =>
             /\ ReleaseOf(page[t].active).type = "release"
             /\ ReleaseOf(page[t].active).session = page[t].active.session
             /\ ReleaseOf(page[t].active).network = page[t].active.network
      BY <1>1, MessageFacts DEF Pages
    <2>18. \A i \in DOMAIN sent :
             /\ sent[i].type = "prepare" => i = Len(sent) /\ Mention(sent[i]) = attempt
             /\ sent[i].type = "abandon" => Mention(sent[i]) \in Speaks(t)
             /\ sent[i].type = "release" =>
                   /\ page[t].active # None /\ sent[i].session = page[t].active.session
                   /\ sent[i].network = page[t].active.network
             /\ sent[i].type # "close"
      <3> SUFFICES ASSUME NEW i \in DOMAIN sent
                   PROVE  /\ sent[i].type = "prepare" => i = Len(sent) /\ Mention(sent[i]) = attempt
                          /\ sent[i].type = "abandon" => Mention(sent[i]) \in Speaks(t)
                          /\ sent[i].type = "release" =>
                                /\ page[t].active # None /\ sent[i].session = page[t].active.session
                                /\ sent[i].network = page[t].active.network
                          /\ sent[i].type # "close"
        OBVIOUS
      <3>1. CASE i \in DOMAIN s
        BY <2>8, <2>14, <2>16, <2>17, <3>1
      <3>2. CASE i = Len(s) + 1
        BY <2>5, <2>14, <2>15, <3>2
      <3> QED  BY <2>14, <3>1, <3>2
    <2>19. page[t].pending # None => \E i \in DOMAIN sent : Undoes(sent[i], page[t].pending.view)
      BY <2>8, <2>14, <2>16 DEF Undoes
    <2>20. page[t].active # None =>
             \E i \in DOMAIN sent : sent[i].type = "release" /\ sent[i].session = page[t].active.session
      BY <2>8, <2>14, <2>17
    <2>21. new.active = None
      BY <2>8, <2>11
    <2>22. toWorker' = [toWorker EXCEPT ![t] = @ \o sent]
      BY <2>12, <2>13 DEF Post
    <2>23. /\ page' = [page EXCEPT ![t] = new] /\ page[t].view <= new.view
           /\ new.pending \in {None, page[t].pending, attempt}
           /\ new.active \in {None, page[t].active}
           /\ new.pending = None \/ new.active = None
           /\ page[t].view < attempt.view /\ attempt.view <= new.view
           /\ new.pending = attempt /\ attempt \in new.awaiting /\ page[t].here /\ new.here
      BY <1>1, <2>1, <2>3, <2>8, <2>9, <2>11, <2>21
    <2>24. WindowDoes(t, new, sent, attempt)
      BY <2>3, <2>18, <2>19, <2>20, <2>22, <2>23 DEF WindowDoes
    <2> QED  BY <2>11, <2>24
  <1>9. ASSUME Supersede(t)
        PROVE  Does
    <2>1. PICK view \in Nat : view = page[t].view + 1
      BY <1>1
    <2>2. PICK new \in {[page[t] EXCEPT !.view = view]} : page' = [page EXCEPT ![t] = new]
      BY <1>1, <1>9, <2>1 DEF Supersede
    <2>3. /\ new \in Pages /\ new.pending = page[t].pending /\ new.active = page[t].active
          /\ new.here = page[t].here /\ new.view = view /\ new.awaiting = page[t].awaiting
      BY <1>1, <2>1, <2>2 DEF Pages
    <2>4. page[t].here /\ UNCHANGED toWorker
      BY <1>9 DEF Supersede
    <2>5. PICK sent \in Seq(Asked) : sent = <<>> /\ DOMAIN sent = {}
      BY <1>2
    <2>6. toWorker' = [toWorker EXCEPT ![t] = @ \o sent]
      BY <1>3, <2>4, <2>5
    <2>7. page[t].view <= new.view
      BY <1>1, <2>1, <2>3
    <2>8. \A i \in DOMAIN sent : sent[i].type \in {"start", "fetch"}
      BY <2>5
    <2>9. WindowDoes(t, new, sent, None)
      BY <2>2, <2>3, <2>4, <2>6, <2>7, <2>8, QuietDoes
    <2> QED  BY <2>3, <2>9
  <1>10. ASSUME ReleaseView(t)
         PROVE  Does
    <2>1. PICK r : r = release_hls_matching(page[t], 0)
      OBVIOUS
    <2>2. PICK s : s = Released(page[t], 0)
      OBVIOUS
    <2>3. page[t].here /\ page' = [page EXCEPT ![t] = r] /\ Post(t, s)
      BY <1>1, <1>10, <2>1, <2>2 DEF ReleaseView
    <2>4. r \in Pages /\ r.view = page[t].view /\ r.awaiting = page[t].awaiting /\ r.here = page[t].here
      <3>1. GivesUp(page[t], 0, r, s)
        BY <1>1, <2>1, <2>2, Releasing
      <3> QED  BY <3>1 DEF GivesUp
    <2>5. s \in Seq(Asked) /\ WindowDoes(t, r, s, None)
      <3>1. GivesUp(page[t], 0, r, s)
        BY <1>1, <2>1, <2>2, Releasing
      <3>2. page[t].view <= r.view
        BY <1>1, <2>4
      <3> QED  BY <2>3, <2>4, <3>1, <3>2, ReleaseDoes
    <2> QED  BY <2>4, <2>5
  <1>11. ASSUME PrepareTimeout(t)
         PROVE  Does
    <2>1. PICK a \in page[t].awaiting :
             /\ page' = [page EXCEPT ![t] = [release_hls_matching(page[t], a.view) EXCEPT !.awaiting = @ \ {a}]]
             /\ Post(t, Released(page[t], a.view))
      BY <1>11 DEF PrepareTimeout
    <2>2. a.view \in Nat /\ page[t].here
      BY <1>1, <1>11 DEF Pages, Attempts, PrepareTimeout
    <2>3. PICK r : r = release_hls_matching(page[t], a.view)
      OBVIOUS
    <2>4. PICK s : s = Released(page[t], a.view)
      OBVIOUS
    <2>5. r \in Pages /\ r.view = page[t].view /\ r.awaiting = page[t].awaiting /\ r.here = page[t].here
      <3>1. GivesUp(page[t], a.view, r, s)
        BY <1>1, <2>2, <2>3, <2>4, Releasing
      <3> QED  BY <3>1 DEF GivesUp
    <2>6. PICK new \in {[r EXCEPT !.awaiting = @ \ {a}]} : page' = [page EXCEPT ![t] = new]
      BY <2>1, <2>3
    <2>7. /\ new \in Pages /\ new.pending = r.pending /\ new.active = r.active /\ new.here = r.here
          /\ new.view = r.view /\ new.awaiting = r.awaiting \ {a}
      BY <2>5, <2>6 DEF Pages
    <2>8. s \in Seq(Asked) /\ WindowDoes(t, new, s, None)
      <3>1. GivesUp(page[t], a.view, r, s)
        BY <1>1, <2>2, <2>3, <2>4, Releasing
      <3>2. page[t].view <= new.view /\ Post(t, s)
        BY <1>1, <2>1, <2>4, <2>5, <2>7
      <3>3. \A x \in page[t].awaiting : a.view # 0 /\ x.view # a.view => x \in new.awaiting
        BY <2>5, <2>7
      <3> QED  BY <2>2, <2>5, <2>6, <2>7, <3>1, <3>2, <3>3, ReleaseDoes
    <2> QED  BY <2>7, <2>8
  <1>12. UNCHANGED <<toPage, worker, prepares, rust, taken>>
    BY DEF Window, Start, StartTimeout, Fetch, Hide, OpenHls, Supersede, ReleaseView, PrepareTimeout
  <1> QED
    BY <1>4, <1>5, <1>6, <1>7, <1>8, <1>9, <1>10, <1>11, <1>12 DEF Window

-----------------------------------------------------------------------------
(* What a window hears while it acts: nothing, or the first of what it was *)
(* told; and it gives up what it was told of or is no longer wanted for.   *)
Consumes(t, m) ==
    /\ toPage[t] # <<>> /\ m = Head(toPage[t])
    /\ toPage' = [toPage EXCEPT ![t] = Tail(@)]
Hears(t, new, sent) ==
    \/ toPage' = toPage
    \/ \E m \in Told :
          /\ Consumes(t, m)
          /\ m.type = "prepared" /\ Pends(page[t], m.attempt) /\ page[t].pending = Mention(m)
                => \E i \in DOMAIN sent : Undoes(sent[i], m.attempt)
          /\ m.type = "replaced" =>
                /\ new.pending # None => new.pending.view # m.attempt
                /\ new.active # None => new.active.view # m.attempt

LEMMA ConsumeFacts ==
    ASSUME TypeInv, NEW t \in Tab, NEW m, Consumes(t, m)
    PROVE  /\ m \in Heard(t) /\ m \in Told
           /\ toPage' \in [Tab -> Seq(Told)]
           /\ \A u \in Tab : Heard(u)' \subseteq Heard(u)
           /\ \A u \in Tab : \A x \in Heard(u) : x \in Heard(u)' \/ (u = t /\ x = m)
  <1>1. toPage \in [Tab -> Seq(Told)] /\ toPage[t] \in Seq(Told)
    BY DEF TypeInv
  <1>2. /\ Tail(toPage[t]) \in Seq(Told) /\ m = toPage[t][1] /\ m \in Told
        /\ Len(toPage[t]) \in Nat \ {0}
        /\ DOMAIN toPage[t] = 1..Len(toPage[t]) /\ DOMAIN Tail(toPage[t]) = 1..Len(toPage[t]) - 1
        /\ \A i \in 1..Len(toPage[t]) - 1 : Tail(toPage[t])[i] = toPage[t][i + 1]
    BY <1>1, Shortened DEF Consumes
  <1>3. /\ toPage'[t] = Tail(toPage[t]) /\ \A u \in Tab : u # t => toPage'[u] = toPage[u]
        /\ toPage' \in [Tab -> Seq(Told)]
    BY <1>1, <1>2 DEF Consumes
  <1>4. m \in Heard(t)
    BY <1>2 DEF Heard
  <1>5. Heard(t)' \subseteq Heard(t)
    <2> SUFFICES ASSUME NEW x \in Heard(t)'
                 PROVE  x \in Heard(t)
      OBVIOUS
    <2>1. PICK i \in DOMAIN toPage'[t] : x = toPage'[t][i]
      BY DEF Heard
    <2>2. i + 1 \in DOMAIN toPage[t] /\ x = toPage[t][i + 1]
      BY <1>2, <1>3, <2>1
    <2> QED  BY <2>2 DEF Heard
  <1>6. ASSUME NEW x \in Heard(t)
        PROVE  x \in Heard(t)' \/ x = m
    <2>1. PICK i \in 1..Len(toPage[t]) : x = toPage[t][i]
      BY <1>2 DEF Heard
    <2>2. CASE i = 1
      BY <1>2, <2>1, <2>2
    <2>3. CASE i # 1
      <3>1. i - 1 \in 1..Len(toPage[t]) - 1 /\ (i - 1) + 1 = i
        BY <1>2, <2>3
      <3>2. Tail(toPage[t])[i - 1] = x
        BY <1>2, <2>1, <3>1
      <3> QED  BY <1>2, <1>3, <3>1, <3>2 DEF Heard
    <2> QED  BY <2>2, <2>3
  <1>7. \A u \in Tab : u # t => Heard(u)' = Heard(u)
    BY <1>3 DEF Heard
  <1> QED  BY <1>2, <1>3, <1>4, <1>5, <1>6, <1>7

LEMMA PostedFacts ==
    ASSUME TypeInv, NEW t \in Tab, NEW sent \in Seq(Asked),
           toWorker' = [toWorker EXCEPT ![t] = @ \o sent]
    PROVE  /\ toWorker' \in [Tab -> Seq(Asked)]
           /\ \A u \in Tab : u # t => toWorker'[u] = toWorker[u] /\ Sent(u)' = Sent(u)
           /\ Sent(t)' = Sent(t) \cup {sent[i] : i \in DOMAIN sent}
           /\ toWorker'[t] = toWorker[t] \o sent
  <1>1. toWorker \in [Tab -> Seq(Asked)] /\ toWorker[t] \in Seq(Asked)
    BY DEF TypeInv
  <1> DEFINE s == toWorker[t]
             w == s \o sent
  <1>2. /\ w \in Seq(Asked)
        /\ DOMAIN s = 1..Len(s) /\ DOMAIN sent = 1..Len(sent) /\ DOMAIN w = 1..Len(s) + Len(sent)
        /\ Len(s) \in Nat /\ Len(sent) \in Nat
        /\ \A i \in 1..Len(s) : w[i] = s[i]
        /\ \A i \in 1..Len(sent) : w[Len(s) + i] = sent[i]
        /\ \A k \in 1..Len(s) + Len(sent) : k \in 1..Len(s) \/ k - Len(s) \in 1..Len(sent)
    BY <1>1, Joined
  <1>3. toWorker'[t] = w /\ \A u \in Tab : u # t => toWorker'[u] = toWorker[u]
    BY <1>1
  <1>4. toWorker' \in [Tab -> Seq(Asked)]
    BY <1>1, <1>2
  <1> HIDE DEF w
  <1>5. {w[k] : k \in DOMAIN w} = {s[i] : i \in DOMAIN s} \cup {sent[i] : i \in DOMAIN sent}
    <2>1. ASSUME NEW k \in DOMAIN w
          PROVE  w[k] \in {s[i] : i \in DOMAIN s} \cup {sent[i] : i \in DOMAIN sent}
      <3>1. CASE k \in 1..Len(s)
        BY <1>2, <3>1
      <3>2. CASE k - Len(s) \in 1..Len(sent)
        <4>1. k = Len(s) + (k - Len(s))
          BY <1>2, <2>1
        <4>2. w[k] = sent[k - Len(s)]
          BY <1>2, <3>2, <4>1
        <4> QED  BY <1>2, <3>2, <4>2
      <3> QED  BY <1>2, <2>1, <3>1, <3>2
    <2>2. ASSUME NEW i \in DOMAIN s
          PROVE  s[i] \in {w[k] : k \in DOMAIN w}
      BY <1>2, <2>2
    <2>3. ASSUME NEW i \in DOMAIN sent
          PROVE  sent[i] \in {w[k] : k \in DOMAIN w}
      <3>1. Len(s) + i \in DOMAIN w /\ w[Len(s) + i] = sent[i]
        BY <1>2
      <3> QED  BY <3>1
    <2> QED  BY <2>1, <2>2, <2>3
  <1>6. Sent(t)' = Sent(t) \cup {sent[i] : i \in DOMAIN sent}
    BY <1>3, <1>5 DEF Sent
  <1> QED  BY <1>3, <1>4, <1>6 DEF Sent, w

LEMMA WindowSpeaks ==
    ASSUME TypeInv, NEW t \in Tab, NEW new \in Pages, NEW sent \in Seq(Asked),
           NEW fresh \in Attempts \cup {None}, WindowDoes(t, new, sent, fresh),
           UNCHANGED <<worker, prepares, rust, taken>>,
           \A u \in Tab : Heard(u)' \subseteq Heard(u)
    PROVE  /\ \A u \in Tab : u # t => Speaks(u)' \subseteq Speaks(u)
           /\ Speaks(t)' \subseteq Speaks(t) \cup ({fresh} \ {None})
           /\ \A u \in Tab : Streams(u)' \subseteq Streams(u)
  <1>1. /\ page'[t] = new /\ \A u \in Tab : u # t => page'[u] = page[u]
    BY DEF WindowDoes, TypeInv
  <1>2. /\ \A u \in Tab : u # t => Sent(u)' = Sent(u)
        /\ Sent(t)' = Sent(t) \cup {sent[i] : i \in DOMAIN sent}
    BY PostedFacts DEF WindowDoes
  <1>3. prepares' = prepares
    OBVIOUS
  <1>4. \A u \in Tab : u # t => Speaks(u)' \subseteq Speaks(u) /\ Streams(u)' \subseteq Streams(u)
    BY <1>1, <1>2, <1>3 DEF Speaks, Streams
  <1>5. ASSUME NEW a \in Speaks(t)'
        PROVE  a \in Speaks(t) \cup ({fresh} \ {None})
    <2>1. a \in Attempts /\ a # None
      BY SharedAssumption DEF Speaks
    <2>2. CASE page'[t].pending = a
      BY <1>1, <2>1, <2>2 DEF WindowDoes, Speaks
    <2>3. CASE \E m \in Sent(t)' : m.type \in {"prepare", "abandon"} /\ a = Mention(m)
      <3>1. PICK m \in Sent(t)' : m.type \in {"prepare", "abandon"} /\ a = Mention(m)
        BY <2>3
      <3>2. CASE m \in Sent(t)
        BY <2>1, <3>1, <3>2 DEF Speaks
      <3>3. CASE m \in {sent[i] : i \in DOMAIN sent}
        BY <2>1, <3>1, <3>3 DEF WindowDoes
      <3> QED  BY <1>2, <3>1, <3>2, <3>3
    <2>4. CASE \E m \in Heard(t)' : m.type = "prepared" /\ a = Mention(m)
      BY <2>1, <2>4 DEF Speaks
    <2>5. CASE \E p \in prepares' : p.lease.tab = t /\ a = Attempt(p.lease.attempt, p.network)
      BY <1>3, <2>1, <2>5 DEF Speaks
    <2> QED  BY <2>2, <2>3, <2>4, <2>5 DEF Speaks
  <1>6. ASSUME NEW x \in Streams(t)'
        PROVE  x \in Streams(t)
    <2>1. x \in [session : Nat, network : Network]
      BY DEF Streams
    <2>2. CASE /\ page'[t].active # None /\ x.session = page'[t].active.session
               /\ x.network = page'[t].active.network
      BY <1>1, <2>1, <2>2 DEF WindowDoes, Streams
    <2>3. CASE \E m \in Sent(t)' : m.type = "release" /\ x.session = m.session /\ x.network = m.network
      <3>1. PICK m \in Sent(t)' : m.type = "release" /\ x.session = m.session /\ x.network = m.network
        BY <2>3
      <3>2. CASE m \in Sent(t)
        BY <2>1, <3>1, <3>2 DEF Streams
      <3>3. CASE m \in {sent[i] : i \in DOMAIN sent}
        <4>1. /\ page[t].active # None /\ m.session = page[t].active.session
              /\ m.network = page[t].active.network
          BY <3>1, <3>3 DEF WindowDoes
        <4> QED  BY <2>1, <3>1, <4>1 DEF Streams
      <3> QED  BY <1>2, <3>1, <3>2, <3>3
    <2>4. CASE \E m \in Heard(t)' : m.type = "prepared" /\ m.ok /\ x.session = m.session /\ x.network = m.network
      BY <2>1, <2>4 DEF Streams
    <2> QED  BY <2>2, <2>3, <2>4 DEF Streams
  <1> QED  BY <1>4, <1>5, <1>6

\* A message of a window, and an answer to it, speaks of an attempt.
LEMMA Spoken ==
    ASSUME TypeInv, NEW t \in Tab
    PROVE  /\ \A m \in Sent(t) : m \in Asked
           /\ \A m \in Sent(t) : m.type \in {"prepare", "abandon"} =>
                 Mention(m) \in Speaks(t) /\ Mention(m).view = m.attempt /\ m.attempt \in Nat
                 /\ Mention(m).network = m.network
           /\ \A m \in Heard(t) : m \in Told
           /\ \A m \in Heard(t) : m.type = "prepared" =>
                 Mention(m) \in Speaks(t) /\ Mention(m).view = m.attempt /\ m.attempt \in Nat
                 /\ Mention(m).network = m.network
           /\ \A p \in prepares : p.lease.tab = t =>
                 /\ Attempt(p.lease.attempt, p.network) \in Speaks(t)
                 /\ Attempt(p.lease.attempt, p.network).view = p.lease.attempt
                 /\ Attempt(p.lease.attempt, p.network).network = p.network
           /\ \A a \in Speaks(t) : a.view \in Nat /\ a.network \in Network
           /\ page[t].view \in Nat
           /\ DOMAIN toWorker[t] = 1..Len(toWorker[t]) /\ Len(toWorker[t]) \in Nat
           /\ \A i \in DOMAIN toWorker[t] : toWorker[t][i] \in Sent(t)
  <1>1. toWorker[t] \in Seq(Asked) /\ toPage[t] \in Seq(Told) /\ page[t] \in Pages
    BY DEF TypeInv
  <1>2. DOMAIN toWorker[t] = 1..Len(toWorker[t]) /\ Len(toWorker[t]) \in Nat
        /\ \A i \in DOMAIN toWorker[t] : toWorker[t][i] \in Asked
    BY <1>1, SeqFacts
  <1>3. \A i \in DOMAIN toPage[t] : toPage[t][i] \in Told
    BY <1>1, SeqFacts
  <1>4. (\A m \in Sent(t) : m \in Asked) /\ (\A m \in Heard(t) : m \in Told)
        /\ \A i \in DOMAIN toWorker[t] : toWorker[t][i] \in Sent(t)
    BY <1>2, <1>3 DEF Sent, Heard
  <1>5. \A m \in Asked : m.type \in {"prepare", "abandon"} =>
           /\ m.attempt \in Nat /\ Mention(m) \in Attempts
           /\ Mention(m).view = m.attempt /\ Mention(m).network = m.network
    BY DEF Asked, Mention, Attempt, Attempts
  <1>6. \A m \in Told : m.type = "prepared" =>
           /\ m.attempt \in Nat /\ Mention(m) \in Attempts
           /\ Mention(m).view = m.attempt /\ Mention(m).network = m.network
    BY DEF Told, Mention, Attempt, Attempts
  <1>7. \A p \in prepares :
           /\ Attempt(p.lease.attempt, p.network) \in Attempts
           /\ Attempt(p.lease.attempt, p.network).view = p.lease.attempt
           /\ Attempt(p.lease.attempt, p.network).network = p.network
    BY DEF TypeInv, Leases, Attempt, Attempts
  <1>8. /\ \A a \in Speaks(t) : a.view \in Nat /\ a.network \in Network
        /\ page[t].view \in Nat
    BY <1>1 DEF Speaks, Attempts, Pages
  <1>9. \A m \in Sent(t) : m.type \in {"prepare", "abandon"} => Mention(m) \in Speaks(t)
    BY <1>4, <1>5 DEF Speaks
  <1>10. \A m \in Heard(t) : m.type = "prepared" => Mention(m) \in Speaks(t)
    BY <1>4, <1>6 DEF Speaks
  <1>11. \A p \in prepares : p.lease.tab = t => Attempt(p.lease.attempt, p.network) \in Speaks(t)
    BY <1>7 DEF Speaks
  <1> QED  BY <1>2, <1>4, <1>5, <1>6, <1>7, <1>8, <1>9, <1>10, <1>11

LEMMA WindowDoesKeeps ==
    ASSUME TypeInv, StreamInv, NEW t \in Tab, NEW new \in Pages, NEW sent \in Seq(Asked),
           NEW fresh \in Attempts \cup {None}, WindowDoes(t, new, sent, fresh),
           Hears(t, new, sent), UNCHANGED <<worker, prepares, rust, taken>>
    PROVE  StreamInv'
  <1>1. /\ page'[t] = new /\ \A u \in Tab : u # t => page'[u] = page[u]
    BY DEF WindowDoes, TypeInv
  <1>2. /\ \A u \in Tab : u # t => toWorker'[u] = toWorker[u] /\ Sent(u)' = Sent(u)
        /\ Sent(t)' = Sent(t) \cup {sent[i] : i \in DOMAIN sent}
        /\ toWorker'[t] = toWorker[t] \o sent
    BY PostedFacts DEF WindowDoes
  <1>3. /\ \A u \in Tab : Heard(u)' \subseteq Heard(u)
        /\ \A u \in Tab : u # t => Heard(u)' = Heard(u)
    <2>1. CASE toPage' = toPage
      BY <2>1 DEF Heard
    <2>2. ASSUME NEW m \in Told, Consumes(t, m)
          PROVE  /\ \A u \in Tab : Heard(u)' \subseteq Heard(u)
                 /\ \A u \in Tab : u # t => Heard(u)' = Heard(u)
      BY <2>2, ConsumeFacts
    <2> QED  BY <2>1, <2>2 DEF Hears
  <1>5. /\ \A u \in Tab : u # t => Speaks(u)' \subseteq Speaks(u)
        /\ Speaks(t)' \subseteq Speaks(t) \cup ({fresh} \ {None})
        /\ \A u \in Tab : Streams(u)' \subseteq Streams(u)
    BY <1>3, WindowSpeaks
  <1>6. worker' = worker /\ prepares' = prepares /\ rust' = rust /\ taken' = taken
    OBVIOUS
  <1>7. /\ page[t] \in Pages /\ page[t].view \in Nat /\ new.view \in Nat /\ page[t].view <= new.view
        /\ fresh # None => fresh.view \in Nat /\ page[t].view < fresh.view /\ fresh.view <= new.view
    BY DEF TypeInv, Pages, WindowDoes, Attempts
  <1> DEFINE s == toWorker[t]
             w == s \o sent
  <1>8. /\ DOMAIN s = 1..Len(s) /\ DOMAIN sent = 1..Len(sent) /\ DOMAIN w = 1..Len(s) + Len(sent)
        /\ Len(w) = Len(s) + Len(sent) /\ Len(s) \in Nat /\ Len(sent) \in Nat
        /\ \A i \in 1..Len(s) : w[i] = s[i]
        /\ \A i \in 1..Len(sent) : w[Len(s) + i] = sent[i]
        /\ \A k \in 1..Len(s) + Len(sent) : k \in 1..Len(s) \/ k - Len(s) \in 1..Len(sent)
    <2>1. s \in Seq(Asked)
      BY DEF TypeInv
    <2> QED  BY <2>1, Joined
  <1>9. toWorker'[t] = w
    BY <1>2
  <1> HIDE DEF w
  <1>10. ASSUME NEW k \in DOMAIN w
         PROVE  \/ k \in DOMAIN s /\ w[k] = s[k]
                \/ \E i \in DOMAIN sent : k = Len(s) + i /\ w[k] = sent[i]
    <2>1. CASE k \in 1..Len(s)
      BY <1>8, <2>1
    <2>2. CASE k - Len(s) \in 1..Len(sent)
      <3>1. k = Len(s) + (k - Len(s))
        BY <1>8
      <3> QED  BY <1>8, <2>2, <3>1
    <2> QED  BY <1>8, <2>1, <2>2
  <1>11. \A i \in DOMAIN sent : Len(s) + i \in DOMAIN w /\ w[Len(s) + i] = sent[i]
    BY <1>8
  <1>12. /\ \A a \in Speaks(t) : a.view \in Nat /\ a.view <= page[t].view
         /\ \A a, b \in Speaks(t) : a.view = b.view => a = b
    BY Spoken DEF StreamInv, AttemptsInv
  <1>13. ClientsInv'
    <2> SUFFICES ASSUME NEW u \in Tab
                 PROVE  /\ page'[u].here => u \in worker.clients /\ \A m \in Sent(u)' : m.type # "close"
                        /\ ~page'[u].here => page'[u].pending = None /\ page'[u].active = None
                        /\ u \notin worker.clients => toWorker'[u] = <<>>
                        /\ \A i \in DOMAIN toWorker'[u] :
                              toWorker'[u][i].type = "close" => i = Len(toWorker'[u])
                        /\ page'[u].pending = None \/ page'[u].active = None
      BY <1>6 DEF StreamInv, ClientsInv
    <2>1. CASE u # t
      BY <1>1, <1>2, <2>1 DEF StreamInv, ClientsInv
    <2>2. CASE u = t
      <3>1. page'[t].here => t \in worker.clients /\ \A m \in Sent(t)' : m.type # "close"
        BY <1>1, <1>2 DEF StreamInv, ClientsInv, WindowDoes
      <3>2. ~page'[t].here => page'[t].pending = None /\ page'[t].active = None
        BY <1>1 DEF StreamInv, ClientsInv, WindowDoes
      <3>3. t \notin worker.clients => toWorker'[t] = <<>>
        BY <1>2 DEF StreamInv, ClientsInv, WindowDoes
      <3>4. ASSUME NEW i \in DOMAIN w, w[i].type = "close"
            PROVE  i = Len(w)
        <4>1. CASE i \in DOMAIN s /\ w[i] = s[i]
          <5>1. s[i] \in Sent(t)
            BY <4>1 DEF Sent
          <5>2. ~page[t].here /\ i = Len(s)
            BY <3>4, <4>1, <5>1 DEF StreamInv, ClientsInv
          <5>3. Len(sent) = 0
            BY <5>2 DEF WindowDoes
          <5> QED  BY <1>8, <5>2, <5>3
        <4>2. CASE \E j \in DOMAIN sent : i = Len(s) + j /\ w[i] = sent[j]
          BY <1>8, <3>4, <4>2 DEF WindowDoes
        <4> QED  BY <1>10, <4>1, <4>2
      <3>5. page'[t].pending = None \/ page'[t].active = None
        BY <1>1 DEF WindowDoes
      <3> QED  BY <1>9, <2>2, <3>1, <3>2, <3>3, <3>4, <3>5
    <2> QED  BY <2>1, <2>2
  <1>14. PlaysInv'
    BY <1>6 DEF StreamInv, PlaysInv, Owns
  <1>15. AttemptsInv'
    <2>1. ASSUME NEW u \in Tab, NEW a \in Speaks(u)'
          PROVE  a.view <= page'[u].view /\ \A b \in Speaks(u)' : a.view = b.view => a = b
      <3>1. CASE u # t
        BY <1>1, <1>5, <2>1, <3>1 DEF StreamInv, AttemptsInv
      <3>2. CASE u = t
        BY <1>1, <1>5, <1>7, <1>12, <2>1, <3>2
      <3> QED  BY <3>1, <3>2
    <2>2. ASSUME NEW u \in Tab, worker.lease # None, worker.lease.tab = u
          PROVE  /\ worker.lease.attempt <= page'[u].view
                 /\ \A a \in Speaks(u)' :
                       a.view = worker.lease.attempt => a.network = worker.network
      <3>1. worker.lease.attempt \in Nat
        BY <2>2 DEF TypeInv, Workers, Leases
      <3>2. /\ worker.lease.attempt <= page[u].view
            /\ \A a \in Speaks(u) : a.view = worker.lease.attempt => a.network = worker.network
        BY <2>2 DEF StreamInv, AttemptsInv
      <3>3. CASE u # t
        BY <1>1, <1>5, <3>2, <3>3
      <3>4. CASE u = t
        <4>1. Speaks(u)' \subseteq Speaks(t) \cup ({fresh} \ {None})
          BY <1>5, <3>4
        <4> QED  BY <1>1, <1>7, <3>1, <3>2, <3>4, <4>1
      <3> QED  BY <3>3, <3>4
    <2>3. ASSUME NEW k \in taken
          PROVE  k[2] <= page'[k[1]].view
      <3>1. k[1] \in Tab /\ k[2] \in Nat /\ k[2] <= page[k[1]].view
        BY DEF StreamInv, AttemptsInv, TakenInv
      <3> QED  BY <1>1, <1>7, <3>1
    <2> QED  BY <1>6, <2>1, <2>2, <2>3 DEF AttemptsInv
  <1>16. StreamsInv'
    BY <1>5, <1>6 DEF StreamInv, StreamsInv
  <1>17. \A u \in Tab : \A v : Unknown(u, v) => Unknown(u, v)'
    BY <1>3, <1>6 DEF Unknown
  <1>18. ASSUME fresh # None
         PROVE  Unknown(t, fresh.view)'
    <2>1. Unknown(t, fresh.view)
      <3>1. \A p \in prepares : Key(p.lease) # <<t, fresh.view>>
        <4> SUFFICES ASSUME NEW p \in prepares, Key(p.lease) = <<t, fresh.view>>
                     PROVE  FALSE
          OBVIOUS
        <4>1. p.lease.tab = t /\ p.lease.attempt = fresh.view
          BY DEF Key
        <4>2. Attempt(p.lease.attempt, p.network) \in Speaks(t)
              /\ Attempt(p.lease.attempt, p.network).view = p.lease.attempt
          BY <4>1, Spoken
        <4> QED  BY <1>7, <1>12, <1>18, <4>1, <4>2
      <3>2. worker.lease # None => Key(worker.lease) # <<t, fresh.view>>
        <4> SUFFICES ASSUME worker.lease # None, Key(worker.lease) = <<t, fresh.view>>
                     PROVE  FALSE
          OBVIOUS
        <4>1. worker.lease.tab = t /\ worker.lease.attempt = fresh.view
          BY DEF Key
        <4> QED  BY <1>7, <1>18, <4>1 DEF StreamInv, AttemptsInv
      <3>3. <<t, fresh.view>> \notin taken
        BY <1>7, <1>18 DEF StreamInv, AttemptsInv
      <3>4. \A m \in Heard(t) : m.type = "prepared" => m.attempt # fresh.view
        BY <1>7, <1>12, <1>18, Spoken
      <3> QED  BY <3>1, <3>2, <3>3, <3>4 DEF Unknown
    <2> QED  BY <1>17, <2>1
  <1>19. FreshInv'
    <2> SUFFICES ASSUME NEW u \in Tab, NEW v \in Nat,
                        NEW i \in DOMAIN toWorker'[u], Asks(toWorker'[u][i], v)
                 PROVE  /\ Unknown(u, v)'
                        /\ \A j \in DOMAIN toWorker'[u] : Asks(toWorker'[u][j], v) => i = j
      BY DEF FreshInv
    <2>1. CASE u # t
      <3>1. toWorker'[u] = toWorker[u]
        BY <1>2, <2>1
      <3> QED  BY <1>17, <3>1 DEF StreamInv, FreshInv
    <2>2. CASE u = t
      <3>1. i \in DOMAIN w /\ Asks(w[i], v)
        BY <1>9, <2>2
      <3>2. \A j \in DOMAIN s : Asks(s[j], v) => v <= page[t].view
        BY <1>12, Spoken DEF Asks
      <3>3. \A j \in DOMAIN sent : Asks(sent[j], v) =>
               j = Len(sent) /\ fresh # None /\ v = fresh.view
        <4> SUFFICES ASSUME NEW j \in DOMAIN sent, Asks(sent[j], v)
                     PROVE  j = Len(sent) /\ fresh # None /\ v = fresh.view
          OBVIOUS
        <4>1. j = Len(sent) /\ fresh # None /\ Mention(sent[j]) = fresh
          BY DEF WindowDoes, Asks
        <4> QED  BY <4>1 DEF Mention, Attempt, Asks
      <3>4. CASE i \in DOMAIN s /\ w[i] = s[i]
        <4>1. /\ Unknown(t, v)
              /\ \A j \in DOMAIN s : Asks(s[j], v) => i = j
          BY <3>1, <3>4 DEF StreamInv, FreshInv
        <4>2. ASSUME NEW j \in DOMAIN w, Asks(w[j], v)
              PROVE  i = j
          <5>1. CASE j \in DOMAIN s /\ w[j] = s[j]
            BY <4>1, <4>2, <5>1
          <5>2. CASE \E l \in DOMAIN sent : j = Len(s) + l /\ w[j] = sent[l]
            BY <1>7, <3>1, <3>2, <3>3, <3>4, <4>2, <5>2
          <5> QED  BY <1>10, <5>1, <5>2
        <4> QED  BY <1>9, <1>17, <2>2, <4>1, <4>2
      <3>5. CASE \E l \in DOMAIN sent : i = Len(s) + l /\ w[i] = sent[l]
        <4>1. PICK l \in DOMAIN sent : i = Len(s) + l /\ w[i] = sent[l]
          BY <3>5
        <4>2. l = Len(sent) /\ fresh # None /\ v = fresh.view
          BY <3>1, <3>3, <4>1
        <4>3. ASSUME NEW j \in DOMAIN w, Asks(w[j], v)
              PROVE  i = j
          <5>1. CASE j \in DOMAIN s /\ w[j] = s[j]
            BY <1>7, <3>2, <4>2, <4>3, <5>1
          <5>2. CASE \E n \in DOMAIN sent : j = Len(s) + n /\ w[j] = sent[n]
            BY <3>3, <4>1, <4>2, <4>3, <5>2
          <5> QED  BY <1>10, <5>1, <5>2
        <4> QED  BY <1>9, <1>18, <2>2, <4>2, <4>3
      <3> QED  BY <1>10, <3>1, <3>4, <3>5
    <2> QED  BY <2>1, <2>2
  <1>20. AnswersInv'
    BY <1>3, <1>6 DEF StreamInv, AnswersInv
  <1>21. \A v : Pends(page[t], v) =>
            Pends(new, v) \/ \E i \in DOMAIN sent : Undoes(sent[i], v)
    BY DEF WindowDoes, Pends
  <1>22. PromisedInv'
    <2> SUFFICES ASSUME NEW u \in Tab, NEW v \in Nat,
                        NEW i \in DOMAIN toWorker'[u], Asks(toWorker'[u][i], v)
                 PROVE  \/ Pends(page'[u], v)
                        \/ \E j \in DOMAIN toWorker'[u] : i < j /\ Undoes(toWorker'[u][j], v)
      BY DEF PromisedInv
    <2>1. CASE u # t
      BY <1>1, <1>2, <2>1 DEF StreamInv, PromisedInv
    <2>2. CASE u = t
      <3>1. i \in DOMAIN w /\ Asks(w[i], v)
        BY <1>9, <2>2
      <3>2. CASE i \in DOMAIN s /\ w[i] = s[i]
        <4>1. Pends(page[t], v) \/ \E j \in DOMAIN s : i < j /\ Undoes(s[j], v)
          BY <3>1, <3>2 DEF StreamInv, PromisedInv
        <4>2. CASE \E j \in DOMAIN s : i < j /\ Undoes(s[j], v)
          <5>1. PICK j \in DOMAIN s : i < j /\ Undoes(s[j], v)
            BY <4>2
          <5>2. j \in DOMAIN w /\ w[j] = s[j]
            BY <1>8
          <5> QED  BY <1>9, <2>2, <5>1, <5>2
        <4>3. CASE \E l \in DOMAIN sent : Undoes(sent[l], v)
          <5>1. PICK l \in DOMAIN sent : Undoes(sent[l], v)
            BY <4>3
          <5>2. Len(s) + l \in DOMAIN w /\ w[Len(s) + l] = sent[l] /\ i < Len(s) + l
            BY <1>8, <1>11, <3>2
          <5> QED  BY <1>9, <2>2, <5>1, <5>2
        <4>4. CASE Pends(new, v)
          BY <1>1, <2>2, <4>4
        <4> QED  BY <1>21, <4>1, <4>2, <4>3, <4>4
      <3>3. CASE \E l \in DOMAIN sent : i = Len(s) + l /\ w[i] = sent[l]
        <4>1. PICK l \in DOMAIN sent : i = Len(s) + l /\ w[i] = sent[l]
          BY <3>3
        <4>2. fresh # None /\ Mention(sent[l]) = fresh /\ new.pending = fresh /\ fresh \in new.awaiting
          BY <3>1, <4>1 DEF WindowDoes, Asks
        <4>3. fresh.view = v
          BY <3>1, <4>1, <4>2 DEF Mention, Attempt, Asks
        <4>4. Pends(new, v)
          BY <4>2, <4>3 DEF Pends
        <4> QED  BY <1>1, <2>2, <4>4
      <3> QED  BY <1>10, <3>1, <3>2, <3>3
    <2> QED  BY <2>1, <2>2
  <1>23. LeaseInv'
    <2> SUFFICES ASSUME NEW u \in Tab, NEW v \in Nat, NEW n \in Nat,
                        worker.lease = Lease(u, v, n)
                 PROVE  LookedAfter(u, v, n)'
      BY <1>6 DEF LeaseInv
    <2>1. LookedAfter(u, v, n)
      BY DEF StreamInv, LeaseInv
    <2>2. CASE u # t
      <3>1. page'[u] = page[u] /\ Sent(u)' = Sent(u) /\ Heard(u)' = Heard(u)
        BY <1>1, <1>2, <1>3, <2>2
      <3> QED  BY <1>6, <2>1, <3>1 DEF LookedAfter, Shows
    <2>3. CASE u = t
      <3> SUFFICES LookedAfter(t, v, n)'
        BY <2>3
      <3>1. Sent(t) \subseteq Sent(t)' /\ \A i \in DOMAIN sent : sent[i] \in Sent(t)'
        BY <1>2
      <3>2. (\E i \in DOMAIN sent : Undoes(sent[i], v)) => LookedAfter(t, v, n)'
        BY <3>1 DEF LookedAfter
      <3>3. CASE \E m \in Sent(t) : Undoes(m, v) \/ Returns(m, n)
        BY <3>1, <3>3 DEF LookedAfter
      <3>4. CASE Pends(page[t], v) /\ n = 0 /\ \E p \in prepares : Key(p.lease) = <<t, v>>
        <4>1. Pends(page'[t], v) => LookedAfter(t, v, n)'
          BY <1>6, <3>4 DEF LookedAfter
        <4> QED  BY <1>1, <1>21, <3>2, <3>4, <4>1
      <3>5. CASE Pends(page[t], v) /\ \E m \in Heard(t) : m.type = "prepared" /\ m.ok /\ m.attempt = v
        <4>1. PICK m \in Heard(t) : m.type = "prepared" /\ m.ok /\ m.attempt = v
          BY <3>5
        <4>2. CASE m \in Heard(t)'
          <5>1. Pends(page'[t], v) => LookedAfter(t, v, n)'
            BY <4>1, <4>2 DEF LookedAfter
          <5> QED  BY <1>1, <1>21, <3>2, <3>5, <5>1
        <4>3. CASE m \notin Heard(t)'
          <5>1. PICK x \in Told :
                   /\ Consumes(t, x)
                   /\ x.type = "prepared" /\ Pends(page[t], x.attempt) /\ page[t].pending = Mention(x)
                         => \E i \in DOMAIN sent : Undoes(sent[i], x.attempt)
            BY <4>3 DEF Hears, Heard
          <5>2. x = m
            BY <4>3, <5>1, ConsumeFacts
          <5>3. /\ Mention(m) \in Speaks(t) /\ Mention(m).view = v
                /\ page[t].pending \in Speaks(t) /\ page[t].pending.view = v
            BY <3>5, <4>1, Spoken, PendingSpoken DEF Pends
          <5>4. page[t].pending = Mention(m)
            BY <1>12, <5>3
          <5> QED  BY <3>2, <3>5, <4>1, <5>1, <5>2, <5>4
        <4> QED  BY <4>2, <4>3
      <3>6. CASE n # 0 /\ Shows(t, v) /\ page[t].active.session = n
        <4>1. \/ new.active = page[t].active
              \/ \E i \in DOMAIN sent :
                    \/ sent[i].type = "close"
                    \/ sent[i].type = "release" /\ sent[i].session = page[t].active.session
          BY <3>6 DEF WindowDoes, Shows
        <4>2. CASE new.active = page[t].active
          BY <1>1, <3>6, <4>2 DEF LookedAfter, Shows
        <4>3. CASE \E i \in DOMAIN sent : Undoes(sent[i], v) \/ Returns(sent[i], n)
          BY <3>1, <4>3 DEF LookedAfter
        <4> QED  BY <3>6, <4>1, <4>2, <4>3 DEF Undoes, Returns
      <3> QED  BY <2>1, <2>3, <3>3, <3>4, <3>5, <3>6 DEF LookedAfter
    <2> QED  BY <2>2, <2>3
  <1>24. TakenInv'
    <2> SUFFICES ASSUME NEW k \in taken
                 PROVE  \/ \E m \in Heard(k[1])' : m.type = "replaced" /\ m.attempt = k[2]
                        \/ /\ ~Shows(k[1], k[2])'
                           /\ page'[k[1]].pending # None => page'[k[1]].pending.view # k[2]
      BY <1>6 DEF StreamInv, TakenInv
    <2>1. PICK u \in Tab, v \in Nat : k = <<u, v>> /\ k[1] = u /\ k[2] = v
      BY DEF StreamInv, TakenInv
    <2>2. /\ v <= page[u].view
          /\ \/ \E m \in Heard(u) : m.type = "replaced" /\ m.attempt = v
             \/ ~Shows(u, v) /\ (page[u].pending # None => page[u].pending.view # v)
      BY <2>1 DEF StreamInv, TakenInv, AttemptsInv
    <2>3. CASE u # t
      <3>1. page'[u] = page[u] /\ Heard(u)' = Heard(u)
        BY <1>1, <1>3, <2>3
      <3> QED  BY <2>1, <2>2, <3>1 DEF Shows
    <2>4. CASE u = t
      <3>1. CASE ~Shows(t, v) /\ (page[t].pending # None => page[t].pending.view # v)
        BY <1>1, <1>7, <2>1, <2>2, <2>4, <3>1 DEF WindowDoes, Shows
      <3>2. CASE \E m \in Heard(t) : m.type = "replaced" /\ m.attempt = v
        <4>1. PICK m \in Heard(t) : m.type = "replaced" /\ m.attempt = v
          BY <3>2
        <4>2. CASE m \in Heard(t)'
          BY <2>1, <2>4, <4>1, <4>2
        <4>3. CASE m \notin Heard(t)'
          <5>1. PICK x \in Told :
                   /\ Consumes(t, x)
                   /\ x.type = "replaced" =>
                         /\ new.pending # None => new.pending.view # x.attempt
                         /\ new.active # None => new.active.view # x.attempt
            BY <4>3 DEF Hears, Heard
          <5>2. x = m
            BY <4>3, <5>1, ConsumeFacts
          <5> QED  BY <1>1, <2>1, <2>4, <4>1, <5>1, <5>2 DEF Shows
        <4> QED  BY <4>2, <4>3
      <3> QED  BY <2>2, <2>4, <3>1, <3>2
    <2> QED  BY <2>3, <2>4
  <1> QED
    BY <1>13, <1>14, <1>15, <1>16, <1>19, <1>20, <1>22, <1>23, <1>24 DEF StreamInv

-----------------------------------------------------------------------------
(* A window takes the stream that was prepared for it.                     *)
Takes(t, m) ==
    LET attempt == Mention(m)
    IN  /\ Consumes(t, m) /\ m.type = "prepared" /\ m.ok
        /\ Pends(page[t], m.attempt) /\ page[t].pending = attempt /\ page[t].here
        /\ \E new \in Pages :
              /\ page' = [page EXCEPT ![t] = new]
              /\ new.here = page[t].here /\ new.view = page[t].view
              /\ new.awaiting = page[t].awaiting \ {attempt} /\ new.pending = None
              /\ new.active = [view |-> m.attempt, session |-> m.session, network |-> m.network]
        /\ UNCHANGED <<toWorker, worker, prepares, rust, taken>>

LEMMA TakesKeeps ==
    ASSUME TypeInv, StreamInv, NEW t \in Tab, NEW m \in Told, Takes(t, m)
    PROVE  StreamInv'
  <1>1. /\ m \in Heard(t) /\ m.type = "prepared" /\ m.ok /\ Consumes(t, m)
        /\ Pends(page[t], m.attempt) /\ page[t].pending = Mention(m) /\ page[t].here
        /\ toWorker' = toWorker /\ worker' = worker /\ prepares' = prepares
        /\ rust' = rust /\ taken' = taken
    BY ConsumeFacts DEF Takes
  <1>2. PICK new \in Pages :
           /\ page' = [page EXCEPT ![t] = new]
           /\ new.here = page[t].here /\ new.view = page[t].view
           /\ new.pending = None
           /\ new.active = [view |-> m.attempt, session |-> m.session, network |-> m.network]
    BY DEF Takes
  <1>3. /\ m.attempt \in Nat /\ m.session \in Nat /\ m.network \in Network
        /\ new.active \in Actives /\ new.active # None
        /\ new.active.view = m.attempt /\ new.active.session = m.session
        /\ new.active.network = m.network
    <2>1. m.attempt \in Nat /\ m.session \in Nat /\ m.network \in Network
      BY <1>1 DEF Told
    <2>2. PICK active \in Actives :
             active = [view |-> m.attempt, session |-> m.session, network |-> m.network]
      BY <2>1 DEF Actives
    <2>3. active.view = m.attempt /\ active.session = m.session /\ active.network = m.network
      BY <2>2
    <2> QED  BY <1>2, <2>1, <2>2, <2>3, SharedAssumption
  <1>4. page'[t] = new /\ \A u \in Tab : u # t => page'[u] = page[u]
    BY <1>2 DEF TypeInv
  <1>5. /\ \A u \in Tab : Heard(u)' \subseteq Heard(u) /\ Sent(u)' = Sent(u)
        /\ \A u \in Tab : \A x \in Heard(u) : x \in Heard(u)' \/ (u = t /\ x = m)
    BY <1>1, ConsumeFacts DEF Sent
  <1>6. /\ page[t].pending # None /\ page[t].pending.view = m.attempt /\ page[t].active = None
        /\ page[t].view \in Nat
    BY <1>1 DEF Pends, StreamInv, ClientsInv, TypeInv, Pages
  <1>7. \A u \in Tab : Speaks(u)' \subseteq Speaks(u)
    <2> SUFFICES ASSUME NEW u \in Tab, NEW a \in Speaks(u)'
                 PROVE  a \in Speaks(u)
      OBVIOUS
    <2>1. a \in Attempts /\ a # None
      BY SharedAssumption DEF Speaks
    <2>2. CASE page'[u].pending = a
      BY <1>2, <1>4, <2>1, <2>2 DEF Speaks
    <2>3. CASE page'[u].pending # a
      BY <1>1, <1>5, <2>1, <2>3 DEF Speaks
    <2> QED  BY <2>2, <2>3
  <1>8. \A u \in Tab : Streams(u)' \subseteq Streams(u)
    <2> SUFFICES ASSUME NEW u \in Tab, NEW x \in Streams(u)'
                 PROVE  x \in Streams(u)
      OBVIOUS
    <2>1. x \in [session : Nat, network : Network]
      BY DEF Streams
    <2>2. CASE /\ u = t /\ page'[u].active # None /\ x.session = page'[u].active.session
               /\ x.network = page'[u].active.network
      BY <1>1, <1>3, <1>4, <2>1, <2>2 DEF Streams
    <2>3. CASE \/ u # t /\ page'[u].active # None /\ x.session = page'[u].active.session
                        /\ x.network = page'[u].active.network
               \/ \E y \in Sent(u)' : y.type = "release" /\ x.session = y.session /\ x.network = y.network
               \/ \E y \in Heard(u)' :
                     y.type = "prepared" /\ y.ok /\ x.session = y.session /\ x.network = y.network
      <3>1. CASE u # t /\ page'[u].active # None /\ x.session = page'[u].active.session
                       /\ x.network = page'[u].active.network
        BY <1>4, <2>1, <3>1 DEF Streams
      <3>2. CASE \E y \in Sent(u)' :
                    y.type = "release" /\ x.session = y.session /\ x.network = y.network
        BY <1>5, <2>1, <3>2 DEF Streams
      <3>3. CASE \E y \in Heard(u)' :
                    y.type = "prepared" /\ y.ok /\ x.session = y.session /\ x.network = y.network
        BY <1>5, <2>1, <3>3 DEF Streams
      <3> QED  BY <2>3, <3>1, <3>2, <3>3
    <2> QED  BY <2>2, <2>3 DEF Streams
  <1>9. ClientsInv'
    <2>1. /\ page'[t].here /\ page[t].here /\ page'[t].pending = None
          /\ \A u \in Tab : u # t => page'[u] = page[u]
      BY <1>1, <1>2, <1>4
    <2>2. toWorker' = toWorker /\ worker' = worker /\ \A u \in Tab : Sent(u)' = Sent(u)
      BY <1>1, <1>5
    <2> QED  BY <2>1, <2>2 DEF StreamInv, ClientsInv
  <1>10. PlaysInv'
    BY <1>1 DEF StreamInv, PlaysInv, Owns
  <1>11. \A u \in Tab : page'[u].view = page[u].view
    BY <1>2, <1>4
  <1>12. AttemptsInv'
    <2>1. ASSUME NEW u \in Tab, NEW a \in Speaks(u)'
          PROVE  a.view <= page'[u].view /\ \A b \in Speaks(u)' : a.view = b.view => a = b
      BY <1>7, <1>11 DEF StreamInv, AttemptsInv
    <2>2. ASSUME NEW u \in Tab, worker.lease # None, worker.lease.tab = u
          PROVE  /\ worker.lease.attempt <= page'[u].view
                 /\ \A a \in Speaks(u)' :
                       a.view = worker.lease.attempt => a.network = worker.network
      BY <1>7, <1>11, <2>2 DEF StreamInv, AttemptsInv
    <2>3. ASSUME NEW k \in taken
          PROVE  k[2] <= page'[k[1]].view
      <3>1. k[1] \in Tab /\ k[2] <= page[k[1]].view
        BY DEF StreamInv, AttemptsInv, TakenInv
      <3> QED  BY <1>11, <3>1
    <2> QED  BY <1>1, <2>1, <2>2, <2>3 DEF AttemptsInv
  <1>13. StreamsInv'
    BY <1>1, <1>8 DEF StreamInv, StreamsInv
  <1>14. \A u \in Tab, v \in Nat : Unknown(u, v) => Unknown(u, v)'
    BY <1>1, <1>5 DEF Unknown
  <1>15. FreshInv'
    BY <1>1, <1>14 DEF StreamInv, FreshInv
  <1>16. AnswersInv'
    BY <1>1, <1>5 DEF StreamInv, AnswersInv
  <1>17. PromisedInv'
    <2> SUFFICES ASSUME NEW u \in Tab, NEW v \in Nat,
                        NEW i \in DOMAIN toWorker[u], Asks(toWorker[u][i], v)
                 PROVE  \/ Pends(page'[u], v)
                        \/ \E j \in DOMAIN toWorker[u] : i < j /\ Undoes(toWorker[u][j], v)
      BY <1>1 DEF PromisedInv
    <2>1. \/ Pends(page[u], v)
          \/ \E j \in DOMAIN toWorker[u] : i < j /\ Undoes(toWorker[u][j], v)
      BY DEF StreamInv, PromisedInv
    <2>2. CASE u # t
      BY <1>4, <2>1, <2>2
    <2>3. CASE u = t /\ Pends(page[u], v)
      <3>1. v = m.attempt
        BY <1>6, <2>3 DEF Pends
      <3>2. Unknown(t, v)
        BY <2>3 DEF StreamInv, FreshInv
      <3> QED  BY <1>1, <3>1, <3>2 DEF Unknown
    <2> QED  BY <2>1, <2>2, <2>3
  <1>18. LeaseInv'
    <2> SUFFICES ASSUME NEW u \in Tab, NEW v \in Nat, NEW n \in Nat,
                        worker.lease = Lease(u, v, n)
                 PROVE  LookedAfter(u, v, n)'
      BY <1>1 DEF LeaseInv
    <2>1. LookedAfter(u, v, n)
      BY DEF StreamInv, LeaseInv
    <2>2. CASE u # t
      <3>1. page'[u] = page[u] /\ Sent(u)' = Sent(u) /\ Heard(u) \subseteq Heard(u)'
        BY <1>4, <1>5, <2>2
      <3> QED  BY <1>1, <2>1, <3>1 DEF LookedAfter, Shows
    <2>3. CASE u = t
      <3> SUFFICES LookedAfter(t, v, n)'
        BY <2>3
      <3>1. CASE \E x \in Sent(t) : Undoes(x, v) \/ Returns(x, n)
        BY <1>5, <3>1 DEF LookedAfter
      <3>2. CASE Pends(page[t], v)
        <4>1. v = m.attempt
          BY <1>6, <3>2 DEF Pends
        <4>2. n = m.session
          BY <1>1, <2>3, <4>1 DEF StreamInv, AnswersInv
        <4>3. n # 0
          <5>1. PICK x \in [session : Nat, network : Network] :
                   x = [session |-> m.session, network |-> m.network]
            BY <1>3
          <5>2. x.session = m.session /\ x.network = m.network
            BY <5>1
          <5>3. x \in Streams(t)
            BY <1>1, <5>2 DEF Streams
          <5> QED  BY <4>2, <5>2, <5>3 DEF StreamInv, StreamsInv
        <4> QED  BY <1>3, <1>4, <4>1, <4>2, <4>3 DEF LookedAfter, Shows
      <3>3. ~Shows(t, v)
        BY <1>6 DEF Shows
      <3> QED  BY <2>1, <2>3, <3>1, <3>2, <3>3 DEF LookedAfter
    <2> QED  BY <2>2, <2>3
  <1>19. TakenInv'
    <2> SUFFICES ASSUME NEW k \in taken
                 PROVE  \/ \E x \in Heard(k[1])' : x.type = "replaced" /\ x.attempt = k[2]
                        \/ /\ ~Shows(k[1], k[2])'
                           /\ page'[k[1]].pending # None => page'[k[1]].pending.view # k[2]
      BY <1>1 DEF StreamInv, TakenInv
    <2>1. PICK u \in Tab, v \in Nat : k = <<u, v>> /\ k[1] = u /\ k[2] = v
      BY DEF StreamInv, TakenInv
    <2>2. \/ \E x \in Heard(u) : x.type = "replaced" /\ x.attempt = v
          \/ ~Shows(u, v) /\ (page[u].pending # None => page[u].pending.view # v)
      BY <2>1 DEF StreamInv, TakenInv
    <2>3. CASE \E x \in Heard(u) : x.type = "replaced" /\ x.attempt = v
      BY <1>1, <1>5, <2>1, <2>3
    <2>4. CASE ~Shows(u, v) /\ (page[u].pending # None => page[u].pending.view # v)
      <3>1. CASE u # t
        BY <1>4, <2>1, <2>4, <3>1 DEF Shows
      <3>2. CASE u = t
        BY <1>2, <1>3, <1>4, <1>6, <2>1, <2>4, <3>2 DEF Shows
      <3> QED  BY <3>1, <3>2
    <2> QED  BY <2>2, <2>3, <2>4
  <1> QED
    BY <1>9, <1>10, <1>12, <1>13, <1>15, <1>16, <1>17, <1>18, <1>19 DEF StreamInv

\* A window hears of its stream.
LEMMA DeliverStream ==
    ASSUME TypeInv, StreamInv, NEW t \in Tab, Deliver(t)
    PROVE  StreamInv'
  <1>1. /\ page \in [Tab -> Pages] /\ page[t] \in Pages /\ page[t].view \in Nat
        /\ toWorker \in [Tab -> Seq(Asked)] /\ toPage[t] \in Seq(Told) /\ ClientsInv
        /\ page[t].pending = None \/ page[t].active = None
    BY DEF TypeInv, Pages, StreamInv, ClientsInv
  <1>2. /\ toPage[t] # <<>> /\ toPage' = [toPage EXCEPT ![t] = Tail(@)]
        /\ UNCHANGED <<worker, prepares, rust, taken>>
    BY DEF Deliver
  <1>3. PICK m \in Told : m = Head(toPage[t])
    BY <1>1, <1>2
  <1>4. Consumes(t, m) /\ m \in Heard(t)
    BY <1>2, <1>3, ConsumeFacts DEF Consumes
  <1>5. /\ <<>> \in Seq(Asked) /\ DOMAIN <<>> = {} /\ \A s \in Seq(Asked) : s \o <<>> = s
        /\ \A a \in Asked : <<a>> \in Seq(Asked) /\ DOMAIN <<a>> = {1} /\ <<a>>[1] = a /\ Len(<<a>>) = 1
    OBVIOUS
  <1>6. PICK silent \in Seq(Asked) : silent = <<>> /\ DOMAIN silent = {}
    BY <1>5
  <1>7. UNCHANGED toWorker => toWorker' = [toWorker EXCEPT ![t] = @ \o silent]
    BY <1>1, <1>5, <1>6
  <1>8. ASSUME UNCHANGED <<page, toWorker>>,
               ~(m.type = "prepared" /\ Pends(page[t], m.attempt) /\ page[t].pending = Mention(m)),
               m.type = "replaced" => ~page[t].here
        PROVE  StreamInv'
    <2>1. page' = [page EXCEPT ![t] = page[t]]
      BY <1>1, <1>8
    <2>2. ~page[t].here => page[t].pending = None /\ page[t].active = None
      BY <1>1 DEF ClientsInv
    <2>3. /\ toWorker' = [toWorker EXCEPT ![t] = @ \o silent] /\ page[t].view <= page[t].view
          /\ \A i \in DOMAIN silent : FALSE
      BY <1>1, <1>6, <1>7, <1>8
    <2>4. ~page[t].here => silent = <<>>
      BY <1>6
    <2>5. WindowDoes(t, page[t], silent, None)
      BY <1>1, <2>1, <2>2, <2>3, <2>4 DEF WindowDoes
    <2>6. Hears(t, page[t], silent)
      BY <1>4, <1>8, <2>2 DEF Hears
    <2> QED  BY <1>1, <1>2, <2>5, <2>6, WindowDoesKeeps
  <1>9. CASE ~page[t].here
    <2>1. UNCHANGED <<page, toWorker>>
      BY <1>9 DEF Deliver
    <2>2. page[t].pending = None
      BY <1>1, <1>9 DEF ClientsInv
    <2> QED  BY <1>8, <1>9, <2>1, <2>2 DEF Pends
  <1>10. CASE page[t].here /\ m.type \in {"started", "changed"}
    <2>1. /\ Started(t, m) \/ NetworkChanged(t, m)
          /\ UNCHANGED toWorker
      BY <1>3, <1>10 DEF Deliver
    <2>2. m.network \in Network
      BY <1>10 DEF Told
    <2>3. PICK starting \in Calls \cup {None}, network \in Network, configured \in BOOLEAN :
             page' = [page EXCEPT ![t].starting = starting, ![t].network = network,
                                  ![t].configured = configured]
      <3>1. /\ page[t].starting \in Calls \cup {None} /\ page[t].network \in Network
            /\ page[t].configured \in BOOLEAN
        BY <1>1 DEF Pages
      <3>2. page' = page => page' = [page EXCEPT ![t].starting = page[t].starting,
                                         ![t].network = page[t].network,
                                         ![t].configured = page[t].configured]
        BY <1>1, <3>1 DEF Pages
      <3>3. NetworkChanged(t, m) =>
               page' = [page EXCEPT ![t].starting = page[t].starting, ![t].network = m.network,
                                    ![t].configured = TRUE]
        BY <1>1, <2>2, <3>1 DEF NetworkChanged, Pages
      <3>4. ASSUME Started(t, m), ~UNCHANGED page, m.ok
            PROVE  page' = [page EXCEPT ![t].starting = None, ![t].network = m.network,
                                        ![t].configured = TRUE]
        BY <3>4 DEF Started
      <3>5. ASSUME Started(t, m), ~UNCHANGED page, ~m.ok
            PROVE  page' = [page EXCEPT ![t].starting = None, ![t].network = page[t].network,
                                        ![t].configured = page[t].configured]
        BY <1>1, <3>5 DEF Started, Pages
      <3> QED  BY <2>1, <2>2, <3>1, <3>2, <3>3, <3>4, <3>5
    <2>4. PICK new \in {[page[t] EXCEPT !.starting = starting, !.network = network,
                                        !.configured = configured]} :
             page' = [page EXCEPT ![t] = new]
      BY <1>1, <2>3
    <2>5. /\ new \in Pages /\ new.pending = page[t].pending /\ new.active = page[t].active
          /\ new.here = page[t].here /\ new.view = page[t].view /\ new.awaiting = page[t].awaiting
      BY <1>1, <2>4 DEF Pages
    <2>6. /\ page[t].view <= new.view
          /\ \A i \in DOMAIN silent : silent[i].type \in {"start", "fetch"}
      BY <1>1, <1>6, <2>5
    <2>7. WindowDoes(t, new, silent, None)
      BY <1>1, <1>7, <1>10, <2>1, <2>4, <2>5, <2>6, QuietDoes
    <2>8. Hears(t, new, silent)
      BY <1>4, <1>10 DEF Hears
    <2> QED  BY <1>2, <2>5, <2>7, <2>8, WindowDoesKeeps
  <1>11. CASE page[t].here /\ m.type = "prepared"
    <2>1. Prepared(t, m)
      BY <1>3, <1>11 DEF Deliver
    <2>2. /\ m.attempt \in Nat /\ m.network \in Network
          /\ Mention(m) \in Speaks(t) /\ Mention(m) \in Attempts
          /\ Mention(m).view = m.attempt
      BY <1>4, <1>11, Spoken DEF Told, Speaks
    <2>3. PICK attempt \in Attempts : attempt = Mention(m)
      BY <2>2
    <2>4. attempt = Attempt(m.attempt, m.network) /\ attempt.view = m.attempt /\ attempt # None
      BY <2>2, <2>3, SharedAssumption DEF Mention
    <2>5. PICK answered \in {[page[t] EXCEPT !.awaiting = @ \ {attempt}]} :
             answered = [page[t] EXCEPT !.awaiting = @ \ {attempt}]
      OBVIOUS
    <2>6. /\ answered \in Pages /\ answered.pending = page[t].pending
          /\ answered.active = page[t].active /\ answered.here = page[t].here
          /\ answered.view = page[t].view /\ answered.awaiting = page[t].awaiting \ {attempt}
      BY <1>1, <2>5 DEF Pages
    <2>7. CASE attempt \notin page[t].awaiting
      <3>1. UNCHANGED <<page, toWorker>>
        BY <2>1, <2>4, <2>7 DEF Prepared
      <3>2. ~(Pends(page[t], m.attempt) /\ page[t].pending = Mention(m))
        BY <2>3, <2>7 DEF Pends
      <3> QED  BY <1>8, <1>11, <3>1, <3>2
    <2>8. ASSUME page' = [page EXCEPT ![t] = release_hls_matching(answered, m.attempt)],
                 Post(t, Released(page[t], m.attempt))
          PROVE  StreamInv'
      <3>1. PICK s : s = Released(page[t], m.attempt)
        OBVIOUS
      <3>2. PICK r : r = release_hls_matching(page[t], m.attempt)
        OBVIOUS
      <3>3. GivesUp(page[t], m.attempt, r, s)
        BY <1>1, <2>2, <3>1, <3>2, Releasing
      <3>4. PICK new : new = release_hls_matching(answered, m.attempt)
        OBVIOUS
      <3>5. /\ new \in Pages /\ new.view = answered.view /\ new.awaiting = answered.awaiting
            /\ new.here = answered.here
        <4>1. GivesUp(answered, m.attempt, new, Released(answered, m.attempt))
          BY <1>1, <2>2, <2>6, <3>4, Releasing
        <4> QED  BY <4>1 DEF GivesUp
      <3>6. new.pending = r.pending /\ new.active = r.active
        BY <1>1, <2>6, <3>2, <3>4 DEF release_hls_matching, Matches, Pages
      <3>7. /\ page[t].view <= new.view
            /\ \A x \in page[t].awaiting : m.attempt # 0 /\ x.view # m.attempt => x \in new.awaiting
            /\ page' = [page EXCEPT ![t] = new] /\ Post(t, s)
        BY <1>1, <2>4, <2>6, <2>8, <3>1, <3>4, <3>5
      <3>8. s \in Seq(Asked) /\ WindowDoes(t, new, s, None)
        BY <1>1, <1>11, <2>2, <2>6, <3>3, <3>5, <3>6, <3>7, ReleaseDoes
      <3>9. Pends(page[t], m.attempt) => \E i \in DOMAIN s : Undoes(s[i], m.attempt)
        <4> SUFFICES ASSUME Pends(page[t], m.attempt)
                     PROVE  \E i \in DOMAIN s : Undoes(s[i], m.attempt)
          OBVIOUS
        <4>1. /\ page[t].pending # None /\ page[t].pending.view = m.attempt
              /\ page[t].pending \in Attempts
          BY <1>1 DEF Pends, Pages
        <4>2. PICK i \in DOMAIN s : s[i] = Abandon(page[t].pending)
          BY <3>3, <4>1 DEF GivesUp
        <4> QED  BY <4>1, <4>2, MessageFacts DEF Undoes
      <3>10. Hears(t, new, s)
        BY <1>4, <1>11, <3>9 DEF Hears
      <3> QED  BY <1>2, <3>5, <3>8, <3>10, WindowDoesKeeps
    <2>9. ASSUME page' = [page EXCEPT ![t] = answered], Post(t, <<Abandon(attempt)>>)
          PROVE  StreamInv'
      <3>1. /\ Abandon(attempt) \in Asked /\ Abandon(attempt).type = "abandon"
            /\ Abandon(attempt).attempt = m.attempt /\ Mention(Abandon(attempt)) = attempt
        BY <2>4, MessageFacts
      <3>2. PICK s \in Seq(Asked) : /\ s = <<Abandon(attempt)>> /\ DOMAIN s = {1}
                                    /\ s[1] = Abandon(attempt)
        BY <1>5, <3>1
      <3>3. toWorker' = [toWorker EXCEPT ![t] = @ \o s]
        BY <2>9, <3>2 DEF Post
      <3>4. Undoes(s[1], m.attempt)
        BY <3>1, <3>2 DEF Undoes
      <3>5. page[t].pending # None =>
              \/ /\ answered.pending = page[t].pending
                 /\ page[t].pending \in page[t].awaiting => page[t].pending \in answered.awaiting
              \/ \E i \in DOMAIN s : Undoes(s[i], page[t].pending.view)
        BY <2>4, <2>6, <3>2, <3>4
      <3>6. WindowDoes(t, answered, s, None)
        BY <1>1, <1>11, <2>2, <2>3, <2>6, <2>9, <3>1, <3>2, <3>3, <3>5 DEF WindowDoes
      <3>7. Hears(t, answered, s)
        BY <1>4, <1>11, <3>2, <3>4 DEF Hears
      <3> QED  BY <1>2, <2>6, <3>6, <3>7, WindowDoesKeeps
    <2>10. ASSUME m.ok, page[t].pending = attempt, attempt \in page[t].awaiting,
                  page' = [page EXCEPT ![t] = [answered EXCEPT !.pending = None,
                      !.active = [view |-> m.attempt, session |-> m.session, network |-> m.network]]],
                  UNCHANGED toWorker
           PROVE  StreamInv'
      <3>1. PICK active \in Actives :
               active = [view |-> m.attempt, session |-> m.session, network |-> m.network]
        BY <1>11 DEF Told, Actives
      <3>2. PICK new \in {[answered EXCEPT !.pending = None, !.active = active]} :
               page' = [page EXCEPT ![t] = new]
        BY <2>10, <3>1
      <3>3. /\ new \in Pages /\ new.here = page[t].here /\ new.view = page[t].view
            /\ new.awaiting = page[t].awaiting \ {attempt} /\ new.pending = None
            /\ new.active = active
        BY <2>6, <3>1, <3>2 DEF Pages
      <3>4. Pends(page[t], m.attempt)
        BY <2>4, <2>10 DEF Pends
      <3>5. Takes(t, m)
        BY <1>2, <1>4, <1>11, <2>3, <2>10, <3>1, <3>2, <3>3, <3>4 DEF Takes
      <3> QED  BY <3>5, TakesKeeps
    <2> QED
      BY <2>1, <2>4, <2>5, <2>7, <2>8, <2>9, <2>10 DEF Prepared
  <1>12. CASE page[t].here /\ m.type = "replaced"
    <2>1. Replaced(t, m)
      BY <1>3, <1>12 DEF Deliver
    <2>2. m.attempt \in Nat
      BY <1>12 DEF Told
    <2>3. PICK s : s = Released(page[t], m.attempt)
      OBVIOUS
    <2>4. PICK r : r = release_hls_matching(page[t], m.attempt)
      OBVIOUS
    <2>5. GivesUp(page[t], m.attempt, r, s)
      BY <1>1, <2>2, <2>3, <2>4, Releasing
    <2>6. r \in Pages /\ r.view = page[t].view /\ r.awaiting = page[t].awaiting /\ r.here = page[t].here
      BY <2>5 DEF GivesUp
    <2>7. PICK view \in Nat :
             view = IF r.view = m.attempt /\ Released(page[t], m.attempt) # <<>> THEN r.view + 1 ELSE r.view
      BY <1>1, <2>6
    <2>8. PICK new \in {[r EXCEPT !.view = view]} : page' = [page EXCEPT ![t] = new]
      BY <1>1, <2>1, <2>4, <2>6, <2>7 DEF Replaced
    <2>9. /\ new \in Pages /\ new.view = view /\ new.awaiting = page[t].awaiting
          /\ new.here = page[t].here /\ new.pending = r.pending /\ new.active = r.active
      BY <2>6, <2>8 DEF Pages
    <2>10. /\ page[t].view <= new.view /\ Post(t, s)
           /\ \A x \in page[t].awaiting : m.attempt # 0 /\ x.view # m.attempt => x \in new.awaiting
      BY <1>1, <2>1, <2>3, <2>6, <2>7, <2>9 DEF Replaced
    <2>11. s \in Seq(Asked) /\ WindowDoes(t, new, s, None)
      BY <1>1, <1>12, <2>2, <2>5, <2>8, <2>9, <2>10, ReleaseDoes
    <2>12. /\ new.pending # None => new.pending.view # m.attempt
           /\ new.active # None => new.active.view # m.attempt
      BY <2>5, <2>9 DEF GivesUp
    <2>13. Hears(t, new, s)
      BY <1>4, <1>12, <2>12 DEF Hears
    <2> QED  BY <1>2, <2>9, <2>11, <2>13, WindowDoesKeeps
  <1> QED  BY <1>9, <1>10, <1>11, <1>12 DEF Told

-----------------------------------------------------------------------------
(* What worker.js takes from the queue of a window, and tells windows.     *)
Dispatched(t, m) ==
    /\ toWorker[t] # <<>> /\ m = Head(toWorker[t])
    /\ toWorker' = [toWorker EXCEPT ![t] = Tail(@)]
Pops == toWorker' = toWorker \/ \E t \in Tab, m \in Asked : Dispatched(t, m)

LEMMA Popped ==
    ASSUME TypeInv, Pops, NEW u \in Tab
    PROVE  /\ Sent(u)' \subseteq Sent(u)
           /\ \A x \in Sent(u) : x \in Sent(u)' \/ \E m \in Asked : Dispatched(u, m) /\ x = m
           /\ \E d \in {0, 1} :
                 /\ DOMAIN toWorker[u] = 1..Len(toWorker[u]) /\ Len(toWorker[u]) \in Nat
                 /\ DOMAIN toWorker'[u] = 1..Len(toWorker'[u]) /\ Len(toWorker'[u]) \in Nat
                 /\ Len(toWorker[u]) = Len(toWorker'[u]) + d
                 /\ \A i \in DOMAIN toWorker'[u] :
                       i + d \in DOMAIN toWorker[u] /\ toWorker'[u][i] = toWorker[u][i + d]
                 /\ d = 1 => Dispatched(u, toWorker[u][1])
  <1>1. toWorker \in [Tab -> Seq(Asked)] /\ toWorker[u] \in Seq(Asked)
    BY DEF TypeInv
  <1>2. DOMAIN toWorker[u] = 1..Len(toWorker[u]) /\ Len(toWorker[u]) \in Nat
    BY <1>1, SeqFacts
  <1>3. CASE toWorker'[u] = toWorker[u]
    <2>1. \A i \in DOMAIN toWorker'[u] :
             i + 0 \in DOMAIN toWorker[u] /\ toWorker'[u][i] = toWorker[u][i + 0]
      BY <1>2, <1>3
    <2>2. Len(toWorker[u]) = Len(toWorker'[u]) + 0
      BY <1>2, <1>3
    <2>3. 0 \in {0, 1} /\ 0 # 1
      OBVIOUS
    <2> QED  BY <1>2, <1>3, <2>1, <2>2, <2>3 DEF Sent
  <1>4. CASE \E m \in Asked : Dispatched(u, m)
    <2>1. PICK m \in Asked : Dispatched(u, m)
      BY <1>4
    <2> DEFINE s == toWorker[u]
    <2>2. /\ Tail(s) \in Seq(Asked) /\ Len(Tail(s)) = Len(s) - 1 /\ Len(s) \in Nat \ {0}
          /\ DOMAIN Tail(s) = 1..Len(s) - 1 /\ m = s[1]
          /\ \A i \in 1..Len(s) - 1 : Tail(s)[i] = s[i + 1]
      BY <1>1, <2>1, Shortened DEF Dispatched
    <2>3. toWorker'[u] = Tail(s)
      BY <1>1, <2>1 DEF Dispatched
    <2>4. /\ DOMAIN toWorker'[u] = 1..Len(toWorker'[u]) /\ Len(toWorker'[u]) \in Nat
          /\ Len(s) = Len(toWorker'[u]) + 1
          /\ \A i \in DOMAIN toWorker'[u] : i + 1 \in DOMAIN s /\ toWorker'[u][i] = s[i + 1]
      BY <1>2, <2>2, <2>3
    <2>5. Dispatched(u, toWorker[u][1])
      BY <2>1, <2>2
    <2>6. ASSUME NEW x \in Sent(u)
          PROVE  x \in Sent(u)' \/ x = m
      <3>1. PICK i \in DOMAIN s : x = s[i]
        BY DEF Sent
      <3>2. CASE i # 1
        <4>1. i - 1 \in DOMAIN toWorker'[u] /\ (i - 1) + 1 = i
          BY <1>2, <2>2, <2>3, <3>2
        <4>2. toWorker'[u][i - 1] = x
          BY <2>4, <3>1, <4>1
        <4> QED  BY <4>1, <4>2 DEF Sent
      <3> QED  BY <2>2, <3>1, <3>2
    <2>7. Sent(u)' \subseteq Sent(u)
      BY <2>4 DEF Sent
    <2>8. 1 \in {0, 1}
      OBVIOUS
    <2> QED  BY <1>2, <2>1, <2>4, <2>5, <2>6, <2>7, <2>8
  <1> QED  BY <1>1, <1>3, <1>4 DEF Pops, Dispatched

\* A window is told one more thing, if it is still there.
LEMMA SendHeard ==
    ASSUME TypeInv, NEW t \in Tab, NEW m \in Told, toPage' = Send(t, m)
    PROVE  /\ \A u \in Tab : Heard(u) \subseteq Heard(u)'
           /\ \A u \in Tab : \A x \in Heard(u)' : x \in Heard(u) \/ (u = t /\ x = m)
           /\ t \in worker.clients => m \in Heard(t)'
  <1>1. toPage \in [Tab -> Seq(Told)] /\ toPage[t] \in Seq(Told)
    BY DEF TypeInv
  <1>2. /\ DOMAIN toPage[t] = 1..Len(toPage[t]) /\ Len(toPage[t]) \in Nat
        /\ DOMAIN Append(toPage[t], m) = 1..Len(toPage[t]) + 1
        /\ \A i \in 1..Len(toPage[t]) : Append(toPage[t], m)[i] = toPage[t][i]
        /\ Append(toPage[t], m)[Len(toPage[t]) + 1] = m
    BY <1>1
  <1>3. CASE t \notin worker.clients
    BY <1>3 DEF Send, Heard
  <1>4. CASE t \in worker.clients
    <2>1. /\ toPage'[t] = Append(toPage[t], m)
          /\ \A u \in Tab : u # t => toPage'[u] = toPage[u]
      BY <1>1, <1>4 DEF Send
    <2>2. \A u \in Tab : u # t => Heard(u)' = Heard(u)
      BY <2>1 DEF Heard
    <2>3. Heard(t) \subseteq Heard(t)'
      <3> SUFFICES ASSUME NEW i \in DOMAIN toPage[t]
                   PROVE  toPage[t][i] \in Heard(t)'
        BY DEF Heard
      <3>1. i \in DOMAIN toPage'[t] /\ toPage'[t][i] = toPage[t][i]
        BY <1>2, <2>1
      <3> QED  BY <3>1 DEF Heard
    <2>4. ASSUME NEW x \in Heard(t)'
          PROVE  x \in Heard(t) \/ x = m
      <3>1. PICK i \in DOMAIN toPage'[t] : x = toPage'[t][i]
        BY DEF Heard
      <3>2. CASE i \in 1..Len(toPage[t])
        BY <1>2, <2>1, <3>1, <3>2 DEF Heard
      <3> QED  BY <1>2, <2>1, <3>1, <3>2
    <2>5. m \in Heard(t)'
      <3>1. Len(toPage[t]) + 1 \in DOMAIN toPage'[t] /\ toPage'[t][Len(toPage[t]) + 1] = m
        BY <1>2, <2>1
      <3> QED  BY <3>1 DEF Heard
    <2> QED  BY <2>2, <2>3, <2>4, <2>5
  <1> QED  BY <1>3, <1>4

\* What is left in a queue is as it was.
LEMMA QueuesKeep ==
    ASSUME TypeInv, ClientsInv, PromisedInv, Pops, page' = page,
           worker'.clients \subseteq worker.clients,
           \A t \in Tab : t \in worker.clients /\ t \notin worker'.clients
                => \E m \in Asked : m.type = "close" /\ Dispatched(t, m),
           worker'.lease # None => worker'.lease.tab \in worker'.clients
    PROVE  ClientsInv' /\ PromisedInv'
  <1>1. ASSUME NEW t \in Tab
        PROVE  /\ page'[t].here => t \in worker'.clients /\ \A m \in Sent(t)' : m.type # "close"
               /\ ~page'[t].here => page'[t].pending = None /\ page'[t].active = None
               /\ t \notin worker'.clients => toWorker'[t] = <<>>
               /\ \A i \in DOMAIN toWorker'[t] : toWorker'[t][i].type = "close" => i = Len(toWorker'[t])
               /\ page'[t].pending = None \/ page'[t].active = None
    <2>1. PICK d \in {0, 1} :
             /\ DOMAIN toWorker[t] = 1..Len(toWorker[t]) /\ Len(toWorker[t]) \in Nat
             /\ DOMAIN toWorker'[t] = 1..Len(toWorker'[t]) /\ Len(toWorker'[t]) \in Nat
             /\ Len(toWorker[t]) = Len(toWorker'[t]) + d
             /\ \A i \in DOMAIN toWorker'[t] :
                   i + d \in DOMAIN toWorker[t] /\ toWorker'[t][i] = toWorker[t][i + d]
      BY Popped
    <2>2. /\ Sent(t)' \subseteq Sent(t)
          /\ \A x \in Sent(t) : x \in Sent(t)' \/ \E m \in Asked : Dispatched(t, m) /\ x = m
      BY Popped
    <2>3. ASSUME NEW m \in Asked, m.type = "close", Dispatched(t, m)
          PROVE  ~page[t].here /\ toWorker'[t] = <<>>
      <3>1. toWorker[t] \in Seq(Asked) /\ toWorker \in [Tab -> Seq(Asked)] /\ toWorker[t] # <<>>
        BY <2>3 DEF TypeInv, Dispatched
      <3>2. m = toWorker[t][1] /\ 1 \in DOMAIN toWorker[t]
        BY <2>3, <3>1 DEF Dispatched
      <3>3. m \in Sent(t)
        BY <3>2 DEF Sent
      <3>4. 1 = Len(toWorker[t])
        BY <2>3, <3>2 DEF ClientsInv
      <3>5. toWorker'[t] = <<>>
        BY <2>3, <3>1, <3>4 DEF Dispatched
      <3> QED  BY <2>3, <3>3, <3>5 DEF ClientsInv
    <2>4. \A i \in DOMAIN toWorker'[t] : toWorker'[t][i].type = "close" => i = Len(toWorker'[t])
      BY <2>1 DEF ClientsInv
    <2>5. page[t].here => t \in worker'.clients /\ \A m \in Sent(t)' : m.type # "close"
      BY <2>2, <2>3 DEF ClientsInv
    <2>6. ~page[t].here => page[t].pending = None /\ page[t].active = None
      BY DEF ClientsInv
    <2>7. t \notin worker'.clients => toWorker'[t] = <<>>
      <3>1. CASE t \in worker.clients
        BY <2>3, <3>1
      <3>2. CASE t \notin worker.clients
        <4>1. toWorker[t] = <<>>
          BY <3>2 DEF ClientsInv
        <4> QED  BY <4>1 DEF Pops, Dispatched, TypeInv
      <3> QED  BY <3>1, <3>2
    <2> QED  BY <2>4, <2>5, <2>6, <2>7 DEF ClientsInv
  <1>2. ClientsInv'
    BY <1>1 DEF ClientsInv
  <1>3. PromisedInv'
    <2> SUFFICES ASSUME NEW t \in Tab, NEW v \in Nat,
                        NEW i \in DOMAIN toWorker'[t], Asks(toWorker'[t][i], v)
                 PROVE  \/ Pends(page[t], v)
                        \/ \E j \in DOMAIN toWorker'[t] : i < j /\ Undoes(toWorker'[t][j], v)
      BY DEF PromisedInv
    <2>1. PICK d \in {0, 1} :
             /\ DOMAIN toWorker[t] = 1..Len(toWorker[t]) /\ Len(toWorker[t]) \in Nat
             /\ DOMAIN toWorker'[t] = 1..Len(toWorker'[t]) /\ Len(toWorker'[t]) \in Nat
             /\ Len(toWorker[t]) = Len(toWorker'[t]) + d
             /\ \A k \in DOMAIN toWorker'[t] :
                   k + d \in DOMAIN toWorker[t] /\ toWorker'[t][k] = toWorker[t][k + d]
      BY Popped
    <2>2. i + d \in DOMAIN toWorker[t] /\ Asks(toWorker[t][i + d], v)
      BY <2>1
    <2>3. \/ Pends(page[t], v)
          \/ \E j \in DOMAIN toWorker[t] : i + d < j /\ Undoes(toWorker[t][j], v)
      BY <2>2 DEF PromisedInv
    <2>4. ASSUME NEW j \in DOMAIN toWorker[t], i + d < j, Undoes(toWorker[t][j], v)
          PROVE  \E k \in DOMAIN toWorker'[t] : i < k /\ Undoes(toWorker'[t][k], v)
      <3>1. j - d \in DOMAIN toWorker'[t] /\ i < j - d /\ (j - d) + d = j
        BY <2>1, <2>4
      <3> QED  BY <2>1, <2>4, <3>1
    <2> QED  BY <2>3, <2>4
  <1> QED  BY <1>2, <1>3

-----------------------------------------------------------------------------
(* A step of worker.js that starts no stream: the lease stays or falls, at *)
(* the latest when its window has done with it.                            *)
Harmless(u, x) ==
    x.type = "prepared" =>
        /\ ~x.ok /\ Mention(x) \in Speaks(u)
        /\ \A i \in DOMAIN toWorker'[u] : ~Asks(toWorker'[u][i], x.attempt)

Falls ==
    /\ Pops /\ page' = page /\ taken' = taken /\ prepares' \subseteq prepares
    /\ worker'.clients \subseteq worker.clients
    /\ \A t \in Tab : t \in worker.clients /\ t \notin worker'.clients
          => \E m \in Asked : m.type = "close" /\ Dispatched(t, m)
    /\ worker'.lease \in {None, worker.lease}
    /\ worker'.lease # None =>
          /\ worker'.network = worker.network /\ worker'.lease.tab \in worker'.clients
          /\ \A m \in Asked : Dispatched(worker.lease.tab, m) =>
                ~Undoes(m, worker.lease.attempt) /\ ~Returns(m, worker.lease.session)
          /\ \A p \in prepares : Key(p.lease) = Key(worker.lease) => p \in prepares'
    /\ rust.view <= rust'.view
    /\ \A u \in Tab : Heard(u) \subseteq Heard(u)'
    /\ \A u \in Tab : \A x \in Heard(u)' : x \in Heard(u) \/ Harmless(u, x)

LEMMA LeaseForm ==
    ASSUME NEW t, NEW v, NEW s, NEW lease, lease = Lease(t, v, s)
    PROVE  lease.tab = t /\ lease.attempt = v /\ lease.session = s /\ Key(lease) = <<t, v>>
  BY DEF Lease, Key

LEMMA FallsKeeps ==
    ASSUME TypeInv, StreamInv, TypeInv', Falls, PlaysInv'
    PROVE  StreamInv'
  <1>1. /\ Pops /\ page' = page /\ taken' = taken /\ prepares' \subseteq prepares
        /\ worker'.lease \in {None, worker.lease}
        /\ worker'.lease # None => worker'.lease = worker.lease /\ worker'.network = worker.network
        /\ \A u \in Tab : Heard(u) \subseteq Heard(u)'
        /\ \A u \in Tab : \A x \in Heard(u)' : x \in Heard(u) \/ Harmless(u, x)
    BY DEF Falls
  <1>2. ClientsInv' /\ PromisedInv'
    BY QueuesKeep DEF Falls, StreamInv
  <1>3. /\ \A u \in Tab : Sent(u)' \subseteq Sent(u)
        /\ \A u \in Tab : \A x \in Sent(u) : x \in Sent(u)' \/ \E m \in Asked : Dispatched(u, m) /\ x = m
    BY <1>1, Popped
  <1>4. \A u \in Tab : Speaks(u)' \subseteq Speaks(u)
    <2> SUFFICES ASSUME NEW u \in Tab, NEW a \in Speaks(u)'
                 PROVE  a \in Speaks(u)
      OBVIOUS
    <2>1. a \in Attempts
      BY DEF Speaks
    <2>2. CASE \E m \in Heard(u)' : m.type = "prepared" /\ a = Mention(m)
      BY <1>1, <2>1, <2>2 DEF Speaks, Harmless
    <2>3. CASE ~\E m \in Heard(u)' : m.type = "prepared" /\ a = Mention(m)
      BY <1>1, <1>3, <2>1, <2>3 DEF Speaks
    <2> QED  BY <2>2, <2>3
  <1>5. \A u \in Tab : Streams(u)' \subseteq Streams(u)
    <2> SUFFICES ASSUME NEW u \in Tab, NEW x \in Streams(u)'
                 PROVE  x \in Streams(u)
      OBVIOUS
    <2>1. x \in [session : Nat, network : Network]
      BY DEF Streams
    <2>2. \A m \in Heard(u)' : m.type = "prepared" /\ m.ok => m \in Heard(u)
      BY <1>1 DEF Harmless
    <2> QED  BY <1>1, <1>3, <2>1, <2>2 DEF Streams
  <1>6. AttemptsInv'
    <2>1. ASSUME NEW u \in Tab, NEW a \in Speaks(u)'
          PROVE  a.view <= page[u].view /\ \A b \in Speaks(u)' : a.view = b.view => a = b
      BY <1>4 DEF StreamInv, AttemptsInv
    <2>2. ASSUME NEW u \in Tab, worker'.lease # None, worker'.lease.tab = u
          PROVE  /\ worker'.lease.attempt <= page[u].view
                 /\ \A a \in Speaks(u)' :
                       a.view = worker'.lease.attempt => a.network = worker'.network
      BY <1>1, <1>4, <2>2 DEF StreamInv, AttemptsInv
    <2>3. \A k \in taken : k[2] <= page[k[1]].view
      BY DEF StreamInv, AttemptsInv
    <2> QED  BY <1>1, <2>1, <2>2, <2>3 DEF AttemptsInv
  <1>7. StreamsInv'
    <2> SUFFICES ASSUME NEW u \in Tab, NEW x \in Streams(u)'
                 PROVE  /\ x.session # 0 /\ x.session <= rust'.view
                        /\ \A p \in prepares' : p.view # x.session
                        /\ worker'.lease # None /\ worker'.lease.session = x.session
                              => x.network = worker'.network
      BY DEF StreamsInv
    <2>1. /\ x.session # 0 /\ x.session <= rust.view
          /\ \A p \in prepares : p.view # x.session
          /\ worker.lease # None /\ worker.lease.session = x.session => x.network = worker.network
      BY <1>5 DEF StreamInv, StreamsInv
    <2>2. x.session \in Nat /\ rust.view \in Nat /\ rust'.view \in Nat /\ rust.view <= rust'.view
      BY DEF Streams, TypeInv, Rusts, Falls
    <2> QED  BY <1>1, <2>1, <2>2
  <1>8. FreshInv'
    <2> SUFFICES ASSUME NEW u \in Tab, NEW v \in Nat,
                        NEW i \in DOMAIN toWorker'[u], Asks(toWorker'[u][i], v)
                 PROVE  /\ Unknown(u, v)'
                        /\ \A j \in DOMAIN toWorker'[u] : Asks(toWorker'[u][j], v) => i = j
      BY DEF FreshInv
    <2>1. PICK d \in {0, 1} :
             /\ DOMAIN toWorker[u] = 1..Len(toWorker[u]) /\ Len(toWorker[u]) \in Nat
             /\ DOMAIN toWorker'[u] = 1..Len(toWorker'[u]) /\ Len(toWorker'[u]) \in Nat
             /\ \A k \in DOMAIN toWorker'[u] :
                   k + d \in DOMAIN toWorker[u] /\ toWorker'[u][k] = toWorker[u][k + d]
      BY <1>1, Popped
    <2>2. i + d \in DOMAIN toWorker[u] /\ Asks(toWorker[u][i + d], v)
      BY <2>1
    <2>3. /\ Unknown(u, v)
          /\ \A j \in DOMAIN toWorker[u] : Asks(toWorker[u][j], v) => i + d = j
      BY <2>2 DEF StreamInv, FreshInv
    <2>4. ASSUME NEW j \in DOMAIN toWorker'[u], Asks(toWorker'[u][j], v)
          PROVE  i = j
      <3>1. i + d = j + d
        BY <2>1, <2>3, <2>4
      <3> QED  BY <2>1, <3>1
    <2>5. \A m \in Heard(u)' : m.type = "prepared" => m.attempt # v
      BY <1>1, <2>3 DEF Unknown, Harmless
    <2>6. Unknown(u, v)'
      BY <1>1, <2>3, <2>5 DEF Unknown
    <2> QED  BY <2>4, <2>6
  <1>9. AnswersInv'
    <2>1. worker'.lease # None => Key(worker'.lease) \notin taken'
      BY <1>1 DEF StreamInv, AnswersInv
    <2>2. ASSUME NEW t \in Tab, NEW v \in Nat, NEW s \in Nat, worker'.lease = Lease(t, v, s),
                 NEW m \in Heard(t)', m.type = "prepared", m.ok, m.attempt = v
          PROVE  m.session = s
      <3>1. worker'.lease # None
        <4>1. Lease(t, v, s) \in Leases
          BY DEF Lease, Leases
        <4> QED  BY <2>2, <4>1, SharedAssumption
      <3>2. m \in Heard(t)
        BY <1>1, <2>2 DEF Harmless
      <3> QED  BY <1>1, <2>2, <3>1, <3>2 DEF StreamInv, AnswersInv
    <2> QED  BY <2>1, <2>2 DEF AnswersInv
  <1>10. LeaseInv'
    <2> SUFFICES ASSUME NEW t \in Tab, NEW v \in Nat, NEW s \in Nat,
                        worker'.lease = Lease(t, v, s)
                 PROVE  LookedAfter(t, v, s)'
      BY DEF LeaseInv
    <2>1. worker'.lease # None
      <3>1. Lease(t, v, s) \in Leases
        BY DEF Lease, Leases
      <3> QED  BY <3>1, SharedAssumption
    <2>2. /\ worker.lease = Lease(t, v, s) /\ worker.lease.tab = t /\ worker.lease.attempt = v
          /\ worker.lease.session = s /\ Key(worker.lease) = <<t, v>>
      BY <1>1, <2>1, LeaseForm
    <2>3. LookedAfter(t, v, s)
      BY <2>2 DEF StreamInv, LeaseInv
    <2>4. /\ \A m \in Asked : Dispatched(t, m) => ~Undoes(m, v) /\ ~Returns(m, s)
          /\ \A p \in prepares : Key(p.lease) = <<t, v>> => p \in prepares'
      BY <2>1, <2>2 DEF Falls
    <2>5. \A m \in Sent(t) : Undoes(m, v) \/ Returns(m, s) => m \in Sent(t)'
      BY <1>3, <2>4
    <2> QED  BY <1>1, <2>3, <2>4, <2>5 DEF LookedAfter, Shows
  <1>11. TakenInv'
    BY <1>1 DEF StreamInv, TakenInv, Shows
  <1> QED
    BY <1>2, <1>6, <1>7, <1>8, <1>9, <1>10, <1>11 DEF StreamInv

\* A step takes one message, of one window.
LEMMA OneDispatched ==
    ASSUME TypeInv, NEW t \in Tab, NEW m \in Asked, NEW u \in Tab, Dispatched(u, m),
           toWorker' = [toWorker EXCEPT ![t] = Tail(@)] \/ toWorker' = toWorker
    PROVE  u = t /\ toWorker' # toWorker
  <1>1. toWorker \in [Tab -> Seq(Asked)] /\ toWorker[u] \in Seq(Asked) /\ toWorker[u] # <<>>
    BY DEF TypeInv, Dispatched
  <1>2. Len(Tail(toWorker[u])) = Len(toWorker[u]) - 1 /\ Len(toWorker[u]) \in Nat
    BY <1>1, Shortened
  <1>3. toWorker'[u] = Tail(toWorker[u])
    BY <1>1 DEF Dispatched
  <1>4. toWorker'[u] # toWorker[u]
    <2> SUFFICES ASSUME Tail(toWorker[u]) = toWorker[u]
                 PROVE  FALSE
      BY <1>3
    <2>1. Len(Tail(toWorker[u])) = Len(toWorker[u])
      OBVIOUS
    <2> QED  BY <1>2, <2>1
  <1> QED  BY <1>1, <1>4

LEMMA FallsByMessage ==
    ASSUME TypeInv, ClientsInv, NEW t \in Tab, NEW m \in Asked, Dispatched(t, m),
           page' = page, taken' = taken, prepares' = prepares,
           \/ worker'.clients = worker.clients
           \/ m.type = "close" /\ worker'.clients = worker.clients \ {t},
           worker'.lease \in {None, worker.lease},
           worker'.lease # None =>
               /\ worker'.network = worker.network
               /\ worker.lease.tab = t =>
                     ~Undoes(m, worker.lease.attempt) /\ ~Returns(m, worker.lease.session),
           rust.view <= rust'.view,
           \A u \in Tab : Heard(u) \subseteq Heard(u)',
           \A u \in Tab : \A x \in Heard(u)' : x \in Heard(u) \/ Harmless(u, x)
    PROVE  Falls
  <1>1. ASSUME NEW u \in Tab, NEW x \in Asked, Dispatched(u, x)
        PROVE  u = t /\ x = m
    <2>1. toWorker' = [toWorker EXCEPT ![t] = Tail(@)]
      BY DEF Dispatched
    <2>2. u = t
      BY <1>1, <2>1, OneDispatched
    <2> QED  BY <1>1, <2>2 DEF Dispatched
  <1>2. worker'.lease # None => worker.lease.tab \in worker'.clients
    BY DEF ClientsInv, Undoes
  <1>3. /\ Pops /\ worker'.clients \subseteq worker.clients
        /\ \A u \in Tab : u \in worker.clients /\ u \notin worker'.clients
              => \E x \in Asked : x.type = "close" /\ Dispatched(u, x)
    BY DEF Pops
  <1>4. worker'.lease # None =>
           /\ worker'.network = worker.network /\ worker'.lease.tab \in worker'.clients
           /\ \A x \in Asked : Dispatched(worker.lease.tab, x) =>
                 ~Undoes(x, worker.lease.attempt) /\ ~Returns(x, worker.lease.session)
           /\ \A p \in prepares : Key(p.lease) = Key(worker.lease) => p \in prepares'
    <2>1. worker.lease # None => worker.lease.tab \in Tab
      BY DEF TypeInv, Workers, Leases
    <2> QED  BY <1>1, <1>2, <2>1
  <1> QED  BY <1>3, <1>4 DEF Falls

LEMMA FallsByItself ==
    ASSUME TypeInv, ClientsInv, toWorker' = toWorker,
           page' = page, taken' = taken, prepares' \subseteq prepares,
           worker'.clients = worker.clients,
           worker'.lease \in {None, worker.lease},
           worker'.lease # None =>
               /\ worker'.network = worker.network
               /\ \A p \in prepares : Key(p.lease) = Key(worker.lease) => p \in prepares',
           rust.view <= rust'.view,
           \A u \in Tab : Heard(u) \subseteq Heard(u)',
           \A u \in Tab : \A x \in Heard(u)' : x \in Heard(u) \/ Harmless(u, x)
    PROVE  Falls
  <1>1. \A u \in Tab, x \in Asked : ~Dispatched(u, x)
    BY OneDispatched
  <1>2. worker.lease # None => worker.lease.tab \in Tab /\ worker.lease.tab \in worker.clients
    BY DEF ClientsInv, TypeInv, Workers, Leases
  <1> QED  BY <1>1, <1>2 DEF Falls, Pops

\* Whatever is said but of what was prepared is harmless.
LEMMA SaidHarmless ==
    ASSUME TypeInv, NEW t \in Tab, NEW x \in Told,
           x.type # "prepared" \/ (~x.ok /\ Mention(x) \in Speaks(t)
               /\ \A i \in DOMAIN toWorker'[t] : ~Asks(toWorker'[t][i], x.attempt)),
           toPage' = Send(t, x) \/ toPage' = toPage
    PROVE  /\ \A u \in Tab : Heard(u) \subseteq Heard(u)'
           /\ \A u \in Tab : \A y \in Heard(u)' : y \in Heard(u) \/ Harmless(u, y)
  <1>1. CASE toPage' = toPage
    BY <1>1 DEF Heard
  <1>2. CASE toPage' = Send(t, x)
    BY <1>2, SendHeard DEF Harmless
  <1> QED  BY <1>1, <1>2

LEMMA NothingSaid ==
    ASSUME toPage' = toPage
    PROVE  /\ \A u \in Tab : Heard(u) \subseteq Heard(u)'
           /\ \A u \in Tab : \A y \in Heard(u)' : y \in Heard(u) \/ Harmless(u, y)
  BY DEF Heard

-----------------------------------------------------------------------------
(* The runtime and the lease.                                              *)
LEMMA CancelEnds ==
    ASSUME TypeInv, PlaysInv, worker.lease # None,
           NEW r, r = cancelHlsLease(worker.lease)
    PROVE  /\ r \in Rusts /\ SameRuntime(r)
           /\ r.view \in {rust.view, rust.view + 1}
           /\ r.session = 0 \/ (r = rust /\ worker.lease.session = 0)
  <1>1. /\ rust \in Rusts /\ worker.lease \in Leases /\ r \in Rusts /\ SameRuntime(r)
    BY CancelFacts DEF TypeInv, Workers
  <1>2. PICK e \in {Ended(rust)} : e = Ended(rust)
    OBVIOUS
  <1>3. e \in Rusts /\ e.session = 0 /\ e.view = rust.view
    BY <1>1, <1>2 DEF Ended, Rusts
  <1>4. CASE worker.lease.session # 0
    <2>1. Accepts(worker.network) /\ rust.view = worker.lease.session
      BY <1>4 DEF PlaysInv, Accepts
    <2>2. r = e
      BY <1>2, <1>4, <2>1 DEF cancelHlsLease, hls_control_release
    <2> QED  BY <1>1, <1>3, <2>2
  <1>5. CASE worker.lease.session = 0
    <2>1. r = rust \/ r = [e EXCEPT !.view = @ + 1]
      BY <1>2, <1>5 DEF cancelHlsLease, cancel_hls_prepare
    <2>2. CASE r = [e EXCEPT !.view = @ + 1]
      <3>1. r.view = rust.view + 1 /\ r.session = 0
        BY <1>3, <2>2 DEF Rusts
      <3> QED  BY <1>1, <3>1
    <2> QED  BY <1>1, <1>5, <2>1, <2>2
  <1> QED  BY <1>4, <1>5

LEMMA StreamEnds ==
    ASSUME TypeInv, PlaysInv, worker'.lease = None, prepares' = prepares,
           worker.lease = None => rust' = rust,
           worker.lease # None => rust' = cancelHlsLease(worker.lease)
    PROVE  PlaysInv' /\ rust.view <= rust'.view
  <1>1. /\ rust.view \in Nat /\ rust.session \in Nat
        /\ \A p \in prepares : p.view \in Nat
    BY DEF TypeInv, Rusts
  <1>2. /\ rust'.view \in {rust.view, rust.view + 1}
        /\ rust'.network = rust.network /\ rust'.switching = rust.switching
        /\ rust'.session = 0 \/ (rust' = rust /\ (worker.lease # None => worker.lease.session = 0))
    <2>1. CASE worker.lease = None
      BY <1>1, <2>1
    <2>2. CASE worker.lease # None
      <3>1. PICK r : r = cancelHlsLease(worker.lease)
        OBVIOUS
      <3>2. /\ SameRuntime(r) /\ r.view \in {rust.view, rust.view + 1}
            /\ r.session = 0 \/ (r = rust /\ worker.lease.session = 0)
        BY <2>2, <3>1, CancelEnds
      <3> QED  BY <2>2, <3>1, <3>2 DEF SameRuntime
    <2> QED  BY <2>1, <2>2
  <1>3. \A p \in prepares : p.view <= rust.view
    BY DEF PlaysInv
  <1>4. \A p \in prepares : p.view # 0 /\ p.view = rust'.view =>
           p.network = rust'.network /\ ~rust'.switching
    BY <1>1, <1>2, <1>3 DEF PlaysInv
  <1>5. rust'.session # 0 => \E p \in prepares : p.view = rust'.session
    BY <1>1, <1>2 DEF PlaysInv
  <1>6. rust'.session \in {0, rust'.view} /\ \A p \in prepares : p.view <= rust'.view
    BY <1>1, <1>2, <1>3 DEF PlaysInv
  <1>7. rust.view <= rust'.view
    BY <1>1, <1>2
  <1> QED  BY <1>4, <1>5, <1>6, <1>7 DEF PlaysInv, Owns

LEMMA StreamStays ==
    ASSUME PlaysInv, worker'.lease = worker.lease, prepares' = prepares,
           worker.lease # None => worker'.network = worker.network,
           rust'.network = rust.network, rust'.switching = rust.switching,
           rust'.view = rust.view, rust'.session = rust.session
    PROVE  PlaysInv'
  BY DEF PlaysInv, Owns

-----------------------------------------------------------------------------
(* The steps of worker.js that start no stream.                            *)
LEMMA StartStream ==
    ASSUME TypeInv, SharedInv, StreamInv, TypeInv', NEW t \in Tab, NEW m \in Asked,
           Dispatched(t, m), m.type = "start", ~Performing, performStart(t, m),
           UNCHANGED <<page, prepares, taken>>
    PROVE  StreamInv'
  <1>1. /\ ClientsInv /\ PlaysInv /\ worker \in Workers
        /\ m \in [type : {"start"}, id : Nat, network : Network]
        /\ \A v, s : ~Undoes(m, v) /\ ~Returns(m, s)
    BY DEF StreamInv, TypeInv, Asked, Undoes, Returns
  <1>2. CASE Switches(m.network) /\ Refuses(t)
    <2>1. PICK answer \in Told : answer = StartAnswer(m, FALSE)
      BY <1>1, RefusalFacts
    <2>2. answer.type = "started"
      BY <2>1 DEF StartAnswer
    <2>3. toPage' = Send(t, answer) /\ UNCHANGED <<worker, rust>>
      BY <1>2, <2>1 DEF performStart
    <2>4. /\ \A u \in Tab : Heard(u) \subseteq Heard(u)'
          /\ \A u \in Tab : \A x \in Heard(u)' : x \in Heard(u) \/ Harmless(u, x)
      BY <2>2, <2>3, SaidHarmless
    <2>5. rust.view <= rust'.view
      BY <2>3 DEF TypeInv, Rusts
    <2>6. Falls
      BY <1>1, <2>3, <2>4, <2>5, FallsByMessage
    <2>7. PlaysInv'
      BY <1>1, <2>3, StreamStays
    <2> QED  BY <2>6, <2>7, FallsKeeps
  <1>3. CASE ~(Switches(m.network) /\ Refuses(t))
    <2>1. PICK lease \in Leases \cup {None} :
             lease = IF Switches(m.network) THEN None ELSE worker.lease
      BY <1>1 DEF Workers
    <2>2. PICK start \in Starts :
             start = [tab |-> t, message |-> m, previous |-> worker.network]
      BY <1>1 DEF Starts, Workers
    <2>3. worker' = [worker EXCEPT !.lease = lease, !.network = m.network, !.start = start]
      BY <1>3, <2>1, <2>2 DEF performStart
    <2>4. /\ worker'.lease = lease /\ worker'.network = m.network /\ worker'.clients = worker.clients
      BY <1>1, <2>1, <2>2, <2>3 DEF Workers
    <2>5. toPage' = toPage
      BY <1>3 DEF performStart
    <2>6. /\ \A u \in Tab : Heard(u) \subseteq Heard(u)'
          /\ \A u \in Tab : \A x \in Heard(u)' : x \in Heard(u) \/ Harmless(u, x)
      BY <2>5, NothingSaid
    <2>7. lease # None => worker'.network = worker.network
      <3>1. lease # None => ~Switches(m.network) /\ worker.lease # None
        BY <2>1
      <3> QED  BY <1>1, <2>4, <3>1 DEF Switches, PlaysInv
    <2>8. PlaysInv' /\ rust.view <= rust'.view
      <3>1. CASE Switches(m.network)
        <4>1. worker'.lease = None
          BY <2>1, <2>4, <3>1
        <4>2. /\ worker.lease = None => rust' = rust
              /\ worker.lease # None => rust' = cancelHlsLease(worker.lease)
          BY <1>3, <3>1 DEF performStart
        <4> QED  BY <1>1, <4>1, <4>2, StreamEnds
      <3>2. CASE ~Switches(m.network)
        <4>1. worker'.lease = worker.lease /\ rust' = rust
          BY <1>3, <2>1, <2>4, <3>2 DEF performStart
        <4>2. rust.view <= rust'.view
          BY <4>1 DEF TypeInv, Rusts
        <4> QED  BY <1>1, <2>4, <2>7, <4>1, <4>2, StreamStays
      <3> QED  BY <3>1, <3>2
    <2>9. Falls
      BY <1>1, <2>1, <2>4, <2>6, <2>7, <2>8, FallsByMessage
    <2> QED  BY <2>8, <2>9, FallsKeeps
  <1> QED  BY <1>2, <1>3

LEMMA CloseStream ==
    ASSUME TypeInv, StreamInv, TypeInv', NEW t \in Tab, NEW m \in Asked,
           Dispatched(t, m), m.type = "close", removeClient(t),
           UNCHANGED <<page, toPage, prepares, taken>>
    PROVE  StreamInv'
  <1>1. ClientsInv /\ PlaysInv /\ worker \in Workers
    BY DEF StreamInv, TypeInv
  <1>2. PICK lease \in Leases \cup {None} :
           lease = IF worker.lease # None /\ worker.lease.tab = t THEN None ELSE worker.lease
    BY <1>1 DEF Workers
  <1>3. worker' = [worker EXCEPT !.clients = @ \ {t}, !.lease = lease]
    BY <1>2 DEF removeClient, Without
  <1>4. /\ worker'.lease = lease /\ worker'.network = worker.network
        /\ worker'.clients = worker.clients \ {t}
    BY <1>1, <1>2, <1>3 DEF Workers
  <1>5. PlaysInv' /\ rust.view <= rust'.view
    <2>1. CASE worker.lease # None /\ worker.lease.tab = t
      BY <1>1, <1>2, <1>4, <2>1, StreamEnds DEF removeClient
    <2>2. CASE ~(worker.lease # None /\ worker.lease.tab = t)
      <3>1. rust' = rust /\ worker'.lease = worker.lease
        BY <1>2, <1>4, <2>2 DEF removeClient
      <3>2. rust.view <= rust'.view
        BY <3>1 DEF TypeInv, Rusts
      <3> QED  BY <1>1, <1>4, <3>1, <3>2, StreamStays
    <2> QED  BY <2>1, <2>2
  <1>6. Falls
    BY <1>1, <1>2, <1>4, <1>5, NothingSaid, FallsByMessage
  <1> QED  BY <1>5, <1>6, FallsKeeps

LEMMA RefusedStream ==
    ASSUME TypeInv, StreamInv, TypeInv', NEW t \in Tab, NEW m \in Asked,
           Dispatched(t, m), worker.lease = None \/ (m.type # "close" /\ ~Targets(m)),
           Refused(t, m), UNCHANGED <<page, prepares, taken>>
    PROVE  StreamInv'
  <1>1. ClientsInv /\ PlaysInv /\ worker \in Workers /\ worker' = worker /\ rust' = rust
    BY DEF StreamInv, TypeInv, Refused
  <1>2. m \in Sent(t) /\ toWorker[t] \in Seq(Asked) /\ m = toWorker[t][1] /\ 1 \in DOMAIN toWorker[t]
    <2>1. toWorker[t] \in Seq(Asked) /\ toWorker[t] # <<>>
      BY DEF TypeInv, Dispatched
    <2>2. m = toWorker[t][1] /\ 1 \in DOMAIN toWorker[t]
      BY <2>1 DEF Dispatched
    <2> QED  BY <2>1, <2>2 DEF Sent
  <1>3. PICK x \in Told :
           /\ x.type # "prepared" \/ (~x.ok /\ Mention(x) \in Speaks(t)
                 /\ \A i \in DOMAIN toWorker'[t] : ~Asks(toWorker'[t][i], x.attempt))
           /\ toPage' = Send(t, x) \/ toPage' = toPage
    <2>1. CASE m.type = "prepare"
      <3>1. m.attempt \in Nat /\ m.network \in Network
        BY <2>1 DEF Asked
      <3>2. PICK x \in Told :
               x = [type |-> "prepared", attempt |-> m.attempt, ok |-> FALSE,
                    network |-> m.network, session |-> 0]
        BY <3>1 DEF Told
      <3>3. /\ toPage' = Send(t, x) /\ x.ok = FALSE /\ x.attempt = m.attempt
            /\ Mention(x) = Mention(m)
        BY <2>1, <3>2 DEF Refused, Mention
      <3>4. Mention(m) \in Speaks(t)
        BY <1>2, <2>1, Spoken
      <3>5. ASSUME NEW i \in DOMAIN toWorker'[t]
            PROVE  ~Asks(toWorker'[t][i], m.attempt)
        <4>1. toWorker'[t] = Tail(toWorker[t])
          BY DEF Dispatched, TypeInv
        <4>2. /\ i \in 1..Len(toWorker[t]) - 1 /\ toWorker'[t][i] = toWorker[t][i + 1]
              /\ DOMAIN toWorker[t] = 1..Len(toWorker[t]) /\ Len(toWorker[t]) \in Nat
          BY <1>2, <4>1, Shortened DEF Dispatched
        <4>3. i + 1 \in DOMAIN toWorker[t] /\ i + 1 # 1
          BY <4>2
        <4>4. Asks(toWorker[t][1], m.attempt)
          BY <1>2, <2>1 DEF Asks
        <4> QED  BY <1>2, <3>1, <4>2, <4>3, <4>4 DEF StreamInv, FreshInv
      <3> QED  BY <3>2, <3>3, <3>4, <3>5
    <2>2. CASE m.type # "prepare"
      <3>1. PICK x \in Told : x = [type |-> "replaced", attempt |-> 0]
        BY DEF Told
      <3>2. x.type # "prepared" /\ toPage' = toPage
        BY <2>2, <3>1 DEF Refused
      <3> QED  BY <3>2
    <2> QED  BY <2>1, <2>2
  <1>4. /\ \A u \in Tab : Heard(u) \subseteq Heard(u)'
        /\ \A u \in Tab : \A y \in Heard(u)' : y \in Heard(u) \/ Harmless(u, y)
    BY <1>3, SaidHarmless
  <1>5. worker.lease # None /\ worker.lease.tab = t =>
           ~Undoes(m, worker.lease.attempt) /\ ~Returns(m, worker.lease.session)
    <2> SUFFICES ASSUME worker.lease # None, worker.lease.tab = t
                 PROVE  ~Undoes(m, worker.lease.attempt) /\ ~Returns(m, worker.lease.session)
      OBVIOUS
    <2>1. worker.network # None /\ m.network # worker.network
      BY <1>1 DEF PlaysInv, Targets
    <2>2. ~Undoes(m, worker.lease.attempt)
      <3>1. m.type = "abandon" /\ m.attempt = worker.lease.attempt => m.network = worker.network
        BY <1>2, Spoken DEF StreamInv, AttemptsInv
      <3> QED  BY <2>1, <3>1 DEF Undoes
    <2>3. ~Returns(m, worker.lease.session)
      <3> SUFFICES ASSUME m.type = "release", m.session = worker.lease.session
                   PROVE  FALSE
        BY DEF Returns
      <3>1. m.session \in Nat /\ m.network \in Network
        BY DEF Asked
      <3>2. PICK stream \in [session : Nat, network : Network] :
               stream = [session |-> m.session, network |-> m.network]
        BY <3>1
      <3>3. stream.session = m.session /\ stream.network = m.network
        BY <3>2
      <3>4. stream \in Streams(t)
        BY <1>2, <3>3 DEF Streams
      <3> QED  BY <2>1, <3>3, <3>4 DEF StreamInv, StreamsInv
    <2> QED  BY <2>2, <2>3
  <1>6. rust.view <= rust'.view
    BY <1>1 DEF TypeInv, Rusts
  <1>7. Falls
    BY <1>1, <1>4, <1>5, <1>6, FallsByMessage
  <1>8. PlaysInv'
    BY <1>1, StreamStays
  <1> QED  BY <1>7, <1>8, FallsKeeps

LEMMA FetchStream ==
    ASSUME TypeInv, StreamInv, TypeInv', NEW t \in Tab, NEW m \in Asked,
           Dispatched(t, m), m.type = "fetch", StartTransfer(m),
           UNCHANGED <<page, toPage, prepares, taken>>
    PROVE  StreamInv'
  <1>1. /\ worker'.lease = worker.lease /\ worker'.network = worker.network
        /\ worker'.clients = worker.clients /\ rust' = rust
    BY DEF StartTransfer, TypeInv, Workers
  <1>2. /\ ClientsInv /\ PlaysInv /\ rust.view <= rust'.view
        /\ \A v, s : ~Undoes(m, v) /\ ~Returns(m, s)
    BY <1>1 DEF StreamInv, TypeInv, Rusts, Undoes, Returns
  <1>3. PlaysInv'
    BY <1>1, <1>2, StreamStays
  <1>4. Falls
    BY <1>1, <1>2, NothingSaid, FallsByMessage
  <1> QED  BY <1>3, <1>4, FallsKeeps

LEMMA AbandonStream ==
    ASSUME TypeInv, StreamInv, TypeInv', NEW t \in Tab, NEW m \in Asked,
           Dispatched(t, m), m.type = "abandon", AbandonLease(t, m),
           UNCHANGED <<page, toPage, prepares, taken>>
    PROVE  StreamInv'
  <1>1. ClientsInv /\ PlaysInv /\ worker \in Workers /\ \A s : ~Returns(m, s)
    BY DEF StreamInv, TypeInv, Returns
  <1>2. CASE Owns(Lease(t, m.attempt, 0))
    <2>1. worker' = [worker EXCEPT !.lease = None] /\ rust' = cancelHlsLease(worker.lease)
      BY <1>2 DEF AbandonLease
    <2>2. worker'.lease = None /\ worker'.clients = worker.clients /\ worker.lease # None
      BY <1>1, <1>2, <2>1 DEF Workers, Owns
    <2>3. PlaysInv' /\ rust.view <= rust'.view
      BY <1>1, <2>1, <2>2, StreamEnds
    <2>4. Falls
      BY <1>1, <2>2, <2>3, NothingSaid, FallsByMessage
    <2> QED  BY <2>3, <2>4, FallsKeeps
  <1>3. CASE ~Owns(Lease(t, m.attempt, 0))
    <2>1. worker' = worker /\ rust' = rust
      BY <1>3 DEF AbandonLease
    <2>2. worker.lease # None /\ worker.lease.tab = t => ~Undoes(m, worker.lease.attempt)
      BY <1>3 DEF Owns, Key, Lease, Undoes
    <2>3. PlaysInv' /\ rust.view <= rust'.view
      BY <1>1, <2>1, StreamStays DEF TypeInv, Rusts
    <2>4. Falls
      BY <1>1, <2>1, <2>2, <2>3, NothingSaid, FallsByMessage
    <2> QED  BY <2>3, <2>4, FallsKeeps
  <1> QED  BY <1>2, <1>3

LEMMA ReleaseStream ==
    ASSUME TypeInv, StreamInv, TypeInv', NEW t \in Tab, NEW m \in Asked,
           Dispatched(t, m), m.type = "release", Targets(m), Release(t, m),
           UNCHANGED <<page, toPage, prepares, taken>>
    PROVE  StreamInv'
  <1>1. ClientsInv /\ PlaysInv /\ worker \in Workers /\ \A v : ~Undoes(m, v)
    BY DEF StreamInv, TypeInv, Undoes
  <1>2. m.session # 0
    <2>1. m.session \in Nat /\ m.network \in Network
      BY DEF Asked
    <2>2. PICK x \in [session : Nat, network : Network] :
             x = [session |-> m.session, network |-> m.network]
      BY <2>1
    <2>3. toWorker[t] \in Seq(Asked) /\ toWorker[t] # <<>>
      BY DEF TypeInv, Dispatched
    <2>4. m = toWorker[t][1] /\ 1 \in DOMAIN toWorker[t]
      BY <2>3 DEF Dispatched
    <2>5. x \in Streams(t) /\ x.session = m.session
      BY <2>2, <2>4 DEF Streams, Sent
    <2> QED  BY <2>5 DEF StreamInv, StreamsInv
  <1>3. CASE worker.lease # None /\ worker.lease.tab = t /\ worker.lease.session = m.session
    <2>1. /\ worker' = [worker EXCEPT !.lease = None]
          /\ rust' = hls_control_release(m.network, m.session)
      BY <1>3 DEF Release
    <2>2. rust' = cancelHlsLease(worker.lease)
      BY <1>2, <1>3, <2>1 DEF cancelHlsLease, Targets
    <2>3. worker'.lease = None /\ worker'.clients = worker.clients
      BY <1>1, <2>1 DEF Workers
    <2>4. PlaysInv' /\ rust.view <= rust'.view
      BY <1>1, <1>3, <2>2, <2>3, StreamEnds
    <2>5. Falls
      BY <1>1, <2>3, <2>4, NothingSaid, FallsByMessage
    <2> QED  BY <2>4, <2>5, FallsKeeps
  <1>4. CASE ~(worker.lease # None /\ worker.lease.tab = t /\ worker.lease.session = m.session)
    <2>1. worker' = worker /\ rust' = rust
      BY <1>4 DEF Release
    <2>2. worker.lease # None /\ worker.lease.tab = t => ~Returns(m, worker.lease.session)
      BY <1>4 DEF Returns
    <2>3. PlaysInv' /\ rust.view <= rust'.view
      BY <1>1, <2>1, StreamStays DEF TypeInv, Rusts
    <2>4. Falls
      BY <1>1, <2>1, <2>2, <2>3, NothingSaid, FallsByMessage
    <2> QED  BY <2>3, <2>4, FallsKeeps
  <1> QED  BY <1>3, <1>4

\* While a start leads elsewhere there is no lease.
LEMMA SwitchHasNoLease ==
    ASSUME TypeInv, SharedInv, StreamInv, Performing, rust.network # Target
    PROVE  worker.lease = None
  BY DEF SharedInv, NetworkInv, StreamInv, PlaysInv

LEMMA SwitchStream ==
    ASSUME TypeInv, SharedInv, StreamInv, TypeInv', RuntimeSwitches
    PROVE  StreamInv'
  <1>1. /\ rust \in Rusts /\ rust.view \in Nat /\ ClientsInv /\ PlaysInv
        /\ \A p \in prepares : p.view \in Nat
    BY DEF TypeInv, Rusts, StreamInv
  <1>2. PICK view \in Nat : view = rust.view + 1
    BY <1>1
  <1>3. rust' = [rust EXCEPT !.view = view, !.session = 0, !.switching = TRUE]
    BY <1>2 DEF RuntimeSwitches
  <1>4. rust'.view = view /\ rust'.session = 0 /\ rust.view <= rust'.view
    BY <1>1, <1>2, <1>3 DEF Rusts
  <1>5. worker.lease = None
    BY SwitchHasNoLease DEF RuntimeSwitches
  <1>6. UNCHANGED <<page, toWorker, toPage, worker, prepares, taken>>
    BY DEF RuntimeSwitches
  <1>7. PlaysInv'
    <2>1. \A p \in prepares : p.view <= rust'.view /\ p.view # rust'.view
      BY <1>1, <1>2, <1>4 DEF PlaysInv
    <2> QED  BY <1>1, <1>4, <1>5, <1>6, <2>1 DEF PlaysInv, Owns
  <1>8. Falls
    BY <1>1, <1>4, <1>5, <1>6, NothingSaid, FallsByItself
  <1> QED  BY <1>7, <1>8, FallsKeeps

LEMMA StartedStream ==
    ASSUME TypeInv, SharedInv, StreamInv, TypeInv', StartSucceeds
    PROVE  StreamInv'
  <1>1. /\ worker \in Workers /\ rust \in Rusts /\ toPage \in [Tab -> Seq(Told)]
        /\ worker.start.message \in [type : {"start"}, id : Nat, network : Network]
        /\ Target \in Network /\ Performing /\ ClientsInv /\ PlaysInv
    BY DEF TypeInv, Workers, StartSucceeds, Performing, Starts, Target, StreamInv
  <1>2. /\ rust' = [rust EXCEPT !.network = Target, !.switching = FALSE]
        /\ worker' = [worker EXCEPT !.start = None]
        /\ UNCHANGED <<page, toWorker, prepares, taken>>
        /\ rust.switching \/ rust.network = Target
    BY DEF StartSucceeds
  <1>3. /\ rust'.network = Target /\ rust'.switching = FALSE
        /\ rust'.view = rust.view /\ rust'.session = rust.session /\ rust.view <= rust'.view
    BY <1>1, <1>2 DEF Rusts
  <1>4. /\ worker'.lease = worker.lease /\ worker'.network = worker.network
        /\ worker'.clients = worker.clients
    BY <1>1, <1>2 DEF Workers
  <1>5. PICK notice \in Told : notice = [type |-> "changed", network |-> Target]
    BY <1>1 DEF Told
  <1>6. PICK answer \in Told : answer = StartAnswer(worker.start.message, TRUE)
    BY <1>1 DEF StartAnswer, Told
  <1>7. notice.type = "changed" /\ answer.type = "started"
    BY <1>5, <1>6 DEF StartAnswer
  <1>8. ASSUME NEW u \in Tab
        PROVE  /\ Heard(u) \subseteq Heard(u)'
               /\ \A x \in Heard(u)' : x \in Heard(u) \/ x = notice \/ x = answer
    <2>1. PICK first \in {<<>>, <<notice>>}, then \in {<<>>, <<answer>>} :
             toPage'[u] = toPage[u] \o first \o then
      <3>1. toPage' = [x \in Tab |-> toPage[x]
               \o (IF x \in worker.clients
                   THEN IF worker.start.previous = Target THEN <<>> ELSE <<notice>>
                   ELSE <<>>)
               \o (IF x = worker.start.tab THEN <<answer>> ELSE <<>>)]
        BY <1>5, <1>6 DEF StartSucceeds
      <3> QED  BY <3>1
    <2>2. toPage[u] \in Seq(Told) /\ first \in Seq(Told) /\ then \in Seq(Told)
      <3>1. <<>> \in Seq(Told) /\ <<notice>> \in Seq(Told) /\ <<answer>> \in Seq(Told)
        OBVIOUS
      <3> QED  BY <1>1, <3>1
    <2>3. PICK one \in Seq(Told) : one = toPage[u] \o first
      <3>1. toPage[u] \o first \in Seq(Told)
        BY <2>2, Joined
      <3> QED  BY <3>1
    <2>4. /\ \A i \in DOMAIN first : first[i] = notice
          /\ \A i \in DOMAIN then : then[i] = answer
      OBVIOUS
    <2>5. /\ DOMAIN toPage[u] = 1..Len(toPage[u]) /\ DOMAIN first = 1..Len(first)
          /\ DOMAIN one = 1..Len(toPage[u]) + Len(first)
          /\ Len(toPage[u]) \in Nat /\ Len(first) \in Nat
          /\ \A i \in 1..Len(toPage[u]) : one[i] = toPage[u][i]
          /\ \A i \in 1..Len(first) : one[Len(toPage[u]) + i] = first[i]
          /\ \A k \in 1..Len(toPage[u]) + Len(first) :
                k \in 1..Len(toPage[u]) \/ k - Len(toPage[u]) \in 1..Len(first)
      BY <2>2, <2>3, Joined
    <2>6. PICK two \in Seq(Told) : two = toPage'[u] /\ two = one \o then
      <3>1. one \o then \in Seq(Told)
        BY <2>2, Joined
      <3> QED  BY <2>1, <2>3, <3>1
    <2>7. /\ DOMAIN one = 1..Len(one) /\ DOMAIN then = 1..Len(then)
          /\ DOMAIN two = 1..Len(one) + Len(then)
          /\ Len(one) \in Nat /\ Len(then) \in Nat
          /\ \A i \in 1..Len(one) : two[i] = one[i]
          /\ \A i \in 1..Len(then) : two[Len(one) + i] = then[i]
          /\ \A k \in 1..Len(one) + Len(then) :
                k \in 1..Len(one) \/ k - Len(one) \in 1..Len(then)
      BY <2>2, <2>6, Joined
    <2>8. /\ \A i \in DOMAIN toPage[u] : i \in DOMAIN one /\ one[i] = toPage[u][i]
          /\ \A i \in DOMAIN one : i \in DOMAIN two /\ two[i] = one[i]
      BY <2>5, <2>7
    <2>9. ASSUME NEW k \in DOMAIN one
          PROVE  one[k] = notice \/ \E i \in DOMAIN toPage[u] : one[k] = toPage[u][i]
      <3>1. CASE k \in 1..Len(toPage[u])
        BY <2>5, <3>1
      <3>2. CASE k - Len(toPage[u]) \in 1..Len(first)
        <4>1. k = Len(toPage[u]) + (k - Len(toPage[u]))
          BY <2>5, <2>9
        <4>2. one[k] = first[k - Len(toPage[u])]
          BY <2>5, <3>2, <4>1
        <4> QED  BY <2>4, <2>5, <3>2, <4>2
      <3> QED  BY <2>5, <2>9, <3>1, <3>2
    <2>10. ASSUME NEW k \in DOMAIN two
           PROVE  two[k] = answer \/ \E i \in DOMAIN one : two[k] = one[i]
      <3>1. CASE k \in 1..Len(one)
        BY <2>7, <3>1
      <3>2. CASE k - Len(one) \in 1..Len(then)
        <4>1. k = Len(one) + (k - Len(one))
          BY <2>7, <2>10
        <4>2. two[k] = then[k - Len(one)]
          BY <2>7, <3>2, <4>1
        <4> QED  BY <2>4, <2>7, <3>2, <4>2
      <3> QED  BY <2>7, <2>10, <3>1, <3>2
    <2> QED  BY <2>6, <2>8, <2>9, <2>10 DEF Heard
  <1>9. /\ \A u \in Tab : Heard(u) \subseteq Heard(u)'
        /\ \A u \in Tab : \A x \in Heard(u)' : x \in Heard(u) \/ Harmless(u, x)
    BY <1>7, <1>8 DEF Harmless
  <1>10. PlaysInv'
    <2>1. worker.lease # None => worker.network = Target
      BY <1>1 DEF SharedInv, NetworkInv
    <2>2. \A p \in prepares : p.view # 0 /\ p.view = rust.view => p.network = Target
      BY <1>1, <1>2 DEF PlaysInv
    <2> QED  BY <1>1, <1>2, <1>3, <1>4, <2>1, <2>2 DEF PlaysInv, Owns
  <1>11. Falls
    BY <1>1, <1>2, <1>3, <1>4, <1>9, FallsByItself
  <1> QED  BY <1>10, <1>11, FallsKeeps

LEMMA FailsStream ==
    ASSUME TypeInv, SharedInv, StreamInv, TypeInv', StartFails
    PROVE  StreamInv'
  <1>1. /\ worker'.lease = worker.lease /\ worker'.network = worker.network
        /\ worker'.clients = worker.clients
        /\ UNCHANGED <<page, toWorker, toPage, prepares, rust, taken>>
    BY DEF StartFails, TypeInv, Workers
  <1>2. ClientsInv /\ PlaysInv /\ rust.view <= rust'.view
    BY <1>1 DEF StreamInv, TypeInv, Rusts
  <1>3. PlaysInv'
    BY <1>1, <1>2, StreamStays
  <1>4. Falls
    BY <1>1, <1>2, NothingSaid, FallsByItself
  <1> QED  BY <1>3, <1>4, FallsKeeps

LEMMA WaiterStream ==
    ASSUME TypeInv, SharedInv, StreamInv, TypeInv', NEW t \in Tab, WaiterFails(t)
    PROVE  StreamInv'
  <1>1. PICK m : m = Head(toWorker[t])
    OBVIOUS
  <1>2. /\ Dispatched(t, m) /\ m \in Asked
        /\ Refused(t, m) /\ UNCHANGED <<page, prepares, taken>>
    BY <1>1 DEF WaiterFails, Dispatched, TypeInv
  <1>3. Performing /\ rust.network # Target
    BY DEF WaiterFails, SharedInv, NetworkInv
  <1> QED  BY <1>2, <1>3, SwitchHasNoLease, RefusedStream

LEMMA FailedStream ==
    ASSUME TypeInv, SharedInv, StreamInv, TypeInv', StartFailed
    PROVE  StreamInv'
  <1>0. Performing /\ rust.network # Target
    BY DEF StartFailed, SharedInv, NetworkInv
  <1>1. /\ worker \in Workers /\ worker.start.tab \in Tab
        /\ worker.start.message \in [type : {"start"}, id : Nat, network : Network]
        /\ ClientsInv /\ PlaysInv
    BY <1>0 DEF TypeInv, Workers, Performing, Starts, StreamInv
  <1>2. /\ worker' = [worker EXCEPT !.start = None, !.failed = FALSE,
                                    !.network = worker.start.previous]
        /\ UNCHANGED <<page, toWorker, prepares, rust, taken>>
    BY DEF StartFailed
  <1>3. worker.lease = None /\ worker'.lease = None /\ worker'.clients = worker.clients
    BY <1>0, <1>1, <1>2, SwitchHasNoLease DEF Workers
  <1>4. PICK answer \in Told : answer = StartAnswer(worker.start.message, FALSE)
    BY <1>1, RefusalFacts
  <1>5. answer.type # "prepared" /\ toPage' = Send(worker.start.tab, answer)
    BY <1>4 DEF StartAnswer, StartFailed
  <1>6. /\ \A u \in Tab : Heard(u) \subseteq Heard(u)'
        /\ \A u \in Tab : \A x \in Heard(u)' : x \in Heard(u) \/ Harmless(u, x)
    BY <1>1, <1>5, SaidHarmless
  <1>7. PlaysInv' /\ rust.view <= rust'.view
    BY <1>1, <1>2, <1>3, StreamStays DEF TypeInv, Rusts
  <1>8. Falls
    BY <1>1, <1>2, <1>3, <1>6, <1>7, FallsByItself
  <1> QED  BY <1>7, <1>8, FallsKeeps

LEMMA TransferStream ==
    ASSUME TypeInv, StreamInv, TypeInv', TransferEnds \/ Settle
    PROVE  StreamInv'
  <1>1. /\ worker'.lease = worker.lease /\ worker'.network = worker.network
        /\ worker'.clients = worker.clients
    BY DEF TransferEnds, Settle, TypeInv, Workers
  <1>2. /\ rust'.view = rust.view /\ rust'.session = rust.session
        /\ rust'.network = rust.network /\ rust'.switching = rust.switching
    BY DEF TransferEnds, Settle, TypeInv, Rusts
  <1>3. UNCHANGED <<page, toWorker, toPage, prepares, taken>>
    BY DEF TransferEnds, Settle
  <1>4. ClientsInv /\ PlaysInv /\ rust.view <= rust'.view
    BY <1>2 DEF StreamInv, TypeInv, Rusts
  <1>5. PlaysInv'
    BY <1>1, <1>2, <1>3, <1>4, StreamStays
  <1>6. Falls
    BY <1>1, <1>3, <1>4, NothingSaid, FallsByItself
  <1> QED  BY <1>5, <1>6, FallsKeeps

-----------------------------------------------------------------------------
(* A preparation that comes to nothing, or is prepared for nobody.         *)
LEMMA PreparesTyped ==
    ASSUME TypeInv, NEW p \in prepares
    PROVE  /\ p \in [lease : Leases, network : Network, view : Nat]
           /\ p.lease \in Leases /\ p.lease.tab \in Tab /\ p.lease.attempt \in Nat
           /\ p.lease.session \in Nat /\ p.view \in Nat /\ p.network \in Network
           /\ Key(p.lease) = <<p.lease.tab, p.lease.attempt>>
  BY DEF TypeInv, Leases, Key

LEMMA RefusalHarmless ==
    ASSUME TypeInv, FreshInv, NEW p \in prepares, toWorker' = toWorker,
           toPage' = Send(p.lease.tab, PrepareAnswer(p, FALSE, 0))
    PROVE  /\ \A u \in Tab : Heard(u) \subseteq Heard(u)'
           /\ \A u \in Tab : \A y \in Heard(u)' : y \in Heard(u) \/ Harmless(u, y)
  <1>1. PICK t \in Tab, v \in Nat : t = p.lease.tab /\ v = p.lease.attempt /\ Key(p.lease) = <<t, v>>
    BY PreparesTyped
  <1>2. PICK x \in Told : x = [type |-> "prepared", attempt |-> p.lease.attempt, ok |-> FALSE,
                               network |-> p.network, session |-> 0]
    BY PreparesTyped DEF Told
  <1>3. /\ ~x.ok /\ x.attempt = v /\ Mention(x) = Attempt(p.lease.attempt, p.network)
        /\ toPage' = Send(t, x)
    BY <1>1, <1>2 DEF Mention, PrepareAnswer
  <1>4. Mention(x) \in Speaks(t)
    BY <1>1, <1>3, Spoken
  <1>5. \A i \in DOMAIN toWorker'[t] : ~Asks(toWorker'[t][i], v)
    BY <1>1 DEF FreshInv, Unknown
  <1> QED  BY <1>3, <1>4, <1>5, SaidHarmless

LEMMA BeginFails ==
    ASSUME TypeInv, StreamInv, TypeInv', NEW p \in prepares, p.view = 0,
           prepares' = prepares \ {p},
           worker' = [worker EXCEPT !.lease = IF Owns(p.lease) THEN None ELSE @],
           toPage' = Send(p.lease.tab, PrepareAnswer(p, FALSE, 0)),
           UNCHANGED <<page, toWorker, rust, taken>>
    PROVE  StreamInv'
  <1>1. /\ worker \in Workers /\ ClientsInv /\ PlaysInv /\ FreshInv /\ rust.view <= rust'.view
    BY DEF TypeInv, StreamInv, Rusts
  <1>2. /\ worker'.lease = IF Owns(p.lease) THEN None ELSE worker.lease
        /\ worker'.network = worker.network /\ worker'.clients = worker.clients
    BY <1>1 DEF Workers
  <1>3. /\ \A u \in Tab : Heard(u) \subseteq Heard(u)'
        /\ \A u \in Tab : \A y \in Heard(u)' : y \in Heard(u) \/ Harmless(u, y)
    BY <1>1, RefusalHarmless
  <1>4. worker'.lease # None =>
           \A q \in prepares : Key(q.lease) = Key(worker.lease) => q \in prepares'
    BY <1>2 DEF Owns
  <1>5. Falls
    BY <1>1, <1>2, <1>3, <1>4, FallsByItself
  <1>6. PlaysInv'
    <2>1. rust.session # 0 =>
             \/ worker'.lease # None /\ worker'.lease.session = rust.session
             \/ \E q \in prepares' : q.view = rust.session
      BY <1>1, <1>2 DEF PlaysInv
    <2>2. \A q \in prepares' : Owns(q.lease)' => worker'.lease.session = 0
      BY <1>1, <1>2 DEF PlaysInv, Owns
    <2>3. worker'.lease # None =>
             /\ worker'.network # None /\ worker'.network = rust.network /\ ~rust.switching
             /\ worker'.lease.session # 0 =>
                   /\ rust.session = worker'.lease.session
                   /\ \A q \in prepares' : q.view # worker'.lease.session
      BY <1>1, <1>2 DEF PlaysInv
    <2> QED  BY <1>1, <2>1, <2>2, <2>3 DEF PlaysInv
  <1> QED  BY <1>5, <1>6, FallsKeeps

LEMMA ReturnFails ==
    ASSUME TypeInv, StreamInv, TypeInv', NEW p \in prepares, p.view # 0,
           prepares' = prepares \ {p},
           worker' = [worker EXCEPT !.lease = IF Owns(p.lease) THEN None ELSE @],
           toPage' = Send(p.lease.tab, PrepareAnswer(p, FALSE, 0)),
           rust'.view = rust.view, SameRuntime(rust'),
           rust'.session = IF rust.view = p.view THEN 0 ELSE rust.session,
           UNCHANGED <<page, toWorker, taken>>
    PROVE  StreamInv'
  <1>1. /\ worker \in Workers /\ ClientsInv /\ PlaysInv /\ FreshInv /\ rust.view <= rust'.view
    BY DEF TypeInv, StreamInv, Rusts
  <1>2. /\ worker'.lease = IF Owns(p.lease) THEN None ELSE worker.lease
        /\ worker'.network = worker.network /\ worker'.clients = worker.clients
    BY <1>1 DEF Workers
  <1>3. /\ \A u \in Tab : Heard(u) \subseteq Heard(u)'
        /\ \A u \in Tab : \A y \in Heard(u)' : y \in Heard(u) \/ Harmless(u, y)
    BY <1>1, RefusalHarmless
  <1>4. worker'.lease # None =>
           \A q \in prepares : Key(q.lease) = Key(worker.lease) => q \in prepares'
    BY <1>2 DEF Owns
  <1>5. Falls
    BY <1>1, <1>2, <1>3, <1>4, FallsByItself
  <1>6. PlaysInv'
    <2>1. rust'.session # 0 =>
             \/ worker'.lease # None /\ worker'.lease.session = rust'.session
             \/ \E q \in prepares' : q.view = rust'.session
      BY <1>1, <1>2 DEF PlaysInv
    <2>2. \A q \in prepares' : Owns(q.lease)' => worker'.lease.session = 0
      BY <1>1, <1>2 DEF PlaysInv, Owns
    <2>3. worker'.lease # None =>
             /\ worker'.network # None /\ worker'.network = rust'.network /\ ~rust'.switching
             /\ worker'.lease.session # 0 =>
                   /\ rust'.session = worker'.lease.session
                   /\ \A q \in prepares' : q.view # worker'.lease.session
      BY <1>1, <1>2 DEF PlaysInv, SameRuntime
    <2>4. rust'.session \in {0, rust'.view}
      BY <1>1 DEF PlaysInv
    <2>5. \A q \in prepares' : q.view # 0 /\ q.view = rust'.view =>
             q.network = rust'.network /\ ~rust'.switching
      BY <1>1 DEF PlaysInv, SameRuntime
    <2> QED  BY <1>1, <2>1, <2>2, <2>3, <2>4, <2>5 DEF PlaysInv
  <1> QED  BY <1>5, <1>6, FallsKeeps

-----------------------------------------------------------------------------
(* A preparation takes the session of the runtime.                         *)
LEMMA BeginKeeps ==
    ASSUME TypeInv, StreamInv, NEW p \in prepares, p.view = 0,
           Owns(p.lease), Accepts(p.network),
           NEW view \in Nat, view = rust.view + 1,
           NEW begun, begun = [p EXCEPT !.view = view],
           prepares' = (prepares \ {p}) \cup {begun},
           rust'.view = view, rust'.session = view, SameRuntime(rust'),
           UNCHANGED <<page, toWorker, toPage, worker, taken>>
    PROVE  StreamInv'
  <1>1. /\ begun.lease = p.lease /\ begun.network = p.network /\ begun.view = view
        /\ rust.view \in Nat /\ ClientsInv /\ PlaysInv
    BY PreparesTyped DEF TypeInv, Rusts, StreamInv
  <1>2. /\ \A q \in prepares' : q = begun \/ (q \in prepares /\ q # p)
        /\ \A q \in prepares : q # p => q \in prepares'
        /\ begun \in prepares'
        /\ \A q \in prepares : q.view \in Nat /\ q.view <= rust.view
    BY PreparesTyped DEF StreamInv, PlaysInv
  <1>3. \A u \in Tab : Sent(u)' = Sent(u) /\ Heard(u)' = Heard(u)
    BY DEF Sent, Heard
  <1>4. \A u \in Tab : Speaks(u)' \subseteq Speaks(u)
    <2> SUFFICES ASSUME NEW u \in Tab, NEW a \in Speaks(u)'
                 PROVE  a \in Speaks(u)
      OBVIOUS
    <2>1. a \in Attempts
      BY DEF Speaks
    <2>2. CASE \E q \in prepares' : q.lease.tab = u /\ a = Attempt(q.lease.attempt, q.network)
      <3>1. PICK q \in prepares' : q.lease.tab = u /\ a = Attempt(q.lease.attempt, q.network)
        BY <2>2
      <3>2. \E r \in prepares : r.lease.tab = u /\ a = Attempt(r.lease.attempt, r.network)
        BY <1>1, <1>2, <3>1
      <3> QED  BY <2>1, <3>2 DEF Speaks
    <2>3. CASE ~\E q \in prepares' : q.lease.tab = u /\ a = Attempt(q.lease.attempt, q.network)
      BY <1>3, <2>1, <2>3 DEF Speaks
    <2> QED  BY <2>2, <2>3
  <1>5. \A u \in Tab : Streams(u)' = Streams(u)
    BY <1>3 DEF Streams
  <1>6. ClientsInv'
    BY <1>1, <1>3 DEF ClientsInv
  <1>7. PlaysInv'
    <2>1. ASSUME NEW q \in prepares'
          PROVE  /\ q.view <= view
                 /\ q.view # 0 /\ q.view = view => q.network = rust.network /\ ~rust.switching
      <3>1. CASE q = begun
        BY <1>1, <3>1 DEF Accepts
      <3>2. CASE q \in prepares
        BY <1>1, <1>2, <3>2
      <3> QED  BY <1>2, <3>1, <3>2
    <2>2. \A q, r \in prepares' :
             (q.view # 0 /\ q.view = r.view) \/ Key(q.lease) = Key(r.lease) => q = r
      <3> SUFFICES ASSUME NEW q \in prepares', NEW r \in prepares',
                          (q.view # 0 /\ q.view = r.view) \/ Key(q.lease) = Key(r.lease)
                   PROVE  q = r
        OBVIOUS
      <3>1. \A o \in prepares : o # p => o.view # view /\ Key(o.lease) # Key(p.lease)
        BY <1>1, <1>2 DEF PlaysInv
      <3>2. CASE q = begun \/ r = begun
        BY <1>1, <1>2, <3>1, <3>2
      <3>3. CASE q \in prepares /\ r \in prepares
        BY <1>1, <3>3 DEF PlaysInv
      <3> QED  BY <1>2, <3>2, <3>3
    <2>3. worker.lease # None /\ worker.lease.session = 0
      BY <1>1 DEF PlaysInv, Owns
    <2>4. rust'.network = rust.network /\ rust'.switching = rust.switching
      BY DEF SameRuntime
    <2>5. worker'.lease = worker.lease /\ worker'.network = worker.network
      OBVIOUS
    <2>6. \A q \in prepares' : Owns(q.lease)' => worker'.lease.session = 0
      BY <2>3, <2>5
    <2>7. worker'.lease # None =>
             /\ worker'.network # None /\ worker'.network = rust'.network /\ ~rust'.switching
             /\ worker'.lease.session = 0
      BY <1>1, <2>3, <2>4, <2>5 DEF PlaysInv
    <2>8. \E q \in prepares' : q.view = rust'.session
      BY <1>1, <1>2
    <2>9. rust'.session \in {0, rust'.view}
      OBVIOUS
    <2>10. \A q \in prepares' :
              /\ q.view <= rust'.view
              /\ q.view # 0 /\ q.view = rust'.view => q.network = rust'.network /\ ~rust'.switching
      BY <2>1, <2>4
    <2> QED  BY <2>2, <2>6, <2>7, <2>8, <2>9, <2>10 DEF PlaysInv
  <1>8. AttemptsInv'
    <2>1. ASSUME NEW u \in Tab, NEW a \in Speaks(u)'
          PROVE  a.view <= page[u].view /\ \A b \in Speaks(u)' : a.view = b.view => a = b
      BY <1>4 DEF StreamInv, AttemptsInv
    <2>2. ASSUME NEW u \in Tab, worker.lease # None, worker.lease.tab = u
          PROVE  /\ worker.lease.attempt <= page[u].view
                 /\ \A a \in Speaks(u)' :
                       a.view = worker.lease.attempt => a.network = worker.network
      BY <1>4, <2>2 DEF StreamInv, AttemptsInv
    <2>3. \A k \in taken : k[2] <= page[k[1]].view
      BY DEF StreamInv, AttemptsInv
    <2> QED  BY <2>1, <2>2, <2>3 DEF AttemptsInv
  <1>9. StreamsInv'
    <2> SUFFICES ASSUME NEW u \in Tab, NEW x \in Streams(u)
                 PROVE  /\ x.session # 0 /\ x.session <= view
                        /\ \A q \in prepares' : q.view # x.session
                        /\ worker.lease # None /\ worker.lease.session = x.session
                              => x.network = worker.network
      BY <1>5 DEF StreamsInv
    <2>1. /\ x.session # 0 /\ x.session <= rust.view /\ x.session \in Nat
          /\ \A q \in prepares : q.view # x.session
          /\ worker.lease # None /\ worker.lease.session = x.session => x.network = worker.network
      BY DEF StreamInv, StreamsInv, Streams
    <2>2. x.session <= view /\ x.session # view
      BY <1>1, <2>1
    <2>3. ASSUME NEW q \in prepares'
          PROVE  q.view # x.session
      <3>1. CASE q = begun
        BY <1>1, <2>2, <3>1
      <3>2. CASE q \in prepares
        BY <2>1, <3>2
      <3> QED  BY <1>2, <3>1, <3>2
    <2> QED  BY <2>1, <2>2, <2>3
  <1>10. FreshInv'
    <2>1. \A u \in Tab, v \in Nat : Unknown(u, v) => Unknown(u, v)'
      BY <1>1, <1>2, <1>3 DEF Unknown
    <2> QED  BY <2>1 DEF StreamInv, FreshInv
  <1>11. AnswersInv'
    BY <1>3 DEF StreamInv, AnswersInv
  <1>12. PromisedInv'
    BY DEF StreamInv, PromisedInv
  <1>13. LeaseInv'
    <2> SUFFICES ASSUME NEW u \in Tab, NEW v \in Nat, NEW n \in Nat,
                        worker.lease = Lease(u, v, n)
                 PROVE  LookedAfter(u, v, n)'
      BY DEF LeaseInv
    <2>1. LookedAfter(u, v, n)
      BY DEF StreamInv, LeaseInv
    <2>2. (\E q \in prepares : Key(q.lease) = <<u, v>>) => \E q \in prepares' : Key(q.lease) = <<u, v>>
      BY <1>1, <1>2
    <2> QED  BY <1>3, <2>1, <2>2 DEF LookedAfter, Shows
  <1>14. TakenInv'
    BY <1>3 DEF StreamInv, TakenInv, Shows
  <1> QED
    BY <1>6, <1>7, <1>8, <1>9, <1>10, <1>11, <1>12, <1>13, <1>14 DEF StreamInv

LEMMA BeginStream ==
    ASSUME TypeInv, StreamInv, TypeInv', PrepareBegins
    PROVE  StreamInv'
  <1>1. PICK p \in prepares :
           /\ p.view = 0
           /\ IF Owns(p.lease) /\ Accepts(p.network)
              THEN /\ rust' = [rust EXCEPT !.view = @ + 1, !.session = rust.view + 1, !.key = Key(p.lease)]
                   /\ prepares' = (prepares \ {p}) \cup {[p EXCEPT !.view = rust.view + 1]}
                   /\ UNCHANGED <<worker, toPage>>
              ELSE /\ prepares' = prepares \ {p}
                   /\ worker' = [worker EXCEPT !.lease = IF Owns(p.lease) THEN None ELSE @]
                   /\ toPage' = Send(p.lease.tab, PrepareAnswer(p, FALSE, 0))
                   /\ UNCHANGED rust
    BY DEF PrepareBegins
  <1>2. UNCHANGED <<page, toWorker, taken>> /\ rust \in Rusts
    BY DEF PrepareBegins, TypeInv
  <1>3. CASE Owns(p.lease) /\ Accepts(p.network)
    <2>1. PICK view \in Nat : view = rust.view + 1
      BY <1>2 DEF Rusts
    <2>2. PICK key : key = Key(p.lease)
      OBVIOUS
    <2>3. rust' = [rust EXCEPT !.view = view, !.session = view, !.key = key]
      BY <1>1, <1>3, <2>1, <2>2
    <2>4. rust'.view = view /\ rust'.session = view /\ SameRuntime(rust')
      BY <1>2, <2>3 DEF Rusts, SameRuntime
    <2>5. PICK begun : begun = [p EXCEPT !.view = view]
      OBVIOUS
    <2>6. prepares' = (prepares \ {p}) \cup {begun} /\ UNCHANGED <<worker, toPage>>
      BY <1>1, <1>3, <2>1, <2>5
    <2> QED  BY <1>1, <1>2, <1>3, <2>1, <2>4, <2>5, <2>6, BeginKeeps
  <1>4. CASE ~(Owns(p.lease) /\ Accepts(p.network))
    BY <1>1, <1>2, <1>4, BeginFails
  <1> QED  BY <1>3, <1>4

-----------------------------------------------------------------------------
(* A stream is prepared for the lease, and its window is told.             *)
LEMMA ReturnKeeps ==
    ASSUME TypeInv, StreamInv, NEW p \in prepares, p.view # 0,
           rust.view = p.view, rust.session = p.view, Owns(p.lease),
           NEW lease, lease = [worker.lease EXCEPT !.session = p.view],
           worker' = [worker EXCEPT !.lease = lease],
           prepares' = prepares \ {p},
           toPage' = Send(p.lease.tab, PrepareAnswer(p, TRUE, p.view)),
           UNCHANGED <<page, toWorker, rust, taken>>
    PROVE  StreamInv'
  <1>1. PICK t \in Tab, v \in Nat, s \in Nat :
           /\ t = p.lease.tab /\ v = p.lease.attempt /\ s = p.view /\ s # 0
           /\ Key(p.lease) = <<t, v>> /\ p.network \in Network
    BY PreparesTyped
  <1>2. /\ worker \in Workers /\ worker.lease \in Leases /\ worker.lease # None
        /\ worker.lease.session = 0 /\ worker.lease.tab = t /\ worker.lease.attempt = v
        /\ t \in worker.clients
    <2>1. worker \in Workers /\ worker.lease # None /\ worker.lease.session = 0
      BY DEF TypeInv, StreamInv, PlaysInv, Owns
    <2>2. worker.lease \in Leases
      BY <2>1 DEF Workers
    <2>3. worker.lease.tab = t /\ worker.lease.attempt = v
      BY <1>1, <2>2 DEF Owns, Key
    <2> QED  BY <2>1, <2>2, <2>3 DEF StreamInv, ClientsInv
  <1>3. /\ lease \in Leases /\ lease # None
        /\ lease.tab = t /\ lease.attempt = v /\ lease.session = s
        /\ Key(lease) = <<t, v>> /\ Key(worker.lease) = <<t, v>>
        /\ worker.lease = Lease(t, v, 0)
    <2>1. /\ lease \in Leases /\ lease.tab = t /\ lease.attempt = v /\ lease.session = s
      BY <1>1, <1>2 DEF Leases
    <2>2. worker.lease = Lease(t, v, 0)
      BY <1>2 DEF Leases, Lease
    <2> QED  BY <1>2, <2>1, <2>2, SharedAssumption DEF Key
  <1>4. /\ worker'.lease = lease /\ worker'.network = worker.network
        /\ worker'.clients = worker.clients
    BY <1>2 DEF Workers
  <1>5. /\ ClientsInv /\ PlaysInv /\ p.network = rust.network /\ ~rust.switching
        /\ p.network = worker.network /\ worker.network # None /\ rust.view \in Nat
    BY <1>1, <1>2 DEF StreamInv, PlaysInv, TypeInv, Rusts
  <1>6. PICK x \in Told : x = [type |-> "prepared", attempt |-> v, ok |-> TRUE,
                               network |-> p.network, session |-> s]
    BY <1>1 DEF Told
  <1>7. /\ x.type = "prepared" /\ x.ok /\ x.attempt = v /\ x.session = s /\ x.network = p.network
        /\ Mention(x) = Attempt(v, p.network) /\ toPage' = Send(t, x)
    BY <1>1, <1>6 DEF Mention, PrepareAnswer
  <1>8. /\ \A u \in Tab : Heard(u) \subseteq Heard(u)'
        /\ \A u \in Tab : \A m \in Heard(u)' : m \in Heard(u) \/ (u = t /\ m = x)
        /\ x \in Heard(t)'
    BY <1>2, <1>7, SendHeard
  <1>9. \A u \in Tab : Sent(u)' = Sent(u)
    BY DEF Sent
  <1>10. \A q \in prepares' : q \in prepares /\ q.view # s /\ Key(q.lease) # <<t, v>>
    BY <1>1, <1>5 DEF PlaysInv
  <1>11. \A u \in Tab : Speaks(u)' \subseteq Speaks(u)
    <2> SUFFICES ASSUME NEW u \in Tab, NEW a \in Speaks(u)'
                 PROVE  a \in Speaks(u)
      OBVIOUS
    <2>1. a \in Attempts
      BY DEF Speaks
    <2>2. CASE u = t /\ a = Mention(x)
      BY <1>1, <1>7, <2>2, Spoken
    <2>3. CASE ~(u = t /\ a = Mention(x))
      BY <1>8, <1>9, <1>10, <2>1, <2>3 DEF Speaks
    <2> QED  BY <2>2, <2>3
  <1>12. \A u \in Tab : \A y \in Streams(u)' :
            y \in Streams(u) \/ (u = t /\ y.session = s /\ y.network = p.network)
    <2> SUFFICES ASSUME NEW u \in Tab, NEW y \in Streams(u)',
                        ~(u = t /\ y.session = s /\ y.network = p.network)
                 PROVE  y \in Streams(u)
      OBVIOUS
    <2>1. \A m \in Heard(u)' :
             m.type = "prepared" /\ m.ok /\ y.session = m.session /\ y.network = m.network
                => m \in Heard(u)
      BY <1>7, <1>8
    <2> QED  BY <1>9, <2>1 DEF Streams
  <1>13. ClientsInv'
    <2>1. worker'.lease # None => worker'.lease.tab \in worker'.clients
      BY <1>2, <1>3, <1>4
    <2> QED  BY <1>4, <1>5, <1>9, <2>1 DEF ClientsInv
  <1>14. PlaysInv'
    <2>1. \A q \in prepares' : ~Owns(q.lease)'
      BY <1>3, <1>4, <1>10 DEF Owns
    <2>2. \A q, r \in prepares' :
             (q.view # 0 /\ q.view = r.view) \/ Key(q.lease) = Key(r.lease) => q = r
      BY <1>5, <1>10 DEF PlaysInv
    <2>3. \A q \in prepares' :
             /\ q.view <= rust.view
             /\ q.view # 0 /\ q.view = rust.view => q.network = rust.network /\ ~rust.switching
      BY <1>5, <1>10 DEF PlaysInv
    <2>4. rust.session = s /\ rust.session = rust.view
      BY <1>1
    <2>5. /\ worker'.lease # None /\ worker'.lease.session = rust.session
          /\ worker'.network # None /\ worker'.network = rust.network
          /\ \A q \in prepares' : q.view # worker'.lease.session
      BY <1>3, <1>4, <1>5, <1>10, <2>4
    <2> QED  BY <1>5, <2>1, <2>2, <2>3, <2>4, <2>5 DEF PlaysInv
  <1>15. AttemptsInv'
    <2>1. ASSUME NEW u \in Tab, NEW a \in Speaks(u)'
          PROVE  a.view <= page[u].view /\ \A b \in Speaks(u)' : a.view = b.view => a = b
      BY <1>11 DEF StreamInv, AttemptsInv
    <2>2. /\ v <= page[t].view
          /\ \A a \in Speaks(t)' : a.view = v => a.network = worker.network
      BY <1>2, <1>11 DEF StreamInv, AttemptsInv
    <2>3. \A k \in taken : k[2] <= page[k[1]].view
      BY DEF StreamInv, AttemptsInv
    <2> QED  BY <1>3, <1>4, <2>1, <2>2, <2>3 DEF AttemptsInv
  <1>16. StreamsInv'
    <2> SUFFICES ASSUME NEW u \in Tab, NEW y \in Streams(u)'
                 PROVE  /\ y.session # 0 /\ y.session <= rust.view
                        /\ \A q \in prepares' : q.view # y.session
                        /\ s = y.session => y.network = worker.network
      BY <1>3, <1>4 DEF StreamsInv
    <2>1. CASE y \in Streams(u)
      <3>1. /\ y.session # 0 /\ y.session <= rust.view
            /\ \A q \in prepares : q.view # y.session
        BY <2>1 DEF StreamInv, StreamsInv
      <3> QED  BY <1>1, <1>10, <3>1
    <2>2. CASE y.session = s /\ y.network = p.network
      BY <1>1, <1>5, <1>10, <2>2
    <2> QED  BY <1>12, <2>1, <2>2
  <1>17. FreshInv'
    <2>1. ASSUME NEW u \in Tab, NEW w \in Nat, Unknown(u, w)
          PROVE  Unknown(u, w)'
      <3>1. <<u, w>> # <<t, v>>
        BY <1>2, <1>3, <2>1 DEF Unknown
      <3>2. \A q \in prepares' : Key(q.lease) # <<u, w>>
        BY <1>10, <2>1 DEF Unknown
      <3>3. \A m \in Heard(u)' : m.type = "prepared" => m.attempt # w
        BY <1>7, <1>8, <2>1, <3>1 DEF Unknown
      <3> QED  BY <1>3, <1>4, <2>1, <3>1, <3>2, <3>3 DEF Unknown
    <2> QED  BY <2>1 DEF StreamInv, FreshInv
  <1>18. AnswersInv'
    <2>1. Key(lease) \notin taken
      BY <1>2, <1>3 DEF StreamInv, AnswersInv
    <2>2. ASSUME NEW u \in Tab, NEW w \in Nat, NEW z \in Nat, lease = Lease(u, w, z),
                 NEW m \in Heard(u)', m.type = "prepared", m.ok, m.attempt = w
          PROVE  m.session = z
      <3>1. u = t /\ w = v /\ z = s
        BY <1>3, <2>2 DEF Lease
      <3>2. CASE m \in Heard(t)
        <4>1. m.session = 0
          BY <1>3, <2>2, <3>1, <3>2 DEF StreamInv, AnswersInv
        <4>2. m \in Told
          BY <3>2, Spoken
        <4>3. m.session \in Nat /\ m.network \in Network
          BY <2>2, <4>2 DEF Told
        <4>4. PICK stream \in [session : Nat, network : Network] :
                 stream = [session |-> m.session, network |-> m.network]
          BY <4>3
        <4>5. stream.session = m.session /\ stream.network = m.network
          BY <4>4
        <4>6. stream \in Streams(t)
          BY <2>2, <3>2, <4>5 DEF Streams
        <4> QED  BY <4>1, <4>5, <4>6 DEF StreamInv, StreamsInv
      <3> QED  BY <1>7, <1>8, <3>1, <3>2
    <2> QED  BY <1>4, <2>1, <2>2 DEF AnswersInv
  <1>19. PromisedInv'
    BY DEF StreamInv, PromisedInv
  <1>20. LeaseInv'
    <2> SUFFICES ASSUME NEW u \in Tab, NEW w \in Nat, NEW z \in Nat, lease = Lease(u, w, z)
                 PROVE  LookedAfter(u, w, z)'
      BY <1>4 DEF LeaseInv
    <2>1. u = t /\ w = v /\ z = s
      BY <1>3 DEF Lease
    <2>2. LookedAfter(t, v, 0)
      BY <1>3 DEF StreamInv, LeaseInv
    <2>3. \A m : ~Returns(m, 0)
      BY DEF Returns
    <2> QED  BY <1>7, <1>8, <1>9, <2>1, <2>2, <2>3 DEF LookedAfter
  <1>21. TakenInv'
    <2> SUFFICES ASSUME NEW k \in taken
                 PROVE  \/ \E m \in Heard(k[1])' : m.type = "replaced" /\ m.attempt = k[2]
                        \/ /\ ~Shows(k[1], k[2])
                           /\ page[k[1]].pending # None => page[k[1]].pending.view # k[2]
      BY DEF StreamInv, TakenInv, Shows
    <2>1. k[1] \in Tab
      BY DEF StreamInv, TakenInv
    <2> QED  BY <1>8, <2>1 DEF StreamInv, TakenInv
  <1> QED
    BY <1>13, <1>14, <1>15, <1>16, <1>17, <1>18, <1>19, <1>20, <1>21 DEF StreamInv

LEMMA ReturnStream ==
    ASSUME TypeInv, StreamInv, TypeInv', PrepareReturns
    PROVE  StreamInv'
  <1>1. PICK p \in prepares, ok \in BOOLEAN :
           /\ p.view # 0 /\ (ok => rust.view = p.view /\ rust.session = p.view)
           /\ prepares' = prepares \ {p}
           /\ rust' = IF ~ok THEN [rust EXCEPT !.session = IF rust.view = p.view THEN 0 ELSE @,
                                               !.key = IF @ = Key(p.lease) THEN None ELSE @]
                      ELSE IF Owns(p.lease) THEN rust
                      ELSE hls_control_release(p.network, p.view)
           /\ worker' = [worker EXCEPT !.lease =
                            IF ~Owns(p.lease) THEN @ ELSE IF ok THEN [@ EXCEPT !.session = p.view] ELSE None]
           /\ toPage' = Send(p.lease.tab, IF ok /\ Owns(p.lease) THEN PrepareAnswer(p, TRUE, p.view)
                                          ELSE PrepareAnswer(p, FALSE, 0))
    BY DEF PrepareReturns
  <1>2. UNCHANGED <<page, toWorker, taken>> /\ rust \in Rusts
    BY DEF PrepareReturns, TypeInv
  <1>3. CASE ok /\ Owns(p.lease)
    <2>1. PICK lease : lease = [worker.lease EXCEPT !.session = p.view]
      OBVIOUS
    <2>2. worker' = [worker EXCEPT !.lease = lease]
      BY <1>1, <1>3, <2>1
    <2>3. toPage' = Send(p.lease.tab, PrepareAnswer(p, TRUE, p.view)) /\ rust' = rust
      BY <1>1, <1>3
    <2> QED  BY <1>1, <1>2, <1>3, <2>1, <2>2, <2>3, ReturnKeeps
  <1>4. CASE ~(ok /\ Owns(p.lease))
    <2>1. worker' = [worker EXCEPT !.lease = IF Owns(p.lease) THEN None ELSE @]
      BY <1>1, <1>4
    <2>2. toPage' = Send(p.lease.tab, PrepareAnswer(p, FALSE, 0))
      BY <1>1, <1>4
    <2>3. /\ rust'.view = rust.view /\ SameRuntime(rust')
          /\ rust'.session = IF rust.view = p.view THEN 0 ELSE rust.session
      <3>1. CASE ~ok
        <4>1. rust' = [rust EXCEPT !.session = IF rust.view = p.view THEN 0 ELSE @,
                                   !.key = IF @ = Key(p.lease) THEN None ELSE @]
          BY <1>1, <3>1
        <4> QED  BY <1>1, <1>2, <4>1 DEF Rusts, SameRuntime
      <3>2. CASE ok
        <4>1. Accepts(p.network) /\ rust.view = p.view
          BY <1>1, <3>2 DEF StreamInv, PlaysInv, Accepts
        <4>2. rust' = Ended(rust)
          BY <1>1, <1>4, <3>2, <4>1 DEF hls_control_release
        <4>3. PICK e \in {Ended(rust)} : e = Ended(rust)
          OBVIOUS
        <4>4. e.view = rust.view /\ e.session = 0 /\ SameRuntime(e)
          BY <1>2, <4>3 DEF Ended, Rusts, SameRuntime
        <4> QED  BY <4>1, <4>2, <4>3, <4>4
      <3> QED  BY <3>1, <3>2
    <2> QED  BY <1>1, <1>2, <2>1, <2>2, <2>3, ReturnFails
  <1> QED  BY <1>3, <1>4

-----------------------------------------------------------------------------
(* A stream is asked for: its window has the lease, who had it is told.    *)
Tells(t, m) ==
    /\ \A u \in Tab : Heard(u) \subseteq Heard(u)'
    /\ \A u \in Tab : \A x \in Heard(u)' : x \in Heard(u) \/ x.type = "replaced"
    /\ taken \subseteq taken'
    /\ \A k \in taken' : k \in taken \/
          /\ worker.lease # None /\ k = Key(worker.lease) /\ k \in Tab \X Nat /\ k[1] # t
          /\ k[1] = worker.lease.tab /\ k[2] = worker.lease.attempt
          /\ \E x \in Heard(k[1])' : x.type = "replaced" /\ x.attempt = k[2]

LEMMA PrepareTells ==
    ASSUME TypeInv, StreamInv, NEW t \in Tab, NEW m \in Asked, Prepare(t, m)
    PROVE  Tells(t, m)
  <1>1. CASE worker.lease # None /\ worker.lease.tab # t
    <2>1. /\ worker.lease \in Leases /\ worker.lease.tab \in Tab /\ worker.lease.attempt \in Nat
          /\ worker.lease.tab \in worker.clients
      BY <1>1 DEF TypeInv, Workers, Leases, StreamInv, ClientsInv
    <2>2. PICK u \in Tab, w \in Nat : u = worker.lease.tab /\ w = worker.lease.attempt
      BY <2>1
    <2>3. PICK x \in Told : x = [type |-> "replaced", attempt |-> w]
      BY DEF Told
    <2>4. /\ toPage' = Send(u, x) /\ x.type = "replaced" /\ x.attempt = w
          /\ taken' = taken \cup {Key(worker.lease)}
      BY <1>1, <2>2, <2>3 DEF Prepare
    <2>5. /\ \A y \in Tab : Heard(y) \subseteq Heard(y)'
          /\ \A y \in Tab : \A z \in Heard(y)' : z \in Heard(y) \/ z.type = "replaced"
          /\ x \in Heard(u)'
      BY <2>1, <2>2, <2>4, SendHeard
    <2>6. PICK k \in Tab \X Nat : k = <<u, w>>
      OBVIOUS
    <2>7. k = Key(worker.lease) /\ k[1] = u /\ k[2] = w
      BY <2>2, <2>6 DEF Key
    <2> QED  BY <1>1, <2>2, <2>4, <2>5, <2>6, <2>7 DEF Tells
  <1>2. CASE ~(worker.lease # None /\ worker.lease.tab # t)
    <2>1. toPage' = toPage /\ taken' = taken
      BY <1>2 DEF Prepare
    <2> QED  BY <2>1 DEF Tells, Heard
  <1> QED  BY <1>1, <1>2

LEMMA PrepareStream ==
    ASSUME TypeInv, SharedInv, StreamInv, NEW t \in Tab, NEW m \in Asked,
           Dispatched(t, m), m.type = "prepare", ~Performing, Targets(m), Prepare(t, m),
           page' = page
    PROVE  StreamInv'
  <1>1. /\ toWorker[t] \in Seq(Asked) /\ toWorker[t] # <<>> /\ toWorker \in [Tab -> Seq(Asked)]
        /\ worker \in Workers /\ rust \in Rusts /\ ClientsInv /\ PlaysInv /\ PromisedInv
    BY DEF TypeInv, Dispatched, StreamInv
  <1>2. /\ m = toWorker[t][1] /\ 1 \in DOMAIN toWorker[t] /\ m \in Sent(t)
        /\ t \in worker.clients
    <2>1. m = toWorker[t][1] /\ 1 \in DOMAIN toWorker[t]
      BY <1>1 DEF Dispatched
    <2> QED  BY <1>1, <2>1 DEF Sent, ClientsInv
  <1>3. PICK v \in Nat : /\ v = m.attempt /\ m.network \in Network
                         /\ Asks(toWorker[t][1], v) /\ Unknown(t, v)
                         /\ \A j \in DOMAIN toWorker[t] : Asks(toWorker[t][j], v) => 1 = j
    <2>1. m.attempt \in Nat /\ m.network \in Network
      BY DEF Asked
    <2>2. Asks(toWorker[t][1], m.attempt)
      BY <1>2 DEF Asks
    <2> QED  BY <1>2, <2>1, <2>2 DEF StreamInv, FreshInv
  <1>4. PICK lease \in Leases : lease = Lease(t, v, 0)
    BY <1>3 DEF Lease, Leases
  <1>5. /\ lease.tab = t /\ lease.attempt = v /\ lease.session = 0 /\ Key(lease) = <<t, v>>
        /\ lease # None
    BY <1>4, SharedAssumption DEF Lease, Key
  <1>6. PICK new : new = [lease |-> lease, network |-> m.network, view |-> 0]
    OBVIOUS
  <1>7. /\ new.lease = lease /\ new.network = m.network /\ new.view = 0
        /\ prepares' = prepares \cup {new}
    BY <1>3, <1>4, <1>6 DEF Prepare
  <1>8. /\ worker'.lease = lease /\ worker'.network = worker.network
        /\ worker'.clients = worker.clients
    BY <1>1, <1>3, <1>4 DEF Prepare, Workers
  <1>9. /\ m.network = worker.network /\ worker.network # None
        /\ worker.network = rust.network /\ ~rust.switching
    BY DEF Targets, SharedInv, NetworkInv
  <1>10. /\ rust'.view \in {rust.view, rust.view + 1} /\ SameRuntime(rust')
         /\ \/ rust'.session = 0
            \/ rust' = rust /\ (worker.lease # None => worker.lease.session = 0)
         /\ rust.view \in Nat /\ rust.session \in Nat
    <2>1. CASE worker.lease = None
      <3>1. rust' = rust
        BY <2>1 DEF Prepare
      <3> QED  BY <1>1, <2>1, <3>1 DEF Rusts, SameRuntime
    <2>2. CASE worker.lease # None
      <3>1. PICK r : r = cancelHlsLease(worker.lease)
        OBVIOUS
      <3>2. rust' = r
        BY <2>2, <3>1 DEF Prepare
      <3>3. /\ SameRuntime(r) /\ r.view \in {rust.view, rust.view + 1}
            /\ r.session = 0 \/ (r = rust /\ worker.lease.session = 0)
        BY <1>1, <2>2, <3>1, CancelEnds
      <3> QED  BY <1>1, <3>2, <3>3 DEF Rusts
    <2> QED  BY <2>1, <2>2
  <1>11. /\ Tells(t, m) /\ Pops
         /\ \A u \in Tab, x \in Asked : Dispatched(u, x) => u = t /\ x = m
    BY PrepareTells, OneDispatched DEF Pops, Dispatched
  <1>12. /\ \A u \in Tab : Sent(u)' \subseteq Sent(u)
         /\ \A u \in Tab : \A x \in Sent(u) : x \in Sent(u)' \/ x = m
    BY <1>11, Popped
  <1>13. \A i \in DOMAIN toWorker'[t] : ~Asks(toWorker'[t][i], v)
    <2> SUFFICES ASSUME NEW i \in DOMAIN toWorker'[t]
                 PROVE  ~Asks(toWorker'[t][i], v)
      OBVIOUS
    <2>1. toWorker'[t] = Tail(toWorker[t])
      BY <1>1 DEF Dispatched
    <2>2. /\ i \in 1..Len(toWorker[t]) - 1 /\ toWorker'[t][i] = toWorker[t][i + 1]
          /\ DOMAIN toWorker[t] = 1..Len(toWorker[t]) /\ Len(toWorker[t]) \in Nat
      BY <1>1, <2>1, Shortened
    <2>3. i + 1 \in DOMAIN toWorker[t] /\ i + 1 # 1
      BY <2>2
    <2> QED  BY <1>3, <2>2, <2>3
  <1>14. ClientsInv' /\ PromisedInv'
    <2>1. worker'.lease.tab \in worker'.clients
      BY <1>2, <1>5, <1>8
    <2> QED  BY <1>1, <1>8, <1>11, <2>1, QueuesKeep
  <1>15. /\ Mention(m) \in Speaks(t) /\ Mention(m).view = v /\ Mention(m).network = m.network
         /\ Mention(m) = Attempt(v, m.network)
    BY <1>2, <1>3, Spoken DEF Mention
  <1>16. \A u \in Tab : Speaks(u)' \subseteq Speaks(u)
    <2> SUFFICES ASSUME NEW u \in Tab, NEW a \in Speaks(u)'
                 PROVE  a \in Speaks(u)
      OBVIOUS
    <2>1. a \in Attempts
      BY DEF Speaks
    <2>2. CASE u = t /\ a = Mention(m)
      BY <1>15, <2>2
    <2>3. CASE ~(u = t /\ a = Mention(m))
      <3>1. \A x \in Heard(u)' : x.type = "prepared" => x \in Heard(u)
        BY <1>11 DEF Tells
      <3>2. \A p \in prepares' : p.lease.tab = u /\ a = Attempt(p.lease.attempt, p.network)
               => p \in prepares
        BY <1>5, <1>7, <1>15, <2>3
      <3> QED  BY <1>12, <2>1, <3>1, <3>2 DEF Speaks
    <2> QED  BY <2>2, <2>3
  <1>17. \A u \in Tab : Streams(u)' \subseteq Streams(u)
    <2> SUFFICES ASSUME NEW u \in Tab, NEW y \in Streams(u)'
                 PROVE  y \in Streams(u)
      OBVIOUS
    <2>1. \A x \in Heard(u)' : x.type = "prepared" => x \in Heard(u)
      BY <1>11 DEF Tells
    <2> QED  BY <1>12, <2>1 DEF Streams
  <1>18. PlaysInv'
    <2>1. \A p \in prepares' : p \in prepares \/ p = new
      BY <1>7
    <2>2. rust'.session \in {0, rust'.view}
      BY <1>1, <1>10 DEF PlaysInv
    <2>3. rust'.network = rust.network /\ rust'.switching = rust.switching
      BY <1>10 DEF SameRuntime
    <2>4. ASSUME NEW p \in prepares'
          PROVE  /\ p.view <= rust'.view
                 /\ p.view # 0 /\ p.view = rust'.view => p.network = rust'.network /\ ~rust'.switching
                 /\ Owns(p.lease)' => worker'.lease.session = 0
      <3>1. CASE p \in prepares
        <4>1. /\ p.view \in Nat /\ p.view <= rust.view
              /\ p.view # 0 /\ p.view = rust.view => p.network = rust.network /\ ~rust.switching
          BY <1>1, <3>1, PreparesTyped DEF PlaysInv
        <4> QED  BY <1>5, <1>8, <1>10, <2>3, <4>1
      <3>2. CASE p = new
        BY <1>5, <1>7, <1>8, <1>10, <3>2
      <3> QED  BY <2>1, <3>1, <3>2
    <2>5. ASSUME NEW p \in prepares', NEW q \in prepares',
                 (p.view # 0 /\ p.view = q.view) \/ Key(p.lease) = Key(q.lease)
          PROVE  p = q
      <3>1. \A r \in prepares : Key(r.lease) # Key(new.lease)
        BY <1>3, <1>5, <1>7 DEF Unknown
      <3>2. CASE p = new \/ q = new
        BY <1>7, <2>1, <2>5, <3>1, <3>2
      <3>3. CASE p \in prepares /\ q \in prepares
        BY <1>1, <2>5, <3>3 DEF PlaysInv
      <3> QED  BY <2>1, <3>2, <3>3
    <2>6. /\ worker'.network # None /\ worker'.network = rust'.network /\ ~rust'.switching
          /\ worker'.lease.session = 0
      BY <1>5, <1>8, <1>9, <2>3
    <2>7. rust'.session # 0 => \E p \in prepares' : p.view = rust'.session
      BY <1>1, <1>7, <1>10 DEF PlaysInv
    <2> QED  BY <2>2, <2>4, <2>5, <2>6, <2>7 DEF PlaysInv
  <1>19. AttemptsInv'
    <2>1. ASSUME NEW u \in Tab, NEW a \in Speaks(u)'
          PROVE  a.view <= page[u].view /\ \A b \in Speaks(u)' : a.view = b.view => a = b
      BY <1>16 DEF StreamInv, AttemptsInv
    <2>2. /\ v <= page[t].view
          /\ \A a \in Speaks(t)' : a.view = v => a.network = worker.network
      BY <1>9, <1>15, <1>16 DEF StreamInv, AttemptsInv
    <2>3. ASSUME NEW k \in taken'
          PROVE  k[2] <= page[k[1]].view
      BY <1>11 DEF Tells, StreamInv, AttemptsInv
    <2> QED  BY <1>5, <1>8, <2>1, <2>2, <2>3 DEF AttemptsInv
  <1>20. StreamsInv'
    <2> SUFFICES ASSUME NEW u \in Tab, NEW y \in Streams(u)
                 PROVE  /\ y.session # 0 /\ y.session <= rust'.view
                        /\ \A p \in prepares' : p.view # y.session
      BY <1>5, <1>8, <1>17 DEF StreamsInv
    <2>1. /\ y.session # 0 /\ y.session <= rust.view /\ y.session \in Nat
          /\ \A p \in prepares : p.view # y.session
      BY DEF StreamInv, StreamsInv, Streams
    <2> QED  BY <1>7, <1>10, <2>1
  <1>21. FreshInv'
    <2> SUFFICES ASSUME NEW u \in Tab, NEW w \in Nat,
                        NEW i \in DOMAIN toWorker'[u], Asks(toWorker'[u][i], w)
                 PROVE  /\ Unknown(u, w)'
                        /\ \A j \in DOMAIN toWorker'[u] : Asks(toWorker'[u][j], w) => i = j
      BY DEF FreshInv
    <2>1. PICK d \in {0, 1} :
             /\ DOMAIN toWorker'[u] = 1..Len(toWorker'[u]) /\ Len(toWorker'[u]) \in Nat
             /\ \A k \in DOMAIN toWorker'[u] :
                   k + d \in DOMAIN toWorker[u] /\ toWorker'[u][k] = toWorker[u][k + d]
      BY <1>11, Popped
    <2>2. /\ Unknown(u, w)
          /\ \A j \in DOMAIN toWorker[u] : Asks(toWorker[u][j], w) => i + d = j
      BY <2>1 DEF StreamInv, FreshInv
    <2>3. \A j \in DOMAIN toWorker'[u] : Asks(toWorker'[u][j], w) => i = j
      BY <2>1, <2>2
    <2>4. <<u, w>> # <<t, v>>
      BY <1>13
    <2>5. <<u, w>> \notin taken'
      BY <1>11, <2>2 DEF Tells, Unknown
    <2>6. \A x \in Heard(u)' : x.type = "prepared" => x.attempt # w
      BY <1>11, <2>2 DEF Tells, Unknown
    <2>7. \A p \in prepares' : Key(p.lease) # <<u, w>>
      BY <1>5, <1>7, <2>2, <2>4 DEF Unknown
    <2> QED  BY <1>5, <1>8, <2>3, <2>4, <2>5, <2>6, <2>7 DEF Unknown
  <1>22. AnswersInv'
    <2>1. Key(lease) \notin taken'
      BY <1>3, <1>5, <1>11 DEF Tells, Unknown
    <2>2. ASSUME NEW u \in Tab, NEW w \in Nat, NEW z \in Nat, lease = Lease(u, w, z),
                 NEW x \in Heard(u)', x.type = "prepared", x.attempt = w
          PROVE  FALSE
      <3>1. u = t /\ w = v
        BY <1>5, <2>2 DEF Lease
      <3>2. x \in Heard(t)
        BY <1>11, <2>2, <3>1 DEF Tells
      <3> QED  BY <1>3, <2>2, <3>1, <3>2 DEF Unknown
    <2> QED  BY <1>8, <2>1, <2>2 DEF AnswersInv
  <1>23. LeaseInv'
    <2> SUFFICES ASSUME NEW u \in Tab, NEW w \in Nat, NEW z \in Nat, lease = Lease(u, w, z)
                 PROVE  LookedAfter(u, w, z)'
      BY <1>8 DEF LeaseInv
    <2>1. u = t /\ w = v /\ z = 0
      BY <1>5 DEF Lease
    <2>2. \/ Pends(page[t], v)
          \/ \E j \in DOMAIN toWorker[t] : 1 < j /\ Undoes(toWorker[t][j], v)
      BY <1>2, <1>3 DEF StreamInv, PromisedInv
    <2>3. CASE Pends(page[t], v)
      <3>1. \E p \in prepares' : Key(p.lease) = <<t, v>>
        BY <1>5, <1>7
      <3> QED  BY <2>1, <2>3, <3>1 DEF LookedAfter
    <2>4. ASSUME NEW j \in DOMAIN toWorker[t], Undoes(toWorker[t][j], v)
          PROVE  LookedAfter(t, v, 0)'
      <3>1. toWorker[t][j] \in Sent(t) /\ toWorker[t][j] # m
        BY <2>4 DEF Sent, Undoes
      <3>2. toWorker[t][j] \in Sent(t)'
        BY <1>12, <3>1
      <3> QED  BY <2>4, <3>2 DEF LookedAfter
    <2> QED  BY <2>1, <2>2, <2>3, <2>4
  <1>24. TakenInv'
    <2>1. taken' \subseteq Tab \X Nat
      BY <1>11 DEF Tells, StreamInv, TakenInv
    <2>2. ASSUME NEW k \in taken'
          PROVE  \/ \E x \in Heard(k[1])' : x.type = "replaced" /\ x.attempt = k[2]
                 \/ /\ ~Shows(k[1], k[2])
                    /\ page[k[1]].pending # None => page[k[1]].pending.view # k[2]
      <3>1. k[1] \in Tab
        BY <2>1
      <3> QED  BY <1>11, <3>1 DEF Tells, StreamInv, TakenInv
    <2> QED  BY <2>1, <2>2 DEF TakenInv, Shows
  <1> QED
    BY <1>14, <1>18, <1>19, <1>20, <1>21, <1>22, <1>23, <1>24 DEF StreamInv

-----------------------------------------------------------------------------
(* Every step.                                                             *)
LEMMA DispatchStream ==
    ASSUME TypeInv, SharedInv, StreamInv, TypeInv', NEW t \in Tab, dispatch(t)
    PROVE  StreamInv'
  <1>1. PICK m : m = Head(toWorker[t])
    OBVIOUS
  <1>2. Dispatched(t, m) /\ m \in Asked /\ page' = page /\ ~Performing
    BY <1>1 DEF dispatch, Dispatched, TypeInv
  <1>3. \/ m.type = "start" /\ performStart(t, m) /\ UNCHANGED <<prepares, taken>>
        \/ m.type = "close" /\ removeClient(t) /\ UNCHANGED <<toPage, prepares, taken>>
        \/ /\ m.type \notin {"start", "close"} /\ ~Targets(m)
           /\ Refused(t, m) /\ UNCHANGED <<prepares, taken>>
        \/ m.type = "fetch" /\ StartTransfer(m) /\ UNCHANGED <<toPage, prepares, taken>>
        \/ m.type = "prepare" /\ Targets(m) /\ Prepare(t, m)
        \/ m.type = "abandon" /\ AbandonLease(t, m) /\ UNCHANGED <<toPage, prepares, taken>>
        \/ m.type = "release" /\ Targets(m) /\ Release(t, m) /\ UNCHANGED <<toPage, prepares, taken>>
    BY <1>1 DEF dispatch
  <1> QED
    BY <1>2, <1>3, StartStream, CloseStream, RefusedStream, FetchStream, PrepareStream,
       AbandonStream, ReleaseStream

LEMMA InitStream ==
    ASSUME Init
    PROVE  StreamInv
  <1>1. PICK initial \in Initial : page = [t \in Tab |-> [NoPage EXCEPT !.network = initial[t]]]
    BY DEF Init
  <1>2. ASSUME NEW t \in Tab
        PROVE  page[t].here /\ page[t].pending = None /\ page[t].active = None
    BY <1>1 DEF NoPage
  <1>3. /\ \A t \in Tab : toWorker[t] = <<>> /\ toPage[t] = <<>>
        /\ worker.lease = None /\ worker.clients = Tab
        /\ prepares = {} /\ taken = {} /\ rust.session = 0
    BY DEF Init
  <1>4. \A t \in Tab : Sent(t) = {} /\ Heard(t) = {} /\ DOMAIN toWorker[t] = {}
    BY <1>3 DEF Sent, Heard
  <1>5. \A t \in Tab : Speaks(t) = {}
    <2> SUFFICES ASSUME NEW t \in Tab, NEW a \in Attempts, page[t].pending = a
                 PROVE  FALSE
      BY <1>3, <1>4 DEF Speaks
    <2> QED  BY <1>2, SharedAssumption
  <1>6. \A t \in Tab : Streams(t) = {}
    BY <1>2, <1>4 DEF Streams
  <1>7. ClientsInv
    BY <1>2, <1>3, <1>4 DEF ClientsInv
  <1>8. PlaysInv
    BY <1>3 DEF PlaysInv
  <1>9. AttemptsInv /\ StreamsInv
    BY <1>3, <1>5, <1>6 DEF AttemptsInv, StreamsInv
  <1>10. FreshInv /\ PromisedInv
    BY <1>4 DEF FreshInv, PromisedInv
  <1>11. AnswersInv /\ LeaseInv
    <2>1. \A t \in Tab, v, s \in Nat : Lease(t, v, s) # None
      <3> SUFFICES ASSUME NEW t \in Tab, NEW v \in Nat, NEW s \in Nat
                   PROVE  Lease(t, v, s) # None
        OBVIOUS
      <3>1. Lease(t, v, s) \in Leases
        BY DEF Lease, Leases
      <3> QED  BY <3>1, SharedAssumption
    <2> QED  BY <1>3, <2>1 DEF AnswersInv, LeaseInv
  <1>12. TakenInv
    BY <1>3 DEF TakenInv
  <1> QED  BY <1>7, <1>8, <1>9, <1>10, <1>11, <1>12 DEF StreamInv

LEMMA StepStream ==
    ASSUME TypeInv, SharedInv, StreamInv, [Next]_vars
    PROVE  StreamInv'
  <1>1. TypeInv'
    BY StepHolds
  <1>2. ASSUME NEW t \in Tab, Window(t)
        PROVE  StreamInv'
    <2>1. UNCHANGED <<toPage, worker, prepares, rust, taken>>
      BY <1>2, WindowActs DEF StreamInv
    <2>2. PICK new \in Pages, sent \in Seq(Asked), fresh \in Attempts \cup {None} :
             WindowDoes(t, new, sent, fresh)
      BY <1>2, WindowActs DEF StreamInv
    <2>3. Hears(t, new, sent)
      BY <2>1 DEF Hears
    <2> QED  BY <2>1, <2>2, <2>3, WindowDoesKeeps
  <1>3. ASSUME NEW t \in Tab, Deliver(t) \/ dispatch(t) \/ WaiterFails(t)
        PROVE  StreamInv'
    BY <1>1, <1>3, DeliverStream, DispatchStream, WaiterStream
  <1>4. CASE Run \/ StartFailed \/ TransferEnds \/ Settle
    BY <1>1, <1>4, SwitchStream, StartedStream, FailsStream, FailedStream, BeginStream,
       ReturnStream, TransferStream DEF Run
  <1>5. CASE UNCHANGED vars
    <2>1. UNCHANGED <<page, toWorker, toPage, worker, prepares, rust, taken>>
      BY <1>5 DEF vars
    <2>2. \A t \in Tab : Sent(t)' = Sent(t) /\ Heard(t)' = Heard(t)
      BY <2>1 DEF Sent, Heard
    <2>3. \A t \in Tab : Speaks(t)' = Speaks(t) /\ Streams(t)' = Streams(t)
      BY <2>1, <2>2 DEF Speaks, Streams
    <2>4. ClientsInv' /\ PlaysInv'
      BY <2>1, <2>2 DEF StreamInv, ClientsInv, PlaysInv, Owns
    <2>5. AttemptsInv' /\ StreamsInv'
      BY <2>1, <2>3 DEF StreamInv, AttemptsInv, StreamsInv
    <2>6. FreshInv' /\ PromisedInv'
      BY <2>1, <2>2 DEF StreamInv, FreshInv, Unknown, PromisedInv
    <2>7. AnswersInv' /\ LeaseInv' /\ TakenInv'
      BY <2>1, <2>2 DEF StreamInv, AnswersInv, LeaseInv, LookedAfter, TakenInv, Shows
    <2> QED  BY <2>4, <2>5, <2>6, <2>7 DEF StreamInv
  <1> QED  BY <1>2, <1>3, <1>4, <1>5 DEF Next, Fails

(* The runtime plays the stream of the lease, and when all is said it      *)
(* plays none that no window shows, worker.js holds none for a window that *)
(* left it, and no window shows one another took over: for any number of   *)
(* windows, whatever they open, replace, abandon, leave or are told late.  *)
THEOREM OneStreamIsPlayed == Spec => []OneStream
  <1>1. Init => TypeInv /\ SharedInv /\ StreamInv
    BY InitHolds, InitStream
  <1>2. TypeInv /\ SharedInv /\ StreamInv /\ [Next]_vars => (TypeInv /\ SharedInv /\ StreamInv)'
    BY StepHolds, StepStream
  <1>3. TypeInv /\ SharedInv /\ StreamInv => OneStream
    <2> SUFFICES ASSUME TypeInv, StreamInv
                 PROVE  OneStream
      OBVIOUS
    <2>1. worker.lease # None /\ worker.lease.session # 0 => rust.session = worker.lease.session
      BY DEF StreamInv, PlaysInv
    <2>2. ASSUME Quiet, rust.session # 0
          PROVE  worker.lease # None /\ worker.lease.session = rust.session
      BY <2>2 DEF StreamInv, PlaysInv, Quiet
    <2>3. ASSUME Quiet, NEW t \in Tab
          PROVE  Sent(t) = {} /\ Heard(t) = {}
      BY <2>3 DEF Quiet, Sent, Heard
    <2>4. ASSUME Quiet, worker.lease # None
          PROVE  Shows(worker.lease.tab, worker.lease.attempt)
      <3>1. worker.lease \in Leases
        BY <2>4 DEF TypeInv, Workers
      <3>2. PICK t \in Tab, v \in Nat, s \in Nat :
               /\ t = worker.lease.tab /\ v = worker.lease.attempt
               /\ worker.lease = Lease(t, v, s)
        BY <3>1 DEF Leases, Lease
      <3>3. LookedAfter(t, v, s)
        BY <3>2 DEF StreamInv, LeaseInv
      <3>4. Sent(t) = {} /\ Heard(t) = {} /\ prepares = {}
        BY <2>3, <2>4 DEF Quiet
      <3> QED  BY <3>2, <3>3, <3>4 DEF LookedAfter
    <2>5. ASSUME Quiet, NEW k \in taken
          PROVE  ~Shows(k[1], k[2])
      <3>1. k[1] \in Tab
        BY DEF StreamInv, TakenInv
      <3>2. Heard(k[1]) = {}
        BY <2>3, <2>5, <3>1
      <3> QED  BY <3>2 DEF StreamInv, TakenInv
    <2> QED  BY <2>1, <2>2, <2>4, <2>5 DEF OneStream
  <1> QED  BY <1>1, <1>2, <1>3, PTL DEF Spec

-----------------------------------------------------------------------------
(* A request's way through the service worker.                             *)

\* ServiceWorker has a state of its own beside that of the windows above.
CONSTANT MaxRelayActs
VARIABLES network, previous, bound, jobs, windows, cached, probes, port, binding, opened, binds,
          notes, relay_acts
Relay == INSTANCE ServiceWorker WITH MaxActs <- MaxRelayActs, acts <- relay_acts

RequestFields ==
    {"at", "upload", "network", "origin", "asks", "found", "client", "via", "spent", "status"}
Refusals == {409, 502, 503}
JobFormed(j) ==
    /\ DOMAIN j = {"request", "network", "stage"}
    /\ j.request \in Request /\ j.stage \in {"posted", "served"}

(* A request is sent once: until then nothing was served, afterwards what  *)
(* reached the runtime is one job, and none once the page has its answer.  *)
RequestSound(q, count) ==
    /\ DOMAIN q = RequestFields
    /\ count \in {0, 1}
    /\ q.at # "done" => q.status = 0
    /\ q.at \notin {"origin", "all"} => q.asks = {}
    /\ q.at \notin {"sent", "done"} => count = 0
    /\ q.status = 200 => count = 1
    /\ q.status \in Refusals => count = 0
JobSound(j, q, count) ==
    /\ q.at \in {"sent", "done"} /\ q.status \notin Refusals \cup {200}
    /\ q.at = "sent" => j.network = q.network
    /\ j.stage = "posted" => count = 0
    /\ j.stage = "served" => count = 1

(* A request that finds its window on its network does not look for others.*)
OnItsWay(q) ==
    /\ q.at \notin {"others", "all"}
    /\ q.at = "origin" => q.origin \in q.asks \cup q.found
AtHome(q) ==
    /\ network = q.network /\ previous = "none" /\ q.origin \in windows
    /\ \A w \in Tab : probes[w] \in {"none", "asked", network}
Gone == {"idle", "done"}

RelayInv ==
    /\ DOMAIN request = Request /\ DOMAIN served = Request /\ DOMAIN probes = Tab
    /\ windows \subseteq Tab /\ \A j \in jobs : JobFormed(j)
    /\ \A r \in Request : RequestSound(request[r], served[r])
    /\ \A j \in jobs : JobSound(j, request[j.request], served[j.request])
    /\ \A j, k \in jobs : j.request = k.request => j = k
    /\ \A r \in Request \ disturbed :
          /\ request[r].status # 503
          /\ request[r].at \notin Gone => OnItsWay(request[r]) /\ AtHome(request[r])

(* A request on its way goes on, or ends unsent.                           *)
GoesOn(q, new) ==
    /\ q.at \notin Gone \cup {"sent"} /\ DOMAIN new = RequestFields
    /\ new.at \notin Gone \cup {"sent"} /\ new.status = 0
    /\ new.network = q.network /\ new.origin = q.origin
    /\ new.at \notin {"origin", "all"} => new.asks = {}
Unsent(q, new) ==
    /\ q.at \notin Gone \cup {"sent"} /\ DOMAIN new = RequestFields
    /\ new.at = "done" /\ new.asks = {} /\ new.status \in {502, 503}
Routed(r) ==
    \/ request'[r] = request[r]
    \/ /\ GoesOn(request[r], request'[r])
       /\ r \in disturbed' \/ OnItsWay(request'[r])
    \/ /\ Unsent(request[r], request'[r])
       /\ r \in disturbed' \/ request'[r].status # 503

LEMMA RoutingKeeps ==
    ASSUME RelayInv, UNCHANGED <<network, previous, windows, jobs, served>>,
           disturbed \subseteq disturbed',
           DOMAIN probes' = Tab, DOMAIN request' = Request,
           \A w \in Tab : probes'[w] \in {probes[w], "none", "asked", network},
           \A r \in Request : Routed(r)
    PROVE  RelayInv'
  <1>1. ASSUME NEW r \in Request
        PROVE  RequestSound(request'[r], served'[r])
    <2>1. RequestSound(request[r], served[r]) /\ served'[r] = served[r] /\ Routed(r)
      BY DEF RelayInv
    <2> QED  BY <2>1 DEF Routed, RequestSound, GoesOn, Unsent, Gone, Refusals
  <1>2. ASSUME NEW j \in jobs
        PROVE  JobSound(j, request'[j.request], served'[j.request])
    <2>1. /\ j.request \in Request /\ JobSound(j, request[j.request], served[j.request])
          /\ Routed(j.request) /\ served' = served
      BY DEF RelayInv, JobFormed
    <2>2. request'[j.request] = request[j.request]
      BY <2>1 DEF JobSound, Routed, GoesOn, Unsent, Gone
    <2> QED  BY <2>1, <2>2
  <1>3. ASSUME NEW r \in Request, r \notin disturbed'
        PROVE  /\ request'[r].status # 503
               /\ request'[r].at \notin Gone => OnItsWay(request'[r]) /\ AtHome(request[r])'
    <2>1. /\ r \notin disturbed /\ Routed(r) /\ request[r].status # 503
          /\ request[r].at \notin Gone => OnItsWay(request[r]) /\ AtHome(request[r])
      BY <1>3 DEF RelayInv
    <2>2. CASE request'[r] = request[r]
      BY <2>1, <2>2 DEF AtHome
    <2>3. CASE GoesOn(request[r], request'[r]) /\ OnItsWay(request'[r])
      BY <2>1, <2>3 DEF AtHome, GoesOn
    <2>4. CASE Unsent(request[r], request'[r]) /\ request'[r].status # 503
      BY <2>4 DEF Unsent, Gone
    <2> QED  BY <1>3, <2>1, <2>2, <2>3, <2>4 DEF Routed
  <1> QED  BY <1>1, <1>2, <1>3 DEF RelayInv

\* One request is routed, nothing else changes.
LEMMA SetRoutes ==
    ASSUME RelayInv, UNCHANGED <<network, previous, windows, jobs, served, disturbed>>,
           DOMAIN probes' = Tab,
           \A w \in Tab : probes'[w] \in {probes[w], "none", "asked", network},
           NEW r \in Request, NEW new, Relay!Set(r, new),
           \/ GoesOn(request[r], new) /\ (r \in disturbed \/ OnItsWay(new))
           \/ Unsent(request[r], new) /\ (r \in disturbed \/ new.status # 503)
    PROVE  RelayInv'
  <1>1. DOMAIN request = Request /\ request' = [request EXCEPT ![r] = new]
    BY DEF RelayInv, Relay!Set
  <1>2. DOMAIN request' = Request /\ request'[r] = new
        /\ \A s \in Request : s # r => request'[s] = request[s]
    BY <1>1
  <1>3. \A s \in Request : Routed(s)
    BY <1>2 DEF Routed
  <1> QED  BY <1>2, <1>3, RoutingKeeps

LEMMA DoneFields ==
    ASSUME NEW status
    PROVE  /\ DOMAIN Relay!Done(status) = RequestFields
           /\ Relay!Done(status).at = "done" /\ Relay!Done(status).status = status
           /\ Relay!Done(status).asks = {}
  BY DEF Relay!Done, Relay!NoRequest, RequestFields

\* A request under way, and what is known of it.
LEMMA RequestFacts ==
    ASSUME RelayInv, NEW r \in Request
    PROVE  /\ DOMAIN request[r] = RequestFields
           /\ request[r].at # "done" => request[r].status = 0
           /\ request[r].at \notin {"origin", "all"} => request[r].asks = {}
           /\ request[r].at \notin Gone /\ r \notin disturbed =>
                 OnItsWay(request[r]) /\ AtHome(request[r])
  BY DEF RelayInv, RequestSound

\* A request is refused before it is sent.
LEMMA RefusalRoutes ==
    ASSUME RelayInv, UNCHANGED <<network, previous, windows, jobs, served, disturbed>>,
           probes' = probes, NEW r \in Request, NEW status \in {502, 503},
           request[r].at \notin Gone \cup {"sent"}, Relay!Set(r, Relay!Done(status)),
           r \in disturbed \/ status # 503
    PROVE  RelayInv'
  <1>1. PICK new : new = Relay!Done(status)
    OBVIOUS
  <1>2. DOMAIN new = RequestFields /\ new.at = "done" /\ new.status = status /\ new.asks = {}
    BY <1>1, DoneFields
  <1>3. Unsent(request[r], new) /\ (r \in disturbed \/ new.status # 503)
    BY <1>2 DEF Unsent
  <1>4. DOMAIN probes' = Tab /\ \A w \in Tab : probes'[w] \in {probes[w], "none", "asked", network}
    BY DEF RelayInv
  <1> QED  BY <1>1, <1>3, <1>4, SetRoutes

\* A request goes on: to a step at which it awaits no window.
LEMMA StepRoutes ==
    ASSUME RelayInv, UNCHANGED <<network, previous, windows, jobs, served, disturbed>>,
           probes' = probes, NEW r \in Request, NEW new, Relay!Set(r, new),
           request[r].at \notin Gone \cup {"sent"},
           DOMAIN new = RequestFields, new.at \in {"others", "bind", "queue", "binding", "send"},
           new.status = request[r].status, new.network = request[r].network,
           new.origin = request[r].origin, new.asks = {},
           new.at = "others" => r \in disturbed
    PROVE  RelayInv'
  <1>1. GoesOn(request[r], new) /\ (r \in disturbed \/ OnItsWay(new))
    BY RequestFacts DEF GoesOn, OnItsWay, Gone
  <1>2. DOMAIN probes' = Tab /\ \A w \in Tab : probes'[w] \in {probes[w], "none", "asked", network}
    BY DEF RelayInv
  <1> QED  BY <1>1, <1>2, SetRoutes

\* A request asks some windows.
LEMMA AskRoutes ==
    ASSUME RelayInv, UNCHANGED <<network, previous, windows, jobs, served, disturbed>>,
           NEW r \in Request, request[r].at \notin Gone \cup {"sent"},
           NEW ws, NEW step \in {"origin", "all"}, Relay!Ask(r, ws, step),
           r \in disturbed \/ (step = "origin" /\ request[r].origin \in ws)
    PROVE  RelayInv'
  <1>1. PICK q : q = request[r]
    OBVIOUS
  <1>2. PICK unsure : unsure = {w \in ws : cached[w] # q.network}
    OBVIOUS
  <1>3. PICK new : new = [q EXCEPT !.at = step, !.asks = unsure, !.found = ws \ unsure]
    OBVIOUS
  <1>4. /\ Relay!Set(r, new)
        /\ probes' = [w \in Tab |-> IF w \in unsure /\ probes[w] = "none" THEN "asked" ELSE probes[w]]
    BY <1>1, <1>2, <1>3 DEF Relay!Ask
  <1>5. DOMAIN q = RequestFields /\ q.status = 0
    BY <1>1, RequestFacts DEF Gone
  <1>6. /\ DOMAIN new = RequestFields /\ new.at = step /\ new.status = 0
        /\ new.network = q.network /\ new.origin = q.origin
        /\ new.asks = unsure /\ new.found = ws \ unsure
    BY <1>3, <1>5 DEF RequestFields
  <1>7. GoesOn(request[r], new) /\ (r \in disturbed \/ OnItsWay(new))
    BY <1>1, <1>2, <1>6 DEF GoesOn, OnItsWay, Gone
  <1>8. DOMAIN probes' = Tab /\ \A w \in Tab : probes'[w] \in {probes[w], "none", "asked", network}
    BY <1>4
  <1> QED  BY <1>4, <1>7, <1>8, SetRoutes

-----------------------------------------------------------------------------
(* The steps of a request until it is sent.                                *)

LEMMA RouteKeeps ==
    ASSUME RelayInv, NEW r \in Request, Relay!Route(r)
    PROVE  RelayInv'
  <1>1. PICK q : q = request[r]
    OBVIOUS
  <1>2. /\ q.at = "route" /\ UNCHANGED <<network, previous, windows, jobs, served, disturbed>>
    BY <1>1 DEF Relay!Route, Relay!runtime
  <1>3. /\ DOMAIN q = RequestFields /\ q.asks = {}
        /\ r \notin disturbed => q.origin \in windows
    BY <1>1, <1>2, RequestFacts DEF Gone, AtHome
  <1>4. \/ /\ Relay!Set(r, [q EXCEPT !.at = "send", !.via = port.id, !.client = port.fallback])
           /\ Relay!Unmoved
        \/ q.origin \in windows /\ Relay!Ask(r, {q.origin}, "origin")
        \/ q.origin \notin windows /\ Relay!Set(r, Relay!Done(503)) /\ Relay!Unmoved
        \/ q.origin \notin windows /\ Relay!Set(r, [q EXCEPT !.at = "others"]) /\ Relay!Unmoved
    BY <1>1, Zenon DEF Relay!Route
  <1>5. CASE /\ Relay!Set(r, [q EXCEPT !.at = "send", !.via = port.id, !.client = port.fallback])
             /\ Relay!Unmoved
    <2>1. PICK new : new = [q EXCEPT !.at = "send", !.via = port.id, !.client = port.fallback]
      OBVIOUS
    <2>2. /\ DOMAIN new = RequestFields /\ new.at = "send" /\ new.status = q.status
          /\ new.network = q.network /\ new.origin = q.origin /\ new.asks = {}
      BY <1>3, <2>1 DEF RequestFields
    <2>3. Relay!Set(r, new) /\ probes' = probes
      BY <1>5, <2>1 DEF Relay!Unmoved
    <2> QED  BY <1>1, <1>2, <2>2, <2>3, StepRoutes DEF Gone
  <1>6. CASE q.origin \in windows /\ Relay!Ask(r, {q.origin}, "origin")
    <2>1. PICK ws : ws = {q.origin}
      OBVIOUS
    <2>2. Relay!Ask(r, ws, "origin") /\ q.origin \in ws
      BY <1>6, <2>1
    <2> QED  BY <1>1, <1>2, <2>2, AskRoutes DEF Gone
  <1>7. CASE q.origin \notin windows /\ Relay!Set(r, Relay!Done(503)) /\ Relay!Unmoved
    BY <1>1, <1>2, <1>3, <1>7, RefusalRoutes DEF Gone, Relay!Unmoved
  <1>8. CASE q.origin \notin windows /\ Relay!Set(r, [q EXCEPT !.at = "others"]) /\ Relay!Unmoved
    <2>1. PICK new : new = [q EXCEPT !.at = "others"]
      OBVIOUS
    <2>2. /\ DOMAIN new = RequestFields /\ new.at = "others" /\ new.status = q.status
          /\ new.network = q.network /\ new.origin = q.origin /\ new.asks = {}
      BY <1>3, <2>1 DEF RequestFields
    <2>3. Relay!Set(r, new) /\ probes' = probes /\ r \in disturbed
      BY <1>3, <1>8, <2>1 DEF Relay!Unmoved
    <2> QED  BY <1>1, <1>2, <2>2, <2>3, StepRoutes DEF Gone
  <1> QED  BY <1>4, <1>5, <1>6, <1>7, <1>8

\* A window was found.
LEMMA FoundRoutes ==
    ASSUME RelayInv, UNCHANGED <<network, previous, windows, jobs, served, disturbed>>,
           probes' = probes, NEW r \in Request, NEW w,
           request[r].at \in {"origin", "others", "all"}, request[r].asks = {},
           Relay!Set(r, Relay!Found(r, w))
    PROVE  RelayInv'
  <1>1. PICK q : q = request[r]
    OBVIOUS
  <1>2. PICK step : step = IF q.upload THEN "send" ELSE "bind"
    OBVIOUS
  <1>3. PICK new : new = [q EXCEPT !.at = step, !.client = w]
    OBVIOUS
  <1>4. DOMAIN q = RequestFields
    BY <1>1, RequestFacts
  <1>5. /\ DOMAIN new = RequestFields /\ new.at = step /\ new.status = q.status
        /\ new.network = q.network /\ new.origin = q.origin /\ new.asks = q.asks
    BY <1>3, <1>4 DEF RequestFields
  <1>6. Relay!Set(r, new)
    BY <1>1, <1>2, <1>3 DEF Relay!Found
  <1>7. step \in {"send", "bind"}
    BY <1>2
  <1> QED  BY <1>1, <1>5, <1>6, <1>7, StepRoutes DEF Gone

LEMMA OriginAnsweredKeeps ==
    ASSUME RelayInv, NEW r \in Request, Relay!OriginAnswered(r)
    PROVE  RelayInv'
  <1>1. PICK q : q = request[r]
    OBVIOUS
  <1>2. /\ q.at = "origin" /\ q.asks = {}
        /\ UNCHANGED <<network, previous, windows, jobs, served, disturbed>> /\ probes' = probes
    BY <1>1 DEF Relay!OriginAnswered, Relay!runtime, Relay!ways
  <1>3. /\ DOMAIN q = RequestFields
        /\ r \notin disturbed => q.found # {}
    BY <1>1, <1>2, RequestFacts DEF Gone, OnItsWay
  <1>4. \/ q.found # {} /\ Relay!Set(r, Relay!Found(r, q.origin))
        \/ q.found = {} /\ Relay!Set(r, Relay!Done(503))
        \/ q.found = {} /\ Relay!Set(r, [q EXCEPT !.at = "others"])
    BY <1>1, Zenon DEF Relay!OriginAnswered
  <1>5. CASE q.found # {} /\ Relay!Set(r, Relay!Found(r, q.origin))
    BY <1>1, <1>2, <1>5, FoundRoutes
  <1>6. CASE q.found = {} /\ Relay!Set(r, Relay!Done(503))
    BY <1>1, <1>2, <1>3, <1>6, RefusalRoutes DEF Gone
  <1>7. CASE q.found = {} /\ Relay!Set(r, [q EXCEPT !.at = "others"])
    <2>1. PICK new : new = [q EXCEPT !.at = "others"]
      OBVIOUS
    <2>2. /\ DOMAIN new = RequestFields /\ new.at = "others" /\ new.status = q.status
          /\ new.network = q.network /\ new.origin = q.origin /\ new.asks = {}
      BY <1>2, <1>3, <2>1 DEF RequestFields
    <2>3. Relay!Set(r, new) /\ r \in disturbed
      BY <1>3, <1>7, <2>1
    <2> QED  BY <1>1, <1>2, <2>2, <2>3, StepRoutes DEF Gone
  <1> QED  BY <1>4, <1>5, <1>6, <1>7

LEMMA OthersKeeps ==
    ASSUME RelayInv, NEW r \in Request, Relay!Others(r)
    PROVE  RelayInv'
  <1>1. PICK q : q = request[r]
    OBVIOUS
  <1>2. PICK candidates : candidates = windows \ {q.origin}
    OBVIOUS
  <1>3. /\ q.at = "others" /\ UNCHANGED <<network, previous, windows, jobs, served, disturbed>>
    BY <1>1 DEF Relay!Others, Relay!runtime
  <1>4. q.asks = {} /\ r \in disturbed
    BY <1>1, <1>3, RequestFacts DEF Gone, OnItsWay
  <1>5. \/ \E w : Relay!Set(r, Relay!Found(r, w)) /\ Relay!Unmoved
        \/ Relay!Ask(r, candidates, "all")
    BY <1>1, <1>2, Zenon DEF Relay!Others
  <1>6. ASSUME NEW w, Relay!Set(r, Relay!Found(r, w)), Relay!Unmoved
        PROVE  RelayInv'
    BY <1>1, <1>3, <1>4, <1>6, FoundRoutes DEF Relay!Unmoved
  <1>7. CASE Relay!Ask(r, candidates, "all")
    BY <1>1, <1>3, <1>4, <1>7, AskRoutes DEF Gone
  <1> QED  BY <1>5, <1>6, <1>7

LEMMA AllAnsweredKeeps ==
    ASSUME RelayInv, NEW r \in Request, Relay!AllAnswered(r)
    PROVE  RelayInv'
  <1>1. PICK q : q = request[r]
    OBVIOUS
  <1>2. /\ q.at = "all" /\ q.asks = {}
        /\ UNCHANGED <<network, previous, windows, jobs, served, disturbed>> /\ probes' = probes
    BY <1>1 DEF Relay!AllAnswered, Relay!runtime, Relay!ways
  <1>3. r \in disturbed
    BY <1>1, <1>2, RequestFacts DEF Gone, OnItsWay
  <1>4. Relay!Set(r, Relay!Done(503)) \/ \E w : Relay!Set(r, Relay!Found(r, w))
    BY <1>1, Zenon DEF Relay!AllAnswered
  <1>5. CASE Relay!Set(r, Relay!Done(503))
    BY <1>1, <1>2, <1>3, <1>5, RefusalRoutes DEF Gone
  <1>6. ASSUME NEW w, Relay!Set(r, Relay!Found(r, w))
        PROVE  RelayInv'
    BY <1>1, <1>2, <1>6, FoundRoutes
  <1> QED  BY <1>4, <1>5, <1>6

LEMMA BindKeeps ==
    ASSUME RelayInv, NEW r \in Request, Relay!Bind(r)
    PROVE  RelayInv'
  <1>1. PICK q : q = request[r]
    OBVIOUS
  <1>2. /\ q.at = "bind" /\ UNCHANGED <<network, previous, windows, jobs, served, disturbed>>
        /\ probes' = probes
    BY <1>1 DEF Relay!Bind, Relay!runtime
  <1>3. DOMAIN q = RequestFields /\ q.asks = {}
    BY <1>1, <1>2, RequestFacts
  <1>4. \/ Relay!Set(r, [q EXCEPT !.at = "send", !.via = port.id, !.client = port.fallback])
        \/ Relay!Set(r, [q EXCEPT !.at = "queue"])
        \/ Relay!Set(r, [q EXCEPT !.at = "binding"])
    BY <1>1, Zenon DEF Relay!Bind
  <1>5. PICK new :
            /\ Relay!Set(r, new)
            /\ \/ new = [q EXCEPT !.at = "send", !.via = port.id, !.client = port.fallback]
               \/ new = [q EXCEPT !.at = "queue"]
               \/ new = [q EXCEPT !.at = "binding"]
    BY <1>4
  <1>6. /\ DOMAIN new = RequestFields /\ new.at \in {"send", "queue", "binding"}
        /\ new.status = q.status
        /\ new.network = q.network /\ new.origin = q.origin /\ new.asks = {}
    <2>1. CASE new = [q EXCEPT !.at = "send", !.via = port.id, !.client = port.fallback]
      BY <1>3, <2>1 DEF RequestFields
    <2>2. CASE new = [q EXCEPT !.at = "queue"]
      BY <1>3, <2>2 DEF RequestFields
    <2>3. CASE new = [q EXCEPT !.at = "binding"]
      BY <1>3, <2>3 DEF RequestFields
    <2> QED  BY <1>5, <2>1, <2>2, <2>3
  <1> QED  BY <1>1, <1>2, <1>5, <1>6, StepRoutes DEF Gone

LEMMA SendFailsKeeps ==
    ASSUME RelayInv, NEW r \in Request, Relay!SendFails(r)
    PROVE  RelayInv'
  <1>1. PICK q : q = request[r]
    OBVIOUS
  <1>2. /\ q.at = "send" /\ UNCHANGED <<network, previous, windows, jobs, served, disturbed>>
        /\ probes' = probes
    BY <1>1 DEF Relay!SendFails, Relay!runtime
  <1>3. DOMAIN q = RequestFields /\ q.asks = {}
    BY <1>1, <1>2, RequestFacts
  <1>4. Relay!Set(r, [q EXCEPT !.via = 0, !.spent = TRUE]) \/ Relay!Set(r, Relay!Done(502))
    BY <1>1, Zenon DEF Relay!SendFails
  <1>5. CASE Relay!Set(r, [q EXCEPT !.via = 0, !.spent = TRUE])
    <2>1. PICK new : new = [q EXCEPT !.via = 0, !.spent = TRUE]
      OBVIOUS
    <2>2. /\ DOMAIN new = RequestFields /\ new.at = "send" /\ new.status = q.status
          /\ new.network = q.network /\ new.origin = q.origin /\ new.asks = {}
      BY <1>2, <1>3, <2>1 DEF RequestFields
    <2>3. Relay!Set(r, new)
      BY <1>5, <2>1
    <2> QED  BY <1>1, <1>2, <2>2, <2>3, StepRoutes DEF Gone
  <1>6. CASE Relay!Set(r, Relay!Done(502))
    BY <1>1, <1>2, <1>6, RefusalRoutes DEF Gone
  <1> QED  BY <1>4, <1>5, <1>6

-----------------------------------------------------------------------------
(* What the service worker hears.                                          *)

\* Nothing changes but ports, what is cached and what is on its way.
LEMMA ElsewhereKeeps ==
    ASSUME RelayInv,
           UNCHANGED <<network, previous, windows, jobs, served, disturbed, request, probes>>
    PROVE  RelayInv'
  <1>1. /\ DOMAIN probes' = Tab /\ DOMAIN request' = Request
        /\ \A w \in Tab : probes'[w] \in {probes[w], "none", "asked", network}
        /\ \A r \in Request : Routed(r)
    BY DEF RelayInv, Routed
  <1> QED  BY <1>1, RoutingKeeps

LEMMA PingKeeps ==
    ASSUME RelayInv, NEW v \in Tab, Relay!Ping(v)
    PROVE  RelayInv'
  <1>1. /\ probes' = [probes EXCEPT ![v] = network] /\ DOMAIN probes = Tab
        /\ UNCHANGED <<network, previous, windows, jobs, served, disturbed, request>>
    BY DEF Relay!Ping, Relay!runtime, RelayInv
  <1>2. DOMAIN probes' = Tab /\ \A w \in Tab : probes'[w] \in {probes[w], "none", "asked", network}
    BY <1>1
  <1>3. DOMAIN request' = Request /\ \A r \in Request : Routed(r)
    BY <1>1 DEF RelayInv, Routed
  <1> QED  BY <1>1, <1>2, <1>3, RoutingKeeps

\* Whoever awaits a ping goes on, and finds its window if that answers.
LEMMA LearnRoutes ==
    ASSUME RelayInv, NEW w \in Tab, NEW n, Relay!Learn(w, n), NEW r \in Request,
           disturbed \subseteq disturbed',
           r \notin disturbed' /\ w \in request[r].asks => n = network
    PROVE  Routed(r)
  <1>1. PICK q : q = request[r]
    OBVIOUS
  <1>2. CASE w \notin q.asks
    BY <1>1, <1>2 DEF Relay!Learn, Routed
  <1>3. CASE w \in q.asks
    <2>1. PICK found : found = IF q.network = n THEN q.found \cup {w} ELSE q.found
      OBVIOUS
    <2>2. PICK new : new = [q EXCEPT !.asks = q.asks \ {w}, !.found = found]
      OBVIOUS
    <2>3. /\ DOMAIN q = RequestFields /\ q.at \in {"origin", "all"} /\ q.status = 0
          /\ r \notin disturbed => OnItsWay(q) /\ q.network = network
      BY <1>1, <1>3, RequestFacts DEF Gone, AtHome
    <2>4. /\ DOMAIN new = RequestFields /\ new.at = q.at /\ new.status = 0
          /\ new.network = q.network /\ new.origin = q.origin
          /\ new.asks = q.asks \ {w} /\ new.found = found
      BY <2>2, <2>3 DEF RequestFields
    <2>5. request'[r] = new
      BY <1>1, <1>3, <2>1, <2>2 DEF Relay!Learn
    <2>6. GoesOn(request[r], request'[r])
      BY <1>1, <2>3, <2>4, <2>5 DEF GoesOn, Gone
    <2>7. r \in disturbed' \/ OnItsWay(request'[r])
      <3>1. ASSUME r \notin disturbed'
            PROVE  OnItsWay(new)
        <4>1. n = q.network /\ OnItsWay(q)
          BY <1>1, <1>3, <2>3, <3>1
        <4> QED  BY <2>1, <2>4, <4>1 DEF OnItsWay
      <3> QED  BY <2>5, <3>1
    <2> QED  BY <2>6, <2>7 DEF Routed
  <1> QED  BY <1>2, <1>3

LEMMA PongKeeps ==
    ASSUME RelayInv, NEW w \in Tab, Relay!Pong(w)
    PROVE  RelayInv'
  <1>1. PICK n : n = probes[w]
    OBVIOUS
  <1>2. /\ n \notin {"none", "asked"} /\ Relay!Learn(w, n)
        /\ UNCHANGED <<network, previous, windows, jobs, served, disturbed>>
    BY <1>1 DEF Relay!Pong, Relay!runtime
  <1>3. /\ DOMAIN probes' = Tab /\ DOMAIN request' = Request
        /\ \A v \in Tab : probes'[v] \in {probes[v], "none", "asked", network}
    BY <1>2 DEF Relay!Learn, RelayInv
  <1>4. ASSUME NEW r \in Request
        PROVE  Routed(r)
    <2>1. ASSUME r \notin disturbed', w \in request[r].asks
          PROVE  n = network
      <3>1. request[r].at \notin Gone /\ r \notin disturbed
        BY <1>2, <2>1, RequestFacts DEF Gone
      <3> QED  BY <1>1, <1>2, <3>1, RequestFacts DEF AtHome
    <2> QED  BY <1>2, <2>1, LearnRoutes
  <1> QED  BY <1>2, <1>3, <1>4, RoutingKeeps

LEMMA PingTimeoutKeeps ==
    ASSUME RelayInv, NEW w \in Tab, Relay!PingTimeout(w)
    PROVE  RelayInv'
  <1>1. /\ Relay!Learn(w, None) /\ UNCHANGED <<network, previous, windows, jobs, served>>
        /\ disturbed' = disturbed \cup {r \in Request : w \in request[r].asks}
    BY DEF Relay!PingTimeout, Relay!runtime
  <1>2. /\ DOMAIN probes' = Tab /\ DOMAIN request' = Request
        /\ \A v \in Tab : probes'[v] \in {probes[v], "none", "asked", network}
    BY <1>1 DEF Relay!Learn, RelayInv
  <1>3. \A r \in Request : Routed(r)
    BY <1>1, LearnRoutes
  <1> QED  BY <1>1, <1>2, <1>3, RoutingKeeps

LEMMA BoundKeeps ==
    ASSUME RelayInv, NEW id, Relay!Bound(id), probes' = probes,
           UNCHANGED <<network, previous, windows, jobs, served, disturbed>>
    PROVE  RelayInv'
  <1>1. ASSUME NEW r \in Request
        PROVE  Routed(r)
    <2>1. PICK q : q = request[r]
      OBVIOUS
    <2>2. DOMAIN q = RequestFields /\ (q.at # "done" => q.status = 0)
          /\ (q.at \notin {"origin", "all"} => q.asks = {})
      BY <2>1, RequestFacts
    <2>3. CASE q.at = "binding"
      <3>1. PICK new : new = [q EXCEPT !.at = "send", !.via = id]
        OBVIOUS
      <3>2. /\ DOMAIN new = RequestFields /\ new.at = "send" /\ new.status = q.status
            /\ new.network = q.network /\ new.origin = q.origin /\ new.asks = q.asks
        BY <2>2, <3>1 DEF RequestFields
      <3>3. request'[r] = new
        BY <2>1, <2>3, <3>1 DEF Relay!Bound, Relay!At
      <3> QED  BY <2>1, <2>2, <2>3, <3>2, <3>3 DEF Routed, GoesOn, OnItsWay, Gone
    <2>4. CASE q.at = "queue"
      <3>1. PICK new : new = [q EXCEPT !.at = "bind"]
        OBVIOUS
      <3>2. /\ DOMAIN new = RequestFields /\ new.at = "bind" /\ new.status = q.status
            /\ new.network = q.network /\ new.origin = q.origin /\ new.asks = q.asks
        BY <2>2, <3>1 DEF RequestFields
      <3>3. request'[r] = new
        BY <2>1, <2>4, <3>1 DEF Relay!Bound, Relay!At
      <3> QED  BY <2>1, <2>2, <2>4, <3>2, <3>3 DEF Routed, GoesOn, OnItsWay, Gone
    <2>5. CASE q.at \notin {"binding", "queue"}
      BY <2>1, <2>5 DEF Relay!Bound, Relay!At, Routed
    <2> QED  BY <2>3, <2>4, <2>5
  <1>2. /\ DOMAIN probes' = Tab /\ DOMAIN request' = Request
        /\ \A w \in Tab : probes'[w] \in {probes[w], "none", "asked", network}
    BY DEF Relay!Bound, RelayInv
  <1> QED  BY <1>1, <1>2, RoutingKeeps

LEMMA NoteKeeps ==
    ASSUME RelayInv, Relay!Note \/ Relay!BindTimeout \/ Relay!bindServiceWorkerPort
    PROVE  RelayInv'
  <1>1. UNCHANGED <<network, previous, windows, jobs, served, disturbed>> /\ probes' = probes
    BY DEF Relay!Note, Relay!BindTimeout, Relay!bindServiceWorkerPort, Relay!runtime
  <1>2. (\E id : Relay!Bound(id)) \/ request' = request
    BY Zenon DEF Relay!Note, Relay!BindTimeout, Relay!bindServiceWorkerPort
  <1>3. CASE \E id : Relay!Bound(id)
    BY <1>1, <1>3, BoundKeeps
  <1>4. CASE request' = request
    BY <1>1, <1>4, ElsewhereKeeps
  <1> QED  BY <1>2, <1>3, <1>4

-----------------------------------------------------------------------------
(* The runtime and the page.                                               *)

\* Nothing changes of any other request.
Becomes(r, new, count) ==
    /\ DOMAIN request' = Request /\ request'[r] = new
    /\ DOMAIN served' = Request /\ served'[r] = count
    /\ \A s \in Request \ {r} : request'[s] = request[s] /\ served'[s] = served[s]

LEMMA SetBecomes ==
    ASSUME RelayInv, NEW r \in Request, NEW new, Relay!Set(r, new), served' = served
    PROVE  Becomes(r, new, served[r])
  BY DEF RelayInv, Relay!Set, Becomes

\* One request comes to its next step, with what of it reached the runtime.
LEMMA OneSettles ==
    ASSUME RelayInv, UNCHANGED <<network, previous, windows, probes>>,
           disturbed \subseteq disturbed', \A j \in jobs' : JobFormed(j),
           NEW r \in Request, NEW new, NEW count,
           Becomes(r, new, count), RequestSound(new, count),
           \A j \in jobs' : j.request # r => j \in jobs,
           \A j \in jobs' : j.request = r => JobSound(j, new, count),
           \A j, k \in jobs' : j.request = r /\ k.request = r => j = k,
           r \notin disturbed' =>
              /\ new.status # 503
              /\ new.at \notin Gone => OnItsWay(new) /\ AtHome(new)
    PROVE  RelayInv'
  <1>1. /\ DOMAIN request' = Request /\ request'[r] = new
        /\ \A s \in Request : s # r => request'[s] = request[s]
        /\ DOMAIN served' = Request /\ served'[r] = count
        /\ \A s \in Request : s # r => served'[s] = served[s]
    BY DEF Becomes
  <1>2. ASSUME NEW s \in Request
        PROVE  RequestSound(request'[s], served'[s])
    BY <1>1 DEF RelayInv
  <1>3. ASSUME NEW j \in jobs'
        PROVE  JobSound(j, request'[j.request], served'[j.request])
    <2>1. j.request \in Request
      BY DEF JobFormed
    <2> QED  BY <1>1, <2>1 DEF RelayInv
  <1>4. \A j, k \in jobs' : j.request = k.request => j = k
    BY DEF RelayInv
  <1>5. ASSUME NEW s \in Request, s \notin disturbed'
        PROVE  /\ request'[s].status # 503
               /\ request'[s].at \notin Gone => OnItsWay(request'[s]) /\ AtHome(request[s])'
    <2>1. CASE s = r
      BY <1>1, <1>5, <2>1 DEF AtHome
    <2>2. CASE s # r
      BY <1>1, <1>5, <2>2 DEF AtHome, RelayInv
    <2> QED  BY <2>1, <2>2
  <1> QED  BY <1>1, <1>2, <1>3, <1>4, <1>5 DEF RelayInv

LEMMA ServedFacts ==
    ASSUME RelayInv, NEW r \in Request
    PROVE  /\ RequestSound(request[r], served[r])
           /\ \A j \in jobs : j.request = r => JobSound(j, request[r], served[r])
           /\ \A j, k \in jobs : j.request = r /\ k.request = r => j = k
           /\ \A j \in jobs : JobFormed(j)
           /\ r \notin disturbed =>
                 /\ request[r].status # 503
                 /\ request[r].at \notin Gone => OnItsWay(request[r]) /\ AtHome(request[r])
  BY DEF RelayInv

LEMMA ArriveKeeps ==
    ASSUME RelayInv, NEW r \in Request, NEW n, NEW w, NEW upload, Relay!Arrive(r, n, w, upload)
    PROVE  RelayInv'
  <1>1. PICK new : new = [Relay!NoRequest EXCEPT !.at = "route", !.upload = upload,
                                                 !.network = n, !.origin = w]
    OBVIOUS
  <1>2. /\ DOMAIN new = RequestFields /\ new.at = "route" /\ new.status = 0
        /\ new.network = n /\ new.origin = w /\ new.asks = {}
    BY <1>1 DEF Relay!NoRequest, RequestFields
  <1>3. /\ request[r].at = "idle" /\ Becomes(r, new, served[r])
        /\ UNCHANGED <<network, previous, windows, probes, jobs>>
        /\ disturbed \subseteq disturbed'
    BY <1>1, SetBecomes DEF Relay!Arrive, Relay!At, Relay!runtime, Relay!ways
  <1>4. r \notin disturbed' => /\ network = n /\ previous = "none" /\ w \in windows
                               /\ \A x \in Tab : probes[x] = "none"
    BY DEF Relay!Arrive
  <1>5. r \notin disturbed' => new.status # 503 /\ OnItsWay(new) /\ AtHome(new)
    BY <1>2, <1>4 DEF OnItsWay, AtHome
  <1>6. \A j \in jobs : j.request # r
    BY <1>3, ServedFacts DEF JobSound
  <1>7. RequestSound(new, served[r])
    BY <1>2, <1>3, ServedFacts DEF RequestSound, Refusals
  <1>8. \A j \in jobs' : JobFormed(j)
    BY <1>3, ServedFacts
  <1> QED  BY <1>3, <1>5, <1>6, <1>7, <1>8, OneSettles

LEMMA SendKeeps ==
    ASSUME RelayInv, NEW r \in Request, Relay!Send(r)
    PROVE  RelayInv'
  <1>1. PICK q : q = request[r]
    OBVIOUS
  <1>2. PICK new : new = [q EXCEPT !.at = "sent"]
    OBVIOUS
  <1>3. PICK job : job = [request |-> r, network |-> q.network, stage |-> "posted"]
    OBVIOUS
  <1>4. /\ q.at = "send" /\ Becomes(r, new, served[r])
        /\ UNCHANGED <<network, previous, windows, probes, disturbed>>
    BY <1>1, <1>2, SetBecomes DEF Relay!Send, Relay!At, Relay!ways
  <1>5. jobs' \in {jobs, jobs \cup {job}}
    BY <1>1, <1>3 DEF Relay!Send, Relay!Job
  <1>6. /\ RequestSound(q, served[r]) /\ DOMAIN q = RequestFields
        /\ q.status = 0 /\ served[r] = 0 /\ q.asks = {}
    BY <1>1, <1>4, ServedFacts DEF RequestSound
  <1>7. \A j \in jobs : j.request # r
    BY <1>1, <1>4, ServedFacts DEF JobSound
  <1>8. /\ DOMAIN new = RequestFields /\ new.at = "sent" /\ new.status = 0
        /\ new.network = q.network /\ new.origin = q.origin /\ new.asks = {}
    BY <1>2, <1>6 DEF RequestFields
  <1>9. RequestSound(new, served[r])
    BY <1>6, <1>8 DEF RequestSound, Refusals
  <1>10. r \notin disturbed' => new.status # 503 /\ OnItsWay(new) /\ AtHome(new)
    BY <1>1, <1>4, <1>8, ServedFacts DEF OnItsWay, AtHome, Gone
  <1>11. \A j \in jobs' : j \in jobs \/ j = job
    BY <1>5
  <1>12. job.request = r /\ JobSound(job, new, served[r])
    BY <1>3, <1>6, <1>8 DEF JobSound, Refusals
  <1>13. \A j \in jobs' : /\ j.request # r => j \in jobs
                          /\ j.request = r => j = job
    BY <1>7, <1>11, <1>12
  <1>14. \A j \in jobs' : j.request = r => JobSound(j, new, served[r])
    BY <1>12, <1>13
  <1>15. \A j, k \in jobs' : j.request = r /\ k.request = r => j = k
    BY <1>13
  <1>16. \A j \in jobs' : JobFormed(j)
    <2>1. JobFormed(job)
      BY <1>3 DEF JobFormed
    <2> QED  BY <1>11, <2>1, ServedFacts
  <1> QED  BY <1>4, <1>9, <1>10, <1>13, <1>14, <1>15, <1>16, OneSettles

\* The page hears of a request that was sent; what reached the runtime stays.
LEMMA EndKeeps ==
    ASSUME RelayInv, UNCHANGED <<network, previous, windows, probes, disturbed>>,
           NEW r \in Request, request[r].at = "sent", NEW status \in {200, 409, 503, 504},
           Relay!Set(r, Relay!Done(status)), served' = served,
           jobs' \subseteq jobs,
           \/ status = 504
           \/ status = 200 /\ served[r] = 1 /\ \A j \in jobs' : j.request # r
           \/ status \in {409, 503} /\ served[r] = 0 /\ \A j \in jobs' : j.request # r,
           r \in disturbed \/ status # 503
    PROVE  RelayInv'
  <1>1. PICK new : new = Relay!Done(status)
    OBVIOUS
  <1>2. DOMAIN new = RequestFields /\ new.at = "done" /\ new.status = status /\ new.asks = {}
    BY <1>1, DoneFields
  <1>3. Becomes(r, new, served[r])
    BY <1>1, SetBecomes
  <1>4. RequestSound(new, served[r])
    BY <1>2, ServedFacts DEF RequestSound, Refusals
  <1>5. \A j \in jobs' : j.request = r => JobSound(j, new, served[r])
    BY <1>2, ServedFacts DEF JobSound, Refusals
  <1>6. \A j \in jobs' : JobFormed(j)
    BY ServedFacts
  <1>7. \A j, k \in jobs' : j.request = r /\ k.request = r => j = k
    BY ServedFacts
  <1>8. r \notin disturbed' => new.status # 503 /\ new.at \in Gone
    BY <1>2 DEF Gone
  <1> QED  BY <1>3, <1>4, <1>5, <1>6, <1>7, <1>8, OneSettles

LEMMA TimeoutKeeps ==
    ASSUME RelayInv, NEW r \in Request, Relay!Timeout(r)
    PROVE  RelayInv'
  <1>1. /\ request[r].at = "sent" /\ Relay!Set(r, Relay!Done(504))
        /\ UNCHANGED <<network, previous, windows, probes, disturbed>>
        /\ served' = served /\ jobs' = jobs
    BY DEF Relay!Timeout, Relay!runtime
  <1> QED  BY <1>1, EndKeeps

\* A job is over and the page hears of it, or has given it up before.
LEMMA AnswerKeeps ==
    ASSUME RelayInv, UNCHANGED <<network, previous, windows, probes, disturbed>>,
           NEW job \in jobs, NEW status \in {200, 409, 503}, Relay!Answer(job.request, status),
           served' = served, jobs' = jobs \ {job},
           \/ status = 200 /\ served[job.request] = 1
           \/ status \in {409, 503} /\ served[job.request] = 0,
           \/ status # 503 \/ job.request \in disturbed
           \/ request[job.request].at # "sent"
    PROVE  RelayInv'
  <1>1. PICK r \in Request : r = job.request
    BY DEF RelayInv, JobFormed
  <1>2. /\ request[r].at \in {"sent", "done"}
        /\ \A j \in jobs' : j.request # r
    BY <1>1, ServedFacts DEF JobSound
  <1>3. CASE request[r].at = "sent"
    <2>1. Relay!Set(r, Relay!Done(status))
      BY <1>1, <1>3 DEF Relay!Answer, Relay!At
    <2>2. jobs' \subseteq jobs
      OBVIOUS
    <2> QED  BY <1>1, <1>2, <1>3, <2>1, <2>2, EndKeeps
  <1>4. CASE request[r].at = "done"
    <2>1. request' = request
      BY <1>1, <1>4 DEF Relay!Answer, Relay!At
    <2>2. Becomes(r, request[r], served[r])
      BY <2>1 DEF Becomes, RelayInv
    <2>3. \A j \in jobs' : JobFormed(j)
      BY ServedFacts
    <2>4. RequestSound(request[r], served[r]) /\ (r \notin disturbed => request[r].status # 503)
      BY ServedFacts
    <2>5. PICK new, count : new = request[r] /\ count = served[r]
      OBVIOUS
    <2>6. /\ Becomes(r, new, count) /\ RequestSound(new, count)
          /\ r \notin disturbed' => new.status # 503 /\ new.at \in Gone
      BY <1>4, <2>2, <2>4, <2>5 DEF Gone
    <2> QED  BY <1>2, <2>3, <2>6, OneSettles
  <1> QED  BY <1>2, <1>3, <1>4

LEMMA HandleKeeps ==
    ASSUME RelayInv, NEW job \in jobs, Relay!Handle(job)
    PROVE  RelayInv'
  <1>1. PICK r \in Request : r = job.request
    BY DEF RelayInv, JobFormed
  <1>2. PICK q : q = request[r]
    OBVIOUS
  <1>3. /\ job.stage = "posted" /\ previous = "none"
        /\ UNCHANGED <<network, previous, windows, probes, disturbed>>
    BY DEF Relay!Handle
  <1>4. JobFormed(job) /\ JobSound(job, q, served[r]) /\ RequestSound(q, served[r])
    BY <1>1, <1>2, ServedFacts
  <1>5. served[r] = 0
    BY <1>3, <1>4 DEF JobSound
  <1>6. CASE job.network # network
    <2>1. /\ jobs' = jobs \ {job} /\ served' = served
          /\ \E status \in {409, 503} : Relay!Answer(job.request, status)
      BY <1>6 DEF Relay!Handle
    <2>2. PICK status \in {409, 503} : Relay!Answer(job.request, status)
      BY <2>1
    <2>3. job.request \in disturbed \/ q.at # "sent"
      BY <1>1, <1>2, <1>4, <1>6, ServedFacts DEF JobSound, AtHome, Gone
    <2> QED  BY <1>1, <1>2, <1>3, <1>5, <2>1, <2>2, <2>3, AnswerKeeps
  <1>7. CASE job.network = network
    <2>1. PICK new : new = [job EXCEPT !.stage = "served"]
      OBVIOUS
    <2>2. /\ jobs' = (jobs \ {job}) \cup {new} /\ request' = request
          /\ served' = [served EXCEPT ![r] = served[r] + 1]
      BY <1>1, <1>7, <2>1 DEF Relay!Handle
    <2>3. /\ DOMAIN new = {"request", "network", "stage"} /\ new.stage = "served"
          /\ new.request = r /\ new.network = job.network
      BY <1>1, <1>4, <2>1 DEF JobFormed
    <2>4. Becomes(r, q, 1)
      BY <1>2, <1>5, <2>2 DEF Becomes, RelayInv
    <2>5. RequestSound(q, 1) /\ JobSound(new, q, 1)
      BY <1>3, <1>4, <2>3 DEF RequestSound, JobSound
    <2>6. \A j \in jobs' : /\ j.request # r => j \in jobs
                           /\ j.request = r => j = new
      BY <1>1, <2>2, <2>3, ServedFacts
    <2>7. \A j \in jobs' : JobFormed(j)
      BY <2>2, <2>3, ServedFacts DEF JobFormed
    <2>8. r \notin disturbed' => /\ q.status # 503
                                 /\ q.at \notin Gone => OnItsWay(q) /\ AtHome(q)
      BY <1>2, <1>3, ServedFacts
    <2>9. \A j \in jobs' : j.request = r => JobSound(j, q, 1)
      BY <2>5, <2>6
    <2>10. \A j, k \in jobs' : j.request = r /\ k.request = r => j = k
      BY <2>6
    <2>11. \A j \in jobs' : j.request # r => j \in jobs
      BY <2>6
    <2> QED  BY <1>3, <2>4, <2>5, <2>7, <2>8, <2>9, <2>10, <2>11, OneSettles
  <1> QED  BY <1>6, <1>7

LEMMA ServedKeeps ==
    ASSUME RelayInv, NEW job \in jobs, Relay!Served(job)
    PROVE  RelayInv'
  <1>1. /\ job.stage = "served" /\ jobs' = jobs \ {job} /\ served' = served
        /\ Relay!Answer(job.request, 200)
        /\ UNCHANGED <<network, previous, windows, probes, disturbed>>
    BY DEF Relay!Served
  <1>2. served[job.request] = 1
    BY <1>1 DEF RelayInv, JobSound
  <1> QED  BY <1>1, <1>2, AnswerKeeps

\* What goes on around the requests disturbs those under way, or they were.
LEMMA AroundKeeps ==
    ASSUME RelayInv, UNCHANGED <<request, served, jobs, probes>>,
           windows' \subseteq Tab, disturbed \subseteq disturbed',
           \A r \in Request \ disturbed' : request[r].at \in Gone
    PROVE  RelayInv'
  BY DEF RelayInv

LEMMA SurroundingsKeep ==
    ASSUME RelayInv,
           \/ \E n \in Network : Relay!Switch(n)
           \/ \E w \in Tab : Relay!CloseWindow(w)
           \/ Relay!Switched
    PROVE  RelayInv'
  <1>1. UNCHANGED <<request, served, jobs, probes>> /\ disturbed \subseteq disturbed'
    BY DEF Relay!Switch, Relay!CloseWindow, Relay!Switched, Relay!ways
  <1>2. windows' \subseteq Tab
    BY DEF Relay!Switch, Relay!CloseWindow, Relay!Switched, RelayInv
  <1>3. ASSUME NEW r \in Request, r \notin disturbed'
        PROVE  request[r].at \in Gone
    <2>1. CASE (\E n \in Network : Relay!Switch(n)) \/ (\E w \in Tab : Relay!CloseWindow(w))
      BY <1>3, <2>1 DEF Relay!Switch, Relay!CloseWindow, Relay!Under, Relay!At, Gone
    <2>2. CASE Relay!Switched
      BY <1>3, <2>2, ServedFacts DEF Relay!Switched, AtHome
    <2> QED  BY <2>1, <2>2
  <1> QED  BY <1>1, <1>2, <1>3, AroundKeeps

\* A start that fails takes what waited for it along, of requests it disturbs.
LEMMA SwitchFailsKeeps ==
    ASSUME RelayInv, Relay!SwitchFails
    PROVE  RelayInv'
  <1>1. PICK lost \in SUBSET {job \in jobs : job.stage = "posted"} :
           /\ jobs' = jobs \ lost
           /\ request' = [r \in Request |->
                 IF Relay!At(r) = "sent" /\ \E job \in lost : job.request = r
                 THEN Relay!Done(500) ELSE request[r]]
    BY DEF Relay!SwitchFails
  <1>2. PICK silent \in SUBSET {w \in windows : probes[w] = "asked"} :
           probes' = [w \in Tab |-> IF w \in silent THEN None ELSE probes[w]]
    BY DEF Relay!SwitchFails
  <1>3. previous # "none" /\ UNCHANGED <<windows, served, disturbed>>
    BY DEF Relay!SwitchFails
  <1>4. ASSUME NEW r \in Request
        PROVE  \/ request'[r] = request[r]
               \/ /\ request[r].at = "sent" /\ DOMAIN request'[r] = RequestFields
                  /\ request'[r].at = "done" /\ request'[r].status = 500
                  /\ request'[r].asks = {}
    BY <1>1, DoneFields DEF Relay!At
  <1>5. ASSUME NEW r \in Request
        PROVE  RequestSound(request'[r], served'[r])
    BY <1>3, <1>4, ServedFacts DEF RequestSound, Refusals
  <1>6. ASSUME NEW j \in jobs'
        PROVE  JobSound(j, request'[j.request], served'[j.request])
    <2>1. j \in jobs /\ j.request \in Request
      BY <1>1 DEF RelayInv, JobFormed
    <2> QED  BY <1>3, <1>4, <2>1, ServedFacts DEF JobSound, Refusals
  <1>7. ASSUME NEW r \in Request, r \notin disturbed
        PROVE  request'[r].status # 503 /\ request'[r].at \in Gone
    <2>1. request[r].at \in Gone /\ request[r].status # 503
      BY <1>3, <1>7, ServedFacts DEF AtHome
    <2> QED  BY <1>4, <1>7, <2>1 DEF Gone
  <1>8. /\ DOMAIN request' = Request /\ DOMAIN served' = Request /\ DOMAIN probes' = Tab
        /\ windows' \subseteq Tab /\ \A j \in jobs' : JobFormed(j)
        /\ \A j, k \in jobs' : j.request = k.request => j = k
    BY <1>1, <1>2, <1>3 DEF RelayInv
  <1> QED  BY <1>3, <1>5, <1>6, <1>7, <1>8 DEF RelayInv

-----------------------------------------------------------------------------

LEMMA RelayInit == Relay!Init => RelayInv
  <1> SUFFICES ASSUME Relay!Init PROVE RelayInv
    OBVIOUS
  <1>1. /\ request = [r \in Request |-> Relay!NoRequest] /\ served = [r \in Request |-> 0]
        /\ probes = [w \in Tab |-> "none"] /\ windows = Tab /\ jobs = {} /\ disturbed = {}
    BY DEF Relay!Init
  <1>2. PICK q : q = Relay!NoRequest
    OBVIOUS
  <1>3. DOMAIN q = RequestFields /\ q.at = "idle" /\ q.asks = {} /\ q.status = 0
    BY <1>2 DEF Relay!NoRequest, RequestFields
  <1>4. \A r \in Request : request[r] = q /\ served[r] = 0
    BY <1>1, <1>2
  <1>5. ASSUME NEW r \in Request
        PROVE  /\ RequestSound(request[r], served[r])
               /\ request[r].status # 503 /\ request[r].at \in Gone
    BY <1>3, <1>4 DEF RequestSound, Refusals, Gone
  <1> QED  BY <1>1, <1>5 DEF RelayInv

LEMMA RelayStep == RelayInv /\ [Relay!Next]_(Relay!vars) => RelayInv'
  <1> SUFFICES ASSUME RelayInv, [Relay!Next]_(Relay!vars) PROVE RelayInv'
    OBVIOUS
  <1>1. CASE UNCHANGED Relay!vars
    BY <1>1, ElsewhereKeeps DEF Relay!vars, Relay!runtime, Relay!ways
  <1>2. ASSUME Relay!ServiceWorker
        PROVE  RelayInv'
    BY <1>2, RouteKeeps, OriginAnsweredKeeps, OthersKeeps, AllAnsweredKeeps, BindKeeps, SendKeeps,
       SendFailsKeeps, TimeoutKeeps, PongKeeps, PingTimeoutKeeps, NoteKeeps
       DEF Relay!ServiceWorker
  <1>3. ASSUME Relay!Runtime
        PROVE  RelayInv'
    BY <1>3, PingKeeps, NoteKeeps, HandleKeeps, ServedKeeps, SurroundingsKeep,
       SwitchFailsKeeps DEF Relay!Runtime
  <1>4. ASSUME Relay!Page
        PROVE  RelayInv'
    BY <1>4, ArriveKeeps DEF Relay!Page
  <1> QED  BY <1>1, <1>2, <1>3, <1>4 DEF Relay!Next

\* Every request of a page that the service worker relays, over its port or by
\* a window, is served once at most and not if it was refused; and one whose
\* window and network are there when it comes, and stay, is not turned away.
THEOREM RelayServesRequests == Relay!Spec => []RequestsReachTheirRuntime
  <1>1. RelayInv => RequestsReachTheirRuntime
    <2> SUFFICES ASSUME RelayInv PROVE RequestsReachTheirRuntime
      OBVIOUS
    <2>1. ASSUME NEW r \in Request
          PROVE  /\ served[r] <= 1
                 /\ request[r].status = 200 => served[r] = 1
                 /\ request[r].status \in {409, 502, 503} => served[r] = 0
                 /\ request[r].status = 503 => r \in disturbed
      BY ServedFacts DEF RequestSound, Refusals
    <2> QED  BY <2>1 DEF RequestsReachTheirRuntime, ServedOnce, NoneStranded
  <1>2. QED  BY RelayInit, RelayStep, <1>1, PTL DEF Relay!Spec
=============================================================================
