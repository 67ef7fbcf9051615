-------------------------- MODULE OpenBaoWatch_proofs --------------------------
(****************************************************************************)
(* The watches are those of the values in use and no change of a secret is  *)
(* forgotten, for every set of references, whichever of them name the same  *)
(* secret, every number of watches and every bound on the versions.         *)
(*                                                                          *)
(* WatchesOfPresentValues is not inductive: that a watch is started for a   *)
(* reference that has none follows from the collector's bookkeeping         *)
(* (Loading), that none of the configuration before is left follows from    *)
(* the order in which the closers run and wait (Closing).                   *)
(****************************************************************************)
EXTENDS OpenBaoWatch, TLAPS

Watch == [stage : {"ended", "waits", "checks", "calls"}, ref : SUBSET Refs,
          seen : 0..MaxVersion]

Types ==
  /\ version \in [Secrets -> 1..MaxVersion] /\ loaded \in [Refs -> 0..MaxVersion]
  /\ watch \in [Slots -> Watch]
  /\ canceled \subseteq Slots /\ closing \subseteq Slots /\ orphan \subseteq Slots
  /\ collector \in {"retrieving", "running", "stopping", "closing", "ended"}

(* What is being retrieved has been read, and is not loaded yet.            *)
Reading ==
  retrieve # NoRetrieve =>
    /\ collector = "retrieving" /\ retrieve.version \in 1..MaxVersion
    /\ \E r \in Refs : retrieve.ref = {r} /\ loaded[r] = 0

(* Only the watch whose Close waits is cancelled and still there.  A watch  *)
(* without a Close is left by a Retrieve that failed, which ends the        *)
(* collector.                                                               *)
Closing ==
  /\ canceled \subseteq Live /\ canceled \subseteq closing
  /\ closing # {} => collector = "closing"
  /\ orphan # {} => collector \in {"closing", "ended"} /\ \E r \in Refs : loaded[r] = 0
  /\ collector = "ended" => Live \subseteq orphan

(* A watch is about one reference.                                          *)
Watching == \A w \in Live : watch[w].stage # "ended" /\ \E r \in Refs : watch[w].ref = {r}

(* Outside a reload, the reference of a watch is loaded, and no other watch *)
(* is about it.                                                             *)
Loading ==
  collector \in {"retrieving", "running", "stopping"} =>
    /\ \A w \in Live : \A r \in watch[w].ref : loaded[r] # 0
    /\ \A v, w \in Live : v # w => watch[v].ref # watch[w].ref

IInv == Types /\ Reading /\ Closing /\ Watching /\ Loading

(* IInv says more than WatchesOfPresentValues.                              *)
LEMMA IInvImplies == IInv => WatchesOfPresentValues
  BY DEF IInv, Closing, Loading, WatchesOfPresentValues

LEMMA InitIInv == Init => IInv
  BY WatchAssumption
  DEF Init, IInv, Types, Reading, Closing, Watching, Loading, Live, Free, Watch, NoRetrieve

(* A watch step that leaves the references and the liveness of every watch  *)
(* as they are preserves everything, whatever it does to the events.        *)
LEMMA SameWatches ==
  ASSUME IInv, NEW w \in Slots, NEW s \in {"waits", "checks", "calls"},
         NEW n \in 0..MaxVersion, watch[w].stage \in {"waits", "checks", "calls"},
         watch' = [watch EXCEPT ![w] = [@ EXCEPT !.seen = n, !.stage = s]],
         UNCHANGED <<version, loaded, retrieve, orphan, canceled, closing, collector>>
  PROVE  IInv'
<1>1. watch'[w] = [stage |-> s, ref |-> watch[w].ref, seen |-> n]
  BY DEF IInv, Types, Watch
<1>2. \A v \in Slots : v # w => watch'[v] = watch[v]
  BY DEF IInv, Types
<1>3. watch' \in [Slots -> Watch]
  BY <1>1, <1>2 DEF IInv, Types, Watch
<1>4. Live' = Live
  <2>1. watch[w].stage # Free.stage /\ watch'[w].stage # Free.stage
    BY <1>1 DEF Free
  <2> QED BY <1>2, <2>1 DEF Live
<1>5. \A v \in Slots : watch'[v].ref = watch[v].ref
  BY <1>1, <1>2
<1>6. Types' /\ Reading' /\ Closing'
  BY <1>3, <1>4 DEF IInv, Types, Reading, Closing
<1>7. Watching'
  BY <1>1, <1>2, <1>4, <1>5 DEF IInv, Watching
<1>8. Loading'
  BY <1>4, <1>5 DEF IInv, Loading, Live
<1> QED BY <1>6, <1>7, <1>8 DEF IInv

(* Every step preserves the invariant.                                      *)
LEMMA StepIInv == IInv /\ [Next]_vars => IInv'
<1> SUFFICES ASSUME IInv, [Next]_vars PROVE IInv'
  OBVIOUS
<1> USE WatchAssumption
<1>1. ASSUME NEW s \in Secrets, SecretChanges(s) PROVE IInv'
  <2>1. version' \in [Secrets -> 1..MaxVersion]
    BY <1>1 DEF SecretChanges, IInv, Types
  <2> QED
    BY <1>1, <2>1 DEF SecretChanges, IInv, Types, Reading, Closing, Watching, Loading, Live
<1>2. ASSUME NEW r \in Refs, ReadSecret(r) PROVE IInv'
  BY <1>2 DEF IInv, ReadSecret, Types, Reading, Closing, Watching, Loading, Live, NoRetrieve
<1>3. ASSUME NEW w \in Slots, StartWatch(w) PROVE IInv'
  <2>1. PICK q \in Refs : retrieve.ref = {q} /\ loaded[q] = 0
    BY <1>3 DEF StartWatch, Watches, IInv, Reading
  <2>2. collector = "retrieving" /\ retrieve.version \in 1..MaxVersion
    BY <1>3 DEF StartWatch, Watches, IInv, Reading
  <2>3. watch'[w] = [stage |-> "waits", ref |-> {q}, seen |-> retrieve.version]
    BY <1>3, <2>1 DEF StartWatch, Watches, FirstVersion, IInv, Types
  <2>4. \A v \in Slots : v # w => watch'[v] = watch[v]
    BY <1>3 DEF StartWatch, Watches, IInv, Types
  <2>5. Live' = Live \cup {w} /\ w \notin Live
    BY <1>3, <2>3, <2>4 DEF StartWatch, Watches, Live, Free
  <2>6. loaded'[q] # 0 /\ \A r \in Refs : loaded[r] # 0 => loaded'[r] # 0
    BY <1>3, <2>1, <2>2 DEF StartWatch, Watches
  <2>7. Types'
    BY <1>3, <2>1, <2>2, <2>3, <2>4 DEF StartWatch, Watches, IInv, Types, Watch
  <2>8. Reading' /\ Closing'
    BY <1>3, <2>5 DEF StartWatch, Watches, IInv, Reading, Closing
  <2>9. Watching'
    BY <2>3, <2>4, <2>5 DEF IInv, Watching, Live
  <2>10. \A v \in Live : watch'[v] = watch[v] /\ q \notin watch[v].ref
    BY <2>1, <2>2, <2>4, <2>5 DEF IInv, Loading, Live
  <2>11. \A v \in Live : \A r \in watch[v].ref : loaded'[r] # 0
    BY <2>2, <2>6 DEF IInv, Loading, Watching
  <2>12. Loading'
    <3>1. \A v \in Live' : \A r \in watch'[v].ref : loaded'[r] # 0
      BY <2>3, <2>5, <2>6, <2>10, <2>11
    <3>2. \A u, v \in Live : u # v => watch[u].ref # watch[v].ref
      BY <2>2 DEF IInv, Loading
    <3>3. \A u, v \in Live' : u # v => watch'[u].ref # watch'[v].ref
      BY <2>3, <2>5, <2>10, <3>2
    <3> QED BY <3>1, <3>3 DEF Loading
  <2> QED BY <2>7, <2>8, <2>9, <2>12 DEF IInv
<1>4. CASE RetrieveFails
  BY <1>4 DEF IInv, RetrieveFails, Types, Reading, Closing, Watching, Loading, Live
<1>5. CASE AllRetrieved
  BY <1>5 DEF IInv, AllRetrieved, Types, Reading, Closing, Watching, Loading, Live
<1>6. ASSUME NEW w \in Slots, Ticks(w) PROVE IInv'
  <2>1. watch[w] \in Watch
    BY DEF IInv, Types
  <2>2. watch' = [watch EXCEPT ![w] = [@ EXCEPT !.seen = watch[w].seen, !.stage = "checks"]]
    BY <1>6, <2>1 DEF Ticks, Watch, IInv, Types
  <2> QED BY <1>6, <2>1, <2>2, SameWatches DEF Ticks, Watch
<1>7. ASSUME NEW w \in Slots, WatchEnds(w) PROVE IInv'
  <2>1. watch'[w] = Free /\ \A v \in Slots : v # w => watch'[v] = watch[v]
    BY <1>7 DEF WatchEnds, IInv, Types
  <2>2. Live' = Live \ {w}
    BY <2>1 DEF Live
  <2>3. watch' \in [Slots -> Watch]
    BY <1>7 DEF WatchEnds, IInv, Types, Watch, Free
  <2>4. Types' /\ Reading' /\ Closing'
    BY <1>7, <2>2, <2>3 DEF WatchEnds, IInv, Types, Reading, Closing
  <2>5. Watching' /\ Loading'
    BY <1>7, <2>1, <2>2 DEF WatchEnds, IInv, Watching, Loading, Live
  <2> QED BY <2>4, <2>5 DEF IInv
<1>8. ASSUME NEW w \in Slots, CheckFails(w) PROVE IInv'
  <2>1. watch[w] \in Watch
    BY DEF IInv, Types
  <2>2. watch' = [watch EXCEPT ![w] = [@ EXCEPT !.seen = watch[w].seen, !.stage = "waits"]]
    BY <1>8, <2>1 DEF CheckFails, Watch, IInv, Types
  <2> QED BY <1>8, <2>1, <2>2, SameWatches DEF CheckFails, Watch
<1>9. ASSUME NEW w \in Slots, Check(w) PROVE IInv'
  <2>1. PICK r \in watch[w].ref : \E current \in {version[SecretOf[r]]} :
          watch' = [watch EXCEPT ![w] =
            [@ EXCEPT !.seen = current,
                      !.stage = IF current = watch[w].seen THEN "waits" ELSE "calls"]]
    BY <1>9 DEF Check
  <2>2. r \in Refs
    BY DEF IInv, Types, Watch
  <2>3. SecretOf[r] \in Secrets
    BY <2>2
  <2>4. PICK current : /\ current = version[SecretOf[r]]
                       /\ watch' = [watch EXCEPT ![w] =
                            [@ EXCEPT !.seen = current,
                                      !.stage = IF current = watch[w].seen
                                                THEN "waits" ELSE "calls"]]
    BY <2>1
  <2>5. current \in 0..MaxVersion
    BY <2>3, <2>4 DEF IInv, Types
  <2> QED BY <1>9, <2>4, <2>5, SameWatches DEF Check
<1>10. ASSUME NEW w \in Slots, WatcherReturns(w) PROVE IInv'
  <2>1. watch[w] \in Watch
    BY DEF IInv, Types
  <2>2. watch' = [watch EXCEPT ![w] = [@ EXCEPT !.seen = watch[w].seen, !.stage = "waits"]]
    BY <1>10, <2>1 DEF WatcherReturns, Watch, IInv, Types
  <2> QED BY <1>10, <2>1, <2>2, SameWatches DEF WatcherReturns, Watch
<1>11. CASE TakeEvent
  BY <1>11 DEF IInv, TakeEvent, Types, Reading, Closing, Watching, Loading, Live
<1>12. CASE ServiceStopped
  BY <1>12 DEF IInv, ServiceStopped, Types, Reading, Closing, Watching, Loading, Live
<1>13. ASSUME NEW w \in Slots, CloseBegins(w) PROVE IInv'
  BY <1>13 DEF IInv, CloseBegins, Types, Reading, Closing, Watching, Loading, Live
<1>14. CASE CloseReturns
  BY <1>14 DEF IInv, CloseReturns, Types, Reading, Closing, Watching, Loading, Live
<1>15. CASE AllClosed
  <2>1. Live \subseteq orphan
    BY <1>15 DEF AllClosed, IInv, Closing
  <2> QED
    BY <1>15, <2>1 DEF IInv, AllClosed, Types, Reading, Closing, Watching, Loading, Live
<1>16. CASE CollectorStops
  BY <1>16 DEF IInv, CollectorStops, Types, Reading, Closing, Watching, Loading, Live
<1>17. CASE Shutdown \/ ShutdownReturns \/ ShutdownExpires
  BY <1>17 DEF IInv, Shutdown, ShutdownReturns, ShutdownExpires, Types, Reading, Closing,
               Watching, Loading, Live
<1>18. ASSUME NEW w \in Slots, ValueFails(w) PROVE IInv'
  <2>1. PICK q \in Refs : retrieve.ref = {q}
    BY <1>18 DEF ValueFails, Watches, IInv, Reading
  <2>2. collector = "retrieving" /\ retrieve.version \in 1..MaxVersion
    BY <1>18 DEF ValueFails, Watches, IInv, Reading
  <2>3. watch'[w] = [stage |-> "waits", ref |-> {q}, seen |-> retrieve.version]
    BY <1>18, <2>1 DEF ValueFails, Watches, FirstVersion, IInv, Types
  <2>4. \A v \in Slots : v # w => watch'[v] = watch[v]
    BY <1>18 DEF ValueFails, Watches, IInv, Types
  <2>5. Live' = Live \cup {w}
    BY <1>18, <2>3, <2>4 DEF ValueFails, Watches, Live, Free
  <2>6. /\ collector' = "closing" /\ loaded' = [r \in Refs |-> 0] /\ retrieve' = NoRetrieve
        /\ orphan' = orphan \cup {w} /\ UNCHANGED <<version, canceled, closing>>
    BY <1>18 DEF ValueFails, Watches
  <2>7. Types'
    <3>1. watch' \in [Slots -> Watch]
      BY <1>18, <2>2, <2>3, <2>4 DEF ValueFails, Watches, IInv, Types, Watch
    <3> QED BY <2>6, <3>1 DEF IInv, Types
  <2>8. Reading' /\ Closing' /\ Loading'
    BY <2>1, <2>5, <2>6 DEF IInv, Reading, Closing, Loading
  <2>9. Watching'
    BY <2>3, <2>4, <2>5 DEF IInv, Watching, Live
  <2> QED BY <2>7, <2>8, <2>9 DEF IInv
<1>19. CASE UNCHANGED vars
  BY <1>19 DEF IInv, vars, Types, Reading, Closing, Watching, Loading, Live
<1> QED
  BY <1>1, <1>2, <1>3, <1>4, <1>5, <1>6, <1>7, <1>8, <1>9, <1>10, <1>11, <1>12, <1>13,
     <1>14, <1>15, <1>16, <1>17, <1>18, <1>19
  DEF Next, RetrieveStep, CollectorStep, WatchStep

(* The live watches are those of the values in use, one for each reference  *)
(* that is loaded, also across reloads.                                     *)
THEOREM WatchesAreOfPresentValues == Spec => []WatchesOfPresentValues
<1>1. IInv /\ [Next]_vars => IInv'
  BY StepIInv
<1> QED BY InitIInv, <1>1, IInvImplies, PTL DEF Spec

------------------------------------------------------------------------------
(* The part of EveryChangeReloads that is safety.                           *)

(* A watch of r starts from the version in the configuration, calls the     *)
(* watcher, or a reload is due already.                                     *)
Noticed(r) ==
  \E w \in Live :
    /\ watch[w].ref = {r}
    /\ watch[w].seen = loaded[r] \/ watch[w].stage = "calls" \/ events = 1

Noticing ==
  /\ events \in 0..1
  /\ collector \in {"retrieving", "running"} /\ shutdown = "no" =>
       \A r \in Refs : loaded[r] # 0 => Noticed(r)
  /\ collector = "running" => \A r \in Refs : loaded[r] # 0

(* While the collector runs and the provider is not shut down, a reference  *)
(* whose secret is not in the version the configuration has of it has a     *)
(* watch whose next poll will tell, or that is telling, or an event is in   *)
(* the channel: no change is lost between the read and the first poll,      *)
(* behind a failed poll, or with an event that was for another reference    *)
(* (provider.go:79, 184).                                                   *)
NoChangeForgotten ==
  collector = "running" /\ shutdown = "no" =>
    \A r \in Refs : loaded[r] # version[SecretOf[r]] =>
      \E w \in Live :
        /\ watch[w].ref = {r}
        /\ watch[w].seen # version[SecretOf[r]] \/ watch[w].stage = "calls" \/ events = 1

LEMMA NoticingImplies == Noticing => NoChangeForgotten
  BY DEF Noticing, Noticed, NoChangeForgotten

LEMMA InitNoticing == Init => Noticing
  BY DEF Init, Noticing

(* The watches of r are there after the step, and what made one of them     *)
(* notice still does.                                                       *)
LEMMA StillNoticed ==
  ASSUME NEW r, Noticed(r), UNCHANGED loaded, events = 1 => events' = 1,
         \A w \in Live : /\ w \in Live' /\ watch'[w].ref = watch[w].ref
                         /\ \/ watch'[w].seen = watch[w].seen
                            \/ watch'[w].stage = "calls" \/ events' = 1
                         /\ \/ watch[w].stage # "calls"
                            \/ watch'[w].stage = "calls" \/ events' = 1
  PROVE  Noticed(r)'
  BY DEF Noticed

(* A step of w that keeps its reference and is not its end, when it looks   *)
(* at its secret or has told the collector.                                 *)
LEMMA WatchStillNotices ==
  ASSUME IInv, Noticing, NEW w \in Slots,
         NEW s \in {"waits", "checks", "calls"}, NEW n,
         watch'[w] = [stage |-> s, ref |-> watch[w].ref, seen |-> n],
         \A v \in Slots : v # w => watch'[v] = watch[v],
         watch[w].seen = n \/ s = "calls",
         watch[w].stage # "calls" \/ events' = 1,
         events' \in 0..1, events = 1 => events' = 1,
         UNCHANGED <<loaded, collector, shutdown>>
  PROVE  Noticing'
<1>1. watch'[w].stage = s /\ watch'[w].ref = watch[w].ref /\ watch'[w].seen = n
  OBVIOUS
<1>2. w \in Live'
  BY <1>1 DEF Live, Free
<1>3. ASSUME NEW v \in Live
      PROVE  /\ v \in Live' /\ watch'[v].ref = watch[v].ref
             /\ \/ watch'[v].seen = watch[v].seen
                \/ watch'[v].stage = "calls" \/ events' = 1
             /\ \/ watch[v].stage # "calls"
                \/ watch'[v].stage = "calls" \/ events' = 1
  <2>1. CASE v = w
    BY <1>1, <1>2, <2>1
  <2>2. CASE v # w
    BY <2>2 DEF Live
  <2> QED BY <2>1, <2>2
<1>4. \A r : Noticed(r) => Noticed(r)'
  BY <1>3, StillNoticed
<1> QED BY <1>4 DEF Noticing

(* A step that touches neither watches nor loaded versions nor events.      *)
LEMMA SameNoticing ==
  ASSUME Noticing, UNCHANGED <<watch, loaded, events>>,
         collector' \in {"retrieving", "running"} => collector \in {"retrieving", "running"},
         shutdown' = "no" => shutdown = "no",
         collector' = "running" => \A r \in Refs : loaded[r] # 0
  PROVE  Noticing'
<1>1. \A r : Noticed(r) => Noticed(r)'
  BY DEF Noticed, Live
<1> QED BY <1>1 DEF Noticing

LEMMA StepNoticing == IInv /\ Noticing /\ [Next]_vars => Noticing'
<1> SUFFICES ASSUME IInv, Noticing, [Next]_vars PROVE Noticing'
  OBVIOUS
<1>1. CASE \/ (\E s \in Secrets : SecretChanges(s)) \/ (\E r \in Refs : ReadSecret(r))
           \/ UNCHANGED vars
  <2>1. UNCHANGED <<watch, loaded, events, collector, shutdown>>
    BY <1>1 DEF SecretChanges, ReadSecret, vars
  <2> QED BY <2>1, SameNoticing DEF Noticing
<1>2. CASE (\E w \in Slots : CloseBegins(w)) \/ CloseReturns
  <2>1. UNCHANGED <<watch, loaded, events, collector, shutdown>>
    BY <1>2 DEF CloseBegins, CloseReturns
  <2> QED BY <2>1, SameNoticing DEF Noticing
<1>3. CASE Shutdown \/ ShutdownReturns \/ ShutdownExpires
  <2>1. UNCHANGED <<watch, loaded, events, collector>> /\ shutdown' # "no"
    BY <1>3 DEF Shutdown, ShutdownReturns, ShutdownExpires
  <2> QED BY <2>1, SameNoticing DEF Noticing
<1>4. CASE AllRetrieved
  <2>1. /\ collector = "retrieving" /\ \A r \in Refs : loaded[r] # 0
        /\ UNCHANGED <<watch, loaded, events, shutdown>>
    BY <1>4 DEF AllRetrieved
  <2> QED BY <2>1, SameNoticing
<1>5. CASE RetrieveFails \/ (\E w \in Slots : ValueFails(w)) \/ TakeEvent \/ ServiceStopped \/ CollectorStops
  BY <1>5 DEF RetrieveFails, ValueFails, Watches, TakeEvent, ServiceStopped, CollectorStops, Noticing
<1>6. CASE AllClosed
  <2>1. events' = events /\ (collector' = "ended" \/ collector' = "retrieving")
        /\ (collector' = "retrieving" => \A r \in Refs : loaded'[r] = 0)
    BY <1>6 DEF AllClosed
  <2> QED BY <2>1 DEF Noticing
<1>7. ASSUME NEW w \in Slots, StartWatch(w) PROVE Noticing'
  <2>1. PICK q \in Refs : retrieve.ref = {q} /\ collector = "retrieving"
    BY <1>7 DEF StartWatch, Watches, IInv, Reading
  <2>2. watch'[w] = [stage |-> "waits", ref |-> {q}, seen |-> retrieve.version]
    BY <1>7, <2>1 DEF StartWatch, Watches, FirstVersion, IInv, Types
  <2>3. \A v \in Slots : v # w => watch'[v] = watch[v]
    BY <1>7 DEF StartWatch, Watches, IInv, Types
  <2>4. loaded'[q] = retrieve.version /\ \A r \in Refs : r # q => loaded'[r] = loaded[r]
    BY <1>7, <2>1 DEF StartWatch, Watches
  <2>5. w \notin Live /\ w \in Live' /\ \A v \in Live : v \in Live' /\ watch'[v] = watch[v]
    BY <1>7, <2>2, <2>3 DEF StartWatch, Watches, Live, Free
  <2>6. Noticed(q)'
    BY <2>2, <2>4, <2>5 DEF Noticed
  <2>7. events' = events /\ UNCHANGED <<collector, shutdown>>
    BY <1>7 DEF StartWatch, Watches
  <2>8. ASSUME NEW r \in Refs, r # q, Noticed(r) PROVE Noticed(r)'
    BY <2>4, <2>5, <2>7, <2>8 DEF Noticed
  <2> QED BY <2>1, <2>4, <2>6, <2>7, <2>8 DEF Noticing
<1>8. ASSUME NEW w \in Slots, Ticks(w) \/ CheckFails(w) PROVE Noticing'
  <2>1. PICK s \in {"waits", "checks"} : watch' = [watch EXCEPT ![w].stage = s]
    BY <1>8 DEF Ticks, CheckFails
  <2>2. watch \in [Slots -> Watch] /\ watch[w].stage # "calls"
    BY <1>8 DEF Ticks, CheckFails, IInv, Types
  <2>3. watch'[w] = [stage |-> s, ref |-> watch[w].ref, seen |-> watch[w].seen]
        /\ \A v \in Slots : v # w => watch'[v] = watch[v]
    BY <2>1, <2>2 DEF Watch
  <2>4. UNCHANGED <<loaded, collector, shutdown, events>> /\ events \in 0..1
    BY <1>8 DEF Ticks, CheckFails, Noticing
  <2> QED BY <2>2, <2>3, <2>4, WatchStillNotices
<1>9. ASSUME NEW w \in Slots, Check(w) PROVE Noticing'
  <2>1. PICK s, n :
          /\ (s = "waits" /\ n = watch[w].seen) \/ s = "calls"
          /\ watch' = [watch EXCEPT ![w] = [@ EXCEPT !.seen = n, !.stage = s]]
    BY <1>9 DEF Check
  <2>2. watch \in [Slots -> Watch] /\ watch[w].stage # "calls"
    BY <1>9 DEF Check, IInv, Types
  <2>3. watch'[w] = [stage |-> s, ref |-> watch[w].ref, seen |-> n]
        /\ \A v \in Slots : v # w => watch'[v] = watch[v]
    BY <2>1, <2>2 DEF Watch
  <2>4. UNCHANGED <<loaded, collector, shutdown, events>> /\ events \in 0..1
    BY <1>9 DEF Check, Noticing
  <2> QED BY <2>1, <2>2, <2>3, <2>4, WatchStillNotices
<1>10. ASSUME NEW w \in Slots, WatcherReturns(w) PROVE Noticing'
  <2>1. watch' = [watch EXCEPT ![w].stage = "waits"] /\ watch \in [Slots -> Watch]
    BY <1>10 DEF WatcherReturns, IInv, Types
  <2>2. watch'[w] = [stage |-> "waits", ref |-> watch[w].ref, seen |-> watch[w].seen]
        /\ \A v \in Slots : v # w => watch'[v] = watch[v]
    BY <2>1 DEF Watch
  <2>3. UNCHANGED <<loaded, collector, shutdown>> /\ events' = 1
    BY <1>10 DEF WatcherReturns, Noticing
  <2> QED BY <2>2, <2>3, WatchStillNotices
<1>11. ASSUME NEW w \in Slots, WatchEnds(w) PROVE Noticing'
  <2>1. shutdown # "no" \/ collector = "closing"
    BY <1>11 DEF WatchEnds, Canceled, IInv, Closing
  <2>2. UNCHANGED <<loaded, collector, shutdown, events>>
    BY <1>11 DEF WatchEnds
  <2> QED BY <2>1, <2>2 DEF Noticing
<1> QED
  BY <1>1, <1>2, <1>3, <1>4, <1>5, <1>6, <1>7, <1>8, <1>9, <1>10, <1>11
  DEF Next, RetrieveStep, CollectorStep, WatchStep

(* No change of a secret is forgotten while the collector runs.             *)
THEOREM ChangesNoticed == Spec => []NoChangeForgotten
<1>1. IInv /\ Noticing /\ [Next]_vars => (IInv /\ Noticing)'
  BY StepIInv, StepNoticing
<1> QED BY InitIInv, InitNoticing, <1>1, NoticingImplies, PTL DEF Spec

==============================================================================
