----------------------------- MODULE OpenBaoWatch -----------------------------
(****************************************************************************)
(* The OpenBao configuration provider (confmap/provider/openbaoprovider:    *)
(* provider.go and store.go) and the collector that reloads on its events.  *)
(*                                                                          *)
(* The collector retrieves every reference of its configuration.  Where     *)
(* watching is enabled, each Retrieve starts a watch of its own, be it of a *)
(* secret that has one already: a goroutine that polls the version of the   *)
(* secret and calls the collector back when it changed.  The collector is   *)
(* outside the repository.  Its callback puts the event into a channel of   *)
(* one element, and its main loop takes it, stops the pipelines, closes the *)
(* values retrieved before, one after the other, and retrieves them anew.   *)
(* The provider is shut down at the end, or from another goroutine at any   *)
(* time.                                                                    *)
(****************************************************************************)
EXTENDS Naturals, FiniteSets

CONSTANTS
  Refs,        \* references, as often as they occur in the configuration
  Secrets,     \* what they name
  SecretOf,    \* the secret of each: several may name one
  Slots,       \* room for watches (bound)
  MaxVersion   \* version of a secret (bound)

ASSUME WatchAssumption ==
  /\ IsFiniteSet(Refs) /\ SecretOf \in [Refs -> Secrets]
  /\ Slots \subseteq Nat /\ IsFiniteSet(Slots)
  /\ MaxVersion \in Nat \ {0}

VARIABLES
  version,    \* the current version of each secret
  loaded,     \* the version each reference has in the configuration, or 0
  retrieve,   \* the reference being retrieved and the version read, or none
  watch,      \* the watches
  orphan,     \* watches whose value could not be made, so without a Close
  canceled,   \* watches whose context was cancelled by their Close
  closing,    \* the watch whose Close is waiting, or none
  collector,  \* "retrieving", "running", "stopping", "closing" or "ended"
  events,     \* events in the collector's channel
  shutdown    \* of the provider: "no", "waiting", "nil" or "expired"

vars == <<version, loaded, retrieve, watch, orphan, canceled, closing, collector, events,
          shutdown>>

NoRetrieve == [ref |-> {}, version |-> 0]
Free == [stage |-> "ended", ref |-> {}, seen |-> 0]

Init ==
  /\ version = [s \in Secrets |-> 1] /\ loaded = [r \in Refs |-> 0]
  /\ retrieve = NoRetrieve
  /\ watch = [w \in Slots |-> Free] /\ orphan = {} /\ canceled = {} /\ closing = {}
  /\ collector = "retrieving" /\ events = 0 /\ shutdown = "no"

SecretChanges(s) ==
  /\ version[s] < MaxVersion
  /\ version' = [version EXCEPT ![s] = @ + 1]
  /\ UNCHANGED <<loaded, retrieve, watch, orphan, canceled, closing, collector,
                 events, shutdown>>

------------------------------------------------------------------------------
(* Retrieve.                                                                *)

(* Not yet shut down; GetValue reads the secret and its version.            *)
ReadSecret(r) ==
  /\ collector = "retrieving" /\ retrieve = NoRetrieve /\ loaded[r] = 0
  /\ shutdown = "no"
  /\ retrieve' = [ref |-> {r}, version |-> version[SecretOf[r]]]
  /\ UNCHANGED <<version, loaded, watch, orphan, canceled, closing, collector,
                 events, shutdown>>

(* An operator named <Operator>_<Change> is a fault the properties are      *)
(* tried against.                                                           *)
FirstVersion_Current == version[SecretOf[CHOOSE r \in retrieve.ref : TRUE]]

(* The version a watch starts from is the one that was read.                *)
FirstVersion == retrieve.version

(* startWatch, under the mutex.  Slots are alike: the first free one.       *)
Watches(w) ==
  /\ shutdown = "no"
  /\ retrieve # NoRetrieve /\ watch[w] = Free
  /\ \A v \in Slots : v < w => watch[v] # Free
  /\ watch' = [watch EXCEPT ![w] =
       [stage |-> "waits", ref |-> retrieve.ref, seen |-> FirstVersion]]
  /\ retrieve' = NoRetrieve
  /\ UNCHANGED <<version, canceled, closing, events, shutdown>>

(* The value is returned with the watch's closer.                           *)
StartWatch(w) ==
  /\ Watches(w)
  /\ loaded' = [r \in Refs |-> IF r \in retrieve.ref THEN retrieve.version ELSE loaded[r]]
  /\ UNCHANGED <<orphan, collector>>

(* The watch has started, but the value cannot be made of the secret: the   *)
(* closer is dropped with it.                                               *)
ValueFails(w) ==
  /\ Watches(w)
  /\ orphan' = orphan \union {w}
  /\ collector' = "closing" /\ loaded' = [r \in Refs |-> 0]

(* The secret cannot be read, or the provider is shut down: the collector   *)
(* closes what it has and ends.                                             *)
RetrieveFails ==
  /\ collector = "retrieving"
  /\ retrieve' = NoRetrieve /\ collector' = "closing"
  /\ loaded' = [r \in Refs |-> 0]
  /\ UNCHANGED <<version, watch, orphan, canceled, closing, events, shutdown>>

AllRetrieved ==
  /\ collector = "retrieving" /\ \A r \in Refs : loaded[r] # 0
  /\ collector' = "running"
  /\ UNCHANGED <<version, loaded, retrieve, watch, orphan, canceled, closing,
                 events, shutdown>>

------------------------------------------------------------------------------
(* watch, one step at a time.                                               *)

Canceled_ShutdownOnly(w) == shutdown # "no"

(* The context of a watch is a child of the provider's.                     *)
Canceled(w) == w \in canceled \/ shutdown # "no"

(* The select takes either branch when both are ready.                      *)
Ticks(w) ==
  /\ watch[w].stage = "waits"
  /\ watch' = [watch EXCEPT ![w].stage = "checks"]
  /\ UNCHANGED <<version, loaded, retrieve, orphan, canceled, closing, collector,
                 events, shutdown>>

WatchEnds(w) ==
  /\ watch[w].stage = "waits" /\ Canceled(w)
  /\ watch' = [watch EXCEPT ![w] = Free]
  /\ canceled' = canceled \ {w} /\ orphan' = orphan \ {w}
  /\ UNCHANGED <<version, loaded, retrieve, closing, collector, events, shutdown>>

CheckFails(w) ==
  /\ watch[w].stage = "checks"
  /\ watch' = [watch EXCEPT ![w].stage = "waits"]
  /\ UNCHANGED <<version, loaded, retrieve, orphan, canceled, closing, collector,
                 events, shutdown>>

(* CurrentVersion answered: the watch remembers it and calls the watcher.   *)
Check(w) ==
  /\ watch[w].stage = "checks"
  /\ \E r \in watch[w].ref : \E current \in {version[SecretOf[r]]} :
       watch' = [watch EXCEPT ![w] =
         [@ EXCEPT !.seen = current,
                   !.stage = IF current = watch[w].seen THEN "waits" ELSE "calls"]]
  /\ UNCHANGED <<version, loaded, retrieve, orphan, canceled, closing, collector,
                 events, shutdown>>

(* The watcher returns when there is room in the collector's channel.       *)
WatcherReturns(w) ==
  /\ watch[w].stage = "calls" /\ events < 1
  /\ events' = events + 1
  /\ watch' = [watch EXCEPT ![w].stage = "waits"]
  /\ UNCHANGED <<version, loaded, retrieve, orphan, canceled, closing, collector,
                 shutdown>>

------------------------------------------------------------------------------
(* The collector's main loop.                                               *)

TakeEvent ==
  /\ collector = "running" /\ events > 0
  /\ events' = events - 1 /\ collector' = "stopping"
  /\ UNCHANGED <<version, loaded, retrieve, watch, orphan, canceled, closing, shutdown>>

ServiceStopped ==
  /\ collector = "stopping"
  /\ collector' = "closing"
  /\ UNCHANGED <<version, loaded, retrieve, watch, orphan, canceled, closing,
                 events, shutdown>>

Live == {w \in Slots : watch[w] # Free}

(* The closer of a value: cancel, then wait for the goroutine.              *)
CloseBegins(w) ==
  /\ collector = "closing" /\ closing = {} /\ w \in Live \ (canceled \union orphan)
  /\ canceled' = canceled \union {w} /\ closing' = {w}
  /\ UNCHANGED <<version, loaded, retrieve, watch, orphan, collector, events, shutdown>>

CloseReturns_AtOnce ==
  /\ closing # {}
  /\ closing' = {}
  /\ UNCHANGED <<version, loaded, retrieve, watch, orphan, canceled, collector,
                 events, shutdown>>

CloseReturns ==
  /\ closing # {} /\ closing \intersect Live = {}
  /\ closing' = {}
  /\ UNCHANGED <<version, loaded, retrieve, watch, orphan, canceled, collector,
                 events, shutdown>>

(* Everything is closed: the values are retrieved again, unless the closing *)
(* was because Retrieve failed or the collector is to stop.                 *)
AllClosed ==
  /\ collector = "closing" /\ closing = {} /\ Live \subseteq canceled \union orphan
  /\ IF \A r \in Refs : loaded[r] # 0
       THEN collector' = "retrieving" /\ loaded' = [r \in Refs |-> 0]
       ELSE collector' = "ended" /\ UNCHANGED loaded
  /\ UNCHANGED <<version, retrieve, watch, orphan, canceled, closing, events, shutdown>>

CollectorStops ==
  /\ collector = "running"
  /\ collector' = "closing" /\ loaded' = [r \in Refs |-> 0]
  /\ UNCHANGED <<version, retrieve, watch, orphan, canceled, closing, events, shutdown>>

------------------------------------------------------------------------------
(* Shutdown of the provider.                                                *)

Shutdown ==
  /\ shutdown = "no"
  /\ shutdown' = "waiting"
  /\ UNCHANGED <<version, loaded, retrieve, watch, orphan, canceled, closing,
                 collector, events>>

ShutdownReturns ==
  /\ shutdown = "waiting" /\ Live = {}
  /\ shutdown' = "nil"
  /\ UNCHANGED <<version, loaded, retrieve, watch, orphan, canceled, closing,
                 collector, events>>

ShutdownExpires ==
  /\ shutdown = "waiting"
  /\ shutdown' = "expired"
  /\ UNCHANGED <<version, loaded, retrieve, watch, orphan, canceled, closing,
                 collector, events>>

WatchStep(w) ==
  \/ Ticks(w) \/ WatchEnds(w) \/ CheckFails(w) \/ Check(w) \/ WatcherReturns(w)

RetrieveStep ==
  \/ \E r \in Refs : ReadSecret(r)
  \/ \E w \in Slots : StartWatch(w)
  \/ AllRetrieved

CollectorStep ==
  \/ TakeEvent \/ ServiceStopped \/ CloseReturns \/ AllClosed
  \/ \E w \in Slots : CloseBegins(w)

Next ==
  \/ \E s \in Secrets : SecretChanges(s)
  \/ RetrieveStep \/ RetrieveFails \/ (\E w \in Slots : ValueFails(w))
  \/ CollectorStep \/ CollectorStops
  \/ \E w \in Slots : WatchStep(w)
  \/ Shutdown \/ ShutdownReturns \/ ShutdownExpires

(* The ticker ticks, requests are answered and goroutines that can run do.  *)
(* A poll may fail, but not for ever, and a goroutine whose context is      *)
(* cancelled sees it in the end although the select may take ticks first.   *)
Fairness ==
  /\ WF_vars(RetrieveStep) /\ WF_vars(CollectorStep)
  /\ WF_vars(ShutdownReturns)
  /\ \A w \in Slots :
       WF_vars(WatchStep(w)) /\ SF_vars(Check(w)) /\ SF_vars(WatchEnds(w))

Spec == Init /\ [][Next]_vars /\ Fairness

------------------------------------------------------------------------------
(* Properties.                                                              *)

(* The live watches are those of the values in use, one for each reference  *)
(* that is loaded, also across reloads: the watches of the configuration    *)
(* before are gone when the values are read anew, so none of them raises an *)
(* event about a value that is no longer used.  When the collector has      *)
(* ended, only a watch whose value could not be made is left                *)
(* (provider.go:94, 153; provider_test.go:381).                             *)
WatchesOfPresentValues ==
  /\ collector \in {"retrieving", "running", "stopping"} =>
       /\ Live \intersect canceled = {}
       /\ \A w \in Live : \A r \in watch[w].ref : loaded[r] # 0
       /\ \A v, w \in Live : v # w => watch[v].ref # watch[w].ref
  /\ collector = "ended" => Live \subseteq orphan

(* No change is missed: a version that is not the one in the configuration, *)
(* even if it came between reading the value and starting its watch, or     *)
(* while a poll failed, leads to another reload (provider.go:79, 184).      *)
EveryChangeReloads ==
  \A r \in Refs :
    (collector = "running" /\ loaded[r] # version[SecretOf[r]])
      ~> (collector # "running" \/ shutdown # "no")

(* Closing comes to an end, unless a watch is in the watcher and the        *)
(* channel it writes to is full, since nobody reads that channel during a   *)
(* reload (provider.go:155, 188).                                           *)
WatcherBlocked == \E w \in Live : watch[w].stage = "calls" /\ events = 1

CloseEnds == (collector = "closing") ~> (collector # "closing" \/ WatcherBlocked)
==============================================================================
