---------------------------- MODULE ResourceLookup ----------------------------
(****************************************************************************)
(* The lifecycle of the lookup behind the Kubernetes mapping processor      *)
(* (processor/kubemappingprocessor/kubernetes.go): a controller-runtime     *)
(* manager in a goroutine of its own, that Start begins and waits for, and  *)
(* Shutdown ends.  The host calls Shutdown also when Start failed.          *)
(*                                                                          *)
(* The manager's result goes into l.done, which holds one and is read by    *)
(* Start, if the manager ended before it looks, or by Shutdown.             *)
(****************************************************************************)
EXTENDS Naturals, FiniteSets

CONSTANT Resources   \* the resources of the mappings, each with its informer

ASSUME LookupAssumption == IsFiniteSet(Resources)

VARIABLES
  start,     \* "idle", "informers", "sync", "select", "ok" or "failed"
  informers, \* resources that have an informer
  manager,   \* "none", "runs", "ended"
  canceled,  \* the manager's context was cancelled
  done,      \* results in l.done
  synced,    \* the informers' caches are filled
  hostGone,  \* the context of Start has ended
  shutdown   \* "idle", "waiting", "nil" or "expired"

lookupVars == <<start, informers, manager, canceled, done, synced, hostGone, shutdown>>

LookupInit ==
  /\ start = "idle" /\ informers = {} /\ manager = "none" /\ canceled = FALSE
  /\ done = 0 /\ synced = FALSE /\ hostGone = FALSE /\ shutdown = "idle"

StartBegins ==
  /\ start = "idle" /\ shutdown = "idle"
  /\ start' = "informers"
  /\ UNCHANGED <<informers, manager, canceled, done, synced, hostGone, shutdown>>

(* IndexField and GetInformer of one resource.                              *)
InformerCreated(resource) ==
  /\ start = "informers" /\ resource \notin informers
  /\ informers' = informers \union {resource}
  /\ UNCHANGED <<start, manager, canceled, done, synced, hostGone, shutdown>>

InformerFails ==
  /\ start = "informers" /\ informers # Resources
  /\ start' = "failed"
  /\ UNCHANGED <<informers, manager, canceled, done, synced, hostGone, shutdown>>

(* l.cancel and l.done are set and the manager's goroutine is started.      *)
ManagerStarts ==
  /\ start = "informers" /\ informers = Resources
  /\ manager' = "runs" /\ start' = "sync"
  /\ UNCHANGED <<informers, canceled, done, synced, hostGone, shutdown>>

CachesSync ==
  /\ manager = "runs" /\ ~synced
  /\ synced' = TRUE
  /\ UNCHANGED <<start, informers, manager, canceled, done, hostGone, shutdown>>

(* Because its context was cancelled, or with an error of its own.          *)
ManagerEnds ==
  /\ manager = "runs"
  /\ manager' = "ended" /\ done' = done + 1
  /\ UNCHANGED <<start, informers, canceled, synced, hostGone, shutdown>>

HostCancels ==
  /\ start = "sync" /\ ~hostGone
  /\ hostGone' = TRUE
  /\ UNCHANGED <<start, informers, manager, canceled, done, synced, shutdown>>

SyncSucceeds ==
  /\ start = "sync" /\ synced
  /\ start' = "select"
  /\ UNCHANGED <<informers, manager, canceled, done, synced, hostGone, shutdown>>

(* An operator named <Operator>_<Change> is a fault the properties are      *)
(* tried against.                                                           *)
SyncFails_NoCancel ==
  /\ start = "sync" /\ hostGone
  /\ start' = "failed"
  /\ UNCHANGED <<informers, manager, canceled, done, synced, hostGone, shutdown>>

(* WaitForCacheSync gives up only with the context: a manager that ended    *)
(* does not end the wait.                                                   *)
SyncFails ==
  /\ start = "sync" /\ hostGone
  /\ start' = "failed" /\ canceled' = TRUE
  /\ UNCHANGED <<informers, manager, done, synced, hostGone, shutdown>>

(* The select with a default branch: the result is taken when it is there.  *)
StartEnds ==
  /\ start = "select"
  /\ IF done > 0
       THEN done' = done - 1 /\ canceled' = TRUE /\ start' = "failed"
       ELSE start' = "ok" /\ UNCHANGED <<done, canceled>>
  /\ UNCHANGED <<informers, manager, synced, hostGone, shutdown>>

(* Without a manager there is nothing to do.                                *)
Shutdown ==
  /\ start \in {"ok", "failed", "idle"} /\ shutdown = "idle"
  /\ IF manager = "none"
       THEN shutdown' = "nil" /\ UNCHANGED canceled
       ELSE shutdown' = "waiting" /\ canceled' = TRUE
  /\ UNCHANGED <<start, informers, manager, done, synced, hostGone>>

ShutdownEnds ==
  /\ shutdown = "waiting" /\ done > 0
  /\ done' = done - 1 /\ shutdown' = "nil"
  /\ UNCHANGED <<start, informers, manager, canceled, synced, hostGone>>

(* The context of Shutdown ended.                                           *)
ShutdownExpires ==
  /\ shutdown = "waiting"
  /\ shutdown' = "expired"
  /\ UNCHANGED <<start, informers, manager, canceled, done, synced, hostGone>>

(* All but Shutdown, which the host calls.                                  *)
LookupStep ==
  \/ StartBegins \/ InformerFails \/ ManagerStarts \/ SyncSucceeds \/ SyncFails
  \/ \E resource \in Resources : InformerCreated(resource)
  \/ StartEnds \/ CachesSync \/ ManagerEnds \/ HostCancels
  \/ ShutdownEnds \/ ShutdownExpires

------------------------------------------------------------------------------
(* A Start that failed and a Shutdown that was called leave no manager      *)
(* behind that was not told to end, which would go on watching the cluster; *)
(* a Shutdown that returned nil did so after the manager had ended; and the *)
(* result Shutdown waits for is there once the manager has ended, unless    *)
(* Start has taken it: then Shutdown waits for its own context              *)
(* (kubernetes.go:216, 223, 259).                                           *)
ManagerAccounted ==
  /\ (start = "failed" \/ shutdown # "idle") => manager # "runs" \/ canceled
  /\ shutdown = "nil" => manager # "runs"
  /\ (shutdown = "waiting" /\ manager = "ended") => done = 1 \/ start = "failed"
==============================================================================
