---------------------------- MODULE SingleReceiver ----------------------------
(****************************************************************************)
(* The JetStream receiver in processing_mode "single"                       *)
(* (receiver/jetstreamreceiver: receiver.go and receiver_single.go).        *)
(*                                                                          *)
(* nats.go runs one callback goroutine per Consume subscription.  With      *)
(* workers: 0 the callback handles each message itself; with workers >= 1   *)
(* it only pushes the message on the channel r.jobs and the worker          *)
(* goroutines handle it.  Start and Shutdown run on a goroutine of the      *)
(* collector's; Shutdown cancels the context every goroutine watches,       *)
(* drains the subscription, closes r.jobs, waits for the workers and closes *)
(* the connection.  A worker reads the field r.jobs again at the top of its *)
(* loop, without the mutex, so it may see the channel or the nil that       *)
(* stopWorkers leaves behind.                                               *)
(*                                                                          *)
(* Stages of an object: "inbox" in the client library's receive buffer,     *)
(* "enqueue" in a callback blocked on the channel, "queued" in the channel, *)
(* "consume" in a downstream call, or an answer in flight.  Decoding and    *)
(* building the request touch nothing shared, so they are part of the step  *)
(* that begins the call.  The channel's order is abstracted.                *)
(****************************************************************************)
EXTENDS JetStreamConsumer

CONSTANTS
  Workers,      \* the worker goroutines there can be
  Callback,     \* the goroutine that runs the subscription's callback
  Undecodable,  \* messages decodeMessage rejects
  Malformed,    \* messages the request builder rejects
  Poison,       \* messages the pipeline refuses for good
  HostCancels,  \* whether the context given to Start may end by itself
  MaxRestarts   \* crashes and reloads explored (bound)

ASSUME ReceiverAssumption ==
  /\ IsFiniteSet(Workers) /\ Callback \notin Workers
  /\ Undecodable \subseteq Msgs /\ Malformed \subseteq Msgs
  /\ Poison \subseteq Msgs
  /\ HostCancels \in BOOLEAN
  /\ MaxRestarts \in Nat

VARIABLES
  pool,         \* the worker goroutines configured, {} for workers: 0
  life,         \* where Start and Shutdown are
  ctxDone,      \* runCtx has been cancelled
  conn,         \* the NATS connection is open
  jobs,         \* the channel r.jobs
  worker,       \* where each worker is in workerLoop
  held,         \* the objects a goroutine is working on
  restarts,     \* restarts so far
  offered, accepted, refused

lifeVars == <<pool, life, conn, restarts>>
poolVars == <<ctxDone, jobs, worker, held>>
vars == <<consumerVars, lifeVars, poolVars, offered, accepted, refused>>

D == INSTANCE Downstream WITH Recipients <- Msgs, AcceptCap <- ExpiryCap + 1
downstreamVars == <<offered, accepted, refused>>

Procs == Workers \union {Callback}
Unreadable == Undecodable \union Malformed
Parallelism == IF pool = {} THEN 1 ELSE Cardinality(pool)

At(s) == {o \in Objs : stage[o] = s}
AllGone == \A w \in Workers : worker[w] = "gone"

Stages == {"inbox", "enqueue", "queued", "consume"}

Init ==
  /\ ConsumerInit /\ D!DownstreamInit
  /\ pool \in SUBSET Workers
  /\ life = "new" /\ ctxDone = FALSE /\ conn = FALSE /\ restarts = 0
  /\ jobs = "nil"
  /\ worker = [w \in Workers |-> "gone"]
  /\ held = [p \in Procs |-> {}]

------------------------------------------------------------------------------
(* Start.  Connecting and the lookups before the workers start have no      *)
(* effect when they fail.                                                   *)

StartWorkers ==
  /\ life = "new"
  /\ life' = "starting" /\ conn' = TRUE /\ ctxDone' = FALSE
  /\ jobs' = IF pool = {} THEN "nil" ELSE "open"
  /\ worker' = [w \in Workers |-> IF w \in pool THEN "top" ELSE "gone"]
  /\ UNCHANGED <<consumerVars, downstreamVars, held, pool, restarts>>

ConsumeStarts ==
  /\ life = "starting"
  /\ life' = "running"
  /\ UNCHANGED <<consumerVars, downstreamVars, poolVars, pool, conn, restarts>>

(* Consume returned an error: stopWorkers runs before the context is        *)
(* cancelled.                                                               *)
ConsumeFails ==
  /\ life = "starting"
  /\ life' = "unwinding"
  /\ jobs' = IF jobs = "open" THEN "closed" ELSE jobs
  /\ UNCHANGED <<consumerVars, downstreamVars, ctxDone, worker, held,
                 pool, conn, restarts>>

(* workersWG.Wait() returned in stopWorkers.  watchWorkers wakes up as well  *)
(* and may be the one that cancels; by then no goroutine is left to see it. *)
StartGivesUp ==
  /\ life = "unwinding" /\ AllGone
  /\ life' = "stopped" /\ conn' = FALSE /\ ctxDone' = TRUE
  /\ UNCHANGED <<consumerVars, downstreamVars, jobs, worker, held, pool, restarts>>

HostCancelsStart ==
  /\ HostCancels /\ life \in {"starting", "running", "unwinding"} /\ ~ctxDone
  /\ ctxDone' = TRUE
  /\ UNCHANGED <<consumerVars, downstreamVars, jobs, worker, held, lifeVars>>

------------------------------------------------------------------------------
(* Handling one message: handleMessage and handleDecodedMessage.            *)

Release(p) ==
  /\ held' = [held EXCEPT ![p] = {}]
  /\ worker' = [w \in Workers |-> IF w = p THEN "top" ELSE worker[w]]

(* An unreadable message is terminated and never offered.  The result of    *)
(* the Term is ignored, so one that failed to leave is an unanswered        *)
(* message.                                                                 *)
RejectUnreadable(p, o) ==
  /\ Msg(o) \in Unreadable
  /\ \E failed \in {{}, {o}} : Answer({o}, "term", failed, {})
  /\ Release(p)
  /\ UNCHANGED downstreamVars

BeginConsume(p, o) ==
  /\ Msg(o) \notin Unreadable
  /\ stage' = [stage EXCEPT ![o] = "consume"]
  /\ held' = [held EXCEPT ![p] = {o}]
  /\ worker' = [w \in Workers |-> IF w = p THEN "busy" ELSE worker[w]]
  /\ D!Offer({Msg(o)})
  /\ UNCHANGED serverVars

Handle(p, o) ==
  /\ RejectUnreadable(p, o) \/ BeginConsume(p, o)
  /\ UNCHANGED <<lifeVars, ctxDone, jobs>>

ConsumeReturns(p, o, answer) ==
  /\ o \in held[p] /\ stage[o] = "consume"
  /\ \E failed \in {{}, {o}} : Answer({o}, answer, failed, {})
  /\ Release(p)
  /\ UNCHANGED <<lifeVars, ctxDone, jobs>>

(* Operators named <Action>_<Change> are not part of the specification:     *)
(* they are the faults the properties are tried against.                    *)
ConsumeOk_NaksOnCancel(p, o) ==
  /\ ConsumeReturns(p, o, IF ctxDone THEN "nak" ELSE "ack")
  /\ D!Accept({Msg(o)})

ConsumeOk(p, o) == ConsumeReturns(p, o, "ack") /\ D!Accept({Msg(o)})

ConsumeRetryable_InProgress(p, o) ==
  ConsumeReturns(p, o, "inprogress") /\ UNCHANGED downstreamVars

ConsumeRetryable_TermsLast(p, o) ==
  /\ ConsumeReturns(p, o, IF delivered[Msg(o)] = MaxDeliver THEN "term" ELSE "nak")
  /\ UNCHANGED downstreamVars

ConsumeRetryable(p, o) ==
  ConsumeReturns(p, o, "nak") /\ UNCHANGED downstreamVars

ConsumePermanent(p, o) == ConsumeReturns(p, o, "term") /\ D!Refuse({Msg(o)})

------------------------------------------------------------------------------
(* The subscription's callback: consumeMessage.                             *)

(* PullMaxMessages: the library asks for as many messages as its buffer has *)
(* room for.                                                                *)
PullOutstanding == Cardinality(At("inbox")) < Parallelism

ReceiveMessage(o) ==
  /\ life = "running" /\ PullOutstanding
  /\ Deliver(o, "inbox")
  /\ UNCHANGED <<downstreamVars, poolVars, lifeVars>>

(* With workers: 0 the field r.jobs is nil and the message is handled here. *)
CallbackHandles(o) ==
  /\ life \in {"running", "draining"}
  /\ jobs = "nil" /\ held[Callback] = {} /\ stage[o] = "inbox"
  /\ Handle(Callback, o)

CallbackOffersJob(o) ==
  /\ life \in {"running", "draining"}
  /\ jobs # "nil" /\ held[Callback] = {} /\ stage[o] = "inbox"
  /\ stage' = [stage EXCEPT ![o] = "enqueue"]
  /\ held' = [held EXCEPT ![Callback] = {o}]
  /\ UNCHANGED <<serverVars, downstreamVars, lifeVars, ctxDone, jobs, worker>>

(* The two branches of the select.  With the context cancelled and room in  *)
(* the channel both are ready, and Go takes either.                         *)
EnqueueJob(o) ==
  /\ stage[o] = "enqueue"
  /\ Cardinality(At("queued")) < Parallelism
  /\ stage' = [stage EXCEPT ![o] = "queued"]
  /\ held' = [held EXCEPT ![Callback] = {}]
  /\ UNCHANGED <<serverVars, downstreamVars, lifeVars, ctxDone, jobs, worker>>

DropJob_Naks(o) ==
  /\ stage[o] = "enqueue" /\ ctxDone
  /\ stage' = [stage EXCEPT ![o] = "nak"]
  /\ held' = [held EXCEPT ![Callback] = {}]
  /\ UNCHANGED <<serverVars, downstreamVars, lifeVars, ctxDone, jobs, worker>>

DropJob_NoCancelBranch(o) == FALSE

DropJob(o) ==
  /\ stage[o] = "enqueue" /\ ctxDone
  /\ stage' = [stage EXCEPT ![o] = "free"]
  /\ held' = [held EXCEPT ![Callback] = {}]
  /\ UNCHANGED <<serverVars, downstreamVars, lifeVars, ctxDone, jobs, worker>>

------------------------------------------------------------------------------
(* workerLoop.                                                              *)

(* Evaluating r.jobs for the next select.  stopWorkers closes the channel   *)
(* and sets the field to nil without the worker's knowledge: a worker that  *)
(* reads nil waits in a select whose only live branch is ctx.Done().        *)
ReadJobsField(w) ==
  /\ worker[w] = "top"
  /\ \E seen \in IF jobs = "open" THEN {"recv"} ELSE {"recv", "stuck"} :
       worker' = [worker EXCEPT ![w] = seen]
  /\ UNCHANGED <<consumerVars, downstreamVars, lifeVars, ctxDone, jobs, held>>

TakeJob(w, o) ==
  /\ worker[w] = "recv" /\ stage[o] = "queued"
  /\ Handle(w, o)

WorkerExits_WhenIdle(w) ==
  /\ worker[w] = "recv" /\ (ctxDone \/ At("queued") = {})
  /\ worker' = [worker EXCEPT ![w] = "gone"]
  /\ UNCHANGED <<consumerVars, downstreamVars, lifeVars, ctxDone, jobs, held>>

WorkerExits(w) ==
  /\ \/ worker[w] \in {"recv", "stuck"} /\ ctxDone
     \/ worker[w] = "recv" /\ jobs = "closed" /\ At("queued") = {}
  /\ worker' = [worker EXCEPT ![w] = "gone"]
  /\ UNCHANGED <<consumerVars, downstreamVars, lifeVars, ctxDone, jobs, held>>

------------------------------------------------------------------------------
(* Shutdown, and the end of the process.                                    *)

ShutdownCancels ==
  /\ life = "running"
  /\ life' = "draining" /\ ctxDone' = TRUE
  /\ UNCHANGED <<consumerVars, downstreamVars, jobs, worker, held,
                 pool, conn, restarts>>

DrainEnds_CallbackRuns ==
  /\ life = "draining" /\ At("inbox") = {}
  /\ life' = "closing"
  /\ jobs' = IF jobs = "open" THEN "closed" ELSE jobs
  /\ UNCHANGED <<consumerVars, downstreamVars, ctxDone, worker, held,
                 pool, conn, restarts>>

(* <-subscription.Closed() returned: the buffered messages went through the *)
(* callback and the callback is idle.  stopWorkers closes the channel.      *)
DrainEnds ==
  /\ life = "draining"
  /\ At("inbox") = {} /\ held[Callback] = {}
  /\ life' = "closing"
  /\ jobs' = IF jobs = "open" THEN "closed" ELSE jobs
  /\ UNCHANGED <<consumerVars, downstreamVars, ctxDone, worker, held,
                 pool, conn, restarts>>

ShutdownEnds_NoWait ==
  /\ life = "closing"
  /\ Answer({}, "ack", {}, At("queued"))
  /\ life' = "stopped" /\ conn' = FALSE
  /\ UNCHANGED <<downstreamVars, poolVars, pool, restarts>>

(* workersWG.Wait() returned.  What is left in the channel is forgotten.    *)
ShutdownEnds ==
  /\ life = "closing" /\ AllGone
  /\ Answer({}, "ack", {}, At("queued"))
  /\ life' = "stopped" /\ conn' = FALSE
  /\ UNCHANGED <<downstreamVars, poolVars, pool, restarts>>

(* The process dies, or a stopped receiver is built anew after a reload.    *)
Restart ==
  /\ life # "new" /\ restarts < MaxRestarts
  /\ ProcessDies
  /\ life' = "new" /\ conn' = FALSE /\ restarts' = restarts + 1
  /\ ctxDone' = FALSE /\ jobs' = "nil"
  /\ worker' = [w \in Workers |-> "gone"]
  /\ held' = [p \in Procs |-> {}]
  /\ UNCHANGED <<downstreamVars, pool>>

------------------------------------------------------------------------------
Lifecycle ==
  \/ StartWorkers \/ ConsumeStarts \/ ConsumeFails \/ StartGivesUp
  \/ HostCancelsStart \/ ShutdownCancels \/ DrainEnds \/ ShutdownEnds \/ Restart

CallbackStep(o) ==
  CallbackHandles(o) \/ CallbackOffersJob(o) \/ EnqueueJob(o) \/ DropJob(o)

Returns(p, o) == ConsumeOk(p, o) \/ ConsumeRetryable(p, o) \/ ConsumePermanent(p, o)

ReceiverIdle == UNCHANGED <<downstreamVars, poolVars, lifeVars>>
Server ==
  /\ \/ ServerStep
     \/ PullOutstanding /\ \E m \in Msgs : DeliveryLost(m)
  /\ ReceiverIdle

Next ==
  \/ Lifecycle
  \/ \E o \in Objs : ReceiveMessage(o) \/ CallbackStep(o)
  \/ \E w \in Workers : ReadJobsField(w) \/ WorkerExits(w)
  \/ \E w \in Workers, o \in Objs : TakeJob(w, o)
  \/ \E p \in Procs, o \in Objs : Returns(p, o)
  \/ Server

Spec == Init /\ [][Next]_vars

------------------------------------------------------------------------------
(* Properties.                                                              *)

TypeOK ==
  /\ ConsumerTypeOK(Stages) /\ D!DownstreamTypeOK
  /\ pool \subseteq Workers
  /\ life \in {"new", "starting", "running", "draining", "closing",
               "unwinding", "stopped"}
  /\ ctxDone \in BOOLEAN /\ conn \in BOOLEAN
  /\ jobs \in {"nil", "open", "closed"}
  /\ worker \in [Workers -> {"top", "recv", "stuck", "busy", "gone"}]
  /\ held \in [Procs -> SUBSET Objs]
  /\ restarts \in 0..MaxRestarts

(* The receiver implements the at-least-once contract: a message leaves the *)
(* stream only after the pipeline took it, refused it for good, or when it  *)
(* is unreadable, through every interleaving of stale deliveries, answers   *)
(* in flight, shutdowns and crashes.                                        *)
A == INSTANCE AtLeastOnce
       WITH Messages <- Msgs, Bad <- Unreadable,
            taken <- {m \in Msgs : accepted[m] > 0},
            rejected <- refused,
            acknowledged <- {m \in Msgs : status[m] = "acked"},
            discarded <- {m \in Msgs : status[m] = "termed"}
AtLeastOnceDelivery == A!Spec

(* The pipeline takes a message twice only when AckWait expired on it:      *)
(* neither the retry of a Nak, nor a restart, nor an answer that was lost   *)
(* duplicates a message by itself.                                          *)
DuplicatesNeedExpiry ==
  \A m \in Msgs : expired[m] < ExpiryCap => accepted[m] <= 1 + expired[m]

(* consumeMessage never sends on the channel stopWorkers closed, which      *)
(* would panic the process: Shutdown closes it only after the subscription  *)
(* is drained and its callback idle.                                        *)
NoSendOnClosedJobs == \A o \in Objs : stage[o] = "enqueue" => jobs = "open"

(* The connection is closed only when no goroutine can use it any more: no  *)
(* message is in a downstream call (its answer would have nowhere to go),   *)
(* none waits in the process, and every worker has returned.                *)
ConnectionOutlivesWork ==
  ~conn => AllGone /\ \A o \in Objs : stage[o] \notin Stages

(* Before a readable message was offered to the pipeline for the first      *)
(* time, only AckWait uses up its max_deliver attempts: the full channel, a *)
(* cancelled context, a drained subscription or a restart never hands a     *)
(* message back unoffered, so an attempt is lost at most once per AckWait.  *)
AttemptsBurnOnlyByExpiry ==
  \A m \in Msgs \ (Unreadable \union offered) :
    expired[m] < ExpiryCap => delivered[m] <= 1 + expired[m]

------------------------------------------------------------------------------
(* Fairness.  The Go scheduler runs every goroutine that can run, and a     *)
(* downstream call returns.                                                 *)
ReceiverFairness ==
  /\ WF_vars(StartWorkers)
  /\ WF_vars(ConsumeStarts \/ ConsumeFails)
  /\ WF_vars(StartGivesUp) /\ WF_vars(DrainEnds) /\ WF_vars(ShutdownEnds)
  /\ WF_vars(\E o \in Objs : CallbackStep(o))
  /\ \A w \in Workers : /\ WF_vars(ReadJobsField(w)) /\ WF_vars(WorkerExits(w))
                        /\ WF_vars(\E o \in Objs : TakeJob(w, o))
  /\ \A p \in Procs : WF_vars(\E o \in Objs : Returns(p, o))

(* For the messages of H: the server's redelivery queue, the client         *)
(* library's buffer and the channel are FIFO, so none of them passes over a *)
(* waiting message forever; AckWait expires on a message nobody answers;    *)
(* the pipeline does not refuse the message forever, and not all its Acks   *)
(* fail or are lost.                                                        *)
DeliveryFairness(H) ==
  /\ \A m \in H :
       /\ WF_vars(AckWaitExpires(m) /\ ReceiverIdle)
       /\ SF_vars(\E c \in Copies : ReceiveMessage(<<m, c>>))
       /\ SF_vars(\E c \in Copies : CallbackStep(<<m, c>>))
       /\ SF_vars(\E w \in Workers, c \in Copies : TakeJob(w, <<m, c>>))
       /\ SF_vars(\E p \in Procs, c \in Copies :
                    ConsumeOk(p, <<m, c>>) /\ stage'[<<m, c>>] = "ack")
       /\ SF_vars(\E c \in Copies : AckArrives(<<m, c>>) /\ ReceiverIdle)
  /\ \A o \in Objs : WF_vars(AnswerEnds(o) /\ ReceiverIdle)

(* Shutdown returns: the subscription drains, although its callback may be  *)
(* blocked on a full channel, and every worker sees the cancellation.       *)
ShutdownTerminates ==
  life \in {"draining", "closing"} ~> life \notin {"draining", "closing"}

(* Start returns, with or without an error.                                 *)
StartReturns ==
  life \in {"starting", "unwinding"} ~> life \notin {"starting", "unwinding"}

(* A healthy message is settled as long as the receiver runs, however often *)
(* AckWait expires on it and however long the other messages keep failing.  *)
HealthySettled(H) ==
  \A m \in H :
    life = "running" ~> Settled(m) \/ life # "running" \/ ctxDone
==============================================================================
