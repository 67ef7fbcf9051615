# A formal model of jetstream-collector

jetstream-collector is a distribution of the OpenTelemetry collector. It moves
telemetry through NATS JetStream: an exporter publishes OTLP requests to a stream,
a receiver consumes them from a durable pull consumer and feeds a pipeline of
processors, and the exporters at its end write to JetStream or to S3. This directory
holds TLA+ models of that code, TLC runs over small instances and proofs checked by
TLAPS for every instance.

The core of the program's own logic is the receiver: it decides, for every message,
whether it is acknowledged, handed back, terminated or left alone, while worker
goroutines, the client library's callback, Shutdown, the AckWait timer of the server
and crashes interleave. It is modelled and proved in most detail. Around it stand
provisioning, the processors, the exporters, the composition of receiver, processors
and exporter into a pipeline from stream to stream, and the configuration provider.

## Inventory

| component | state | operations | interacts with | hard behaviour | what makes it correct |
|---|---|---|---|---|---|
| receiver, single mode (`receiver.go`, `receiver_single.go`, `message.go`) | `started`, `cancel`, `js`, `subscription`, channel `jobs`, worker wait group | Start, consumeMessage, workerLoop, handleMessage, answers, Shutdown | server through nats.go, next consumer | callback, workers and Shutdown race on `jobs`; stale deliveries; lost answers; crash | settled only after the pipeline answered; duplicates only after an expiry; no send on a closed channel; connection closed last; Start and Shutdown return |
| receiver, batch mode (`receiver_batch.go`) | worker wait group, the batch a worker holds | batchWorkerLoop, processBatchOnce, handleMessages, grouping, answers | the same | a group fails in the middle of a batch; one error answers a whole call | one subject per grouped call; a refusal stays in its subject; only failures leave messages unanswered |
| receiver configuration (`config.go`, `client_metadata.go`) | none | Validate, delayForAttempt, subject metadata | receiver | float power and its conversion | delays between zero and the maximum, never shorter but by the rounding of the first |
| pkg/jetstream | the server's streams and consumers | defaults, validation, Connect, provisioning | receiver, exporter, server | components that start at the same time; any stage may fail; spellings | a receiver runs on its consumer as configured; no connection is left; what is provisioned starts |
| JetStream exporter | `js`, `started`, mutex | Start, consume, publish, Shutdown | pipeline, server | timed-out publish that was stored; publish against Shutdown | permanent only when nothing was stored; a retry is deduplicated |
| S3 exporter | client | ConsumeLogs, upload, object names | pipeline, S3 | lost answers, repeated and late requests | what was acknowledged is not overwritten; a retry replaces its own object |
| partition by attributes, CEL partition | none | split a payload, forward the parts | next consumer | one part fails after others were taken; the key joins arbitrary values | parts are a partition; one combination of values per part |
| client metadata processor, selector | counter | add metadata | next consumer | one label for a payload of many records; two spellings of one key; shared counter wraps | no record under another's value; even round robin |
| Kubernetes mapping | informer store, TTL cache, manager | map headers, List, Start, Shutdown | cluster | stale entries, concurrent misses, two spellings of a header, manager that ends by itself | a value is at most one TTL old; refusals rest on fresh objects; no manager left running |
| OpenBao provider | watches, shutdown flag, wait group | Retrieve, watch, Close, Shutdown | collector's config reload | a watch for every reference, also to one secret; callback inside a watch against its own close; change between read and watch | no change missed; watches of the values in use only; closing ends |
| templates (`pkg/template`) | none | Parse, Resolve, values | both exporters | placeholders inside text that looks like one | parts are the one reading of the pattern |
| proxy meter | counters | record, drain, final report | HTTP | — | — |
| collector binary, receiver metrics, factories, tools | — | wiring | — | — | — |

`PROJECT.json` lists the components with their sources, and the hazards at the lines
where they bite.

## Modules

### The receiver

* `JetStreamConsumer` — the durable consumer and the client-side message objects.
  Not part of the repository; modelled from how the receiver uses it. A message is
  `ready`, `pending`, `acked` or `termed` at the server. A delivery is an object
  `<<message, copy>>` with a stage; an answer in flight is a stage (`ack`, `nak`,
  `term`) that later arrives or is lost. An answer whose publish returns an error
  frees the object at once.
* `Downstream` — the next consumer's answers, as histories: which messages were
  offered, how often accepted, which refused for good. An error is about the call.
* `AtLeastOnce` — the abstract contract: a message is acknowledged only after the
  pipeline took it, discarded only after the pipeline rejected it or when it cannot
  be read, and settled once.
* `SingleReceiver` — `processing_mode: single`. `life` is where Start and Shutdown
  are, `jobs` the channel, `worker` where each worker is in `workerLoop`, `held` what
  a goroutine works on. `pool` is chosen initially, so a run covers `workers: 0` (the
  callback handles messages) and every number of workers up to the bound.
* `BatchReceiver` — `processing_mode: batch`. `held` is what a worker has not answered
  yet of its batch; `grouped` (`batch_group_by_subject`) is chosen initially.
* `RetryDelay` — validation of `consume_retry` and the delay of the n-th delivery. Durations
  are integers, the numbers between them floating point numbers of any precision: each
  product is rounded to the nearest, overflows to infinity, and is converted back as the
  processor does, with a result that folds over beyond the largest duration. `Power` is the
  loop of `math.Pow`, square by square.

A receiver module EXTENDS the consumer, INSTANCEs the pipeline as `D`, and maps
itself onto the contract as `A == INSTANCE AtLeastOnce WITH ...`; the property
`AtLeastOnceDelivery` is `A!Spec`.

### From stream to stream

* `Template` — parsing of `${source:key}` patterns, the values their placeholders stand
  for and the resolution of a subject or name. Text is a sequence of characters here,
  because concatenation and placeholders are what the properties are about.
* `Partition` — how the two partition processors split a payload: keys of quoted values,
  parts in the order of their first records, what happens to a record without a value.
* `CallMetadata` — the metadata of a call, from outside the repository. A key is a name in a
  spelling; of several spellings of one key `client.NewMetadata` keeps any.
* `ClientMetadata` — the metadata processor and the selector. A result that depends on the
  iteration order of a Go map is a set.
* `JetStreamExporter` — Start and Shutdown under the mutex, `consume`, the client read
  under the mutex and used after it, the classes of publish errors, and a stream that
  deduplicates by Msg-Id within a window. A publish is a message on the wire with a
  number of its own: it may be stored after its call gave up.
* `EndToEnd` — the abstract contract of a whole pipeline: the source forgets a message as
  done only when every record the pipeline is configured to keep was delivered.
* `ForwardingPipeline` — the composition: the receiver reduced to what `AtLeastOnce`
  promises (several workers may have the same message), selector or client metadata,
  partition processor, exporter. `E == INSTANCE EndToEnd WITH ...` maps it onto the
  contract and `EndToEndDelivery` is `E!Spec`.

`ForwardingPipeline` EXTENDS `JetStreamExporter`, `Partition` and `ClientMetadata`, the
first two of which EXTEND `Template`, the last `CallMetadata`.

### Around the pipeline

* `Bootstrap` — `pkg/jetstream` and the starts that use it. A setting is its trimmed
  lower-case text and whether it was written differently; the tables are the
  `normalize` functions. Components start, fail at any stage, end and start again on one
  server; one action per stage of Start. A subscription of single mode that fails may leave
  the Start waiting for its workers ("stuck", as `SingleReceiver` shows) until the host ends
  its context.
* `ResourceLookup` — Start and Shutdown of the Kubernetes lookup: the manager's goroutine,
  the wait for the caches, and the result channel that Start or Shutdown reads.
* `KubeMapping` EXTENDS `ResourceLookup` and `CallMetadata` — calls that run the chain of
  mappings through the cache. A target is written in its configured spelling, beside what
  came in lower case; a selector may not expand or not parse. `held` is a history: when a
  selector last had a value. `age` is how long ago the value a call got was true.
* `OpenBaoWatch` — Retrieve, which starts a watch for every reference, the watches, their
  Close, Shutdown, and the collector that reloads on their events through a channel of one
  element (outside the repository). Several references may name one secret. A watch whose
  value cannot be made (`ValueFails`) has no Close and stays until Shutdown.
* `S3Exporter` EXTENDS `Template` — names of objects, uploads that are carried out late or
  twice, lost answers, the bucket.

### Instances and proofs

`Algorithms` drives the modules without state (`Template`, `Partition`, `RetryDelay`,
`ClientMetadata`): a behaviour takes one of them and lets its input grow by a character,
a record, a delivery or a call. It holds the properties of their results, for any
characters, values and configurations. `MCSingleReceiver`, `MCBatchReceiver`,
`MCForwardingPipeline`, `MCKubeMapping`, `MCBootstrap`, `MCOpenBaoWatch`, `MCS3Exporter` and
`MCAlgorithms` hold the constants and bounds of the runs.

The modules `*_proofs` hold the theorems and EXTEND the module they are about.
`ForwardingPipeline_proofs` and `S3Exporter_proofs` EXTEND `Algorithms_proofs` as well, for
its lemmas on `Split`, `Resolve` and induction. The lemmas on the consumer stand in
`SingleReceiver_proofs` and in `BatchReceiver_proofs`.

### Correspondence with the code

Every action is a stretch of code between two points where another goroutine, the
server or a crash can act: a blocking call, a channel operation, a read of a shared
field, a lock. So `CallbackOffersJob` is the callback that entered the `select` of
`consumeMessage`, `EnqueueJob` and `DropJob` its two branches, `ReadJobsField` the
unsynchronised read of `r.jobs` at the top of `workerLoop` (the channel or, after
`stopWorkers`, nil), and `ConsumeOk`, `ConsumeRetryable`, `ConsumePermanent` the
return of the downstream call with the answer it leads to. The acceptance and the
answer are one step: a crash between them has the effect of the answer being lost.
Batch mode has one step per downstream call; its answer goes to every message of the
call, and `ends` says whether the loop over the groups stops, as it does on any error.

In the exporter `ReadClient` is the critical section of `publishPayload` and `Publish`
what follows it, so that a Shutdown can come between. In the mapping `Hit` and `Miss` are
the look into the cache, `ListAnswers` the read of the informers' store and `ValueFound`
the `cache.Set` with the return. In the provider `Check` is `CurrentVersion` with the
comparison and `WatcherReturns` the end of the callback, which waits for room in the
collector's channel.

Loops over data are recursive functions. `ParseFrom` is the body of `Parse`'s loop at one
position, `Opening` and `Closing` its two searches, and `Power` is the loop of `math.Pow`
for a whole exponent. `AttrValues` keeps the position of the record each value comes from,
since the first value and the order of the records count. What comes from outside is a
constant: the `Values` attributes may have, the texts `Times` the clock is formatted to, and
the `UUIDs`, of which no two are the same. `PROJECT.json` maps each definition to its lines.

Operators named `<Action>_<Change>` are faulty variants the properties are tried
against; they are not used by the specifications.

## Runs

| run | shows | instance |
|---|---|---|
| `single_safety` | types, settlement (`AtLeastOnceDelivery`), duplicates, attempts, channel and connection at Shutdown | 2 messages (1 poisonous), 2 copies, 0–2 workers, `MaxDeliver` 2, 2 expiries, 1 restart, host may cancel |
| `single_live` | a healthy message is settled; Shutdown returns | 3 messages (1 poisonous, 1 undecodable), 0–1 worker |
| `single_start_failure` | a violation: Start hangs when Consume fails | 1 message, 0–1 worker |
| `batch_groups` | one subject per call, refusals stay in their subject, settlement, what is left unanswered | 4 messages on 2 subjects (1 malformed, 1 poisonous), batches of 3, grouped or not |
| `batch_workers` | types, duplicates, connection with two workers racing | 2 messages, 2 copies, 2 workers, 2 expiries, 1 restart |
| `batch_live` | readable messages are settled; Shutdown returns | 3 messages (1 undecodable), batches of 2 |
| `algorithms` | patterns have one reading; parts partition a payload, one combination each; delays grow to their maximum; no record mislabelled; round robin even | patterns of 7 characters over 6, payloads of 3 records, specs in two spellings, 10 deliveries, numbers with 4 bits of significand, largest duration 2000, 5 turns per value of a counter that wraps at 5 |
| `forwarding` | records end up on the subject of their own value; a permanent error left no copy; connections; duplicates only after the dedup window; `EndToEndDelivery` | 2 workers race on a message of 2 records, or 1 worker merges 2 messages; 2 deliveries, 3 publishes, 2 starts |
| `kube_mapping` | staleness, refusals on fresh lookups, headers that belong together, the manager at Shutdown | 2 calls, 2 chained mappings with a target in upper case, 3 keys and a malformed one, 3 lists of objects, ttl 0 or 2, capacity 1, lookup time 1, clock to 3, 1 change |
| `bootstrap` | connections after failing starts; the consumer a receiver runs on; a provisioned receiver starts, but for a subscription that fails with workers | a receiver and a peer, messages in the callback, by a worker or in batches, every combination of the settings in `MCBootstrap`, 2 initial servers, 1 fault |
| `openbao_watch` | watches of the values in use; every change reloads; closing ends or is blocked by a full channel | 3 references to 1 secret as in the provider's README, 3 watches, versions to 2 |
| `s3_upload` | what was uploaded with a UUID stays; a retry replaces its own object | 2 goroutines, 2 payloads, templates by literal, record, time and header, 2 uploads, 2 starts, 2 hours |

Deadlock is checked where the system goes on for ever: only `bootstrap` restarts what
failed. Everywhere else it is not, since what was shut down, and an input of full size,
really stops.

**Why the bounds are enough.** Two copies let a stale delivery meet a fresh one; a
third copy would be in the same relation to each of them. Two workers and the
callback are all pairs of goroutines that race. `ExpiryCap` saturates a history:
properties about expiries speak of messages below it, and the acceptance counter
saturates one above. The channel and the receive buffer hold as many messages as
there are workers, as in the code, so with one worker and three messages both are
full with a third message in the callback. One restart lets answers of the
process that died reach a message the new one holds.

Seven characters hold a complete placeholder `${r:a}` with one character before or behind
it, and every way to cut one off; the values of attributes include the separator and the
quote of the partition key. Three records are needed for two parts of which one has two
records in between. A counter modulo 5 is no multiple of the numbers of values, as 2^64 is
no multiple of 3. Four bits round the first delays 17 and 19 down and up, round the powers
of 9/8, and reach infinity and the largest duration within ten deliveries. Three publishes
in `forwarding` are two parts and a retry of one, or the two of one worker and one of
another. In `kube_mapping` a cache of one entry makes the two mappings evict each other, a
client that sends the second header beside the target written in upper case has both
spellings, the clock passes the end of an entry, and one change is enough to make an entry
stale. In `s3_upload` two uploads meet in one name, from one goroutine that tries again or
from two. What the proofs cover does not depend on any of these.

**Symmetry.** Workers, calls and copies are permuted in safety runs only.

**Fairness.** Receivers: weak fairness for every goroutine's steps (the Go scheduler), for
Consume in Start and for downstream calls, which return. The liveness of a message
further assumes, for the messages declared healthy only: AckWait expires on a
message nobody answers; the redelivery queue, the client library's buffer and the
channel are FIFO, so a message that waits is not passed over forever (strong fairness
of each hand-over); the pipeline does not fail the message forever and not all its
Acks are lost (strong fairness of an acceptance whose Ack leaves and arrives). No
fairness is assumed of Shutdown, of the host, of crashes or of the failing messages.

`OpenBaoWatch`: weak fairness for retrieval, the collector's main loop, the watches and the
return of Shutdown; strong fairness of `Check`, because polls may fail but not for ever,
and of `WatchEnds`, because Go's `select` picks at random among ready branches and so does
not take the ticker for ever when the context is cancelled. Secrets need not change and
Shutdown need not be called. `Bootstrap`: weak fairness of each component's start and of
its restart after a failure, as a supervisor restarts the collector; `MaxFaults` bounds
how often the server fails. Nobody need end a start that is stuck, so `ProvisionedStarts`
promises a start or such an end, and the latter only with workers in single mode.

## A disagreement with the code

`single_start_failure`: when `consumer.Consume` fails, `startSingleConsumer` calls
`stopWorkers` before Start cancels the context (`receiver.go:226`, `175`). A worker
that reads `r.jobs` for the first time after it was set to nil waits for `ctx.Done()`
alone, and `stopWorkers` waits for the worker. Start does not return, keeps `r.mu`,
and the failure is not counted (`metrics.go:44`, `126`).

Divergences between text and code met while modelling, which the models follow the
code in:

* kubemapping README:15 and :52 let `cache_misses` cache failed lookups; `cached_mapping.go`
  returns their error before it looks at the setting (`cached_mapping.go:83`), and nothing is
  cached of a selector that does not expand or parse (`mapping.go:20`). `RefusedOnFreshLookup`
  states what the code does.
* kubemapping README:34 has the target `X-Tenant-ID`, which the processor writes beside the
  `x-tenant-id` a client sent (`processor.go:42`, `59`): the client's value may be forwarded
  and read by the next mapping. `ForwardedHeadersConsistent` speaks of headers and targets in
  one spelling. Without a received header of that name any spelling is safe.
* s3exporter README:137 requires `filename_append_uuid` when `filename_template` is empty, so
  that names are not empty; the validation accepts both unset (`config.go:154`).
* clientmetadataselector README:21 says that the selected value replaces any existing value for
  `metadata_key`; with an upper-case letter in it, the received and the selected value are two
  spellings of one key, of which either may win (`processor.go:50`).
* clientmetadata README:34 lets configured keys overwrite existing metadata; a key with an
  upper-case letter is added beside the received one, and either may win
  (`processor.go:106`). `NoRecordMislabelled` says which labels are possible in that case.
* clientmetadata README:29 says that missing values inside a batch fail the export; a record
  without the value travels under the value of the others (`logs_values.go:26`, `48`), and a
  payload is refused only when no record has one, or two differ. `NoRecordMislabelled` states
  that condition.
* An initial delay that is no `float64`, from 2^53 nanoseconds (104 days), is rounded in the
  second delay and not in the first, which may then be longer (`config.go:124`).
* jetstreamreceiver README:95 offers the `by_start_*` deliver policies; nothing sets the
  start they need, so the server refuses them (`jetstream.go:371`).

## Proofs

The theorems hold for all sets of messages, copies, workers, calls, references and
components and for every bound. A theorem says the property of the run for every
value of the constants; `PROJECT.json` lists them.

**Single receiver** (`SingleReceiver_proofs`, every property of `single_safety`). From
`ConsumerAssumption` and `ReceiverAssumption` only: the sets are finite, the callback is
not a worker, the numbers are natural. None of the invariants is inductive by itself.
`IInv` is the conjunction of

* `Ownership` — a message being handled is held by exactly one goroutine, which
  handles no other, and a worker that holds one is busy. Without it a returning call
  could leave another call's message without a goroutine.
* `Phases` — what each point of Start and Shutdown leaves in the process: before
  `running` and after `stopped` nothing, at `closing` an empty buffer and an idle
  callback, and the channel is not closed as long as the callback can run. With
  `Ownership` it gives the closed channel and the connection.
* `Justified` — what each stage rests on: a call in progress is about a readable,
  offered message, an Ack in flight about an accepted one, a Term about a refused or
  unreadable one. It is what the refinement needs when an answer arrives, at any later time.
* `AttemptsToCome` — for a message never offered, the deliveries made plus the one
  the server may still make are at most one more than its expiries.
* `AcceptancesToCome` — the acceptances of a message, plus its objects that may still
  be accepted or handed back, plus the delivery the server may still make, are at most
  one more than its expiries. An expiry adds one to come; a delivery, a Nak and its
  arrival move it along; an acceptance uses it up; everything else loses it.

The lemmas about the consumer, which both receivers use, say what the steps of the server do
to the types and to the count of acceptances to come.
`IInv` was also checked by TLC on the instance of `single_safety`.
`ShutdownWaitsForWork` is the safety part of `ShutdownTerminates`: from its cancellation of the
context to the last worker's return, Shutdown waits for nothing that cannot go on. Its
invariant `Waiting` says nothing of a Start that gives up: there the workers are stopped with the
context alive, which is the disagreement `single_start_failure` shows.

**Batch receiver** (`BatchReceiver_proofs`, every safety property of `batch_groups` and
`batch_workers`). `IInv` has the same `Ownership`, `Phases`, `Justified` and
`AcceptancesToCome`, here for sets of messages, and

* `Batches` — what a batch holds at each point of `handleMessages`: nothing undecodable
  once groups are built, nothing unreadable in a call, the whole batch in an ungrouped
  call. With `OneSubjectPerCall` it says what the messages of one answer have in common.
* `RefusalStaysInSubject` itself — a refusal answers a call whose messages have one subject, so
  it adds terminated messages on that subject only.

A call that ends answers many messages at once, so the counting lemma is about a set of
objects: each of them moves from a call to an answer, or is let go, and the count of none grows.
`BatchShutdownWaitsForWork` says of Shutdown what the single receiver's theorem says: the context
is cancelled, and `Keep` and the groups leave no worker with an empty batch in its hands.

**Algorithms** (`Algorithms_proofs`, every property of `algorithms`), from
`AlgorithmsAssumption`, `RetryAssumption` and `WidthAssumption`: what the constants are,
that keys of received metadata are in lower case, as `client.NewMetadata` leaves them (those of
specs are in any), and that there are numbers, one and a largest among them, with no word on
their precision. A loop of n steps is one
function on 0..n (`LoopEquation`, `FlattenEquation`, `ResolveEquation`, `PowerEquation`, and
`ParseUnrolls`, which goes through the pattern from its end). What holds of its values is
proved by `NatSetInduction`: a set of numbers with 0 and the successors of its members has all
of them, because the least number outside would be a successor. As it is about a set, it needs
no parameter that is a predicate. With it

* `PartitionsPayloads` — after each record the parts are an ordered partition of the records
  so far, and the index of keys finds the part of each key (`LoopInv`).
* `CombinationsApart` — the keys of records are equal only if their values are. Quoting is
  injective because no escaped character begins another (`EscapesApart`), so the first quote that is
  not escaped ends a value, and the separator behind it tells the values apart (`KeysApart`).
* `LabelsAreTrue`, from what each spec adds to the metadata, in the spelling of the spec, beside
  what was received. Where a key has one spelling only one of them is there.
* `RoundRobinIsEven`, with the invariant `RoundRobin`: between two values the counts differ by the
  turn the counter is in and one for each wrap. Evenness alone does not say whose turn it is.
* `DelaysGrow` — rounding to the nearest keeps the order (`RoundMonotone`) and leaves numbers
  as they are (`RoundExact`). Two powers go through different products, so theirs is not a
  matter of one rounded step: the loop of the smaller exponent stays behind that of the larger
  (`Trails`), because as long as the bits left differ its product is at most the square, the
  weight of the next bit (`PowerGrows`). What is below the maximum as a number is not above it
  as a duration, although the maximum may be rounded up (`BelowMaximum`). Nothing here depends
  on how precise the numbers are.
* `PatternsRead` — each part the loop adds is in front of a reading of the rest, and where a
  placeholder closes is the first brace behind where it opens (`ParseStep`).

**Pipeline** (`ForwardingPipeline_proofs`, every property of `forwarding`), from
`PipelineAssumption` and the exporter's. Three invariants stand on one another.

* `IInv` is about the exporter. `LifeInv` says which connection Start and Shutdown leave,
  `CallsInv` that a call which has not published has no number, `NumbersInv` that a number is
  given once and that what is stored is not on the wire any more. Only then does removing a
  message from the wire mean that it will never be stored (`PermanentIsFinal`, `Connections`).
* `DeliveryInv` is about the records: those a worker owes are stored or in the parts it has left,
  a call carries the first of these parts, and an acknowledgement it waits for is one of that
  part. When a worker settles its messages it has no part left, so everything is stored:
  `PipelineImplementsEndToEnd`, the refinement, step by step. It rests on
  `SplitCovers`: the parts have the records that are to be kept and no others.
* `AddressInv` is about what is sent: parts of messages, on the subject their records resolve
  to. A template resolves to one text at most, and to one for all records of a part that have one
  value; hence `SubjectsAreOwn`, for a template that is one placeholder of the client metadata,
  as without it records have no subject of their own. For `DuplicatesOnlyWhenForgotten`,
  `DedupInv` adds that what was stored is in the window or was forgotten. A retry sends the same
  part on the same subject, so it has the same Msg-Id, provided that messages have no record in
  common. Both hypotheses hold in the run's instance.

**Kubernetes mapping** (`KubeMapping_proofs`, every property of `kube_mapping`: `Staleness`,
`RefusedOnlyFresh`, `ManagerNotLeft`, `HeadersBelongTogether`), from `KubeAssumption`.
`HeldIsCurrent` says that the history knows the present values, `Reads` that what a call has
read was true when it read it and that it read at most `LookupTime` ago, `Entries` that an
entry expires at most `ttl` plus a lookup after its value was true. The bound follows at the
moment of the hit. The manager's part has an invariant of its own, `ManagerInv`, about who
has the result of the manager's goroutine. `HeadersBelongTogether` needs that no mapping
writes a header that it or an earlier one has read or written (`MappingsInOrder`, true of
the run's chain): otherwise the final headers are not the ones a selector was expanded with.
`HeadersInv` says that the mappings behind a call have a target the selector had, and that
the lookup under way is for the header the call has; of a key in several spellings it says
nothing, as any of them may be forwarded. `RefusedOnlyFresh` names the errors of a selector,
a header that is missing and a text that does not parse, beside the lookup made for this
call.

**S3 exporter** (`S3Exporter_proofs`, both properties of `s3_upload`), from `S3Assumption`:
names are sequences of texts and no UUID is answered twice. `UploadsNamed` says what the name of an
upload is wherever the upload is, with its caller, on the wire or in the bucket: some text, its
UUID and an end that is the same for all; or, when it is made of the records, the one text the
template has for them. Two uploads whose names agree are then one upload, whatever texts stand in
front of the UUIDs (`UUIDsTellApart`), and `UploadedStays` follows with `AnswersTrue`: an answer of
success is about an upload in the bucket. `RetriesReplaceTheirs` needs `OwnPrefixIsOne`.

**OpenBao** (`OpenBaoWatch_proofs`: `WatchesAreOfPresentValues`, `ChangesNoticed`), for any
number of references to each secret. `Loading` — outside a reload the reference of a watch
is loaded and has no second watch — makes a new watch safe; `Closing` — only the watch whose
Close waits is cancelled and alive, and a watch without a Close means a collector that ends
— makes the reload leave none behind. `ChangesNoticed` is the safety part of
`EveryChangeReloads`: a reference whose secret is not as loaded has a watch that will tell
or is telling, or an event is in the channel. Its invariant `Noticing` says for each
reference, whether it changed or not, that a watch compares with the loaded version, and
that while the references are still being read every one read has its watch.

**Bootstrap** (`Bootstrap_proofs`: `ConnectionsClosed`, `ConsumerAsConfigured`,
`FindsWhatItProvisions`), from `PlansAssumption`: a bootstrap section names at most one
consumer, as its type in the code does. `Provisioned` follows a consumer from the request
that made it to the run, through the requests of everybody else. `FindsWhatItProvisions` is
the safety part of `ProvisionedStarts`: what a receiver asked for is on the server under the
name it looks up (`There`), although consumer names are trimmed and stream names are not.
For the stream it supposes a name without blanks around it, which is looked up as it stands.
A start that is stuck is past all lookups.

**Only model-checked.** Liveness, which is out of the prover's reach together with fairness and
ENABLED: `HealthyMessagesSettled` and `ShutdownTerminates` of both receivers,
`ProvisionedStarts`, `EveryChangeReloads` and `CloseEnds`. For both
`ShutdownTerminates`, `ProvisionedStarts` and `EveryChangeReloads` the theorems above prove the
part that is safety, that nobody waits for what cannot come; those statements are in
the proof modules. Every invariant, action property and refinement that a run checks is a theorem.

## Abstractions, and what is not modelled

* Time in the receivers. AckWait may expire at any moment while an answer is awaited and a
  ready message may stay undelivered for any time, so the delays of NakWithDelay, the
  InProgress calls of batch mode and `batch_max_wait` need no clock. A fetch that fails at
  once makes a batch worker loop without a pause; how fast is outside the model.
* Order. Messages are sets: any ready message may be next, any group may be next.
  The order matters only to fairness.
* MaxAckPending, reconnects of the client, heartbeats of a pull request.
* Payloads. A message is readable or not, and the pipeline can take it or not;
  which signal it carries does not change the control. In the pipeline a payload is the
  sequence of its records; encoding, compression and headers do not fail for a validated
  configuration.
* Numbers. Multiplication, rounding and the conversion between `float64` and durations are
  modelled as on amd64; the number of a delivery is converted exactly, which holds to 2^53.
* CEL. An expression is the attribute it selects; the language is a library's.
* Kubernetes. A selector is expanded from one header and identified with the value it is
  expanded with; only the pairs of `Keys` are looked up (a bound). Of their syntax it is kept
  that some values, `Malformed`, make no selector. The REST client is left out.
  Staleness is relative to the informers' store, which freezes when the manager ends by
  itself: nothing in the code notices that, and no bound holds against the cluster then.
* OpenBao. Watching is enabled, which it is not by default; without it nothing happens after
  Retrieve. The syntax of references, the client's configuration, and a Shutdown whose context
  has already ended are left out.
* Settings of streams and consumers without a vocabulary of their own are passed on
  unchanged and left out; TLS files and credentials are a failure of Connect.
* Receiver configuration is modelled in part: validation of the retry and of the bootstrap,
  defaults, delays. Histogram buckets, the other ranges and the metadata of subjects
  (`client_metadata.go`) are not.
* Receiver metrics and factories, logging, the collector binary (generated wiring), tools and
  distributions have no influence on the messages. The proxy meter is a measuring tool that
  stands beside the collector.

## Plan

Done: the consumer, both receivers and their contract; the algorithms; the exporters; the
pipeline and its contract; the mapping; provisioning; the provider; proofs of every safety
property and of every refinement.

Worth adding: `client_metadata.go` in `ForwardingPipeline`, with the subject of the source as
a third origin of the header; the counters of the proxy meter at the end of a run.
