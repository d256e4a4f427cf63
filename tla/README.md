# Verification of go-obskit

TLA+ models of go-obskit (the Go logging library under `src/`), the TLC runs that check them
and the TLAPS proofs about them. Line numbers refer to the files under `src/`.

## 1. The system

go-obskit gives a Go service structured logs on stdout and, optionally, delivers the same
records to a collector. Its parts:

| Component | State it keeps | Operations | Interacts with |
| --- | --- | --- | --- |
| `httpsink` | channel `queue`, `stop`, `enqueuesDone`, `done`; `once`, `enqueueMu`, `closed`, own and closing context; six atomic counters; the worker's batch | `Wrap`/`Handle`/`enqueue` (any goroutine), `run`/`flush`/`ship`/`send` (one worker goroutine), `Close(ctx)` (any goroutine), `Stats` | called from the slog handler chain; HTTP collector; `OnError` callback |
| `elastic`, `lokisink` | the same | the same; elastic reads the Bulk answer, lokisink builds a push payload | Elasticsearch, Loki |
| `internal/slogsnapshot` | none | copies a record, estimates its size; runs caller code (`Error`, `MarshalJSON`) | called under `enqueueMu` |
| `joblog` | a run: its options, counts, `ended` flag; one counter of completions for all runs | `Start`, `End`, `Fail`, `Complete`, `Retry`, `SetCounts`, `Add*` | logger context, sampling |
| `sampling` | one atomic counter per user | `ShouldKeep`, `IsImportant` | httplog, joblog, gormx, outbound |
| `httplog` | none | capture policy, body limits, agent, event | the HTTP adapters, outbound |
| `adapters/nethttp`, `ginx`, `fiberx` | per request: status, captured body, start time | middleware, response writer | httplog, logger context |
| `adapters/grpcx` | per stream: whether the end was logged | unary and stream interceptors, `clientStream` | logger context |
| `adapters/gormx` | level, options | `Trace`, `LogMode` | sampling, redact |
| `outbound` | per request: captured bodies | `RoundTrip` | httplog, redact |
| `logger` | none after construction | `New`, handler chain, context metadata | every other part |
| `obskit` | logger and delivery | `New`, `Open`, `Close`, `WithTrace` | logger, a sink |
| `correlation`, `errorsx`, `redact`, `adapters/otel` | none | pure functions | logger, adapters |

What is hard: the sinks are the only part with goroutines of their own, locks, timers, retries
and a shutdown that races all of them, and they run inside every log call of the
application. They come first. `joblog` (a run ended by several goroutines), `sampling` (a
shared counter), the response writers and the gRPC streams (call sequences nobody
tested) come next. What makes each component correct:

* sinks: a record taken in is counted exactly once, in order; `Close` drains, ends intake, and
  returns; a log call returns; retries are bounded and only for transient answers;
* joblog: a run is ended once, with the counts of that run; failures and slow completions are never
  sampled out;
* sampling: every n-th event is kept, across goroutines and the wrap of the counter, and where runs with
  other rates step the same one;
* HTTP middleware: the client and the handler see what they would without it; the logged status and
  size are those the client got; troubles are never sampled out and nothing is logged twice;
* outbound: request and answer bodies reach their readers whole, with the failures that end them, and an answer that streams is not
  withheld for longer than the capture needs;
* gormx: failed and slow queries are logged as what they were, at every level;
* gRPC: every call is logged once, with its final status;
* logger, correlation: everything a request leaves behind is found under its ID, and the collector
  gets values the log call met, whatever becomes of them later.

`PROJECT.json` lists every hazard at its line with the properties that cover it.

## 2. Modules

| Module | Contents |
| --- | --- |
| `AsyncSink` | the sink: producers, closers, worker, collector |
| `AsyncSinkProperties` | its type invariant, safety, action and liveness properties, its inductive invariant, the refinement mapping |
| `Delivery` | what an asynchronous sink promises, without goroutines, locks or requests |
| `MCAsyncSink` | record shapes and answer sets for TLC |
| `AsyncSinkProofs` | the inductive invariant holds |
| `AsyncSinkTheorems` | what follows from it, and the refinement |
| `ElasticSink`, `MCElasticSink` | AsyncSink with the Bulk answer of Elasticsearch, read after its headers |
| `ElasticSinkProofs` | the invariant of AsyncSink carried over, no answered batch is sent again, the refinement |
| `GrpcStream`, `MCGrpcStream` | the gRPC client stream, its operations racing to log the end of the call |
| `GrpcStreamProofs` | its inductive invariant and what follows |
| `JobRun`, `MCJobRun` | job runs that goroutines start, retry, count and end; the sampling of completions |
| `JobRunProofs` | its inductive invariant and what follows |
| `Remainders` | lemmas about n % e, for the counters |
| `Context` | what a context carries (correlation, logger metadata), and what a log line takes from it |
| `Sampling` | the decision of `src/sampling` and its counter |
| `HttpLog` | what the HTTP parts share: bodies captured and put back, sampler and hook, events |
| `HttpExchange` | requests in the middleware of net/http, Gin or Fiber, around an arbitrary handler |
| `Outbound` | calls through the logging transport |
| `GormTrace` | queries through the GORM logger |
| `LogPath` | the application's own lines: stamped, printed, snapshotted, encoded later |
| `Service`, `MCService` | a server that uses all of them at once; the servers and loads for TLC |
| `HttpExchangeProofs` | the inductive invariant of requests in the middleware and what follows, with lemmas about bodies |
| `ServiceProofs` | a service implements `HttpExchange`; samplers, bodies, calls, queries, lines and IDs of any number of requests |

### AsyncSink and the code

A step of the model is what one goroutine does between two points at which another one can tell:
a lock or channel operation, an atomic access, a request or its answer.

| Code | Model |
| --- | --- |
| `handler.Handle`, `enqueue` (`httpsink/handler.go:20`, `middleware.go:127`) | `Log`, then `RLock`, `Refuse` / `SnapshotPanics` / `CountOversized` and `DropOversized` (two counters, between which `Stats` may look) / `Snapshot`, `Send` or `DropFull`, `Count`. `ppc[p]` is the step of producer `p`, `rec[p]` the record in hand |
| `m.queue` | `queue`, bounded by `QueueSize` |
| `enqueueMu` | readers are the producers at "locked", "oversized", "send", "count", and `leaks` (a lock whose holder returned without `RUnlock`). A writer at "pending" stops new readers, as `sync.RWMutex` does |
| `Close` (`middleware.go:91`) | `Close`, `EnterOnce` (`closeCtx`), `SetClosed`, `Cancel`, `CloseStop`, `AnnounceLock`, `EndIntake`, then `ReturnNil` or `ReturnCtxErr`. A second caller waits in `once.Do` (`PassOnce`) |
| `run` (`worker.go:15`) | `SelectStop`, `StartDrain`, `Receive`, `Tick`, `EndDrain`; `wpc` is the step, `back` where `flush` returns to |
| `flush`, `ship`, `send`, `waitRetry` | `StartShip`, `Request`, `RequestCanceled`, `ReplyOk`, `ReplyError`, `BackoffEnds`, `BackoffCanceled`; `second` says that `flush` ships again with the context of `Close`, `sawCancel` that `context.Canceled` is in the joined error |
| the counters of `Stats` | `enqueued`, `dropped`, `oversized`, `sent`, `failed`, `retried` |

History variables, not in the code: `accepted` and `settled` (records in the order of their send
and of their counting), `acked` (records a 2xx acknowledged), `tries` (requests for the batch in
hand), `refused` (the collector answered the batch with a permanent status).

Abstractions. A record is its producer, number and shape (size estimate, bytes in the payload,
whether it encodes, whether taking the snapshot panics). A collector answers "ok", "retryable"
(429, 5xx, transport error, client timeout) or "permanent" (any other status). Time is left out:
timers, tickers and deadlines may fire at any moment. Status logging and `OnError` are left out
(they change no state of the sink unless the callback logs, see hazards).
`m == nil` and an inactive configuration return at once and are not modelled.

`elastic` and `lokisink` repeat these goroutines line by line; they differ in the payload and in
elastic's reading of a 2xx body. `lokisink/worker.go:25-109` and `middleware.go:86-156` are
`httpsink/worker.go:15-100` and `middleware.go:91-161` with other messages: AsyncSink is the model of
both, and `PROJECT.json` maps its composite actions (`Worker`, `Enqueue`, `CloseStep`) to lokisink's
text and the single steps to httpsink's.

### ElasticSink

Extends the sink by the body of a Bulk answer. `AnswerBegins` is `HTTPClient.Do` returning a 2xx
with a body (`elastic/worker.go:145`); while `body` is not "none" the worker decodes it (line 165), and
`AllStored`, `ItemsFailed` (line 168) or `AnswerCutOff` (line 166) follows. A 204 has no body
(`NoContent`). All other steps are those of AsyncSink. `answered` is history: the batch in hand has
had a 2xx answer. A body that is no JSON although the context is alive ends as `ItemsFailed` does.

### GrpcStream

The wrapper of `adapters/grpcx/grpcx.go:66` around a `grpc.ClientStream`. The stream inside is
external: `status`, `arrived`, `answers`, `sends` and the steps `ServerAnswers` and `CallEnds` say what
its operations return (`SendMsg` gives io.EOF once the call has ended, `RecvMsg` the answers, then
io.EOF or the status). An operation that fails leaves its error in `err[s]`; `Finish` is
`once.Do(finish)` and the return to the application (`seen`). `log` is the codes logged for the call.
`CloseSend` never fails in grpc and is left out, like the interceptors of unary calls and of servers,
which are straight-line code.

### JobRun

| Code (`joblog/runner.go`) | Model |
| --- | --- |
| `Start` (line 17) | `Start`, which keeps the run's `Options` in `opts[j]`, then the steps of its event, then `StartReturns`: before it the application has no `*Run` |
| `Complete`, `Fail` (lines 86, 114), `End` which calls one | `Complete`, `Fail`: the compare-and-swap of `r.ended` (`MayEnd`); `EndAgain` when it fails. `how` tells a slow completion from a fast one, and an error whose `Error()` panics from one that does not |
| `shouldKeepBySample` (line 182) | `Important`, `Sample` (the atomic add to `jobCompleteSampleCounter`, which all runs share), `Kept` (at the rate of this run) |
| the hook in `shouldLog` (line 166) | `HookDrops`, `HookAllows` (also a hook that panics: `allowed` stays true) |
| `Counts` (line 230) | `LoadCount`, one atomic load at a time |
| building and logging the event | `Emit`; `ErrorPanics` when `err.Error()` panics in `buildFailedEvent` |
| `Add*`, `SetCounts` (lines 196-228) | `AddCount`, `SetCounts` and `StoreCount`, one atomic store at a time |

`call[c]` is the call goroutine `c` is in and its step. History: `ender` (what ended the run),
`held` (the values of each counter since the run ended), `row[e]` (completions dropped in a row whose runs
have rates that divide `e`). `load` is what this application does: the runs it starts, the options it gives them, who calls what.
Abstractions: an event is its action and the counts it
shows; a handler that panics is recovered by `safeDo`, loses the event and is left out. `CounterSize` stands
for 2^64, and the counter starts anywhere, since earlier runs have stepped it. A `Retry` or a count
after the end is allowed, as in the code. The counts themselves do not overflow in the model.

### Service and its parts

`Service` is one process: each request is a goroutine `x \in Requests` that runs a middleware around a
handler; the handler responds, reads, derives contexts, makes calls, queries and log lines in any
order, and waits for its calls. The parts share nothing but the contexts and the process (`up`), so each
has its own variables and module, and `Service` interleaves them. Two goroutines meet only in the samplers'
counters and in the values they log.

| Code | Model |
| --- | --- |
| the middleware up to `next` (`nethttp/middleware.go:26`, `ginx/middleware.go:20`, `fiberx/middleware.go:21`) | `Begin`: `ContextFor`, `CaptureRequestBody`, the start event |
| after `next` (`nethttp/middleware.go:83`, `ginx/middleware.go:80`, `fiberx/middleware.go:80`) | `End`, which differs in `NethttpEnd`, `GinEnd`, `FiberEnd`; then the server sends what is left (`Answer`), where Fiber's error handler replaces the page |
| `nethttp/response_writer.go`, `ginx/capture.go` | `RwWriteHeader`, `RwWrite`, `RwCapture`, `GinWrite`, `Copy` (ReadFrom), `Flush`, `Hijack`. `out[x]` holds the server's writer and the wrapper's fields |
| `captureRequestBody`, `replayBody` (`nethttp/capture.go:19`, `ginx/capture.go:53`, `outbound/capture.go:34, 66`) | `ReadAhead`: a body of which a part was read and put back in front of the rest, with the `end` of the connection; `ReadOn` is its reader taking a byte or meeting that end |
| the server's writer (external) | `SetStatus`, `SendHeader`, `Accept`; a write may fall short, and then the client is gone |
| `RoundTrip` (`outbound/transport.go:36`) | `RoundTrip` up to the base transport, `BaseFails` or `BaseAnswers` (headers are there; the early look at the sampler), `Return` (capture of the answer's body, event). `Transmit` is the base transport reading the request's body; `Serve`, `ServerEnds`, `ReadAnswer` are the server and the caller |
| `slogGormLogger.Trace` (`gormx/logger.go:74`) | `Trace`: `Outcome`, `DbShouldLog` |
| `handler.Handle` of a sink, `slogsnapshot.Record`, the worker's encoding | `PrintLine`, then, when the lock is to be had, `Enqueue` with `SnapshotAttr` and `AttrAfter`, then `Encode`; `pending[x]` is the line `x` has printed and not queued. `Change` is whoever shares the value, at any time between these steps |
| `correlation`, `logger/context.go`, `contextHandler.Handle`, `otel.WithTrace`, `obskit.WithTrace` | the operators of `Context`; `Stamp(c)` is what a line under `c` shows |

A handler may be anything, so `Service` gives it operations and a budget; `Deployments` names the
options, the load and the operations of each server that is checked. History variables: `plain` (the
server's writer as it would be without the wrapper), `handed`, `used`, `verdict`, `dbLast`, and
`httpRow`, `outRow`, `dbRow` (successes sampled out since one was kept).

Abstractions. A body is a sequence of numbered bytes, so that loss, order and repetition show, and
what its reader meets after them: the end, or the error of a connection that broke, which the connection reports again to
whoever reads on (as net/http's do). A value that is logged is its version; callers that change one while it is read guard it
themselves, and two of them never log one group attribute at a time: the snapshot writes into the group, which is a data race. A status is a
number, a header only the correlation ID, an event the fields the properties compare. Of the two traces a
context may carry only the trace ID is kept. Durations are `slow` or not. Panics of hooks allow the event, as
`SafeValue` does. Addresses, user agents, header and query filters and JSON redaction are left out.

## 3. Runs

The runs `sink_*` are on `MCAsyncSink`, `elastic_*` on `MCElasticSink`, `grpc_*` on `MCGrpcStream`,
`job_run` on `MCJobRun`, `service` and `http_copy` on `MCService`. In the
sinks MaxRecordBytes is 4 and MaxBatchBytes 3 throughout, so that the shapes
Large (9) and two Bulky records (2 + 2) exceed them. Deadlock is checked except where the system
may really stop: in runs under fairness or with panics (a leaked lock blocks everybody), which say
CHECK_DEADLOCK FALSE, and in the gRPC, job and service runs, where all calls end.

| Run | Instance | Checks |
| --- | --- | --- |
| `sink_blocking` | blocking, 2 producers, 2 closers, no retry; the worker may stop for good | NoDeadlock, IntakeStaysOver, CloseHonoursContext |
| `sink_payloads` | non-blocking, 2 producers x 1 log, 2 closers, all shapes, queue 1, batch 2, 1 retry | TypeOK, Fifo, Accounted, Drained, SentIsAcked, ClosingContextKnown, RequestsBounded, FailureExplained |
| `sink_live` | fair, blocking, 1 closer | CloseReturns, LogReturns, WorkerStops, AllSettled, DeliversAsPromised |
| `sink_snapshot_panics` | a shape panics | LogReturns, violated |
| `elastic_bulk` | every answer, stored or failed items | ElasticDelivers, AnsweredNotResent, RefusedNotResent |
| `elastic_clean_close` | every item is stored | CleanClose, violated |
| `grpc_stream` | fair, bidirectional, 3 messages each way, 2 failure codes | LoggedOnce, FailureIsReal, ErrorIsLogged, EndIsLogged |
| `grpc_logged_status` | the same, any schedule | LoggedStatusIsFinal, violated |
| `grpc_unary_response` | fair, unary response | ResponseIsLogged, violated |
| `job_run` | fair; counter of size 5; three loads: 2 runs, 2 goroutines x 2 calls of every method, 2 counts, 1 of 2 kept, and a hook that may drop what is not an end; 4 runs at the rates 2 and 4, started and completed by one goroutine; 3 runs at the rates 2 and 3, by two | EndsOnce, CountsAreHeld, OneOfEvery, ImportantEndIsLogged |
| `service` | fair; thirteen families of servers (`AllDeployments`), up to three requests, CounterSize 3 | ClientUnaffected, LoggedAsSent, CaptureIsPrefix; BodiesArrive, ErrorBodiesOnly, TripReturns; TroublesTold, SuccessesKept; DeliveredAsPrinted; FoundUnderId, IdsAgree; TypeOK |
| `http_copy` | the servers whose handlers copy | ClientUnaffectedByCopy, violated |

`Accounted` is of the counters at every moment: `Stats` takes no lock, so `Oversized` may be ahead of `Dropped`, and `Enqueued`
behind the channel, by the calls that are between two counters, and by no more.

The inductive invariants (`IInv`, `Tally`, `ElasticIInv`, `HttpIInv`, `CallIInv`, `DbIInv`, `LogIInv`, `KnownIInv`) are
proved for all values of the constants (section 4) and are in no run.
`BodiesArrive` is `BodyReplayed` (what the handler reads of its request) and `BodiesDelivered` (what the
transport sends and returns); `TroublesTold` and `SuccessesKept` have one part for each of the middleware
(`TroubleIsTold`, `HttpOneKept`), the transport (`Out...`) and the GORM logger (`Db...`).

Bounds. One slot of queue and two producers already give every race for the last slot; a batch of
two gives full and partial batches, draining with a batch in hand, and a queue refilled while a
batch is being shipped; one retry gives first, last and second-series attempts; two closers give
the race for `once`. In `sink_blocking` two producers allow one past the closed check or blocked, and one behind
the pending writer; the proofs of `IInv` cover any number. `MaxLogs` is the only bound that is not a parameter of the program: it ends the
model by limiting the calls of a producer. Symmetry is used over producers and closers in runs without
liveness properties. In `job_run` two goroutines with two calls each give two ends of one run, an end with
an addition between the loads of its counts, and the ends of two runs at the counter; `most`, the calls a goroutine
makes, ends the model. Four completions at the rates 2 and 4, in any order and with the counter anywhere, are a row that the span 4
allows to be dropped but for one, and a counter of size 5 wraps in the middle of it; rates 2 and 3 do not divide each other and share the
counter, which breaks both rows. `Spans` names the rows that are watched, 2 to 4.

In `service` a family looks into one part, and the others stand still, so that its bounds can be
large where they matter: a body of 3 bytes against a limit of 2, and one of a single byte that then fails (read ahead, and met again by the
handler or the base transport); four operations of a responding handler (status, two writes, a status too late);
flush, hijack, WriteString, 1xx and panics in threes; every set of stages, with hooks; three requests
that step one counter of size 3 with one of 2 kept; an answer of 3 bytes against a limit of 1, broken off or
ended anywhere; every query at every level, after any change of level; three lines of one goroutine, or one of each of two, about
a value of 3 versions of every kind, which changes anywhere between printing, snapshot and encoding; and the whole path of an ID with three operations per handler (derive, call, query, log),
or one in each of two requests. `budget` and `MaxVersion`, `MaxAnswer` end the model; `CounterSize` stands
for 2^64.

Fairness. `FairSpec` assumes weak fairness of every goroutine that is inside a call and of the
worker: the Go scheduler runs ready goroutines, `RWMutex` grants its lock, `Client.Timeout`
(never zero after `normalizeConfig`) ends a request, timers and the ticker fire. Nobody
has to log, to call `Close`, and no context has to end. `StalledWorkerSpec` drops the worker's
fairness: a collector that is slow or down longer than anyone waits. In GrpcStream the application
receives until it gets an error, which `grpc.ClientStream` asks of it, and an operation that has
failed returns; nobody has to send, and the call does not have to end. In
JobRun a call that was made goes on: no method of a run waits for anything. In `Service` only the goroutine in
`RoundTrip` is fair, once the answer's headers are there: neither server, client nor handler has to do anything.

What the violations show.

* `sink_snapshot_panics`: `enqueue` holds `enqueueMu.RLock` while `slogsnapshot.Record` runs the
  caller's `Error` or `MarshalJSON`. If that panics, `Handle` recovers, and the lock stays read-locked.
  Logging goes on until the first `Close`: it announces the write lock, is never granted it, does not
  look at its context, and every later log call blocks behind it.
* `elastic_clean_close`: in AsyncSink a batch that `Close` canceled is shipped again, and fails only
  for the reasons of `FailureExplained`; not so here. `flush` re-ships a batch that
  `Close` canceled only if `errors.Is(err, context.Canceled)`; a Bulk body cut off by the cancellation
  is wrapped in `permanentError`, which has no `Unwrap`. The batch counts as failed, `Close` returns nil, and
  the records may be stored. (Adding `Unwrap` alone would send answered records twice:
  `AnsweredNotResent` fails for the mutant `CutOff_Unwrapped`.)
* `grpc_logged_status`: `SendMsg` reports the end of any call as io.EOF, which `terminalError` takes for
  success. If the sender meets the end of a failed call first, it is logged as OK.
* `grpc_unary_response`: the terminal operation of a successful client-streaming call is a `RecvMsg`
  that returns nil. `RecvMsg` logs on errors only, so the call is never logged.
* `http_copy`: `io.Copy` asks its target for `ReadFrom`; `responseWriter.ReadFrom` (`nethttp/response_writer.go:52`)
  calls `io.Copy(w, r)`, which asks `w` again. Unless the source has a `WriteTo`, the stack overflows and the
  process ends, where the server's own writer would have sent the response.

Where the properties of `service` stop, because the code does something else and no document decides:

* `ClientUnaffected`, `LoggedAsSent`: `WriteHeader(103)` is taken for the final status and the final one is not forwarded.
* `LoggedAsSent`: a `Flush` before `WriteHeader` (net/http) sends 200 unnoticed; a hijacked connection; Fiber's
  error handler, which answers after the middleware has logged.
* `TroubleIsTold`: a handler that panics is not logged; Fiber does not log a failed request as completed
  when the error stage is off or refused, the other two do.
* `CaptureIsPrefix`: Gin's `WriteString` bypasses the capture.
* `IdsAgree`: `correlation.WithID` alone changes the ID that is sent but not the one that is logged.
* `DeliveredAsPrinted`: a struct is not copied, and a `LogValuer` that resolves to a scalar is not resolved
  (`rec.Clone()`, `snapshot.go:18-19`), so that the worker encodes what they have become. A value that changes between the printing and
  the snapshot (`httpsink/handler.go:31, 33`; the lock may be held up by `Close` in between) reaches the collector as the snapshot
  found it, and standard output as it was before. The snapshot of a group is written into the caller's slice, so that a
  later line shows the old values, on both.
* `OneOfEvery` (run `job_run`): the rate is each run's own, the counter all runs'. Runs of rate 2 that take
  turns with others may meet the counter at odd numbers only, and are then never logged; README.md says no more of sampling than that it is
  disabled by default. What remains true is said of rows: of any `e` completions whose rates divide `e` (the least common
  multiple of all rates, say) one is kept.
* `DbTroubleIsTold`: a query that found no record and is ignored is not reported as slow.

## 4. Proofs

For every set of producers (finite) and closers, every configuration and every answer of the
collector (assumptions `ProducersAssumption`, `NoCloserAssumption`, `ShapesAssumption`,
`RepliesAssumption`, `ConfigAssumption`, the last one what `normalizeConfig` establishes):

`IInv` is inductive. Its parts and why each is needed:

* `TypeOK`; the bounds on the queue and the batch come from `HasRoom` and `Draining`;
* `CloseProgress`: only the goroutine inside `once.Do` moves the flags, in the order of the code,
  hence a cancellation or a closing context implies `closed`;
* `IntakeOver`: no producer is past the closed check once `enqueuesDone` is closed, because the
  write lock is granted only without readers;
* `Draining`: the worker drains only after `enqueuesDone`, and leaves with queue and batch empty;
* `Fifo` and `Counted`: records and counters;
* `ShipProgress`: the requests made, from the attempt and the series;
* `Refusals`: a cancellation that was seen keeps the context in use from sending, so that a refused
  batch is never part of a request.

From it follow `TypeCorrect`, `FifoDelivery`, `DrainedAtClose`, `ClosingContextIsKnown`,
`RequestsAreBounded`, the action properties `IntakeIsOver`, `RefusedIsNotResent` and
`FailuresAreExplained`, and `ImplementsDelivery`: every step of the sink is a step of `Delivery` or
changes nothing of it.

The tallies need more: `Numbered` (a record is its producer and the number of a log call, and the call in
progress is newer than all its producer has had taken in, so no record is accepted twice) and `Acknowledged`
(only settled records are acknowledged, and `sent` is their number). With `Accounted` (whose slack is the number of calls between two counters) they are `Tally`, which every step
preserves where `IInv` holds: a sum over the producers moves by one when one producer moves, and the cardinality of a set of
producers by one when one enters or leaves it. `SentIsAcknowledged` and `CallsAreAccounted` follow.

`NoDeadlock` is the safety behind "every call returns": as long as a log call, a `Close`, an unsettled record or
a worker that should end is left, some goroutine can go on, and a log call that does not wait for room, or a `Close`
before its last select, needs no worker for that. It speaks of guards: `WaitsForRoom`, `WaitsForLock` and `CloseWaits`
say where a caller waits, `WorkerGoesOn` where the worker does not (a request ends by `Client.Timeout`, a pause by its timer). In
the instances of `sink_blocking` and `sink_payloads` they are exactly the negation of ENABLED `Enqueue(p)` and
`CloseStep(c)`, and ENABLED `Worker`. Beside `IInv` it needs
`NobodyLeftBehind`: `stop` is closed before the write lock is asked for, so no holder of the read lock waits for
room by then; while `once` runs some `Close` is inside it, and the others wait for that one; and only a
snapshot that panics leaves a read lock behind, which `NoPanics` excludes (`sink_snapshot_panics` shows what happens then). A
log call behind an announced writer goes on when the writer does, the writer when its readers do
(`PendingGoesOn`), the waiting `Close` calls when the one inside does (`CloseGoesOn`): `NobodyWaitsForEver`, and for the default
mode, where nobody waits for room, `LogNeedsNoWorker` ("Enqueue is non-blocking by default", README.md:130).

`ElasticSinkProofs` carries this over. A step of `ElasticSink` is one of `AsyncSink`, changes nothing of it, or is
`AnswerLost`: an attempt that fails for good although the collector has not refused the batch by its status. That step
keeps `IInv` and `Tally` too, hence `ElasticDelivery` and `ElasticImplementsDelivery`. `ElasticIInv` adds `Reading`: while a body is read
its request is in flight, and a batch that has had a 2xx answer is being read, never waiting to be sent. So
`AnsweredIsNotResent`; and `ElasticRefusedIsNotResent`, as in `AsyncSink`. That step leads back into the main loop, so
it keeps `NobodyLeftBehind` as well: `ElasticNobodyWaits`.

For any set of failure codes and any number of messages, `GrpcStreamProofs` proves the inductive
invariant `IInv` of the client stream (`TypeOK`, `LogShape`: the log is empty, OK or the status, and
empty while the call lives; `ErrShape`: an error under way is io.EOF or the status; `ErrorIsLogged`),
and from it `OneEvent`, `NoFalseFailure` and `NoUnloggedError`. `UnloggedCallsGoOn` is the safety behind `EndIsLogged`: an
ended call that is not logged has a receiver with a step to take, whatever the sender does. The one exception is the
unary response whose answer was received, the call that `grpc_unary_response` shows; `UnaryShape` (such a call ends with OK
only after its one answer, which is waiting or was received) makes the case distinction complete.

For any number of runs, goroutines and counters, any options of each run and any size of the counter,
`JobRunProofs` proves the invariant of the job runs. `OneEnding` (the goroutine that won the
compare-and-swap is the only one on its way to the run's last event, and no such event is in the log yet)
and `NotEnded` give `OneEnd`; `HeldSoFar` (the counts loaded so far, and those there now, are held)
and `CallShape` (how many are loaded at each step) give `CountsOfTheRun`; `RowCounted` (of the
completions whose rates divide `e`, no more were dropped in a row than the counter's remainder by `e`; where that would become 0 the
counter is a multiple of every such rate, and the event is kept; so is a wrap to 0) gives `KeptOfEvery`, on lemmas about
remainders and divisors. `Fresh` says that what is sampled has a rate above one. `ImportantEndsAreKept` is the safety behind `ImportantEndIsLogged`: an end that was slow or failed,
and is one to log that the hook may not drop, is in the log or its call is past the sampler
(`ImportantUnderWay`, preserved beside `IInv`). That such a call then reaches its event is fairness, which
the run `job_run` checks.

For any number of requests, options, handlers, statuses and lengths of bodies, `HttpExchangeProofs` proves
`HttpIInv` of requests in the middleware, one request at a time (`Others`: a step of one leaves the others alone):

* `Mirrors`: the wrapper's writer has what the server's would have without it, and knows when the header is out;
* `Faithful`: what the middleware will say of the response (`Truthful`) is what the client gets, until the event
  is written; then the event says so, also when the server closes the response;
* `Captured`: what is kept of the body is its first `limit` bytes, and is marked as cut as soon as there are more;
* `Told`: no end is told of before there is one, and then once, unless it may be dropped.

From these follow `ClientIsUnaffected`, `EventsAreTrue`, `CapturesArePrefixes` and `RequestsAreTold`.

`ServiceProofs` puts the parts together, with the assumptions the modules state on options, deployments, arrivals and IDs.

* `ServiceIsHttp`: a service implements `HttpSpec`. A step of the service is a step of one request's middleware or handler, whose
  load is drawn from a deployment and so from what `HttpExchange` allows, or changes nothing of it. Everything proved of
  `HttpExchange` holds in a service: `ServedUnaffected`, `ServedAsLogged`, `ServedAndCaptured`.
* `Samplers`: what each of the three samplers has dropped since it kept an event is at most its counter's remainder; only `End`,
  `BaseAnswers` or `Return`, and `Trace` step them, and a step of the whole touches one of them: `OneSuccessIsKept`.
* `RequestBodies` and `CallBodies`: nothing is read of an answer before `RoundTrip` has returned it (`Untouched`), which is
  what makes putting the captured part back right: `BodiesAreWhole`, the failure after the bytes included, on lemmas about splitting and reading a body
  (a reader that has met the end has taken every byte, and the end it met is the connection's). For the same reason
  what the server has sent is all there when `RoundTrip` looks for it: `RoundTripIsFree` (once the answer has ended, or is longer than
  may be logged, `RoundTrip` waits for nothing), the safety behind `TripReturns`.
* `CallIInv`: of each call `CallTyped` (the header is the ID of its context, and every event is stamped with it),
  `CallTold` (no end before the end, then one, with the status of the answer) and `CallShown` (a body is shown only when `RoundTrip` has
  returned, and is the beginning of what the server had sent: it stays so while the server goes on). `OnlyErrorBodies`.
* `DbIInv`: what is told of each goroutine's last query (`QueryTold`). With `CallIInv` and `HttpIInv`: `NoTroubleUntold`; the lemma
  they share is that a sampler keeps every error, every slow call and every status from 400 on.
* `LogIInv`: a printed line shows what its attribute referred to (`Shows`), a queued one refers to a version the log call met, and to the
  printed one if nothing changed, unless the value is a struct or a valuer (`Frozen`); the attribute refers to
  the live value, unless it is a group, and then to nothing newer than a line in progress: `LinesDeliveredAsPrinted`.
* `KnownIInv`: the context of the handler, the one of the call under way or last made and the one of the last query are
  `Carries`: the ID of package correlation and the one in the metadata are equal unless `WithID` alone was used, and the request's
  unless the handler has taken another. The middleware establishes it (`ContextIsKnown`), each way to derive a context
  preserves it (`DeriveKnown`), and calls, queries and lines take the handler's context as it is. `AllFoundUnderId`,
  `SentAndLoggedAlike`.
* `ServiceTypes`: all variables keep their types.

Model-checked only: everything under fairness, `CloseReturns`, `LogReturns`, `WorkerStops`,
`AllSettled`, `CloseHonoursContext`, `EndIsLogged`, `ImportantEndIsLogged`, `TripReturns` and the fairness part of `Delivery` (in
`DeliversAsPromised`). Liveness and ENABLED, which weak fairness speaks of, are out of the prover's reach. Every invariant and every
action property of a passing run is a theorem; of the liveness properties `NoDeadlock`, `UnloggedCallsGoOn`,
`ImportantEndsAreKept` and `RoundTripIsFree` prove that somebody can always go on, and the runs that fairness then gets there.

## 5. Mutants

Every property has a mutated definition that breaks it; the definition named `X_Bug` stands above `X`.

| Property | Mutant | The bug |
| --- | --- | --- |
| TypeOK | `HasRoom_OffByOne` | the queue takes one record more than its size |
| Fifo, ElasticDelivers | `ResetBatch_Forgotten` | the batch is not emptied after a flush |
| Drained, DeliversAsPromised | `DrainMayStart_AtOnce` | draining does not wait for `enqueuesDone` |
| SentIsAcked | `ShipFails_Silently` | a failed ship counts as sent |
| ClosingContextKnown | `FirstStore_Flag` | the flag is stored before the context |
| RequestsBounded | `LastAttempt_OffByOne` | one attempt too many |
| IntakeStaysOver | `LockFree_Always` | `Close` does not wait for the readers |
| RefusedNotResent | `IsRetryable_Always` | a 4xx is retried |
| Accounted | `CountDrop_Forgotten` | a drop is not counted, neither a refused record nor one too large |
| FailureExplained | `MayResend_Never` | a batch canceled by `Close` is failed |
| NoDeadlock, CloseReturns, CloseHonoursContext | `GiveUp_IgnoresStop` | a blocked producer does not watch `stop` |
| LogReturns, WorkerStops | `Refuse_KeepsLock` | an early return without `RUnlock` |
| AllSettled | `FlushDue_OnlyFull` | the ticker flushes full batches only |
| AnsweredNotResent | `CutOff_Unwrapped` | a Bulk body cut off by `Close` counts as a canceled request |
| LoggedOnce | `FirstTime_Always` | no `once` |
| FailureIsReal | `TerminalCode_EofKept` | io.EOF is logged as an Unknown error |
| ErrorIsLogged, EndIsLogged | `Reports_SenderOnly` | `RecvMsg` does not log |
| EndsOnce | `MayEnd_Always` | no compare-and-swap: a run ends again |
| CountsAreHeld | `Loaded_FirstOnly` | `Counts` loads one counter for all |
| OneOfEvery | `Kept_FirstOfEvery` | n%every == 1: the wrap makes a row too long |
| ImportantEndIsLogged | `Important_Never` | slow completions are sampled |
| TypeOK (Service) | `Bumped_Unbounded` | the counter grows past its width |
| ClientUnaffected | `RwWriteHeader_NotForwarded` | the status stays in the wrapper |
| BodiesArrive | `CaptureRequestBody_Swallows` | the failure met while the body is read ahead is not met again |
| LoggedAsSent | `RwWrite_CountsGiven` | short writes count in full |
| CaptureIsPrefix | `RwCapture_Refill` | a body that was cut is filled up later |
| TroublesTold | `Counted_Everything` | errors are sampled like successes |
| SuccessesKept | `CounterAfter_Kept` | only kept events step the counter |
| ErrorBodiesOnly | `AnswerBody_AnyStatus` | the body of a success is logged |
| TripReturns | `EnoughRead_WaitsForEnd` | the answer is read to its end |
| DeliveredAsPrinted | `NeedsSnapshot_TopLevelOnly` | maps inside groups are not copied |
| FoundUnderId | `ContextFor_NotStored` | the ID is in the metadata only |
| IdsAgree | `WithCorrelationID_MetaOnly` | `WithCorrelationID` forgets package correlation |

## 6. Not modelled

* `errorsx`, `redact`, the tables of user agents, addresses, headers and queries in `httplog`: functions from
  data to data without state; what they do to a string is wording to every property here.
* Options and their defaults (`config.go`, `options.go`, presets): the models start from normalized options, and their
  assumptions say what normalization guarantees.
* Unary and server interceptors of `grpcx`, `Push`, `Info`/`Warn`/`Error` of gormx: straight-line code.
* Attributes and groups of derived loggers, attributes in contexts, levels, the logger's redactor.
* The product `RetryBackoff * (1 << attempt)` of `worker.go:91`: time is left out of the sinks.
* `OnError` callbacks that log through their own sink.

## 7. Plan

1. `ElasticSink`: the tallies (`Accounted`, `SentIsAcked`) stated of the Bulk sink in a run, as the proof already has them.
2. `Backoff`: the wrapping product of `worker.go:91` against the intended bound.
3. `AsyncSink`: an `OnError` callback that logs through its own sink.
4. `LogPath`: attributes of derived loggers.

New questions join the runs there are where they share an instance (the sinks' runs and `service` carry several
properties each), so that the set of runs stays small enough to be checked on every change.
