------------------------------ MODULE AsyncSink ------------------------------
(***************************************************************************)
(* The asynchronous delivery middleware of go-obskit, translated from      *)
(* src/httpsink (middleware.go, worker.go, handler.go); elastic and        *)
(* lokisink repeat the same goroutines, locks and counters.                *)
(*                                                                         *)
(* Application goroutines (Producers) log through handler.Handle, which    *)
(* calls enqueue under the read half of enqueueMu.  One worker goroutine   *)
(* (run) takes records from the bounded channel, groups them in a batch    *)
(* and ships every batch with retries.  Closers call Close(ctx), each with *)
(* a context of its own, concurrently with everything else.                *)
(*                                                                         *)
(* A step is what one goroutine does between two points at which another   *)
(* one can tell: a lock or channel operation, an atomic load or store, a   *)
(* request or its answer.  The write lock announced by sync.RWMutex.Lock   *)
(* stops new readers before it is granted, as in the Go runtime.           *)
(*                                                                         *)
(* A definition named X_Bug, above X, is X with a bug a programmer could   *)
(* write; no specification uses it, and README.md lists what each breaks.  *)
(***************************************************************************)
EXTENDS Naturals, Sequences, SequencesExt, FiniteSets

CONSTANTS
  Producers,         \* goroutines that log
  Closers,           \* goroutines that call Close, once each
  NoCloser,          \* closeCtx before the first Close
  MaxLogs,           \* bound: log calls per producer
  Shapes,            \* what a log call can carry (see Shape)
  Replies,           \* what the collector and the transport may answer
  QueueSize, BatchSize, MaxRetries, MaxRecordBytes, MaxBatchBytes,  \* Config
  BlockOnQueueFull   \* Config: enqueue waits for room

(* What the middleware can tell of a record: its size by the estimate of    *)
(* slogsnapshot.Record, its length in the payload, whether it can be        *)
(* encoded (slog.Any of a channel cannot), and whether taking the snapshot  *)
(* panics (Error() of a typed nil pointer, a MarshalJSON that panics).      *)
Shape == [size: Nat, bytes: Nat, encodes: BOOLEAN, panics: BOOLEAN]

(* "retryable": HTTP 429 or 5xx, or a transport error (Client.Timeout       *)
(* included); "permanent": every other status outside 200..299.             *)
ReplyKinds == {"ok", "retryable", "permanent"}

ASSUME ProducersAssumption == IsFiniteSet(Producers)
ASSUME NoCloserAssumption == NoCloser \notin Closers
ASSUME ShapesAssumption   == Shapes \subseteq Shape
ASSUME RepliesAssumption  == Replies \subseteq ReplyKinds
(* normalizeConfig replaces every non-positive value by a default.          *)
ASSUME ConfigAssumption ==
  /\ QueueSize \in Nat \ {0} /\ BatchSize \in Nat \ {0}
  /\ MaxRetries \in Nat /\ MaxLogs \in Nat
  /\ MaxRecordBytes \in Nat \ {0} /\ MaxBatchBytes \in Nat \ {0}
  /\ BlockOnQueueFull \in BOOLEAN

VARIABLES
  \* enqueue
  ppc, rec, calls,   \* per producer: step, record in hand, log calls begun
  leaks,             \* read locks whose holder has returned without RUnlock
  queue,             \* the channel m.queue
  \* Close
  cpc,               \* per closer: step of Close
  once,              \* m.once: "fresh", "running" or "done"
  ctx,               \* per closer: its context, "live", "canceled", "expired"
  closed, canceled, stop, enqueuesDone, closeCtx,
  \* run, ship
  wpc, back,         \* step of the worker; where flush returns to
  batch, attempt, shipCtx, second, sawCancel,
  \* Stats
  enqueued, dropped, oversized, sent, failed, retried,
  \* history: records taken in and settled, in order, and those a 2xx answered;
  \* requests made for this batch, and whether the last one shipped was refused
  accepted, settled, acked, tries, refused

producerVars == <<ppc, rec, calls, leaks>>
closeFlags   == <<once, closeCtx, closed, canceled, stop, enqueuesDone>>
closerVars   == <<cpc, closeFlags>>
shipVars     == <<attempt, shipCtx, second, sawCancel, tries>>
workerVars   == <<wpc, back, batch, shipVars>>
intakeStats  == <<enqueued, dropped, oversized>>
outcomeVars  == <<sent, failed, settled>>
deliveryVars == <<retried, acked, refused>>
vars == <<producerVars, queue, closerVars, ctx, workerVars, intakeStats,
          outcomeVars, deliveryVars, accepted>>

Records  == [from: Producers, n: 1..MaxLogs, shape: Shapes]
NoRecord == [from |-> "none", n |-> 0, shape |-> "none"]

(* The worker has left run: the deferred close(m.done) has been executed.   *)
done == wpc = "exit"

-----------------------------------------------------------------------------
Init ==
  /\ ppc = [p \in Producers |-> "idle"]
  /\ rec = [p \in Producers |-> NoRecord]
  /\ calls = [p \in Producers |-> 0]
  /\ leaks = 0 /\ queue = <<>>
  /\ cpc = [c \in Closers |-> "out"] /\ once = "fresh"
  /\ ctx = [c \in Closers |-> "live"]
  /\ closed = FALSE /\ canceled = FALSE /\ stop = FALSE
  /\ enqueuesDone = FALSE /\ closeCtx = NoCloser
  /\ wpc = "select" /\ back = "select" /\ batch = <<>>
  /\ attempt = 0 /\ shipCtx = "own" /\ second = FALSE /\ sawCancel = FALSE
  /\ tries = 0
  /\ enqueued = 0 /\ dropped = 0 /\ oversized = 0
  /\ sent = 0 /\ failed = 0 /\ retried = 0
  /\ accepted = <<>> /\ settled = <<>>
  /\ acked = {} /\ refused = FALSE

-----------------------------------------------------------------------------
(* enqueue                                                                  *)

Readers ==
  {p \in Producers : ppc[p] \in {"locked", "oversized", "send", "count"}}

UnchangedByEnqueue ==
  UNCHANGED <<calls, closerVars, ctx, workerVars, outcomeVars, deliveryVars>>

(* Go from one step of enqueue to another, touching no counter.             *)
Advance(p, from, to) ==
  /\ ppc[p] = from /\ ppc' = [ppc EXCEPT ![p] = to]
  /\ UNCHANGED <<rec, leaks, intakeStats>>
  /\ UnchangedByEnqueue

(* RUnlock and return, or, after a panic, only return.                      *)
Return(p) ==
  /\ ppc' = [ppc EXCEPT ![p] = "idle"] /\ rec' = [rec EXCEPT ![p] = NoRecord]
  /\ UNCHANGED <<queue, accepted>>
  /\ UnchangedByEnqueue

(* handler.Handle: next.Handle has run, enqueue is called with the record.  *)
Log(p) ==
  /\ ppc[p] = "idle" /\ calls[p] < MaxLogs
  /\ ppc' = [ppc EXCEPT ![p] = "want"]
  /\ calls' = [calls EXCEPT ![p] = @ + 1]
  /\ \E s \in Shapes :
       rec' = [rec EXCEPT ![p] = [from |-> p, n |-> calls[p] + 1, shape |-> s]]
  /\ UNCHANGED <<leaks, queue, closerVars, ctx, workerVars, intakeStats,
                 outcomeVars, deliveryVars, accepted>>

(* RLock is granted unless a writer waits for the lock.                     *)
RLock(p) ==
  /\ \A c \in Closers : cpc[c] # "pending"
  /\ Advance(p, "want", "locked") /\ UNCHANGED <<queue, accepted>>

CountDrop_Forgotten == UNCHANGED dropped
CountDrop == dropped' = dropped + 1

(* Mutant: the early return without RUnlock.                                *)
Refuse_KeepsLock(p) ==
  /\ ppc[p] = "locked" /\ closed
  /\ CountDrop /\ leaks' = leaks + 1 /\ Return(p)
  /\ UNCHANGED <<enqueued, oversized>>

(* The closed flag is seen: the record is dropped.                          *)
Refuse(p) ==
  /\ ppc[p] = "locked" /\ closed
  /\ CountDrop /\ Return(p)
  /\ UNCHANGED <<leaks, enqueued, oversized>>

(* slogsnapshot.Record panics: Handle recovers, nothing runs RUnlock.       *)
SnapshotPanics(p) ==
  /\ ppc[p] = "locked" /\ ~closed /\ rec[p].shape.panics
  /\ leaks' = leaks + 1 /\ Return(p)
  /\ UNCHANGED intakeStats

Oversized(r) == r.shape.size > MaxRecordBytes

(* Two counters for one record, one after the other: Stats takes no lock.   *)
CountOversized(p) ==
  /\ ppc[p] = "locked" /\ ~closed
  /\ ~rec[p].shape.panics /\ Oversized(rec[p])
  /\ oversized' = oversized + 1
  /\ ppc' = [ppc EXCEPT ![p] = "oversized"]
  /\ UNCHANGED <<rec, leaks, queue, accepted, enqueued, dropped>>
  /\ UnchangedByEnqueue

DropOversized(p) ==
  /\ ppc[p] = "oversized"
  /\ CountDrop /\ Return(p)
  /\ UNCHANGED <<leaks, enqueued, oversized>>

Snapshot(p) ==
  /\ Advance(p, "locked", "send") /\ UNCHANGED <<queue, accepted>>
  /\ ~closed /\ ~rec[p].shape.panics /\ ~Oversized(rec[p])

HasRoom_OffByOne == Len(queue) <= QueueSize
HasRoom == Len(queue) < QueueSize

(* m.queue <- r; the counter is incremented by a later step.                *)
Send(p) ==
  /\ HasRoom
  /\ queue' = Append(queue, rec[p]) /\ accepted' = Append(accepted, rec[p])
  /\ Advance(p, "send", "count")

(* The select gives up: at once on a full queue, or on stop when blocking   *)
(* (stop and room may both be ready, and either is then chosen).            *)
GiveUp_IgnoresStop == ~BlockOnQueueFull /\ ~HasRoom
GiveUp == IF BlockOnQueueFull THEN stop ELSE ~HasRoom

DropFull(p) ==
  /\ ppc[p] = "send" /\ GiveUp
  /\ CountDrop /\ Return(p)
  /\ UNCHANGED <<leaks, enqueued, oversized>>

Count(p) ==
  /\ ppc[p] = "count"
  /\ enqueued' = enqueued + 1 /\ Return(p)
  /\ UNCHANGED <<leaks, dropped, oversized>>

Enqueue(p) ==
  \/ RLock(p) \/ Refuse(p) \/ SnapshotPanics(p)
  \/ CountOversized(p) \/ DropOversized(p)
  \/ Snapshot(p) \/ Send(p) \/ DropFull(p) \/ Count(p)

-----------------------------------------------------------------------------
(* Close                                                                    *)

(* Go from one step of Close to another.                                    *)
Goto(c, from, to) ==
  /\ cpc[c] = from /\ cpc' = [cpc EXCEPT ![c] = to]
  /\ UNCHANGED <<producerVars, queue, ctx, workerVars, intakeStats,
                 outcomeVars, deliveryVars, accepted>>

Close(c) == Goto(c, "out", "once") /\ UNCHANGED closeFlags

(* closeCtx is set before the flag that tells the worker to use it.         *)
FirstStore_Flag(c) == closed' = TRUE /\ UNCHANGED closeCtx
FirstStore(c) == closeCtx' = c /\ UNCHANGED closed

(* once.Do: the first caller runs the body; a later one waits for its end.  *)
EnterOnce(c) ==
  /\ once = "fresh" /\ once' = "running" /\ FirstStore(c)
  /\ Goto(c, "once", "flag") /\ UNCHANGED <<canceled, stop, enqueuesDone>>

PassOnce(c) ==
  once = "done" /\ Goto(c, "once", "wait") /\ UNCHANGED closeFlags

SetClosed(c) ==
  /\ closed' = TRUE /\ Goto(c, "flag", "cancel")
  /\ UNCHANGED <<once, closeCtx, canceled, stop, enqueuesDone>>

Cancel(c) ==
  /\ canceled' = TRUE /\ Goto(c, "cancel", "stop")
  /\ UNCHANGED <<once, closeCtx, closed, stop, enqueuesDone>>

CloseStop(c) ==
  /\ stop' = TRUE /\ Goto(c, "stop", "lock")
  /\ UNCHANGED <<once, closeCtx, closed, canceled, enqueuesDone>>

(* Lock: the writer announces itself, and new readers wait from now on.     *)
AnnounceLock(c) == Goto(c, "lock", "pending") /\ UNCHANGED closeFlags

(* The lock is granted when the last reader has left.                       *)
LockFree_Always == TRUE
LockFree == Readers = {} /\ leaks = 0

EndIntake(c) ==
  /\ LockFree /\ enqueuesDone' = TRUE /\ once' = "done"
  /\ Goto(c, "pending", "wait") /\ UNCHANGED <<closeCtx, closed, canceled, stop>>

(* The last select: with both channels ready either answer is returned.     *)
ReturnNil(c) == done /\ Goto(c, "wait", "closed") /\ UNCHANGED closeFlags

ReturnCtxErr(c) ==
  ctx[c] # "live" /\ Goto(c, "wait", "gaveup") /\ UNCHANGED closeFlags

CloseStep(c) ==
  \/ EnterOnce(c) \/ PassOnce(c) \/ SetClosed(c) \/ Cancel(c) \/ CloseStop(c)
  \/ AnnounceLock(c) \/ EndIntake(c) \/ ReturnNil(c) \/ ReturnCtxErr(c)

(* The context given to Close ends: its deadline passes or it is canceled.  *)
CtxEnds(c) ==
  /\ ctx[c] = "live"
  /\ \E how \in {"canceled", "expired"} : ctx' = [ctx EXCEPT ![c] = how]
  /\ UNCHANGED <<producerVars, queue, closerVars, workerVars, intakeStats,
                 outcomeVars, deliveryVars, accepted>>

-----------------------------------------------------------------------------
(* run                                                                      *)

UnchangedByWorker == UNCHANGED <<producerVars, closerVars, ctx, intakeStats, accepted>>

(* A step of run outside flush: no record is shipped or counted.            *)
OutsideFlush ==
  UNCHANGED <<shipVars, outcomeVars, deliveryVars>> /\ UnchangedByWorker

SelectStop ==
  /\ wpc = "select" /\ stop /\ wpc' = "drainwait"
  /\ UNCHANGED <<queue, back, batch>> /\ OutsideFlush

(* <-m.enqueuesDone                                                         *)
DrainMayStart_AtOnce == TRUE
DrainMayStart == enqueuesDone

StartDrain ==
  /\ wpc = "drainwait" /\ DrainMayStart /\ wpc' = "drain"
  /\ UNCHANGED <<queue, back, batch>> /\ OutsideFlush

(* Call flush and go on at `next` afterwards.                               *)
CallFlush(next) == wpc' = "flush" /\ back' = next

(* In the main loop or while draining; a full batch is flushed.             *)
Receive ==
  /\ wpc \in {"select", "drain"} /\ queue # <<>>
  /\ batch' = Append(batch, Head(queue)) /\ queue' = Tail(queue)
  /\ IF Len(batch') >= BatchSize THEN CallFlush(wpc) ELSE UNCHANGED <<wpc, back>>
  /\ OutsideFlush

FlushDue_OnlyFull == Len(batch) >= BatchSize
FlushDue == batch # <<>>

(* The flush ticker (a tick with an empty batch changes nothing).           *)
Tick ==
  /\ wpc = "select" /\ FlushDue /\ CallFlush("select")
  /\ UNCHANGED <<queue, batch>> /\ OutsideFlush

(* Draining finds the queue empty: the last flush, then run returns.        *)
EndDrain ==
  /\ wpc = "drain" /\ queue = <<>>
  /\ IF batch # <<>> THEN CallFlush("exit") ELSE wpc' = "exit" /\ UNCHANGED back
  /\ UNCHANGED <<queue, batch>> /\ OutsideFlush

-----------------------------------------------------------------------------
(* flush and ship                                                           *)

PayloadBytes(b) == FoldLeft(LAMBDA sum, r : sum + r.shape.bytes, 0, b)

(* marshalBatch succeeds and the payload is within MaxBatchBytes.           *)
Shippable(b) ==
  (\A i \in DOMAIN b : b[i].shape.encodes) /\ PayloadBytes(b) <= MaxBatchBytes

ShipContext == IF closed THEN "close" ELSE "own"

(* ctx.Err() of the context the current ship uses.                          *)
CtxErr == IF shipCtx = "own" THEN IF canceled THEN "canceled" ELSE "live"
                             ELSE ctx[closeCtx]

ResetBatch_Forgotten == UNCHANGED batch
ResetBatch == batch' = <<>>

(* The batch is counted, one way or the other, and emptied.                 *)
Settle(ok) ==
  /\ sent' = IF ok THEN sent + Len(batch) ELSE sent
  /\ failed' = IF ok THEN failed ELSE failed + Len(batch)
  /\ settled' = settled \o batch
  /\ ResetBatch /\ wpc' = back
  /\ attempt' = 0 /\ shipCtx' = "own" /\ second' = FALSE /\ sawCancel' = FALSE
  /\ tries' = 0 /\ UNCHANGED back

(* flush calls ship(m.shipContext(), batch); a payload that cannot be built *)
(* or is too large fails the whole batch.                                   *)
StartShip ==
  /\ wpc = "flush"
  /\ IF Shippable(batch)
       THEN /\ wpc' = "request" /\ shipCtx' = ShipContext
            /\ UNCHANGED <<back, batch, attempt, second, sawCancel, tries, outcomeVars>>
       ELSE Settle(FALSE)
  /\ refused' = FALSE
  /\ UNCHANGED <<queue, retried, acked>> /\ UnchangedByWorker

MayResend_Never(cancelSeen) == FALSE
MayResend(cancelSeen) == cancelSeen /\ closed /\ ~second

Resend ==
  /\ wpc' = "request" /\ attempt' = 0 /\ shipCtx' = "close"
  /\ second' = TRUE /\ sawCancel' = FALSE
  /\ UNCHANGED <<back, batch, tries, outcomeVars>>

(* ship returns an error.  Canceled while closing, the batch is shipped     *)
(* once more, with the context of Close; otherwise it has failed.           *)
ShipFails_Silently(cancelSeen) == IF MayResend(cancelSeen) THEN Resend ELSE Settle(TRUE)
ShipFails(cancelSeen) == IF MayResend(cancelSeen) THEN Resend ELSE Settle(FALSE)

LastAttempt_OffByOne == attempt = MaxRetries + 1
LastAttempt == attempt = MaxRetries

IsRetryable_Always(reply) == TRUE
IsRetryable(reply) == reply # "permanent"

(* After a failed attempt: give up, or count a retry and wait.              *)
AttemptFails(reply, cancelSeen) ==
  IF LastAttempt \/ ~IsRetryable(reply)
    THEN ShipFails(cancelSeen) /\ UNCHANGED retried
    ELSE /\ retried' = retried + 1
         /\ wpc' = "backoff" /\ sawCancel' = cancelSeen
         /\ UNCHANGED <<back, batch, attempt, shipCtx, second, tries, outcomeVars>>

(* HTTPClient.Do: a live context lets the request out,                      *)
Request ==
  /\ wpc = "request" /\ CtxErr = "live"
  /\ wpc' = "inflight" /\ tries' = tries + 1
  /\ UNCHANGED <<queue, back, batch, attempt, shipCtx, second, sawCancel,
                 outcomeVars, deliveryVars>>
  /\ UnchangedByWorker

(* an ended one makes it fail, before or during the request, with an error  *)
(* that is not a permanentError.                                            *)
RequestCanceled ==
  /\ wpc \in {"request", "inflight"} /\ CtxErr # "live"
  /\ AttemptFails("ctx", sawCancel \/ CtxErr = "canceled")
  /\ UNCHANGED <<queue, acked, refused>> /\ UnchangedByWorker

(* 2xx: the collector has the batch.                                        *)
ReplyOk ==
  /\ wpc = "inflight" /\ "ok" \in Replies
  /\ acked' = acked \union ToSet(batch) /\ Settle(TRUE)
  /\ UNCHANGED <<queue, retried, refused>> /\ UnchangedByWorker

(* Any other answer, or none: the batch may have been stored all the same.  *)
ReplyError(reply) ==
  /\ wpc = "inflight" /\ reply \in Replies \ {"ok"}
  /\ refused' = (refused \/ reply = "permanent")
  /\ AttemptFails(reply, sawCancel)
  /\ UNCHANGED <<queue, acked>> /\ UnchangedByWorker

(* waitRetry: the timer fires, or the context ends and ship returns.        *)
BackoffEnds ==
  /\ wpc = "backoff" /\ wpc' = "request" /\ attempt' = attempt + 1
  /\ UNCHANGED <<queue, back, batch, shipCtx, second, sawCancel, tries,
                 outcomeVars, deliveryVars>>
  /\ UnchangedByWorker

BackoffCanceled ==
  /\ wpc = "backoff" /\ CtxErr # "live"
  /\ ShipFails(sawCancel \/ CtxErr = "canceled")
  /\ UNCHANGED <<queue, deliveryVars>> /\ UnchangedByWorker

Worker ==
  \/ SelectStop \/ StartDrain \/ Receive \/ Tick \/ EndDrain \/ StartShip
  \/ Request \/ RequestCanceled \/ ReplyOk
  \/ (\E reply \in ReplyKinds : ReplyError(reply))
  \/ BackoffEnds \/ BackoffCanceled

-----------------------------------------------------------------------------
(* Nothing is left to do: every Close and every log call has returned.      *)
Finished ==
  /\ \A c \in Closers : cpc[c] \in {"closed", "gaveup"}
  /\ \A p \in Producers : ppc[p] = "idle" /\ calls[p] = MaxLogs
  /\ done
  /\ UNCHANGED vars

Next ==
  \/ \E p \in Producers : Log(p) \/ Enqueue(p)
  \/ \E c \in Closers : Close(c) \/ CloseStep(c) \/ CtxEnds(c)
  \/ Worker
  \/ Finished

Spec == Init /\ [][Next]_vars

(* Goroutines are scheduled, granted locks are taken, requests end by       *)
(* Client.Timeout, timers and tickers fire.  Nobody has to log or to call   *)
(* Close, and no context has to end.                                        *)
CallersFair ==
  /\ \A p \in Producers : WF_vars(Enqueue(p))
  /\ \A c \in Closers : WF_vars(CloseStep(c))

FairSpec == Spec /\ CallersFair /\ WF_vars(Worker)

(* The worker may stop for good at any step: a collector that is down or    *)
(* slow for longer than anyone waits.                                       *)
StalledWorkerSpec == Spec /\ CallersFair
=============================================================================
