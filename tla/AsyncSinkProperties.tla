------------------------- MODULE AsyncSinkProperties -------------------------
(***************************************************************************)
(* What the delivery middleware promises: the statements of the README's   *)
(* "Delivery behavior" list and of the tests of httpsink, over every       *)
(* interleaving of log calls, Close calls, the worker and the collector.   *)
(***************************************************************************)
EXTENDS AsyncSink

(* A step of the producer, the closer and the worker.                       *)
ProducerSteps == {"idle", "want", "locked", "oversized", "send", "count"}
CloserSteps == {"out", "once", "flag", "cancel", "stop", "lock", "pending",
                "wait", "closed", "gaveup"}
WorkerSteps == {"select", "drainwait", "drain", "flush", "request", "inflight",
                "backoff", "exit"}

(* Every variable has its type.  The channel never holds more than          *)
(* QueueSize records and the worker never more than BatchSize: "Queue and   *)
(* batch count are bounded".                                                *)
TypeOK ==
  /\ ppc \in [Producers -> ProducerSteps]
  /\ rec \in [Producers -> Records \union {NoRecord}]
  /\ \A p \in Producers : (ppc[p] # "idle") => rec[p] \in Records
  /\ calls \in [Producers -> 0..MaxLogs]
  /\ leaks \in Nat
  /\ queue \in Seq(Records) /\ Len(queue) <= QueueSize
  /\ cpc \in [Closers -> CloserSteps]
  /\ once \in {"fresh", "running", "done"}
  /\ ctx \in [Closers -> {"live", "canceled", "expired"}]
  /\ closed \in BOOLEAN /\ canceled \in BOOLEAN
  /\ stop \in BOOLEAN /\ enqueuesDone \in BOOLEAN
  /\ closeCtx \in Closers \union {NoCloser}
  /\ wpc \in WorkerSteps /\ back \in {"select", "drain", "exit"}
  /\ batch \in Seq(Records) /\ Len(batch) <= BatchSize
  /\ attempt \in Nat
  /\ shipCtx \in {"own", "close"}
  /\ second \in BOOLEAN /\ sawCancel \in BOOLEAN
  /\ enqueued \in Nat /\ dropped \in Nat /\ oversized \in Nat
  /\ sent \in Nat /\ failed \in Nat /\ retried \in Nat
  /\ accepted \in Seq(Records) /\ settled \in Seq(Records)
  /\ acked \subseteq Records
  /\ tries \in Nat /\ refused \in BOOLEAN

(* Nothing is lost, duplicated or reordered between enqueue and the counters: *)
(* the records taken in are those counted as sent or failed, then the batch,  *)
(* then the queue, in the order of intake.                                    *)
Fifo == accepted = settled \o batch \o queue

Counting == {p \in Producers : ppc[p] = "count"}
Dropping == {p \in Producers : ppc[p] = "oversized"}
InCall   == {p \in Producers : ppc[p] # "idle"}
CallSet   == {k \in Producers \X (1..MaxLogs) : k[2] <= calls[k[1]]}
CallsMade == Cardinality(CallSet)

(* Every log call is accounted for by exactly one of Enqueued, Dropped, a    *)
(* panic in the snapshot, or being still in progress; Enqueued lags behind   *)
(* the channel only by the calls between their send and their counter, and   *)
(* Oversized, a part of Dropped, is ahead of it at most by the calls between *)
(* those two counters.                                                       *)
Accounted ==
  /\ CallsMade = enqueued + dropped + leaks + Cardinality(InCall)
  /\ Len(accepted) = enqueued + Cardinality(Counting)
  /\ sent + failed = Len(settled)
  /\ oversized <= dropped + Cardinality(Dropping)

(* "Close(ctx) ... flushes accepted records": when the worker has returned,  *)
(* and whenever a Close has returned nil, every record ever taken in has     *)
(* been counted as sent or failed and the counters agree.                    *)
Drained ==
  (done \/ \E c \in Closers : cpc[c] = "closed") =>
    /\ settled = accepted /\ batch = <<>> /\ queue = <<>>
    /\ enqueued = sent + failed

(* "Close(ctx) ... flushes accepted records, cancels in-flight work": while   *)
(* no context given to Close has ended, a collector that answers every       *)
(* request with 2xx gets every record, and none is counted as failed, in     *)
(* spite of the request that Close cancels.                                  *)
CleanClose == (\A c \in Closers : ctx[c] = "live") => failed = 0

(* A log call waits for room in the queue, or behind an announced writer.    *)
WaitsForRoom(p) == ppc[p] = "send" /\ ~HasRoom /\ ~GiveUp
WaitsForLock(p) == ppc[p] = "want" /\ \E c \in Closers : cpc[c] = "pending"

(* A Close waits inside once.Do, for the readers, or in its last select.     *)
InClose == {c \in Closers : cpc[c] \notin {"out", "closed", "gaveup"}}
AtLastSelect(c) == cpc[c] = "wait" /\ ctx[c] = "live"
CloseWaits(c) ==
  \/ cpc[c] = "once" /\ once = "running"
  \/ cpc[c] = "pending" /\ ~LockFree
  \/ AtLastSelect(c) /\ ~done

CallerGoesOn ==
  \/ \E p \in InCall : ~WaitsForRoom(p) /\ ~WaitsForLock(p)
  \/ \E c \in InClose : ~CloseWaits(c)

(* The worker waits for nobody but the channels of its selects.  (Requests   *)
(* end by Client.Timeout, waits between them by their timer.)                *)
WorkerGoesOn ==
  /\ ~done
  /\ wpc = "select" => stop \/ queue # <<>> \/ FlushDue
  /\ wpc = "drainwait" => DrainMayStart

NoPanics == \A s \in Shapes : ~s.panics

(* The queue, enqueueMu, once.Do, stop and enqueuesDone never make all wait  *)
(* for each other, and no record waits for another one to come, unless a     *)
(* snapshot panics.  A log call without room and a Close at its last select  *)
(* may need the worker; every other call, and so each log call of the        *)
(* default mode, only needs other calls to go on.                            *)
NoDeadlock ==
  NoPanics =>
    /\ (\E p \in InCall : ~WaitsForRoom(p)) \/ (\E c \in InClose : ~AtLastSelect(c))
         => CallerGoesOn
    /\ InCall # {} \/ InClose # {} \/ settled # accepted \/ (closed /\ ~done)
         => CallerGoesOn \/ WorkerGoesOn

(* Sent counts exactly the records a 2xx answer acknowledged, each once.      *)
SentIsAcked == sent = Cardinality(acked)

(* The worker never ships with a closing context that is not there yet:      *)
(* shipContext returns m.closeCtx as soon as it sees closed.                 *)
ClosingContextKnown == closed => closeCtx # NoCloser

(* One batch costs the collector at most MaxRetries + 1 requests, twice when *)
(* Close cancels the first series.                                           *)
RequestsBounded == tries <= 2 * (MaxRetries + 1)

-----------------------------------------------------------------------------
(* The inductive invariant.                                                  *)

Body == {"flag", "cancel", "stop", "lock", "pending"}

(* Only the goroutine inside once.Do moves the flags, in the order of Close. *)
CloseProgress ==
  /\ \A c \in Closers :
       /\ cpc[c] \in Body => once = "running" /\ closeCtx = c
       /\ cpc[c] \in Body \ {"flag"} => closed
       /\ cpc[c] \in {"wait", "closed", "gaveup"} => once = "done"
       /\ cpc[c] = "closed" => done
  /\ once # "fresh" => closeCtx # NoCloser
  /\ once = "fresh" => ~closed
  /\ (canceled \/ stop \/ enqueuesDone) => closed
  /\ enqueuesDone <=> once = "done"

(* No log call is past its closed check once enqueuesDone is closed.         *)
IntakeOver ==
  enqueuesDone => \A p \in Producers : ppc[p] \notin {"send", "count"}

Shipping == wpc \in {"flush", "request", "inflight", "backoff"}

(* Draining starts after the last intake and ends with nothing left.         *)
Draining ==
  /\ ~Shipping => Len(batch) < BatchSize
  /\ Shipping => batch # <<>>
  /\ (wpc = "drain" \/ (Shipping /\ back # "select") \/ done) => enqueuesDone
  /\ (done \/ (Shipping /\ back = "exit")) => queue = <<>>
  /\ done => batch = <<>>

(* The counters agree with the records they count.                           *)
Counted ==
  /\ Len(accepted) = enqueued + Cardinality(Counting)
  /\ sent + failed = Len(settled)

(* The requests already made, from the attempt and the series it is in.      *)
Spent == IF second THEN MaxRetries + 1 ELSE 0

ShipProgress ==
  /\ attempt <= MaxRetries
  /\ second => shipCtx = "close"
  /\ shipCtx = "close" => closed
  /\ sawCancel => closed
  /\ wpc = "request" => tries <= Spent + attempt
  /\ wpc \in {"inflight", "backoff"} => tries <= Spent + attempt + 1
  /\ wpc = "backoff" => attempt < MaxRetries
  /\ wpc \notin {"request", "inflight", "backoff"} =>
       tries = 0 /\ attempt = 0 /\ ~second /\ ~sawCancel

(* A cancellation once seen keeps the context from sending, and what the     *)
(* collector refused is on its way to the counters.                          *)
Refusals ==
  /\ wpc = "inflight" => ~sawCancel
  /\ wpc \in {"request", "backoff"} /\ sawCancel => CtxErr # "live"
  /\ wpc \in {"request", "inflight", "backoff"} => ~refused

(* What every step preserves.                                                *)
IInv ==
  /\ TypeOK /\ CloseProgress /\ IntakeOver /\ Draining
  /\ Fifo /\ Counted /\ ShipProgress /\ Refusals

(* Close has closed stop before it asks for the lock, some Close is inside   *)
(* once.Do while it runs, and only a panic leaves a read lock behind.        *)
NobodyLeftBehind ==
  /\ \A c \in Closers : cpc[c] \in {"lock", "pending"} => stop
  /\ once = "running" => \E c \in Closers : cpc[c] \in Body
  /\ enqueuesDone \/ wpc = "drainwait" => stop
  /\ NoPanics => leaks = 0

(* A record is known by its producer and the number of the log call, and the *)
(* call in progress is newer than every record its producer has had taken in. *)
Numbered ==
  /\ \A p \in Producers : (ppc[p] # "idle") => rec[p].from = p /\ rec[p].n = calls[p]
  /\ \A i \in 1..Len(accepted) : LET r == accepted[i] IN
       /\ r.n <= calls[r.from]
       /\ ppc[r.from] \in {"want", "locked", "oversized", "send"} => r.n < calls[r.from]
  /\ \A i, j \in 1..Len(accepted) : accepted[i] = accepted[j] => i = j

(* Only settled records are acknowledged, and Sent is their number.          *)
Acknowledged ==
  /\ \A r \in acked : \E i \in 1..Len(settled) : settled[i] = r
  /\ IsFiniteSet(acked) /\ SentIsAcked

(* With IInv, what every step preserves of the tallies.                      *)
Tally == Numbered /\ Acknowledged /\ Accounted

-----------------------------------------------------------------------------
(* "stops intake": once enqueuesDone is closed no record enters the queue,   *)
(* whatever log calls had already passed the closed check.                   *)
IntakeStaysOver == [][enqueuesDone => accepted' = accepted]_vars

(* "HTTP 4xx responses are permanent failures": a batch the collector has    *)
(* refused is never part of another request, not even when Close re-ships.   *)
RefusedNotResent == [][tries' > tries => ~refused]_vars

(* Canceling in-flight work does not lose it: a batch is failed only because *)
(* it cannot be built, the collector refused it, its attempts are used up    *)
(* without the cancellation, or the context given to Close has ended.        *)
FailureExplained ==
  [][failed' > failed =>
       \/ ~Shippable(batch)
       \/ refused'
       \/ attempt = MaxRetries /\ (shipCtx = "own" => ~sawCancel)
       \/ closed /\ ctx[closeCtx] # "live"]_vars

Returned(c) == cpc[c] \in {"closed", "gaveup"}

(* Every Close returns.                                                      *)
CloseReturns == \A c \in Closers : (cpc[c] # "out") ~> Returned(c)

(* Every log call returns.                                                   *)
LogReturns == \A p \in Producers : (ppc[p] # "idle") ~> (ppc[p] = "idle")

(* After Close has begun the worker goroutine ends.                          *)
WorkerStops == closed ~> done

(* Every record taken in is settled, closed or not: the ticker flushes what  *)
(* does not fill a batch.                                                    *)
AllSettled ==
  \A k \in 1..(Cardinality(Producers) * MaxLogs) :
    (Len(accepted) >= k) ~> (Len(settled) >= k)

(* Close(ctx) returns once ctx has ended, whatever the worker is doing.      *)
CloseHonoursContext ==
  \A c \in Closers : (cpc[c] # "out" /\ ctx[c] # "live") ~> Returned(c)

(* The sink implements the delivery promise: the queue, the batch in hand,  *)
(* the lock and the requests are details of settling records in order.      *)
Promise == INSTANCE Delivery WITH
  Record <- Records, Capacity <- QueueSize + BatchSize,
  accepted <- accepted, settled <- settled,
  intakeOver <- enqueuesDone, finished <- done

DeliversAsPromised == Promise!Spec
=============================================================================
