--------------------------- MODULE AsyncSinkProofs ---------------------------
(***************************************************************************)
(* For every number of producers and closers, every configuration and      *)
(* every answer of the collector: the delivery middleware loses no record, *)
(* its counters agree, intake stays over, and it implements Delivery.      *)
(***************************************************************************)
EXTENDS AsyncSinkProperties, SequenceTheorems, FiniteSetTheorems, TLAPS

-----------------------------------------------------------------------------
(* Frames: which variables the groups of actions leave alone.               *)

(* A step of enqueue leaves Close, the worker and its outcome alone.         *)
LEMMA EnqueueFrame ==
  ASSUME NEW p \in Producers, Enqueue(p)
  PROVE  UNCHANGED <<calls, closerVars, ctx, workerVars, outcomeVars, deliveryVars>>
  BY DEF Enqueue, RLock, Refuse, SnapshotPanics, CountOversized, DropOversized, Snapshot, Send,
         DropFull, Count, Advance, Return, UnchangedByEnqueue

(* A step of Close leaves producers, queue and worker alone.                 *)
LEMMA CloseFrame ==
  ASSUME NEW c \in Closers, Close(c) \/ CloseStep(c)
  PROVE  UNCHANGED <<producerVars, queue, ctx, workerVars, intakeStats,
                     outcomeVars, deliveryVars, accepted>>
  BY DEF Close, CloseStep, EnterOnce, PassOnce, SetClosed, Cancel, CloseStop,
         AnnounceLock, EndIntake, ReturnNil, ReturnCtxErr, Goto

(* A step of the worker leaves producers and Close alone.                    *)
LEMMA WorkerFrame ==
  ASSUME Worker
  PROVE  UNCHANGED <<producerVars, closerVars, ctx, intakeStats, accepted>>
  BY DEF Worker, SelectStop, StartDrain, Receive, Tick, EndDrain, StartShip,
         Request, RequestCanceled, ReplyOk, ReplyError, BackoffEnds,
         BackoffCanceled, OutsideFlush, UnchangedByWorker
-----------------------------------------------------------------------------
(* Type correctness.                                                         *)

(* Every variable starts in its type.                                        *)
LEMMA InitTypeOK == Init => TypeOK
<1> SUFFICES ASSUME Init PROVE TypeOK
  OBVIOUS
<1> USE ConfigAssumption DEF Init
<1>1. <<>> \in Seq(Records) /\ Len(<<>>) = 0
  BY EmptySeq
<1>2. /\ ppc \in [Producers -> ProducerSteps]
      /\ rec \in [Producers -> Records \union {NoRecord}]
      /\ calls \in [Producers -> 0..MaxLogs]
      /\ \A p \in Producers : ppc[p] = "idle"
  BY DEF ProducerSteps
<1>3. cpc \in [Closers -> CloserSteps] /\ ctx \in [Closers -> {"live", "canceled", "expired"}]
  BY DEF CloserSteps
<1>4. /\ queue \in Seq(Records) /\ Len(queue) <= QueueSize
      /\ batch \in Seq(Records) /\ Len(batch) <= BatchSize
      /\ accepted \in Seq(Records) /\ settled \in Seq(Records)
  BY <1>1
<1>5. /\ leaks \in Nat /\ attempt \in Nat /\ tries \in Nat
      /\ enqueued \in Nat /\ dropped \in Nat /\ oversized \in Nat
      /\ sent \in Nat /\ failed \in Nat /\ retried \in Nat
  OBVIOUS
<1>6. /\ closed \in BOOLEAN /\ canceled \in BOOLEAN
      /\ stop \in BOOLEAN /\ enqueuesDone \in BOOLEAN
      /\ second \in BOOLEAN /\ sawCancel \in BOOLEAN /\ refused \in BOOLEAN
  OBVIOUS
<1>7. /\ once \in {"fresh", "running", "done"} /\ closeCtx \in Closers \union {NoCloser}
      /\ wpc \in WorkerSteps /\ back \in {"select", "drain", "exit"}
      /\ shipCtx \in {"own", "close"} /\ acked \subseteq Records
  BY DEF WorkerSteps
<1> QED
  BY <1>2, <1>3, <1>4, <1>5, <1>6, <1>7 DEF TypeOK

(* A step of a log call keeps every variable in its type.                    *)
LEMMA LogTypeOK ==
  ASSUME TypeOK, NEW p \in Producers, Log(p) \/ Enqueue(p)
  PROVE  TypeOK'
<1> USE ConfigAssumption DEF TypeOK, ProducerSteps
<1>1. CASE Log(p)
  <2>1. PICK s \in Shapes :
          rec' = [rec EXCEPT ![p] = [from |-> p, n |-> calls[p] + 1, shape |-> s]]
    BY <1>1 DEF Log
  <2>2. calls[p] + 1 \in 1..MaxLogs
    BY <1>1 DEF Log
  <2>3. [from |-> p, n |-> calls[p] + 1, shape |-> s] \in Records
    BY <2>2 DEF Records
  <2>4. /\ ppc' \in [Producers -> ProducerSteps]
        /\ rec' \in [Producers -> Records \union {NoRecord}]
        /\ \A q \in Producers : (ppc'[q] # "idle") => rec'[q] \in Records
        /\ calls' \in [Producers -> 0..MaxLogs]
    BY <1>1, <2>1, <2>2, <2>3 DEF Log
  <2> QED
    BY <1>1, <2>4 DEF Log, closerVars, closeFlags, workerVars, shipVars, intakeStats,
         outcomeVars, deliveryVars
<1>2. CASE Enqueue(p)
  <2>1. UNCHANGED <<calls, closerVars, ctx, workerVars, outcomeVars, deliveryVars>>
    BY <1>2, EnqueueFrame
  <2>2. /\ ppc' \in [Producers -> ProducerSteps]
        /\ rec' \in [Producers -> Records \union {NoRecord}]
        /\ \A q \in Producers : (ppc'[q] # "idle") => rec'[q] \in Records
        /\ leaks' \in Nat
        /\ enqueued' \in Nat /\ dropped' \in Nat /\ oversized' \in Nat
    <3>1. CASE Return(p) /\ UNCHANGED <<queue, accepted>>
      <4>1. leaks' \in {leaks, leaks + 1} /\ enqueued' \in {enqueued, enqueued + 1}
        BY <1>2 DEF Enqueue, RLock, Refuse, SnapshotPanics, CountOversized,
           DropOversized, Snapshot, Send, DropFull, Count, Advance, intakeStats
      <4>2. dropped' \in {dropped, dropped + 1} /\ oversized' \in {oversized, oversized + 1}
        BY <1>2 DEF Enqueue, RLock, Refuse, SnapshotPanics, CountOversized,
           DropOversized, Snapshot, Send, DropFull, Count, Advance, CountDrop, intakeStats
      <4> QED
        BY <3>1, <4>1, <4>2 DEF Return
    <3>2. CASE \E from, to \in ProducerSteps \ {"idle"} : Advance(p, from, to)
      BY <3>2 DEF Advance, intakeStats
    <3>3. CASE CountOversized(p)
      BY <3>3 DEF CountOversized
    <3> QED
      BY <1>2, <3>1, <3>2, <3>3 DEF Enqueue, RLock, Refuse, SnapshotPanics,
         DropOversized, Snapshot, Send, DropFull, Count, Return
  <2>3. CASE UNCHANGED <<queue, accepted>>
    BY <2>1, <2>2, <2>3 DEF closerVars, closeFlags, workerVars, shipVars,
         outcomeVars, deliveryVars
  <2>4. CASE Send(p)
    <3>1. rec[p] \in Records
      BY <2>4 DEF Send, Advance
    <3>2. queue' \in Seq(Records) /\ Len(queue') <= QueueSize /\ accepted' \in Seq(Records)
      BY <2>4, <3>1 DEF Send, HasRoom
    <3> QED
      BY <2>1, <2>2, <3>2 DEF closerVars, closeFlags, workerVars, shipVars,
           outcomeVars, deliveryVars
  <2> QED
    BY <1>2, <2>3, <2>4 DEF Enqueue, RLock, Refuse, SnapshotPanics, CountOversized,
       DropOversized, Snapshot, DropFull, Count, Return
<1> QED
  BY <1>1, <1>2

(* A step of Close, or the end of its context, keeps every type.             *)
LEMMA CloseTypeOK ==
  ASSUME TypeOK, NEW c \in Closers, Close(c) \/ CloseStep(c) \/ CtxEnds(c)
  PROVE  TypeOK'
<1>1. CASE CtxEnds(c)
  BY <1>1 DEF TypeOK, CtxEnds, producerVars, closerVars, closeFlags, workerVars, shipVars,
     intakeStats, outcomeVars, deliveryVars
<1>2. CASE Close(c) \/ CloseStep(c)
  <2>1. /\ cpc' \in [Closers -> CloserSteps]
        /\ once' \in {"fresh", "running", "done"}
        /\ closed' \in BOOLEAN /\ canceled' \in BOOLEAN
        /\ stop' \in BOOLEAN /\ enqueuesDone' \in BOOLEAN
        /\ closeCtx' \in Closers \union {NoCloser}
    BY <1>2 DEF TypeOK, CloserSteps, Close, CloseStep, EnterOnce, FirstStore, PassOnce,
         SetClosed, Cancel, CloseStop, AnnounceLock, EndIntake, ReturnNil, ReturnCtxErr,
         Goto, closeFlags
  <2> QED
    BY <1>2, <2>1, CloseFrame DEF TypeOK, producerVars, workerVars, shipVars, intakeStats,
       outcomeVars, deliveryVars
<1> QED
  BY <1>1, <1>2
(* The part of TypeOK about the batch in hand and its outcome.               *)
BatchTyped ==
  /\ wpc \in WorkerSteps /\ back \in {"select", "drain", "exit"}
  /\ batch \in Seq(Records) /\ Len(batch) <= BatchSize
  /\ attempt \in Nat /\ shipCtx \in {"own", "close"}
  /\ second \in BOOLEAN /\ sawCancel \in BOOLEAN
  /\ sent \in Nat /\ failed \in Nat /\ settled \in Seq(Records)
  /\ tries \in Nat

(* Counting a batch keeps the types of the worker.                           *)
LEMMA SettleTyped ==
  ASSUME BatchTyped, NEW ok \in BOOLEAN, Settle(ok)
  PROVE  BatchTyped'
<1>1. settled \o batch \in Seq(Records) /\ Len(batch) \in Nat
  BY ConcatProperties, LenProperties DEF BatchTyped
<1>2. <<>> \in Seq(Records) /\ Len(<<>>) <= BatchSize
  BY EmptySeq, ConfigAssumption
<1>3. second' \in BOOLEAN /\ sawCancel' \in BOOLEAN
  BY Zenon DEF Settle
<1>4. sent' \in Nat /\ failed' \in Nat
  BY <1>1 DEF BatchTyped, Settle
<1>5. /\ wpc' \in WorkerSteps /\ back' \in {"select", "drain", "exit"}
      /\ batch' = <<>> /\ settled' \in Seq(Records)
      /\ attempt' \in Nat /\ shipCtx' \in {"own", "close"} /\ tries' \in Nat
  BY <1>1 DEF BatchTyped, Settle, ResetBatch, WorkerSteps
<1> QED
  BY <1>2, <1>3, <1>4, <1>5 DEF BatchTyped

(* So does a ship that returns an error, re-shipped or settled,              *)
LEMMA ShipFailsTyped ==
  ASSUME BatchTyped, NEW cancelSeen \in BOOLEAN, ShipFails(cancelSeen)
  PROVE  BatchTyped'
<1>1. CASE MayResend(cancelSeen)
  <2>1. Resend
    BY <1>1 DEF ShipFails
  <2>2. second' \in BOOLEAN /\ sawCancel' \in BOOLEAN
    BY <2>1, Zenon DEF Resend
  <2> QED
    BY <2>1, <2>2 DEF Resend, BatchTyped, WorkerSteps, outcomeVars
<1>2. CASE ~MayResend(cancelSeen)
  BY <1>2, SettleTyped DEF ShipFails
<1> QED
  BY <1>1, <1>2

(* and an attempt that fails, retried or not.                                *)
LEMMA AttemptFailsTyped ==
  ASSUME BatchTyped, retried \in Nat, NEW reply, NEW cancelSeen \in BOOLEAN,
         AttemptFails(reply, cancelSeen)
  PROVE  BatchTyped' /\ retried' \in Nat
<1>1. CASE LastAttempt \/ ~IsRetryable(reply)
  BY <1>1, ShipFailsTyped DEF AttemptFails
<1>2. CASE ~(LastAttempt \/ ~IsRetryable(reply))
  BY <1>2 DEF AttemptFails, BatchTyped, WorkerSteps, outcomeVars
<1> QED
  BY <1>1, <1>2

(* A step of the worker keeps every variable in its type.                    *)
LEMMA WorkerTypeOK ==
  ASSUME TypeOK, Draining, Worker
  PROVE  TypeOK'
<1>1. BatchTyped
  BY DEF TypeOK, BatchTyped
<1>2. (sawCancel \/ CtxErr = "canceled") \in BOOLEAN /\ sawCancel \in BOOLEAN
  BY DEF TypeOK
<1>3. ToSet(batch) \subseteq Records
  BY ElementOfSeq, LenProperties DEF TypeOK, ToSet
<1>4. SUFFICES /\ BatchTyped'
               /\ retried' \in Nat /\ acked' \subseteq Records /\ refused' \in BOOLEAN
               /\ queue' \in Seq(Records) /\ Len(queue') <= QueueSize
  BY WorkerFrame DEF TypeOK, BatchTyped, producerVars, closerVars, closeFlags, intakeStats
<1>5. CASE SelectStop \/ StartDrain \/ Tick \/ EndDrain \/ Request \/ BackoffEnds
  <2>1. CASE SelectStop \/ StartDrain \/ Tick \/ EndDrain
    BY <1>1, <2>1 DEF TypeOK, BatchTyped, WorkerSteps, SelectStop, StartDrain, Tick, EndDrain,
       CallFlush, OutsideFlush, shipVars, outcomeVars, deliveryVars
  <2>2. CASE Request \/ BackoffEnds
    BY <1>1, <2>2 DEF TypeOK, BatchTyped, WorkerSteps, Request, BackoffEnds, CallFlush,
       OutsideFlush, shipVars, outcomeVars, deliveryVars
  <2> QED
    BY <1>5, <2>1, <2>2
<1>6. CASE Receive
  <2>1. /\ Head(queue) \in Records /\ Tail(queue) \in Seq(Records)
        /\ Len(Tail(queue)) = Len(queue) - 1
    BY <1>6, HeadTailProperties DEF Receive, TypeOK
  <2>2. Append(batch, Head(queue)) \in Seq(Records)
        /\ Len(Append(batch, Head(queue))) = Len(batch) + 1
    BY <2>1, AppendProperties DEF TypeOK
  <2>3. Len(batch) < BatchSize
    BY <1>6 DEF Draining, Receive, Shipping
  <2>4. Len(batch) \in Nat /\ Len(queue) \in Nat
    BY LenProperties DEF TypeOK
  <2>5. batch' \in Seq(Records) /\ Len(batch') <= BatchSize
    BY <1>6, <2>2, <2>3, <2>4, ConfigAssumption DEF Receive
  <2>6. wpc' \in WorkerSteps /\ back' \in {"select", "drain", "exit"}
    BY <1>6 DEF Receive, CallFlush, TypeOK, WorkerSteps
  <2> QED
    BY <1>1, <1>6, <2>1, <2>4, <2>5, <2>6, ConfigAssumption
       DEF TypeOK, BatchTyped, Receive, OutsideFlush, shipVars, outcomeVars, deliveryVars
<1>7. CASE StartShip
  <2>1. CASE Shippable(batch)
    BY <1>1, <1>7, <2>1 DEF TypeOK, BatchTyped, WorkerSteps, StartShip, ShipContext, outcomeVars
  <2>2. CASE ~Shippable(batch)
    BY <1>1, <1>7, <2>2, SettleTyped DEF TypeOK, StartShip
  <2> QED
    BY <2>1, <2>2
<1>8. CASE RequestCanceled
  BY <1>1, <1>2, <1>8, AttemptFailsTyped DEF TypeOK, RequestCanceled
<1>9. CASE ReplyOk
  BY <1>1, <1>3, <1>9, SettleTyped DEF TypeOK, ReplyOk
<1>10. ASSUME NEW reply \in ReplyKinds, ReplyError(reply)
       PROVE  /\ BatchTyped'
              /\ retried' \in Nat /\ acked' \subseteq Records /\ refused' \in BOOLEAN
              /\ queue' \in Seq(Records) /\ Len(queue') <= QueueSize
  BY <1>1, <1>2, <1>10, AttemptFailsTyped DEF TypeOK, ReplyError
<1>11. CASE BackoffCanceled
  BY <1>1, <1>2, <1>11, ShipFailsTyped DEF TypeOK, BackoffCanceled, deliveryVars
<1> QED
  BY <1>5, <1>6, <1>7, <1>8, <1>9, <1>10, <1>11 DEF Worker
(* Log calls do not touch Close, the worker or their counters.               *)
LEMMA LogFrame ==
  ASSUME NEW p \in Producers, Log(p) \/ Enqueue(p)
  PROVE  UNCHANGED <<closerVars, ctx, workerVars, outcomeVars, deliveryVars>>
  BY EnqueueFrame DEF Log

(* Nobody but Close moves its flags, nobody but the worker leaves "exit".    *)
LEMMA WorkerRunning == Worker => ~done
  BY DEF Worker, done, SelectStop, StartDrain, Receive, Tick, EndDrain, StartShip,
     Request, RequestCanceled, ReplyOk, ReplyError, BackoffEnds, BackoffCanceled

-----------------------------------------------------------------------------
(* The protocol of Close.                                                    *)

(* Only the goroutine inside once.Do moves the flags, in their order.        *)
LEMMA CloseProgressStep ==
  ASSUME TypeOK, CloseProgress, [Next]_vars
  PROVE  CloseProgress'
<1>1. ASSUME NEW p \in Producers, Log(p) \/ Enqueue(p)
      PROVE  CloseProgress'
  BY <1>1, LogFrame DEF CloseProgress, closerVars, closeFlags, workerVars, done
<1>2. ASSUME NEW c \in Closers, CtxEnds(c)
      PROVE  CloseProgress'
  BY <1>2 DEF CtxEnds, CloseProgress, closerVars, closeFlags, workerVars, done
<1>3. CASE Worker
  BY <1>3, WorkerFrame, WorkerRunning DEF CloseProgress, closerVars, closeFlags, done
<1>4. ASSUME NEW c \in Closers, Close(c) \/ CloseStep(c)
      PROVE  CloseProgress'
  <2>1. done' = done
    BY <1>4, CloseFrame DEF workerVars, done
  <2> USE <2>1, NoCloserAssumption DEF CloseProgress, Body, Goto, closeFlags
  <2>2. CASE Close(c)
    BY <2>2 DEF TypeOK, Close
  <2>3. CASE EnterOnce(c)
    BY <2>3 DEF TypeOK, EnterOnce, FirstStore
  <2>4. CASE PassOnce(c)
    BY <2>4 DEF TypeOK, PassOnce
  <2>5. CASE SetClosed(c)
    BY <2>5 DEF TypeOK, SetClosed
  <2>6. CASE Cancel(c)
    BY <2>6 DEF TypeOK, Cancel
  <2>7. CASE CloseStop(c)
    BY <2>7 DEF TypeOK, CloseStop
  <2>8. CASE AnnounceLock(c)
    BY <2>8 DEF TypeOK, AnnounceLock
  <2>9. CASE EndIntake(c)
    BY <2>9 DEF TypeOK, EndIntake
  <2>10. CASE ReturnNil(c) \/ ReturnCtxErr(c)
    BY <2>10 DEF TypeOK, ReturnNil, ReturnCtxErr
  <2> QED
    BY <1>4, <2>2, <2>3, <2>4, <2>5, <2>6, <2>7, <2>8, <2>9, <2>10 DEF CloseStep
<1>5. CASE UNCHANGED vars
  BY <1>5 DEF vars, CloseProgress, closerVars, closeFlags, workerVars, done
<1> QED
  BY <1>1, <1>2, <1>3, <1>4, <1>5 DEF Next, Finished

(* The write lock is granted when no log call is between its closed check and its return. *)
LEMMA IntakeOverStep ==
  ASSUME TypeOK, CloseProgress, IntakeOver, [Next]_vars
  PROVE  IntakeOver'
<1>1. ASSUME NEW p \in Producers, Log(p) \/ Enqueue(p)
      PROVE  IntakeOver'
  <2>1. closed' = closed /\ enqueuesDone' = enqueuesDone
    BY <1>1, LogFrame DEF closerVars, closeFlags
  <2> QED
    BY <1>1, <2>1 DEF TypeOK, CloseProgress, IntakeOver, Log, Enqueue, RLock, Refuse,
       SnapshotPanics, CountOversized, DropOversized, Snapshot, Send, DropFull, Count,
       Advance, Return
<1>2. ASSUME NEW c \in Closers, EndIntake(c)
      PROVE  IntakeOver'
  BY <1>2 DEF EndIntake, LockFree, Readers, Goto, producerVars, IntakeOver
<1>3. ASSUME NEW c \in Closers, Close(c) \/ CloseStep(c), ~EndIntake(c)
      PROVE  IntakeOver'
  BY <1>3 DEF IntakeOver, Close, CloseStep, EnterOnce, FirstStore, PassOnce, SetClosed,
     Cancel, CloseStop, AnnounceLock, ReturnNil, ReturnCtxErr, Goto, closeFlags, producerVars
<1>4. CASE Worker \/ UNCHANGED vars \/ \E c \in Closers : CtxEnds(c)
  BY <1>4, WorkerFrame DEF IntakeOver, CtxEnds, vars, producerVars, closerVars, closeFlags
<1> QED
  BY <1>1, <1>2, <1>3, <1>4 DEF Next, Finished

-----------------------------------------------------------------------------
(* Where the worker is.                                                      *)

(* Settling empties the batch and resumes where flush was called.            *)
LEMMA SettleDraining ==
  ASSUME TypeOK, Draining, Shipping, NEW ok, Settle(ok), queue' = queue,
         enqueuesDone' = enqueuesDone
  PROVE  Draining'
<1>1. Len(<<>>) < BatchSize
  BY ConfigAssumption, EmptySeq
<1> QED
  BY <1>1 DEF TypeOK, Draining, Shipping, done, Settle, ResetBatch

(* So does a ship that fails for good; re-shipping keeps the batch.          *)
LEMMA ShipFailsDraining ==
  ASSUME TypeOK, Draining, Shipping, NEW cancelSeen, ShipFails(cancelSeen),
         queue' = queue, enqueuesDone' = enqueuesDone
  PROVE  Draining'
  BY SettleDraining DEF ShipFails, Resend, Draining, Shipping, done

(* A failed attempt does one or the other, or waits with the batch.          *)
LEMMA AttemptFailsDraining ==
  ASSUME TypeOK, Draining, Shipping, NEW reply, NEW cancelSeen,
         AttemptFails(reply, cancelSeen), queue' = queue, enqueuesDone' = enqueuesDone
  PROVE  Draining'
  BY ShipFailsDraining DEF AttemptFails, Draining, Shipping, done

(* The worker drains after the last intake and ends with nothing left.       *)
LEMMA DrainingStep ==
  ASSUME TypeOK, CloseProgress, IntakeOver, Draining, [Next]_vars
  PROVE  Draining'
<1>1. ASSUME NEW p \in Producers, Log(p) \/ Enqueue(p)
      PROVE  Draining'
  <2>1. UNCHANGED <<enqueuesDone, wpc, back, batch>>
    BY <1>1, LogFrame DEF closerVars, closeFlags, workerVars
  <2>2. enqueuesDone => queue' = queue
    BY <1>1 DEF IntakeOver, Log, Enqueue, RLock, Refuse, SnapshotPanics, CountOversized,
       DropOversized, Snapshot, Send, DropFull, Count, Advance, Return
  <2> QED
    BY <2>1, <2>2 DEF Draining, Shipping, done
<1>2. ASSUME NEW c \in Closers, Close(c) \/ CloseStep(c)
      PROVE  Draining'
  <2>1. UNCHANGED <<wpc, back, batch, queue>>
    BY <1>2, CloseFrame DEF workerVars
  <2>2. enqueuesDone => enqueuesDone'
    BY <1>2 DEF Close, CloseStep, EnterOnce, PassOnce, SetClosed, Cancel, CloseStop,
       AnnounceLock, EndIntake, ReturnNil, ReturnCtxErr, closeFlags
  <2> QED
    BY <2>1, <2>2 DEF Draining, Shipping, done
<1>3. CASE UNCHANGED vars \/ \E c \in Closers : CtxEnds(c)
  BY <1>3 DEF CtxEnds, vars, closerVars, closeFlags, workerVars, Draining, Shipping, done
<1>4. CASE Worker
  <2>1. enqueuesDone' = enqueuesDone
    BY <1>4, WorkerFrame DEF closerVars, closeFlags
  <2>2. CASE SelectStop \/ StartDrain \/ Tick \/ Request \/ BackoffEnds
    BY <2>1, <2>2 DEF SelectStop, StartDrain, DrainMayStart, Tick, FlushDue, Request,
       BackoffEnds, CallFlush, Draining, Shipping, done
  <2>3. CASE Receive
    <3>1. batch' # <<>> /\ batch' \in Seq(Records)
      <4>1. /\ queue \in Seq(Records) /\ queue # <<>> /\ batch \in Seq(Records)
            /\ batch' = Append(batch, Head(queue))
        BY <2>3 DEF TypeOK, Receive
      <4>2. Head(queue) \in Records
        BY <4>1, HeadTailProperties
      <4> QED
        BY <4>1, <4>2, AppendProperties
    <3>2. Len(batch') \in Nat
      BY <3>1, LenProperties
    <3> QED
      BY <2>1, <2>3, <3>1, <3>2, ConfigAssumption
         DEF TypeOK, Receive, CallFlush, Draining, Shipping, done
  <2>4. CASE EndDrain
    BY <2>1, <2>4 DEF EndDrain, CallFlush, Draining, Shipping, done
  <2>5. CASE StartShip
    BY <2>1, <2>5, SettleDraining DEF StartShip, Draining, Shipping, done
  <2>6. CASE RequestCanceled \/ BackoffCanceled \/ \E reply \in ReplyKinds : ReplyError(reply)
    BY <2>1, <2>6, ShipFailsDraining, AttemptFailsDraining
       DEF RequestCanceled, BackoffCanceled, ReplyError, Shipping
  <2>7. CASE ReplyOk
    BY <2>1, <2>7, SettleDraining DEF ReplyOk, Shipping
  <2> QED
    BY <1>4, <2>2, <2>3, <2>4, <2>5, <2>6, <2>7 DEF Worker
<1> QED
  BY <1>1, <1>2, <1>3, <1>4 DEF Next, Finished
-----------------------------------------------------------------------------
(* Order and conservation of records.                                        *)

(* Receiving moves the border between batch and queue, no record.            *)
LEMMA MoveHead ==
  ASSUME NEW S, NEW b \in Seq(S), NEW q \in Seq(S), q # <<>>
  PROVE  Append(b, Head(q)) \o Tail(q) = b \o q
<1> DEFINE l == Append(b, Head(q)) \o Tail(q)
           r == b \o q
<1>1. /\ Head(q) \in S /\ Tail(q) \in Seq(S) /\ Len(Tail(q)) = Len(q) - 1
      /\ \A i \in 1..Len(Tail(q)) : Tail(q)[i] = q[i + 1]
      /\ Head(q) = q[1]
  BY HeadTailProperties
<1>2. /\ Append(b, Head(q)) \in Seq(S)
      /\ Len(Append(b, Head(q))) = Len(b) + 1
      /\ \A i \in 1..Len(b) : Append(b, Head(q))[i] = b[i]
      /\ Append(b, Head(q))[Len(b) + 1] = Head(q)
  BY <1>1, AppendProperties
<1>3. Len(b) \in Nat /\ Len(q) \in Nat /\ Len(q) # 0
  BY LenProperties, EmptySeq
<1>4. /\ l \in Seq(S) /\ Len(l) = Len(b) + 1 + (Len(q) - 1)
      /\ \A i \in 1..(Len(b) + 1 + (Len(q) - 1)) :
           l[i] = IF i <= Len(b) + 1 THEN Append(b, Head(q))[i] ELSE Tail(q)[i - (Len(b) + 1)]
  BY <1>1, <1>2, ConcatProperties
<1>5. /\ r \in Seq(S) /\ Len(r) = Len(b) + Len(q)
      /\ \A i \in 1..(Len(b) + Len(q)) :
           r[i] = IF i <= Len(b) THEN b[i] ELSE q[i - Len(b)]
  BY ConcatProperties
<1>6. ASSUME NEW i \in 1..Len(l)
      PROVE  l[i] = r[i]
  <2>1. CASE i <= Len(b)
    BY <2>1, <1>2, <1>3, <1>4, <1>5
  <2>2. CASE i = Len(b) + 1
    BY <2>2, <1>1, <1>2, <1>3, <1>4, <1>5
  <2>3. CASE i > Len(b) + 1
    <3>1. i - (Len(b) + 1) \in 1..Len(Tail(q)) /\ (i - (Len(b) + 1)) + 1 = i - Len(b)
      BY <2>3, <1>1, <1>3, <1>4
    <3> QED
      BY <2>3, <3>1, <1>1, <1>3, <1>4, <1>5
  <2> QED
    BY <2>1, <2>2, <2>3, <1>3, <1>4
<1>7. l \in Seq(S) /\ r \in Seq(S) /\ Len(l) = Len(r)
  BY <1>3, <1>4, <1>5
<1> HIDE DEF l, r
<1>8. l = r
  BY ONLY <1>6, <1>7, SeqEqual
<1> QED
  BY <1>8 DEF l, r

(* Settling moves the batch behind the records settled before.               *)
LEMMA SettleFifo ==
  ASSUME TypeOK, Fifo, NEW ok, Settle(ok), UNCHANGED <<queue, accepted>>
  PROVE  Fifo'
<1>1. (settled \o batch) \o <<>> = settled \o batch
  BY ConcatProperties, ConcatEmptySeq DEF TypeOK
<1> QED
  BY <1>1 DEF Settle, ResetBatch, Fifo

(* A ship that fails keeps every record where the order wants it,            *)
LEMMA ShipFailsFifo ==
  ASSUME TypeOK, Fifo, NEW cancelSeen, ShipFails(cancelSeen), UNCHANGED <<queue, accepted>>
  PROVE  Fifo'
  BY SettleFifo DEF ShipFails, Resend, outcomeVars, Fifo

(* and so does a failed attempt.                                             *)
LEMMA AttemptFailsFifo ==
  ASSUME TypeOK, Fifo, NEW reply, NEW cancelSeen, AttemptFails(reply, cancelSeen),
         UNCHANGED <<queue, accepted>>
  PROVE  Fifo'
  BY ShipFailsFifo DEF AttemptFails, outcomeVars, Fifo

(* No step loses, repeats or reorders a record.                              *)
LEMMA FifoStep ==
  ASSUME TypeOK, Fifo, [Next]_vars
  PROVE  Fifo'
<1>1. ASSUME NEW p \in Producers, Log(p) \/ Enqueue(p)
      PROVE  Fifo'
  <2>1. UNCHANGED <<settled, batch>>
    BY <1>1, LogFrame DEF workerVars, outcomeVars
  <2>2. CASE UNCHANGED <<queue, accepted>>
    BY <2>1, <2>2 DEF Fifo
  <2>3. CASE Send(p)
    <3> DEFINE sb == settled \o batch
               one == <<rec[p]>>
    <3>1. rec[p] \in Records /\ queue \in Seq(Records) /\ accepted \in Seq(Records)
      BY <2>3 DEF TypeOK, Send, Advance
    <3>2. sb \in Seq(Records) /\ one \in Seq(Records)
      BY <3>1, ConcatProperties DEF TypeOK
    <3>3. accepted' = accepted \o one /\ queue' = queue \o one
      BY <2>3, <3>1, AppendIsConcat DEF Send
    <3>4. accepted = sb \o queue
      BY DEF Fifo
    <3> HIDE DEF sb, one
    <3>5. (sb \o queue) \o one = sb \o (queue \o one)
      BY ONLY <3>1, <3>2, ConcatAssociative
    <3>6. accepted' = sb \o queue'
      BY <3>3, <3>4, <3>5
    <3> QED
      BY <2>1, <3>6 DEF sb, Fifo
  <2> QED
    BY <1>1, <2>2, <2>3 DEF Log, Enqueue, RLock, Refuse, SnapshotPanics, CountOversized,
       DropOversized, Snapshot, DropFull, Count, Return
<1>2. CASE UNCHANGED vars \/ \E c \in Closers : Close(c) \/ CloseStep(c) \/ CtxEnds(c)
  BY <1>2, CloseFrame DEF CtxEnds, vars, workerVars, outcomeVars, Fifo
<1>3. CASE Worker
  <2>1. accepted' = accepted
    BY <1>3, WorkerFrame
  <2>2. CASE Receive
    <3>1. /\ queue # <<>> /\ batch' = Append(batch, Head(queue)) /\ queue' = Tail(queue)
          /\ settled' = settled
      BY <2>2 DEF Receive, OutsideFlush, outcomeVars
    <3>2. batch' \in Seq(Records) /\ queue' \in Seq(Records)
      BY <3>1, HeadTailProperties, AppendProperties DEF TypeOK
    <3>3. batch' \o queue' = batch \o queue
      BY <3>1, MoveHead DEF TypeOK
    <3>4. settled \in Seq(Records)
      BY DEF TypeOK
    <3>5. batch \in Seq(Records) /\ queue \in Seq(Records)
      BY DEF TypeOK
    <3>6. (settled \o batch) \o queue = settled \o (batch \o queue)
      BY ONLY <3>4, <3>5, ConcatAssociative
    <3>7. (settled \o batch') \o queue' = settled \o (batch' \o queue')
      BY ONLY <3>2, <3>4, ConcatAssociative
    <3> QED
      BY <2>1, <3>1, <3>3, <3>6, <3>7 DEF Fifo
  <2>3. CASE SelectStop \/ StartDrain \/ Tick \/ EndDrain \/ Request \/ BackoffEnds
    BY <2>1, <2>3 DEF SelectStop, StartDrain, Tick, EndDrain, Request, BackoffEnds,
       OutsideFlush, outcomeVars, Fifo
  <2>4. CASE StartShip
    BY <2>1, <2>4, SettleFifo DEF StartShip, outcomeVars, Fifo
  <2>5. CASE RequestCanceled \/ BackoffCanceled \/ \E reply \in ReplyKinds : ReplyError(reply)
    BY <2>1, <2>5, ShipFailsFifo, AttemptFailsFifo
       DEF RequestCanceled, BackoffCanceled, ReplyError
  <2>6. CASE ReplyOk
    BY <2>1, <2>6, SettleFifo DEF ReplyOk
  <2> QED
    BY <1>3, <2>2, <2>3, <2>4, <2>5, <2>6 DEF Worker
<1> QED
  BY <1>1, <1>2, <1>3 DEF Next, Finished
-----------------------------------------------------------------------------
(* The counters.                                                             *)

(* Settling adds the batch to Sent or Failed.                                *)
LEMMA SettleCounted ==
  ASSUME TypeOK, sent + failed = Len(settled), NEW ok \in BOOLEAN, Settle(ok)
  PROVE  sent' + failed' = Len(settled')
<1>1. Len(settled \o batch) = Len(settled) + Len(batch)
  BY ConcatProperties DEF TypeOK
<1>2. Len(settled) \in Nat /\ Len(batch) \in Nat /\ sent \in Nat /\ failed \in Nat
  BY LenProperties DEF TypeOK
<1>3. Len(settled') = Len(settled) + Len(batch)
  BY <1>1, Zenon DEF Settle
<1>4. CASE ok = TRUE
  <2>1. sent' = sent + Len(batch) /\ failed' = failed
    BY <1>4 DEF Settle
  <2> QED
    BY <1>2, <1>3, <2>1
<1>5. CASE ok = FALSE
  <2>1. sent' = sent /\ failed' = failed + Len(batch)
    BY <1>5 DEF Settle
  <2> QED
    BY <1>2, <1>3, <2>1
<1> QED
  BY <1>4, <1>5

(* A ship that fails keeps Sent + Failed equal to the records settled,       *)
LEMMA ShipFailsCounted ==
  ASSUME TypeOK, sent + failed = Len(settled), NEW cancelSeen, ShipFails(cancelSeen)
  PROVE  sent' + failed' = Len(settled')
  BY SettleCounted DEF ShipFails, Resend, outcomeVars

(* and so does a failed attempt.                                             *)
LEMMA AttemptFailsCounted ==
  ASSUME TypeOK, sent + failed = Len(settled), NEW reply, NEW cancelSeen,
         AttemptFails(reply, cancelSeen)
  PROVE  sent' + failed' = Len(settled')
  BY ShipFailsCounted DEF AttemptFails, outcomeVars

(* Enqueued and the calls between their send and their counter.              *)
LEMMA EnqueueCounted ==
  ASSUME TypeOK, Counted, NEW p \in Producers, Enqueue(p)
  PROVE  Len(accepted') = enqueued' + Cardinality(Counting')
<1>1. IsFiniteSet(Counting) /\ Cardinality(Counting) \in Nat
  BY ProducersAssumption, FS_Subset, FS_CardinalityType DEF Counting
<1>2. enqueued \in Nat
  BY DEF TypeOK
<1>3. CASE Send(p)
  <2>1. Counting' = Counting \union {p} /\ p \notin Counting
    BY <1>3 DEF TypeOK, Send, Advance, Counting
  <2>2. Cardinality(Counting') = Cardinality(Counting) + 1
    BY <1>1, <2>1, FS_AddElement
  <2>3. rec[p] \in Records
    BY <1>3 DEF TypeOK, Send, Advance
  <2>4. Len(accepted') = Len(accepted) + 1
    BY <1>3, <2>3, AppendProperties DEF TypeOK, Send
  <2>5. enqueued' = enqueued
    BY <1>3 DEF Send, Advance, intakeStats
  <2> QED
    BY <1>1, <1>2, <2>2, <2>4, <2>5 DEF Counted
<1>4. CASE Count(p)
  <2>1. Counting' = Counting \ {p} /\ p \in Counting
    BY <1>4 DEF TypeOK, Count, Return, Counting
  <2>2. Cardinality(Counting') = Cardinality(Counting) - 1
    BY <1>1, <2>1, FS_RemoveElement
  <2>3. accepted' = accepted /\ enqueued' = enqueued + 1
    BY <1>4 DEF Count, Return
  <2> QED
    BY <1>1, <1>2, <2>2, <2>3 DEF Counted
<1>5. CASE ~Send(p) /\ ~Count(p)
  <2>1. accepted' = accepted /\ enqueued' = enqueued
    BY <1>5 DEF Enqueue, RLock, Refuse, SnapshotPanics, CountOversized, DropOversized, Snapshot, DropFull, Advance, Return, intakeStats
  <2>2. ppc[p] # "count" /\ ppc'[p] # "count"
        /\ \A q \in Producers \ {p} : ppc'[q] = ppc[q]
    BY <1>5 DEF TypeOK, Enqueue, RLock, Refuse, SnapshotPanics, CountOversized,
       DropOversized, Snapshot, DropFull, Advance, Return
  <2>3. Counting' = Counting
    BY <2>2 DEF Counting
  <2> QED
    BY <2>1, <2>3 DEF Counted
<1> QED
  BY <1>3, <1>4, <1>5

(* Every step keeps the counters in line with the records.                   *)
LEMMA CountedStep ==
  ASSUME TypeOK, Counted, [Next]_vars
  PROVE  Counted'
<1>1. ASSUME NEW p \in Producers, Enqueue(p)
      PROVE  Counted'
  BY <1>1, EnqueueCounted, EnqueueFrame DEF Counted, outcomeVars
<1>2. ASSUME NEW p \in Producers, Log(p)
      PROVE  Counted'
  <2>1. Counting' = Counting
    BY <1>2 DEF TypeOK, Log, Counting
  <2> QED
    BY <1>2, <2>1 DEF Log, Counted, outcomeVars, intakeStats
<1>3. CASE UNCHANGED vars \/ \E c \in Closers : Close(c) \/ CloseStep(c) \/ CtxEnds(c)
  BY <1>3, CloseFrame DEF CtxEnds, vars, producerVars, intakeStats, outcomeVars, Counted, Counting
<1>4. CASE Worker
  <2>1. UNCHANGED <<accepted, enqueued, ppc>>
    BY <1>4, WorkerFrame DEF producerVars, intakeStats
  <2>2. SUFFICES sent' + failed' = Len(settled')
    BY <2>1 DEF Counted, Counting
  <2>3. sent + failed = Len(settled)
    BY DEF Counted
  <2>4. CASE SelectStop \/ StartDrain \/ Receive \/ Tick \/ EndDrain \/ Request \/ BackoffEnds
    BY <2>3, <2>4 DEF SelectStop, StartDrain, Receive, Tick, EndDrain, Request, BackoffEnds,
       OutsideFlush, outcomeVars
  <2>5. CASE StartShip
    BY <2>3, <2>5, SettleCounted DEF StartShip, outcomeVars
  <2>6. CASE RequestCanceled \/ BackoffCanceled \/ \E reply \in ReplyKinds : ReplyError(reply)
    BY <2>3, <2>6, ShipFailsCounted, AttemptFailsCounted
       DEF RequestCanceled, BackoffCanceled, ReplyError
  <2>7. CASE ReplyOk
    BY <2>3, <2>7, SettleCounted DEF ReplyOk
  <2> QED
    BY <1>4, <2>4, <2>5, <2>6, <2>7 DEF Worker
<1> QED
  BY <1>1, <1>2, <1>3, <1>4 DEF Next, Finished

-----------------------------------------------------------------------------
(* The requests of a batch.                                                  *)

(* After the first series a re-ship starts the second and last one.          *)
LEMMA ShipFailsProgress ==
  ASSUME TypeOK, ShipProgress, NEW cancelSeen, ShipFails(cancelSeen),
         wpc \in {"request", "inflight", "backoff"}, closed' = closed
  PROVE  ShipProgress'
  BY ConfigAssumption DEF ShipFails, MayResend, Resend, Settle, ShipProgress, Spent, TypeOK

(* A failed attempt counts against its series.                               *)
LEMMA AttemptFailsProgress ==
  ASSUME TypeOK, ShipProgress, NEW reply, NEW cancelSeen, AttemptFails(reply, cancelSeen),
         wpc \in {"request", "inflight"}, closed' = closed, cancelSeen => closed
  PROVE  ShipProgress'
<1>1. CASE LastAttempt \/ ~IsRetryable(reply)
  BY <1>1, ShipFailsProgress DEF AttemptFails
<1>2. CASE ~(LastAttempt \/ ~IsRetryable(reply))
  BY <1>2, ConfigAssumption DEF AttemptFails, LastAttempt, TypeOK, ShipProgress, Spent
<1> QED
  BY <1>1, <1>2

(* Every step keeps the requests within the attempts of their series.        *)
LEMMA ShipProgressStep ==
  ASSUME TypeOK, CloseProgress, ShipProgress, [Next]_vars
  PROVE  ShipProgress'
<1>1. ASSUME NEW p \in Producers, Log(p) \/ Enqueue(p)
      PROVE  ShipProgress'
  BY <1>1, LogFrame DEF ShipProgress, Spent, closerVars, closeFlags, workerVars, shipVars
<1>2. ASSUME NEW c \in Closers, Close(c) \/ CloseStep(c)
      PROVE  ShipProgress'
  <2>1. UNCHANGED <<wpc, attempt, shipCtx, second, sawCancel, tries>>
    BY <1>2, CloseFrame DEF workerVars, shipVars
  <2>2. closed => closed'
    BY <1>2 DEF Close, CloseStep, EnterOnce, FirstStore, PassOnce, SetClosed, Cancel,
       CloseStop, AnnounceLock, EndIntake, ReturnNil, ReturnCtxErr, closeFlags
  <2> QED
    BY <2>1, <2>2 DEF ShipProgress, Spent
<1>3. CASE UNCHANGED vars \/ \E c \in Closers : CtxEnds(c)
  BY <1>3 DEF CtxEnds, vars, closerVars, closeFlags, workerVars, shipVars, ShipProgress, Spent
<1>4. CASE Worker
  <2>1. closed' = closed
    BY <1>4, WorkerFrame DEF closerVars, closeFlags
  <2>2. (CtxErr = "canceled" /\ wpc \in {"request", "inflight", "backoff"}) => closed
    BY DEF CtxErr, CloseProgress, ShipProgress, TypeOK
  <2>3. CASE SelectStop \/ StartDrain \/ Receive \/ Tick \/ EndDrain
    BY <2>1, <2>3 DEF SelectStop, StartDrain, Receive, Tick, EndDrain, CallFlush,
       OutsideFlush, shipVars, ShipProgress, Spent
  <2>4. CASE StartShip
    BY <2>1, <2>4, ConfigAssumption DEF TypeOK, StartShip, ShipContext, Settle, ShipProgress, Spent
  <2>5. CASE Request
    BY <2>1, <2>5, ConfigAssumption DEF TypeOK, Request, ShipProgress, Spent
  <2>6. CASE BackoffEnds
    BY <2>1, <2>6, ConfigAssumption DEF TypeOK, BackoffEnds, ShipProgress, Spent
  <2>7. CASE RequestCanceled
    BY <2>1, <2>2, <2>7, AttemptFailsProgress DEF RequestCanceled, ShipProgress
  <2>8. CASE \E reply \in ReplyKinds : ReplyError(reply)
    BY <2>1, <2>8, AttemptFailsProgress DEF ReplyError, ShipProgress
  <2>9. CASE BackoffCanceled
    BY <2>1, <2>9, ShipFailsProgress DEF BackoffCanceled
  <2>10. CASE ReplyOk
    BY <2>1, <2>10, ConfigAssumption DEF TypeOK, ReplyOk, Settle, ShipProgress, Spent
  <2> QED
    BY <1>4, <2>3, <2>4, <2>5, <2>6, <2>7, <2>8, <2>9, <2>10 DEF Worker
<1> QED
  BY <1>1, <1>2, <1>3, <1>4 DEF Next, Finished

-----------------------------------------------------------------------------
(* Cancellation and refusal.                                                 *)

(* A context that has ended stays ended, and the one in use stays the same.  *)
LEMMA CtxErrStable ==
  ASSUME TypeOK, CloseProgress, ShipProgress, [Next]_vars, ~Worker
  PROVE  /\ UNCHANGED <<wpc, sawCancel, refused>>
         /\ CtxErr # "live" => CtxErr' # "live"
<1>1. ASSUME NEW p \in Producers, Log(p) \/ Enqueue(p)
      PROVE  UNCHANGED <<wpc, sawCancel, refused, shipCtx, canceled, ctx, closeCtx>>
  BY <1>1, LogFrame DEF closerVars, closeFlags, workerVars, shipVars, deliveryVars
<1>2. ASSUME NEW c \in Closers, Close(c) \/ CloseStep(c)
      PROVE  /\ UNCHANGED <<wpc, sawCancel, refused, shipCtx, ctx>>
             /\ canceled => canceled'
             /\ shipCtx = "close" => closeCtx' = closeCtx
  <2>1. UNCHANGED <<wpc, sawCancel, refused, shipCtx, ctx>>
    BY <1>2, CloseFrame DEF workerVars, shipVars, deliveryVars
  <2>2. shipCtx = "close" => once # "fresh"
    BY DEF CloseProgress, ShipProgress
  <2> QED
    BY <1>2, <2>1, <2>2 DEF Close, CloseStep, EnterOnce, FirstStore, PassOnce, SetClosed,
       Cancel, CloseStop, AnnounceLock, EndIntake, ReturnNil, ReturnCtxErr, closeFlags
<1>3. ASSUME NEW c \in Closers, CtxEnds(c)
      PROVE  /\ UNCHANGED <<wpc, sawCancel, refused, shipCtx, canceled, closeCtx>>
             /\ \A d \in Closers : ctx[d] # "live" => ctx'[d] # "live"
  BY <1>3 DEF TypeOK, CtxEnds, closerVars, closeFlags, workerVars, shipVars, deliveryVars
<1>4. shipCtx = "close" => closeCtx \in Closers
  BY DEF TypeOK, CloseProgress, ShipProgress
<1>5. CASE UNCHANGED vars
  BY <1>5 DEF vars, closerVars, closeFlags, workerVars, shipVars, deliveryVars, CtxErr
<1> QED
  BY <1>1, <1>2, <1>3, <1>4, <1>5 DEF Next, Finished, CtxErr, TypeOK

(* A settled batch leaves no refusal behind.                                 *)
LEMMA SettleRefusals ==
  ASSUME TypeOK, NEW ok, Settle(ok)
  PROVE  Refusals'
  BY DEF TypeOK, Settle, Refusals

(* A refused batch is not shipped again.                                     *)
LEMMA ShipFailsRefusals ==
  ASSUME TypeOK, NEW cancelSeen, ShipFails(cancelSeen), ~MayResend(cancelSeen) \/ ~refused'
  PROVE  Refusals'
  BY SettleRefusals DEF ShipFails, Resend, Refusals

(* A refusal ends the attempts, a cancellation ends the context in use.      *)
LEMMA AttemptFailsRefusals ==
  ASSUME TypeOK, NEW reply, NEW cancelSeen, AttemptFails(reply, cancelSeen),
         UNCHANGED <<canceled, ctx, closeCtx>>, cancelSeen => CtxErr # "live",
         \/ ~refused'
         \/ ~IsRetryable(reply) /\ ~cancelSeen
  PROVE  Refusals'
<1>1. CASE LastAttempt \/ ~IsRetryable(reply)
  BY <1>1, ShipFailsRefusals DEF AttemptFails, MayResend
<1>2. CASE ~(LastAttempt \/ ~IsRetryable(reply))
  BY <1>2 DEF AttemptFails, Refusals, CtxErr
<1> QED
  BY <1>1, <1>2

(* No step brings a refused batch back to the requests.                      *)
LEMMA RefusalsStep ==
  ASSUME TypeOK, CloseProgress, Draining, ShipProgress, Refusals, [Next]_vars
  PROVE  Refusals'
<1>1. CASE ~Worker
  BY <1>1, CtxErrStable DEF Refusals
<1>2. CASE Worker
  <2>1. UNCHANGED <<canceled, ctx, closeCtx>>
    BY <1>2, WorkerFrame DEF closerVars, closeFlags
  <2>2. CASE SelectStop \/ StartDrain \/ Receive \/ Tick \/ EndDrain
    BY <2>2 DEF TypeOK, SelectStop, StartDrain, Receive, Tick, EndDrain, CallFlush,
       OutsideFlush, Refusals
  <2>3. CASE StartShip
    BY <2>3, SettleRefusals DEF StartShip, ShipProgress, Refusals
  <2>4. CASE Request
    BY <2>1, <2>4 DEF Request, deliveryVars, Refusals
  <2>5. CASE BackoffEnds
    BY <2>1, <2>5 DEF BackoffEnds, deliveryVars, Refusals, CtxErr
  <2>6. CASE RequestCanceled
    <3>1. ~refused'
      BY <2>6 DEF RequestCanceled, Refusals
    <3> QED
      BY <2>1, <2>6, <3>1, AttemptFailsRefusals DEF RequestCanceled
  <2>7. ASSUME NEW reply \in ReplyKinds, ReplyError(reply)
        PROVE  Refusals'
    <3>1. ~sawCancel /\ (~refused' \/ ~IsRetryable(reply))
      BY <2>7 DEF ReplyError, Refusals, IsRetryable
    <3> QED
      BY <2>1, <2>7, <3>1, AttemptFailsRefusals DEF ReplyError
  <2>8. CASE BackoffCanceled
    <3>1. ~refused'
      BY <2>8 DEF BackoffCanceled, deliveryVars, Refusals
    <3> QED
      BY <2>8, <3>1, ShipFailsRefusals DEF BackoffCanceled
  <2>9. CASE ReplyOk
    BY <2>9, SettleRefusals DEF ReplyOk
  <2> QED
    BY <1>2, <2>2, <2>3, <2>4, <2>5, <2>6, <2>7, <2>8, <2>9 DEF Worker
<1> QED
  BY <1>1, <1>2

-----------------------------------------------------------------------------
(* The invariant.                                                            *)

(* The invariant holds initially,                                            *)
LEMMA InitIInv == Init => IInv
<1> SUFFICES ASSUME Init PROVE IInv
  OBVIOUS
<1> USE DEF Init
<1>1. TypeOK
  BY InitTypeOK
<1>2. CloseProgress
  BY DEF CloseProgress, Body, done
<1>3. IntakeOver /\ Draining
  BY ConfigAssumption DEF IntakeOver, Draining, Shipping, done
<1>4. Fifo
  BY DEF Fifo
<1>5. Counted
  <2>1. Counting = {}
    BY DEF Counting
  <2> QED
    BY <2>1, FS_EmptySet DEF Counted
<1>6. ShipProgress
  BY ConfigAssumption DEF ShipProgress, Spent
<1>7. Refusals
  BY DEF Refusals
<1> QED
  BY <1>1, <1>2, <1>3, <1>4, <1>5, <1>6, <1>7 DEF IInv

(* and every step preserves it.                                              *)
LEMMA StepIInv == IInv /\ [Next]_vars => IInv'
<1> SUFFICES ASSUME IInv, [Next]_vars PROVE IInv'
  OBVIOUS
<1>1. TypeOK'
  <2>1. CASE UNCHANGED vars
    BY <2>1 DEF IInv, TypeOK, vars, producerVars, closerVars, closeFlags, workerVars, shipVars,
       intakeStats, outcomeVars, deliveryVars
  <2> QED
    BY <2>1, LogTypeOK, CloseTypeOK, WorkerTypeOK DEF IInv, Next, Finished
<1> QED
  BY <1>1, CloseProgressStep, IntakeOverStep, DrainingStep, FifoStep, CountedStep,
     ShipProgressStep, RefusalsStep DEF IInv

(* The invariant holds in every state of every instance.                     *)
THEOREM Invariance == Spec => []IInv
  BY InitIInv, StepIInv, PTL DEF Spec

(* Every variable keeps its type; queue and batch keep within their bounds.  *)
THEOREM TypeCorrect == Spec => []TypeOK
<1>1. IInv => TypeOK
  BY DEF IInv
<1> QED
  BY <1>1, Invariance, PTL

(* Between enqueue and the counters no record is lost, duplicated, reordered. *)
THEOREM FifoDelivery == Spec => []Fifo
<1>1. IInv => Fifo
  BY DEF IInv
<1> QED
  BY <1>1, Invariance, PTL
=============================================================================
