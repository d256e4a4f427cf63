-------------------------- MODULE AsyncSinkTheorems --------------------------
(***************************************************************************)
(* What follows from the invariant of AsyncSinkProofs: the safety          *)
(* properties of the sink, its action properties, and that it implements   *)
(* the promise of Delivery.                                                *)
(***************************************************************************)
EXTENDS AsyncSinkProofs

-----------------------------------------------------------------------------
(* Safety properties.                                                        *)

(* When the worker has returned, every record taken in is settled.           *)
LEMMA DoneIsSettled ==
  ASSUME IInv, queue = <<>>, batch = <<>>
  PROVE  settled = accepted
<1>1. settled \in Seq(Records)
  BY DEF IInv, TypeOK
<1>2. settled \o <<>> = settled
  BY <1>1, ConcatEmptySeq
<1>3. accepted = settled \o <<>> \o <<>>
  BY DEF IInv, Fifo
<1> QED
  BY <1>2, <1>3

(* The invariant makes the worker's return, and a Close that returned nil,   *)
(* mean that nothing is left in the queue or in hand.                        *)
LEMMA InvariantDrains == IInv => Drained
<1> SUFFICES ASSUME IInv, done \/ \E c \in Closers : cpc[c] = "closed"
             PROVE  /\ settled = accepted /\ batch = <<>> /\ queue = <<>>
                    /\ enqueued = sent + failed
  BY DEF Drained
<1>1. done
  BY DEF IInv, CloseProgress
<1>2. enqueuesDone /\ batch = <<>> /\ queue = <<>>
  BY <1>1 DEF IInv, Draining
<1>3. settled = accepted
  BY <1>2, DoneIsSettled
<1>4. Counting = {}
  BY <1>2 DEF IInv, IntakeOver, Counting
<1>5. Cardinality(Counting) = 0
  BY <1>4, FS_EmptySet
<1>6. enqueued \in Nat
  BY DEF IInv, TypeOK
<1> QED
  BY <1>2, <1>3, <1>5, <1>6 DEF IInv, Counted

(* After a Close that returned nil, or once the worker is gone, nothing is   *)
(* left in the queue or in hand, and Enqueued = Sent + Failed.               *)
THEOREM DrainedAtClose == Spec => []Drained
  BY InvariantDrains, Invariance, PTL

(* Whenever the closed flag is up, the context of the first Close is there.  *)
THEOREM ClosingContextIsKnown == Spec => []ClosingContextKnown
<1>1. IInv => ClosingContextKnown
  BY DEF IInv, CloseProgress, ClosingContextKnown
<1> QED
  BY <1>1, Invariance, PTL

(* A batch costs at most two series of MaxRetries + 1 requests.              *)
THEOREM RequestsAreBounded == Spec => []RequestsBounded
<1>1. IInv => RequestsBounded
  BY ConfigAssumption DEF IInv, TypeOK, ShipProgress, Spent, RequestsBounded, WorkerSteps
<1> QED
  BY <1>1, Invariance, PTL

-----------------------------------------------------------------------------
(* What no step does.                                                        *)

(* Once enqueuesDone is closed, the queue takes in nothing more.             *)
THEOREM IntakeIsOver == Spec => IntakeStaysOver
<1>1. IInv /\ [Next]_vars => [enqueuesDone => accepted' = accepted]_vars
  <2> SUFFICES ASSUME IInv, [Next]_vars, enqueuesDone
               PROVE  accepted' = accepted
    OBVIOUS
  <2>1. ASSUME NEW p \in Producers, Log(p) \/ Enqueue(p)
        PROVE  accepted' = accepted
    BY <2>1 DEF IInv, IntakeOver, Log, Enqueue, RLock, Refuse, SnapshotPanics,
       CountOversized, DropOversized, Snapshot, Send, DropFull, Count, Advance, Return
  <2> QED
    BY <2>1, CloseFrame, WorkerFrame DEF Next, CtxEnds, Finished, vars
<1> QED
  BY <1>1, Invariance, PTL DEF Spec, IntakeStaysOver

(* Only Request sends.                                                       *)
LEMMA OnlyRequestSends ==
  ASSUME TypeOK, [Next]_vars, tries' > tries
  PROVE  Request
<1>1. tries \in Nat
  BY DEF TypeOK
<1>2. CASE ~Worker
  <2>1. tries' = tries
    BY <1>2, LogFrame, CloseFrame DEF Next, Finished, CtxEnds, vars, workerVars, shipVars
  <2> QED
    BY <1>1, <2>1
<1>3. CASE Worker /\ ~Request
  <2>1. tries' \in {0, tries}
    BY <1>3 DEF Worker, SelectStop, StartDrain, Receive, Tick, EndDrain, StartShip,
       RequestCanceled, ReplyOk, ReplyError, BackoffEnds, BackoffCanceled, OutsideFlush,
       shipVars, AttemptFails, ShipFails, Resend, Settle
  <2> QED
    BY <1>1, <2>1
<1> QED
  BY <1>2, <1>3

(* A batch the collector refused is not sent again.                          *)
THEOREM RefusedIsNotResent == Spec => RefusedNotResent
<1>1. IInv /\ [Next]_vars => [tries' > tries => ~refused]_vars
  BY OnlyRequestSends DEF IInv, Refusals, Request
<1> QED
  BY <1>1, Invariance, PTL DEF Spec, RefusedNotResent

(* ship gives a batch up for good because its attempts are used up without   *)
(* the cancellation, because it was refused, or because Close's context      *)
(* ended: the cancellation by Close alone always leads to a second series.   *)
LEMMA GivingUp ==
  ASSUME IInv, NEW cancelSeen,
         ShipFails(cancelSeen), failed' > failed,
         CtxErr # "live", wpc \in {"request", "inflight", "backoff"},
         CtxErr = "canceled" => cancelSeen
  PROVE  closed /\ ctx[closeCtx] # "live"
<1>1. ~MayResend(cancelSeen)
  <2>1. failed' # failed
    BY DEF IInv, TypeOK
  <2> QED
    BY <2>1, Zenon DEF ShipFails, Resend, outcomeVars
<1>2. CASE shipCtx = "own"
  <2>1. cancelSeen /\ closed
    BY <1>2 DEF IInv, CtxErr, CloseProgress
  <2>2. ~second
    BY <1>2 DEF IInv, ShipProgress
  <2> QED
    BY <1>1, <2>1, <2>2 DEF MayResend
<1>3. CASE shipCtx = "close"
  BY <1>3 DEF IInv, CtxErr, ShipProgress
<1>4. shipCtx \in {"own", "close"}
  BY DEF IInv, TypeOK
<1> QED
  BY <1>2, <1>3, <1>4

(* Why records are counted as failed.                                        *)
THEOREM FailuresAreExplained == Spec => FailureExplained
<1> DEFINE Explained ==
      \/ ~Shippable(batch)
      \/ refused'
      \/ attempt = MaxRetries /\ (shipCtx = "own" => ~sawCancel)
      \/ closed /\ ctx[closeCtx] # "live"
<1>1. IInv /\ [Next]_vars => [failed' > failed => Explained]_vars
  <2> SUFFICES ASSUME IInv, [Next]_vars, failed' > failed
               PROVE  Explained
    OBVIOUS
  <2>1. failed' # failed
    BY DEF IInv, TypeOK
  <2>2. Worker
    BY <2>1, LogFrame, CloseFrame DEF Next, Finished, CtxEnds, vars, outcomeVars
  <2>3. CASE SelectStop \/ StartDrain \/ Receive \/ Tick \/ EndDrain \/ Request \/ BackoffEnds
    BY <2>1, <2>3 DEF SelectStop, StartDrain, Receive, Tick, EndDrain, Request, BackoffEnds,
       OutsideFlush, outcomeVars
  <2>4. CASE StartShip
    BY <2>1, <2>4 DEF StartShip, outcomeVars
  <2>5. CASE RequestCanceled
    <3>1. ShipFails(sawCancel \/ CtxErr = "canceled")
      BY <2>1, <2>5 DEF RequestCanceled, AttemptFails, outcomeVars
    <3> QED
      BY <2>5, <3>1, GivingUp DEF RequestCanceled
  <2>6. CASE BackoffCanceled
    BY <2>6, GivingUp DEF BackoffCanceled
  <2>7. ASSUME NEW reply \in ReplyKinds, ReplyError(reply)
        PROVE  Explained
    <3>1. LastAttempt \/ ~IsRetryable(reply)
      BY <2>1, <2>7 DEF ReplyError, AttemptFails, outcomeVars
    <3>2. CASE LastAttempt
      BY <2>7, <3>2 DEF ReplyError, LastAttempt, IInv, Refusals
    <3>3. CASE ~IsRetryable(reply)
      BY <2>7, <3>3 DEF ReplyError, IsRetryable
    <3> QED
      BY <3>1, <3>2, <3>3
  <2>8. CASE ReplyOk
    BY <2>1, <2>8 DEF ReplyOk, Settle
  <2> QED
    BY <2>2, <2>3, <2>4, <2>5, <2>6, <2>7, <2>8 DEF Worker
<1> QED
  BY <1>1, Invariance, PTL DEF Spec, FailureExplained
-----------------------------------------------------------------------------
(* The sink implements Delivery.                                             *)

(* Unsettled records are those in the batch and in the queue.                *)
LEMMA UnsettledRecords ==
  ASSUME TypeOK, Fifo
  PROVE  /\ Len(accepted) = Len(settled) + Len(batch) + Len(queue)
         /\ Promise!Unsettled = Len(batch) + Len(queue)
<1>1. settled \in Seq(Records) /\ batch \in Seq(Records) /\ queue \in Seq(Records)
  BY DEF TypeOK
<1>2. /\ settled \o batch \in Seq(Records)
      /\ Len(settled \o batch) = Len(settled) + Len(batch)
  BY ONLY <1>1, ConcatProperties
<1>3. Len((settled \o batch) \o queue) = Len(settled \o batch) + Len(queue)
  BY ONLY <1>1, <1>2, ConcatProperties
<1>4. Len(settled) \in Nat /\ Len(batch) \in Nat /\ Len(queue) \in Nat
  BY <1>1, LenProperties
<1> QED
  BY <1>2, <1>3, <1>4 DEF Fifo, Promise!Unsettled

(* Counting a batch settles the oldest unsettled records.                    *)
LEMMA BatchIsNext ==
  ASSUME TypeOK, Fifo
  PROVE  settled \o batch = SubSeq(accepted, 1, Len(settled) + Len(batch))
<1>1. settled \in Seq(Records) /\ batch \in Seq(Records) /\ queue \in Seq(Records)
  BY DEF TypeOK
<1> DEFINE front == settled \o batch
<1>2. front \in Seq(Records) /\ Len(front) = Len(settled) + Len(batch)
  BY ONLY <1>1, ConcatProperties
<1>3. accepted = front \o queue
  BY DEF Fifo
<1> HIDE DEF front
<1>4. front \o queue \in Seq(Records) /\ Len(front \o queue) = Len(front) + Len(queue)
  BY ONLY <1>1, <1>2, ConcatProperties
<1>5. Len(front) \in Nat /\ Len(queue) \in Nat
  BY <1>1, <1>2, LenProperties
<1>6. SubSeq(front \o queue, 1, Len(front)) = front
  BY ONLY <1>1, <1>2, <1>4, <1>5, SubSeqOfConcat1, SubSeqFull
<1> QED
  BY <1>2, <1>3, <1>6 DEF front

(* Counting a batch is a Settle of the promise, the last one a SettleAndFinish. *)
LEMMA SettleIsAbstract ==
  ASSUME IInv, NEW ok, Settle(ok), Shipping, UNCHANGED <<accepted, enqueuesDone>>
  PROVE  Promise!Settle \/ Promise!SettleAndFinish
<1>1. TypeOK /\ Fifo /\ batch # <<>> /\ ~done
  BY DEF IInv, Draining, Shipping, done
<1>2. UNCHANGED <<accepted, enqueuesDone>>
  OBVIOUS
<1>3. settled' = settled \o batch /\ wpc' = back
  BY DEF Settle
<1>4. Len(batch) \in Nat \ {0} /\ Len(queue) \in Nat /\ Len(settled) \in Nat
  BY <1>1, EmptySeq, LenProperties DEF TypeOK
<1>5. CASE back # "exit"
  <2>1. done' = done
    BY <1>1, <1>3, <1>5 DEF done
  <2>2. Len(batch) \in 1..Promise!Unsettled
    BY <1>1, <1>4, UnsettledRecords
  <2>3. settled' = SubSeq(accepted, 1, Len(settled) + Len(batch))
    BY <1>1, <1>3, BatchIsNext
  <2> QED
    BY <1>2, <2>1, <2>2, <2>3 DEF Promise!Settle
<1>6. CASE back = "exit"
  <2>1. enqueuesDone /\ queue = <<>>
    BY <1>6 DEF IInv, Draining
  <2>2. Len(accepted) = Len(settled) + Len(batch)
    BY <1>1, <1>4, <2>1, UnsettledRecords, EmptySeq
  <2>3. settled' = accepted
    BY <1>1, <1>3, <2>2, BatchIsNext, SubSeqFull DEF TypeOK
  <2>4. settled # accepted
    BY <1>4, <2>2
  <2>5. done'
    BY <1>3, <1>6 DEF done
  <2> QED
    BY <1>1, <1>2, <2>1, <2>3, <2>4, <2>5 DEF Promise!SettleAndFinish
<1> QED
  BY <1>5, <1>6

(* Every step of the sink is a step of the promise, or changes nothing of it. *)
LEMMA StepIsAbstract ==
  ASSUME IInv, [Next]_vars
  PROVE  [Promise!Next]_(Promise!vars)
<1> USE DEF Promise!Next, Promise!vars
<1>1. ASSUME NEW p \in Producers, Send(p)
      PROVE  Promise!Accept
  <2>1. ppc[p] = "send" /\ rec[p] \in Records
    BY <1>1 DEF Send, Advance, IInv, TypeOK
  <2>2. ~enqueuesDone
    BY <2>1 DEF IInv, IntakeOver
  <2>3. Len(queue) < QueueSize /\ Len(batch) <= BatchSize
    BY <1>1 DEF Send, HasRoom, IInv, TypeOK
  <2>4. Len(batch) \in Nat /\ Len(queue) \in Nat
    BY LenProperties DEF IInv, TypeOK
  <2>5. Promise!Unsettled < QueueSize + BatchSize
    BY <2>3, <2>4, UnsettledRecords, ConfigAssumption DEF IInv
  <2>6. accepted' = Append(accepted, rec[p])
    BY <1>1 DEF Send
  <2>7. UNCHANGED <<settled, enqueuesDone, done>>
    BY <1>1 DEF Send, Advance, UnchangedByEnqueue, outcomeVars, closerVars, closeFlags,
       workerVars, done
  <2> QED
    BY <2>1, <2>2, <2>5, <2>6, <2>7 DEF Promise!Accept
<1>2. ASSUME NEW p \in Producers, Log(p) \/ Enqueue(p), ~Send(p)
      PROVE  UNCHANGED Promise!vars
  <2>1. accepted' = accepted
    BY <1>2 DEF Log, Enqueue, RLock, Refuse, SnapshotPanics, CountOversized,
       DropOversized, Snapshot, DropFull, Count, Return
  <2> QED
    BY <1>2, <2>1, LogFrame DEF outcomeVars, closerVars, closeFlags, workerVars, done
<1>3. ASSUME NEW c \in Closers, EndIntake(c)
      PROVE  Promise!EndIntake
  <2>1. ~enqueuesDone
    BY <1>3 DEF EndIntake, Goto, IInv, CloseProgress, Body
  <2> QED
    BY <1>3, <2>1 DEF EndIntake, Goto, Promise!EndIntake, outcomeVars, workerVars, done
<1>4. ASSUME NEW c \in Closers, Close(c) \/ CloseStep(c) \/ CtxEnds(c), ~EndIntake(c)
      PROVE  UNCHANGED Promise!vars
  BY <1>4 DEF Close, CloseStep, EnterOnce, FirstStore, PassOnce, SetClosed, Cancel, CloseStop,
     AnnounceLock, ReturnNil, ReturnCtxErr, Goto, CtxEnds, closerVars, closeFlags,
     outcomeVars, workerVars, done
<1>5. CASE Worker
  <2>1. UNCHANGED <<accepted, enqueuesDone>> /\ ~done
    BY <1>5, WorkerFrame, WorkerRunning DEF closerVars, closeFlags
  <2>2. CASE \E ok \in BOOLEAN : Settle(ok) /\ Shipping
    BY <2>1, <2>2, SettleIsAbstract
  <2>3. CASE UNCHANGED settled /\ ~done'
    BY <2>1, <2>3 DEF done
  <2>4. CASE SelectStop \/ StartDrain \/ Receive \/ Tick \/ Request \/ BackoffEnds
    BY <2>1, <2>3, <2>4 DEF SelectStop, StartDrain, Receive, Tick, Request, BackoffEnds,
       CallFlush, OutsideFlush, outcomeVars, done
  <2>5. CASE EndDrain
    <3>1. UNCHANGED settled /\ enqueuesDone /\ queue = <<>>
      BY <2>5 DEF EndDrain, OutsideFlush, outcomeVars, IInv, Draining
    <3>2. CASE batch = <<>>
      <4>1. settled = accepted
        BY <3>1, <3>2, DoneIsSettled
      <4>2. done'
        BY <2>5, <3>2 DEF EndDrain, done
      <4> QED
        BY <2>1, <3>1, <4>1, <4>2 DEF Promise!Finish
    <3>3. CASE batch # <<>>
      BY <2>3, <2>5, <3>1, <3>3 DEF EndDrain, CallFlush, done
    <3> QED
      BY <3>2, <3>3
  <2>6. CASE StartShip
    BY <2>2, <2>3, <2>6 DEF StartShip, Shipping, outcomeVars, done
  <2>7. ASSUME NEW cancelSeen, ShipFails(cancelSeen), Shipping
        PROVE  [Promise!Next]_(Promise!vars)
    BY <2>2, <2>3, <2>7 DEF ShipFails, Resend, outcomeVars, done
  <2>8. ASSUME NEW reply, NEW cancelSeen, AttemptFails(reply, cancelSeen), Shipping
        PROVE  [Promise!Next]_(Promise!vars)
    BY <2>3, <2>7, <2>8 DEF AttemptFails, outcomeVars, done
  <2>9. CASE RequestCanceled \/ BackoffCanceled \/ \E reply \in ReplyKinds : ReplyError(reply)
    BY <2>7, <2>8, <2>9 DEF RequestCanceled, BackoffCanceled, ReplyError, Shipping
  <2>10. CASE ReplyOk
    BY <2>2, <2>10 DEF ReplyOk, Shipping
  <2> QED
    BY <1>5, <2>4, <2>5, <2>6, <2>9, <2>10 DEF Worker
<1>6. CASE UNCHANGED vars
  BY <1>6 DEF vars, outcomeVars, closerVars, closeFlags, workerVars, done
<1> QED
  BY <1>1, <1>2, <1>3, <1>4, <1>5, <1>6 DEF Next, Finished

(* The sink implements the safety part of Delivery: bounded intake, settling *)
(* in order, intake that ends once, finishing only when all is settled.      *)
THEOREM ImplementsDelivery == Spec => Promise!SafeSpec
<1>1. Init => Promise!Init
  BY DEF Init, Promise!Init, done
<1>2. IInv /\ [Next]_vars => [Promise!Next]_(Promise!vars)
  BY StepIsAbstract
<1> QED
  BY <1>1, <1>2, Invariance, PTL DEF Spec, Promise!SafeSpec
-----------------------------------------------------------------------------
(* The tallies: Sent against the acknowledged records, and the log calls    *)
(* against their outcomes.                                                  *)

(* What is known of a record taken in.                                        *)
LEMMA TakenIn ==
  ASSUME TypeOK, Numbered, NEW i \in 1..Len(accepted)
  PROVE  /\ accepted[i] \in Records /\ accepted[i].from \in Producers
         /\ accepted[i].n \in Nat /\ calls[accepted[i].from] \in Nat
         /\ accepted[i].n <= calls[accepted[i].from]
         /\ ppc[accepted[i].from] \in {"want", "locked", "oversized", "send"} =>
              accepted[i].n < calls[accepted[i].from]
<1>1. accepted[i] \in Records
  BY ElementOfSeq, LenProperties DEF TypeOK
<1>2. accepted[i].from \in Producers /\ accepted[i].n \in Nat
  BY <1>1 DEF Records
<1> QED
  BY <1>1, <1>2 DEF TypeOK, Numbered

(* A call in progress is newer than all that its producer has had taken in,  *)
(* so the record it sends is a new one.                                      *)
LEMMA NumberedStep ==
  ASSUME TypeOK, Numbered, [Next]_vars
  PROVE  Numbered'
<1>1. ASSUME NEW p \in Producers, Log(p)
      PROVE  Numbered'
  <2>1. PICK s \in Shapes :
          rec' = [rec EXCEPT ![p] = [from |-> p, n |-> calls[p] + 1, shape |-> s]]
    BY <1>1 DEF Log
  <2>2. /\ rec'[p].from = p /\ rec'[p].n = calls'[p] /\ calls'[p] = calls[p] + 1
        /\ \A q \in Producers \ {p} : rec'[q] = rec[q] /\ calls'[q] = calls[q] /\ ppc'[q] = ppc[q]
    BY <1>1, <2>1 DEF TypeOK, Log
  <2>3. accepted' = accepted
    BY <1>1 DEF Log
  <2>4. ASSUME NEW i \in 1..Len(accepted)
        PROVE  LET r == accepted'[i] IN
                 /\ r.n <= calls'[r.from]
                 /\ ppc'[r.from] \in {"want", "locked", "oversized", "send"} => r.n < calls'[r.from]
    <3>1. CASE accepted[i].from = p
      BY <2>2, <2>3, <3>1, TakenIn
    <3>2. CASE accepted[i].from # p
      BY <2>2, <2>3, <3>2, TakenIn
    <3> QED
      BY <3>1, <3>2
  <2>5. \A q \in Producers : (ppc'[q] # "idle") => rec'[q].from = q /\ rec'[q].n = calls'[q]
    BY <2>2 DEF Numbered
  <2>6. \A i, j \in 1..Len(accepted') : accepted'[i] = accepted'[j] => i = j
    BY <2>3 DEF Numbered
  <2> QED
    BY <2>3, <2>4, <2>5, <2>6 DEF Numbered
<1>2. ASSUME NEW p \in Producers, Enqueue(p), ~Send(p)
      PROVE  Numbered'
  <2>1. UNCHANGED <<calls, accepted>>
    BY <1>2, EnqueueFrame DEF Enqueue, RLock, Refuse, SnapshotPanics, CountOversized,
       DropOversized, Snapshot, DropFull, Count, Return
  <2>2. \A q \in Producers : ppc'[q] # "idle" => ppc[q] # "idle" /\ rec'[q] = rec[q]
    BY <1>2 DEF TypeOK, Enqueue, RLock, Refuse, SnapshotPanics, CountOversized, DropOversized, Snapshot, DropFull, Count, Advance, Return
  <2>3. \A q \in Producers : ppc'[q] \in {"want", "locked", "oversized", "send"} =>
                               ppc[q] \in {"want", "locked", "oversized", "send"}
    BY <1>2 DEF TypeOK, Enqueue, RLock, Refuse, SnapshotPanics, CountOversized, DropOversized, Snapshot, DropFull, Count, Advance, Return
  <2>4. ASSUME NEW i \in 1..Len(accepted)
        PROVE  LET r == accepted'[i] IN
                 /\ r.n <= calls'[r.from]
                 /\ ppc'[r.from] \in {"want", "locked", "oversized", "send"} => r.n < calls'[r.from]
    BY <2>1, <2>3, TakenIn
  <2>5. \A q \in Producers : (ppc'[q] # "idle") => rec'[q].from = q /\ rec'[q].n = calls'[q]
    BY <2>1, <2>2 DEF Numbered
  <2>6. \A i, j \in 1..Len(accepted') : accepted'[i] = accepted'[j] => i = j
    BY <2>1 DEF Numbered
  <2> QED
    BY <2>1, <2>4, <2>5, <2>6 DEF Numbered
<1>3. ASSUME NEW p \in Producers, Send(p)
      PROVE  Numbered'
  <2>1. UNCHANGED <<calls, rec>> /\ accepted' = Append(accepted, rec[p]) /\ ppc[p] = "send"
    BY <1>3 DEF Send, Advance, UnchangedByEnqueue
  <2>2. rec[p] \in Records /\ rec[p].from = p /\ rec[p].n = calls[p]
    BY <2>1 DEF TypeOK, Numbered
  <2>3. /\ Len(accepted') = Len(accepted) + 1 /\ Len(accepted) \in Nat
        /\ \A i \in 1..Len(accepted) : accepted'[i] = accepted[i]
        /\ accepted'[Len(accepted) + 1] = rec[p]
    BY <2>1, <2>2, AppendProperties, LenProperties DEF TypeOK
  <2>4. ppc'[p] = "count" /\ \A q \in Producers \ {p} : ppc'[q] = ppc[q]
    BY <1>3 DEF TypeOK, Send, Advance
  <2>5. ASSUME NEW i \in 1..Len(accepted)
        PROVE  accepted[i] # rec[p]
    <3>1. CASE accepted[i].from = p
      <4>1. accepted[i].n < calls[p] /\ accepted[i].n \in Nat /\ calls[p] \in Nat
        BY <2>1, <3>1, TakenIn
      <4> QED
        BY <2>2, <4>1
    <3>2. CASE accepted[i].from # p
      BY <2>2, <3>2
    <3> QED
      BY <3>1, <3>2
  <2>6. \A q \in Producers : (ppc'[q] # "idle") => rec'[q].from = q /\ rec'[q].n = calls'[q]
    BY <2>1, <2>4 DEF Numbered
  <2>7. ASSUME NEW i \in 1..Len(accepted')
        PROVE  LET r == accepted'[i] IN
                 /\ r.n <= calls'[r.from]
                 /\ ppc'[r.from] \in {"want", "locked", "oversized", "send"} => r.n < calls'[r.from]
    <3>1. CASE i \in 1..Len(accepted)
      BY <2>1, <2>3, <2>4, <3>1, TakenIn
    <3>2. CASE i = Len(accepted) + 1
      <4>1. calls[p] \in Nat
        BY DEF TypeOK
      <4> QED
        BY <2>1, <2>2, <2>3, <2>4, <3>2, <4>1
    <3> QED
      BY <2>3, <3>1, <3>2
  <2>8. \A i, j \in 1..Len(accepted') : accepted'[i] = accepted'[j] => i = j
    <3>1. \A i \in 1..Len(accepted') : i \in 1..Len(accepted) \/ i = Len(accepted) + 1
      BY <2>3
    <3>2. \A i, j \in 1..Len(accepted) : accepted[i] = accepted[j] => i = j
      BY DEF Numbered
    <3> QED
      BY <2>3, <2>5, <3>1, <3>2
  <2> QED
    BY <2>6, <2>7, <2>8 DEF Numbered
<1>4. CASE UNCHANGED <<ppc, rec, calls, accepted>>
  BY <1>4 DEF Numbered
<1> QED
  BY <1>1, <1>2, <1>3, <1>4, CloseFrame, WorkerFrame
     DEF Next, Finished, CtxEnds, vars, producerVars

(* A sequence without repetitions has as many elements as its length.        *)
LEMMA DistinctElements ==
  ASSUME NEW S, NEW s \in Seq(S),
         \A i, j \in 1..Len(s) : s[i] = s[j] => i = j
  PROVE  /\ IsFiniteSet(ToSet(s)) /\ Cardinality(ToSet(s)) = Len(s)
         /\ \A r : r \in ToSet(s) <=> \E i \in 1..Len(s) : s[i] = r
<1>1. Len(s) \in Nat /\ DOMAIN s = 1..Len(s) /\ s \in [1..Len(s) -> S]
  BY LenProperties
<1>2. \A r : r \in ToSet(s) <=> \E i \in 1..Len(s) : s[i] = r
  BY <1>1 DEF ToSet
<1>3. IsFiniteSet(1..Len(s)) /\ Cardinality(1..Len(s)) = Len(s)
  BY <1>1, FS_Interval
<1>4. [i \in 1..Len(s) |-> s[i]] \in Bijection(1..Len(s), ToSet(s))
  BY <1>1, <1>2 DEF Bijection, Injection, IsInjective, Surjection
<1>5. ExistsBijection(1..Len(s), ToSet(s))
  BY <1>4 DEF ExistsBijection
<1> QED
  BY <1>2, <1>3, <1>5, FS_Bijection

(* The place in the order of intake of what is settled and in the batch.     *)
LEMMA PlaceOfRecords ==
  ASSUME TypeOK, Fifo
  PROVE  /\ Len(settled) \in Nat /\ Len(batch) \in Nat /\ Len(queue) \in Nat
         /\ Len(accepted) = Len(settled) + Len(batch) + Len(queue)
         /\ \A i \in 1..Len(settled) : accepted[i] = settled[i]
         /\ \A i \in 1..Len(batch) : accepted[Len(settled) + i] = batch[i]
<1> DEFINE front == settled \o batch
<1>1. /\ settled \in Seq(Records) /\ batch \in Seq(Records) /\ queue \in Seq(Records)
      /\ Len(settled) \in Nat /\ Len(batch) \in Nat /\ Len(queue) \in Nat
  BY LenProperties DEF TypeOK
<1>2. /\ front \in Seq(Records) /\ Len(front) = Len(settled) + Len(batch)
      /\ \A i \in 1..(Len(settled) + Len(batch)) :
           front[i] = IF i <= Len(settled) THEN settled[i] ELSE batch[i - Len(settled)]
  BY ONLY <1>1, ConcatProperties
<1>3. accepted = front \o queue
  BY DEF Fifo
<1> HIDE DEF front
<1>4. /\ Len(front \o queue) = Len(front) + Len(queue)
      /\ \A i \in 1..(Len(front) + Len(queue)) :
           (front \o queue)[i] = IF i <= Len(front) THEN front[i] ELSE queue[i - Len(front)]
  BY ONLY <1>1, <1>2, ConcatProperties
<1>5. \A i \in 1..Len(front) : accepted[i] = front[i]
  BY <1>1, <1>2, <1>3, <1>4
<1>6. ASSUME NEW i \in 1..Len(settled)
      PROVE  accepted[i] = settled[i]
  <2>1. i \in 1..Len(front) /\ i \in 1..(Len(settled) + Len(batch)) /\ i <= Len(settled)
    BY <1>1, <1>2
  <2> QED
    BY <1>2, <1>5, <2>1
<1>7. ASSUME NEW i \in 1..Len(batch)
      PROVE  accepted[Len(settled) + i] = batch[i]
  <2>1. /\ Len(settled) + i \in 1..Len(front)
        /\ ~(Len(settled) + i <= Len(settled)) /\ (Len(settled) + i) - Len(settled) = i
    BY <1>1, <1>2
  <2> QED
    BY <1>1, <1>2, <1>5, <2>1
<1> QED
  BY <1>1, <1>2, <1>3, <1>4, <1>6, <1>7

(* Settling a batch settles its records and keeps those settled before.      *)
LEMMA SettledGrows ==
  ASSUME TypeOK, NEW ok, Settle(ok)
  PROVE  /\ \A i \in 1..Len(settled) : \E k \in 1..Len(settled') : settled'[k] = settled[i]
         /\ \A i \in 1..Len(batch) : \E k \in 1..Len(settled') : settled'[k] = batch[i]
<1>1. /\ settled \in Seq(Records) /\ batch \in Seq(Records)
      /\ Len(settled) \in Nat /\ Len(batch) \in Nat
  BY LenProperties DEF TypeOK
<1>2. settled' = settled \o batch
  BY DEF Settle
<1>3. /\ Len(settled') = Len(settled) + Len(batch)
      /\ \A i \in 1..(Len(settled) + Len(batch)) :
           settled'[i] = IF i <= Len(settled) THEN settled[i] ELSE batch[i - Len(settled)]
  BY ONLY <1>1, <1>2, ConcatProperties
<1>4. ASSUME NEW i \in 1..Len(settled)
      PROVE  i \in 1..Len(settled') /\ settled'[i] = settled[i]
  BY <1>1, <1>3
<1>5. ASSUME NEW i \in 1..Len(batch)
      PROVE  Len(settled) + i \in 1..Len(settled') /\ settled'[Len(settled) + i] = batch[i]
  <2>1. /\ Len(settled) + i \in 1..(Len(settled) + Len(batch))
        /\ ~(Len(settled) + i <= Len(settled)) /\ (Len(settled) + i) - Len(settled) = i
    BY <1>1
  <2> QED
    BY <1>3, <2>1
<1> QED
  BY <1>4, <1>5

(* A failed batch is settled and not acknowledged.                           *)
LEMMA SettleAcknowledged ==
  ASSUME TypeOK, Acknowledged, Settle(FALSE), acked' = acked
  PROVE  Acknowledged'
<1>1. sent' = sent
  BY DEF Settle
<1>2. ASSUME NEW r \in acked
      PROVE  \E k \in 1..Len(settled') : settled'[k] = r
  <2>1. PICK i \in 1..Len(settled) : settled[i] = r
    BY DEF Acknowledged
  <2> QED
    BY <2>1, SettledGrows
<1> QED
  BY <1>1, <1>2 DEF Acknowledged, SentIsAcked

(* A ship that fails acknowledges nothing,                                   *)
LEMMA ShipFailsAcknowledged ==
  ASSUME TypeOK, Acknowledged, NEW cancelSeen, ShipFails(cancelSeen), acked' = acked
  PROVE  Acknowledged'
  BY SettleAcknowledged DEF ShipFails, Resend, outcomeVars, Acknowledged, SentIsAcked

(* nor does a failed attempt.                                                *)
LEMMA AttemptFailsAcknowledged ==
  ASSUME TypeOK, Acknowledged, NEW reply, NEW cancelSeen,
         AttemptFails(reply, cancelSeen), acked' = acked
  PROVE  Acknowledged'
  BY ShipFailsAcknowledged DEF AttemptFails, outcomeVars, Acknowledged, SentIsAcked

(* The records of a batch are different from each other and from all that    *)
(* was acknowledged before: Sent grows by their number.                      *)
LEMMA ReplyOkAcknowledged ==
  ASSUME TypeOK, Fifo, Numbered, Acknowledged, ReplyOk
  PROVE  Acknowledged'
<1>1. /\ acked' = acked \union ToSet(batch) /\ sent' = sent + Len(batch) /\ Settle(TRUE)
      /\ batch \in Seq(Records) /\ sent \in Nat
  BY DEF ReplyOk, Settle, TypeOK
<1>2. \A i, j \in 1..Len(batch) : batch[i] = batch[j] => i = j
  <2> SUFFICES ASSUME NEW i \in 1..Len(batch), NEW j \in 1..Len(batch), batch[i] = batch[j]
               PROVE  i = j
    OBVIOUS
  <2>1. accepted[Len(settled) + i] = accepted[Len(settled) + j]
    BY PlaceOfRecords
  <2>2. Len(settled) + i \in 1..Len(accepted) /\ Len(settled) + j \in 1..Len(accepted)
    BY PlaceOfRecords
  <2>3. Len(settled) + i = Len(settled) + j
    BY <2>1, <2>2, Zenon DEF Numbered
  <2> QED
    BY <2>3, PlaceOfRecords
<1>3. /\ IsFiniteSet(ToSet(batch)) /\ Cardinality(ToSet(batch)) = Len(batch)
      /\ \A r : r \in ToSet(batch) <=> \E i \in 1..Len(batch) : batch[i] = r
  BY <1>1, <1>2, DistinctElements
<1>4. ASSUME NEW r \in acked, r \in ToSet(batch)
      PROVE  FALSE
  <2>1. PICK i \in 1..Len(settled) : settled[i] = r
    BY DEF Acknowledged
  <2>2. PICK j \in 1..Len(batch) : batch[j] = r
    BY <1>3, <1>4
  <2>3. accepted[i] = accepted[Len(settled) + j]
    BY <2>1, <2>2, PlaceOfRecords
  <2>4. i \in 1..Len(accepted) /\ Len(settled) + j \in 1..Len(accepted)
    BY PlaceOfRecords
  <2>5. i = Len(settled) + j
    BY <2>3, <2>4, Zenon DEF Numbered
  <2> QED
    BY <2>5, PlaceOfRecords
<1>5. acked \intersect ToSet(batch) = {} /\ IsFiniteSet(acked) /\ sent = Cardinality(acked)
  BY <1>4 DEF Acknowledged, SentIsAcked
<1>6. /\ IsFiniteSet(acked')
      /\ Cardinality(acked') = Cardinality(acked) + Cardinality(ToSet(batch)) - Cardinality({})
  BY <1>1, <1>3, <1>5, FS_Union
<1>7. sent' = Cardinality(acked')
  BY <1>1, <1>3, <1>5, <1>6, FS_EmptySet, FS_CardinalityType
<1>8. ASSUME NEW r \in acked'
      PROVE  \E k \in 1..Len(settled') : settled'[k] = r
  <2>1. CASE r \in acked
    BY <1>1, <2>1, SettledGrows DEF Acknowledged
  <2>2. CASE r \in ToSet(batch)
    BY <1>1, <1>3, <2>2, SettledGrows
  <2> QED
    BY <1>1, <2>1, <2>2
<1> QED
  BY <1>6, <1>7, <1>8 DEF Acknowledged, SentIsAcked

(* Every step keeps Sent equal to the number of acknowledged records.        *)
LEMMA AcknowledgedStep ==
  ASSUME TypeOK, Fifo, Numbered, Acknowledged, [Next]_vars
  PROVE  Acknowledged'
<1>1. CASE ~Worker
  <2>1. UNCHANGED <<acked, settled, sent>>
    BY <1>1, LogFrame, CloseFrame
       DEF Next, Finished, CtxEnds, vars, outcomeVars, deliveryVars
  <2> QED
    BY <2>1 DEF Acknowledged, SentIsAcked
<1>2. CASE SelectStop \/ StartDrain \/ Receive \/ Tick \/ EndDrain \/ Request \/ BackoffEnds
  BY <1>2 DEF SelectStop, StartDrain, Receive, Tick, EndDrain, Request, BackoffEnds,
     OutsideFlush, outcomeVars, deliveryVars, Acknowledged, SentIsAcked
<1>3. CASE StartShip
  BY <1>3, SettleAcknowledged DEF StartShip, outcomeVars, Acknowledged, SentIsAcked
<1>4. CASE RequestCanceled \/ BackoffCanceled \/ \E reply \in ReplyKinds : ReplyError(reply)
  BY <1>4, ShipFailsAcknowledged, AttemptFailsAcknowledged
     DEF RequestCanceled, BackoffCanceled, ReplyError, deliveryVars
<1>5. CASE ReplyOk
  BY <1>5, ReplyOkAcknowledged
<1> QED
  BY <1>1, <1>2, <1>3, <1>4, <1>5 DEF Worker

(* There are finitely many log calls, and finitely many are in progress.     *)
LEMMA FiniteCalls ==
  /\ IsFiniteSet(CallSet) /\ CallsMade = Cardinality(CallSet) /\ CallsMade \in Nat
  /\ IsFiniteSet(InCall) /\ Cardinality(InCall) \in Nat
<1>1. IsFiniteSet(1..MaxLogs)
  BY ConfigAssumption, FS_Interval
<1>2. IsFiniteSet(Producers \X (1..MaxLogs))
  BY <1>1, ProducersAssumption, FS_Product
<1>3. CallSet \subseteq Producers \X (1..MaxLogs) /\ InCall \subseteq Producers
  BY DEF CallSet, InCall
<1>4. IsFiniteSet(CallSet) /\ IsFiniteSet(InCall)
  BY <1>2, <1>3, ProducersAssumption, FS_Subset
<1> QED
  BY <1>4, FS_CardinalityType DEF CallSet, CallsMade

(* A call that begins is one more made and one more in progress.             *)
LEMMA CallBegins ==
  ASSUME TypeOK, NEW p \in Producers, Log(p)
  PROVE  CallsMade' = CallsMade + 1 /\ Cardinality(InCall') = Cardinality(InCall) + 1
<1> DEFINE new == <<p, calls[p] + 1>>
<1>1. /\ ppc[p] = "idle" /\ ppc' = [ppc EXCEPT ![p] = "want"]
      /\ calls[p] < MaxLogs /\ calls' = [calls EXCEPT ![p] = calls[p] + 1]
      /\ calls \in [Producers -> Nat] /\ ppc \in [Producers -> ProducerSteps]
  BY DEF Log, TypeOK
<1>2. InCall' = InCall \union {p} /\ p \notin InCall
  BY <1>1 DEF InCall
<1>3. new \in Producers \X (1..MaxLogs) /\ new[1] = p /\ new[2] = calls[p] + 1
  BY <1>1, ConfigAssumption
<1>4. new \notin CallSet
  BY <1>1, <1>3 DEF CallSet
<1>5. ASSUME NEW q \in Producers, NEW n \in 1..MaxLogs
      PROVE  n <= calls'[q] <=> n <= calls[q] \/ <<q, n>> = new
  BY <1>1
<1> HIDE DEF new
<1>6. CallSet' = CallSet \union {new}
  <2>1. ASSUME NEW k \in Producers \X (1..MaxLogs)
        PROVE  k \in CallSet' <=> k \in CallSet \union {new}
    <3>1. k[1] \in Producers /\ k[2] \in 1..MaxLogs /\ k = <<k[1], k[2]>>
      OBVIOUS
    <3> QED
      BY <1>5, <3>1 DEF CallSet
  <2>2. CallSet \subseteq Producers \X (1..MaxLogs) /\ CallSet' \subseteq Producers \X (1..MaxLogs)
    BY DEF CallSet
  <2> QED
    BY <1>3, <2>1, <2>2
<1>7. Cardinality(CallSet') = Cardinality(CallSet) + 1
  BY <1>4, <1>6, FiniteCalls, FS_AddElement
<1>8. CallsMade' = Cardinality(CallSet')
  BY DEF CallsMade, CallSet
<1> QED
  BY <1>2, <1>7, <1>8, FiniteCalls, FS_AddElement

(* A call that returns is one less in progress.                              *)
LEMMA CallReturns ==
  ASSUME TypeOK, NEW p \in Producers, Return(p), ppc[p] # "idle"
  PROVE  Cardinality(InCall') = Cardinality(InCall) - 1
<1>1. InCall' = InCall \ {p} /\ p \in InCall
  BY DEF TypeOK, Return, InCall
<1> QED
  BY <1>1, FiniteCalls, FS_RemoveElement

(* A call is counted once, by Enqueued, by Dropped or by its panic, at the   *)
(* step that returns.                                                        *)
LEMMA EnqueueAccounted ==
  ASSUME TypeOK, Accounted, NEW p \in Producers, Enqueue(p)
  PROVE  CallsMade' = enqueued' + dropped' + leaks' + Cardinality(InCall')
<1>1. CallsMade' = CallsMade
  BY EnqueueFrame DEF CallsMade, CallSet
<1>2. /\ enqueued \in Nat /\ dropped \in Nat /\ leaks \in Nat
      /\ CallsMade = enqueued + dropped + leaks + Cardinality(InCall)
  BY DEF TypeOK, Accounted
<1>3. CASE RLock(p) \/ CountOversized(p) \/ Snapshot(p) \/ Send(p)
  <2>1. InCall' = InCall
    BY <1>3 DEF TypeOK, InCall, RLock, CountOversized, Snapshot, Send, Advance
  <2>2. UNCHANGED <<enqueued, dropped, leaks>>
    BY <1>3 DEF RLock, CountOversized, Snapshot, Send, Advance, intakeStats
  <2> QED
    BY <1>1, <1>2, <2>1, <2>2
<1>4. CASE Refuse(p) \/ DropFull(p) \/ DropOversized(p)
  <2>1. Return(p) /\ ppc[p] # "idle"
    BY <1>4 DEF Refuse, DropFull, DropOversized
  <2>2. dropped' = dropped + 1 /\ enqueued' = enqueued /\ leaks' = leaks
    BY <1>4 DEF Refuse, DropFull, DropOversized, CountDrop
  <2> QED
    BY <1>1, <1>2, <2>1, <2>2, CallReturns, FiniteCalls
<1>5. CASE SnapshotPanics(p)
  <2>1. Return(p) /\ ppc[p] # "idle"
    BY <1>5 DEF SnapshotPanics
  <2>2. leaks' = leaks + 1 /\ UNCHANGED <<enqueued, dropped>>
    BY <1>5 DEF SnapshotPanics, intakeStats
  <2> QED
    BY <1>1, <1>2, <2>1, <2>2, CallReturns, FiniteCalls
<1>6. CASE Count(p)
  <2>1. Return(p) /\ ppc[p] # "idle"
    BY <1>6 DEF Count
  <2>2. enqueued' = enqueued + 1 /\ UNCHANGED <<leaks, dropped>>
    BY <1>6 DEF Count
  <2> QED
    BY <1>1, <1>2, <2>1, <2>2, CallReturns, FiniteCalls
<1> QED
  BY <1>3, <1>4, <1>5, <1>6 DEF Enqueue

(* Oversized is counted first, and Dropped by the next step of the same call. *)
LEMMA EnqueueOversized ==
  ASSUME TypeOK, Accounted, NEW p \in Producers, Enqueue(p)
  PROVE  oversized' <= dropped' + Cardinality(Dropping')
<1>1. /\ dropped \in Nat /\ oversized \in Nat
      /\ oversized <= dropped + Cardinality(Dropping)
  BY DEF TypeOK, Accounted
<1>2. IsFiniteSet(Dropping) /\ Cardinality(Dropping) \in Nat
  BY ProducersAssumption, FS_Subset, FS_CardinalityType DEF Dropping
<1>3. CASE CountOversized(p)
  <2>1. Dropping' = Dropping \union {p} /\ p \notin Dropping
    BY <1>3 DEF TypeOK, CountOversized, Dropping
  <2>2. Cardinality(Dropping') = Cardinality(Dropping) + 1
    BY <1>2, <2>1, FS_AddElement
  <2> QED
    BY <1>1, <1>2, <1>3, <2>2 DEF CountOversized
<1>4. CASE DropOversized(p)
  <2>1. Dropping' = Dropping \ {p} /\ p \in Dropping
    BY <1>4 DEF TypeOK, DropOversized, Return, Dropping
  <2>2. Cardinality(Dropping') = Cardinality(Dropping) - 1
    BY <1>2, <2>1, FS_RemoveElement
  <2> QED
    BY <1>1, <1>2, <1>4, <2>2 DEF DropOversized, CountDrop
<1>5. CASE Enqueue(p) /\ ~CountOversized(p) /\ ~DropOversized(p)
  <2>1. Dropping' = Dropping
    BY <1>5 DEF TypeOK, Dropping, Enqueue, RLock, Refuse, SnapshotPanics, Snapshot, Send,
       DropFull, Count, Advance, Return
  <2>2. oversized' = oversized /\ dropped' \in {dropped, dropped + 1}
    BY <1>5 DEF Enqueue, RLock, Refuse, SnapshotPanics, Snapshot, Send, DropFull, Count,
       Advance, CountDrop, intakeStats
  <2> QED
    BY <1>1, <1>2, <2>1, <2>2
<1> QED
  BY <1>3, <1>4, <1>5

(* Every step keeps the books.                                               *)
LEMMA AccountedStep ==
  ASSUME TypeOK, Counted, Accounted, [Next]_vars
  PROVE  Accounted'
<1>1. Counted'
  BY CountedStep
<1>2. SUFFICES /\ CallsMade' = enqueued' + dropped' + leaks' + Cardinality(InCall')
               /\ oversized' <= dropped' + Cardinality(Dropping')
  BY <1>1 DEF Counted, Accounted
<1>3. /\ CallsMade = enqueued + dropped + leaks + Cardinality(InCall)
      /\ oversized <= dropped + Cardinality(Dropping)
      /\ enqueued \in Nat /\ dropped \in Nat /\ leaks \in Nat
  BY DEF TypeOK, Accounted
<1>4. ASSUME NEW p \in Producers, Log(p)
      PROVE  /\ CallsMade' = enqueued' + dropped' + leaks' + Cardinality(InCall')
             /\ oversized' <= dropped' + Cardinality(Dropping')
  <2>1. UNCHANGED <<enqueued, dropped, leaks, oversized>>
    BY <1>4 DEF Log, intakeStats
  <2>2. Dropping' = Dropping
    BY <1>4 DEF TypeOK, Log, Dropping
  <2> QED
    BY <1>3, <1>4, <2>1, <2>2, CallBegins, FiniteCalls
<1>5. ASSUME UNCHANGED <<ppc, calls, leaks, enqueued, dropped, oversized>>
      PROVE  /\ CallsMade' = enqueued' + dropped' + leaks' + Cardinality(InCall')
             /\ oversized' <= dropped' + Cardinality(Dropping')
  BY <1>3, <1>5 DEF CallsMade, CallSet, InCall, Dropping
<1>6. CASE \/ Worker \/ UNCHANGED vars
           \/ \E c \in Closers : Close(c) \/ CloseStep(c) \/ CtxEnds(c)
  BY <1>5, <1>6, CloseFrame, WorkerFrame DEF CtxEnds, vars, producerVars, intakeStats
<1> QED
  BY <1>4, <1>6, EnqueueAccounted, EnqueueOversized DEF Next, Finished

(* The tallies are right at the start,                                       *)
LEMMA InitTally == Init => Tally
<1> SUFFICES ASSUME Init PROVE Tally
  OBVIOUS
<1>1. Numbered
  BY EmptySeq DEF Init, Numbered
<1>2. Acknowledged
  BY FS_EmptySet DEF Init, Acknowledged, SentIsAcked
<1>3. CallSet = {} /\ InCall = {} /\ Counting = {} /\ Dropping = {}
  BY DEF Init, CallSet, InCall, Counting, Dropping
<1>4. CallsMade = 0
  BY <1>3, FS_EmptySet DEF CallsMade, CallSet
<1>5. Accounted
  BY <1>3, <1>4, FS_EmptySet, EmptySeq DEF Init, Accounted
<1> QED
  BY <1>1, <1>2, <1>5 DEF Tally

(* stay so at every step,                                                    *)
LEMMA StepTally == IInv /\ Tally /\ [Next]_vars => Tally'
  BY NumberedStep, AcknowledgedStep, AccountedStep DEF IInv, Tally

(* and so are right in every state.                                          *)
THEOREM TalliesAgree == Spec => []Tally
  BY InitTally, StepTally, Invariance, PTL DEF Spec

(* Sent is the number of records a 2xx answer acknowledged.                  *)
THEOREM SentIsAcknowledged == Spec => []SentIsAcked
<1>1. Tally => SentIsAcked
  BY DEF Tally, Acknowledged
<1> QED
  BY <1>1, TalliesAgree, PTL

(* Every log call is counted once: Enqueued, Dropped, a panic of the         *)
(* snapshot, or still in progress; and Oversized is ahead of Dropped only by *)
(* the calls between those two counters.                                     *)
THEOREM CallsAreAccounted == Spec => []Accounted
<1>1. Tally => Accounted
  BY DEF Tally
<1> QED
  BY <1>1, TalliesAgree, PTL

-----------------------------------------------------------------------------
(* Nobody waits for ever.                                                    *)

(* The one step that leaves a read lock behind is a panic of the snapshot.   *)
LEMMA OnlyPanicsLeak ==
  ASSUME TypeOK, NoPanics, NEW p \in Producers, Log(p) \/ Enqueue(p)
  PROVE  leaks' = leaks
<1>1. ~SnapshotPanics(p)
  <2> SUFFICES ASSUME SnapshotPanics(p) PROVE FALSE
    OBVIOUS
  <2>1. rec[p].shape.panics /\ rec[p] \in Records
    BY DEF SnapshotPanics, TypeOK
  <2>2. rec[p].shape \in Shapes
    BY <2>1 DEF Records
  <2> QED
    BY <2>1, <2>2 DEF NoPanics
<1> QED
  BY <1>1 DEF Log, Enqueue, RLock, Refuse, CountOversized, DropOversized, Snapshot, Send,
     DropFull, Count, Advance

(* Every step keeps the order in which Close lets the others go.             *)
LEMMA LeftBehindStep ==
  ASSUME IInv, NobodyLeftBehind, [Next]_vars
  PROVE  NobodyLeftBehind'
<1>1. TypeOK /\ CloseProgress
  BY DEF IInv
<1>2. ASSUME NEW p \in Producers, Log(p) \/ Enqueue(p)
      PROVE  NobodyLeftBehind'
  <2>1. UNCHANGED <<cpc, once, stop, enqueuesDone, wpc>>
    BY <1>2, LogFrame DEF closerVars, closeFlags, workerVars
  <2>2. NoPanics => leaks' = 0
    BY <1>1, <1>2, OnlyPanicsLeak DEF NobodyLeftBehind
  <2> QED
    BY <2>1, <2>2 DEF NobodyLeftBehind, NoPanics
<1>3. ASSUME NEW c \in Closers, Close(c) \/ CloseStep(c)
      PROVE  NobodyLeftBehind'
  <2>1. leaks' = leaks /\ wpc' = wpc
    BY <1>3, CloseFrame DEF producerVars, workerVars
  <2> USE <2>1 DEF NobodyLeftBehind, NoPanics, Body, Goto, closeFlags
  <2>2. CASE Close(c) \/ ReturnNil(c) \/ ReturnCtxErr(c)
    BY <1>1, <2>2 DEF TypeOK, Close, ReturnNil, ReturnCtxErr
  <2>3. CASE EnterOnce(c)
    BY <1>1, <2>3 DEF TypeOK, EnterOnce
  <2>4. CASE PassOnce(c)
    BY <1>1, <2>4 DEF TypeOK, PassOnce
  <2>5. CASE SetClosed(c) \/ Cancel(c)
    BY <1>1, <2>5 DEF TypeOK, SetClosed, Cancel
  <2>6. CASE CloseStop(c)
    BY <1>1, <2>6 DEF TypeOK, CloseStop
  <2>7. CASE AnnounceLock(c)
    BY <1>1, <2>7 DEF TypeOK, AnnounceLock
  <2>8. CASE EndIntake(c)
    BY <1>1, <2>8 DEF TypeOK, EndIntake
  <2> QED
    BY <1>3, <2>2, <2>3, <2>4, <2>5, <2>6, <2>7, <2>8 DEF CloseStep
<1>4. CASE Worker
  <2>1. UNCHANGED <<cpc, once, stop, enqueuesDone, leaks>>
    BY <1>4, WorkerFrame DEF producerVars, closerVars, closeFlags
  <2>2. wpc' = "drainwait" => stop
    BY <1>1, <1>4 DEF TypeOK, Worker, SelectStop, StartDrain, Receive, Tick, EndDrain,
       StartShip, Request, RequestCanceled, ReplyOk, ReplyError, BackoffEnds, BackoffCanceled,
       CallFlush, AttemptFails, ShipFails, Resend, Settle, NobodyLeftBehind
  <2> QED
    BY <2>1, <2>2 DEF NobodyLeftBehind, NoPanics
<1>5. CASE UNCHANGED vars \/ \E c \in Closers : CtxEnds(c)
  BY <1>5 DEF NobodyLeftBehind, NoPanics, CtxEnds, vars, producerVars, closerVars, closeFlags,
     workerVars
<1> QED
  BY <1>2, <1>3, <1>4, <1>5 DEF Next, Finished

(* A Close that asks for the lock gets it, or a log call that holds it goes  *)
(* on: by then stop is closed, and so none of them waits for room.           *)
LEMMA PendingGoesOn ==
  ASSUME NobodyLeftBehind, NoPanics, NEW c \in Closers, cpc[c] = "pending"
  PROVE  CallerGoesOn
<1>1. CASE LockFree
  BY <1>1 DEF CallerGoesOn, InClose, CloseWaits, AtLastSelect
<1>2. CASE ~LockFree
  <2>1. PICK p \in Producers : ppc[p] \in {"locked", "oversized", "send", "count"}
    BY <1>2 DEF LockFree, Readers, NobodyLeftBehind
  <2>2. ~WaitsForRoom(p)
    BY DEF WaitsForRoom, GiveUp, NobodyLeftBehind
  <2> QED
    BY <2>1, <2>2 DEF CallerGoesOn, InCall, WaitsForLock
<1> QED
  BY <1>1, <1>2

(* A log call that does not wait for room needs no worker,                   *)
LEMMA LogGoesOn ==
  ASSUME NobodyLeftBehind, NoPanics, NEW p \in InCall, ~WaitsForRoom(p)
  PROVE  CallerGoesOn
BY PendingGoesOn DEF CallerGoesOn, WaitsForLock

(* nor does a Close on the way to its last select.                           *)
LEMMA CloseGoesOn ==
  ASSUME NobodyLeftBehind, NoPanics, NEW c \in InClose, ~AtLastSelect(c)
  PROVE  CallerGoesOn
<1>1. CASE once = "running"
  <2>1. PICK d \in Closers : cpc[d] \in Body
    BY <1>1 DEF NobodyLeftBehind
  <2>2. CASE cpc[d] = "pending"
    BY <2>2, PendingGoesOn
  <2>3. CASE cpc[d] # "pending"
    BY <2>1, <2>3 DEF CallerGoesOn, InClose, CloseWaits, AtLastSelect, Body
  <2> QED
    BY <2>2, <2>3
<1>2. CASE once # "running" /\ cpc[c] = "pending"
  BY <1>2, PendingGoesOn DEF InClose
<1>3. CASE once # "running" /\ cpc[c] # "pending"
  BY <1>3 DEF CallerGoesOn, CloseWaits
<1> QED
  BY <1>1, <1>2, <1>3

(* The invariant leaves somebody who can go on.                              *)
LEMMA InvariantGoesOn == IInv /\ NobodyLeftBehind => NoDeadlock
<1> SUFFICES ASSUME IInv, NobodyLeftBehind, NoPanics
             PROVE  /\ (\E p \in InCall : ~WaitsForRoom(p)) \/ (\E c \in InClose : ~AtLastSelect(c))
                         => CallerGoesOn
                    /\ InCall # {} \/ InClose # {} \/ settled # accepted \/ (closed /\ ~done)
                         => CallerGoesOn \/ WorkerGoesOn
  BY DEF NoDeadlock
<1>1. TypeOK /\ CloseProgress /\ IntakeOver /\ Draining
  BY DEF IInv
<1>2. enqueuesDone /\ ~done => WorkerGoesOn
  BY DEF WorkerGoesOn, DrainMayStart, NobodyLeftBehind
<1>3. ASSUME NEW p \in InCall, WaitsForRoom(p) PROVE WorkerGoesOn
  <2>1. ~stop /\ ~HasRoom
    BY <1>3 DEF WaitsForRoom, GiveUp
  <2>2. queue # <<>>
    BY <1>1, <2>1, ConfigAssumption, EmptySeq DEF HasRoom, TypeOK
  <2>3. ~done /\ wpc # "drainwait"
    BY <1>1, <2>1 DEF Draining, NobodyLeftBehind
  <2> QED
    BY <2>2, <2>3 DEF WorkerGoesOn
<1>4. ASSUME NEW c \in InClose, AtLastSelect(c) PROVE CallerGoesOn \/ WorkerGoesOn
  <2>1. enqueuesDone
    BY <1>1, <1>4 DEF AtLastSelect, CloseProgress, InClose
  <2>2. done => CallerGoesOn
    BY <1>4 DEF CallerGoesOn, CloseWaits, AtLastSelect
  <2> QED
    BY <1>2, <2>1, <2>2
<1>5. ASSUME closed, ~done PROVE CallerGoesOn \/ WorkerGoesOn
  <2>1. once \in {"running", "done"}
    BY <1>1, <1>5 DEF TypeOK, CloseProgress
  <2>2. ASSUME once = "running" PROVE CallerGoesOn
    <3>1. PICK d \in Closers : cpc[d] \in Body
      BY <2>2 DEF NobodyLeftBehind
    <3> QED
      BY <3>1, CloseGoesOn DEF InClose, AtLastSelect, Body
  <2>3. once = "done" => WorkerGoesOn
    BY <1>1, <1>2, <1>5 DEF CloseProgress
  <2> QED
    BY <2>1, <2>2, <2>3
<1>6. ASSUME settled # accepted, ~closed PROVE WorkerGoesOn
  <2>1. ~done
    BY <1>6, InvariantDrains DEF Drained
  <2>2. queue # <<>> \/ batch # <<>>
    BY <1>6, DoneIsSettled
  <2>3. wpc # "drainwait"
    BY <1>1, <1>6 DEF CloseProgress, NobodyLeftBehind
  <2> QED
    BY <2>1, <2>2, <2>3 DEF WorkerGoesOn, FlushDue
<1>7. done => settled = accepted
  BY InvariantDrains DEF Drained
<1> QED
  BY <1>3, <1>4, <1>5, <1>6, <1>7, LogGoesOn, CloseGoesOn

(* It holds in every state.                                                  *)
LEMMA NobodyIsLeftBehind == Spec => []NobodyLeftBehind
<1>1. Init => NobodyLeftBehind
  BY DEF Init, NobodyLeftBehind
<1>2. IInv /\ NobodyLeftBehind /\ [Next]_vars => NobodyLeftBehind'
  BY LeftBehindStep
<1> QED
  BY <1>1, <1>2, Invariance, PTL DEF Spec

(* enqueue and Close, for any number of goroutines, blocking or not: the     *)
(* queue, enqueueMu, once.Do, stop and enqueuesDone never make all wait for  *)
(* each other, and no accepted record waits for another one to come, unless  *)
(* a snapshot panics with the read lock held.                                *)
THEOREM NobodyWaitsForEver == Spec => []NoDeadlock
  BY InvariantGoesOn, Invariance, NobodyIsLeftBehind, PTL

(* "Enqueue is non-blocking by default": a log call needs neither the worker *)
(* nor the collector to go on, also while it waits behind a Close.           *)
THEOREM LogNeedsNoWorker ==
  Spec => [](NoPanics /\ ~BlockOnQueueFull /\ InCall # {} => CallerGoesOn)
<1>1. NobodyLeftBehind => (NoPanics /\ ~BlockOnQueueFull /\ InCall # {} => CallerGoesOn)
  BY LogGoesOn DEF WaitsForRoom, GiveUp
<1> QED
  BY <1>1, NobodyIsLeftBehind, PTL
==============================================================================
