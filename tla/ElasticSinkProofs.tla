-------------------------- MODULE ElasticSinkProofs --------------------------
(***************************************************************************)
(* The Elasticsearch sink for every value of its parameters: a batch whose *)
(* answer was cut off or reported failed items moves records and counters  *)
(* as a refused one does, so the invariant and the tallies of AsyncSink    *)
(* hold here too; and a batch once answered is never sent again.           *)
(***************************************************************************)
EXTENDS ElasticSink, AsyncSinkTheorems

(* What AsyncSink has no step for: an attempt in flight fails for good       *)
(* though the collector has not refused the batch by its status.             *)
AnswerLost ==
  /\ wpc = "inflight" /\ AttemptFails("permanent", sawCancel)
  /\ refused' \in BOOLEAN
  /\ UNCHANGED <<queue, acked>> /\ UnchangedByWorker

(* Every other step of the sink is one of AsyncSink, or leaves it alone.     *)
LEMMA ElasticStep ==
  ASSUME IInv, [ElasticNext]_elasticVars
  PROVE  [Next]_vars \/ AnswerLost
<1>1. CASE ElasticWorker
  <2>1. CASE AnswerBegins
    BY <2>1 DEF AnswerBegins
  <2>2. CASE AllStored \/ NoContent
    BY <2>2 DEF AllStored, NoContent, Next, Worker
  <2>3. CASE ItemsFailed \/ AnswerCutOff
    BY <2>3 DEF ItemsFailed, AnswerCutOff, CutOff, AnswerLost, IInv, TypeOK
  <2> QED
    BY <1>1, <2>1, <2>2, <2>3 DEF ElasticWorker, Next, Worker
<1>2. CASE UNCHANGED elasticVars
  BY <1>2 DEF elasticVars
<1> QED
  BY <1>1, <1>2 DEF ElasticNext, Next

(* An answer that is lost keeps the types,                                   *)
LEMMA LostTypeOK ==
  ASSUME TypeOK, AnswerLost
  PROVE  TypeOK'
<1>1. BatchTyped /\ retried \in Nat /\ sawCancel \in BOOLEAN
  BY DEF TypeOK, BatchTyped
<1>2. BatchTyped' /\ retried' \in Nat
  BY <1>1, AttemptFailsTyped DEF AnswerLost
<1> QED
  BY <1>2 DEF AnswerLost, UnchangedByWorker, TypeOK, BatchTyped, producerVars, closerVars,
     closeFlags, intakeStats

(* the protocol of Close and the end of intake,                              *)
LEMMA LostClosing ==
  ASSUME CloseProgress, IntakeOver, AnswerLost
  PROVE  CloseProgress' /\ IntakeOver'
<1>1. UNCHANGED <<producerVars, closerVars>> /\ ~done
  BY DEF AnswerLost, UnchangedByWorker, done
<1> QED
  BY <1>1 DEF CloseProgress, IntakeOver, Body, producerVars, closerVars, closeFlags, done

(* and the rest of the invariant.                                            *)
LEMMA LostIInv ==
  ASSUME IInv, AnswerLost
  PROVE  IInv'
<1>1. /\ UNCHANGED <<queue, accepted, enqueuesDone, closed, canceled, ctx, closeCtx, ppc, enqueued>>
      /\ AttemptFails("permanent", sawCancel) /\ wpc = "inflight" /\ Shipping
  BY DEF AnswerLost, UnchangedByWorker, producerVars, closerVars, closeFlags, intakeStats, Shipping
<1>2. TypeOK /\ CloseProgress /\ IntakeOver /\ Draining /\ Fifo /\ Counted /\ ShipProgress /\ Refusals
  BY DEF IInv
<1>3. TypeOK' /\ CloseProgress' /\ IntakeOver'
  BY <1>2, LostTypeOK, LostClosing
<1>4. Draining' /\ Fifo'
  BY <1>1, <1>2, AttemptFailsDraining, AttemptFailsFifo
<1>5. Counted'
  <2>1. sent' + failed' = Len(settled')
    BY <1>1, <1>2, AttemptFailsCounted DEF Counted
  <2> QED
    BY <1>1, <1>2, <2>1 DEF Counted, Counting
<1>6. ~sawCancel
  BY <1>1, <1>2 DEF Refusals
<1>7. ShipProgress'
  BY <1>1, <1>2, <1>6, AttemptFailsProgress
<1>8. Refusals'
  BY <1>1, <1>2, <1>6, AttemptFailsRefusals DEF IsRetryable
<1> QED
  BY <1>3, <1>4, <1>5, <1>7, <1>8 DEF IInv

(* It acknowledges nothing and makes no log call.                            *)
LEMMA LostTally ==
  ASSUME IInv, Tally, AnswerLost
  PROVE  Tally'
<1>1. UNCHANGED <<ppc, rec, calls, leaks, accepted, enqueued, dropped, oversized, acked>>
  BY DEF AnswerLost, UnchangedByWorker, producerVars, intakeStats
<1>2. Acknowledged'
  BY AttemptFailsAcknowledged DEF AnswerLost, IInv, Tally
<1>3. Numbered'
  BY <1>1 DEF Tally, Numbered
<1>4. Accounted'
  <2>1. sent' + failed' = Len(settled')
    BY LostIInv DEF IInv, Counted
  <2> QED
    BY <1>1, <2>1 DEF Tally, Accounted, CallsMade, CallSet, InCall, Counting, Dropping
<1> QED
  BY <1>2, <1>3, <1>4 DEF Tally

-----------------------------------------------------------------------------
(* While a body is being read its request is in flight; an answered batch is *)
(* either being read or about to be counted, never waiting to be sent.       *)
Reading ==
  /\ body \in {"none", "stored", "failed"} /\ answered \in BOOLEAN
  /\ body # "none" => wpc = "inflight"
  /\ answered => body # "none"

(* An answer that is lost leaves the request for good: no cancellation has   *)
(* been seen, so Close does not ship the batch once more.                    *)
LEMMA LostSettles ==
  ASSUME IInv, AnswerLost
  PROVE  Settle(FALSE) /\ ~Shipping'
<1>1. ~sawCancel
  BY DEF IInv, Refusals, AnswerLost
<1>2. Settle(FALSE)
  BY <1>1 DEF AnswerLost, AttemptFails, IsRetryable, ShipFails, MayResend
<1> QED
  BY <1>2 DEF Settle, Shipping, IInv, TypeOK

(* Every step keeps what is known of the answer.                             *)
LEMMA ReadingStep ==
  ASSUME IInv, Reading, [ElasticNext]_elasticVars
  PROVE  Reading'
<1>1. CASE AnswerBegins
  BY <1>1, OutcomesAssumption DEF AnswerBegins, Reading, vars, workerVars
<1>2. CASE AllStored
  BY <1>2 DEF AllStored, Reading
<1>3. CASE NoContent
  BY <1>3 DEF NoContent, Reading
<1>4. CASE ItemsFailed
  BY <1>4 DEF ItemsFailed, Reading
<1>5. CASE AnswerCutOff
  <2>1. AnswerLost
    BY <1>5 DEF AnswerCutOff, CutOff, AnswerLost, IInv, TypeOK
  <2> QED
    BY <1>5, <2>1, LostSettles DEF AnswerCutOff, Reading
<1>6. CASE body = "none" /\ UNCHANGED body /\ answered' = (answered /\ Shipping')
  BY <1>6 DEF Reading
<1>7. CASE UNCHANGED <<body, answered>> /\ ~ElasticWorker /\ (body # "none" => UNCHANGED wpc)
  BY <1>7 DEF Reading
<1>8. ASSUME (\E p \in Producers : Log(p) \/ Enqueue(p))
               \/ (\E c \in Closers : Close(c) \/ CloseStep(c) \/ CtxEnds(c)) \/ Finished
      PROVE  UNCHANGED wpc
  BY <1>8, LogFrame, CloseFrame DEF CtxEnds, Finished, vars, workerVars
<1>9. UNCHANGED elasticVars => UNCHANGED <<body, answered, wpc>>
  BY DEF elasticVars, vars, workerVars
<1> QED
  BY <1>1, <1>2, <1>3, <1>4, <1>5, <1>6, <1>8, <1>9 DEF ElasticNext, ElasticWorker, Reading

(* What every step of the sink preserves.                                    *)
ElasticIInv == IInv /\ Tally /\ Reading

(* It holds initially,                                                       *)
LEMMA InitElasticIInv == ElasticInit => ElasticIInv
  BY InitIInv, InitTally DEF ElasticInit, ElasticIInv, Reading

(* every step preserves it,                                                  *)
LEMMA StepElasticIInv == ElasticIInv /\ [ElasticNext]_elasticVars => ElasticIInv'
<1> SUFFICES ASSUME ElasticIInv, [ElasticNext]_elasticVars
             PROVE  ElasticIInv'
  OBVIOUS
<1>1. CASE [Next]_vars
  BY <1>1, StepIInv, StepTally, ReadingStep DEF ElasticIInv
<1>2. CASE AnswerLost
  BY <1>2, LostIInv, LostTally, ReadingStep DEF ElasticIInv
<1> QED
  BY <1>1, <1>2, ElasticStep DEF ElasticIInv

(* and it holds in every state of the Elasticsearch sink.                    *)
THEOREM ElasticInvariance == ElasticSpec => []ElasticIInv
  BY InitElasticIInv, StepElasticIInv, PTL DEF ElasticSpec

(* The counters, the order and the draining of AsyncSink, also when a 2xx    *)
(* answer reports failed items, and when Close cuts off its body.            *)
THEOREM ElasticDelivery == ElasticSpec => []ElasticDelivers
<1>1. ElasticIInv => ElasticDelivers
  <2> SUFFICES ASSUME ElasticIInv PROVE Fifo /\ Drained /\ SentIsAcked
    BY DEF ElasticDelivers
  <2>1. Fifo /\ SentIsAcked
    BY DEF ElasticIInv, IInv, Tally, Acknowledged
  <2>2. Drained
    BY InvariantDrains DEF ElasticIInv
  <2> QED
    BY <2>1, <2>2
<1> QED
  BY <1>1, ElasticInvariance, PTL

(* The Elasticsearch sink, too, implements the safety part of Delivery.      *)
THEOREM ElasticImplementsDelivery == ElasticSpec => Promise!SafeSpec
<1>1. ElasticInit => Promise!Init
  BY DEF ElasticInit, Init, Promise!Init, done
<1>2. ElasticIInv /\ [ElasticNext]_elasticVars => [Promise!Next]_(Promise!vars)
  <2> SUFFICES ASSUME ElasticIInv, [ElasticNext]_elasticVars
               PROVE  [Promise!Next]_(Promise!vars)
    OBVIOUS
  <2>1. CASE [Next]_vars
    BY <2>1, StepIsAbstract DEF ElasticIInv
  <2>2. CASE AnswerLost
    <3>1. /\ Settle(FALSE) /\ Shipping /\ UNCHANGED <<accepted, enqueuesDone>>
      BY <2>2, LostSettles DEF ElasticIInv, AnswerLost, UnchangedByWorker, closerVars,
         closeFlags, Shipping
    <3> QED
      BY <3>1, SettleIsAbstract DEF ElasticIInv, Promise!Next
  <2> QED
    BY <2>1, <2>2, ElasticStep DEF ElasticIInv
<1> QED
  BY <1>1, <1>2, ElasticInvariance, PTL DEF ElasticSpec, Promise!SafeSpec

(* Only Request sends, and it finds nothing in flight: neither a batch that  *)
(* was refused nor one that has had an answer is sent again.                 *)
LEMMA ElasticSends ==
  ASSUME ElasticIInv, [ElasticNext]_elasticVars, tries' > tries
  PROVE  ~refused /\ ~answered
<1>1. tries \in Nat
  BY DEF ElasticIInv, IInv, TypeOK
<1>2. CASE [Next]_vars
  <2>1. Request
    BY <1>1, <1>2, OnlyRequestSends DEF ElasticIInv, IInv
  <2>2. wpc = "request"
    BY <2>1 DEF Request
  <2> QED
    BY <2>2 DEF ElasticIInv, IInv, Refusals, Reading
<1>3. CASE AnswerLost
  <2>1. Settle(FALSE)
    BY <1>3, LostSettles DEF ElasticIInv
  <2>2. tries' = 0
    BY <2>1, Zenon DEF Settle
  <2> QED
    BY <1>1, <2>2
<1> QED
  BY <1>2, <1>3, ElasticStep DEF ElasticIInv

(* A batch that Elasticsearch has answered with 2xx is never sent again,     *)
THEOREM AnsweredIsNotResent == ElasticSpec => AnsweredNotResent
<1>1. ElasticIInv /\ [ElasticNext]_elasticVars => [tries' > tries => ~answered]_elasticVars
  BY ElasticSends
<1> QED
  BY <1>1, ElasticInvariance, PTL DEF ElasticSpec, AnsweredNotResent

(* nor is one it has refused, by its status or by the items of the answer.   *)
THEOREM ElasticRefusedIsNotResent == ElasticSpec => RefusedNotResent
<1>1. ElasticIInv /\ [ElasticNext]_elasticVars => [tries' > tries => ~refused]_vars
  BY ElasticSends
<1> QED
  BY <1>1, ElasticInvariance, PTL DEF ElasticSpec, RefusedNotResent

-----------------------------------------------------------------------------
(* An answer that is lost leads back into the main loop.                     *)
LEMMA LostLeavesNobodyBehind ==
  ASSUME ElasticIInv, NobodyLeftBehind, AnswerLost
  PROVE  NobodyLeftBehind'
<1>1. UNCHANGED <<producerVars, closerVars>>
  BY DEF AnswerLost, UnchangedByWorker
<1>2. wpc' = back /\ back # "drainwait"
  BY LostSettles DEF Settle, ElasticIInv, IInv, TypeOK
<1> QED
  BY <1>1, <1>2 DEF NobodyLeftBehind, NoPanics, producerVars, closerVars, closeFlags

(* Also with the Elasticsearch sink nobody waits for ever, whatever comes in *)
(* the body of an answer and whenever it is cut off.                         *)
THEOREM ElasticNobodyWaits == ElasticSpec => []NoDeadlock
<1>1. ElasticInit => NobodyLeftBehind
  BY DEF ElasticInit, Init, NobodyLeftBehind
<1>2. ElasticIInv /\ NobodyLeftBehind /\ [ElasticNext]_elasticVars => NobodyLeftBehind'
  BY ElasticStep, LeftBehindStep, LostLeavesNobodyBehind DEF ElasticIInv
<1>3. ElasticIInv /\ NobodyLeftBehind => NoDeadlock
  BY InvariantGoesOn DEF ElasticIInv
<1> QED
  BY <1>1, <1>2, <1>3, ElasticInvariance, PTL DEF ElasticSpec
==============================================================================
