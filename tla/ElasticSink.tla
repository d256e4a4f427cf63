----------------------------- MODULE ElasticSink -----------------------------
(***************************************************************************)
(* The Elasticsearch sink, src/elastic: the goroutines, locks and counters *)
(* of AsyncSink, with a collector that reports the outcome of a Bulk       *)
(* request in the body of its 2xx answer.  The headers come first; what    *)
(* happened to the records is known when the body has been read.           *)
(***************************************************************************)
EXTENDS AsyncSinkProperties

CONSTANT Outcomes   \* of a Bulk request: "stored", or some items "failed"

ASSUME OutcomesAssumption == Outcomes \subseteq {"stored", "failed"}

VARIABLES
  body,      \* the outcome in the body being read, "none" outside sendBulk
  answered   \* history: the batch in hand has had a 2xx answer

elasticVars == <<vars, body, answered>>

ElasticInit == Init /\ body = "none" /\ answered = FALSE

(* HTTPClient.Do returns a 2xx answer with a body,                          *)
AnswerBegins ==
  /\ wpc = "inflight" /\ body = "none" /\ "ok" \in Replies
  /\ body' \in Outcomes /\ answered' = TRUE
  /\ UNCHANGED vars

(* the body is decoded, and reports that every item was indexed,            *)
AllStored == body = "stored" /\ ReplyOk /\ body' = "none" /\ answered' = FALSE

(* or that one was not: a permanentError for the whole batch.               *)
ItemsFailed ==
  /\ body = "failed" /\ wpc = "inflight" /\ refused' = TRUE
  /\ AttemptFails("permanent", sawCancel)
  /\ body' = "none" /\ answered' = FALSE
  /\ UNCHANGED <<queue, acked>> /\ UnchangedByWorker

(* The error of a body that cannot be decoded is wrapped in permanentError, *)
(* which has no Unwrap: errors.Is no longer finds context.Canceled in it.   *)
CutOff_Unwrapped == AttemptFails("ctx", sawCancel \/ CtxErr = "canceled")
CutOff == AttemptFails("permanent", sawCancel)

(* The context ends while the body is being read.                           *)
AnswerCutOff ==
  /\ body # "none" /\ wpc = "inflight" /\ CtxErr # "live"
  /\ CutOff /\ body' = "none"
  /\ answered' = (answered /\ Shipping')
  /\ UNCHANGED <<queue, acked, refused>> /\ UnchangedByWorker

(* 204 has no body.                                                         *)
NoContent == body = "none" /\ ReplyOk /\ UNCHANGED <<body, answered>>

ElasticWorker ==
  \/ AnswerBegins \/ AllStored \/ ItemsFailed \/ AnswerCutOff \/ NoContent
  \/ /\ \/ SelectStop \/ StartDrain \/ Receive \/ Tick \/ EndDrain \/ StartShip
        \/ Request \/ RequestCanceled \/ BackoffEnds \/ BackoffCanceled
        \/ \E reply \in ReplyKinds : ReplyError(reply)
     /\ body = "none" /\ UNCHANGED body
     /\ answered' = (answered /\ Shipping')

ElasticNext ==
  \/ ElasticWorker
  \/ /\ \/ \E p \in Producers : Log(p) \/ Enqueue(p)
        \/ \E c \in Closers : Close(c) \/ CloseStep(c) \/ CtxEnds(c)
        \/ Finished
     /\ UNCHANGED <<body, answered>>

ElasticSpec == ElasticInit /\ [][ElasticNext]_elasticVars

-----------------------------------------------------------------------------
(* A batch that Elasticsearch has answered with 2xx is never part of another *)
(* request: whatever cancels the reading of the answer, the records are not  *)
(* indexed twice.                                                            *)
AnsweredNotResent == [][tries' > tries => ~answered]_elasticVars

(* The counters agree with what became of the batches also here: Sent counts *)
(* the acknowledged records once, in order, and Close drains.                *)
ElasticDelivers == Fifo /\ Drained /\ SentIsAcked
=============================================================================
