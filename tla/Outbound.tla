------------------------------ MODULE Outbound -------------------------------
(***************************************************************************)
(* The logging transport of an HTTP client: src/outbound/transport.go.     *)
(* A goroutine calls RoundTrip, which gives the request to the base        *)
(* transport, waits for the answer's headers and, if the answer's body is  *)
(* to be logged, for as much of the body as may be; then the caller reads  *)
(* the body at leisure.  Base transport, server and caller are external.   *)
(***************************************************************************)
EXTENDS Context, HttpLog

CONSTANTS
  OutOptions,    \* the ways the transport may be set up
  Calls,         \* the requests that may be made
  MaxAnswer      \* bound: the bytes of an answer

ASSUME OutAssumption ==
  /\ OutOptions \subseteq
       [logs : SUBSET Stages, hooks : SUBSET Stages, every : Nat, slow : BOOLEAN,
        limit : Nat \ {0}, requestBody : BOOLEAN, responseBody : BOOLEAN, errorBodies : BOOLEAN]
  /\ Calls \subseteq [trace : Id, bytes : Nat, fails : BOOLEAN, textual : BOOLEAN]
  /\ MaxAnswer \in Nat

VARIABLES
  outOpts,       \* Options, after normalizeOptions
  trip,          \* per goroutine: its last RoundTrip
  answer,        \* per goroutine: the server's answer to it
  outLog,        \* per goroutine: the events logged for it
  outCounter,    \* the sampler of the transport
  outRow         \* history: completions sampled out since one was kept

outVars == <<outOpts, trip, answer, outLog, outCounter, outRow>>

NoCall   == [trace |-> NoId, bytes |-> 0, fails |-> FALSE, textual |-> FALSE]
NoTrip   == [phase |-> "idle", ctx |-> Background, call |-> NoCall, header |-> NoId,
             sends |-> ReadAhead(<<>>, 0, "eof"), error |-> "", refused |-> {}]
NoAnswer == [status |-> 0, slow |-> FALSE, textual |-> FALSE,
             served |-> 0, ends |-> "open", body |-> ReadAhead(<<>>, 0, "open")]

InTrip(x) == trip[x].phase \in {"calling", "answering"}

-----------------------------------------------------------------------------
(* The context of the log lines: the metadata of the caller's is replaced.  *)
LogContext(c, call) == WithMeta(c, [corr |-> c.corr, trace |-> call.trace])

(* captureRequest                                                           *)
CapturesRequest(call) == outOpts.requestBody /\ outOpts.logs # {} /\ call.textual

Sends(call) ==
  ReadAhead(Bytes(call.bytes), IF CapturesRequest(call) THEN outOpts.limit + 1 ELSE 0,
            Ending(call.fails))

SentBody(call) ==
  IF ~CapturesRequest(call) \/ (call.fails /\ call.bytes <= outOpts.limit) THEN NoBody
  ELSE CaptureBody(call.textual, Bytes(call.bytes), outOpts.limit)

(* captureResponse reads one byte more than the limit, or to the end.       *)
CapturesAnswer(a) == outOpts.responseBody /\ outOpts.errorBodies /\ a.textual

EnoughRead_WaitsForEnd(a) == CapturesAnswer(a) => a.ends # "open"
EnoughRead(a) == CapturesAnswer(a) => Len(a.body.conn) > outOpts.limit \/ a.ends # "open"

BodyAfter(a) ==
  IF CapturesAnswer(a) THEN ReadAhead(a.body.conn, outOpts.limit + 1, a.ends) ELSE a.body

(* Only the body of an error is logged, and none that broke off early.      *)
AnswerBody_AnyStatus(a) ==
  IF ~CapturesAnswer(a) \/ (a.ends = "broken" /\ Len(a.body.conn) <= outOpts.limit) THEN NoBody
  ELSE CaptureBody(a.textual, a.body.conn, outOpts.limit)
AnswerBody(a) ==
  IF \/ ~CapturesAnswer(a) \/ a.status < 400
     \/ a.ends = "broken" /\ Len(a.body.conn) <= outOpts.limit THEN NoBody
  ELSE CaptureBody(a.textual, a.body.conn, outOpts.limit)

(* classifyError asks for these in turn; a name that does not resolve in    *)
(* time, or a connection that is not made in time, is a timeout.            *)
ErrorTraits == {"deadline", "timeout", "dns", "refused"}
ClassifyError(traits) ==
  IF "deadline" \in traits THEN "context_deadline_exceeded"
  ELSE IF "timeout" \in traits THEN "timeout"
  ELSE IF "dns" \in traits THEN "dns_error"
  ELSE IF "refused" \in traits THEN "connection_refused" ELSE "transport_error"

Logs(x, e) == outLog' = [outLog EXCEPT ![x] = Append(@, e)]
Steps(d) ==
  /\ outCounter' = CounterAfter(outOpts.every, d, outCounter)
  /\ outRow' = RowAfter(outOpts.every, d, outCounter, outRow)

-----------------------------------------------------------------------------
(* RoundTrip up to the call of the base transport.  Without a correlation   *)
(* ID in the context the request goes out as it is.                         *)
Header(c) == c.corr

RoundTrip(x, c, call, refused) ==
  /\ ~InTrip(x)
  /\ refused \subseteq outOpts.hooks \cap {"start"}
  /\ trip' = [trip EXCEPT ![x] =
       [phase |-> "calling", ctx |-> c, call |-> call, header |-> Header(c),
        sends |-> Sends(call), error |-> "", refused |-> {}]]
  /\ answer' = [answer EXCEPT ![x] = NoAnswer]
  /\ outLog' = [outLog EXCEPT ![x] =
       IF "start" \in outOpts.logs \ refused
       THEN <<Event("start", Stamp(LogContext(c, call)), SentBody(call), 0, "", NoBody)>>
       ELSE <<>>]
  /\ UNCHANGED <<outOpts, outCounter, outRow>>

(* The base transport reads the request's body, as far as it comes,         *)
Transmit(x) ==
  /\ trip[x].phase = "calling" /\ CanRead(trip[x].sends)
  /\ trip' = [trip EXCEPT ![x].sends = ReadOn(@)]
  /\ UNCHANGED <<outOpts, answer, outLog, outCounter, outRow>>

(* and fails,                                                               *)
BaseFails(x, traits, refused) ==
  LET t == trip[x]
      told == "error" \in outOpts.logs \ refused
  IN  /\ t.phase = "calling" /\ refused \subseteq outOpts.hooks \cap {"error"}
      /\ trip' = [trip EXCEPT ![x] =
           [t EXCEPT !.phase = "failed", !.error = ClassifyError(traits), !.refused = refused]]
      /\ IF told
         THEN Logs(x, Event("error", Stamp(LogContext(t.ctx, t.call)), SentBody(t.call), 0,
                            ClassifyError(traits), NoBody))
         ELSE UNCHANGED outLog
      /\ UNCHANGED <<outOpts, answer, outCounter, outRow>>

(* or returns the headers of the answer, slow or not                        *)
(* (outOpts.slow is whether any are: there is always a threshold).  Without *)
(* a hook a fast success is counted, and may be sampled out, before its     *)
(* body is looked at.                                                       *)
BaseAnswers(x, status, slow, textual) ==
  LET d == Decision("complete", status, FALSE, slow)
      counts == "complete" \in outOpts.logs \ outOpts.hooks
      drops  == counts /\ ~ShouldKeep(outOpts.every, d, outCounter)
  IN  /\ trip[x].phase = "calling" /\ slow \in SlowChoices(outOpts.slow)
      /\ answer' = [answer EXCEPT ![x] =
           [NoAnswer EXCEPT !.status = status, !.slow = slow, !.textual = textual]]
      /\ trip' = [trip EXCEPT ![x].phase =
           IF drops \/ "complete" \notin outOpts.logs THEN "answered" ELSE "answering"]
      /\ IF counts THEN Steps(d) ELSE UNCHANGED <<outCounter, outRow>>
      /\ UNCHANGED <<outOpts, outLog>>

(* RoundTrip from the capture of the answer's body on; the hook decides     *)
(* when the body is there.                                                  *)
Return(x, refused) ==
  LET t == trip[x]
      a == answer[x]
      d == Decision("complete", a.status, FALSE, a.slow)
      hooked == "complete" \in outOpts.hooks
      told == hooked => ShouldLog(outOpts.every, d, outCounter, refused)
  IN  /\ t.phase = "answering" /\ EnoughRead(a)
      /\ refused \subseteq outOpts.hooks \cap {"complete"}
      /\ trip' = [trip EXCEPT ![x] = [t EXCEPT !.phase = "answered", !.refused = refused]]
      /\ answer' = [answer EXCEPT ![x].body = BodyAfter(a)]
      /\ IF told
         THEN Logs(x, Event("complete", Stamp(LogContext(t.ctx, t.call)), SentBody(t.call),
                            a.status, "", AnswerBody(a)))
         ELSE UNCHANGED outLog
      /\ IF hooked THEN Steps(d) ELSE UNCHANGED <<outCounter, outRow>>
      /\ UNCHANGED outOpts

-----------------------------------------------------------------------------
(* The server sends a byte, ends its answer, or breaks it off,              *)
Answered(x) == trip[x].phase \in {"answering", "answered"}
Serving(x)  == Answered(x) /\ answer[x].ends = "open"

Serve(x) ==
  /\ Serving(x) /\ answer[x].served < MaxAnswer
  /\ answer' = [answer EXCEPT ![x].served = @ + 1,
                              ![x].body.conn = Append(@, answer[x].served + 1)]
  /\ UNCHANGED <<outOpts, trip, outLog, outCounter, outRow>>

ServerEnds(x, how) ==
  /\ Serving(x) /\ answer' = [answer EXCEPT ![x].ends = how, ![x].body.end = how]
  /\ UNCHANGED <<outOpts, trip, outLog, outCounter, outRow>>

(* and the caller reads.                                                    *)
ReadAnswer(x) ==
  /\ trip[x].phase = "answered" /\ CanRead(answer[x].body)
  /\ answer' = [answer EXCEPT ![x].body = ReadOn(@)]
  /\ UNCHANGED <<outOpts, trip, outLog, outCounter, outRow>>

-----------------------------------------------------------------------------
OutInit ==
  /\ outOpts \in OutOptions
  /\ trip = [x \in Requests |-> NoTrip] /\ answer = [x \in Requests |-> NoAnswer]
  /\ outLog = [x \in Requests |-> <<>>]
  /\ outCounter = 0 /\ outRow = 0

(* What the transport and its peers do to a call under way.                 *)
Returns(x) == \E refused \in SUBSET {"complete"} : Return(x, refused)

-----------------------------------------------------------------------------
(* The variables hold what their comments say.                              *)
OutTypeOK ==
  /\ outOpts \in OutOptions
  /\ \A x \in Requests :
       /\ trip[x].phase \in {"idle", "calling", "answering", "answered", "failed"}
       /\ trip[x].ctx \in Contexts /\ trip[x].call \in Calls \union {NoCall}
       /\ trip[x].header \in Id /\ trip[x].refused \subseteq Stages
       /\ answer[x].status \in Nat /\ answer[x].served \in 0..MaxAnswer
       /\ answer[x].ends \in Endings
       /\ \A i \in DOMAIN outLog[x] :
            outLog[x][i].event \in Stages /\ outLog[x][i].stamp \in Meta
  /\ outCounter \in 0..(CounterSize - 1) /\ outRow \in Nat

(* The base transport sends the body the caller gave, and the caller reads  *)
(* the body the server sent: all of it, in order, and the failure after it  *)
(* if there is one, whatever was captured for the log, and while the server *)
(* is still sending.                                                        *)
BodiesDelivered ==
  \A x \in Requests :
    /\ Arrives(trip[x].sends, Bytes(trip[x].call.bytes), Ending(trip[x].call.fails))
    /\ Arrives(answer[x].body, Bytes(answer[x].served), answer[x].ends)

(* Only the body of an error answer is logged, as a prefix of what was sent *)
(* that never passes for the whole.                                         *)
ErrorBodiesOnly ==
  \A x \in Requests : \A i \in DOMAIN outLog[x] :
    LET e == outLog[x][i]
    IN  e.body # NoBody =>
          /\ e.status >= 400
          /\ e.body.value = Upto(Bytes(answer[x].served), Len(e.body.value))
          /\ ~e.body.cut => answer[x].ends = "eof" /\ Len(e.body.value) = answer[x].served
          /\ Len(e.body.value) <= outOpts.limit

(* Where in its log the end of a call is told of.                           *)
OutEnds(x) == {i \in DOMAIN outLog[x] : outLog[x][i].event # "start"}

(* A call that is over is told of at most once, and exactly once if it      *)
(* failed, was answered an error or was slow and no hook objected: what the *)
(* sampler drops is always a fast success.                                  *)
OutTroubleIsTold ==
  \A x \in Requests :
    LET t == trip[x]
        trouble == t.phase = "failed" \/ answer[x].status >= 400 \/ answer[x].slow
    IN  /\ \A i, j \in OutEnds(x) : i = j
        /\ /\ t.phase \in {"answered", "failed"} /\ t.refused = {} /\ trouble
           /\ {"complete", "error"} \subseteq outOpts.logs
           => \E i \in OutEnds(x) :
                /\ outLog[x][i].status = answer[x].status
                /\ (t.phase = "failed") = (outLog[x][i].event = "error")

(* Of every outOpts.every fast successes in a row one is logged.            *)
OutOneKept == OneKept(outOpts.every, outRow)

(* RoundTrip returns once the server has ended its answer, or sent more of  *)
(* it than may be logged: it does not wait for the end of a long answer.    *)
TripReturns ==
  \A x \in Requests :
    (trip[x].phase = "answering"
     /\ (answer[x].ends # "open" \/ answer[x].served > outOpts.limit))
      ~> trip[x].phase = "answered"

(* What RoundTrip waits for has come by then: of a short answer its end, of  *)
(* a long one more than may be logged, however little the caller has of it.  *)
TripMayReturn ==
  \A x \in Requests :
    /\ trip[x].phase = "answering"
    /\ answer[x].ends # "open" \/ answer[x].served > outOpts.limit
    => EnoughRead(answer[x])
==============================================================================
