----------------------------- MODULE HttpExchange -----------------------------
(***************************************************************************)
(* The logging middleware of incoming HTTP requests, for net/http, Gin and *)
(* Fiber: src/adapters/nethttp, ginx and fiberx over src/httplog.  The     *)
(* requests of a server share the options and the sampler; each is served  *)
(* by one goroutine that runs the middleware around the handler, which is  *)
(* the application's and does what it likes.                               *)
(*                                                                         *)
(* Routes, addresses, headers, query values and the redaction of JSON      *)
(* bodies are left out: they go into an event and change nothing else.     *)
(***************************************************************************)
EXTENDS Context, HttpLog

CONSTANTS
  HttpOptions,   \* the ways the middleware may be set up
  Arrivals,      \* the requests that may come in
  Codes          \* the status codes a handler sets

Adapters == {"nethttp", "gin", "fiber"}

ASSUME HttpAssumption ==
  /\ HttpOptions \subseteq
       [adapter : Adapters, logs : SUBSET Stages, hooks : SUBSET Stages,
        every : Nat, slow : BOOLEAN, limit : Nat \ {0},
        requestBody : BOOLEAN, responseBody : BOOLEAN,
        errorBodies : BOOLEAN, successBodies : BOOLEAN]
  /\ Arrivals \subseteq
       [header : Id, trace : Id, context : Contexts,
        bytes : Nat, fails : BOOLEAN, textual : BOOLEAN]
  /\ Codes \subseteq Nat \ {0}

VARIABLES
  httpOpts,     \* Options, after normalizeOptions
  phase,        \* per request: "new", "handling", "ended", "answered", "panicked"
  arrival,      \* per request: what came in
  base,         \* per request: the context the middleware gives to the handler
  ctx,          \* per request: the context the handler has derived from it
  inbound,      \* per request: its body, what is left to read and what was read
  out,          \* per request: the response writer and its wrapper
  httpLog,      \* per request: the events logged
  httpCounter,  \* the sampler of the middleware
  up,           \* the process is alive
  plain,        \* history: the response writer, had the handler no wrapper
  handed,       \* history: the bytes the handler gave to Write
  used,         \* history: the unusual things the handler did
  verdict,      \* history: what the middleware found when the handler returned
  httpRow       \* history: completions sampled out since one was kept

handlerVars == <<ctx, inbound, out, up, plain, handed, used>>
frameVars   == <<httpOpts, arrival, base, httpLog, httpCounter, httpRow, verdict>>
httpVars    == <<phase, handlerVars, frameVars>>

Is(a)     == httpOpts.adapter = a
LogsAny   == httpOpts.logs # {}
(* net/http's wrapper is there only if something may be logged.             *)
Wrapped   == LogsAny \/ ~Is("nethttp")
Handling(x) == up /\ phase[x] = "handling"

Unlabelled(n) == [i \in 1..n |-> 0]

-----------------------------------------------------------------------------
(* The server's own response writer: external.  status is 0 until the       *)
(* header is sent; Gin and Fiber remember the status in next until then.    *)
Blank == [status |-> 0, next |-> 200, sent |-> <<>>, gone |-> FALSE,
          wrote |-> FALSE, code |-> 200, size |-> 0, kept |-> <<>>, cut |-> FALSE]

SendHeader(w) == IF w.status = 0 THEN [w EXCEPT !.status = w.next] ELSE w

(* An informational status is sent to the client, and another follows.      *)
SetStatus(w, code) ==
  IF w.status # 0 \/ (Is("nethttp") /\ code < 200) THEN w
  ELSE IF Is("nethttp") THEN [w EXCEPT !.status = code] ELSE [w EXCEPT !.next = code]

(* The writer takes n of the bytes, all unless the client has gone.         *)
Accept(w, bytes, n) ==
  LET h == IF Is("fiber") THEN w ELSE SendHeader(w)
  IN  [h EXCEPT !.sent = @ \o Upto(bytes, n), !.gone = n < Len(bytes)]

Accepted(w, bytes) ==
  IF w.gone THEN {0} ELSE IF Is("fiber") THEN {Len(bytes)} ELSE 0..Len(bytes)

(* The server's part when the middleware has returned: Fiber calls its      *)
(* error handler, which answers with the status and the text of the error.  *)
ErrorPage == <<0>>
CloseResponse(w, err) ==
  SendHeader(IF Is("fiber") /\ err # 0
             THEN [w EXCEPT !.next = err, !.sent = ErrorPage] ELSE w)

-----------------------------------------------------------------------------
(* net/http's responseWriter: status and size for the event, kept for the   *)
(* body in it.                                                              *)
KeepsBody ==
  /\ LogsAny /\ httpOpts.responseBody
  /\ httpOpts.errorBodies \/ httpOpts.successBodies

RwWriteHeader_NotForwarded(w, code) ==
  IF w.wrote THEN w ELSE [w EXCEPT !.wrote = TRUE, !.code = code]
RwWriteHeader(w, code) ==
  IF w.wrote THEN w ELSE SetStatus([w EXCEPT !.wrote = TRUE, !.code = code], code)

RwCapture_Refill(w, bytes) ==
  [w EXCEPT !.kept = @ \o Upto(bytes, httpOpts.limit - Len(@)),
            !.cut  = Len(bytes) > httpOpts.limit - Len(w.kept)]
RwCapture(w, bytes) ==
  LET remaining == httpOpts.limit - Len(w.kept)
  IN  IF w.cut THEN w
      ELSE IF remaining <= 0 THEN [w EXCEPT !.cut = TRUE]
      ELSE [w EXCEPT !.kept = @ \o Upto(bytes, remaining), !.cut = Len(bytes) > remaining]

RwWrite_CountsGiven(w, bytes, n) ==
  LET c == IF KeepsBody THEN RwCapture(w, bytes) ELSE w
  IN  Accept([c EXCEPT !.wrote = TRUE, !.size = @ + Len(bytes)], bytes, n)
RwWrite(w, bytes, n) ==
  LET c == IF KeepsBody THEN RwCapture(w, bytes) ELSE w
  IN  Accept([c EXCEPT !.wrote = TRUE, !.size = @ + n], bytes, n)

(* Gin's wrapper only keeps the body; status and size are Gin's.            *)
GinWrite(w, bytes, n) ==
  Accept(IF KeepsBody THEN RwCapture(w, bytes) ELSE w, bytes, n)

(* What the handler's calls do to its writer.                               *)
HandlerWriteHeader(w, code) ==
  IF Is("nethttp") /\ Wrapped THEN RwWriteHeader(w, code) ELSE SetStatus(w, code)

HandlerWrite(w, bytes, n) ==
  IF Is("nethttp") /\ Wrapped THEN RwWrite(w, bytes, n)
  ELSE IF Is("gin") THEN GinWrite(w, bytes, n) ELSE Accept(w, bytes, n)

-----------------------------------------------------------------------------
(* captureRequestBody: one byte more than the limit is read, and put back   *)
(* in front of the rest.  Fiber has read the whole body before.             *)
Captures(a) == httpOpts.requestBody /\ LogsAny /\ a.textual

CapturedAhead(a) == IF Captures(a) /\ ~Is("fiber") THEN httpOpts.limit + 1 ELSE 0

CaptureRequestBody_Swallows(a) ==
  ReadAhead(Bytes(a.bytes), CapturedAhead(a),
            Ending(a.fails /\ a.bytes >= CapturedAhead(a)))
CaptureRequestBody(a) == ReadAhead(Bytes(a.bytes), CapturedAhead(a), Ending(a.fails))

(* The body is not logged if the read failed before the limit was passed.   *)
RequestBody(a) ==
  IF ~Captures(a) \/ (a.fails /\ a.bytes <= httpOpts.limit) THEN NoBody
  ELSE CaptureBody(a.textual, Bytes(a.bytes), httpOpts.limit)

-----------------------------------------------------------------------------
(* What each middleware makes of the writer w and the error err when the    *)
(* handler returns, and the event it goes for.                              *)
Wants(stage, refused) == stage \in httpOpts.logs /\ stage \notin refused
Completion == IF "complete" \in httpOpts.logs THEN "complete" ELSE "none"

NethttpEnd(w, err, refused) ==
  [status |-> w.code, size |-> w.size, failing |-> w.code >= 500,
   event |-> IF w.code >= 500 /\ Wants("error", refused) THEN "error" ELSE Completion]

GinEnd(w, err, refused) ==
  LET failing == err # 0 \/ w.next >= 500
  IN  [status |-> w.next, size |-> Len(w.sent), failing |-> failing,
       event |-> IF failing /\ Wants("error", refused) THEN "error" ELSE Completion]

(* Fiber's returns the error it may not log: no completion follows.         *)
FiberEnd(w, err, refused) ==
  LET failing == err # 0 \/ w.next >= 500
  IN  [status |-> w.next, size |-> Len(w.sent), failing |-> failing,
       event |-> IF ~failing THEN Completion
                 ELSE IF Wants("error", refused) THEN "error" ELSE "none"]

EndOf(w, err, refused) ==
  IF Is("nethttp") THEN NethttpEnd(w, err, refused)
  ELSE IF Is("gin") THEN GinEnd(w, err, refused) ELSE FiberEnd(w, err, refused)

(* The response body in the event, for the statuses that log one.  Fiber    *)
(* has it whole when the handler returns.                                   *)
FiberBody(w, textual) == CaptureBody(textual, w.sent, httpOpts.limit)
KeptBody(w, textual) ==
  IF textual THEN [value |-> w.kept, cut |-> w.cut] ELSE NoBody

ResponseBody(w, status, textual) ==
  IF ~httpOpts.responseBody
     \/ ~(IF status >= 400 THEN httpOpts.errorBodies ELSE httpOpts.successBodies) THEN NoBody
  ELSE IF Is("fiber") THEN FiberBody(w, textual) ELSE KeptBody(w, textual)

-----------------------------------------------------------------------------
(* The middleware up to the call of the handler.                            *)
ContextFor_NotStored(a, fresh) ==
  WithMeta(a.context, [corr |-> IF a.header # NoId THEN a.header ELSE fresh, trace |-> a.trace])
ContextFor(a, fresh) ==
  LET c == IF a.header # NoId THEN WithID(a.context, a.header)
           ELSE GetOrGenerate(a.context, fresh)
  IN  WithMeta(c, [corr |-> c.corr, trace |-> a.trace])

Begin(x, a, fresh, refused) ==
  /\ up /\ phase[x] = "new"
  /\ (Is("fiber") => ~a.fails) /\ refused \subseteq httpOpts.hooks \cap {"start"}
  /\ phase' = [phase EXCEPT ![x] = "handling"]
  /\ arrival' = [arrival EXCEPT ![x] = a]
  /\ base' = [base EXCEPT ![x] = ContextFor(a, fresh)]
  /\ ctx' = [ctx EXCEPT ![x] = ContextFor(a, fresh)]
  /\ inbound' = [inbound EXCEPT ![x] = CaptureRequestBody(a)]
  /\ httpLog' = [httpLog EXCEPT ![x] =
       IF Wants("start", refused)
       THEN <<Event("start", Stamp(ContextFor(a, fresh)), RequestBody(a), 0, 0, NoBody)>>
       ELSE <<>>]
  /\ UNCHANGED <<httpOpts, httpCounter, httpRow, verdict, out, up, plain, handed, used>>

(* The middleware from the return of the handler on.  In Gin the handler    *)
(* may have put its own context into the request.                           *)
EndContexts(x) == IF Is("gin") THEN {base[x], ctx[x]} ELSE {base[x]}

End(x, err, slow, refused, c) ==
  LET w == out[x]
      e == EndOf(w, err, refused)
      d == Decision(e.event, e.status, e.failing, slow)
  IN  /\ Handling(x)
      /\ err = 0 \/ ~Is("nethttp")
      /\ slow \in SlowChoices(httpOpts.slow) /\ refused \subseteq httpOpts.hooks \ {"start"}
      /\ phase' = [phase EXCEPT ![x] = "ended"]
      /\ verdict' = [verdict EXCEPT ![x] =
           [err |-> err, slow |-> slow, refused |-> refused, status |-> e.status]]
      /\ httpCounter' = CounterAfter(httpOpts.every, d, httpCounter)
      /\ httpRow' = RowAfter(httpOpts.every, d, httpCounter, httpRow)
      /\ httpLog' = [httpLog EXCEPT ![x] =
           IF e.event # "none" /\ ShouldLog(httpOpts.every, d, httpCounter, refused)
           THEN Append(@, Event(e.event, Stamp(c), RequestBody(arrival[x]), e.status, e.size,
                                ResponseBody(w, e.status, arrival[x].textual)))
           ELSE @]
      /\ UNCHANGED <<httpOpts, arrival, base, handlerVars>>

(* The server sends what is left to send.                                   *)
Answer(x) ==
  /\ up /\ phase[x] = "ended"
  /\ phase' = [phase EXCEPT ![x] = "answered"]
  /\ out' = [out EXCEPT ![x] = CloseResponse(@, verdict[x].err)]
  /\ plain' = [plain EXCEPT ![x] = CloseResponse(@, verdict[x].err)]
  /\ UNCHANGED <<ctx, inbound, up, handed, used, frameVars>>

(* A handler that panics takes the middleware with it.                      *)
Panic(x) ==
  /\ Handling(x) /\ phase' = [phase EXCEPT ![x] = "panicked"]
  /\ UNCHANGED <<handlerVars, frameVars>>

-----------------------------------------------------------------------------
(* The handler.                                                             *)
Responds(x, w, p, kind) ==
  /\ Handling(x)
  /\ out' = [out EXCEPT ![x] = w] /\ plain' = [plain EXCEPT ![x] = p]
  /\ used' = [used EXCEPT ![x] = @ \union kind]
  /\ UNCHANGED <<phase, ctx, inbound, frameVars>>

WriteHeader(x, code) ==
  /\ code >= 200 \/ Is("nethttp")
  /\ Responds(x, HandlerWriteHeader(out[x], code), SetStatus(plain[x], code),
              IF code < 200 THEN {"informational"} ELSE {})
  /\ UNCHANGED <<up, handed>>

Write(x, len, n) ==
  LET bytes == [i \in 1..len |-> handed[x] + i]
  IN  /\ n \in Accepted(out[x], bytes)
      /\ Responds(x, HandlerWrite(out[x], bytes, n), Accept(plain[x], bytes, n), {})
      /\ handed' = [handed EXCEPT ![x] = @ + len] /\ UNCHANGED up

(* Gin's writer has a WriteString of its own, which the wrapper shows.      *)
WriteString(x, len, n) ==
  LET bytes == Unlabelled(len)
  IN  /\ Is("gin") /\ n \in Accepted(out[x], bytes)
      /\ Responds(x, Accept(out[x], bytes, n), Accept(plain[x], bytes, n), {})
      /\ UNCHANGED <<up, handed>>

(* io.Copy from a source that has no WriteTo looks for ReadFrom in its      *)
(* target.  responseWriter.ReadFrom calls io.Copy, which calls it again,    *)
(* until the stack is full: that ends the process.                          *)
Copy(x, len, n) ==
  LET bytes == [i \in 1..len |-> handed[x] + i]
      loops == Is("nethttp") /\ Wrapped
  IN  /\ n \in Accepted(out[x], bytes)
      /\ Responds(x, IF loops THEN out[x] ELSE HandlerWrite(out[x], bytes, n),
                     Accept(plain[x], bytes, n), {"copy"})
      /\ up' = ~loops
      /\ handed' = [handed EXCEPT ![x] = @ + len]

Flush(x) ==
  /\ ~Is("fiber")
  /\ Responds(x, SendHeader(out[x]), SendHeader(plain[x]), {"flush"})
  /\ UNCHANGED <<up, handed>>

(* The connection is the handler's, which answers 101 there.                *)
Hijack(x) ==
  LET taken(w) == [w EXCEPT !.status = 101, !.gone = TRUE]
  IN  /\ ~Is("fiber") /\ out[x].status = 0
      /\ Responds(x, taken(out[x]), taken(plain[x]), {"hijack"})
      /\ UNCHANGED <<up, handed>>

(* It reads its body, the bytes put back first,                             *)
ReadBody(x) ==
  /\ Handling(x) /\ CanRead(inbound[x])
  /\ inbound' = [inbound EXCEPT ![x] = ReadOn(@)]
  /\ UNCHANGED <<phase, ctx, out, up, plain, handed, used, frameVars>>

(* and derives contexts, which other calls get.                             *)
Derive(x, c, kind) ==
  /\ Handling(x) /\ c # ctx[x]
  /\ ctx' = [ctx EXCEPT ![x] = c]
  /\ used' = [used EXCEPT ![x] = @ \union {kind}]
  /\ UNCHANGED <<phase, inbound, out, up, plain, handed, frameVars>>

-----------------------------------------------------------------------------
NoArrival ==
  [header |-> NoId, trace |-> NoId, context |-> Background,
   bytes |-> 0, fails |-> FALSE, textual |-> FALSE]

HttpInit ==
  /\ httpOpts \in HttpOptions
  /\ phase = [x \in Requests |-> "new"]
  /\ arrival = [x \in Requests |-> NoArrival]
  /\ base = [x \in Requests |-> Background] /\ ctx = [x \in Requests |-> Background]
  /\ inbound = [x \in Requests |-> ReadAhead(<<>>, 0, "eof")]
  /\ out = [x \in Requests |-> Blank] /\ plain = [x \in Requests |-> Blank]
  /\ up = TRUE
  /\ handed = [x \in Requests |-> 0] /\ used = [x \in Requests |-> {}]
  /\ httpLog = [x \in Requests |-> <<>>]
  /\ httpCounter = 0 /\ httpRow = 0
  /\ verdict = [x \in Requests |-> [err |-> 0, slow |-> FALSE, refused |-> {}, status |-> 0]]

Errors == {0} \union {c \in Codes : c >= 400}

(* The middleware, and the server it runs in.                               *)
Middleware(x) ==
  \/ \E a \in Arrivals, fresh \in {x, NoId}, refused \in SUBSET {"start"} :
       Begin(x, a, fresh, refused)
  \/ \E err \in Errors, slow \in BOOLEAN, refused \in SUBSET {"complete", "error"}, c \in EndContexts(x) :
       End(x, err, slow, refused, c)
  \/ Answer(x)

Handler(x) ==
  \/ \E code \in Codes : WriteHeader(x, code)
  \/ \E len \in 0..2 : \E n \in 0..len : Write(x, len, n) \/ WriteString(x, len, n)
  \/ \E n \in 0..1 : Copy(x, 1, n)
  \/ Flush(x) \/ Hijack(x) \/ ReadBody(x) \/ Panic(x)
  \/ \E id \in Ids :
       \/ Derive(x, WithID(ctx[x], id), "renamed")
       \/ Derive(x, WithCorrelationID(ctx[x], id), "rebased")
       \/ Derive(x, OtelWithTrace(ctx[x], id), "traced")

HttpNext == \E x \in Requests : Middleware(x) \/ Handler(x)

HttpSpec == HttpInit /\ [][HttpNext]_httpVars

-----------------------------------------------------------------------------
(* The variables hold what their comments say.                              *)
Bodies  == [value : Seq(Nat), cut : BOOLEAN]
Readers == [buffer : Seq(Nat), conn : Seq(Nat), end : Endings, taken : Seq(Nat), met : Endings]
Writers == [status : Nat, next : Nat, sent : Seq(Nat), gone : BOOLEAN,
            wrote : BOOLEAN, code : Nat, size : Nat, kept : Seq(Nat), cut : BOOLEAN]
Events  == [event : Stages, stamp : Meta, request : Bodies,
            status : Nat, size : Nat, body : Bodies]
Quirks  == {"informational", "copy", "flush", "hijack", "renamed", "rebased", "traced"}

HttpTypeOK ==
  /\ httpOpts \in HttpOptions
  /\ phase \in [Requests -> {"new", "handling", "ended", "answered", "panicked"}]
  /\ arrival \in [Requests -> Arrivals \union {NoArrival}]
  /\ base \in [Requests -> Contexts] /\ ctx \in [Requests -> Contexts]
  /\ inbound \in [Requests -> Readers]
  /\ out \in [Requests -> Writers] /\ plain \in [Requests -> Writers]
  /\ httpLog \in [Requests -> Seq(Events)]
  /\ httpCounter \in 0..(CounterSize - 1) /\ httpRow \in Nat
  /\ up \in BOOLEAN /\ handed \in [Requests -> Nat]
  /\ used \in [Requests -> SUBSET Quirks]
  /\ verdict \in [Requests -> [err : Nat, slow : BOOLEAN, refused : SUBSET Stages, status : Nat]]

(* The client gets the status and the bytes it would get without the        *)
(* middleware, whatever order the handler sets status, writes, flushes and  *)
(* hijacks in and wherever the client goes away.                            *)
SeenByClient(w) == [status |-> w.status, next |-> w.next, sent |-> w.sent, gone |-> w.gone]

ClientUnaffectedUnless(quirks) ==
  \A x \in Requests :
    used[x] \cap quirks = {} => SeenByClient(out[x]) = SeenByClient(plain[x])

(* This holds of every handler but one that sends an informational status,  *)
(* which net/http's wrapper takes for the final one, or copies into the     *)
(* response (see ClientUnaffectedByCopy).                                   *)
ClientUnaffected == ClientUnaffectedUnless({"informational", "copy"})

(* "Adapters add protocol-specific ECS fields without changing business     *)
(* handlers": one that copies from a reader answers what it did before.     *)
ClientUnaffectedByCopy == ClientUnaffectedUnless({"informational"})

(* The handler reads the body the client sent, all of it and in order, and  *)
(* then the end of it or the failure of its connection, however much of it  *)
(* was captured for the log, or failed to be.                               *)
BodyReplayed ==
  \A x \in Requests :
    Arrives(inbound[x], Bytes(arrival[x].bytes), Ending(arrival[x].fails))

(* Where in its log the end of a request is told of.                        *)
EndEvents(x) == {i \in DOMAIN httpLog[x] : httpLog[x][i].event # "start"}

(* What the event says was sent is what was sent: status and bytes agree,   *)
(* however short the writes fell.  Left out is what the wrappers do not     *)
(* see: an informational status, a hijacked connection, in net/http a flush *)
(* before the status is set, in Fiber the error handler's page.             *)
Overlooked == {"informational", "hijack"} \union (IF Is("nethttp") THEN {"flush"} ELSE {})

LoggedAsSent ==
  \A x \in Requests :
    /\ phase[x] = "answered" /\ used[x] \cap Overlooked = {}
    /\ ~(Is("fiber") /\ verdict[x].err # 0)
    => \A i \in EndEvents(x) :
         LET e == httpLog[x][i]
         IN  e.status = out[x].status /\ e.size = Len(out[x].sent)

(* The body in an event is a prefix of what the handler wrote, cut at the   *)
(* limit, and never passed off as the whole when it is not.                 *)
CaptureIsPrefix ==
  \A x \in Requests : \A i \in EndEvents(x) :
    LET body    == httpLog[x][i].body
        written == IF Is("fiber") THEN plain[x].sent ELSE Bytes(handed[x])
    IN  /\ phase[x] = "ended" /\ body.value # <<>>
        => /\ body.value = Upto(written, httpOpts.limit)
           /\ Len(written) > httpOpts.limit => body.cut

(* A request is told of at most once when it ends, and exactly once if it   *)
(* failed, answered an error or was slow and no hook objected: the sampler  *)
(* never drops such a one.                                                  *)
TroubleIsTold ==
  \A x \in Requests :
    /\ \A i, j \in EndEvents(x) : i = j
    /\ /\ phase[x] \in {"ended", "answered"}
       /\ {"complete", "error"} \subseteq httpOpts.logs /\ verdict[x].refused = {}
       /\ verdict[x].err # 0 \/ verdict[x].status >= 400 \/ verdict[x].slow
       => EndEvents(x) # {}

(* Of every httpOpts.every successes in a row one is logged, even where the *)
(* counter wraps, and whichever requests they were.                         *)
HttpOneKept == OneKept(httpOpts.every, httpRow)
===============================================================================
