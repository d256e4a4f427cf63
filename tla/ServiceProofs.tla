---------------------------- MODULE ServiceProofs ----------------------------
(***************************************************************************)
(* For any number of requests, any options, load, statuses and lengths of  *)
(* bodies: the samplers keep one of every so many successes and no trouble *)
(* goes untold; bodies that are captured arrive whole, and only those of   *)
(* errors are shown; the requests are those of HttpExchange; a line is     *)
(* delivered as it was printed; and all that a request leaves behind is    *)
(* found under its ID.                                                     *)
(***************************************************************************)
EXTENDS Service, Remainders, HttpExchangeProofs

-----------------------------------------------------------------------------
(* A sampler: what it has dropped since it kept an event is not more than   *)
(* what is left of its counter.                                             *)
Sampler(every, counter, row) ==
  /\ every \in Nat /\ counter \in 0..(CounterSize - 1) /\ row \in Nat
  /\ every > 1 => row <= counter % every

(* A decision keeps this; where the counter wraps, to 0, the event is kept.  *)
LEMMA SamplerSteps ==
  ASSUME NEW every, NEW counter, NEW row, NEW d, Sampler(every, counter, row)
  PROVE  Sampler(every, CounterAfter(every, d, counter), RowAfter(every, d, counter, row))
<1> DEFINE n == Bumped(counter)
<1>1. CASE ~Counted(every, d)
  BY <1>1 DEF CounterAfter, RowAfter
<1>2. CASE Counted(every, d)
  <2>1. every > 1 /\ every \in Nat \ {0} /\ counter \in Nat
    BY <1>2, CounterAssumption DEF Counted, Sampler
  <2>2. CounterAfter(every, d, counter) = n
    BY <1>2 DEF CounterAfter
  <2>3. n \in 0..(CounterSize - 1)
    BY <2>1, CounterAssumption DEF Bumped
  <2>4. n % every \in Nat
    BY <2>1, <2>3
  <2>5. CASE n % every = 0
    <3>1. RowAfter(every, d, counter, row) = 0
      BY <1>2, <2>5 DEF RowAfter, ShouldKeep
    <3> QED
      BY <2>1, <2>2, <2>3, <2>4, <3>1 DEF Sampler
  <2>6. CASE n % every # 0
    <3>1. RowAfter(every, d, counter, row) = row + 1
      BY <1>2, <2>6 DEF RowAfter, ShouldKeep
    <3>2. n = counter + 1
      <4>1. n # 0
        BY <2>1, <2>6
      <4>2. CASE counter + 1 < CounterSize
        BY <4>2, <2>1, CounterAssumption DEF Bumped
      <4>3. CASE counter + 1 = CounterSize
        BY <4>1, <4>3, CounterAssumption DEF Bumped
      <4> QED
        BY <4>2, <4>3, CounterAssumption DEF Sampler
    <3>3. n % every = (counter % every) + 1
      BY <2>1, <2>6, <3>2, NextRemainder
    <3>4. row + 1 <= n % every
      BY <2>1, <3>3 DEF Sampler
    <3> QED
      BY <2>1, <2>2, <2>3, <3>1, <3>4 DEF Sampler
  <2> QED
    BY <2>5, <2>6
<1> QED
  BY <1>1, <1>2

LEMMA SamplerKeeps ==
  ASSUME NEW every, NEW counter, NEW row, Sampler(every, counter, row)
  PROVE  OneKept(every, row)
<1>1. every > 1 => counter % every < every
  BY CounterAssumption DEF Sampler
<1> QED
  BY <1>1, CounterAssumption DEF Sampler, OneKept

-----------------------------------------------------------------------------
(* The samplers of the middleware, the transport and the GORM logger.       *)
Samplers ==
  /\ httpOpts \in HttpOptions /\ outOpts \in OutOptions /\ dbOpts \in DbOptions
  /\ Sampler(httpOpts.every, httpCounter, httpRow)
  /\ Sampler(outOpts.every, outCounter, outRow)
  /\ Sampler(dbOpts.every, dbCounter, dbRow)

httpSampler == <<httpOpts, httpCounter, httpRow>>
outSampler  == <<outOpts, outCounter, outRow>>
dbSampler   == <<dbOpts, dbCounter, dbRow>>

LEMMA InitSamplers == Init => Samplers
<1> SUFFICES ASSUME Init PROVE Samplers
  OBVIOUS
<1>1. httpOpts \in HttpOptions /\ outOpts \in OutOptions /\ dbOpts \in DbOptions
  BY DEF Init, HttpInit, OutInit, DbInit
<1>2. httpOpts.every \in Nat /\ outOpts.every \in Nat /\ dbOpts.every \in Nat
  BY <1>1, HttpAssumption, OutAssumption, DbAssumption
<1>3. \A e \in Nat : Sampler(e, 0, 0)
  BY CounterAssumption DEF Sampler
<1> QED
  BY <1>1, <1>2, <1>3 DEF Init, HttpInit, OutInit, DbInit, Samplers

(* What a step of the middleware or the handler does to its sampler.         *)
LEMMA HttpSamplerSteps ==
  ASSUME Samplers, NEW x \in Requests,
         \/ Serves(x) \/ Responding(x) \/ Reading(x) \/ Panicking(x) \/ Deriving(x)
  PROVE  Sampler(httpOpts'.every, httpCounter', httpRow') /\ httpOpts' = httpOpts
<1>1. CASE UNCHANGED httpSampler
  BY <1>1 DEF httpSampler, Samplers
<1>2. ASSUME NEW err, NEW slow, NEW refused, NEW c, End(x, err, slow, refused, c)
      PROVE  Sampler(httpOpts'.every, httpCounter', httpRow') /\ httpOpts' = httpOpts
  BY <1>2, SamplerSteps DEF End, Samplers
<1>3. ASSUME NEW a, NEW fresh, NEW refused, Begin(x, a, fresh, refused)
      PROVE  UNCHANGED httpSampler
  BY <1>3 DEF Begin, httpSampler
<1>4. Answer(x) => UNCHANGED httpSampler
  BY DEF Answer, frameVars, httpSampler
<1>5. CASE Serves(x)
  BY <1>1, <1>2, <1>3, <1>4, <1>5 DEF Serves
<1>6. ASSUME NEW w, NEW p, NEW k, Responds(x, w, p, k)
      PROVE  UNCHANGED httpSampler
  BY <1>6 DEF Responds, frameVars, httpSampler
<1>7. Responding(x) => UNCHANGED httpSampler
  BY <1>6 DEF Responding, WriteHeader, Write, WriteString, Copy, Flush, Hijack
<1>8. Reading(x) \/ Panicking(x) \/ Deriving(x) => UNCHANGED httpSampler
  BY DEF Reading, Panicking, Deriving, ReadBody, Panic, Derive, frameVars, httpSampler
<1> QED
  BY <1>1, <1>5, <1>7, <1>8

(* What a step of a call or of its peers does to the transport's sampler.    *)
LEMMA OutSamplerSteps ==
  ASSUME Samplers, NEW x \in Requests,
         Calling(x) \/ Returning(x) \/ Peer(x) \/ Receiving(x)
  PROVE  Sampler(outOpts'.every, outCounter', outRow') /\ outOpts' = outOpts
<1>1. CASE UNCHANGED outSampler
  BY <1>1 DEF outSampler, Samplers
<1>2. ASSUME NEW d, Steps(d), UNCHANGED outOpts
      PROVE  Sampler(outOpts'.every, outCounter', outRow')
  BY <1>2, SamplerSteps DEF Steps, Samplers
<1>3. Calling(x) \/ Receiving(x) => UNCHANGED outSampler
  BY DEF Calling, RoundTrip, Receiving, ReadAnswer, outSampler
<1>4. ASSUME NEW refused, Return(x, refused)
      PROVE  Sampler(outOpts'.every, outCounter', outRow') /\ outOpts' = outOpts
  BY <1>1, <1>2, <1>4 DEF Return, outSampler
<1>5. ASSUME NEW status, NEW slow, NEW textual, BaseAnswers(x, status, slow, textual)
      PROVE  Sampler(outOpts'.every, outCounter', outRow') /\ outOpts' = outOpts
  BY <1>1, <1>2, <1>5 DEF BaseAnswers, outSampler
<1>6. ASSUME NEW traits, NEW refused, BaseFails(x, traits, refused)
      PROVE  UNCHANGED outSampler
  BY <1>6 DEF BaseFails, outSampler
<1>7. Transmit(x) \/ Serve(x) \/ (\E how : ServerEnds(x, how)) => UNCHANGED outSampler
  BY DEF Transmit, Serve, ServerEnds, outSampler
<1>8. CASE Peer(x)
  BY <1>1, <1>5, <1>6, <1>7, <1>8 DEF Peer
<1> QED
  BY <1>1, <1>3, <1>4, <1>8 DEF Returning, Returns

(* What a query does to the GORM logger's.                                   *)
LEMMA DbSamplerSteps ==
  ASSUME Samplers, NEW x \in Requests, Querying(x)
  PROVE  Sampler(dbOpts'.every, dbCounter', dbRow') /\ dbOpts' = dbOpts
<1>1. CASE UNCHANGED dbSampler
  BY <1>1 DEF dbSampler, Samplers
<1>2. ASSUME NEW c, NEW q, NEW allowed, Trace(x, c, q, allowed)
      PROVE  Sampler(dbOpts'.every, dbCounter', dbRow') /\ dbOpts' = dbOpts
  <2>1. UNCHANGED <<dbCounter, dbRow>>
        \/ \E d : /\ dbCounter' = CounterAfter(dbOpts.every, d, dbCounter)
                  /\ dbRow' = RowAfter(dbOpts.every, d, dbCounter, dbRow)
    BY <1>2 DEF Trace
  <2>2. dbOpts' = dbOpts
    BY <1>2 DEF Trace
  <2> QED
    BY <2>1, <2>2, SamplerSteps DEF Samplers
<1>3. ASSUME NEW l, LogMode(x, l) PROVE UNCHANGED dbSampler
  BY <1>3 DEF LogMode, dbSampler
<1> QED
  BY <1>1, <1>2, <1>3 DEF Querying

(* No step touches more than one of them.                                    *)
LEMMA NextSamplers == Samplers /\ [Next]_vars => Samplers'
<1> SUFFICES ASSUME Samplers, [Next]_vars PROVE Samplers'
  OBVIOUS
<1> DEFINE Frames ==
      /\ httpVars' = httpVars => UNCHANGED httpSampler
      /\ outVars' = outVars => UNCHANGED outSampler
      /\ dbVars' = dbVars => UNCHANGED dbSampler
<1>1. Frames
  BY DEF httpVars, frameVars, outVars, dbVars, httpSampler, outSampler, dbSampler
<1>2. CASE UNCHANGED <<httpVars, outVars, dbVars>>
  BY <1>1, <1>2 DEF Samplers, httpSampler, outSampler, dbSampler
<1>3. ASSUME NEW x \in Requests,
             \/ Serves(x) \/ Responding(x) \/ Reading(x) \/ Panicking(x) \/ Deriving(x)
      PROVE  Samplers'
  <2>1. UNCHANGED <<outVars, dbVars>>
    BY <1>3 DEF Serves, Responding, Reading, Panicking, Deriving
  <2> QED
    BY <1>1, <1>3, <2>1, HttpSamplerSteps DEF Samplers, outSampler, dbSampler
<1>4. ASSUME NEW x \in Requests, Calling(x) \/ Returning(x) \/ Peer(x) \/ Receiving(x)
      PROVE  Samplers'
  <2>1. UNCHANGED <<httpVars, dbVars>>
    BY <1>4 DEF Calling, Returning, Peer, Receiving
  <2> QED
    BY <1>1, <1>4, <2>1, OutSamplerSteps DEF Samplers, httpSampler, dbSampler
<1>5. ASSUME NEW x \in Requests, Querying(x) PROVE Samplers'
  <2>1. UNCHANGED <<httpVars, outVars>>
    BY <1>5 DEF Querying
  <2> QED
    BY <1>1, <1>5, <2>1, DbSamplerSteps DEF Samplers, httpSampler, outSampler
<1>6. ASSUME NEW x \in Requests, Logging(x) \/ Queuing(x) PROVE Samplers'
  BY <1>2, <1>6 DEF Logging, Queuing
<1>7. CASE Changing \/ Encoding
  BY <1>2, <1>7 DEF Changing, Encoding
<1>8. CASE UNCHANGED vars
  BY <1>2, <1>8 DEF vars
<1> QED
  BY <1>3, <1>4, <1>5, <1>6, <1>7, <1>8 DEF Next

(* Of every so many successes in a row one is logged: by the middleware,     *)
(* whichever requests end together, by the transport, which looks at its     *)
(* sampler before the body of an answer or after it, and by the GORM logger; *)
(* for any rate and any width of the counter, also where it wraps.           *)
THEOREM OneSuccessIsKept == Spec => []SuccessesKept
<1>1. Samplers => SuccessesKept
  BY SamplerKeeps DEF Samplers, SuccessesKept, HttpOneKept, OutOneKept, DbOneKept
<1> QED
  BY <1>1, InitSamplers, NextSamplers, PTL DEF Spec
-----------------------------------------------------------------------------
(* The bodies of the requests that come in.                                 *)
RequestBodies ==
  /\ deployment \in Deployments /\ httpOpts \in HttpOptions
  /\ inbound \in [Requests -> Readers]
  /\ arrival \in [Requests -> Arrivals \union {NoArrival}]
  /\ BodyReplayed

(* The bodies of calls and of their answers; what is captured of an answer  *)
(* is read before the caller has it.                                        *)
Answers ==
  [status : Nat, slow : BOOLEAN, textual : BOOLEAN, served : Nat,
   ends : Endings, body : Readers]
TripFields == {"phase", "ctx", "call", "header", "sends", "error", "refused"}

Untouched(b)   == b.buffer = <<>> /\ b.taken = <<>>
Transmitted(t) == Arrives(t.sends, Bytes(t.call.bytes), Ending(t.call.fails))
Received(a)    == Arrives(a.body, Bytes(a.served), a.ends)

CallBodies ==
  /\ deployment \in Deployments /\ outOpts \in OutOptions
  /\ answer \in [Requests -> Answers]
  /\ trip = [x \in Requests |-> trip[x]]
  /\ \A x \in Requests :
       /\ DOMAIN trip[x] = TripFields /\ trip[x].sends \in Readers
       /\ trip[x].phase = "answering" => Untouched(answer[x].body)
       /\ Transmitted(trip[x]) /\ Received(answer[x])

LEMMA NothingRead ==
  ASSUME NEW end \in Endings
  PROVE  /\ ReadAhead(<<>>, 0, end) \in Readers /\ Arrives(ReadAhead(<<>>, 0, end), Bytes(0), end)
         /\ Untouched(ReadAhead(<<>>, 0, end))
<1>1. <<>> \in Seq(Nat) /\ Bytes(0) = <<>>
  BY EmptySeq DEF Bytes
<1>2. ReadAhead(<<>>, 0, end) \in Readers /\ Arrives(ReadAhead(<<>>, 0, end), <<>>, end)
  BY <1>1, ReadAheadArrives
<1>3. Upto(<<>>, 0) = <<>>
  BY SubSeqEmpty DEF Upto
<1> QED
  BY <1>1, <1>2, <1>3 DEF Untouched, ReadAhead

LEMMA NoBodies ==
  /\ NoTrip.sends \in Readers /\ Transmitted(NoTrip)
  /\ NoAnswer \in Answers /\ Received(NoAnswer) /\ Untouched(NoAnswer.body)
<1>1. "eof" \in Endings /\ "open" \in Endings /\ Ending(FALSE) = "eof"
  BY DEF Endings, Ending
<1> QED
  BY <1>1, NothingRead DEF NoTrip, NoAnswer, NoCall, Answers, Transmitted, Received

LEMMA InitBodies == Init => RequestBodies /\ CallBodies
<1> SUFFICES ASSUME Init PROVE RequestBodies /\ CallBodies
  OBVIOUS
<1>1. RequestBodies
  <2>1. "eof" \in Endings /\ Ending(FALSE) = "eof"
    BY DEF Endings, Ending
  <2>2. BodyReplayed
    BY <2>1, NothingRead DEF Init, HttpInit, BodyReplayed, NoArrival
  <2> QED
    BY <2>1, <2>2, NothingRead DEF Init, HttpInit, RequestBodies
<1>2. CallBodies
  <2>3. NoTrip.phase # "answering" /\ DOMAIN NoTrip = TripFields
    BY DEF NoTrip, TripFields
  <2>4. \A x \in Requests : trip[x] = NoTrip
    BY DEF Init, OutInit
  <2>5. trip = [x \in Requests |-> trip[x]] /\ answer \in [Requests -> Answers]
    BY NoBodies DEF Init, OutInit
  <2>6. deployment \in Deployments /\ outOpts \in OutOptions
    BY DEF Init, OutInit
  <2> QED
    BY <2>3, <2>4, <2>5, <2>6, NoBodies DEF Init, OutInit, CallBodies
<1> QED
  BY <1>1, <1>2

LEMMA DeploymentStays == [Next]_vars => deployment' = deployment
BY DEF Next, vars, Changing, Encoding, Serves, Responding, Op, Reading, Panicking, Deriving,
       Calling, Querying, Logging, Queuing, Returning, Peer, Receiving

(* Only the middleware and the handler's reads touch the body of a request.  *)
LEMMA RequestBodiesStep == RequestBodies /\ [Next]_vars => RequestBodies'
<1> SUFFICES ASSUME RequestBodies, [Next]_vars PROVE RequestBodies'
  OBVIOUS
<1> DEFINE Same == UNCHANGED <<httpOpts, inbound, arrival>>
<1>1. CASE Same
  BY <1>1, DeploymentStays DEF RequestBodies, BodyReplayed
<1>2. ASSUME NEW x \in Requests, NEW a \in Arrivals, NEW fresh, NEW refused,
             Begin(x, a, fresh, refused)
      PROVE  RequestBodies'
  <2>3. /\ CaptureRequestBody(a) \in Readers
        /\ Arrives(CaptureRequestBody(a), Bytes(a.bytes), Ending(a.fails))
    BY CapturedArrives DEF RequestBodies
  <2>4. /\ inbound' = [inbound EXCEPT ![x] = CaptureRequestBody(a)]
        /\ arrival' = [arrival EXCEPT ![x] = a] /\ httpOpts' = httpOpts
    BY <1>2 DEF Begin
  <2>5. inbound' \in [Requests -> Readers]
        /\ arrival' \in [Requests -> Arrivals \union {NoArrival}]
        /\ deployment' \in Deployments /\ httpOpts' \in HttpOptions
    BY <2>3, <2>4, DeploymentStays DEF RequestBodies
  <2>6. \A y \in Requests :
          Arrives(inbound'[y], Bytes(arrival'[y].bytes), Ending(arrival'[y].fails))
    BY <2>3, <2>4 DEF RequestBodies, BodyReplayed
  <2> QED
    BY <2>5, <2>6 DEF RequestBodies, BodyReplayed
<1>3. ASSUME NEW x \in Requests, ReadBody(x) PROVE RequestBodies'
  <2>1. inbound[x] \in Readers /\ CanRead(inbound[x])
    BY <1>3 DEF RequestBodies, ReadBody
  <2>2. /\ ReadOn(inbound[x]) \in Readers
        /\ \A s, end : Arrives(inbound[x], s, end) => Arrives(ReadOn(inbound[x]), s, end)
    BY <2>1, ReadOnArrives
  <2>3. inbound' = [inbound EXCEPT ![x] = ReadOn(inbound[x])]
        /\ arrival' = arrival /\ httpOpts' = httpOpts
    BY <1>3 DEF ReadBody, frameVars
  <2>4. \A y \in Requests : \A s, end : Arrives(inbound[y], s, end) => Arrives(inbound'[y], s, end)
    BY <2>2, <2>3 DEF RequestBodies
  <2> QED
    BY <2>2, <2>3, <2>4, DeploymentStays DEF RequestBodies, BodyReplayed
<1>4. ASSUME NEW x, NEW err, NEW slow, NEW refused, NEW c, End(x, err, slow, refused, c)
      PROVE  Same
  BY <1>4 DEF End, handlerVars
<1>5. ASSUME NEW x, Answer(x) PROVE Same
  BY <1>5 DEF Answer, frameVars
<1>6. ASSUME NEW x \in Requests, Serves(x) PROVE RequestBodies'
  <2>1. deployment.arrivals \subseteq Arrivals
    BY DeploymentsAssumption DEF RequestBodies
  <2> QED
    BY <1>1, <1>2, <1>4, <1>5, <1>6, <2>1 DEF Serves
<1>7. ASSUME NEW x, NEW w, NEW p, NEW k, Responds(x, w, p, k) PROVE Same
  BY <1>7 DEF Responds, frameVars
<1>8. ASSUME NEW x \in Requests, Responding(x) PROVE Same
  BY <1>7, <1>8 DEF Responding, WriteHeader, Write, WriteString, Copy, Flush, Hijack
<1>9. ASSUME NEW x \in Requests, Reading(x) PROVE RequestBodies'
  BY <1>3, <1>9 DEF Reading
<1>10. ASSUME NEW x \in Requests, Panicking(x) \/ Deriving(x) PROVE Same
  BY <1>10 DEF Panicking, Deriving, Panic, Derive, handlerVars, frameVars
<1>11. ASSUME NEW x \in Requests,
              \/ Calling(x) \/ Querying(x) \/ Logging(x) \/ Queuing(x)
              \/ Returning(x) \/ Peer(x) \/ Receiving(x)
       PROVE  Same
  <2>1. UNCHANGED httpVars
    BY <1>11 DEF Calling, Querying, Logging, Queuing, Returning, Peer, Receiving
  <2> QED
    BY <2>1 DEF httpVars, handlerVars, frameVars
<1>12. CASE Changing \/ Encoding \/ UNCHANGED vars
  BY <1>1, <1>12 DEF Changing, Encoding, vars, httpVars, handlerVars, frameVars
<1> HIDE DEF Same
<1> QED
  BY <1>1, <1>6, <1>8, <1>9, <1>10, <1>11, <1>12 DEF Next

(* The calls. First, what is the same for all of them.                       *)
LEMMA CallFrame ==
  ASSUME CallBodies, [Next]_vars, UNCHANGED outVars
  PROVE  CallBodies'
BY DeploymentStays DEF CallBodies, outVars

(* A step that changes one call or its answer keeps the others.              *)
LEMMA OneCall ==
  ASSUME CallBodies, [Next]_vars, NEW x \in Requests, NEW t, NEW a \in Answers,
         outOpts' = outOpts,
         trip' = [trip EXCEPT ![x] = t], answer' = [answer EXCEPT ![x] = a],
         DOMAIN t = TripFields, t.sends \in Readers, t.phase = "answering" => Untouched(a.body),
         Transmitted(t), Received(a)
  PROVE  CallBodies'
<1>1. trip'[x] = t /\ answer'[x] = a /\ trip' = [y \in Requests |-> trip'[y]]
  BY DEF CallBodies
<1>2. \A y \in Requests \ {x} : trip'[y] = trip[y] /\ answer'[y] = answer[y]
  BY DEF CallBodies
<1>3. answer' \in [Requests -> Answers]
  BY DEF CallBodies
<1>4. \A y \in Requests :
        /\ DOMAIN trip'[y] = TripFields /\ trip'[y].sends \in Readers
        /\ trip'[y].phase = "answering" => Untouched(answer'[y].body)
        /\ Transmitted(trip'[y]) /\ Received(answer'[y])
  BY <1>1, <1>2 DEF CallBodies
<1>6. deployment' \in Deployments /\ outOpts' \in OutOptions
  BY DeploymentStays DEF CallBodies
<1> QED
  BY <1>1, <1>3, <1>4, <1>6 DEF CallBodies, Transmitted, Received

(* RoundTrip gives the body of the call on.                                  *)
LEMMA RoundTripBodies ==
  ASSUME CallBodies, [Next]_vars, NEW x \in Requests, NEW c, NEW call \in Calls, NEW refused,
         RoundTrip(x, c, call, refused)
  PROVE  CallBodies'
<1> DEFINE t == [phase |-> "calling", ctx |-> c, call |-> call, header |-> Header(c),
                 sends |-> Sends(call), error |-> "", refused |-> {}]
<1>1. call.bytes \in Nat /\ outOpts.limit + 1 \in Nat /\ Ending(call.fails) \in Endings
  BY OutAssumption DEF CallBodies, Ending, Endings
<1>2. /\ Sends(call) \in Readers
      /\ Arrives(Sends(call), Bytes(call.bytes), Ending(call.fails))
  BY <1>1, NumberedBytes, ReadAheadArrives DEF Sends
<1>4. DOMAIN t = TripFields /\ t.phase # "answering" /\ t.sends \in Readers /\ Transmitted(t)
  BY <1>2 DEF TripFields, Transmitted
<1>5. /\ outOpts' = outOpts /\ trip' = [trip EXCEPT ![x] = t]
      /\ answer' = [answer EXCEPT ![x] = NoAnswer]
  BY DEF RoundTrip
<1> HIDE DEF t
<1> QED
  BY <1>4, <1>5, NoBodies, OneCall

(* The base transport reads it.                                              *)
LEMMA TransmitBodies ==
  ASSUME CallBodies, [Next]_vars, NEW x \in Requests, Transmit(x)
  PROVE  CallBodies'
<1> DEFINE b == trip[x].sends
           t == [trip[x] EXCEPT !.sends = ReadOn(trip[x].sends)]
<1>1. /\ ReadOn(b) \in Readers
      /\ \A s, end : Arrives(b, s, end) => Arrives(ReadOn(b), s, end)
  BY ReadOnArrives DEF CallBodies, Transmit
<1>2. DOMAIN t = TripFields /\ t.phase = "calling" /\ t.sends = ReadOn(b) /\ t.call = trip[x].call
  BY DEF CallBodies, TripFields, Transmit
<1>3. Transmitted(t) /\ t.sends \in Readers /\ answer[x] \in Answers /\ Received(answer[x])
  BY <1>1, <1>2 DEF CallBodies, Transmitted
<1>4. /\ outOpts' = outOpts /\ trip' = [trip EXCEPT ![x] = t]
      /\ answer' = [answer EXCEPT ![x] = answer[x]]
  BY DEF Transmit, CallBodies
<1> HIDE DEF t
<1> QED
  BY <1>2, <1>3, <1>4, OneCall

(* A failure of the base transport changes no body.                          *)
LEMMA BaseFailsBodies ==
  ASSUME CallBodies, [Next]_vars, NEW x \in Requests, NEW traits, NEW refused,
         BaseFails(x, traits, refused)
  PROVE  CallBodies'
<1> DEFINE t == [trip[x] EXCEPT !.phase = "failed", !.error = ClassifyError(traits),
                                !.refused = refused]
<1>1. answer[x] \in Answers /\ Received(answer[x])
  BY DEF CallBodies
<1>2. DOMAIN t = TripFields /\ t.phase = "failed" /\ t.sends = trip[x].sends /\ t.call = trip[x].call
  BY DEF CallBodies, TripFields
<1>3. Transmitted(t) /\ t.sends \in Readers
  BY <1>2 DEF CallBodies, Transmitted
<1>4. /\ outOpts' = outOpts /\ trip' = [trip EXCEPT ![x] = t]
      /\ answer' = [answer EXCEPT ![x] = answer[x]]
  BY DEF BaseFails, CallBodies
<1> HIDE DEF t
<1> QED
  BY <1>1, <1>2, <1>3, <1>4, OneCall

(* The headers of an answer come with a body of which nothing is read.       *)
LEMMA BaseAnswersBodies ==
  ASSUME CallBodies, [Next]_vars, NEW x \in Requests,
         NEW status \in Nat, NEW slow \in BOOLEAN, NEW textual \in BOOLEAN,
         BaseAnswers(x, status, slow, textual)
  PROVE  CallBodies'
<1> DEFINE a == [NoAnswer EXCEPT !.status = status, !.slow = slow, !.textual = textual]
<1>1. a \in Answers /\ Received(a) /\ Untouched(a.body)
  BY NoBodies DEF NoAnswer, Answers, Received
<1>2. PICK p : trip' = [trip EXCEPT ![x].phase = p]
  BY DEF BaseAnswers
<1> DEFINE t == [trip[x] EXCEPT !.phase = p]
<1>3. trip' = [trip EXCEPT ![x] = t]
  BY <1>2
<1>4. DOMAIN t = TripFields /\ t.sends = trip[x].sends /\ t.call = trip[x].call
  BY DEF CallBodies, TripFields
<1>5. Transmitted(t) /\ t.sends \in Readers
  BY <1>4 DEF CallBodies, Transmitted
<1>6. outOpts' = outOpts /\ answer' = [answer EXCEPT ![x] = a]
  BY DEF BaseAnswers
<1> HIDE DEF t, a
<1> QED
  BY <1>1, <1>3, <1>4, <1>5, <1>6, OneCall

(* The part of an answer that was captured is put back.                      *)
LEMMA ReturnBodies ==
  ASSUME CallBodies, [Next]_vars, NEW x \in Requests, NEW refused, Return(x, refused)
  PROVE  CallBodies'
<1> DEFINE b == answer[x].body
           t == [trip[x] EXCEPT !.phase = "answered", !.refused = refused]
           a == [answer[x] EXCEPT !.body = BodyAfter(answer[x])]
<1>1. /\ answer[x] \in Answers /\ b \in Readers /\ Untouched(b) /\ answer[x].ends \in Endings
      /\ Received(answer[x]) /\ Whole(b) = Bytes(answer[x].served)
  BY DEF CallBodies, Answers, Return, Received, Arrives
<1>2. Whole(b) = b.conn /\ b.conn \in Seq(Nat)
  <2>1. b.conn \in Seq(Nat) /\ <<>> \o <<>> = <<>> /\ <<>> \o b.conn = b.conn
    BY <1>1, ConcatEmptySeq, EmptySeq DEF Readers
  <2> QED
    BY <1>1, <2>1 DEF Whole, Untouched
<1>3. outOpts.limit + 1 \in Nat
  BY OutAssumption DEF CallBodies
<1>4. /\ BodyAfter(answer[x]) \in Readers
      /\ Arrives(BodyAfter(answer[x]), Bytes(answer[x].served), answer[x].ends)
  BY <1>1, <1>2, <1>3, ReadAheadArrives DEF BodyAfter, Received
<1>5. a \in Answers /\ Received(a)
  BY <1>1, <1>4 DEF Answers, Received
<1>6. DOMAIN t = TripFields /\ t.phase = "answered" /\ t.sends = trip[x].sends /\ t.call = trip[x].call
  BY DEF CallBodies, TripFields
<1>7. Transmitted(t) /\ t.sends \in Readers
  BY <1>6 DEF CallBodies, Transmitted
<1>8. /\ outOpts' = outOpts /\ trip' = [trip EXCEPT ![x] = t]
      /\ answer' = [answer EXCEPT ![x] = a]
  BY DEF Return
<1> HIDE DEF t, a
<1> QED
  BY <1>5, <1>6, <1>7, <1>8, OneCall

(* The server sends, and the caller reads.                                   *)
LEMMA AnswerBodies ==
  ASSUME CallBodies, [Next]_vars, NEW x \in Requests, NEW a \in Answers,
         outOpts' = outOpts, trip' = trip, answer' = [answer EXCEPT ![x] = a],
         trip[x].phase = "answering" => Untouched(a.body), Received(a)
  PROVE  CallBodies'
<1>1. trip' = [trip EXCEPT ![x] = trip[x]]
  BY DEF CallBodies
<1>2. DOMAIN trip[x] = TripFields /\ trip[x].sends \in Readers /\ Transmitted(trip[x])
  BY DEF CallBodies
<1> QED
  BY <1>1, <1>2, OneCall

LEMMA PeerBodies ==
  ASSUME CallBodies, [Next]_vars, NEW x \in Requests,
         Serve(x) \/ (\E how \in {"eof", "broken"} : ServerEnds(x, how)) \/ ReadAnswer(x)
  PROVE  CallBodies'
<1> DEFINE b == answer[x].body
           k == answer[x].served + 1
<1>1. /\ answer[x] \in Answers /\ b \in Readers /\ answer[x].served \in Nat
      /\ Arrives(b, Bytes(answer[x].served), answer[x].ends)
      /\ trip[x].phase = "answering" => Untouched(b)
  BY DEF CallBodies, Answers, Received
<1>2. CASE Serve(x)
  <2> DEFINE c == [b EXCEPT !.conn = Append(b.conn, k)]
             a == [answer[x] EXCEPT !.served = k, !.body = c]
  <2>0. k \in Nat /\ Arrives(b, Bytes(answer[x].served), "open") /\ answer[x].ends = "open"
    BY <1>1, <1>2 DEF Serve, Serving
  <2> HIDE DEF b, k
  <2>1. c \in Readers /\ Arrives(c, Append(Bytes(answer[x].served), k), "open")
    BY <1>1, <2>0, ServeArrives
  <2>2. c.buffer = b.buffer /\ c.taken = b.taken
    BY <1>1 DEF Readers
  <2>3. a \in Answers /\ a.body = c /\ a.served = k /\ a.ends = "open"
    BY <1>1, <2>0, <2>1 DEF Answers
  <2>4. Received(a)
    BY <1>1, <2>1, <2>3, NumberedBytes DEF k, Received
  <2>5. trip[x].phase = "answering" => Untouched(a.body)
    BY <1>1, <2>2, <2>3 DEF Untouched
  <2>6. outOpts' = outOpts /\ trip' = trip /\ answer' = [answer EXCEPT ![x] = a]
    BY <1>2 DEF Serve, CallBodies, b, k
  <2> HIDE DEF a
  <2> QED
    BY <2>3, <2>4, <2>5, <2>6, AnswerBodies
<1>3. ASSUME NEW how \in {"eof", "broken"}, ServerEnds(x, how) PROVE CallBodies'
  <2> DEFINE c == [b EXCEPT !.end = how]
             a == [answer[x] EXCEPT !.ends = how, !.body = c]
  <2>1. how \in Endings /\ Arrives(b, Bytes(answer[x].served), "open")
    BY <1>1, <1>3 DEF ServerEnds, Serving, Endings
  <2> HIDE DEF b
  <2>2. c \in Readers /\ Arrives(c, Bytes(answer[x].served), how)
    BY <1>1, <2>1, EndArrives
  <2>3. c.buffer = b.buffer /\ c.taken = b.taken
    BY <1>1 DEF Readers
  <2>4. a \in Answers /\ a.body = c /\ a.served = answer[x].served /\ a.ends = how
    BY <1>1, <2>1, <2>2 DEF Answers
  <2>5. Received(a) /\ (trip[x].phase = "answering" => Untouched(a.body))
    BY <1>1, <2>2, <2>3, <2>4 DEF Received, Untouched
  <2>6. outOpts' = outOpts /\ trip' = trip /\ answer' = [answer EXCEPT ![x] = a]
    BY <1>3 DEF ServerEnds, CallBodies, b
  <2> HIDE DEF a
  <2> QED
    BY <2>4, <2>5, <2>6, AnswerBodies
<1>4. CASE ReadAnswer(x)
  <2> DEFINE a == [answer[x] EXCEPT !.body = ReadOn(b)]
  <2>1. ReadOn(b) \in Readers /\ Arrives(ReadOn(b), Bytes(answer[x].served), answer[x].ends)
    BY <1>1, <1>4, ReadOnArrives DEF ReadAnswer
  <2>2. a \in Answers /\ Received(a)
    BY <1>1, <2>1 DEF Answers, Received
  <2>3. /\ outOpts' = outOpts /\ trip' = trip /\ answer' = [answer EXCEPT ![x] = a]
        /\ trip[x].phase # "answering"
    BY <1>4 DEF ReadAnswer
  <2> HIDE DEF a
  <2> QED
    BY <1>1, <2>1, <2>2, <2>3, AnswerBodies
<1> QED
  BY <1>2, <1>3, <1>4

LEMMA CallBodiesStep == CallBodies /\ [Next]_vars => CallBodies'
<1> SUFFICES ASSUME CallBodies, [Next]_vars PROVE CallBodies'
  OBVIOUS
<1>1. deployment.calls \subseteq Calls /\ deployment.codes \subseteq Nat
  BY DeploymentsAssumption, HttpAssumption DEF CallBodies
<1>2. ASSUME NEW x \in Requests, Calling(x) PROVE CallBodies'
  BY <1>1, <1>2, RoundTripBodies DEF Calling
<1>3. ASSUME NEW x \in Requests, Returning(x) PROVE CallBodies'
  BY <1>3, ReturnBodies DEF Returning, Returns
<1>4. ASSUME NEW x \in Requests, Peer(x) PROVE CallBodies'
  BY <1>1, <1>4, TransmitBodies, BaseFailsBodies, BaseAnswersBodies, PeerBodies DEF Peer
<1>5. ASSUME NEW x \in Requests, Receiving(x) PROVE CallBodies'
  BY <1>5, PeerBodies DEF Receiving
<1>6. ASSUME NEW x \in Requests,
             \/ Serves(x) \/ Responding(x) \/ Reading(x) \/ Panicking(x)
             \/ Deriving(x) \/ Querying(x) \/ Logging(x) \/ Queuing(x)
      PROVE  CallBodies'
  BY <1>6, CallFrame
     DEF Serves, Responding, Reading, Panicking, Deriving, Querying, Logging, Queuing
<1>7. CASE Changing \/ Encoding \/ UNCHANGED vars
  BY <1>7, CallFrame DEF Changing, Encoding, vars
<1> QED
  BY <1>2, <1>3, <1>4, <1>5, <1>6, <1>7 DEF Next

(* Whatever is captured for the log, of bodies of any length and with any    *)
(* limit, the handler reads the body its client sent, the server called gets *)
(* the body of the call, and the caller the body of the answer, in order and *)
(* without a byte lost or repeated, and then the end, or the failure of the  *)
(* connection, also one that the capture has met before.                     *)
THEOREM BodiesAreWhole == Spec => []BodiesArrive
<1>1. RequestBodies /\ CallBodies => BodiesArrive
  BY DEF RequestBodies, CallBodies, BodiesArrive, BodiesDelivered, Transmitted, Received
<1> QED
  BY <1>1, InitBodies, RequestBodiesStep, CallBodiesStep, PTL DEF Spec

(* Of an answer that RoundTrip waits for, nobody has read a byte.            *)
LEMMA AnsweringUnread ==
  ASSUME CallBodies, NEW x \in Requests, trip[x].phase = "answering"
  PROVE  answer[x].body.conn = Bytes(answer[x].served)
<1> DEFINE b == answer[x]
<1>1. Untouched(b.body) /\ b.body \in Readers /\ Whole(b.body) = Bytes(b.served)
  BY DEF CallBodies, Received, Arrives, Answers
<1>2. b.body.conn \in Seq(Nat) /\ <<>> \o <<>> = <<>> /\ <<>> \o b.body.conn = b.body.conn
  BY <1>1, ConcatEmptySeq, EmptySeq DEF Readers
<1> QED
  BY <1>1, <1>2 DEF Whole, Untouched

(* RoundTrip is never kept by an answer that has ended, nor by a long one    *)
(* that has not: once more of it was sent than may be logged, all of that    *)
(* is there to be read, since the caller has read none of it yet.            *)
THEOREM RoundTripIsFree == Spec => []TripMayReturn
<1>1. CallBodies => TripMayReturn
  <2> SUFFICES ASSUME CallBodies, NEW x \in Requests, trip[x].phase = "answering",
                      answer[x].ends # "open" \/ answer[x].served > outOpts.limit
               PROVE  EnoughRead(answer[x])
    BY DEF TripMayReturn
  <2>1. answer[x].served \in Nat
    BY DEF CallBodies, Answers
  <2>2. \A n \in Nat : Len(Bytes(n)) = n
    BY DEF Bytes
  <2>3. Len(answer[x].body.conn) = answer[x].served
    BY <2>1, <2>2, AnsweringUnread, Zenon
  <2> QED
    BY <2>3, Zenon DEF EnoughRead
<1> QED
  BY <1>1, InitBodies, CallBodiesStep, PTL DEF Spec

-----------------------------------------------------------------------------
(* The requests of a deployed server are those of HttpExchange.             *)
LEMMA ServesIsHttp ==
  ASSUME deployment \in Deployments, NEW x \in Requests, Serves(x)
  PROVE  Middleware(x)
<1>1. deployment.arrivals \subseteq Arrivals /\ deployment.codes \subseteq Codes
  BY DeploymentsAssumption
<1>2. ASSUME NEW a \in Arrivals, NEW fresh \in {x, NoId}, NEW refused \in SUBSET {"start"},
             Begin(x, a, fresh, refused)
      PROVE  Middleware(x)
  BY <1>2 DEF Middleware
<1>3. ASSUME NEW err \in Errors, NEW slow \in BOOLEAN, NEW refused \in SUBSET {"complete", "error"},
             NEW c \in EndContexts(x), End(x, err, slow, refused, c)
      PROVE  Middleware(x)
  BY <1>3 DEF Middleware
<1>4. {0} \union {c \in deployment.codes : c >= 400} \subseteq Errors
  BY <1>1 DEF Errors
<1> QED
  BY <1>1, <1>2, <1>3, <1>4 DEF Serves, Middleware

LEMMA HandlesIsHttp ==
  ASSUME deployment \in Deployments, NEW x \in Requests,
         Responding(x) \/ Reading(x) \/ Panicking(x) \/ Deriving(x)
  PROVE  Handler(x)
<1>1. deployment.codes \subseteq Codes
  BY DeploymentsAssumption
<1>2. ASSUME NEW n \in 0..1, WriteString(x, 1, n) PROVE Handler(x)
  <2>1. 1 \in 0..2
    OBVIOUS
  <2> QED
    BY <1>2, <2>1 DEF Handler
<1>3. ASSUME NEW len \in 0..2, NEW n \in 0..len, Write(x, len, n) PROVE Handler(x)
  BY <1>3 DEF Handler
<1>4. ASSUME NEW code \in Codes, WriteHeader(x, code) PROVE Handler(x)
  BY <1>4 DEF Handler
<1>5. ASSUME NEW n \in 0..1, Copy(x, 1, n) PROVE Handler(x)
  BY <1>5 DEF Handler
<1>6. Flush(x) \/ Hijack(x) => Handler(x)
  BY DEF Handler
<1>7. Responding(x) => Handler(x)
  BY <1>1, <1>2, <1>3, <1>4, <1>5, <1>6 DEF Responding
<1>8. Reading(x) \/ Panicking(x) => Handler(x)
  BY DEF Reading, Panicking, Handler
<1>9. CASE Deriving(x)
  <2>1. deployment.ids \subseteq Ids
    BY DeploymentsAssumption
  <2>2. PICK id \in Ids : \/ Derive(x, WithID(ctx[x], id), "renamed")
                          \/ Derive(x, WithCorrelationID(ctx[x], id), "rebased")
                          \/ Derive(x, OtelWithTrace(ctx[x], id), "traced")
    BY <1>9, <2>1 DEF Deriving
  <2> QED
    BY <2>2 DEF Handler
<1> QED
  BY <1>7, <1>8, <1>9

LEMMA ServiceStepsHttp ==
  deployment \in Deployments /\ [Next]_vars => [HttpNext]_httpVars
<1> SUFFICES ASSUME deployment \in Deployments, [Next]_vars
             PROVE  [HttpNext]_httpVars
  OBVIOUS
<1>1. ASSUME NEW x \in Requests, Serves(x) PROVE HttpNext
  BY <1>1, ServesIsHttp DEF HttpNext
<1>2. ASSUME NEW x \in Requests, Responding(x) \/ Reading(x) \/ Panicking(x) \/ Deriving(x)
      PROVE  HttpNext
  BY <1>2, HandlesIsHttp DEF HttpNext
<1>3. ASSUME NEW x \in Requests,
             \/ Calling(x) \/ Querying(x) \/ Logging(x) \/ Queuing(x)
             \/ Returning(x) \/ Peer(x) \/ Receiving(x)
      PROVE  UNCHANGED httpVars
  BY <1>3 DEF Calling, Querying, Logging, Queuing, Returning, Peer, Receiving
<1>4. Changing \/ Encoding \/ UNCHANGED vars => UNCHANGED httpVars
  BY DEF Changing, Encoding, vars
<1> QED
  BY <1>1, <1>2, <1>3, <1>4 DEF Next

LEMMA Deployed == Spec => [](deployment \in Deployments)
<1>1. Init => deployment \in Deployments
  BY DEF Init
<1>2. deployment \in Deployments /\ [Next]_vars => (deployment \in Deployments)'
  BY DeploymentStays
<1> QED
  BY <1>1, <1>2, PTL DEF Spec

(* A server's requests, whatever else its handlers do, are exchanges as     *)
(* HttpExchange describes them: all that is proved of these holds.          *)
THEOREM ServiceIsHttp == Spec => HttpSpec
<1>1. Init => HttpInit
  BY DEF Init
<1> QED
  BY <1>1, ServiceStepsHttp, Deployed, PTL DEF Spec, HttpSpec

LEMMA ServiceHttp == Spec => []HttpIInv
BY ServiceIsHttp, HttpInvariance

(* In the server, beside calls, queries, log lines and other requests, the  *)
(* client gets what it would get without the middleware,                    *)
THEOREM ServedUnaffected == Spec => []ClientUnaffected
BY ServiceIsHttp, ClientIsUnaffected

(* an event has the status and the size of what was sent,                   *)
THEOREM ServedAsLogged == Spec => []LoggedAsSent
BY ServiceIsHttp, EventsAreTrue

(* and a body that is shown is how the written one begins.                  *)
THEOREM ServedAndCaptured == Spec => []CaptureIsPrefix
BY ServiceIsHttp, CapturesArePrefixes

-----------------------------------------------------------------------------
(* The application's lines: what a caller has printed is what the attribute  *)
(* shows of the value as it was then, since nobody but a log call changes a  *)
(* group's attribute, and there is one call at a time; and what the queue    *)
(* holds is a version from what was printed to what the snapshot found.      *)
Shows(p) ==
  p.from <= version /\ attr <= p.from /\ p.printed = Reads(attr, p.from)

Frozen(l) ==
  kind \notin {"struct", "valuer"} =>
    /\ l.queued \in l.printed..l.until
    /\ kind = "scalar" \/ l.until = l.from => l.queued = l.printed
    /\ l.delivered # 0 => l.delivered = l.queued

LogIInv ==
  /\ kind \in Kinds /\ version \in 1..MaxVersion /\ attr \in 0..version
  /\ kind # "group" => attr = Live
  /\ pending \in [Requests -> Printed \union {NoLine}]
  /\ \A x \in Requests : InLogCall(x) => Shows(pending[x])
  /\ kind = "group" => \A x, y \in Requests : InLogCall(x) /\ InLogCall(y) => x = y
  /\ lines \in Seq(Lines)
  /\ \A i \in DOMAIN lines : Frozen(lines[i])

LEMMA InitLogIInv == LogInit => LogIInv
<1> SUFFICES ASSUME LogInit PROVE LogIInv
  OBVIOUS
<1>1. <<>> \in Seq(Lines) /\ DOMAIN <<>> = {}
  OBVIOUS
<1>2. \A x \in Requests : ~InLogCall(x)
  BY DEF LogInit, InLogCall
<1>3. pending \in [Requests -> Printed \union {NoLine}]
  BY DEF LogInit
<1> QED
  BY <1>1, <1>2, <1>3, LogAssumption DEF LogInit, LogIInv, Live

LEMMA LogFrame == LogIInv /\ UNCHANGED logVars => LogIInv'
BY DEF LogIInv, Frozen, Shows, InLogCall, logVars

LEMMA PrintKeeps ==
  ASSUME LogIInv, NEW x \in Requests, NEW c, Stamp(c) \in Meta, PrintLine(x, c)
  PROVE  LogIInv'
<1> DEFINE p == [stamp |-> Stamp(c), from |-> version, printed |-> Reads(attr, version)]
<1>1. /\ version \in 1..MaxVersion /\ attr \in 0..version /\ MaxVersion \in Nat \ {0}
  BY LogAssumption DEF LogIInv
<1>2. Reads(attr, version) \in 1..MaxVersion
  BY <1>1 DEF Reads, Live
<1>3. p \in Printed /\ p.from = version /\ p.printed = Reads(attr, version)
  BY <1>1, <1>2 DEF Printed
<1>4. pending' = [pending EXCEPT ![x] = p] /\ UNCHANGED <<kind, version, attr, lines>>
  BY DEF PrintLine
<1> HIDE DEF p
<1>5. pending' \in [Requests -> Printed \union {NoLine}]
  BY <1>3, <1>4 DEF LogIInv
<1>6. \A y \in Requests : y # x => pending'[y] = pending[y]
  BY <1>4 DEF LogIInv
<1>7. pending'[x] = p
  BY <1>4 DEF LogIInv
<1>8. \A y \in Requests : y # x => (InLogCall(y)' <=> InLogCall(y))
  BY <1>6 DEF InLogCall
<1>9. \A y \in Requests : InLogCall(y)' => Shows(pending[y])'
  <2>1. Shows(pending[x])'
    BY <1>1, <1>3, <1>4, <1>7 DEF Shows, Reads
  <2>2. ASSUME NEW y \in Requests, y # x, InLogCall(y) PROVE Shows(pending[y])'
    BY <1>4, <1>6, <2>2 DEF LogIInv, Shows, Reads
  <2> QED
    BY <1>8, <2>1, <2>2
<1>10. kind = "group" => \A y, z \in Requests : InLogCall(y)' /\ InLogCall(z)' => y = z
  BY <1>8 DEF PrintLine
<1>11. \A i \in DOMAIN lines' : Frozen(lines[i])'
  BY <1>4 DEF LogIInv, Frozen
<1> QED
  BY <1>1, <1>4, <1>5, <1>9, <1>10, <1>11 DEF LogIInv

LEMMA EnqueueKeeps ==
  ASSUME LogIInv, NEW x \in Requests, Enqueue(x)
  PROVE  LogIInv'
<1> DEFINE p == pending[x]
           q == SnapshotAttr(kind, attr, p.printed, version)
           l == [by |-> x, stamp |-> p.stamp, from |-> p.from, printed |-> p.printed,
                 queued |-> q, until |-> version, delivered |-> 0]
<1>1. /\ kind \in Kinds /\ version \in 1..MaxVersion /\ attr \in 0..version
      /\ MaxVersion \in Nat \ {0} /\ Kinds \subseteq {"scalar", "map", "struct", "group", "valuer"}
      /\ kind # "group" => attr = Live
  BY LogAssumption DEF LogIInv
<1>2. InLogCall(x) /\ p \in Printed /\ Shows(p)
  BY DEF Enqueue, LogIInv, InLogCall
<1>3. /\ p.from \in 1..MaxVersion /\ p.printed \in 1..MaxVersion /\ p.stamp \in Meta
      /\ p.from <= version /\ attr <= p.from /\ p.printed = Reads(attr, p.from)
  BY <1>2 DEF Printed, Shows
<1> HIDE DEF p
<1>4. q \in 0..MaxVersion
  BY <1>1, <1>3 DEF SnapshotAttr, Reads, Live
<1>5. kind \notin {"struct", "valuer"} =>
        /\ q \in p.printed..version
        /\ kind = "scalar" \/ version = p.from => q = p.printed
  BY <1>1, <1>3 DEF SnapshotAttr, NeedsSnapshot, Reads, Live
<1> HIDE DEF q
<1>6. /\ l \in Lines /\ l.queued = q /\ l.until = version /\ l.from = p.from
      /\ l.printed = p.printed /\ l.delivered = 0
  BY <1>1, <1>3, <1>4 DEF Lines
<1>7. Frozen(l)
  <2> HIDE DEF l
  <2> QED
    BY <1>5, <1>6 DEF Frozen
<1>8. /\ pending' = [pending EXCEPT ![x] = NoLine] /\ UNCHANGED <<kind, version>>
      /\ lines' = Append(lines, l) \/ lines' = lines
      /\ attr' = attr \/ attr' = AttrAfter(kind, attr, version)
  BY DEF Enqueue, p, q
<1> HIDE DEF l
<1>9. lines' \in Seq(Lines) /\ \A i \in DOMAIN lines' : Frozen(lines'[i])
  <2>1. lines \in Seq(Lines) /\ \A i \in DOMAIN lines : Frozen(lines[i])
    BY DEF LogIInv
  <2>2. CASE lines' = lines
    BY <2>1, <2>2
  <2>3. CASE lines' = Append(lines, l)
    <3>1. lines' \in Seq(Lines) /\ DOMAIN lines' = 1..(Len(lines) + 1)
      BY <1>6, <2>1, <2>3
    <3>2. ASSUME NEW i \in DOMAIN lines' PROVE lines'[i] = l \/ (i \in DOMAIN lines /\ lines'[i] = lines[i])
      BY <1>6, <2>1, <2>3, <3>1
    <3>3. ASSUME NEW i \in DOMAIN lines' PROVE Frozen(lines'[i])
      <4>1. CASE lines'[i] = l
        BY <1>7, <4>1, Zenon
      <4>2. CASE i \in DOMAIN lines /\ lines'[i] = lines[i]
        BY <2>1, <4>2, Zenon
      <4> QED
        BY <3>2, <4>1, <4>2
    <3> QED
      BY <3>1, <3>3
  <2> QED
    BY <1>8, <2>2, <2>3
<1>10. \A i \in DOMAIN lines' : Frozen(lines[i])'
  BY <1>8, <1>9 DEF Frozen
<1>11. attr' \in 0..version /\ (kind # "group" => attr' = attr)
  BY <1>1, <1>8 DEF AttrAfter, Reads, Live
<1>12. pending' \in [Requests -> Printed \union {NoLine}]
  BY <1>8 DEF LogIInv
<1>13. /\ ~InLogCall(x)'
       /\ \A y \in Requests : y # x => pending'[y] = pending[y] /\ (InLogCall(y)' <=> InLogCall(y))
  BY <1>8 DEF LogIInv, InLogCall
<1>14. \A y \in Requests : InLogCall(y)' => Shows(pending[y])'
  <2> SUFFICES ASSUME NEW y \in Requests, InLogCall(y)' PROVE Shows(pending[y])'
    OBVIOUS
  <2>1. y # x /\ InLogCall(y) /\ pending'[y] = pending[y]
    BY <1>13
  <2>2. kind # "group" /\ attr' = attr
    BY <1>2, <1>11, <2>1 DEF LogIInv
  <2> QED
    BY <1>8, <2>1, <2>2 DEF LogIInv, Shows, Reads
<1>15. kind = "group" => \A y, z \in Requests : InLogCall(y)' /\ InLogCall(z)' => y = z
  BY <1>13 DEF LogIInv
<1> QED
  BY <1>1, <1>8, <1>9, <1>10, <1>11, <1>12, <1>14, <1>15 DEF LogIInv

LEMMA ChangeKeeps == LogIInv /\ Change => LogIInv'
<1> SUFFICES ASSUME LogIInv, Change PROVE LogIInv'
  OBVIOUS
<1>1. version' \in 1..MaxVersion /\ version' = version + 1 /\ UNCHANGED <<kind, attr, pending, lines>>
  BY LogAssumption DEF LogIInv, Change
<1>2. \A x \in Requests : InLogCall(x)' => Shows(pending[x])'
  <2> SUFFICES ASSUME NEW x \in Requests, InLogCall(x)' PROVE Shows(pending[x])'
    OBVIOUS
  <2>1. InLogCall(x) /\ Shows(pending[x]) /\ pending[x] \in Printed
    BY <1>1 DEF LogIInv, InLogCall
  <2>2. pending[x].from \in Nat /\ version \in Nat
    BY <2>1, LogAssumption DEF Printed, LogIInv
  <2> QED
    BY <1>1, <2>1, <2>2 DEF Shows, Reads
<1> QED
  BY <1>1, <1>2 DEF LogIInv, Frozen, InLogCall

LEMMA EncodeKeeps == LogIInv /\ Encode => LogIInv'
<1> SUFFICES ASSUME LogIInv, NEW i \in DOMAIN lines, UNCHANGED <<kind, version, attr, pending>>,
                    lines' = [lines EXCEPT ![i].delivered = Reads(lines[i].queued, version)]
             PROVE  LogIInv'
  BY DEF Encode
<1> DEFINE d == Reads(lines[i].queued, version)
           l == [lines[i] EXCEPT !.delivered = d]
<1>1. lines[i] \in Lines /\ Frozen(lines[i]) /\ version \in 1..MaxVersion /\ lines \in Seq(Lines)
  BY DEF LogIInv
<1>2. d \in 0..MaxVersion /\ (kind \notin {"struct", "valuer"} => d = lines[i].queued)
  <2>1. lines[i].queued \in 0..MaxVersion /\ lines[i].printed \in 1..MaxVersion
        /\ lines[i].until \in 1..MaxVersion
    BY <1>1 DEF Lines
  <2> QED
    BY <1>1, <2>1, LogAssumption DEF Reads, Live, Frozen
<1>3. lines' = [lines EXCEPT ![i] = l]
  OBVIOUS
<1> HIDE DEF d
<1>4. /\ l \in Lines /\ l.delivered = d /\ l.queued = lines[i].queued /\ l.from = lines[i].from
      /\ l.printed = lines[i].printed /\ l.until = lines[i].until
  BY <1>1, <1>2 DEF Lines
<1> HIDE DEF l
<1>5. Frozen(l)
  BY <1>1, <1>2, <1>4 DEF Frozen
<1>6. lines' \in Seq(Lines) /\ DOMAIN lines' = DOMAIN lines
  BY <1>1, <1>3, <1>4, ExceptSeq
<1>7. \A j \in DOMAIN lines : lines'[j] = IF j = i THEN l ELSE lines[j]
  BY <1>1, <1>3
<1>8. \A j \in DOMAIN lines' : Frozen(lines'[j])
  BY <1>5, <1>6, <1>7 DEF LogIInv
<1> QED
  BY <1>6, <1>8 DEF LogIInv, Frozen, Shows, InLogCall

LEMMA LogStep == LogIInv /\ HttpTypeOK /\ [Next]_vars => LogIInv'
<1> SUFFICES ASSUME LogIInv, HttpTypeOK, [Next]_vars PROVE LogIInv'
  OBVIOUS
<1>1. ASSUME NEW x \in Requests, Logging(x) PROVE LogIInv'
  <2>1. ctx[x] \in Contexts /\ NoId \in Id
    BY DEF HttpTypeOK, Id
  <2>2. Stamp(ctx[x]) \in Meta
    BY <2>1, ContextTypes
  <2> QED
    BY <1>1, <2>2, PrintKeeps DEF Logging
<1>2. Changing \/ Encoding \/ (\E x \in Requests : Queuing(x)) => LogIInv'
  BY ChangeKeeps, EncodeKeeps, EnqueueKeeps DEF Changing, Encoding, Queuing
<1>3. ASSUME NEW x \in Requests,
             \/ Serves(x) \/ Responding(x) \/ Reading(x) \/ Panicking(x) \/ Deriving(x)
             \/ Calling(x) \/ Querying(x) \/ Returning(x) \/ Peer(x) \/ Receiving(x)
      PROVE  UNCHANGED logVars
  BY <1>3 DEF Serves, Responding, Reading, Panicking, Deriving, Calling, Querying,
              Returning, Peer, Receiving
<1>4. UNCHANGED vars => UNCHANGED logVars
  BY DEF vars
<1> QED
  BY <1>1, <1>2, <1>3, <1>4, LogFrame DEF Next

LEMMA LogInvariance == Spec => []LogIInv
<1>1. Init => LogIInv
  BY InitLogIInv DEF Init
<1>2. HttpIInv => HttpTypeOK
  BY DEF HttpIInv
<1> QED
  BY <1>1, <1>2, LogStep, ServiceHttp, PTL DEF Spec

(* The collector gets a line with a value it had between what standard      *)
(* output shows and the snapshot, however often the value has changed before *)
(* the worker encodes it and whatever lines the attribute was in before.     *)
THEOREM LinesDeliveredAsPrinted == Spec => []DeliveredAsPrinted
<1>1. LogIInv => DeliveredAsPrinted
  BY DEF LogIInv, Frozen, DeliveredAsPrinted
<1> QED
  BY <1>1, LogInvariance, PTL

-----------------------------------------------------------------------------
(* The queries: of each goroutine's last one, and what was told of it.      *)
DbEvents == [event : {"complete", "slow", "error"}, corr : Id, stamp : Meta, sql : BOOLEAN]
Traced   == [query : [err : {"none", "notfound", "failed"}, slow : BOOLEAN],
             ctx : Contexts, level : Levels, allowed : BOOLEAN]

QueryTold(q, log) ==
  /\ log \in Seq(DbEvents) /\ Len(log) <= 1
  /\ \A i \in DOMAIN log : log[i].corr = q.ctx.corr /\ log[i].stamp = Stamp(q.ctx)
  /\ q.allowed =>
       /\ q.query.err = "failed" /\ q.level >= Error => Len(log) = 1 /\ log[1].event = "error"
       /\ q.query.err = "none" /\ q.query.slow /\ q.level >= Warn
          => Len(log) = 1 /\ log[1].event = "slow"

DbIInv ==
  /\ dbOpts \in DbOptions /\ level \in [Requests -> Levels]
  /\ dbLast \in [Requests -> Traced] /\ dbLog = [x \in Requests |-> dbLog[x]]
  /\ \A x \in Requests : QueryTold(dbLast[x], dbLog[x])

DbTrouble(q, event) ==
  \/ q.query.err = "failed" /\ q.level >= Error /\ event = "error"
  \/ q.query.err = "none" /\ q.query.slow /\ q.level >= Warn /\ event = "slow"

LEMMA NoneTold ==
  ASSUME NEW q, q.allowed => \A event : ~DbTrouble(q, event)
  PROVE  QueryTold(q, <<>>)
<1>1. <<>> \in Seq(DbEvents) /\ Len(<<>>) <= 1 /\ DOMAIN <<>> = {}
  OBVIOUS
<1> QED
  BY <1>1, Zenon DEF QueryTold, DbTrouble

LEMMA OneTold ==
  ASSUME NEW q, NEW e \in DbEvents, e.corr = q.ctx.corr, e.stamp = Stamp(q.ctx),
         \A event : DbTrouble(q, event) => e.event = event
  PROVE  QueryTold(q, <<e>>)
<1> DEFINE log == <<e>>
<1>1. log \in Seq(DbEvents) /\ Len(log) = 1 /\ Len(log) <= 1 /\ DOMAIN log = {1} /\ log[1] = e
  OBVIOUS
<1> HIDE DEF log
<1>2. QueryTold(q, log)
  BY <1>1, Zenon DEF QueryTold, DbTrouble
<1> QED
  BY <1>2 DEF log

LEMMA InitDbIInv == DbInit => DbIInv
<1> SUFFICES ASSUME DbInit PROVE DbIInv
  OBVIOUS
<1>1. Background \in Contexts
  BY DEF Background, Contexts, Meta, Id
<1>2. NoQuery \in Traced /\ NoQuery.query.err = "none" /\ ~NoQuery.query.slow
  BY <1>1 DEF NoQuery, Traced, Levels, Silent, Error, Warn, Info
<1>3. \A x \in Requests : dbLog[x] = <<>> /\ dbLast[x] = NoQuery
  BY DEF DbInit
<1>4. QueryTold(NoQuery, <<>>)
  BY <1>2, NoneTold DEF DbTrouble
<1>5. \A x \in Requests : QueryTold(dbLast[x], dbLog[x])
  BY <1>3, <1>4
<1>6. dbOpts \in DbOptions /\ dbOpts.level \in Levels
  BY DbAssumption DEF DbInit
<1> QED
  BY <1>2, <1>5, <1>6 DEF DbInit, DbIInv

LEMMA DbFrame == DbIInv /\ UNCHANGED dbVars => DbIInv'
BY DEF DbIInv, dbVars

(* The sampler has no say over what is not a success.                       *)
LEMMA TroubleIsKept ==
  ASSUME NEW every, NEW counter, NEW d, IsImportant(d)
  PROVE  ShouldKeep(every, d, counter)
BY DEF ShouldKeep, Counted

LEMMA TraceTells ==
  ASSUME DbIInv, NEW x \in Requests, NEW c \in Contexts, NEW q \in Queries,
         NEW allowed \in BOOLEAN, Trace(x, c, q, allowed)
  PROVE  DbIInv'
<1> DEFINE event == Outcome(level[x], q)
           d     == TraceDecision(event)
           told  == event # "none" /\ DbShouldLog(d, allowed)
           e     == [event |-> event, corr |-> c.corr, stamp |-> Stamp(c), sql |-> ShowsSql(event)]
           log   == IF told THEN <<e>> ELSE <<>>
           last  == [query |-> q, ctx |-> c, level |-> level[x], allowed |-> allowed]
<1>1. /\ dbOpts' = dbOpts /\ level' = level
      /\ dbLast' = [dbLast EXCEPT ![x] = last] /\ dbLog' = [dbLog EXCEPT ![x] = log]
  BY DEF Trace
<1>2. /\ level[x] \in Levels /\ q.err \in {"none", "notfound", "failed"} /\ q.slow \in BOOLEAN
      /\ q = [err |-> q.err, slow |-> q.slow]
  BY DbAssumption DEF DbIInv
<1>3. last \in Traced
  BY <1>2 DEF Traced
<1>4. event \in {"none", "complete", "slow", "error"}
  BY DEF Outcome
<1>5. c.corr \in Id /\ Stamp(c) \in Meta
  <2>1. NoId \in Id
    BY DEF Id
  <2> QED
    BY <2>1, ContextTypes
<1>6. ShowsSql(event) \in BOOLEAN
  BY DEF ShowsSql
<1>7. told => e \in DbEvents /\ e.corr = c.corr /\ e.stamp = Stamp(c) /\ e.event = event
  BY <1>4, <1>5, <1>6 DEF DbEvents
<1>8. event \in {"slow", "error"} /\ allowed => told
  <2>1. event \in {"slow", "error"} => IsImportant(d)
    BY DEF IsImportant, TraceDecision, Decision
  <2> HIDE DEF d, event
  <2> QED
    BY <2>1, TroubleIsKept DEF DbShouldLog
<1>9. q.err = "failed" /\ level[x] >= Error => event = "error"
  BY <1>2 DEF Outcome, Silent, Error, Levels
<1>10. q.err = "none" /\ q.slow /\ level[x] >= Warn => event = "slow"
  BY <1>2 DEF Outcome, Silent, Error, Warn, Levels
<1>11. last.query = q /\ last.ctx = c /\ last.level = level[x] /\ last.allowed = allowed
  OBVIOUS
<1> HIDE DEF event, told, e, last
<1>12. ASSUME NEW ev PROVE DbTrouble(last, ev) => event = ev /\ (allowed => told)
  BY <1>8, <1>9, <1>10, <1>11 DEF DbTrouble
<1>13. QueryTold(last, log)
  <2>1. CASE told
    <3>1. log = <<e>>
      BY <2>1
    <3> QED
      BY <1>7, <1>11, <1>12, <2>1, <3>1, OneTold
  <2>2. CASE ~told
    <3>1. log = <<>>
      BY <2>2
    <3> QED
      BY <1>11, <1>12, <2>2, <3>1, NoneTold
  <2> QED
    BY <2>1, <2>2
<1>14. dbLast' \in [Requests -> Traced] /\ dbLog' = [y \in Requests |-> dbLog'[y]]
  BY <1>1, <1>3 DEF DbIInv
<1>15. \A y \in Requests : QueryTold(dbLast'[y], dbLog'[y])
  BY <1>1, <1>13 DEF DbIInv
<1> QED
  BY <1>1, <1>14, <1>15 DEF DbIInv

LEMMA DbStep == DbIInv /\ HttpTypeOK /\ deployment \in Deployments /\ [Next]_vars => DbIInv'
<1> SUFFICES ASSUME DbIInv, HttpTypeOK, deployment \in Deployments, [Next]_vars PROVE DbIInv'
  OBVIOUS
<1>1. deployment.queries \subseteq Queries
  BY DeploymentsAssumption
<1>2. ASSUME NEW x \in Requests, Querying(x) PROVE DbIInv'
  <2>1. ctx[x] \in Contexts
    BY DEF HttpTypeOK
  <2>2. ASSUME NEW l \in Levels, LogMode(x, l) PROVE DbIInv'
    BY <2>2 DEF LogMode, DbIInv
  <2> QED
    BY <1>1, <1>2, <2>1, <2>2, TraceTells DEF Querying
<1>3. ASSUME NEW x \in Requests,
             \/ Serves(x) \/ Responding(x) \/ Reading(x) \/ Panicking(x) \/ Deriving(x)
             \/ Calling(x) \/ Logging(x) \/ Queuing(x) \/ Returning(x) \/ Peer(x) \/ Receiving(x)
      PROVE  UNCHANGED dbVars
  BY <1>3 DEF Serves, Responding, Reading, Panicking, Deriving, Calling, Logging, Queuing,
              Returning, Peer, Receiving
<1>4. Changing \/ Encoding \/ UNCHANGED vars => UNCHANGED dbVars
  BY DEF Changing, Encoding, vars
<1> QED
  BY <1>2, <1>3, <1>4, DbFrame DEF Next

LEMMA DbInvariance == Spec => []DbIInv
<1>1. Init => DbIInv
  BY InitDbIInv DEF Init
<1>2. HttpIInv => HttpTypeOK
  BY DEF HttpIInv
<1> QED
  BY <1>1, <1>2, DbStep, Deployed, ServiceHttp, PTL DEF Spec

LEMMA QueriesTold == DbIInv => DbTroubleIsTold
BY DEF DbIInv, QueryTold, DbTroubleIsTold

-----------------------------------------------------------------------------
(* The calls: what is told of one, and of which answers a body is shown.    *)
CallErrors == {"", "context_deadline_exceeded", "timeout", "dns_error", "connection_refused",
               "transport_error"}
CallEvents == [event : Stages, stamp : Meta, request : Bodies, status : Nat,
               size : CallErrors, body : Bodies]

Ends(log) == {i \in DOMAIN log : log[i].event # "start"}

CallTyped(t, a, log) ==
  /\ t.phase \in {"idle", "calling", "answering", "answered", "failed"}
  /\ t.ctx \in Contexts /\ t.call \in Calls \union {NoCall}
  /\ t.header = t.ctx.corr /\ t.refused \subseteq Stages
  /\ a.served <= MaxAnswer /\ log \in Seq(CallEvents)
  /\ t.phase = "idle" => log = <<>>
  /\ \A i \in DOMAIN log : log[i].stamp.corr = t.header

(* Before its end nothing is told of it; then once, and what has become of  *)
(* it.                                                                      *)
CallTold(t, a, log) ==
  /\ t.phase \in {"idle", "calling", "answering"} => Ends(log) = {}
  /\ t.phase \in {"idle", "calling", "failed"} => a = NoAnswer
  /\ \A i, j \in Ends(log) : i = j
  /\ /\ t.phase \in {"answered", "failed"} /\ t.refused = {}
     /\ t.phase = "failed" \/ a.status >= 400 \/ a.slow
     /\ {"complete", "error"} \subseteq outOpts.logs
     => \E i \in Ends(log) :
          /\ log[i].status = a.status
          /\ (t.phase = "failed") = (log[i].event = "error")

(* A body is shown of the answer that RoundTrip returned: it is how that    *)
(* begins, and all of it if it is not cut and the answer has ended well.    *)
BodyOf(body, status, a) ==
  body # NoBody =>
    /\ status >= 400 /\ body.value = Bytes(Len(body.value))
    /\ Len(body.value) <= a.served /\ Len(body.value) <= outOpts.limit
    /\ ~body.cut => a.ends = "eof" /\ Len(body.value) = a.served

CallShown(t, a, log) ==
  \A i \in DOMAIN log :
    /\ t.phase # "answered" => log[i].body = NoBody
    /\ BodyOf(log[i].body, log[i].status, a)

Call(t, a, log) == CallTyped(t, a, log) /\ CallTold(t, a, log) /\ CallShown(t, a, log)

CallIInv ==
  /\ CallBodies
  /\ outLog = [x \in Requests |-> outLog[x]]
  /\ \A x \in Requests : Call(trip[x], answer[x], outLog[x])

LEMMA InitCallIInv == Init => CallIInv
<1> SUFFICES ASSUME Init PROVE CallIInv
  OBVIOUS
<1>1. Background \in Contexts /\ Background.corr = NoId
  BY DEF Background, Contexts, Meta, Id
<1>2. /\ NoTrip.phase = "idle" /\ NoTrip.ctx = Background /\ NoTrip.call = NoCall
      /\ NoTrip.header = NoId /\ NoTrip.refused = {} /\ NoAnswer.served = 0
  BY DEF NoTrip, NoAnswer
<1>3. <<>> \in Seq(CallEvents) /\ DOMAIN <<>> = {} /\ Ends(<<>>) = {}
  BY DEF Ends
<1>4. 0 <= MaxAnswer
  BY OutAssumption
<1>5. CallTyped(NoTrip, NoAnswer, <<>>)
  BY <1>1, <1>2, <1>3, <1>4 DEF CallTyped
<1>6. Call(NoTrip, NoAnswer, <<>>)
  BY <1>2, <1>3, <1>5 DEF Call, CallTold, CallShown
<1>7. \A x \in Requests : trip[x] = NoTrip /\ answer[x] = NoAnswer /\ outLog[x] = <<>>
  BY DEF Init, OutInit
<1>8. outLog = [x \in Requests |-> outLog[x]]
  BY DEF Init, OutInit
<1> QED
  BY <1>6, <1>7, <1>8, InitBodies DEF CallIInv

LEMMA OneCallTold ==
  ASSUME CallIInv, [Next]_vars, NEW x \in Requests, NEW t, NEW a, NEW log,
         outOpts' = outOpts, trip' = [trip EXCEPT ![x] = t],
         answer' = [answer EXCEPT ![x] = a], outLog' = [outLog EXCEPT ![x] = log],
         Call(t, a, log)
  PROVE  CallIInv'
<1>1. CallBodies'
  BY CallBodiesStep DEF CallIInv
<1>2. /\ trip'[x] = t /\ answer'[x] = a /\ outLog'[x] = log
      /\ outLog' = [y \in Requests |-> outLog'[y]]
  BY DEF CallIInv, CallBodies
<1>3. \A y \in Requests \ {x} : trip'[y] = trip[y] /\ answer'[y] = answer[y] /\ outLog'[y] = outLog[y]
  BY DEF CallIInv, CallBodies
<1>4. \A y \in Requests : Call(trip'[y], answer'[y], outLog'[y])
  BY <1>2, <1>3 DEF CallIInv
<1>5. ASSUME NEW y \in Requests
      PROVE  Call(trip'[y], answer'[y], outLog'[y]) => Call(trip[y], answer[y], outLog[y])'
  BY DEF Call, CallTyped, CallTold, CallShown, BodyOf
<1> QED
  BY <1>1, <1>2, <1>4, <1>5 DEF CallIInv

LEMMA CallsStay == CallIInv /\ [Next]_vars /\ UNCHANGED outVars => CallIInv'
<1> SUFFICES ASSUME CallIInv, [Next]_vars, UNCHANGED outVars PROVE CallIInv'
  OBVIOUS
<1>1. CallBodies'
  BY CallBodiesStep DEF CallIInv
<1>2. ASSUME NEW y \in Requests
      PROVE  Call(trip[y], answer[y], outLog[y]) => Call(trip[y], answer[y], outLog[y])'
  BY DEF Call, CallTyped, CallTold, CallShown, BodyOf, outVars
<1> QED
  BY <1>1, <1>2 DEF CallIInv, outVars

(* What an event of a call shows.                                           *)
LEMMA CallEvent ==
  ASSUME NEW event \in Stages, NEW c \in Contexts, NEW call \in Calls \union {NoCall},
         NEW status \in Nat, NEW size \in CallErrors, NEW body \in Bodies, outOpts \in OutOptions
  PROVE  LET e == Event(event, Stamp(LogContext(c, call)), SentBody(call), status, size, body)
         IN  /\ e \in CallEvents /\ e.event = event /\ e.stamp.corr = c.corr
             /\ e.status = status /\ e.body = body
<1>0. outOpts.limit \in Nat
  BY OutAssumption
<1>1. call.trace \in Id /\ call.bytes \in Nat
  BY OutAssumption DEF NoCall, Id
<1>2. SentBody(call) \in Bodies
  <2>1. Bytes(call.bytes) \in Seq(Nat)
    BY <1>1, NumberedBytes
  <2>2. call.textual \in BOOLEAN
    <3>1. CASE call \in Calls
      BY <3>1, OutAssumption
    <3>2. CASE call = NoCall
      BY <3>2 DEF NoCall
    <3> QED
      BY <3>1, <3>2
  <2> QED
    BY <1>0, <2>1, <2>2, BodyTypes DEF SentBody
<1> DEFINE m == [corr |-> c.corr, trace |-> call.trace]
           k == LogContext(c, call)
<1>3. c.corr \in Id /\ m \in Meta
  BY <1>1 DEF Contexts, Meta
<1>4. k = [c EXCEPT !.meta = m]
  BY DEF LogContext, WithMeta
<1>5. k.corr = c.corr /\ k.meta = m /\ k \in Contexts
  BY <1>3, <1>4 DEF Contexts
<1>6. m.corr = c.corr
  OBVIOUS
<1> HIDE DEF k, m
<1>7. Stamp(k).corr = c.corr
  BY <1>5, <1>6 DEF Stamp, CorrelationID
<1>8. Stamp(k) \in Meta
  BY <1>3, <1>5, ContextTypes
<1> QED
  BY <1>2, <1>7, <1>8 DEF Event, CallEvents, k

(* The log of a call that has one more event, its end.                      *)
LEMMA LastEnd ==
  ASSUME NEW log \in Seq(CallEvents), Ends(log) = {}, NEW e \in CallEvents, e.event # "start"
  PROVE  LET l == Append(log, e)
         IN  /\ l \in Seq(CallEvents) /\ Ends(l) = {Len(log) + 1} /\ l[Len(log) + 1] = e
             /\ \A i \in DOMAIN l : i = Len(log) + 1 \/ (i \in DOMAIN log /\ l[i] = log[i])
<1> DEFINE l == Append(log, e)
           n == Len(log) + 1
<1>1. l \in Seq(CallEvents) /\ l[n] = e /\ Len(l) = n /\ n \in Nat /\ n > 0
  OBVIOUS
<1>2. \A i \in DOMAIN log : i \in 1..Len(log) /\ l[i] = log[i]
  OBVIOUS
<1>3. \A i \in DOMAIN l : i = n \/ i \in DOMAIN log
  OBVIOUS
<1>4. n \in DOMAIN l
  OBVIOUS
<1>5. \A i \in DOMAIN log : log[i].event = "start"
  BY DEF Ends
<1> HIDE DEF l, n
<1>6. Ends(l) = {n}
  BY <1>1, <1>2, <1>3, <1>4, <1>5 DEF Ends
<1> QED
  BY <1>1, <1>2, <1>3, <1>6 DEF l, n

LEMMA CallStarts ==
  ASSUME CallIInv, [Next]_vars, NEW x \in Requests, NEW c \in Contexts, NEW call \in Calls,
         NEW refused, RoundTrip(x, c, call, refused)
  PROVE  CallIInv'
<1> DEFINE t == [phase |-> "calling", ctx |-> c, call |-> call, header |-> Header(c),
                 sends |-> Sends(call), error |-> "", refused |-> {}]
           e == Event("start", Stamp(LogContext(c, call)), SentBody(call), 0, "", NoBody)
           log == IF "start" \in outOpts.logs \ refused THEN <<e>> ELSE <<>>
<1>1. /\ outOpts' = outOpts /\ trip' = [trip EXCEPT ![x] = t]
      /\ answer' = [answer EXCEPT ![x] = NoAnswer] /\ outLog' = [outLog EXCEPT ![x] = log]
  BY DEF RoundTrip
<1>2. /\ t.phase = "calling" /\ t.ctx = c /\ t.call = call /\ t.header = c.corr /\ t.refused = {}
  BY DEF Header
<1>3. /\ e \in CallEvents /\ e.event = "start" /\ e.stamp.corr = c.corr /\ e.body = NoBody
  <2>1. outOpts \in OutOptions /\ NoBody \in Bodies /\ "start" \in Stages
    BY EmptySeq DEF CallIInv, CallBodies, Stages, NoBody, Bodies
  <2> DEFINE size == ""
             body == NoBody
             status == 0
             event == "start"
  <2>2. size \in CallErrors /\ status \in Nat /\ call \in Calls \union {NoCall}
        /\ body \in Bodies /\ event \in Stages
    BY <2>1 DEF CallErrors
  <2> HIDE DEF size, body, status, event
  <2>3. LET f == Event(event, Stamp(LogContext(c, call)), SentBody(call), status, size, body)
        IN  f \in CallEvents /\ f.event = event /\ f.stamp.corr = c.corr /\ f.body = body
    BY <2>1, <2>2, CallEvent
  <2> QED
    BY <2>3, Zenon DEF size, body, status, event
<1>4. NoAnswer.served <= MaxAnswer
  BY OutAssumption DEF NoAnswer
<1> HIDE DEF t, e
<1>5. \/ log = <<e>> /\ log \in Seq(CallEvents) /\ DOMAIN log = {1} /\ log[1] = e
      \/ log = <<>> /\ log \in Seq(CallEvents) /\ DOMAIN log = {}
  BY <1>3
<1> HIDE DEF log
<1>6. \A i \in DOMAIN log : log[i] = e
  BY <1>5
<1>7. CallTyped(t, NoAnswer, log)
  BY <1>2, <1>3, <1>4, <1>5, <1>6 DEF CallTyped
<1>8. Ends(log) = {}
  BY <1>3, <1>6 DEF Ends
<1>9. CallTold(t, NoAnswer, log)
  BY <1>2, <1>8 DEF CallTold
<1>10. CallShown(t, NoAnswer, log)
  BY <1>3, <1>6 DEF CallShown, BodyOf
<1> QED
  BY <1>1, <1>7, <1>9, <1>10, OneCallTold DEF Call

LEMMA CallTransmits ==
  ASSUME CallIInv, [Next]_vars, NEW x \in Requests, Transmit(x)
  PROVE  CallIInv'
<1> DEFINE o == trip[x]
           t == [o EXCEPT !.sends = ReadOn(trip[x].sends)]
<1>1. /\ outOpts' = outOpts /\ trip' = [trip EXCEPT ![x] = t]
      /\ answer' = [answer EXCEPT ![x] = answer[x]] /\ outLog' = [outLog EXCEPT ![x] = outLog[x]]
  BY DEF Transmit, CallIInv, CallBodies
<1>2. Call(o, answer[x], outLog[x])
  BY DEF CallIInv
<1>3. /\ t.phase = o.phase /\ t.ctx = o.ctx /\ t.call = o.call /\ t.header = o.header
      /\ t.refused = o.refused
  BY DEF CallIInv, CallBodies, TripFields
<1> HIDE DEF t
<1>4. Call(t, answer[x], outLog[x])
  BY <1>2, <1>3 DEF Call, CallTyped, CallTold, CallShown
<1> QED
  BY <1>1, <1>4, OneCallTold

LEMMA CallFails ==
  ASSUME CallIInv, [Next]_vars, NEW x \in Requests, NEW traits, NEW refused,
         BaseFails(x, traits, refused)
  PROVE  CallIInv'
<1> DEFINE o == trip[x]
           l == outLog[x]
           k == Len(l) + 1
           t == [o EXCEPT !.phase = "failed", !.error = ClassifyError(traits), !.refused = refused]
           e == Event("error", Stamp(LogContext(o.ctx, o.call)), SentBody(o.call), 0,
                      ClassifyError(traits), NoBody)
           told == "error" \in outOpts.logs \ refused
           log == IF told THEN Append(l, e) ELSE l
<1>1. /\ outOpts' = outOpts /\ trip' = [trip EXCEPT ![x] = t]
      /\ answer' = [answer EXCEPT ![x] = answer[x]] /\ outLog' = [outLog EXCEPT ![x] = log]
  BY DEF BaseFails, Logs, CallIInv, CallBodies
<1>2. o.phase = "calling" /\ Call(o, answer[x], l) /\ refused \subseteq Stages
  BY DEF BaseFails, CallIInv, Stages
<1>3. answer[x] = NoAnswer /\ Ends(l) = {} /\ l \in Seq(CallEvents)
  BY <1>2 DEF Call, CallTold, CallTyped
<1>4. /\ t.phase = "failed" /\ t.ctx = o.ctx /\ t.call = o.call /\ t.header = o.header
      /\ t.refused = refused
  BY DEF CallIInv, CallBodies, TripFields
<1>5. e \in CallEvents /\ e.event = "error" /\ e.stamp.corr = o.header /\ e.status = 0
      /\ e.body = NoBody
  <2>1. outOpts \in OutOptions /\ NoBody \in Bodies /\ "error" \in Stages
    BY EmptySeq DEF CallIInv, CallBodies, Stages, NoBody, Bodies
  <2>2. ClassifyError(traits) \in CallErrors /\ 0 \in Nat
    BY DEF ClassifyError, CallErrors
  <2>3. o.ctx \in Contexts /\ o.call \in Calls \union {NoCall} /\ o.header = o.ctx.corr
    BY <1>2 DEF Call, CallTyped
  <2> HIDE DEF o
  <2> QED
    BY <2>1, <2>2, <2>3, CallEvent
<1>6. /\ told => /\ log \in Seq(CallEvents) /\ Ends(log) = {k} /\ log[k] = e
                 /\ \A i \in DOMAIN log : i = k \/ (i \in DOMAIN l /\ log[i] = l[i])
      /\ ~told => log = l
  <2> HIDE DEF e, l
  <2> QED
    BY <1>3, <1>5, LastEnd
<1> HIDE DEF t, e, k, log, o, l
<1>7. CallTyped(t, answer[x], log)
  BY <1>2, <1>4, <1>5, <1>6 DEF Call, CallTyped
<1>8. CallTold(t, answer[x], log)
  <2>1. {"complete", "error"} \subseteq outOpts.logs /\ refused = {} => told
    OBVIOUS
  <2>2. NoAnswer.status = 0
    BY DEF NoAnswer
  <2> HIDE DEF told
  <2> QED
    BY <1>3, <1>4, <1>5, <1>6, <2>1, <2>2 DEF CallTold
<1>9. CallShown(t, answer[x], log)
  BY <1>2, <1>4, <1>5, <1>6 DEF Call, CallShown, BodyOf
<1> QED
  BY <1>1, <1>7, <1>8, <1>9, OneCallTold DEF Call

LEMMA CallAnswered ==
  ASSUME CallIInv, [Next]_vars, NEW x \in Requests, NEW status \in Nat, NEW slow \in BOOLEAN,
         NEW textual \in BOOLEAN, BaseAnswers(x, status, slow, textual)
  PROVE  CallIInv'
<1> DEFINE o == trip[x]
           l == outLog[x]
           d == Decision("complete", status, FALSE, slow)
           counts == "complete" \in outOpts.logs \ outOpts.hooks
           drops  == counts /\ ~ShouldKeep(outOpts.every, d, outCounter)
           p == IF drops \/ "complete" \notin outOpts.logs THEN "answered" ELSE "answering"
           t == [o EXCEPT !.phase = p]
           a == [NoAnswer EXCEPT !.status = status, !.slow = slow, !.textual = textual]
<1>1. /\ outOpts' = outOpts /\ trip' = [trip EXCEPT ![x] = t]
      /\ answer' = [answer EXCEPT ![x] = a] /\ outLog' = [outLog EXCEPT ![x] = l]
  BY DEF BaseAnswers, CallIInv, CallBodies
<1>2. o.phase = "calling" /\ Call(o, answer[x], l)
  BY DEF BaseAnswers, CallIInv
<1>3. Ends(l) = {}
  BY <1>2 DEF Call, CallTold
<1>4. p \in {"answered", "answering"}
  OBVIOUS
<1>5. /\ t.phase = p /\ t.ctx = o.ctx /\ t.call = o.call /\ t.header = o.header
      /\ t.refused = o.refused
  BY DEF CallIInv, CallBodies, TripFields
<1>6. a.status = status /\ a.slow = slow /\ a.served = 0
  BY DEF NoAnswer
<1>7. drops => ~(status >= 400 \/ slow)
  <2>1. status >= 400 \/ slow => IsImportant(d)
    BY DEF IsImportant, Decision
  <2> HIDE DEF d
  <2> QED
    BY <2>1, TroubleIsKept
<1>8. "complete" \in outOpts.logs /\ (status >= 400 \/ slow) => p = "answering"
  BY <1>7
<1> HIDE DEF p, t, a, o, l, drops
<1>9. CallTyped(t, a, l)
  BY <1>2, <1>4, <1>5, <1>6, OutAssumption DEF Call, CallTyped
<1>10. CallTold(t, a, l)
  BY <1>3, <1>4, <1>5, <1>6, <1>8 DEF CallTold
<1>11. CallShown(t, a, l)
  BY <1>2, <1>4, <1>5 DEF Call, CallShown, BodyOf
<1> QED
  BY <1>1, <1>9, <1>10, <1>11, OneCallTold DEF Call

(* What RoundTrip shows of an answer's body, which nobody has read from.    *)
LEMMA AnswerShown ==
  ASSUME NEW a \in Answers, a.body.conn = Bytes(a.served), EnoughRead(a), outOpts \in OutOptions
  PROVE  BodyOf(AnswerBody(a), a.status, a) /\ AnswerBody(a) \in Bodies
<1> DEFINE L == outOpts.limit
           h == a.served
           b == AnswerBody(a)
<1>1. L \in Nat /\ h \in Nat /\ a.textual \in BOOLEAN
  BY OutAssumption DEF Answers
<1>2. Bytes(h) \in Seq(Nat) /\ Len(Bytes(h)) = h
  BY <1>1, NumberedBytes DEF Bytes
<1>3. b \in Bodies
  BY <1>1, <1>2, BodyTypes DEF AnswerBody
<1>4. ASSUME b # NoBody PROVE BodyOf(b, a.status, a)
  <2>1. /\ CapturesAnswer(a) /\ a.textual /\ ~(a.status < 400) /\ ~(a.ends = "broken" /\ h <= L)
        /\ b = CaptureBody(a.textual, Bytes(h), L)
    BY <1>2, <1>4 DEF AnswerBody, CapturesAnswer
  <2>2. b.value = Upto(Bytes(h), L) /\ b.cut = (h > L)
    BY <1>2, <2>1 DEF CaptureBody
  <2> DEFINE m == IF L < h THEN L ELSE h
  <2>3. b.value = Bytes(m)
    BY <1>1, <2>2, BytesFollowNone
  <2>4. m \in Nat /\ m <= h /\ m <= L
    BY <1>1
  <2>5. Len(Bytes(m)) = m
    BY <2>4 DEF Bytes
  <2>6. ~b.cut => m = h /\ h <= L
    <3> HIDE DEF b, L
    <3>1. ~b.cut => ~(h > L)
      BY <2>2, Zenon
    <3> QED
      BY <1>1, <3>1
  <2>7. h <= L => a.ends = "eof"
    BY <1>1, <1>2, <2>1 DEF EnoughRead, Answers, Endings
  <2>8. a.status >= 400
    BY <2>1 DEF Answers
  <2> HIDE DEF b, m, L
  <2> QED
    BY <2>3, <2>4, <2>5, <2>6, <2>7, <2>8 DEF BodyOf, L
<1> QED
  BY <1>3, <1>4 DEF BodyOf

LEMMA CallReturns ==
  ASSUME CallIInv, [Next]_vars, NEW x \in Requests, NEW refused, Return(x, refused)
  PROVE  CallIInv'
<1> DEFINE o == trip[x]
           l == outLog[x]
           k == Len(l) + 1
           b == answer[x]
           t == [o EXCEPT !.phase = "answered", !.refused = refused]
           a == [b EXCEPT !.body = BodyAfter(b)]
           d == Decision("complete", b.status, FALSE, b.slow)
           e == Event("complete", Stamp(LogContext(o.ctx, o.call)), SentBody(o.call), b.status, "",
                      AnswerBody(b))
           told == "complete" \in outOpts.hooks => ShouldLog(outOpts.every, d, outCounter, refused)
           log == IF told THEN Append(l, e) ELSE l
<1>1. /\ outOpts' = outOpts /\ trip' = [trip EXCEPT ![x] = t]
      /\ answer' = [answer EXCEPT ![x] = a] /\ outLog' = [outLog EXCEPT ![x] = log]
  BY DEF Return, Logs, CallIInv, CallBodies
<1>2. /\ o.phase = "answering" /\ Call(o, b, l) /\ refused \subseteq Stages
      /\ EnoughRead(b) /\ b \in Answers /\ outOpts \in OutOptions
  BY DEF Return, CallIInv, CallBodies, Stages
<1>3. Ends(l) = {} /\ l \in Seq(CallEvents)
  BY <1>2 DEF Call, CallTold, CallTyped
<1>4. /\ t.phase = "answered" /\ t.ctx = o.ctx /\ t.call = o.call /\ t.header = o.header
      /\ t.refused = refused
  BY DEF CallIInv, CallBodies, TripFields
<1>5. a.status = b.status /\ a.slow = b.slow /\ a.served = b.served /\ a.ends = b.ends
  BY <1>2 DEF Answers
<1>6. b.body.conn = Bytes(b.served)
  BY <1>2, AnsweringUnread DEF CallIInv
<1>7. BodyOf(AnswerBody(b), b.status, b) /\ AnswerBody(b) \in Bodies
  BY <1>2, <1>6, AnswerShown
<1>8. e \in CallEvents /\ e.event = "complete" /\ e.stamp.corr = o.header /\ e.status = b.status
      /\ e.body = AnswerBody(b)
  <2>1. "complete" \in Stages /\ "" \in CallErrors /\ b.status \in Nat
    BY <1>2 DEF Stages, CallErrors, Answers
  <2>2. o.ctx \in Contexts /\ o.call \in Calls \union {NoCall} /\ o.header = o.ctx.corr
    BY <1>2 DEF Call, CallTyped
  <2> DEFINE c == o.ctx
             call == o.call
             body == AnswerBody(b)
             status == b.status
             size == ""
             event == "complete"
             f == Event(event, Stamp(LogContext(c, call)), SentBody(call), status, size, body)
  <2>3. c \in Contexts /\ call \in Calls \union {NoCall} /\ body \in Bodies /\ status \in Nat
        /\ size \in CallErrors /\ event \in Stages
    BY <1>7, <2>1, <2>2
  <2> HIDE DEF c, call, body, status, size, event
  <2>4. /\ f \in CallEvents /\ f.event = event /\ f.stamp.corr = c.corr
        /\ f.status = status /\ f.body = body
    BY <1>2, <2>3, CallEvent
  <2>5. f.stamp.corr = o.header
    <3> HIDE DEF f
    <3>1. c.corr = o.header
      BY <2>2 DEF c
    <3> QED
      BY <2>4, <3>1
  <2> QED
    BY <2>4, <2>5, Zenon DEF f, c, call, body, status, size, event
<1>9. refused = {} /\ (b.status >= 400 \/ b.slow) => told
  <2>1. b.status >= 400 \/ b.slow => IsImportant(d)
    BY DEF IsImportant, Decision
  <2> HIDE DEF d, b
  <2> QED
    BY <2>1, TroubleIsKept DEF ShouldLog
<1>10. /\ told => /\ log \in Seq(CallEvents) /\ Ends(log) = {k} /\ log[k] = e
                  /\ \A i \in DOMAIN log : i = k \/ (i \in DOMAIN l /\ log[i] = l[i])
       /\ ~told => log = l
  <2> HIDE DEF e, l
  <2> QED
    BY <1>3, <1>8, LastEnd
<1>11. BodyOf(AnswerBody(b), b.status, a)
  BY <1>5, <1>7 DEF BodyOf
<1> HIDE DEF t, e, k, log, o, l, a, b, told
<1>12. CallTyped(t, a, log)
  BY <1>2, <1>4, <1>5, <1>8, <1>10 DEF Call, CallTyped
<1>13. CallTold(t, a, log)
  BY <1>3, <1>4, <1>5, <1>8, <1>9, <1>10 DEF CallTold
<1>14. CallShown(t, a, log)
  <2>1. \A i \in DOMAIN l : l[i].body = NoBody
    BY <1>2 DEF Call, CallShown
  <2> QED
    BY <1>4, <1>8, <1>10, <1>11, <2>1 DEF CallShown, BodyOf
<1> QED
  BY <1>1, <1>12, <1>13, <1>14, OneCallTold DEF Call

(* The server goes on with its answer, and the caller with reading it.      *)
LEMMA AnswerGoesOn ==
  ASSUME NEW t, NEW a, NEW log, Call(t, a, log), t.phase \in {"answering", "answered"}, NEW b,
         b.status = a.status, b.slow = a.slow, b.served <= MaxAnswer,
         \/ b.served = a.served /\ b.ends = a.ends
         \/ a.served <= b.served /\ a.ends = "open",
         a.served \in Nat, b.served \in Nat,
         \A i \in DOMAIN log : log[i].body # NoBody => Len(log[i].body.value) \in Nat
  PROVE  Call(t, b, log)
<1>1. CallTyped(t, b, log)
  BY DEF Call, CallTyped
<1>2. CallTold(t, b, log)
  BY DEF Call, CallTold
<1>3. CallShown(t, b, log)
  BY DEF Call, CallShown, BodyOf
<1> QED
  BY <1>1, <1>2, <1>3 DEF Call

LEMMA CallOpen ==
  ASSUME CallIInv, [Next]_vars, NEW x \in Requests,
         Serve(x) \/ (\E how \in {"eof", "broken"} : ServerEnds(x, how)) \/ ReadAnswer(x)
  PROVE  CallIInv'
<1> DEFINE a == answer[x]
           b == answer'[x]
<1>1. a \in Answers /\ Call(trip[x], a, outLog[x])
  BY DEF CallIInv, CallBodies
<1>2. /\ UNCHANGED <<outOpts, trip, outLog>> /\ answer' = [answer EXCEPT ![x] = b]
      /\ trip[x].phase \in {"answering", "answered"}
      /\ b.status = a.status /\ b.slow = a.slow /\ b.served \in Nat /\ b.served <= MaxAnswer
      /\ \/ b.served = a.served /\ b.ends = a.ends
         \/ a.served <= b.served /\ a.ends = "open"
  <2>0. a.served \in Nat /\ a.served <= MaxAnswer /\ MaxAnswer \in Nat
    BY <1>1, OutAssumption DEF Answers, Call, CallTyped
  <2>1. ASSUME NEW k \in Nat, NEW s, a.served < MaxAnswer, k = a.served + 1, Serving(x),
               answer' = [answer EXCEPT ![x].served = k, ![x].body.conn = s]
        PROVE  /\ answer' = [answer EXCEPT ![x] = b]
               /\ b.status = a.status /\ b.slow = a.slow /\ b.served \in Nat
               /\ b.served <= MaxAnswer /\ a.served <= b.served /\ a.ends = "open"
    <3>1. b.status = a.status /\ b.slow = a.slow /\ b.served = k
      BY <1>1, <2>1 DEF CallIInv, CallBodies, Answers
    <3>2. answer' = [answer EXCEPT ![x] = b]
      BY <2>1 DEF CallIInv, CallBodies
    <3> QED
      BY <2>0, <2>1, <3>1, <3>2 DEF Serving
  <2>2. CASE Serve(x)
    <3>1. a.served + 1 \in Nat
      BY <2>0
    <3>2. answer' = [answer EXCEPT ![x].served = a.served + 1,
                                   ![x].body.conn = Append(answer[x].body.conn, a.served + 1)]
      BY <2>2 DEF Serve, CallIInv, CallBodies
    <3>3. /\ answer' = [answer EXCEPT ![x] = b]
          /\ b.status = a.status /\ b.slow = a.slow /\ b.served \in Nat
          /\ b.served <= MaxAnswer /\ a.served <= b.served /\ a.ends = "open"
      BY <2>1, <2>2, <3>1, <3>2 DEF Serve
    <3> QED
      BY <2>2, <3>3 DEF Serve, Serving, Answered
  <2>3. ASSUME NEW how, ServerEnds(x, how)
        PROVE  /\ answer' = [answer EXCEPT ![x] = b]
               /\ b.status = a.status /\ b.slow = a.slow /\ b.served = a.served
               /\ a.ends = "open"
    BY <1>1, <2>3 DEF ServerEnds, Serving, CallIInv, CallBodies, Answers
  <2>4. ASSUME NEW how, ServerEnds(x, how)
        PROVE  UNCHANGED <<outOpts, trip, outLog>> /\ trip[x].phase \in {"answering", "answered"}
    BY <2>4 DEF ServerEnds, Serving, Answered
  <2>5. ReadAnswer(x) => /\ answer' = [answer EXCEPT ![x] = b]
                         /\ b.status = a.status /\ b.slow = a.slow /\ b.served = a.served
                         /\ b.ends = a.ends
    BY <1>1 DEF ReadAnswer, CallIInv, CallBodies, Answers
  <2>6. ReadAnswer(x) => UNCHANGED <<outOpts, trip, outLog>> /\ trip[x].phase = "answered"
    BY DEF ReadAnswer
  <2> DEFINE Goal == /\ UNCHANGED <<outOpts, trip, outLog>> /\ answer' = [answer EXCEPT ![x] = b]
                     /\ trip[x].phase \in {"answering", "answered"}
                     /\ b.status = a.status /\ b.slow = a.slow
                     /\ b.served \in Nat /\ b.served <= MaxAnswer
                     /\ \/ b.served = a.served /\ b.ends = a.ends
                        \/ a.served <= b.served /\ a.ends = "open"
  <2>7. Serve(x) => Goal
    BY <2>2
  <2>8. ASSUME NEW how, ServerEnds(x, how) PROVE Goal
    <3>1. a.served <= b.served
      BY <2>0, <2>3, <2>8
    <3> QED
      BY <2>0, <2>3, <2>4, <2>8, <3>1
  <2>9. ReadAnswer(x) => Goal
    BY <2>0, <2>5, <2>6
  <2> HIDE DEF Goal
  <2>10. Goal
    BY <2>7, <2>8, <2>9
  <2> QED
    BY <2>10 DEF Goal
<1>3. ASSUME NEW i \in DOMAIN outLog[x] PROVE Len(outLog[x][i].body.value) \in Nat
  <2>1. outLog[x] \in Seq(CallEvents)
    BY <1>1 DEF Call, CallTyped
  <2>2. outLog[x][i] \in CallEvents
    BY <2>1
  <2> QED
    BY <2>2 DEF CallEvents, Bodies
<1>4. a.served \in Nat
  BY <1>1 DEF Answers
<1> HIDE DEF a, b
<1>5. Call(trip[x], b, outLog[x])
  BY <1>1, <1>2, <1>3, <1>4, AnswerGoesOn
<1>6. trip' = [trip EXCEPT ![x] = trip[x]] /\ outLog' = [outLog EXCEPT ![x] = outLog[x]]
  BY <1>2 DEF CallIInv, CallBodies
<1> QED
  BY <1>2, <1>5, <1>6, OneCallTold

LEMMA CallStep == CallIInv /\ HttpTypeOK /\ [Next]_vars => CallIInv'
<1> SUFFICES ASSUME CallIInv, HttpTypeOK, [Next]_vars PROVE CallIInv'
  OBVIOUS
<1>1. deployment.calls \subseteq Calls /\ deployment.codes \subseteq Nat
  BY DeploymentsAssumption, HttpAssumption DEF CallIInv, CallBodies
<1>2. ASSUME NEW x \in Requests, Calling(x) PROVE CallIInv'
  <2>1. ctx[x] \in Contexts
    BY DEF HttpTypeOK
  <2> QED
    BY <1>1, <1>2, <2>1, CallStarts DEF Calling
<1>3. ASSUME NEW x \in Requests, Returning(x) PROVE CallIInv'
  BY <1>3, CallReturns DEF Returning, Returns
<1>4. ASSUME NEW x \in Requests, Peer(x) PROVE CallIInv'
  BY <1>1, <1>4, CallTransmits, CallFails, CallAnswered, CallOpen DEF Peer
<1>5. ASSUME NEW x \in Requests, Receiving(x) PROVE CallIInv'
  BY <1>5, CallOpen DEF Receiving
<1>6. ASSUME NEW x \in Requests,
             \/ Serves(x) \/ Responding(x) \/ Reading(x) \/ Panicking(x)
             \/ Deriving(x) \/ Querying(x) \/ Logging(x) \/ Queuing(x)
      PROVE  UNCHANGED outVars
  BY <1>6 DEF Serves, Responding, Reading, Panicking, Deriving, Querying, Logging, Queuing
<1>7. Changing \/ Encoding \/ UNCHANGED vars => UNCHANGED outVars
  BY DEF Changing, Encoding, vars
<1> QED
  BY <1>2, <1>3, <1>4, <1>5, <1>6, <1>7, CallsStay DEF Next

LEMMA CallInvariance == Spec => []CallIInv
<1>1. HttpIInv => HttpTypeOK
  BY DEF HttpIInv
<1> QED
  BY <1>1, InitCallIInv, CallStep, ServiceHttp, PTL DEF Spec

LEMMA CallsTold == CallIInv => OutTroubleIsTold
<1> SUFFICES ASSUME CallIInv, NEW x \in Requests
             PROVE  /\ Ends(outLog[x]) = OutEnds(x)
                    /\ CallTold(trip[x], answer[x], outLog[x])
  BY DEF OutTroubleIsTold, CallTold
<1> QED
  BY DEF CallIInv, Call, OutEnds, Ends

(* No trouble goes untold: of requests, of calls or of queries.             *)
THEOREM NoTroubleUntold == Spec => []TroublesTold
<1>1. HttpIInv /\ CallIInv /\ DbIInv => TroublesTold
  BY IInvTold, CallsTold, QueriesTold DEF TroublesTold
<1> QED
  BY <1>1, ServiceHttp, CallInvariance, DbInvariance, PTL

(* Only an error's body is logged, and never passed off as the whole.       *)
THEOREM OnlyErrorBodies == Spec => []ErrorBodiesOnly
<1> SUFFICES CallIInv => ErrorBodiesOnly
  BY CallInvariance, PTL
<1> SUFFICES ASSUME CallIInv, NEW x \in Requests, NEW i \in DOMAIN outLog[x],
                    outLog[x][i].body # NoBody
             PROVE  LET e == outLog[x][i]
                    IN  /\ e.status >= 400
                        /\ e.body.value = Upto(Bytes(answer[x].served), Len(e.body.value))
                        /\ ~e.body.cut => /\ answer[x].ends = "eof"
                                          /\ Len(e.body.value) = answer[x].served
                        /\ Len(e.body.value) <= outOpts.limit
  BY DEF ErrorBodiesOnly
<1> DEFINE e == outLog[x][i]
           n == Len(e.body.value)
           h == answer[x].served
<1>1. BodyOf(e.body, e.status, answer[x])
  BY DEF CallIInv, Call, CallShown
<1>2. n \in Nat /\ h \in Nat
  <2>1. h \in Nat
    BY DEF CallIInv, CallBodies, Answers
  <2>2. e \in CallEvents
    BY DEF CallIInv, Call, CallTyped
  <2>3. e.body \in Bodies
    BY <2>2 DEF CallEvents
  <2> QED
    BY <2>1, <2>3 DEF Bodies
<1>3. n <= h /\ e.body.value = Bytes(n)
  BY <1>1 DEF BodyOf
<1> HIDE DEF n, h
<1>4. Upto(Bytes(h), n) = Bytes(n)
  <2>1. (IF n < h THEN n ELSE h) = n
    BY <1>2, <1>3
  <2> QED
    BY <1>2, <2>1, BytesFollowNone
<1>5. e.body.value = Upto(Bytes(h), n)
  BY <1>3, <1>4
<1> QED
  BY <1>1, <1>5 DEF BodyOf, n, h

-----------------------------------------------------------------------------
(* The ID a request goes by. A context carries it where it and the metadata *)
(* in it have one ID, which is the request's unless the handler changed it. *)
Carries(x, c) ==
  /\ "renamed" \notin used[x] => c.meta.corr = c.corr
  /\ used[x] \cap {"renamed", "rebased"} = {} => c.corr = base[x].corr

LineIds(x) ==
  {lines[i].stamp.corr : i \in {j \in DOMAIN lines : lines[j].by = x}}
    \union {p.stamp.corr : p \in {pending[x]} \ {NoLine}}

Known(x) ==
  /\ phase[x] = "new" =>
       /\ used[x] = {} /\ httpLog[x] = <<>> /\ trip[x].phase = "idle" /\ dbLog[x] = <<>>
       /\ LineIds(x) = {}
  /\ phase[x] # "new" => base[x].corr \in KnownBy(x) /\ base[x].meta.corr = base[x].corr
  /\ Carries(x, ctx[x])
  /\ trip[x].phase # "idle" => Carries(x, trip[x].ctx)
  /\ dbLog[x] # <<>> => Carries(x, dbLast[x].ctx)
  /\ used[x] \cap {"renamed", "rebased"} = {} =>
       /\ \A i \in DOMAIN httpLog[x] : httpLog[x][i].stamp.corr = base[x].corr
       /\ LineIds(x) \subseteq {base[x].corr}

KnownIInv == \A x \in Requests : Known(x)

LEMMA StampOfCarried ==
  ASSUME NEW c, c.meta.corr = c.corr
  PROVE  Stamp(c).corr = c.corr
BY DEF Stamp, CorrelationID

LEMMA InitKnown == Init => KnownIInv
<1> SUFFICES ASSUME Init, NEW x \in Requests PROVE Known(x)
  BY DEF KnownIInv
<1>1. /\ phase[x] = "new" /\ used[x] = {} /\ httpLog[x] = <<>> /\ dbLog[x] = <<>>
      /\ base[x] = Background /\ ctx[x] = Background /\ trip[x] = NoTrip
  BY DEF Init, HttpInit, OutInit, DbInit
<1>2. LineIds(x) = {}
  BY DEF Init, LogInit, LineIds
<1>3. NoTrip.phase = "idle" /\ Background.corr = NoId /\ Background.meta.corr = NoId
  BY DEF NoTrip, Background
<1>4. Carries(x, ctx[x])
  BY <1>1, <1>3 DEF Carries
<1> QED
  BY <1>1, <1>2, <1>3, <1>4 DEF Known

(* The steps that leave a request as it is.                                 *)
LEMMA KnownFrame ==
  ASSUME NEW y \in Requests, Known(y), UNCHANGED own(y), dbLog'[y] = dbLog[y],
         UNCHANGED <<trip[y], dbLast[y]>>, LineIds(y)' \subseteq LineIds(y)
  PROVE  Known(y)'
<1>1. /\ phase'[y] = phase[y] /\ arrival'[y] = arrival[y] /\ base'[y] = base[y]
      /\ ctx'[y] = ctx[y] /\ httpLog'[y] = httpLog[y] /\ used'[y] = used[y]
  BY DEF own
<1>2. \A c : Carries(y, c)' = Carries(y, c)
  BY <1>1 DEF Carries
<1>3. KnownBy(y)' = KnownBy(y)
  BY <1>1 DEF KnownBy
<1> QED
  BY <1>1, <1>2, <1>3 DEF Known, Carries

LEMMA SameLines == UNCHANGED <<lines, pending>> => \A y : LineIds(y)' = LineIds(y)
BY DEF LineIds

(* The ID of a request is known when its context is made.                   *)
LEMMA ContextIsKnown ==
  ASSUME NEW x \in Requests, NEW a \in Arrivals, NEW fresh \in {x, NoId}
  PROVE  LET c == ContextFor(a, fresh)
         IN  /\ c.meta.corr = c.corr
             /\ c.corr \in IF a.header # NoId THEN {a.header}
                           ELSE IF a.context.corr # NoId THEN {a.context.corr} ELSE {x, NoId}
<1> DEFINE o == a.context
           d == IF a.header # NoId THEN WithID(o, a.header) ELSE GetOrGenerate(o, fresh)
           m == [corr |-> d.corr, trace |-> a.trace]
<1>1. o \in Contexts /\ a.header \in Id /\ a.trace \in Id /\ fresh \in Id
  BY HttpAssumption, IdsAssumption DEF Id
<1>2. d \in Contexts
  BY <1>1, ContextTypes
<1>3. ASSUME NEW id \in Id PROVE WithID(o, id).corr = IF id = NoId THEN o.corr ELSE id
  BY <1>1 DEF WithID, Contexts
<1>4. d.corr \in IF a.header # NoId THEN {a.header}
                 ELSE IF o.corr # NoId THEN {o.corr} ELSE {x, NoId}
  BY <1>1, <1>3 DEF GetOrGenerate
<1>5. ContextFor(a, fresh) = [d EXCEPT !.meta = m]
  BY DEF ContextFor, WithMeta
<1>6. m.corr = d.corr
  OBVIOUS
<1> HIDE DEF d, m
<1>7. ContextFor(a, fresh).corr = d.corr /\ ContextFor(a, fresh).meta = m
  BY <1>2, <1>5 DEF Contexts
<1> QED
  BY <1>4, <1>6, <1>7

LEMMA BeginKnown ==
  ASSUME HttpTypeOK, NEW x \in Requests, Known(x), UNCHANGED <<outVars, dbVars, logVars>>,
         NEW a \in Arrivals, NEW fresh \in {x, NoId}, NEW refused, Begin(x, a, fresh, refused)
  PROVE  Known(x)'
<1> DEFINE c == ContextFor(a, fresh)
           e == Event("start", Stamp(c), RequestBody(a), 0, 0, NoBody)
<1>1. /\ phase[x] = "new" /\ phase'[x] = "handling" /\ arrival'[x] = a /\ base'[x] = c
      /\ ctx'[x] = c /\ used'[x] = used[x]
      /\ httpLog'[x] = IF Wants("start", refused) THEN <<e>> ELSE <<>>
  BY DEF Begin, HttpTypeOK
<1>2. /\ used[x] = {} /\ trip'[x].phase = "idle" /\ dbLog'[x] = <<>> /\ LineIds(x)' = {}
  BY <1>1, SameLines DEF Known, outVars, dbVars, logVars
<1>3. c.meta.corr = c.corr /\ c.corr \in KnownBy(x)'
  BY <1>1, ContextIsKnown DEF KnownBy
<1>4. e.stamp.corr = c.corr
  BY <1>3, StampOfCarried DEF Event
<1> HIDE DEF c, e
<1>5. \A i \in DOMAIN httpLog'[x] : httpLog'[x][i].stamp.corr = c.corr
  BY <1>1, <1>4
<1>6. Carries(x, ctx[x])'
  BY <1>1, <1>3 DEF Carries
<1> QED
  BY <1>1, <1>2, <1>3, <1>5, <1>6 DEF Known

LEMMA EndKnown ==
  ASSUME HttpTypeOK, NEW x \in Requests, Known(x), UNCHANGED <<outVars, dbVars, logVars>>,
         NEW err, NEW slow, NEW refused, NEW c \in EndContexts(x), End(x, err, slow, refused, c)
  PROVE  Known(x)'
<1>1. /\ phase[x] = "handling" /\ phase'[x] = "ended" /\ arrival'[x] = arrival[x]
      /\ base'[x] = base[x] /\ ctx'[x] = ctx[x] /\ used'[x] = used[x]
  BY DEF End, Handling, HttpTypeOK, handlerVars
<1>2. LineIds(x)' = LineIds(x) /\ trip' = trip /\ dbLog' = dbLog /\ dbLast' = dbLast
  BY SameLines DEF outVars, dbVars, logVars
<1>3. base[x].meta.corr = base[x].corr /\ Carries(x, ctx[x]) /\ base[x].corr \in KnownBy(x)
  BY <1>1 DEF Known
<1>4. used[x] \cap {"renamed", "rebased"} = {} => Stamp(c).corr = base[x].corr
  BY <1>3, StampOfCarried DEF EndContexts, Carries
<1> DEFINE n == EndOf(out[x], err, refused)
           e == Event(n.event, Stamp(c), RequestBody(arrival[x]), n.status, n.size,
                      ResponseBody(out[x], n.status, arrival[x].textual))
<1>5. /\ httpLog'[x] = httpLog[x] \/ httpLog'[x] = Append(httpLog[x], e)
      /\ e.stamp = Stamp(c)
  <2>1. e.stamp = Stamp(c)
    BY DEF Event
  <2>2. httpLog'[x] = httpLog[x] \/ httpLog'[x] = Append(httpLog[x], e)
    BY DEF End, HttpTypeOK
  <2> QED
    BY <2>1, <2>2
<1> HIDE DEF n, e
<1>6. httpLog[x] \in Seq(Events)
  BY DEF HttpTypeOK
<1>7. used[x] \cap {"renamed", "rebased"} = {} =>
        \A i \in DOMAIN httpLog'[x] : httpLog'[x][i].stamp.corr = base[x].corr
  <2>1. ASSUME httpLog'[x] = Append(httpLog[x], e), NEW i \in DOMAIN httpLog'[x]
        PROVE  httpLog'[x][i] = e \/ (i \in DOMAIN httpLog[x] /\ httpLog'[x][i] = httpLog[x][i])
    BY <1>6, <2>1
  <2> QED
    BY <1>4, <1>5, <2>1 DEF Known
<1>8. \A k : Carries(x, k)' = Carries(x, k)
  BY <1>1 DEF Carries
<1>9. KnownBy(x)' = KnownBy(x)
  BY <1>1 DEF KnownBy
<1> QED
  BY <1>1, <1>2, <1>3, <1>7, <1>8, <1>9 DEF Known, Carries

(* The other calls of the handler and the server change no ID.              *)
LEMMA MoreUsed ==
  ASSUME NEW x \in Requests, Known(x), UNCHANGED <<outVars, dbVars, logVars>>,
         phase[x] # "new", phase'[x] # "new", used[x] \subseteq used'[x],
         arrival'[x] = arrival[x], base'[x] = base[x], httpLog'[x] = httpLog[x],
         Carries(x, ctx[x])'
  PROVE  Known(x)'
<1>1. LineIds(x)' = LineIds(x) /\ trip' = trip /\ dbLog' = dbLog /\ dbLast' = dbLast
  BY SameLines DEF outVars, dbVars, logVars
<1>2. ASSUME NEW c, Carries(x, c)
      PROVE  /\ "renamed" \notin used'[x] => c.meta.corr = c.corr
             /\ used'[x] \cap {"renamed", "rebased"} = {} => c.corr = base'[x].corr
  BY <1>2 DEF Carries
<1>3. KnownBy(x)' = KnownBy(x)
  BY DEF KnownBy
<1>4. trip[x].phase # "idle" => Carries(x, trip[x].ctx)'
  BY <1>1, <1>2 DEF Known, Carries
<1>5. dbLog[x] # <<>> => Carries(x, dbLast[x].ctx)'
  BY <1>1, <1>2 DEF Known, Carries
<1>6. used'[x] \cap {"renamed", "rebased"} = {} => used[x] \cap {"renamed", "rebased"} = {}
  OBVIOUS
<1> QED
  BY <1>1, <1>3, <1>4, <1>5, <1>6 DEF Known

LEMMA DeriveKnown ==
  ASSUME HttpTypeOK, NEW x \in Requests, Known(x), UNCHANGED <<outVars, dbVars, logVars>>,
         NEW id \in Ids,
         \/ Derive(x, WithID(ctx[x], id), "renamed")
         \/ Derive(x, WithCorrelationID(ctx[x], id), "rebased")
         \/ Derive(x, OtelWithTrace(ctx[x], id), "traced")
  PROVE  Known(x)'
<1> DEFINE o == ctx[x]
<1>1. o \in Contexts /\ o.meta \in Meta /\ id \in Id /\ id # NoId /\ Carries(x, o)
  BY IdsAssumption DEF HttpTypeOK, Contexts, Known, Id
<1>2. ASSUME NEW c, NEW quirk, Derive(x, c, quirk)
      PROVE  /\ phase[x] # "new" /\ phase'[x] # "new" /\ used'[x] = used[x] \union {quirk}
             /\ arrival'[x] = arrival[x] /\ base'[x] = base[x] /\ httpLog'[x] = httpLog[x]
             /\ ctx'[x] = c
  BY <1>2 DEF Derive, Handling, HttpTypeOK, frameVars
<1>3. CASE Derive(x, WithID(ctx[x], id), "renamed")
  <2>1. Carries(x, ctx[x])'
    BY <1>2, <1>3 DEF Carries
  <2> QED
    BY <1>2, <1>3, <2>1, MoreUsed
<1>4. CASE Derive(x, WithCorrelationID(ctx[x], id), "rebased")
  <2> DEFINE w == WithID(o, id)
             m == [o.meta EXCEPT !.corr = id]
             c == WithCorrelationID(o, id)
  <2>1. w \in Contexts /\ w.corr = id
    BY <1>1 DEF WithID, Contexts
  <2>2. m.corr = id
    BY <1>1 DEF Meta
  <2>3. c = [w EXCEPT !.meta = m]
    BY DEF WithCorrelationID, WithMeta
  <2> HIDE DEF w, m
  <2>4. c.corr = id /\ c.meta.corr = id
    BY <2>1, <2>2, <2>3 DEF Contexts
  <2> HIDE DEF c
  <2>5. ctx'[x] = c /\ "rebased" \in used'[x]
    BY <1>2, <1>4 DEF c
  <2>6. Carries(x, ctx[x])'
    BY <2>4, <2>5 DEF Carries
  <2> QED
    BY <1>2, <1>4, <2>6, MoreUsed
<1>5. CASE Derive(x, OtelWithTrace(ctx[x], id), "traced")
  <2> DEFINE m == [o.meta EXCEPT !.trace = id]
             c == OtelWithTrace(o, id)
  <2>1. m.corr = o.meta.corr
    BY <1>1 DEF Meta
  <2>2. c = [o EXCEPT !.meta = m]
    BY <1>1 DEF OtelWithTrace, WithTrace, WithMeta
  <2> HIDE DEF m
  <2>3. c.corr = o.corr /\ c.meta = m
    BY <1>1, <2>2 DEF Contexts
  <2> HIDE DEF c
  <2>4. ctx'[x] = c /\ used'[x] = used[x] \union {"traced"} /\ base'[x] = base[x]
    BY <1>2, <1>5 DEF c
  <2>5. Carries(x, ctx[x])'
    BY <1>1, <2>1, <2>3, <2>4 DEF Carries
  <2> QED
    BY <1>2, <1>5, <2>5, MoreUsed
<1> QED
  BY <1>3, <1>4, <1>5

LEMMA HttpKnown ==
  ASSUME HttpTypeOK, NEW x \in Requests, Known(x), Middleware(x) \/ Handler(x),
         UNCHANGED <<outVars, dbVars, logVars>>
  PROVE  Known(x)'
<1>1. ASSUME phase[x] # "new", phase'[x] # "new", used[x] \subseteq used'[x],
             UNCHANGED <<arrival, base, httpLog, ctx>>
      PROVE  Known(x)'
  <2>1. Carries(x, ctx[x])
    BY DEF Known
  <2>2. Carries(x, ctx[x])'
    BY <1>1, <2>1 DEF Carries
  <2> QED
    BY <1>1, <2>2, MoreUsed
<1>2. CASE Middleware(x)
  <2>1. Answer(x) => Known(x)'
    BY <1>1 DEF Answer, frameVars, HttpTypeOK
  <2> QED
    BY <1>2, <2>1, BeginKnown, EndKnown DEF Middleware
<1>3. CASE Handler(x)
  <2>1. ASSUME NEW w, NEW p, NEW quirks, Responds(x, w, p, quirks) PROVE Known(x)'
    BY <1>1, <2>1 DEF Responds, Handling, frameVars, HttpTypeOK
  <2>2. ASSUME NEW code, WriteHeader(x, code) PROVE Known(x)'
    BY <2>1, <2>2 DEF WriteHeader
  <2>3. ASSUME NEW len, NEW n, Write(x, len, n) \/ WriteString(x, len, n) \/ Copy(x, len, n)
        PROVE  Known(x)'
    BY <2>1, <2>3 DEF Write, WriteString, Copy
  <2>4. Flush(x) \/ Hijack(x) => Known(x)'
    BY <2>1 DEF Flush, Hijack
  <2>5. ReadBody(x) \/ Panic(x) => Known(x)'
    BY <1>1 DEF ReadBody, Panic, Handling, handlerVars, frameVars, HttpTypeOK
  <2> QED
    BY <1>3, <2>2, <2>3, <2>4, <2>5, DeriveKnown DEF Handler
<1> QED
  BY <1>2, <1>3

(* A call goes out under the context of the handler, and keeps it.          *)
Follows(y) ==
  \/ trip'[y].phase = "idle"
  \/ trip[y].phase # "idle" /\ trip'[y].ctx = trip[y].ctx
  \/ phase[y] # "new" /\ trip'[y].ctx = ctx[y]

LEMMA TripFollows ==
  ASSUME CallBodies, NEW x \in Requests, NEW y \in Requests,
         Calling(x) \/ Returning(x) \/ Peer(x) \/ Receiving(x)
  PROVE  Follows(y)
<1>1. UNCHANGED trip => Follows(y)
  BY DEF Follows
<1>2. ASSUME NEW t, trip' = [trip EXCEPT ![x] = t],
             \/ trip[x].phase # "idle" /\ t.ctx = trip[x].ctx
             \/ phase[x] # "new" /\ t.ctx = ctx[x]
      PROVE  Follows(y)
  <2>1. trip'[x] = t /\ (y # x => trip'[y] = trip[y])
    BY <1>2 DEF CallBodies
  <2> QED
    BY <1>2, <2>1 DEF Follows
<1>3. DOMAIN trip[x] = TripFields
  BY DEF CallBodies
<1>4. CASE Calling(x)
  <2>1. phase[x] # "new"
    BY <1>4 DEF Calling, Op, Handling
  <2> QED
    BY <1>2, <1>4, <2>1 DEF Calling, RoundTrip
<1>5. CASE Returning(x)
  <2>1. ASSUME NEW refused, Return(x, refused) PROVE Follows(y)
    <3> DEFINE t == [trip[x] EXCEPT !.phase = "answered", !.refused = refused]
    <3>1. trip' = [trip EXCEPT ![x] = t] /\ trip[x].phase # "idle"
      BY <2>1 DEF Return
    <3>2. t.ctx = trip[x].ctx
      BY <1>3 DEF TripFields
    <3> HIDE DEF t
    <3> QED
      BY <1>2, <3>1, <3>2
  <2> QED
    BY <1>5, <2>1 DEF Returning, Returns
<1>6. CASE Peer(x)
  <2>0. CASE Transmit(x)
    <3> DEFINE t == [trip[x] EXCEPT !.sends = ReadOn(trip[x].sends)]
    <3>1. trip' = [trip EXCEPT ![x] = t] /\ trip[x].phase # "idle"
      BY <2>0 DEF Transmit, CallBodies
    <3>2. t.ctx = trip[x].ctx
      BY <1>3 DEF TripFields
    <3> HIDE DEF t
    <3> QED
      BY <1>2, <3>1, <3>2
  <2>1. ASSUME NEW traits, NEW refused, BaseFails(x, traits, refused) PROVE Follows(y)
    <3> DEFINE t == [trip[x] EXCEPT !.phase = "failed", !.error = ClassifyError(traits),
                                    !.refused = refused]
    <3>1. trip' = [trip EXCEPT ![x] = t] /\ trip[x].phase # "idle"
      BY <2>1 DEF BaseFails
    <3>2. t.ctx = trip[x].ctx
      BY <1>3 DEF TripFields
    <3> HIDE DEF t
    <3> QED
      BY <1>2, <3>1, <3>2
  <2>2. ASSUME NEW status, NEW slow, NEW textual, BaseAnswers(x, status, slow, textual)
        PROVE  Follows(y)
    <3>1. PICK p : trip' = [trip EXCEPT ![x].phase = p] /\ trip[x].phase # "idle"
      BY <2>2 DEF BaseAnswers
    <3> DEFINE t == [trip[x] EXCEPT !.phase = p]
    <3>2. t.ctx = trip[x].ctx
      BY <1>3 DEF TripFields
    <3>3. trip' = [trip EXCEPT ![x] = t]
      BY <3>1 DEF CallBodies
    <3> HIDE DEF t
    <3> QED
      BY <1>2, <3>1, <3>2, <3>3
  <2>3. Serve(x) \/ (\E how : ServerEnds(x, how)) => UNCHANGED trip
    BY DEF Serve, ServerEnds
  <2> QED
    BY <1>1, <1>6, <2>0, <2>1, <2>2, <2>3 DEF Peer
<1>7. Receiving(x) => Follows(y)
  BY <1>1 DEF Receiving, ReadAnswer
<1> QED
  BY <1>4, <1>5, <1>6, <1>7

LEMMA CallKnown ==
  ASSUME NEW y \in Requests, Known(y), Follows(y), UNCHANGED <<httpVars, dbVars, logVars>>
  PROVE  Known(y)'
<1>1. /\ phase'[y] = phase[y] /\ arrival'[y] = arrival[y] /\ base'[y] = base[y]
      /\ ctx'[y] = ctx[y] /\ httpLog'[y] = httpLog[y] /\ used'[y] = used[y]
  BY DEF httpVars, handlerVars, frameVars
<1>2. LineIds(y)' = LineIds(y) /\ dbLog' = dbLog /\ dbLast' = dbLast
  BY SameLines DEF dbVars, logVars
<1>3. \A c : Carries(y, c)' = Carries(y, c)
  BY <1>1 DEF Carries
<1>4. KnownBy(y)' = KnownBy(y)
  BY <1>1 DEF KnownBy
<1>5. trip'[y].phase # "idle" => Carries(y, trip'[y].ctx) /\ phase[y] # "new"
  BY DEF Known, Follows
<1> QED
  BY <1>1, <1>2, <1>3, <1>4, <1>5 DEF Known, Carries

(* So does a query, which is done when it is traced.                        *)
LEMMA QueryKnown ==
  ASSUME DbIInv, NEW x \in Requests, Querying(x), NEW y \in Requests, Known(y)
  PROVE  Known(y)'
<1>1. /\ phase'[y] = phase[y] /\ arrival'[y] = arrival[y] /\ base'[y] = base[y]
      /\ ctx'[y] = ctx[y] /\ httpLog'[y] = httpLog[y] /\ used'[y] = used[y]
  BY DEF Querying, httpVars, handlerVars, frameVars
<1>2. LineIds(y)' = LineIds(y) /\ trip' = trip
  BY SameLines DEF Querying, outVars, logVars
<1>3. \A c : Carries(y, c)' = Carries(y, c)
  BY <1>1 DEF Carries
<1>4. KnownBy(y)' = KnownBy(y)
  BY <1>1 DEF KnownBy
<1>5. \/ UNCHANGED <<dbLog[y], dbLast[y]>>
      \/ phase[y] # "new" /\ dbLast'[y].ctx = ctx[y]
  <2>1. ASSUME NEW q, NEW allowed, Trace(x, ctx[x], q, allowed), phase[x] # "new"
        PROVE  \/ UNCHANGED <<dbLog[y], dbLast[y]>>
               \/ phase[y] # "new" /\ dbLast'[y].ctx = ctx[y]
    <3>1. y # x => UNCHANGED <<dbLog[y], dbLast[y]>>
      BY <2>1 DEF Trace, DbIInv
    <3>2. dbLast'[x].ctx = ctx[x]
      BY <2>1 DEF Trace, DbIInv
    <3> QED
      BY <2>1, <3>1, <3>2
  <2>2. ASSUME NEW l, LogMode(x, l) PROVE UNCHANGED <<dbLog[y], dbLast[y]>>
    BY <2>2 DEF LogMode
  <2>3. phase[x] # "new"
    BY DEF Querying, Op, Handling
  <2> QED
    BY <2>1, <2>2, <2>3 DEF Querying
<1>6. dbLog'[y] # <<>> => Carries(y, dbLast'[y].ctx)
  BY <1>5 DEF Known
<1>7. phase[y] = "new" => dbLog'[y] = <<>>
  BY <1>5 DEF Known
<1> QED
  BY <1>1, <1>2, <1>3, <1>4, <1>6, <1>7 DEF Known, Carries

(* A line is stamped from the context of the handler when it is printed.    *)
LEMMA LineKnown ==
  ASSUME LogIInv, NEW x \in Requests, Logging(x), NEW y \in Requests, Known(y)
  PROVE  Known(y)'
<1> DEFINE p == [stamp |-> Stamp(ctx[x]), from |-> version, printed |-> Reads(attr, version)]
<1>1. /\ phase'[y] = phase[y] /\ arrival'[y] = arrival[y] /\ base'[y] = base[y]
      /\ ctx'[y] = ctx[y] /\ httpLog'[y] = httpLog[y] /\ used'[y] = used[y]
      /\ UNCHANGED own(y)
  BY DEF Logging, httpVars, handlerVars, frameVars, own
<1>2. trip' = trip /\ dbLog' = dbLog /\ dbLast' = dbLast /\ phase[x] # "new"
  BY DEF Logging, outVars, dbVars, Op, Handling
<1>3. pending' = [pending EXCEPT ![x] = p] /\ lines' = lines /\ p.stamp = Stamp(ctx[x])
  BY DEF Logging, PrintLine
<1> HIDE DEF p
<1>4. pending'[x] = p /\ (y # x => pending'[y] = pending[y])
  BY <1>3 DEF LogIInv
<1>6. y # x => LineIds(y)' = LineIds(y)
  BY <1>3, <1>4 DEF LineIds
<1>7. LineIds(x)' \subseteq LineIds(x) \union {Stamp(ctx[x]).corr}
  BY <1>3, <1>4 DEF LineIds
<1>8. CASE y # x
  BY <1>1, <1>2, <1>6, <1>8, KnownFrame
<1>9. CASE y = x
  <2>1. \A c : Carries(x, c)' = Carries(x, c)
    BY <1>1, <1>9 DEF Carries
  <2>2. KnownBy(x)' = KnownBy(x)
    BY <1>1, <1>9 DEF KnownBy
  <2>3. used[x] \cap {"renamed", "rebased"} = {} => Stamp(ctx[x]).corr = base[x].corr
    BY <1>9, StampOfCarried DEF Known, Carries
  <2>4. used[x] \cap {"renamed", "rebased"} = {} => LineIds(x)' \subseteq {base[x].corr}
    BY <1>7, <1>9, <2>3 DEF Known
  <2> QED
    BY <1>1, <1>2, <1>9, <2>1, <2>2, <2>4 DEF Known, Carries
<1> QED
  BY <1>8, <1>9

(* It keeps its stamp in the queue, and in the worker's hands.              *)
LEMMA QueuedLines ==
  ASSUME LogIInv, NEW x \in Requests, Enqueue(x), NEW y \in Requests
  PROVE  LineIds(y)' \subseteq LineIds(y)
<1>1. PICK l : /\ l.by = x /\ l.stamp = pending[x].stamp
               /\ lines' = Append(lines, l) \/ lines' = lines
  <2> DEFINE p == pending[x]
             l == [by |-> x, stamp |-> p.stamp, from |-> p.from, printed |-> p.printed,
                   queued |-> SnapshotAttr(kind, attr, p.printed, version), until |-> version,
                   delivered |-> 0]
  <2>1. l.by = x /\ l.stamp = pending[x].stamp /\ (lines' = Append(lines, l) \/ lines' = lines)
    BY DEF Enqueue
  <2> QED
    BY <2>1
<1>2. pending[x] # NoLine /\ pending' = [pending EXCEPT ![x] = NoLine]
  BY DEF Enqueue, InLogCall
<1>3. pending'[x] = NoLine /\ (y # x => pending'[y] = pending[y])
  BY <1>2 DEF LogIInv
<1>4. lines \in Seq(Lines)
  BY DEF LogIInv
<1>5. CASE lines' = Append(lines, l)
  <2>1. /\ DOMAIN lines' = DOMAIN lines \union {Len(lines) + 1}
        /\ lines'[Len(lines) + 1] = l /\ \A i \in DOMAIN lines : lines'[i] = lines[i]
    BY <1>4, <1>5
  <2> QED
    BY <1>1, <1>2, <1>3, <2>1 DEF LineIds
<1>6. CASE lines' = lines
  BY <1>3, <1>6 DEF LineIds
<1> QED
  BY <1>1, <1>5, <1>6

LEMMA EncodedLines ==
  ASSUME LogIInv, Encode, NEW y
  PROVE  LineIds(y)' = LineIds(y)
<1>1. PICK i \in DOMAIN lines :
        lines' = [lines EXCEPT ![i].delivered = Reads(lines[i].queued, version)]
  BY DEF Encode
<1>2. lines \in Seq(Lines) /\ \A j \in DOMAIN lines : lines[j] \in Lines
  BY DEF LogIInv
<1>3. DOMAIN lines' = DOMAIN lines /\ pending' = pending
  BY <1>1 DEF Encode
<1>4. \A j \in DOMAIN lines : lines'[j].by = lines[j].by /\ lines'[j].stamp = lines[j].stamp
  BY <1>1, <1>2 DEF Lines
<1> QED
  BY <1>3, <1>4 DEF LineIds

LEMMA KnownStep ==
  /\ KnownIInv /\ HttpTypeOK /\ CallIInv /\ DbIInv /\ LogIInv
  /\ deployment \in Deployments /\ [Next]_vars
  => KnownIInv'
<1> SUFFICES ASSUME KnownIInv, HttpTypeOK, CallIInv, DbIInv, LogIInv,
                    deployment \in Deployments, [Next]_vars, NEW y \in Requests
             PROVE  Known(y)'
  BY DEF KnownIInv
<1>1. Known(y)
  BY DEF KnownIInv
<1>2. ASSUME NEW x \in Requests,
             Serves(x) \/ Responding(x) \/ Reading(x) \/ Panicking(x) \/ Deriving(x)
      PROVE  Known(y)'
  <2>1. Middleware(x) \/ Handler(x)
    BY <1>2, ServesIsHttp, HandlesIsHttp
  <2>2. UNCHANGED <<outVars, dbVars, logVars>>
    BY <1>2 DEF Serves, Responding, Reading, Panicking, Deriving
  <2>3. y # x => UNCHANGED own(y)
    BY <2>1, Others
  <2>4. LineIds(y)' = LineIds(y) /\ UNCHANGED <<trip[y], dbLast[y]>> /\ dbLog'[y] = dbLog[y]
    BY <2>2, SameLines DEF outVars, dbVars, logVars
  <2> QED
    BY <1>1, <2>1, <2>2, <2>3, <2>4, HttpKnown, KnownFrame
<1>3. ASSUME NEW x \in Requests, Calling(x) \/ Returning(x) \/ Peer(x) \/ Receiving(x)
      PROVE  Known(y)'
  <2>1. UNCHANGED <<httpVars, dbVars, logVars>>
    BY <1>3 DEF Calling, Returning, Peer, Receiving
  <2> QED
    BY <1>1, <1>3, <2>1, TripFollows, CallKnown DEF CallIInv
<1>4. UNCHANGED <<httpVars, outVars, dbVars>> /\ LineIds(y)' \subseteq LineIds(y) => Known(y)'
  BY <1>1, KnownFrame DEF httpVars, handlerVars, frameVars, own, outVars, dbVars
<1>5. Changing \/ UNCHANGED vars => Known(y)'
  BY <1>4, SameLines DEF Changing, Change, vars, logVars
<1>6. Encoding \/ (\E x \in Requests : Queuing(x)) => Known(y)'
  BY <1>4, EncodedLines, QueuedLines DEF Encoding, Queuing
<1> QED
  BY <1>1, <1>2, <1>3, <1>5, <1>6, QueryKnown, LineKnown DEF Next

LEMMA KnownInvariance == Spec => []KnownIInv
<1>1. HttpIInv => HttpTypeOK
  BY DEF HttpIInv
<1>2. Init => KnownIInv
  BY InitKnown
<1> QED
  BY <1>1, <1>2, KnownStep, ServiceHttp, CallInvariance, DbInvariance, LogInvariance,
     Deployed, PTL DEF Spec

(* Lines, calls and queries are found under the request's ID, whatever      *)
(* trace its handler joins.                                                 *)
THEOREM AllFoundUnderId == Spec => []FoundUnderId
<1>1. KnownIInv /\ CallIInv /\ DbIInv => FoundUnderId
  <2> SUFFICES ASSUME KnownIInv, CallIInv, DbIInv, NEW x \in Requests, phase[x] # "new"
               PROVE  LET id == base[x].corr
                      IN  /\ id \in KnownBy(x)
                          /\ used[x] \cap {"renamed", "rebased"} = {} =>
                               /\ \A i \in DOMAIN httpLog[x] : httpLog[x][i].stamp.corr = id
                               /\ trip[x].phase # "idle" => trip[x].header = id
                               /\ \A i \in DOMAIN outLog[x] : outLog[x][i].stamp.corr = id
                               /\ \A i \in DOMAIN dbLog[x] :
                                    dbLog[x][i].corr = id /\ dbLog[x][i].stamp.corr = id
                               /\ InLogCall(x) => pending[x].stamp.corr = id
                               /\ \A i \in DOMAIN lines : lines[i].by = x => lines[i].stamp.corr = id
    BY DEF FoundUnderId
  <2> DEFINE id == base[x].corr
             Same == used[x] \cap {"renamed", "rebased"} = {}
  <2>1. Known(x) /\ CallTyped(trip[x], answer[x], outLog[x]) /\ QueryTold(dbLast[x], dbLog[x])
    BY DEF KnownIInv, CallIInv, Call, DbIInv
  <2>2. id \in KnownBy(x)
    BY <2>1 DEF Known
  <2>3. Same => \A i \in DOMAIN httpLog[x] : httpLog[x][i].stamp.corr = id
    BY <2>1 DEF Known
  <2>4. Same => (trip[x].phase # "idle" => trip[x].header = id)
    BY <2>1 DEF Known, CallTyped, Carries
  <2>5. Same => \A i \in DOMAIN outLog[x] : outLog[x][i].stamp.corr = id
    BY <2>1, <2>4 DEF CallTyped
  <2>6. Same => \A i \in DOMAIN dbLog[x] :
                  dbLog[x][i].corr = id /\ dbLog[x][i].stamp.corr = id
    BY <2>1, StampOfCarried DEF Known, QueryTold, Carries
  <2>7. Same => /\ InLogCall(x) => pending[x].stamp.corr = id
                /\ \A i \in DOMAIN lines : lines[i].by = x => lines[i].stamp.corr = id
    BY <2>1 DEF Known, LineIds, InLogCall
  <2> QED
    BY <2>2, <2>3, <2>4, <2>5, <2>6, <2>7
<1> QED
  BY <1>1, KnownInvariance, CallInvariance, DbInvariance, PTL

(* What goes out and what is logged of it have one ID, unless the handler   *)
(* has taken a new one for half of its context.                             *)
THEOREM SentAndLoggedAlike == Spec => []IdsAgree
<1>1. KnownIInv /\ CallIInv /\ DbIInv => IdsAgree
  <2> SUFFICES ASSUME KnownIInv, CallIInv, DbIInv, NEW x \in Requests, "renamed" \notin used[x]
               PROVE  /\ \A i \in DOMAIN outLog[x] :
                           /\ outLog[x][i].stamp.corr = trip[x].header
                           /\ trip[x].header = Stamp(trip[x].ctx).corr
                      /\ \A i \in DOMAIN dbLog[x] : dbLog[x][i].corr = dbLog[x][i].stamp.corr
    BY DEF IdsAgree
  <2>1. Known(x) /\ CallTyped(trip[x], answer[x], outLog[x]) /\ QueryTold(dbLast[x], dbLog[x])
    BY DEF KnownIInv, CallIInv, Call, DbIInv
  <2>2. ASSUME NEW i \in DOMAIN outLog[x]
        PROVE  outLog[x][i].stamp.corr = trip[x].header /\ trip[x].header = Stamp(trip[x].ctx).corr
    <3>1. trip[x].phase # "idle"
      BY <2>1, <2>2 DEF CallTyped
    <3> QED
      BY <2>1, <2>2, <3>1, StampOfCarried DEF Known, CallTyped, Carries
  <2>3. ASSUME NEW i \in DOMAIN dbLog[x] PROVE dbLog[x][i].corr = dbLog[x][i].stamp.corr
    <3>1. dbLog[x] # <<>>
      BY <2>3
    <3> QED
      BY <2>1, <2>3, <3>1, StampOfCarried DEF Known, QueryTold, Carries
  <2> QED
    BY <2>2, <2>3
<1> QED
  BY <1>1, KnownInvariance, CallInvariance, DbInvariance, PTL

-----------------------------------------------------------------------------
(* What each part holds, and how often its handler has done something.      *)
OpsCounted == ops \in [Requests -> Nat]

LEMMA OpsStep == OpsCounted /\ [Next]_vars => OpsCounted'
<1> SUFFICES ASSUME OpsCounted, [Next]_vars PROVE OpsCounted'
  OBVIOUS
<1>1. ASSUME NEW x \in Requests, NEW use, Op(x, use) PROVE OpsCounted'
  BY <1>1 DEF Op, OpsCounted
<1>2. ASSUME NEW x \in Requests,
             Serves(x) \/ Queuing(x) \/ Returning(x) \/ Peer(x) \/ Receiving(x)
      PROVE  UNCHANGED ops
  BY <1>2 DEF Serves, Queuing, Returning, Peer, Receiving
<1>3. Changing \/ Encoding \/ UNCHANGED vars => UNCHANGED ops
  BY DEF Changing, Encoding, vars
<1>4. ASSUME NEW x \in Requests,
             \/ Responding(x) \/ Reading(x) \/ Panicking(x) \/ Deriving(x)
             \/ Calling(x) \/ Querying(x) \/ Logging(x)
      PROVE  \E use : Op(x, use)
  BY <1>4 DEF Responding, Reading, Panicking, Deriving, Calling, Querying, Logging
<1>5. UNCHANGED ops => OpsCounted'
  BY DEF OpsCounted
<1> QED
  BY <1>1, <1>2, <1>3, <1>4, <1>5 DEF Next

LEMMA CallTypes ==
  ASSUME CallIInv, Samplers
  PROVE  OutTypeOK
<1>1. ASSUME NEW x \in Requests
      PROVE  /\ trip[x].phase \in {"idle", "calling", "answering", "answered", "failed"}
             /\ trip[x].ctx \in Contexts /\ trip[x].call \in Calls \union {NoCall}
             /\ trip[x].header \in Id /\ trip[x].refused \subseteq Stages
             /\ answer[x].status \in Nat /\ answer[x].served \in 0..MaxAnswer
             /\ answer[x].ends \in Endings
             /\ \A i \in DOMAIN outLog[x] :
                  outLog[x][i].event \in Stages /\ outLog[x][i].stamp \in Meta
  <2>1. answer[x] \in Answers /\ CallTyped(trip[x], answer[x], outLog[x])
    BY DEF CallIInv, CallBodies, Call
  <2>2. trip[x].header \in Id
    BY <2>1 DEF CallTyped, Contexts
  <2>3. /\ answer[x].status \in Nat /\ answer[x].served \in 0..MaxAnswer
        /\ answer[x].ends \in Endings
    BY <2>1, OutAssumption DEF CallTyped, Answers
  <2>4. ASSUME NEW i \in DOMAIN outLog[x]
        PROVE  outLog[x][i].event \in Stages /\ outLog[x][i].stamp \in Meta
    <3>1. outLog[x] \in Seq(CallEvents)
      BY <2>1 DEF CallTyped
    <3>2. outLog[x][i] \in CallEvents
      BY <3>1
    <3> QED
      BY <3>2 DEF CallEvents
  <2> QED
    BY <2>1, <2>2, <2>3, <2>4 DEF CallTyped
<1> QED
  BY <1>1 DEF OutTypeOK, Samplers, Sampler

LEMMA QueryTypes ==
  ASSUME DbIInv, Samplers
  PROVE  DbTypeOK
<1>1. ASSUME NEW x \in Requests, NEW i \in DOMAIN dbLog[x]
      PROVE  dbLog[x][i].event \in {"complete", "slow", "error"} /\ dbLog[x][i].stamp \in Meta
  <2>1. dbLog[x] \in Seq(DbEvents)
    BY DEF DbIInv, QueryTold
  <2>2. dbLog[x][i] \in DbEvents
    BY <2>1
  <2> QED
    BY <2>2 DEF DbEvents
<1>2. ASSUME NEW x \in Requests
      PROVE  /\ Len(dbLog[x]) <= 1
             /\ dbLast[x].query.err \in {"none", "notfound", "failed"} /\ dbLast[x].level \in Levels
  BY DEF DbIInv, QueryTold, Traced
<1> QED
  BY <1>1, <1>2 DEF DbTypeOK, DbIInv, Samplers, Sampler

LEMMA LineTypes == LogIInv => LogTypeOK
<1> SUFFICES ASSUME LogIInv PROVE LogTypeOK
  OBVIOUS
<1>1. \A i \in DOMAIN lines : lines[i] \in Lines
  BY DEF LogIInv
<1> QED
  BY <1>1, LogAssumption DEF LogIInv, LogTypeOK

(* The variables of the service hold what their comments say.               *)
THEOREM ServiceTypes == Spec => []TypeOK
<1>1. Init => OpsCounted /\ Samplers
  BY InitSamplers DEF Init, OpsCounted
<1>2. Samplers /\ [Next]_vars => Samplers'
  BY NextSamplers
<1>3. OpsCounted /\ [Next]_vars => OpsCounted'
  BY OpsStep
<1>4. /\ deployment \in Deployments /\ OpsCounted /\ HttpIInv
      /\ CallIInv /\ DbIInv /\ LogIInv /\ Samplers
      => TypeOK
  BY CallTypes, QueryTypes, LineTypes DEF TypeOK, OpsCounted, HttpIInv
<1> QED
  BY <1>1, <1>2, <1>3, <1>4, Deployed, ServiceHttp, CallInvariance, DbInvariance,
     LogInvariance, PTL DEF Spec
==============================================================================
