------------------------------- MODULE Service -------------------------------
(***************************************************************************)
(* A server that uses the library the way README.md shows: the middleware  *)
(* around its handlers, and in the handlers an HTTP client with the logging*)
(* transport, GORM with the library's logger, and the logger itself.       *)
(*                                                                         *)
(* The parts share nothing but the contexts the handler gives them, and the*)
(* process.  The handler waits for the calls it makes.                     *)
(***************************************************************************)
EXTENDS HttpExchange, Outbound, GormTrace, LogPath

CONSTANT Deployments   \* the servers, each with the load it gets

(* A deployment names the options of the parts, and bounds what happens:    *)
(* the requests, what arrives, what the handler does and how often, the     *)
(* statuses, calls, queries and IDs it may use, how its calls fail and how  *)
(* long their answers are (0: no one looks at their bodies).                *)
Uses == {"respond", "string", "copy", "flush", "hijack", "read", "panic",
         "derive", "call", "query", "mode", "log", "change"}

ASSUME DeploymentsAssumption ==
  Deployments \subseteq
    [http : HttpOptions, out : OutOptions, db : DbOptions, kind : Kinds,
     requests : SUBSET Requests, arrivals : SUBSET Arrivals, uses : SUBSET Uses,
     budget : Nat, codes : SUBSET Codes, calls : SUBSET Calls, queries : SUBSET Queries,
     errors : SUBSET SUBSET ErrorTraits, answers : 0..MaxAnswer,
     ids : SUBSET Ids, randomFails : BOOLEAN]

VARIABLES
  deployment,   \* the server
  ops           \* bound: what each handler has done

vars == <<deployment, ops, httpVars, outVars, dbVars, logVars>>

Init ==
  /\ deployment \in Deployments /\ ops = [x \in Requests |-> 0]
  /\ httpOpts = deployment.http /\ outOpts = deployment.out
  /\ dbOpts = deployment.db /\ kind = deployment.kind
  /\ HttpInit /\ OutInit /\ DbInit /\ LogInit

-----------------------------------------------------------------------------
Serves(x) ==
  /\ x \in deployment.requests
  /\ \/ \E a \in deployment.arrivals, refused \in SUBSET {"start"},
           fresh \in {x} \union (IF deployment.randomFails THEN {NoId} ELSE {}) :
           Begin(x, a, fresh, refused)
     \/ \E err \in {0} \union {c \in deployment.codes : c >= 400}, slow \in BOOLEAN,
           refused \in SUBSET {"complete", "error"}, c \in EndContexts(x) :
           ~InTrip(x) /\ ~InLogCall(x) /\ End(x, err, slow, refused, c)
     \/ Answer(x)
  /\ UNCHANGED <<deployment, ops, outVars, dbVars, logVars>>

(* The handler does one of the things it is given to do.                    *)
Op(x, use) ==
  /\ Handling(x) /\ ~InTrip(x) /\ ~InLogCall(x)
  /\ use \in deployment.uses /\ ops[x] < deployment.budget
  /\ ops' = [ops EXCEPT ![x] = @ + 1] /\ UNCHANGED deployment

Responding(x) ==
  /\ \/ /\ Op(x, "respond")
        /\ \/ \E code \in deployment.codes : WriteHeader(x, code)
           \/ \E len \in 0..2 : \E n \in 0..len : Write(x, len, n)
     \/ Op(x, "string") /\ \E n \in 0..1 : WriteString(x, 1, n)
     \/ Op(x, "copy") /\ \E n \in 0..1 : Copy(x, 1, n)
     \/ Op(x, "flush") /\ Flush(x)
     \/ Op(x, "hijack") /\ Hijack(x)
  /\ UNCHANGED <<outVars, dbVars, logVars>>

Reading(x)   == Op(x, "read") /\ ReadBody(x) /\ UNCHANGED <<outVars, dbVars, logVars>>
Panicking(x) == Op(x, "panic") /\ Panic(x) /\ UNCHANGED <<outVars, dbVars, logVars>>

Deriving(x) ==
  /\ Op(x, "derive") /\ UNCHANGED <<outVars, dbVars, logVars>>
  /\ \E id \in deployment.ids :
       \/ Derive(x, WithID(ctx[x], id), "renamed")
       \/ Derive(x, WithCorrelationID(ctx[x], id), "rebased")
       \/ Derive(x, OtelWithTrace(ctx[x], id), "traced")

Calling(x) ==
  /\ Op(x, "call") /\ UNCHANGED <<httpVars, dbVars, logVars>>
  /\ \E call \in deployment.calls, refused \in SUBSET {"start"} : RoundTrip(x, ctx[x], call, refused)

Querying(x) ==
  /\ UNCHANGED <<httpVars, outVars, logVars>>
  /\ \/ Op(x, "query") /\ \E q \in deployment.queries, allowed \in BOOLEAN : Trace(x, ctx[x], q, allowed)
     \/ Op(x, "mode") /\ \E l \in Levels : LogMode(x, l)

Logging(x) == Op(x, "log") /\ PrintLine(x, ctx[x]) /\ UNCHANGED <<httpVars, outVars, dbVars>>
Queuing(x) == up /\ Enqueue(x) /\ UNCHANGED <<deployment, ops, httpVars, outVars, dbVars>>

(* What goes on beside the handler.                                         *)
Returning(x) == up /\ Returns(x) /\ UNCHANGED <<deployment, ops, httpVars, dbVars, logVars>>

Peer(x) ==
  /\ up /\ UNCHANGED <<deployment, ops, httpVars, dbVars, logVars>>
  /\ \/ Transmit(x)
     \/ \E traits \in deployment.errors, refused \in SUBSET {"error"} : BaseFails(x, traits, refused)
     \/ \E status \in deployment.codes, slow \in BOOLEAN,
           textual \in IF deployment.answers > 0 THEN BOOLEAN ELSE {FALSE} :
           BaseAnswers(x, status, slow, textual)
     \/ answer[x].served < deployment.answers /\ Serve(x)
     \/ deployment.answers > 0 /\ \E how \in {"eof", "broken"} : ServerEnds(x, how)

Receiving(x) == up /\ ReadAnswer(x) /\ UNCHANGED <<deployment, ops, httpVars, dbVars, logVars>>

Changing ==
  /\ up /\ "change" \in deployment.uses /\ Change
  /\ UNCHANGED <<deployment, ops, httpVars, outVars, dbVars>>

Encoding == up /\ Encode /\ UNCHANGED <<deployment, ops, httpVars, outVars, dbVars>>

Next ==
  \/ Changing \/ Encoding
  \/ \E x \in Requests :
       \/ Serves(x) \/ Responding(x) \/ Reading(x) \/ Panicking(x) \/ Deriving(x)
       \/ Calling(x) \/ Querying(x) \/ Logging(x) \/ Queuing(x)
       \/ Returning(x) \/ Peer(x) \/ Receiving(x)

Spec == Init /\ [][Next]_vars

(* The goroutine in RoundTrip runs when it can.                             *)
FairSpec == Spec /\ \A x \in Requests : WF_vars(Returning(x))

-----------------------------------------------------------------------------
TypeOK ==
  /\ deployment \in Deployments /\ ops \in [Requests -> Nat]
  /\ HttpTypeOK /\ OutTypeOK /\ DbTypeOK /\ LogTypeOK

(* Of every so many successes in a row one is logged, by each sampler: the  *)
(* middleware's, whichever requests they were of; the transport's; and the  *)
(* GORM logger's.                                                           *)
SuccessesKept == HttpOneKept /\ OutOneKept /\ DbOneKept

(* No trouble goes untold, or is told as a success: of a request that       *)
(* failed or was slow, of a call that failed, was refused or was slow, and  *)
(* of a query that failed or was slow.  The samplers drop none of it.       *)
TroublesTold == TroubleIsTold /\ OutTroubleIsTold /\ DbTroubleIsTold

(* Capturing bodies for the log takes nothing from who reads them: the      *)
(* handler, the server called and the caller of the transport get every     *)
(* byte, and the failure after them if there was one.                       *)
BodiesArrive == BodyReplayed /\ BodiesDelivered

(* The ID a request is known by: the client's, its context's, or a new one  *)
(* (none if no random bytes were to be had).                                *)
KnownBy(x) ==
  IF arrival[x].header # NoId THEN {arrival[x].header}
  ELSE IF arrival[x].context.corr # NoId THEN {arrival[x].context.corr} ELSE {x, NoId}

(* Everything a request leaves behind is found under its ID: the lines of   *)
(* the middleware, the calls it makes on other services and the lines about *)
(* them, its queries and its own lines; whatever trace the handler joins    *)
(* on the way.                                                              *)
FoundUnderId ==
  \A x \in Requests :
    LET id == base[x].corr
    IN  phase[x] # "new" =>
          /\ id \in KnownBy(x)
          /\ used[x] \cap {"renamed", "rebased"} = {} =>
               /\ \A i \in DOMAIN httpLog[x] : httpLog[x][i].stamp.corr = id
               /\ trip[x].phase # "idle" => trip[x].header = id
               /\ \A i \in DOMAIN outLog[x] : outLog[x][i].stamp.corr = id
               /\ \A i \in DOMAIN dbLog[x] : dbLog[x][i].corr = id /\ dbLog[x][i].stamp.corr = id
               /\ InLogCall(x) => pending[x].stamp.corr = id
               /\ \A i \in DOMAIN lines : lines[i].by = x => lines[i].stamp.corr = id

(* A handler that goes on under another ID by logger.WithCorrelationID does *)
(* so everywhere at once: what is sent and what is logged agree.  (With     *)
(* correlation.WithID alone they do not.)                                   *)
IdsAgree ==
  \A x \in Requests :
    "renamed" \notin used[x] =>
      /\ \A i \in DOMAIN outLog[x] :
           /\ outLog[x][i].stamp.corr = trip[x].header
           /\ trip[x].header = Stamp(trip[x].ctx).corr
      /\ \A i \in DOMAIN dbLog[x] : dbLog[x][i].corr = dbLog[x][i].stamp.corr
==============================================================================
