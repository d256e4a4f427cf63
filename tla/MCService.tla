------------------------------ MODULE MCService ------------------------------
(* Instances of Service for TLC: servers, each with a load that looks into  *)
(* one part of the library, or into several at once.                        *)
EXTENDS Service

CONSTANTS r1, r2, r3, idA, idB   \* requests, and IDs that come from elsewhere

-----------------------------------------------------------------------------
(* Options, to start from.                                                  *)
Http == [adapter |-> "nethttp", logs |-> Stages, hooks |-> {}, every |-> 0, slow |-> FALSE,
         limit |-> 2, requestBody |-> FALSE, responseBody |-> FALSE,
         errorBodies |-> FALSE, successBodies |-> FALSE]
NoHttp == [Http EXCEPT !.logs = {}]
HttpBodies == [Http EXCEPT !.requestBody = TRUE, !.responseBody = TRUE, !.errorBodies = TRUE]

Out == [logs |-> Stages, hooks |-> {}, every |-> 0, slow |-> FALSE, limit |-> 1,
        requestBody |-> FALSE, responseBody |-> FALSE, errorBodies |-> FALSE]
OutBodies == [Out EXCEPT !.requestBody = TRUE, !.responseBody = TRUE, !.errorBodies = TRUE,
                         !.hooks = Stages, !.slow = TRUE]

Db == [level |-> Info, ignoreNotFound |-> TRUE, logSuccess |-> TRUE, every |-> 0,
       hook |-> FALSE, sql |-> {"error", "slow"}]

Get     == [NoArrival EXCEPT !.trace = idB]
Post(n) == [NoArrival EXCEPT !.bytes = n, !.textual = TRUE]
Put     == [Post(1) EXCEPT !.fails = TRUE]
Known   == [NoArrival EXCEPT !.header = idA]
Nested  == [NoArrival EXCEPT !.context = WithID(Background, idA)]

Fetch   == [NoCall EXCEPT !.trace = idA]
Send(n) == [NoCall EXCEPT !.bytes = n, !.textual = TRUE]
Query(err, slow) == [err |-> err, slow |-> slow]

(* A server that does nothing.                                              *)
Idle == [http |-> NoHttp, out |-> [Out EXCEPT !.logs = {}], db |-> Db, kind |-> "scalar",
         requests |-> {r1}, arrivals |-> {Get}, uses |-> {}, budget |-> 3, codes |-> {500},
         calls |-> {NoCall}, queries |-> {Query("none", FALSE)}, ids |-> {idA},
         errors |-> {{}}, answers |-> 0, randomFails |-> FALSE]

-----------------------------------------------------------------------------
OfEach(options) == {[options EXCEPT !.adapter = ad] : ad \in Adapters}

(* Handlers that read and respond, with every wrapper.                      *)
RespondingHandlers ==
  {[Idle EXCEPT !.http = h, !.arrivals = {Post(3), Put}, !.uses = {"respond", "read"},
                !.codes = {500}, !.budget = 4] : h \in OfEach(HttpBodies)}

(* The unusual things handlers do.                                          *)
UnusualHandlers ==
  {[Idle EXCEPT !.http = h, !.uses = {"respond", "flush", "hijack", "string", "panic"},
                !.codes = {103, 404, 500}] :
     h \in OfEach([HttpBodies EXCEPT !.successBodies = TRUE, !.limit = 1])}

(* A handler that copies a file into its response.                          *)
Copying ==
  {[Idle EXCEPT !.http = h, !.uses = {"copy", "respond"}] : h \in OfEach(Http) \union {NoHttp}}

(* Hooks, stages that are off, and slow requests.                           *)
Deciding ==
  {[Idle EXCEPT !.http = h, !.uses = {"respond"}, !.codes = {404, 500}, !.budget = 1] :
     h \in UNION {OfEach([Http EXCEPT !.logs = l, !.hooks = Stages, !.slow = TRUE, !.every = 2]) :
                    l \in SUBSET Stages}}

(* Successes of three requests, with and without a hook.                    *)
SamplingOut ==
  {[Idle EXCEPT !.http = h, !.requests = {r1, r2, r3}, !.arrivals = {NoArrival}] :
     h \in UNION {OfEach([Http EXCEPT !.every = 2, !.hooks = k, !.logs = {"complete", "error"}]) :
                    k \in {{}, {"complete"}}}}

(* A call, to a server that answers at length.                              *)
CallingOut ==
  {[Idle EXCEPT !.out = OutBodies, !.uses = {"call"}, !.budget = 1, !.codes = {200, 404},
                !.errors = SUBSET ErrorTraits, !.answers = MaxAnswer,
                !.calls = {Send(2), [Send(1) EXCEPT !.fails = TRUE]}]}

CallingOften ==
  {[Idle EXCEPT !.out = [Out EXCEPT !.every = 2, !.hooks = k, !.logs = {"complete", "error"}],
                !.uses = {"call"}, !.requests = {r1, r2}, !.budget = 2, !.codes = {200, 404}] :
     k \in {{}, {"complete"}}}

(* Queries of every outcome, at every level.                                *)
AnyQuery == {Query(e, s) : e \in {"none", "notfound", "failed"}, s \in BOOLEAN}

QueryingDb ==
  {[Idle EXCEPT !.db = d, !.uses = {"query", "mode"}, !.queries = AnyQuery] :
     d \in {[Db EXCEPT !.every = 2, !.hook = TRUE, !.level = Warn],
            [Db EXCEPT !.ignoreNotFound = FALSE, !.logSuccess = FALSE]}}

QueryingOften ==
  {[Idle EXCEPT !.db = [Db EXCEPT !.every = 3, !.hook = h], !.uses = {"query"}, !.requests = {r1, r2},
                !.queries = {Query("none", FALSE), Query("failed", TRUE)}] : h \in BOOLEAN}

(* Lines about values that change: of one caller, or of two at a time.      *)
LoggingValues ==
  {[Idle EXCEPT !.kind = k, !.uses = {"log", "change"}, !.codes = {}, !.budget = 3] : k \in Kinds}

LoggingTogether == {[d EXCEPT !.requests = {r1, r2}, !.budget = 1] : d \in LoggingValues}

(* Requests under IDs of their own or not, that do a little of all.         *)
Correlating ==
  {[Idle EXCEPT !.http = [Http EXCEPT !.adapter = ad, !.logs = {"complete", "error"}],
                !.out = [Out EXCEPT !.logs = {"complete", "error"}],
                !.arrivals = {Get, Known, Nested}, !.uses = {"derive", "call", "query", "log"},
                !.calls = {Fetch}, !.codes = {404}, !.randomFails = TRUE] : ad \in Adapters}

CorrelatingTwo ==
  {[d EXCEPT !.requests = {r1, r2}, !.arrivals = {Get, Known}, !.budget = 1] : d \in Correlating}

-----------------------------------------------------------------------------
AllDeployments ==
  UNION {RespondingHandlers, UnusualHandlers, Copying, Deciding, SamplingOut, CallingOut, CallingOften, QueryingDb, QueryingOften,
         LoggingValues, LoggingTogether, Correlating, CorrelatingTwo}

MCHttpOptions == {d.http : d \in AllDeployments}
MCOutOptions  == {d.out : d \in AllDeployments}
MCDbOptions   == {d.db : d \in AllDeployments}
MCArrivals    == {Get, NoArrival, Post(3), Put, Known, Nested}
MCCalls       == {NoCall, Fetch, Send(2), [Send(1) EXCEPT !.fails = TRUE]}
MCKinds       == {"scalar", "map", "struct", "group", "valuer"}
MCCodes       == {103, 200, 404, 500}
==============================================================================
