------------------------------ MODULE GormTrace ------------------------------
(***************************************************************************)
(* The GORM logger: src/adapters/gormx/logger.go.  GORM calls Trace after  *)
(* every statement, with a callback that renders the SQL, which is costly. *)
(* LogMode gives a session a logger of another level, which shares the     *)
(* sampler with the one it was copied from.                                *)
(*                                                                         *)
(* Query type, table, rows and error text are left out, and ErrorDetailFunc*)
(* and the length limit of a statement with them.                          *)
(***************************************************************************)
EXTENDS Context, HttpLog

CONSTANTS
  DbOptions,    \* the ways the logger may be set up
  Queries       \* the outcomes of a query that may be traced

Silent == 1  Error == 2  Warn == 3  Info == 4
Levels == Silent..Info

ASSUME DbAssumption ==
  /\ DbOptions \subseteq
       [level : Levels, ignoreNotFound : BOOLEAN, logSuccess : BOOLEAN, every : Nat,
        hook : BOOLEAN, sql : SUBSET {"always", "error", "slow", "complete"}]
  /\ Queries \subseteq [err : {"none", "notfound", "failed"}, slow : BOOLEAN]

VARIABLES
  dbOpts,      \* Options, after normalizeOptions
  level,       \* per goroutine: the level of its session's logger
  dbLog,       \* per goroutine: the event logged for its last query, if any
  dbCounter,   \* the sampler
  dbLast,      \* history, per goroutine: its last query and what became of it
  dbRow        \* history: successes sampled out since one was kept

dbVars == <<dbOpts, level, dbLog, dbCounter, dbLast, dbRow>>

NoQuery == [query |-> [err |-> "none", slow |-> FALSE], ctx |-> Background,
            level |-> Silent, allowed |-> TRUE]

-----------------------------------------------------------------------------
LogMode(x, l) ==
  /\ l # level[x] /\ level' = [level EXCEPT ![x] = l]
  /\ UNCHANGED <<dbOpts, dbLog, dbCounter, dbLast, dbRow>>

(* What a logger of level l makes of a query: nothing, or an event.  A      *)
(* record that was not found is nothing, slow or not.                       *)
Outcome(l, q) ==
  IF l = Silent \/ (q.err = "notfound" /\ dbOpts.ignoreNotFound /\ l >= Error) THEN "none"
  ELSE IF q.err # "none" /\ l >= Error THEN "error"
  ELSE IF q.slow /\ l >= Warn THEN "slow"
  ELSE IF dbOpts.logSuccess /\ l >= Info THEN "complete" ELSE "none"

(* The sampler's view of it.                                                *)
TraceDecision(event) ==
  Decision(CASE event = "complete" -> "querycomplete" [] event = "slow" -> "queryslow"
             [] OTHER -> "queryerror",
           0, event = "error", event = "slow")

ShowsSql(event) == "always" \in dbOpts.sql \/ event \in dbOpts.sql

(* shouldLog: allowed is what the hook returns, TRUE without one.           *)
DbShouldLog(d, allowed) == ShouldKeep(dbOpts.every, d, dbCounter) /\ allowed

Trace(x, c, q, allowed) ==
  LET event == Outcome(level[x], q)
      d     == TraceDecision(event)
      told  == event # "none" /\ DbShouldLog(d, allowed)
  IN  /\ ~allowed => dbOpts.hook
      /\ dbLast' = [dbLast EXCEPT ![x] =
           [query |-> q, ctx |-> c, level |-> level[x], allowed |-> allowed]]
      /\ dbLog' = [dbLog EXCEPT ![x] =
           IF told
           THEN <<[event |-> event, corr |-> c.corr, stamp |-> Stamp(c), sql |-> ShowsSql(event)]>>
           ELSE <<>>]
      /\ IF event = "none" THEN UNCHANGED <<dbCounter, dbRow>>
         ELSE /\ dbCounter' = CounterAfter(dbOpts.every, d, dbCounter)
              /\ dbRow' = RowAfter(dbOpts.every, d, dbCounter, dbRow)
      /\ UNCHANGED <<dbOpts, level>>

DbInit ==
  /\ dbOpts \in DbOptions
  /\ level = [x \in Requests |-> dbOpts.level]
  /\ dbLog = [x \in Requests |-> <<>>] /\ dbLast = [x \in Requests |-> NoQuery]
  /\ dbCounter = 0 /\ dbRow = 0

-----------------------------------------------------------------------------
(* The variables hold what their comments say.                              *)
DbTypeOK ==
  /\ dbOpts \in DbOptions /\ level \in [Requests -> Levels]
  /\ \A x \in Requests :
       /\ Len(dbLog[x]) <= 1
       /\ \A i \in DOMAIN dbLog[x] :
            dbLog[x][i].event \in {"complete", "slow", "error"} /\ dbLog[x][i].stamp \in Meta
       /\ dbLast[x].query.err \in {"none", "notfound", "failed"} /\ dbLast[x].level \in Levels
  /\ dbCounter \in 0..(CounterSize - 1) /\ dbRow \in Nat

(* A query that failed, unless with no record found, or that was slow and   *)
(* did not fail is logged at the session's level unless the hook objects,   *)
(* and as what it was; the sampler never drops it.                          *)
DbTroubleIsTold ==
  \A x \in Requests :
    LET q == dbLast[x]
        Told(event) == Len(dbLog[x]) = 1 /\ dbLog[x][1].event = event
    IN  q.allowed =>
          /\ q.query.err = "failed" /\ q.level >= Error => Told("error")
          /\ q.query.err = "none" /\ q.query.slow /\ q.level >= Warn => Told("slow")

(* Of every dbOpts.every successes in a row one is logged, whichever        *)
(* sessions they were from.                                                 *)
DbOneKept == OneKept(dbOpts.every, dbRow)
==============================================================================
