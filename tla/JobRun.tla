-------------------------------- MODULE JobRun --------------------------------
(***************************************************************************)
(* The life of job runs, src/joblog: Start, Retry, the counts, and the end *)
(* by Complete or Fail (End calls one of them), from any goroutine.  Every *)
(* run has the options given to its Start, its sampling rate among them;   *)
(* the completions of all runs are sampled by one counter.                 *)
(*                                                                         *)
(* Time, identifiers and the attributes of an event are left out; an event *)
(* is its action and the counts it shows.                                  *)
(***************************************************************************)
EXTENDS Integers, Sequences

CONSTANTS
  Jobs,         \* the runs
  Callers,      \* the goroutines that call their methods
  NumCounts,    \* the counters of a run, numbered in the order Counts loads them
  Values,       \* what the application gives to SetCounts
  CounterSize,  \* jobCompleteSampleCounter wraps at this value, 2^64 in the code
  Spans,        \* the lengths of rows of completions to watch
  Loads         \* bound: what the application may do (see Load)

Terminal == {"job.completed", "job.failed"}
Actions  == Terminal \union {"job.started", "job.retry"}
Methods  == Actions \union {"add", "set"}

(* What Start is given: LogStart, LogComplete, LogFail and LogRetry as the  *)
(* actions logged, those the hook ShouldLog may turn down, and              *)
(* SuccessSampleEvery.                                                      *)
Options == [logged : SUBSET Actions, mayDrop : SUBSET Actions, every : Nat]
DefaultOptions == [logged |-> Actions, mayDrop |-> {}, every |-> 1]

(* The runs an application starts, the options it gives them, the goroutines *)
(* and the methods they call, and how many calls each of them makes.         *)
Load == [jobs : SUBSET Jobs, options : SUBSET Options,
         callers : SUBSET Callers, methods : SUBSET Methods, most : Nat]

ASSUME LoadsAssumption == Loads \subseteq Load
ASSUME SizesAssumption ==
  /\ NumCounts \in Nat \ {0} /\ Values \subseteq Int
  /\ CounterSize \in Nat \ {0} /\ Spans \subseteq Nat \ {0}

Fields == 1..NumCounts

VARIABLES
  load,     \* what this application does
  life,     \* per run: "new", "starting" inside Start, "started"
  opts,     \* per run: r.opts
  ended,    \* per run: r.ended
  counts,   \* per run: the atomic counters
  counter,  \* jobCompleteSampleCounter
  call,     \* per caller: the call it is in
  calls,    \* per caller: the calls it has made
  log,      \* per run: the events logged
  ender,    \* history: what ended the run, "none" before
  held,     \* history: the values each counter has had since the run ended
  row       \* history: per span, completions sampled out in a row (see Rows)

runVars  == <<life, opts, ended, counts, ender, held>>
logVars  == <<log, counter, row>>
vars     == <<load, call, calls, runVars, logVars>>

Idle == [pc |-> "idle"]

(* counter has counted the completions of earlier runs.                     *)
Init ==
  /\ load \in Loads /\ opts = [j \in Jobs |-> DefaultOptions]
  /\ life = [j \in Jobs |-> "new"] /\ ended = [j \in Jobs |-> FALSE]
  /\ counts = [j \in Jobs |-> [f \in Fields |-> 0]]
  /\ call = [c \in Callers |-> Idle] /\ calls = [c \in Callers |-> 0]
  /\ ender = [j \in Jobs |-> "none"]
  /\ held = [j \in Jobs |-> [f \in Fields |-> {}]]
  /\ log = [j \in Jobs |-> <<>>] /\ counter \in 0..(CounterSize - 1)
  /\ row = [e \in Spans |-> 0]

-----------------------------------------------------------------------------
(* A goroutine calls method a of run j, which returns at once if pc is      *)
(* "idle".  numbers are the counts to store, or those loaded so far.        *)
Call(c, j, a, pc, numbers) ==
  /\ call[c] = Idle /\ calls[c] < load.most /\ UNCHANGED load
  /\ c \in load.callers /\ j \in load.jobs /\ a \in load.methods
  /\ calls' = [calls EXCEPT ![c] = @ + 1]
  /\ call' = [call EXCEPT ![c] =
       IF pc = "idle" THEN Idle
       ELSE [pc |-> pc, job |-> j, action |-> a, numbers |-> numbers]]

Step(c, from, to) ==
  /\ call[c].pc = from
  /\ call' = [call EXCEPT ![c] = IF to = "idle" THEN Idle ELSE [@ EXCEPT !.pc = to]]
  /\ UNCHANGED <<load, calls>>

(* Where a call goes that is to log an event of run j.                      *)
Decide(j, a) == IF a \in opts[j].logged THEN "hook" ELSE "idle"

(* The run is the application's when Start has returned.                    *)
Start(c, j, o) ==
  /\ life[j] = "new"
  /\ Call(c, j, "job.started", IF "job.started" \in o.logged THEN "hook" ELSE "opened", <<>>)
  /\ life' = [life EXCEPT ![j] = "starting"] /\ opts' = [opts EXCEPT ![j] = o]
  /\ UNCHANGED <<ended, counts, ender, held, logVars>>

StartReturns(c) ==
  /\ Step(c, "opened", "idle") /\ life' = [life EXCEPT ![call[c].job] = "started"]
  /\ UNCHANGED <<opts, ended, counts, ender, held, logVars>>

Retry(c, j) ==
  /\ life[j] = "started" /\ Call(c, j, "job.retry", Decide(j, "job.retry"), <<>>)
  /\ UNCHANGED <<runVars, logVars>>

-----------------------------------------------------------------------------
(* r.ended.CompareAndSwap(false, true)                                      *)
MayEnd_Always(j) == TRUE
MayEnd(j) == ~ended[j]

EndRun(j, how) ==
  /\ life[j] = "started" /\ MayEnd(j)
  /\ ended' = [ended EXCEPT ![j] = TRUE] /\ ender' = [ender EXCEPT ![j] = how]
  /\ held' = [held EXCEPT ![j] = [f \in Fields |-> {counts[j][f]}]]
  /\ UNCHANGED <<life, opts, counts>>

(* The end of a run that has ended: nothing happens.                        *)
EndAgain(c, j) ==
  /\ life[j] = "started" /\ ~MayEnd(j) /\ Call(c, j, "job.failed", "idle", <<>>)
  /\ UNCHANGED <<runVars, logVars>>

(* A failure is not sampled.                                                *)
Fail(c, j, how) ==
  /\ EndRun(j, how) /\ Call(c, j, "job.failed", Decide(j, "job.failed"), <<>>)
  /\ UNCHANGED logVars

(* shouldKeepBySample: a completion is, unless it is slow.                  *)
Important_Never(how) == FALSE
Important(how) == how = "slow"

Complete(c, j, how) ==
  /\ EndRun(j, how)
  /\ Call(c, j, "job.completed",
          IF "job.completed" \in opts[j].logged /\ opts[j].every > 1 /\ ~Important(how)
            THEN "sample" ELSE Decide(j, "job.completed"), <<>>)
  /\ UNCHANGED logVars

(* n%every == 0                                                             *)
Kept_FirstOfEvery(n, every) == n % every = 1
Kept(n, every) == n % every = 0

(* The completions sampled out in a row of runs whose rate divides e: one   *)
(* that is kept ends the row, and so does one of a run with another rate.   *)
Rows(kept, every) ==
  [e \in Spans |-> IF kept \/ e % every # 0 THEN 0 ELSE row[e] + 1]

Sample(c) ==
  LET every == opts[call[c].job].every
  IN  /\ counter' = (counter + 1) % CounterSize
      /\ Step(c, "sample", IF Kept(counter', every) THEN "hook" ELSE "idle")
      /\ row' = Rows(Kept(counter', every), every)
      /\ UNCHANGED <<runVars, log>>

-----------------------------------------------------------------------------
(* Where the call goes when its event is logged or dropped.                 *)
After(c) == IF call[c].action = "job.started" THEN "opened" ELSE "idle"

HookDrops(c) ==
  /\ call[c].pc = "hook" /\ call[c].action \in opts[call[c].job].mayDrop
  /\ Step(c, "hook", After(c)) /\ UNCHANGED <<runVars, logVars>>

(* The hook allows the event, also by a panic; an event that ends the run   *)
(* shows the counts.                                                        *)
HookAllows(c) ==
  /\ call[c].pc = "hook"
  /\ Step(c, "hook", IF call[c].action \in Terminal THEN "load" ELSE "emit")
  /\ UNCHANGED <<runVars, logVars>>

(* Counts loads one counter after the other.                                *)
NextField(c) == Len(call[c].numbers) + 1

Loaded_FirstOnly(c) == counts[call[c].job][1]
Loaded(c) == counts[call[c].job][NextField(c)]

LoadCount(c) ==
  /\ call[c].pc = "load"
  /\ call' = [call EXCEPT ![c].numbers = Append(@, Loaded(c)),
                          ![c].pc = IF NextField(c) = NumCounts THEN "emit" ELSE "load"]
  /\ UNCHANGED <<load, calls, runVars, logVars>>

(* The error given to Fail panics when its event is built: the panic goes   *)
(* to the caller of Fail.                                                   *)
ErrorPanics(c) ==
  /\ call[c].pc = "emit" /\ call[c].action = "job.failed"
  /\ ender[call[c].job] = "panic"
  /\ Step(c, "emit", "idle") /\ UNCHANGED <<runVars, logVars>>

Emit(c) ==
  /\ call[c].pc = "emit"
  /\ ~(call[c].action = "job.failed" /\ ender[call[c].job] = "panic")
  /\ log' = [log EXCEPT ![call[c].job] =
       Append(@, [action |-> call[c].action, counts |-> call[c].numbers])]
  /\ Step(c, "emit", After(c)) /\ UNCHANGED <<runVars, counter, row>>

-----------------------------------------------------------------------------
(* An atomic counter of run j gets the value v.                             *)
SetCounter(j, f, v) ==
  /\ counts' = [counts EXCEPT ![j][f] = v]
  /\ held' = [held EXCEPT ![j][f] = IF ended[j] THEN @ \union {v} ELSE @]
  /\ UNCHANGED <<life, opts, ended, ender>>

(* AddProcessed, AddSucceeded, AddFailed, AddSkipped                        *)
AddCount(c, j, f) ==
  /\ life[j] = "started" /\ Call(c, j, "add", "idle", <<>>)
  /\ SetCounter(j, f, counts[j][f] + 1) /\ UNCHANGED logVars

(* SetCounts stores one counter after the other.                            *)
SetCounts(c, j, v) ==
  /\ life[j] = "started" /\ Call(c, j, "set", "store", [f \in Fields |-> v])
  /\ UNCHANGED <<runVars, logVars>>

StoreCount(c) ==
  /\ call[c].pc = "store"
  /\ LET left == call[c].numbers
     IN  /\ SetCounter(call[c].job, NumCounts + 1 - Len(left), Head(left))
         /\ call' = [call EXCEPT ![c] =
              IF Len(left) = 1 THEN Idle ELSE [@ EXCEPT !.numbers = Tail(left)]]
  /\ UNCHANGED <<load, calls, logVars>>

-----------------------------------------------------------------------------
(* The calls of an application, and what goes on inside them.               *)
Calls(c, j) ==
  \/ \E o \in load.options : Start(c, j, o)
  \/ Retry(c, j) \/ EndAgain(c, j)
  \/ \E how \in {"error", "panic"} : Fail(c, j, how)
  \/ \E how \in {"slow", "success"} : Complete(c, j, how)
  \/ \E f \in Fields : AddCount(c, j, f)
  \/ \E v \in Values : SetCounts(c, j, v)

Inside(c) ==
  \/ StartReturns(c) \/ Sample(c) \/ HookDrops(c) \/ HookAllows(c)
  \/ LoadCount(c) \/ ErrorPanics(c) \/ Emit(c) \/ StoreCount(c)

Next == \E c \in Callers : Inside(c) \/ \E j \in Jobs : Calls(c, j)

Spec == Init /\ [][Next]_vars

(* A call goes on: no method waits for anything.                            *)
FairSpec == Spec /\ \A c \in Callers : WF_vars(Inside(c))

-----------------------------------------------------------------------------
Steps == {"hook", "opened", "sample", "load", "emit", "store"}
Enders == {"none", "error", "panic", "slow", "success"}

TypeOK ==
  /\ load \in Loads /\ opts \in [Jobs -> Options]
  /\ life \in [Jobs -> {"new", "starting", "started"}]
  /\ ended \in [Jobs -> BOOLEAN]
  /\ counts \in [Jobs -> [Fields -> Int]]
  /\ counter \in 0..(CounterSize - 1) /\ row \in [Spans -> Nat]
  /\ call \in [Callers -> {Idle} \union
       [pc : Steps, job : Jobs, action : Methods, numbers : Seq(Int)]]
  /\ calls \in [Callers -> Nat]
  /\ log \in [Jobs -> Seq([action : Actions, counts : Seq(Int)])]
  /\ ender \in [Jobs -> Enders]
  /\ held \in [Jobs -> [Fields -> SUBSET Int]]

Ends(e) == e.action \in Terminal

(* The event that says how run j was ended.                                  *)
EndAction(j) ==
  IF ender[j] \in {"slow", "success"} THEN "job.completed" ELSE "job.failed"

(* A run has one end: whatever calls of End, Fail and Complete meet, one     *)
(* terminal event is logged at most, and it says how the run was ended.      *)
EndsOnce ==
  \A j \in Jobs : \A i \in DOMAIN log[j] : Ends(log[j][i]) =>
    /\ \A k \in DOMAIN log[j] : Ends(log[j][k]) => k = i
    /\ log[j][i].action = EndAction(j)

(* The counts in the event that ends a run are counts of that run: each was  *)
(* the value of its counter at some moment since the run ended, so that what *)
(* was added before the end is in it.                                        *)
CountsAreHeld ==
  \A j \in Jobs : \A i \in DOMAIN log[j] : Ends(log[j][i]) =>
    /\ Len(log[j][i].counts) = NumCounts
    /\ \A f \in Fields : log[j][i].counts[f] \in held[j][f]

(* Of e completions in a row that are not slow one is kept if e is a multiple *)
(* of the rates of their runs, whichever runs they are and also where the     *)
(* counter wraps.  One run kind with rate e among others with rates that do   *)
(* not divide e has no such promise: it may always meet the counter between   *)
(* two multiples of e.                                                        *)
OneOfEvery == \A e \in Spans : row[e] < e

(* "slow completed event must not be sampled out", and neither must a        *)
(* failure: such an end is logged, unless the hook drops it.                 *)
ImportantEndIsLogged ==
  \A j \in Jobs :
    (ender[j] \in {"slow", "error"}) ~> (\E i \in DOMAIN log[j] : Ends(log[j][i]))
-----------------------------------------------------------------------------
(* Caller c ended a run and is on its way to the event.                      *)
Ending(c) ==
  call[c].pc \in {"sample", "hook", "load", "emit"} /\ call[c].action \in Terminal

(* Only the call that ended a run logs its end.                              *)
OnlyEnding(c) ==
  /\ ended[call[c].job] /\ call[c].action = EndAction(call[c].job)
  /\ \A i \in DOMAIN log[call[c].job] : ~Ends(log[call[c].job][i])
  /\ \A d \in Callers : Ending(d) /\ call[d].job = call[c].job => d = c

OneEnding == \A c \in Callers : Ending(c) => OnlyEnding(c)

NotEnded ==
  \A j \in Jobs : ~ended[j] => \A i \in DOMAIN log[j] : ~Ends(log[j][i])

(* What was dropped in a row is at most what the counter has counted since   *)
(* it was a multiple of the span.                                            *)
RowCounted == \A e \in Spans : row[e] <= counter % e

(* A run that has not been started has not been ended, and nothing is called *)
(* on it; a completion is sampled at a rate above one.                       *)
Fresh ==
  /\ \A j \in Jobs : life[j] = "new" => ender[j] = "none"
  /\ \A c \in Callers : call[c] # Idle => life[call[c].job] # "new"
  /\ \A c \in Callers : call[c].pc = "sample" => opts[call[c].job].every > 1

(* The counts of a call, loaded or left to store, at each of its steps.      *)
CallShape ==
  \A c \in Callers :
    LET k == call[c]
    IN  /\ k.pc \in {"sample", "hook", "load", "emit"} => k.action \in Actions
        /\ k.pc \in {"sample", "hook"} => k.numbers = <<>>
        /\ k.pc = "load" => Len(k.numbers) < NumCounts
        /\ k.pc = "store" => Len(k.numbers) \in 1..NumCounts
        /\ k.pc = "emit" /\ k.action \in Terminal => Len(k.numbers) = NumCounts

(* The counts loaded so far, and those there now, are among the held ones.   *)
HeldSoFar ==
  /\ \A j \in Jobs : ended[j] => \A f \in Fields : counts[j][f] \in held[j][f]
  /\ \A c \in Callers : Ending(c) =>
       \A f \in 1..Len(call[c].numbers) : call[c].numbers[f] \in held[call[c].job][f]

(* What every step preserves.                                                *)
IInv ==
  /\ TypeOK /\ CallShape /\ RowCounted /\ Fresh
  /\ EndsOnce /\ OneEnding /\ NotEnded /\ HeldSoFar /\ CountsAreHeld

(* An end that must not be dropped is in the log, or its call is past the    *)
(* sampler on the way there.  (A failure whose error panics is lost.)        *)
EndTold(j) == \E i \in DOMAIN log[j] : Ends(log[j][i])
PastSampler(c) == Ending(c) /\ call[c].pc # "sample"

ImportantUnderWay ==
  \A j \in Jobs :
    ender[j] \in {"slow", "error"} /\ EndAction(j) \in opts[j].logged \ opts[j].mayDrop =>
      EndTold(j) \/ \E c \in Callers : PastSampler(c) /\ call[c].job = j
===============================================================================
