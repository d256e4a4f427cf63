----------------------------- MODULE JobRunProofs -----------------------------
(***************************************************************************)
(* For any number of runs and goroutines, any sampling rates and any width *)
(* of the counter: a run is ended once, and of e completions in a row one  *)
(* is kept if the rates of their runs divide e.                            *)
(***************************************************************************)
EXTENDS JobRun, Remainders, TLAPS

-----------------------------------------------------------------------------
(* The types of a call, of the runs and of the log, as parts of TypeOK.       *)
CallRecords ==
  [pc : Steps, job : Jobs, action : Methods, numbers : Seq(Int)]

CallTypes ==
  /\ call \in [Callers -> {Idle} \union CallRecords]
  /\ calls \in [Callers -> Nat]

(* A caller at a step of a call has a call record.                           *)
LEMMA InCall ==
  ASSUME CallTypes, NEW c \in Callers, call[c].pc \in Steps
  PROVE  call[c] \in CallRecords
<1>1. call[c] # Idle
  BY DEF Idle, Steps
<1> QED
  BY <1>1 DEF CallTypes

(* A call made by the application is of the right type.                      *)
LEMMA CallIsTyped ==
  ASSUME CallTypes, NEW c \in Callers, NEW j \in Jobs,
         NEW a \in Methods, NEW pc \in Steps \union {"idle"},
         NEW numbers \in Seq(Int), Call(c, j, a, pc, numbers)
  PROVE  CallTypes'
<1>1. calls[c] + 1 \in Nat
  BY DEF CallTypes, Call
<1>2. calls' \in [Callers -> Nat]
  BY <1>1 DEF CallTypes, Call
<1>3. CASE pc = "idle"
  BY <1>2, <1>3 DEF CallTypes, Call
<1>4. CASE pc # "idle"
  <2>1. [pc |-> pc, job |-> j, action |-> a, numbers |-> numbers] \in CallRecords
    BY <1>4 DEF CallRecords
  <2> QED
    BY <1>2, <1>4, <2>1 DEF CallTypes, Call
<1> QED
  BY <1>3, <1>4

(* A step inside a call keeps it of the right type.                          *)
LEMMA StepIsTyped ==
  ASSUME CallTypes, NEW c \in Callers, NEW from \in Steps,
         NEW to \in Steps \union {"idle"}, Step(c, from, to)
  PROVE  CallTypes' /\ call[c] \in CallRecords
<1>1. call[c] \in CallRecords
  BY InCall DEF Step
<1>2. [call[c] EXCEPT !.pc = to] \in CallRecords \/ to = "idle"
  BY <1>1 DEF CallRecords
<1> QED
  BY <1>1, <1>2 DEF CallTypes, Step

-----------------------------------------------------------------------------
(* The invariant holds initially.                                            *)
LEMMA InitIInv == Init => IInv
<1> SUFFICES ASSUME Init PROVE IInv
  OBVIOUS
<1>1. TypeOK
  <2>1. /\ life \in [Jobs -> {"new", "starting", "started"}] /\ ended \in [Jobs -> BOOLEAN]
        /\ ender \in [Jobs -> Enders] /\ calls \in [Callers -> Nat]
        /\ load \in Loads
    BY DEF Init, Enders
  <2>a. opts \in [Jobs -> Options]
    BY DEF Init, DefaultOptions, Options
  <2>2. counts \in [Jobs -> [Fields -> Int]] /\ held \in [Jobs -> [Fields -> SUBSET Int]]
    BY DEF Init
  <2>3. log \in [Jobs -> Seq([action : Actions, counts : Seq(Int)])]
    BY DEF Init
  <2>4. counter \in 0..(CounterSize - 1) /\ row \in [Spans -> Nat]
    BY DEF Init
  <2>5. call \in [Callers -> {Idle} \union CallRecords]
    BY DEF Init
  <2> QED
    BY <2>1, <2>a, <2>2, <2>3, <2>4, <2>5 DEF TypeOK, CallRecords
<1>2. EndsOnce /\ NotEnded
  BY DEF Init, EndsOnce, NotEnded
<1>3. OneEnding
  BY DEF Init, OneEnding, OnlyEnding, Ending, Idle
<1>4. RowCounted
  <2>1. \A e \in Spans : counter % e \in Nat
    BY SizesAssumption DEF Init
  <2> QED
    BY <2>1 DEF Init, RowCounted
<1>8. Fresh
  BY DEF Init, Fresh, Idle
<1>5. CallShape
  BY DEF Init, CallShape, Idle
<1>6. HeldSoFar
  BY DEF Init, HeldSoFar, Ending, Idle
<1>7. CountsAreHeld
  BY DEF Init, CountsAreHeld
<1> QED
  BY <1>1, <1>2, <1>3, <1>4, <1>5, <1>6, <1>7, <1>8 DEF IInv

-----------------------------------------------------------------------------
RunTypes ==
  /\ opts \in [Jobs -> Options]
  /\ life \in [Jobs -> {"new", "starting", "started"}]
  /\ ended \in [Jobs -> BOOLEAN]
  /\ counts \in [Jobs -> [Fields -> Int]]
  /\ ender \in [Jobs -> Enders]
  /\ held \in [Jobs -> [Fields -> SUBSET Int]]

LogTypes ==
  /\ load \in Loads
  /\ counter \in 0..(CounterSize - 1) /\ row \in [Spans -> Nat]
  /\ log \in [Jobs -> Seq([action : Actions, counts : Seq(Int)])]

(* The types of the variables, by what changes together.                    *)
LEMMA TypesOfState == TypeOK <=> CallTypes /\ RunTypes /\ LogTypes
BY DEF TypeOK, CallTypes, CallRecords, RunTypes, LogTypes

(* The same for the state after a step.                                      *)
LEMMA TypesAfter == CallTypes' /\ RunTypes' /\ LogTypes' => TypeOK'
BY DEF TypeOK, CallTypes, CallRecords, RunTypes, LogTypes

(* The end of a run keeps the types of the runs.                             *)
LEMMA EndRunIsTyped ==
  ASSUME RunTypes, NEW j \in Jobs, NEW how \in Enders, EndRun(j, how)
  PROVE  RunTypes'
<1>1. ended' \in [Jobs -> BOOLEAN] /\ ender' \in [Jobs -> Enders] /\ UNCHANGED <<life, opts, counts>>
  BY DEF EndRun, RunTypes
<1>2. [f \in Fields |-> {counts[j][f]}] \in [Fields -> SUBSET Int]
  BY DEF RunTypes
<1>3. held' \in [Jobs -> [Fields -> SUBSET Int]]
  BY <1>2 DEF EndRun, RunTypes
<1> QED
  BY <1>1, <1>3 DEF RunTypes

(* A counter that gets a value keeps them too.                               *)
LEMMA SetCounterIsTyped ==
  ASSUME RunTypes, NEW j \in Jobs, NEW f \in Fields, NEW v \in Int, SetCounter(j, f, v)
  PROVE  RunTypes'
<1>1. counts' \in [Jobs -> [Fields -> Int]]
  BY DEF SetCounter, RunTypes
<1>2. held' \in [Jobs -> [Fields -> SUBSET Int]]
  BY DEF SetCounter, RunTypes
<1> QED
  BY <1>1, <1>2 DEF SetCounter, RunTypes

(* Every call of the application keeps the types.                            *)
LEMMA CallsTypeOK ==
  ASSUME TypeOK, NEW c \in Callers, NEW j \in Jobs, Calls(c, j)
  PROVE  TypeOK'
<1>0. CallTypes /\ RunTypes /\ LogTypes
  BY TypesOfState
<1>a. \A a \in Actions : Decide(j, a) \in Steps \union {"idle"}
  BY DEF Decide, Steps
<1>d. load' = load
  BY DEF Calls, Start, Retry, EndAgain, Fail, Complete, AddCount, SetCounts, Call
<1>b. <<>> \in Seq(Int)
  OBVIOUS
<1>c. {"job.started", "job.retry", "job.failed", "job.completed", "add", "set"} \subseteq Methods
      /\ Actions \subseteq Methods
      /\ {"job.started", "job.retry", "job.failed", "job.completed"} \subseteq Actions
  BY DEF Methods, Actions, Terminal
<1>1. ASSUME NEW o \in load.options, Start(c, j, o)
      PROVE  TypeOK'
  <2>a. o \in Options
    BY <1>0, LoadsAssumption DEF LogTypes, Load
  <2>1. CallTypes'
    BY <1>0, <1>1, <1>b, <1>c, CallIsTyped DEF Start, Steps
  <2>b. opts' \in [Jobs -> Options] /\ life' \in [Jobs -> {"new", "starting", "started"}]
    BY <1>0, <1>1, <2>a DEF Start, RunTypes
  <2>2. RunTypes' /\ LogTypes'
    BY <1>0, <1>1, <1>d, <2>b DEF Start, RunTypes, LogTypes, logVars
  <2> QED
    BY <2>1, <2>2, TypesAfter
<1>2. CASE Retry(c, j)
  <2>1. CallTypes'
    BY <1>0, <1>2, <1>a, <1>b, <1>c, CallIsTyped DEF Retry
  <2>2. RunTypes' /\ LogTypes'
    BY <1>0, <1>2, <1>d DEF Retry, RunTypes, LogTypes, logVars, runVars
  <2> QED
    BY <2>1, <2>2, TypesAfter
<1>3. CASE EndAgain(c, j)
  <2>1. CallTypes'
    BY <1>0, <1>3, <1>b, <1>c, CallIsTyped DEF EndAgain
  <2>2. RunTypes' /\ LogTypes'
    BY <1>0, <1>3, <1>d DEF EndAgain, RunTypes, LogTypes, logVars, runVars
  <2> QED
    BY <2>1, <2>2, TypesAfter
<1>4. ASSUME NEW how \in {"error", "panic"}, Fail(c, j, how)
      PROVE  TypeOK'
  <2>1. CallTypes'
    BY <1>0, <1>4, <1>a, <1>b, <1>c, CallIsTyped DEF Fail
  <2>2. RunTypes'
    BY <1>0, <1>4, EndRunIsTyped DEF Fail, Enders
  <2>3. LogTypes'
    BY <1>0, <1>4, <1>d DEF Fail, LogTypes, logVars
  <2> QED
    BY <2>1, <2>2, <2>3, TypesAfter
<1>5. ASSUME NEW how \in {"slow", "success"}, Complete(c, j, how)
      PROVE  TypeOK'
  <2>1. CallTypes'
    BY <1>0, <1>5, <1>a, <1>b, <1>c, CallIsTyped DEF Complete, Steps
  <2>2. RunTypes'
    BY <1>0, <1>5, EndRunIsTyped DEF Complete, Enders
  <2>3. LogTypes'
    BY <1>0, <1>5, <1>d DEF Complete, LogTypes, logVars
  <2> QED
    BY <2>1, <2>2, <2>3, TypesAfter
<1>6. ASSUME NEW f \in Fields, AddCount(c, j, f)
      PROVE  TypeOK'
  <2>1. CallTypes'
    BY <1>0, <1>6, <1>b, <1>c, CallIsTyped DEF AddCount
  <2>2. counts[j][f] + 1 \in Int
    BY <1>0 DEF RunTypes
  <2>3. RunTypes'
    BY <1>0, <1>6, <2>2, SetCounterIsTyped DEF AddCount
  <2>4. LogTypes'
    BY <1>0, <1>6, <1>d DEF AddCount, LogTypes, logVars
  <2> QED
    BY <2>1, <2>3, <2>4, TypesAfter
<1>7. ASSUME NEW v \in Values, SetCounts(c, j, v)
      PROVE  TypeOK'
  <2>1. [f \in Fields |-> v] \in Seq(Int)
    BY SizesAssumption DEF Fields
  <2>2. CallTypes'
    BY <1>0, <1>7, <1>c, <2>1, CallIsTyped DEF SetCounts, Steps
  <2>3. RunTypes' /\ LogTypes'
    BY <1>0, <1>7, <1>d DEF SetCounts, RunTypes, LogTypes, logVars, runVars
  <2> QED
    BY <2>2, <2>3, TypesAfter
<1> QED
  BY <1>1, <1>2, <1>3, <1>4, <1>5, <1>6, <1>7 DEF Calls

(* Every step inside a call keeps the types.                                 *)
LEMMA InsideTypeOK ==
  ASSUME TypeOK, CallShape, NEW c \in Callers, Inside(c)
  PROVE  TypeOK'
<1>0. CallTypes /\ RunTypes /\ LogTypes
  BY TypesOfState
<1>a. After(c) \in Steps \union {"idle"}
  BY DEF After, Steps
<1>d. load' = load
  BY DEF Inside, StartReturns, Sample, HookDrops, HookAllows, LoadCount, ErrorPanics, Emit,
         StoreCount, Step
<1>1. CASE StartReturns(c)
  <2>1. CallTypes' /\ call[c] \in CallRecords
    BY <1>0, <1>1, StepIsTyped DEF StartReturns, Steps
  <2>2. RunTypes'
    BY <1>0, <1>1, <2>1 DEF StartReturns, RunTypes, CallRecords
  <2>3. LogTypes'
    BY <1>0, <1>1, <1>d DEF StartReturns, LogTypes, logVars
  <2> QED
    BY <2>1, <2>2, <2>3, TypesAfter
<1>2. CASE Sample(c)
  <2>1. CallTypes'
    BY <1>0, <1>2, StepIsTyped DEF Sample, Steps
  <2>2. RunTypes'
    BY <1>0, <1>2 DEF Sample, RunTypes, runVars
  <2>3. counter' \in 0..(CounterSize - 1)
    BY <1>0, <1>2, SizesAssumption DEF Sample, LogTypes
  <2>4. row' \in [Spans -> Nat] /\ log' = log
    BY <1>0, <1>2 DEF Sample, Rows, LogTypes
  <2>5. LogTypes'
    BY <1>0, <1>d, <2>3, <2>4 DEF LogTypes
  <2> QED
    BY <2>1, <2>2, <2>5, TypesAfter
<1>3. CASE HookDrops(c)
  <2>1. CallTypes'
    BY <1>0, <1>3, <1>a, StepIsTyped DEF HookDrops, Steps
  <2>2. RunTypes' /\ LogTypes'
    BY <1>0, <1>3, <1>d DEF HookDrops, RunTypes, LogTypes, runVars, logVars
  <2> QED
    BY <2>1, <2>2, TypesAfter
<1>4. CASE HookAllows(c)
  <2>1. CallTypes'
    BY <1>0, <1>4, StepIsTyped DEF HookAllows, Steps
  <2>2. RunTypes' /\ LogTypes'
    BY <1>0, <1>4, <1>d DEF HookAllows, RunTypes, LogTypes, runVars, logVars
  <2> QED
    BY <2>1, <2>2, TypesAfter
<1>5. CASE LoadCount(c)
  <2>1. call[c] \in CallRecords
    BY <1>0, <1>5, InCall DEF LoadCount, Steps
  <2>a. NextField(c) \in Fields
    BY <1>5, <2>1, SizesAssumption DEF LoadCount, CallShape, CallRecords, NextField, Fields
  <2>2. Loaded(c) \in Int
    BY <1>0, <2>1, <2>a DEF Loaded, RunTypes, CallRecords
  <2>b. Append(call[c].numbers, Loaded(c)) \in Seq(Int)
    BY <2>1, <2>2 DEF CallRecords
  <2>c. \A to \in {"load", "emit"} :
          [call[c] EXCEPT !.numbers = Append(@, Loaded(c)), !.pc = to] \in CallRecords
    BY <2>1, <2>b DEF CallRecords, Steps
  <2>3. CallTypes'
    BY <1>0, <1>5, <2>c DEF LoadCount, CallTypes
  <2>4. RunTypes' /\ LogTypes'
    BY <1>0, <1>5, <1>d DEF LoadCount, RunTypes, LogTypes, runVars, logVars
  <2> QED
    BY <2>3, <2>4, TypesAfter
<1>6. CASE ErrorPanics(c)
  <2>1. CallTypes'
    BY <1>0, <1>6, StepIsTyped DEF ErrorPanics, Steps
  <2>2. RunTypes' /\ LogTypes'
    BY <1>0, <1>6, <1>d DEF ErrorPanics, RunTypes, LogTypes, runVars, logVars
  <2> QED
    BY <2>1, <2>2, TypesAfter
<1>7. CASE Emit(c)
  <2>1. CallTypes' /\ call[c] \in CallRecords
    BY <1>0, <1>7, <1>a, StepIsTyped DEF Emit, Steps
  <2>2. RunTypes' /\ UNCHANGED <<counter, row>>
    BY <1>0, <1>7 DEF Emit, RunTypes, runVars
  <2>3. call[c].action \in Actions
    BY <1>7 DEF Emit, CallShape
  <2> DEFINE e == [action |-> call[c].action, counts |-> call[c].numbers]
  <2>4. e \in [action : Actions, counts : Seq(Int)]
    BY <2>1, <2>3 DEF CallRecords
  <2>5. call[c].job \in Jobs
    BY <2>1 DEF CallRecords
  <2>6. log[call[c].job] \in Seq([action : Actions, counts : Seq(Int)])
    BY <1>0, <2>5 DEF LogTypes
  <2>7. Append(log[call[c].job], e) \in Seq([action : Actions, counts : Seq(Int)])
    BY <2>4, <2>6
  <2>8. log' = [log EXCEPT ![call[c].job] = Append(log[call[c].job], e)]
    BY <1>7 DEF Emit
  <2> HIDE DEF e
  <2>9. log' \in [Jobs -> Seq([action : Actions, counts : Seq(Int)])]
    BY <1>0, <2>7, <2>8 DEF LogTypes
  <2>10. LogTypes'
    BY <1>0, <1>d, <2>2, <2>9 DEF LogTypes
  <2> QED
    BY <2>1, <2>2, <2>10, TypesAfter
<1>8. CASE StoreCount(c)
  <2> DEFINE left == call[c].numbers
  <2>1. call[c] \in CallRecords
    BY <1>0, <1>8, InCall DEF StoreCount, Steps
  <2>2. left \in Seq(Int) /\ Len(left) \in 1..NumCounts
    BY <1>8, <2>1 DEF StoreCount, CallShape, CallRecords
  <2>3. Head(left) \in Int /\ Tail(left) \in Seq(Int)
    BY <2>2
  <2>4. NumCounts + 1 - Len(left) \in Fields
    BY <2>2, SizesAssumption DEF Fields
  <2>5. RunTypes'
    BY <1>0, <1>8, <2>1, <2>3, <2>4, SetCounterIsTyped DEF StoreCount, CallRecords
  <2>6. [call[c] EXCEPT !.numbers = Tail(left)] \in CallRecords
    BY <2>1, <2>3 DEF CallRecords
  <2>7. CallTypes' /\ LogTypes'
    BY <1>0, <1>8, <1>d, <2>6 DEF StoreCount, CallTypes, LogTypes, logVars
  <2> QED
    BY <2>5, <2>7, TypesAfter
<1> QED
  BY <1>1, <1>2, <1>3, <1>4, <1>5, <1>6, <1>7, <1>8 DEF Inside

-----------------------------------------------------------------------------
(* The counts of every call keep their shape.                                *)
LEMMA CallShapeKept ==
  ASSUME TypeOK, CallShape, [Next]_vars
  PROVE  CallShape'
<1>0. CallTypes
  BY TypesOfState
<1>1. ASSUME NEW c \in Callers, NEW j \in Jobs, Calls(c, j)
      PROVE  CallShape'
  <2>1. PICK a \in Methods,
             pc \in {"idle", "hook", "opened", "sample", "store"}, numbers \in Seq(Int) :
          /\ Call(c, j, a, pc, numbers)
          /\ pc = "store" => Len(numbers) = NumCounts
          /\ pc \in {"hook", "sample"} => a \in Actions /\ numbers = <<>>
    <3>a. \A b : Decide(j, b) \in {"hook", "idle"}
      BY DEF Decide
    <3>b. \A v \in Values : [f \in Fields |-> v] \in Seq(Int) /\ Len([f \in Fields |-> v]) = NumCounts
      BY SizesAssumption DEF Fields
    <3>c. /\ {"job.started", "job.retry", "job.failed", "job.completed"} \subseteq Actions
          /\ Actions \union {"add", "set"} \subseteq Methods
      BY DEF Methods, Actions, Terminal
    <3>d. <<>> \in Seq(Int)
      OBVIOUS
    <3>1. CASE \E o \in load.options : Start(c, j, o)
      BY <3>1, <3>d, <3>c DEF Start
    <3>2. CASE Retry(c, j)
      BY <3>2, <3>d, <3>a, <3>c DEF Retry
    <3>3. CASE EndAgain(c, j)
      BY <3>3, <3>d, <3>c DEF EndAgain
    <3>4. CASE \E how \in {"error", "panic"} : Fail(c, j, how)
      BY <3>4, <3>d, <3>a, <3>c DEF Fail
    <3>5. CASE \E how \in {"slow", "success"} : Complete(c, j, how)
      BY <3>5, <3>d, <3>a, <3>c DEF Complete
    <3>6. CASE \E f \in Fields : AddCount(c, j, f)
      BY <3>6, <3>c, <3>d DEF AddCount
    <3>7. CASE \E v \in Values : SetCounts(c, j, v)
      BY <3>7, <3>b, <3>c DEF SetCounts
    <3> QED
      BY <1>1, <3>1, <3>2, <3>3, <3>4, <3>5, <3>6, <3>7 DEF Calls
  <2>2. \A d \in Callers : d # c => call'[d] = call[d]
    BY <1>0, <2>1 DEF Call, CallTypes
  <2>3. call'[c] = Idle \/ call'[c] = [pc |-> pc, job |-> j, action |-> a, numbers |-> numbers]
    BY <1>0, <2>1 DEF Call, CallTypes
  <2> QED
    BY <2>1, <2>2, <2>3, SizesAssumption DEF CallShape, Idle
<1>2. ASSUME NEW c \in Callers, Inside(c)
      PROVE  CallShape'
  <2>1. \A d \in Callers : d # c => call'[d] = call[d]
    BY <1>0, <1>2 DEF Inside, StartReturns, Sample, HookDrops, HookAllows, LoadCount,
         ErrorPanics, Emit, StoreCount, Step, CallTypes
  <2>2. CASE StartReturns(c) \/ HookDrops(c) \/ ErrorPanics(c) \/ Emit(c)
    <3>1. call'[c] = Idle \/ call'[c] = [call[c] EXCEPT !.pc = "opened"]
      BY <1>0, <2>2 DEF StartReturns, HookDrops, ErrorPanics, Emit, Step, After, CallTypes
    <3>2. call[c] \in CallRecords
      BY <1>0, <2>2, InCall DEF StartReturns, HookDrops, ErrorPanics, Emit, Step, Steps
    <3>3. call'[c].pc \in {"idle", "opened"}
      BY <3>1, <3>2 DEF Idle, CallRecords
    <3> QED
      BY <2>1, <3>3 DEF CallShape
  <2>3. CASE Sample(c) \/ HookAllows(c)
    <3>1. call[c] \in CallRecords /\ call[c].pc \in {"sample", "hook"}
      BY <1>0, <2>3, InCall DEF Sample, HookAllows, Step, Steps
    <3>2. call'[c] = Idle
            \/ /\ call'[c] = [call[c] EXCEPT !.pc = "hook"]
            \/ /\ call'[c] = [call[c] EXCEPT !.pc = "load"]
            \/ /\ call'[c] = [call[c] EXCEPT !.pc = "emit"] /\ call[c].action \notin Terminal
      BY <1>0, <2>3 DEF Sample, HookAllows, Step, CallTypes
    <3>3. call[c].action \in Actions /\ call[c].numbers = <<>>
      BY <3>1 DEF CallShape
    <3> QED
      BY <2>1, <3>1, <3>2, <3>3, SizesAssumption DEF CallShape, Idle, CallRecords
  <2>4. CASE LoadCount(c)
    <3>1. call[c] \in CallRecords /\ call[c].pc = "load"
      BY <1>0, <2>4, InCall DEF LoadCount, Steps
    <3>2. /\ call'[c].numbers = Append(call[c].numbers, Loaded(c))
          /\ call'[c].pc = IF NextField(c) = NumCounts THEN "emit" ELSE "load"
          /\ call'[c].action = call[c].action
      BY <1>0, <2>4, <3>1 DEF LoadCount, CallTypes, CallRecords
    <3>3. Len(call'[c].numbers) = NextField(c) /\ NextField(c) <= NumCounts /\ NextField(c) \in Nat
      BY <3>1, <3>2, SizesAssumption DEF NextField, CallShape, CallRecords
    <3>4. call[c].action \in Actions
      BY <3>1 DEF CallShape
    <3> QED
      BY <2>1, <3>2, <3>3, <3>4, SizesAssumption DEF CallShape
  <2>5. CASE StoreCount(c)
    <3>1. call[c] \in CallRecords /\ call[c].pc = "store"
      BY <1>0, <2>5, InCall DEF StoreCount, Steps
    <3>2. Len(call[c].numbers) \in 1..NumCounts /\ call[c].numbers \in Seq(Int)
      BY <3>1 DEF CallShape, CallRecords
    <3>3. call'[c] = IF Len(call[c].numbers) = 1 THEN Idle
                     ELSE [call[c] EXCEPT !.numbers = Tail(call[c].numbers)]
      BY <1>0, <2>5 DEF StoreCount, CallTypes
    <3>4. Len(call[c].numbers) # 1 =>
            Len(Tail(call[c].numbers)) \in 1..NumCounts
      <4>1. call[c].numbers # <<>>
        BY <3>2
      <4>2. Len(Tail(call[c].numbers)) = Len(call[c].numbers) - 1
        BY <3>2, <4>1
      <4>3. \A n \in 1..NumCounts : n # 1 => n - 1 \in 1..NumCounts
        BY SizesAssumption
      <4> QED
        BY <3>2, <4>2, <4>3, Zenon
    <3> QED
      BY <2>1, <3>1, <3>3, <3>4 DEF CallShape, Idle, CallRecords
  <2> QED
    BY <1>2, <2>2, <2>3, <2>4, <2>5 DEF Inside
<1>3. CASE UNCHANGED vars
  BY <1>3 DEF vars, CallShape
<1> QED
  BY <1>1, <1>2, <1>3 DEF Next

-----------------------------------------------------------------------------
(* The parts of the invariant that speak of the end of a run.                 *)
Shapes == EndsOnce /\ OneEnding /\ NotEnded /\ HeldSoFar /\ CountsAreHeld

(* The calls on the way to the end of a run, and their counts, are as before *)
(* or have gone.                                                             *)
NoNewEnding ==
  \A c \in Callers : Ending(c)' =>
    /\ Ending(c) /\ call'[c].job = call[c].job
    /\ call'[c].action = call[c].action /\ call'[c].numbers = call[c].numbers

(* Such a step that neither ends a run nor logs keeps the shapes.            *)
LEMMA QuietStep ==
  ASSUME IInv, NoNewEnding, UNCHANGED <<ended, counts, ender, held, log>>
  PROVE  Shapes'
<1> USE DEF IInv
<1>1. EndsOnce' /\ NotEnded' /\ CountsAreHeld'
  BY DEF EndsOnce, NotEnded, CountsAreHeld, Ends, EndAction
<1>2. OneEnding'
  BY DEF OneEnding, OnlyEnding, NoNewEnding, EndAction
<1>3. HeldSoFar'
  BY DEF HeldSoFar, NoNewEnding
<1> QED
  BY <1>1, <1>2, <1>3 DEF Shapes

(* A call that does not end a run adds no call that does.                    *)
LEMMA NoEndingCall ==
  ASSUME TypeOK, NEW c \in Callers, NEW j, NEW a, NEW pc, NEW numbers,
         Call(c, j, a, pc, numbers),
         a \notin Terminal \/ pc \notin {"sample", "hook", "load", "emit"}
  PROVE  NoNewEnding
<1>1. \A d \in Callers : d # c => call'[d] = call[d]
  BY DEF Call, TypeOK
<1>2. call'[c] = Idle \/ call'[c] = [pc |-> pc, job |-> j, action |-> a, numbers |-> numbers]
  BY DEF Call, TypeOK
<1>3. ~Ending(c)'
  BY <1>2 DEF Ending, Idle
<1> QED
  BY <1>1, <1>3 DEF NoNewEnding, Ending

(* A step from one point of a call to another adds no such call either.      *)
LEMMA NoEndingStep ==
  ASSUME TypeOK, NEW c \in Callers, NEW from \in Steps, NEW to \in Steps \union {"idle"},
         Step(c, from, to),
         from \in {"sample", "hook", "load", "emit"} \/ to \in {"idle", "opened", "store"}
  PROVE  NoNewEnding
<1>0. CallTypes
  BY TypesOfState
<1>1. call[c] \in CallRecords /\ call[c].pc = from
  BY <1>0, InCall DEF Step
<1>2. \A d \in Callers : d # c => call'[d] = call[d]
  BY <1>0 DEF Step, CallTypes
<1>3. call'[c] = IF to = "idle" THEN Idle ELSE [call[c] EXCEPT !.pc = to]
  BY <1>0 DEF Step, CallTypes
<1>4. Ending(c)' => /\ Ending(c) /\ call'[c].job = call[c].job
                    /\ call'[c].action = call[c].action /\ call'[c].numbers = call[c].numbers
  BY <1>1, <1>3 DEF Ending, Idle, CallRecords
<1> QED
  BY <1>2, <1>4 DEF NoNewEnding, Ending

(* The call that ends a run is the only one on its way to the event.         *)
LEMMA EndingCall ==
  ASSUME IInv, NEW c \in Callers, NEW j \in Jobs, NEW a \in Terminal, NEW pc, NEW how,
         Call(c, j, a, pc, <<>>), EndRun(j, how), UNCHANGED log,
         a = IF how \in {"slow", "success"} THEN "job.completed" ELSE "job.failed"
  PROVE  Shapes'
<1>0. TypeOK /\ ~ended[j]
  BY DEF IInv, EndRun, MayEnd
<1>1. \A d \in Callers : d # c => call'[d] = call[d]
  BY <1>0 DEF Call, TypeOK
<1>2. call'[c] = Idle \/ call'[c] = [pc |-> pc, job |-> j, action |-> a, numbers |-> <<>>]
  BY <1>0 DEF Call, TypeOK
<1>3. \A d \in Callers : Ending(d) => call[d].job # j /\ call[d].job \in Jobs
  BY <1>0, InCall, TypesOfState DEF IInv, OneEnding, OnlyEnding, Ending, Steps, CallRecords
<1>4. /\ ended' = [ended EXCEPT ![j] = TRUE] /\ ender' = [ender EXCEPT ![j] = how]
      /\ held' = [held EXCEPT ![j] = [f \in Fields |-> {counts[j][f]}]] /\ counts' = counts
  BY DEF EndRun
<1>5. \A i \in DOMAIN log[j] : ~Ends(log[j][i])
  BY <1>0 DEF IInv, NotEnded
<1>6. /\ \A k \in Jobs : k # j => ended'[k] = ended[k] /\ ender'[k] = ender[k] /\ held'[k] = held[k]
      /\ ended'[j] /\ ender'[j] = how /\ held'[j] = [f \in Fields |-> {counts[j][f]}]
  BY <1>0, <1>4 DEF TypeOK
<1>7. EndsOnce'
  BY <1>5, <1>6 DEF IInv, EndsOnce, Ends, EndAction
<1>8. NotEnded'
  BY <1>5, <1>6 DEF IInv, NotEnded, Ends
<1>9. CountsAreHeld'
  BY <1>5, <1>6 DEF IInv, CountsAreHeld, Ends
<1>10. \A d \in Callers : Ending(d)' =>
         \/ d # c /\ Ending(d)
         \/ d = c /\ call'[c].job = j /\ call'[c].action = a /\ call'[c].numbers = <<>>
  BY <1>1, <1>2 DEF Ending, Idle
<1>11. OneEnding'
  BY <1>1, <1>3, <1>5, <1>6, <1>10 DEF IInv, OneEnding, OnlyEnding, Ends, EndAction
<1>12. HeldSoFar'
  BY <1>1, <1>3, <1>4, <1>6, <1>10 DEF IInv, HeldSoFar
<1> QED
  BY <1>7, <1>8, <1>9, <1>11, <1>12 DEF Shapes

(* A call on its way to the end of a run has no more counts than there are.  *)
LEMMA EndingCounts ==
  ASSUME TypeOK, CallShape, NEW c \in Callers, Ending(c)
  PROVE  /\ call[c].job \in Jobs
         /\ \A f \in 1..Len(call[c].numbers) : f \in Fields
<1>0. CallTypes
  BY TypesOfState
<1>1. call[c] \in CallRecords
  BY <1>0, InCall DEF Ending, Steps
<1>2. call[c].numbers \in Seq(Int) /\ call[c].job \in Jobs
  BY <1>1 DEF CallRecords
<1>3. CASE call[c].pc \in {"sample", "hook"}
  BY <1>2, <1>3 DEF CallShape
<1>4. CASE call[c].pc = "load"
  BY <1>2, <1>4, SizesAssumption DEF CallShape, Fields
<1>5. CASE call[c].pc = "emit"
  BY <1>2, <1>5, SizesAssumption DEF CallShape, Fields, Ending
<1> QED
  BY <1>2, <1>3, <1>4, <1>5 DEF Ending

(* Loading a count adds a value that is held now.                            *)
LEMMA LoadKeepsShapes ==
  ASSUME IInv, NEW c \in Callers, LoadCount(c)
  PROVE  Shapes'
<1>0. CallTypes /\ RunTypes
  BY TypesOfState DEF IInv
<1>1. call[c] \in CallRecords /\ call[c].pc = "load" /\ Len(call[c].numbers) < NumCounts
  BY <1>0, InCall DEF LoadCount, Steps, IInv, CallShape
<1>2. /\ call'[c].numbers = Append(call[c].numbers, Loaded(c)) /\ call'[c].job = call[c].job
      /\ call'[c].action = call[c].action /\ call'[c].pc \in {"load", "emit"}
      /\ \A d \in Callers : d # c => call'[d] = call[d]
  BY <1>0, <1>1 DEF LoadCount, CallTypes, CallRecords
<1>3. UNCHANGED <<ended, counts, ender, held, log>>
  BY DEF LoadCount, runVars, logVars
<1>4. \A d \in Callers : Ending(d)' =>
        Ending(d) /\ call'[d].job = call[d].job /\ call'[d].action = call[d].action
  BY <1>1, <1>2 DEF Ending
<1>5. EndsOnce' /\ NotEnded' /\ CountsAreHeld'
  BY <1>3 DEF IInv, EndsOnce, NotEnded, CountsAreHeld, Ends, EndAction
<1>6. OneEnding'
  BY <1>3, <1>4 DEF IInv, OneEnding, OnlyEnding, Ends, EndAction
<1>7. ASSUME Ending(c), NEW f \in 1..Len(call'[c].numbers)
      PROVE  call'[c].numbers[f] \in held[call[c].job][f]
  <2>1. call[c].numbers \in Seq(Int) /\ call[c].job \in Jobs
    BY <1>1 DEF CallRecords
  <2>2. CASE f \in 1..Len(call[c].numbers)
    BY <1>2, <1>7, <2>1, <2>2 DEF IInv, HeldSoFar
  <2>3. CASE f \notin 1..Len(call[c].numbers)
    <3>1. f = Len(call[c].numbers) + 1 /\ f \in Fields
      BY <1>1, <1>2, <1>7, <2>1, <2>3, SizesAssumption DEF Fields
    <3>2. call'[c].numbers[f] = counts[call[c].job][f]
      BY <1>2, <2>1, <3>1 DEF Loaded, NextField
    <3>3. ended[call[c].job]
      BY <1>7 DEF IInv, OneEnding, OnlyEnding
    <3> QED
      BY <2>1, <3>1, <3>2, <3>3 DEF IInv, HeldSoFar
  <2> QED
    BY <2>2, <2>3
<1>8. HeldSoFar'
  BY <1>2, <1>3, <1>4, <1>7 DEF IInv, HeldSoFar
<1> QED
  BY <1>5, <1>6, <1>8 DEF Shapes

(* A counter that gets a value holds it from now on.                         *)
LEMMA SetCounterKeepsShapes ==
  ASSUME IInv, NoNewEnding, UNCHANGED log,
         NEW j \in Jobs, NEW f \in Fields, NEW v, SetCounter(j, f, v)
  PROVE  Shapes'
<1>0. RunTypes
  BY TypesOfState DEF IInv
<1>1. UNCHANGED <<ended, ender>>
  BY DEF SetCounter
<1>2. \A k \in Jobs : \A g \in Fields :
        /\ held[k][g] \subseteq held'[k][g]
        /\ ended[k] /\ counts[k][g] \in held[k][g] => counts'[k][g] \in held'[k][g]
  BY <1>0 DEF SetCounter, RunTypes
<1>3. EndsOnce' /\ NotEnded' /\ OneEnding'
  <2>1. EndsOnce'
    BY <1>1 DEF IInv, EndsOnce, Ends, EndAction
  <2>2. NotEnded'
    BY <1>1 DEF IInv, NotEnded, Ends
  <2>3. OneEnding'
    BY <1>1 DEF IInv, OneEnding, OnlyEnding, NoNewEnding, EndAction
  <2> QED
    BY <2>1, <2>2, <2>3
<1>4. CountsAreHeld'
  BY <1>2 DEF IInv, CountsAreHeld
<1>5. ASSUME NEW c \in Callers, Ending(c), NEW g \in 1..Len(call[c].numbers)
      PROVE  call[c].job \in Jobs /\ g \in Fields
  BY <1>5, EndingCounts DEF IInv
<1>6. HeldSoFar'
  BY <1>1, <1>2, <1>5 DEF IInv, HeldSoFar, NoNewEnding
<1> QED
  BY <1>3, <1>4, <1>6 DEF Shapes

(* The event of a call that ended its run is the one end in the log of it.   *)
LEMMA EmitKeepsShapes ==
  ASSUME IInv, NEW c \in Callers, Emit(c)
  PROVE  Shapes'
<1> DEFINE j == call[c].job
           e == [action |-> call[c].action, counts |-> call[c].numbers]
<1>0. TypeOK /\ CallTypes /\ LogTypes
  BY TypesOfState DEF IInv
<1>1. call[c] \in CallRecords /\ call[c].pc = "emit" /\ j \in Jobs
  BY <1>0, InCall DEF Emit, Steps, CallRecords
<1>2. UNCHANGED <<ended, counts, ender, held>>
  BY DEF Emit, runVars
<1>3. NoNewEnding /\ ~Ending(c)'
  <2>1. After(c) \in {"idle", "opened"}
    BY DEF After
  <2>2. NoNewEnding
    BY <1>0, <2>1, NoEndingStep DEF Emit, Steps
  <2>3. call'[c] = Idle \/ call'[c] = [call[c] EXCEPT !.pc = "opened"]
    BY <1>0, <2>1 DEF Emit, Step, CallTypes
  <2> QED
    BY <1>1, <2>2, <2>3 DEF Ending, Idle, CallRecords
<1>4. /\ \A k \in Jobs : k # j => log'[k] = log[k]
      /\ log'[j] = Append(log[j], e) /\ log[j] \in Seq([action : Actions, counts : Seq(Int)])
  BY <1>0, <1>1 DEF Emit, LogTypes
<1>5. /\ DOMAIN log'[j] = DOMAIN log[j] \union {Len(log[j]) + 1}
      /\ \A i \in DOMAIN log[j] : log'[j][i] = log[j][i] /\ i # Len(log[j]) + 1
      /\ log'[j][Len(log[j]) + 1] = e
  <2> HIDE DEF j, e
  <2>1. DOMAIN log[j] = 1..Len(log[j]) /\ Len(log[j]) \in Nat
    BY <1>4
  <2>2. DOMAIN log'[j] = 1..(Len(log[j]) + 1)
    BY <1>4, <2>1
  <2>3. \A i \in 1..Len(log[j]) : log'[j][i] = log[j][i]
    BY <1>4, <2>1
  <2>4. log'[j][Len(log[j]) + 1] = e
    BY <1>4, <2>1
  <2> QED
    BY <2>1, <2>2, <2>3, <2>4
<1>6. e.action = call[c].action /\ e.counts = call[c].numbers
  OBVIOUS
<1>7. CASE call[c].action \notin Terminal
  <2>1. ~Ends(e)
    BY <1>6, <1>7 DEF Ends
  <2> HIDE DEF j, e
  <2>a. \A k \in Jobs : \A i \in DOMAIN log'[k] : Ends(log'[k][i]) =>
          i \in DOMAIN log[k] /\ log'[k][i] = log[k][i]
    BY <1>4, <1>5, <2>1
  <2>2. EndsOnce'
    <3> SUFFICES ASSUME NEW k \in Jobs, NEW i \in DOMAIN log'[k], Ends(log'[k][i])
                 PROVE  /\ \A n \in DOMAIN log'[k] : Ends(log'[k][n]) => n = i
                        /\ log'[k][i].action = EndAction(k)'
      BY DEF EndsOnce, Ends
    <3>1. i \in DOMAIN log[k] /\ Ends(log[k][i]) /\ log'[k][i] = log[k][i]
      BY <2>a
    <3>2. \A n \in DOMAIN log[k] : Ends(log[k][n]) => n = i
      BY <3>1 DEF IInv, EndsOnce
    <3>3. log[k][i].action = EndAction(k)
      BY <3>1 DEF IInv, EndsOnce
    <3>4. EndAction(k)' = EndAction(k)
      BY <1>2 DEF EndAction
    <3> QED
      BY <2>a, <3>1, <3>2, <3>3, <3>4
  <2>3. NotEnded'
    BY <1>2, <1>4, <1>5, <2>1 DEF IInv, NotEnded, Ends
  <2>4. OneEnding'
    <3> SUFFICES ASSUME NEW d \in Callers, Ending(d)'
                 PROVE  OnlyEnding(d)'
      BY DEF OneEnding
    <3>1. Ending(d) /\ call'[d].job = call[d].job /\ call'[d].action = call[d].action
      BY <1>3 DEF NoNewEnding
    <3>2. /\ ended[call[d].job] /\ call[d].action = EndAction(call[d].job)
          /\ \A i \in DOMAIN log[call[d].job] : ~Ends(log[call[d].job][i])
          /\ \A b \in Callers : Ending(b) /\ call[b].job = call[d].job => b = d
      BY <3>1 DEF IInv, OneEnding, OnlyEnding
    <3>3. call[d].job \in Jobs
      BY <1>0, <3>1, EndingCounts DEF IInv
    <3>4. \A i \in DOMAIN log'[call[d].job] : ~Ends(log'[call[d].job][i])
      BY <2>a, <3>2, <3>3
    <3>5. \A b \in Callers : Ending(b)' => Ending(b) /\ call'[b].job = call[b].job
      BY <1>3 DEF NoNewEnding
    <3> QED
      BY <1>2, <3>1, <3>2, <3>4, <3>5 DEF OnlyEnding, EndAction
  <2>5. CountsAreHeld'
    <3> SUFFICES ASSUME NEW k \in Jobs, NEW i \in DOMAIN log'[k], Ends(log'[k][i])
                 PROVE  /\ Len(log'[k][i].counts) = NumCounts
                        /\ \A f \in Fields : log'[k][i].counts[f] \in held'[k][f]
      BY DEF CountsAreHeld, Ends
    <3>1. i \in DOMAIN log[k] /\ Ends(log[k][i]) /\ log'[k][i] = log[k][i]
      BY <2>a
    <3> QED
      BY <1>2, <3>1 DEF IInv, CountsAreHeld
  <2>6. HeldSoFar'
    BY <1>2, <1>3 DEF IInv, HeldSoFar, NoNewEnding
  <2> QED
    BY <2>2, <2>3, <2>4, <2>5, <2>6 DEF Shapes
<1>8. CASE call[c].action \in Terminal
  <2>1. Ending(c)
    BY <1>1, <1>8 DEF Ending
  <2>2. /\ ended[j] /\ e.action = EndAction(j)
        /\ \A i \in DOMAIN log[j] : ~Ends(log[j][i])
        /\ \A d \in Callers : Ending(d) /\ call[d].job = j => d = c
    BY <1>6, <2>1 DEF IInv, OneEnding, OnlyEnding
  <2>3. Len(e.counts) = NumCounts /\ \A f \in Fields : e.counts[f] \in held[j][f]
    BY <1>1, <1>6, <1>8, <2>1 DEF IInv, CallShape, HeldSoFar, Fields
  <2> HIDE DEF j, e
  <2>a. \A i \in DOMAIN log'[j] : Ends(log'[j][i]) =>
          i = Len(log[j]) + 1 /\ log'[j][i] = e
    BY <1>5, <2>2
  <2>b. \A k \in Jobs : k # j => log'[k] = log[k] /\ EndAction(k)' = EndAction(k)
    BY <1>2, <1>4 DEF EndAction
  <2>4. EndsOnce'
    <3> SUFFICES ASSUME NEW k \in Jobs, NEW i \in DOMAIN log'[k], Ends(log'[k][i])
                 PROVE  /\ \A n \in DOMAIN log'[k] : Ends(log'[k][n]) => n = i
                        /\ log'[k][i].action = EndAction(k)'
      BY DEF EndsOnce, Ends
    <3>1. CASE k = j
      BY <1>2, <2>2, <2>a, <3>1 DEF EndAction
    <3>2. CASE k # j
      <4>1. i \in DOMAIN log[k] /\ Ends(log[k][i]) /\ log'[k] = log[k]
        BY <2>b, <3>2
      <4> QED
        BY <2>b, <3>2, <4>1 DEF IInv, EndsOnce
    <3> QED
      BY <3>1, <3>2
  <2>5. NotEnded'
    BY <1>2, <1>4, <1>5, <2>2 DEF IInv, NotEnded, Ends
  <2>6. OneEnding'
    <3> SUFFICES ASSUME NEW d \in Callers, Ending(d)'
                 PROVE  OnlyEnding(d)'
      BY DEF OneEnding
    <3>1. Ending(d) /\ call'[d].job = call[d].job /\ call'[d].action = call[d].action /\ d # c
      BY <1>3 DEF NoNewEnding
    <3>2. /\ ended[call[d].job] /\ call[d].action = EndAction(call[d].job)
          /\ \A i \in DOMAIN log[call[d].job] : ~Ends(log[call[d].job][i])
          /\ \A b \in Callers : Ending(b) /\ call[b].job = call[d].job => b = d
      BY <3>1 DEF IInv, OneEnding, OnlyEnding
    <3>3. call[d].job \in Jobs /\ call[d].job # j
      BY <1>0, <2>2, <3>1, EndingCounts DEF IInv
    <3>4. \A b \in Callers : Ending(b)' => Ending(b) /\ call'[b].job = call[b].job
      BY <1>3 DEF NoNewEnding
    <3> QED
      BY <1>2, <2>b, <3>1, <3>2, <3>3, <3>4 DEF OnlyEnding
  <2>7. CountsAreHeld'
    <3> SUFFICES ASSUME NEW k \in Jobs, NEW i \in DOMAIN log'[k], Ends(log'[k][i])
                 PROVE  /\ Len(log'[k][i].counts) = NumCounts
                        /\ \A f \in Fields : log'[k][i].counts[f] \in held'[k][f]
      BY DEF CountsAreHeld, Ends
    <3>1. CASE k = j
      BY <1>2, <2>3, <2>a, <3>1
    <3>2. CASE k # j
      BY <1>2, <2>b, <3>2 DEF IInv, CountsAreHeld
    <3> QED
      BY <3>1, <3>2
  <2>8. HeldSoFar'
    BY <1>2, <1>3 DEF IInv, HeldSoFar, NoNewEnding
  <2> QED
    BY <2>4, <2>5, <2>6, <2>7, <2>8 DEF Shapes
<1> QED
  BY <1>7, <1>8

-----------------------------------------------------------------------------
(* A call of the application: only Fail and Complete end a run.              *)
LEMMA CallsKeepShapes ==
  ASSUME IInv, NEW c \in Callers, NEW j \in Jobs, Calls(c, j)
  PROVE  Shapes'
<1>0. TypeOK
  BY DEF IInv
<1>a. {"job.started", "job.retry", "add", "set"} \intersect Terminal = {}
      /\ {"job.failed", "job.completed"} \subseteq Terminal
  BY DEF Terminal
<1>1. CASE \E o \in load.options : Start(c, j, o)
  BY <1>0, <1>1, <1>a, NoEndingCall, QuietStep DEF Start, logVars
<1>2. CASE Retry(c, j)
  BY <1>0, <1>2, <1>a, NoEndingCall, QuietStep DEF Retry, logVars, runVars
<1>3. CASE EndAgain(c, j)
  BY <1>0, <1>3, NoEndingCall, QuietStep DEF EndAgain, logVars, runVars
<1>4. ASSUME NEW how \in {"error", "panic"}, Fail(c, j, how)
      PROVE  Shapes'
  BY <1>4, <1>a, EndingCall DEF Fail, logVars
<1>5. ASSUME NEW how \in {"slow", "success"}, Complete(c, j, how)
      PROVE  Shapes'
  BY <1>5, <1>a, EndingCall DEF Complete, logVars
<1>6. ASSUME NEW f \in Fields, AddCount(c, j, f)
      PROVE  Shapes'
  <2>1. NoNewEnding
    BY <1>0, <1>6, NoEndingCall DEF AddCount
  <2> QED
    BY <1>6, <2>1, SetCounterKeepsShapes DEF AddCount, logVars
<1>7. ASSUME NEW v \in Values, SetCounts(c, j, v)
      PROVE  Shapes'
  <2>1. NoNewEnding
    BY <1>0, <1>7, NoEndingCall DEF SetCounts
  <2> QED
    BY <1>7, <2>1, QuietStep DEF SetCounts, logVars, runVars
<1> QED
  BY <1>1, <1>2, <1>3, <1>4, <1>5, <1>6, <1>7 DEF Calls

(* A step inside a call: the counts and the log change as they must.         *)
LEMMA InsideKeepsShapes ==
  ASSUME IInv, NEW c \in Callers, Inside(c)
  PROVE  Shapes'
<1>0. TypeOK /\ CallTypes
  BY TypesOfState DEF IInv
<1>a. After(c) \in {"idle", "opened"}
  BY DEF After
<1>1. CASE StartReturns(c)
  <2>1. NoNewEnding
    BY <1>0, <1>1, NoEndingStep DEF StartReturns, Steps
  <2> QED
    BY <1>1, <2>1, QuietStep DEF StartReturns, logVars
<1>2. CASE Sample(c)
  <2>1. NoNewEnding
    BY <1>0, <1>2, NoEndingStep DEF Sample, Steps
  <2> QED
    BY <1>2, <2>1, QuietStep DEF Sample, runVars
<1>3. CASE HookDrops(c)
  <2>1. NoNewEnding
    BY <1>0, <1>3, <1>a, NoEndingStep DEF HookDrops, Steps
  <2> QED
    BY <1>3, <2>1, QuietStep DEF HookDrops, runVars, logVars
<1>4. CASE HookAllows(c)
  <2>1. NoNewEnding
    BY <1>0, <1>4, NoEndingStep DEF HookAllows, Steps
  <2> QED
    BY <1>4, <2>1, QuietStep DEF HookAllows, runVars, logVars
<1>5. CASE ErrorPanics(c)
  <2>1. NoNewEnding
    BY <1>0, <1>5, NoEndingStep DEF ErrorPanics, Steps
  <2> QED
    BY <1>5, <2>1, QuietStep DEF ErrorPanics, runVars, logVars
<1>6. CASE StoreCount(c)
  <2> DEFINE left == call[c].numbers
  <2>1. call[c] \in CallRecords /\ call[c].pc = "store"
    BY <1>0, <1>6, InCall DEF StoreCount, Steps
  <2>2. left \in Seq(Int) /\ Len(left) \in 1..NumCounts /\ call[c].job \in Jobs
    BY <2>1 DEF IInv, CallShape, CallRecords
  <2>3. NumCounts + 1 - Len(left) \in Fields
    BY <2>2, SizesAssumption DEF Fields
  <2>4. \A d \in Callers : d # c => call'[d] = call[d]
    BY <1>0, <1>6 DEF StoreCount, CallTypes
  <2>5. call'[c] = Idle \/ call'[c].pc = "store"
    BY <1>0, <1>6, <2>1 DEF StoreCount, CallTypes, CallRecords
  <2>6. NoNewEnding
    BY <2>4, <2>5 DEF NoNewEnding, Ending, Idle
  <2> QED
    BY <1>6, <2>2, <2>3, <2>6, SetCounterKeepsShapes DEF StoreCount, logVars
<1> QED
  BY <1>1, <1>2, <1>3, <1>4, <1>5, <1>6, LoadKeepsShapes, EmitKeepsShapes DEF Inside

(* What was dropped stays below the counter's remainder, also at the wrap.   *)
LEMMA RowCountedKept ==
  ASSUME TypeOK, RowCounted, Fresh, [Next]_vars
  PROVE  RowCounted'
<1> SUFFICES ASSUME NEW e \in Spans PROVE row'[e] <= counter' % e
  BY DEF RowCounted
<1>0. /\ counter \in 0..(CounterSize - 1) /\ row \in [Spans -> Nat] /\ row[e] <= counter % e
      /\ e \in Nat \ {0} /\ CounterSize \in Nat \ {0}
  BY SizesAssumption DEF TypeOK, RowCounted
<1>1. ASSUME NEW c \in Callers, Sample(c)
      PROVE  row'[e] <= counter' % e
  <2> DEFINE every == opts[call[c].job].every
             n == (counter + 1) % CounterSize
  <2>1. every \in Nat \ {0}
    <3>1. call[c] \in CallRecords /\ call[c].pc = "sample"
      BY <1>1, InCall, TypesOfState DEF Sample, Step, Steps
    <3>2. opts[call[c].job] \in Options /\ every > 1
      BY <3>1 DEF CallRecords, TypeOK, Fresh
    <3> QED
      BY <3>2 DEF Options
  <2>2. /\ counter' = n /\ n \in Nat
        /\ row'[e] = IF n % every = 0 \/ e % every # 0 THEN 0 ELSE row[e] + 1
    BY <1>0, <1>1 DEF Sample, Rows, Kept
  <2> HIDE DEF every
  <2>3. CASE n % every = 0 \/ e % every # 0
    <3>1. n % e \in Nat
      BY <1>0, <2>2
    <3> QED
      BY <2>2, <2>3, <3>1
  <2>4. CASE n % every # 0 /\ e % every = 0
    <3>1. counter + 1 < CounterSize
      <4>1. counter + 1 = CounterSize => n = 0
        BY <1>0
      <4>2. 0 % every = 0
        BY <2>1
      <4> QED
        BY <1>0, <2>4, <4>1, <4>2
    <3>2. n = counter + 1 /\ counter \in Nat
      BY <1>0, <3>1
    <3> HIDE DEF n
    <3>3. n % e # 0
      BY <1>0, <2>1, <2>2, <2>4, DivisorRemainder
    <3>4. (counter + 1) % e # 0
      BY <3>2, <3>3
    <3>5. (counter + 1) % e = (counter % e) + 1
      BY <1>0, <3>2, <3>4, NextRemainder, Zenon
    <3>6. n % e = (counter % e) + 1 /\ counter % e \in Int
      BY <1>0, <3>2, <3>5
    <3>7. row'[e] = row[e] + 1 /\ row[e] \in Nat
      BY <1>0, <2>2, <2>4
    <3> QED
      BY <1>0, <2>2, <3>6, <3>7
  <2> QED
    BY <2>3, <2>4
<1>2. CASE UNCHANGED <<counter, row>>
  BY <1>0, <1>2
<1>3. ASSUME NEW c \in Callers, NEW j \in Jobs, Calls(c, j)
      PROVE  UNCHANGED <<counter, row>>
  BY <1>3 DEF Calls, Start, Retry, EndAgain, Fail, Complete, AddCount, SetCounts, logVars
<1>4. ASSUME NEW c \in Callers, Inside(c), ~Sample(c)
      PROVE  UNCHANGED <<counter, row>>
  BY <1>4 DEF Inside, StartReturns, HookDrops, HookAllows, LoadCount, ErrorPanics, Emit,
              StoreCount, logVars
<1>5. CASE UNCHANGED vars
  BY <1>2, <1>5 DEF vars, logVars
<1> QED
  BY <1>1, <1>2, <1>3, <1>4, <1>5 DEF Next

(* Runs not started stay untouched, and a rate is not changed under way.     *)
LEMMA FreshKept ==
  ASSUME TypeOK, Fresh, [Next]_vars
  PROVE  Fresh'
<1>0. CallTypes /\ RunTypes
  BY TypesOfState
<1>1. ASSUME NEW c \in Callers, NEW j \in Jobs, Calls(c, j)
      PROVE  Fresh'
  <2>1. PICK a, pc, numbers : /\ Call(c, j, a, pc, numbers)
                              /\ pc = "sample" => opts[j].every > 1 /\ life[j] # "new"
    <3>1. Decide(j, "job.retry") # "sample" /\ Decide(j, "job.failed") # "sample"
          /\ Decide(j, "job.completed") # "sample"
      BY DEF Decide
    <3> QED
      BY <1>1, <3>1 DEF Calls, Start, Retry, EndAgain, Fail, Complete, EndRun, AddCount, SetCounts
  <2>2. /\ \A d \in Callers : d # c => call'[d] = call[d]
        /\ \/ call'[c] = Idle
           \/ call'[c] = [pc |-> pc, job |-> j, action |-> a, numbers |-> numbers]
    BY <1>0, <2>1 DEF Call, CallTypes
  <2>3. /\ life'[j] # "new"
        /\ \A k \in Jobs : k # j => life'[k] = life[k] /\ ender'[k] = ender[k]
        /\ \A k \in Jobs : life[k] # "new" => life'[k] # "new" /\ opts'[k] = opts[k]
    BY <1>0, <1>1 DEF Calls, Start, Retry, EndAgain, Fail, Complete, EndRun, AddCount, SetCounter,
                      SetCounts, runVars, RunTypes
  <2>4. \A d \in Callers : call[d] # Idle => call[d].job \in Jobs
    BY <1>0 DEF CallTypes, CallRecords
  <2>5. \A k \in Jobs : life'[k] = "new" => ender'[k] = "none"
    BY <2>3 DEF Fresh
  <2>6. \A d \in Callers : call'[d] # Idle => life'[call'[d].job] # "new"
    BY <2>2, <2>3, <2>4 DEF Fresh
  <2>7. \A d \in Callers : call'[d].pc = "sample" => opts'[call'[d].job].every > 1
    <3>1. ASSUME NEW d \in Callers, d # c, call[d].pc = "sample"
          PROVE  opts'[call[d].job].every > 1
      <4>1. call[d] # Idle
        BY <3>1 DEF Idle
      <4> QED
        BY <2>3, <2>4, <3>1, <4>1 DEF Fresh
    <3>2. ASSUME call'[c].pc = "sample" PROVE opts'[call'[c].job].every > 1
      <4>1. call'[c] # Idle
        BY <3>2 DEF Idle
      <4> QED
        BY <2>1, <2>2, <2>3, <3>2, <4>1
    <3> QED
      BY <2>2, <3>1, <3>2
  <2> QED
    BY <2>5, <2>6, <2>7 DEF Fresh
<1>2. ASSUME NEW c \in Callers, Inside(c)
      PROVE  Fresh'
  <2>1. /\ \A d \in Callers : d # c => call'[d] = call[d]
        /\ call[c] # Idle /\ call'[c].pc # "sample"
        /\ call'[c] # Idle => call'[c].job = call[c].job
    <3>0. call[c].pc \in Steps => call[c] \in CallRecords /\ call[c] # Idle
      BY <1>0, InCall DEF Idle, Steps
    <3>1. ASSUME NEW from \in Steps, NEW to \in (Steps \union {"idle"}) \ {"sample"},
                 Step(c, from, to)
          PROVE  /\ \A d \in Callers : d # c => call'[d] = call[d]
                 /\ call[c] # Idle /\ call'[c].pc # "sample"
                 /\ call'[c] # Idle => call'[c].job = call[c].job
      BY <1>0, <3>0, <3>1 DEF Step, CallTypes, CallRecords, Idle
    <3>2. CASE LoadCount(c) \/ StoreCount(c)
      BY <1>0, <3>0, <3>2 DEF LoadCount, StoreCount, Steps, CallTypes, CallRecords, Idle
    <3>3. After(c) \in (Steps \union {"idle"}) \ {"sample"}
      BY DEF After, Steps
    <3> QED
      BY <1>2, <3>1, <3>2, <3>3
         DEF Inside, StartReturns, Sample, HookDrops, HookAllows, ErrorPanics, Emit, Steps
  <2>2. /\ UNCHANGED <<opts, ender>>
        /\ \A k \in Jobs : life'[k] = "new" => life[k] = "new"
        /\ \A k \in Jobs : life[k] # "new" => life'[k] # "new"
    BY <1>0, <1>2 DEF Inside, StartReturns, Sample, HookDrops, HookAllows, LoadCount, ErrorPanics,
         Emit, StoreCount, SetCounter, runVars, RunTypes
  <2>3. \A d \in Callers : call[d] # Idle => call[d].job \in Jobs
    BY <1>0 DEF CallTypes, CallRecords
  <2>4. \A d \in Callers : call'[d] # Idle => life'[call'[d].job] # "new"
    BY <2>1, <2>2, <2>3 DEF Fresh
  <2>5. \A d \in Callers : call'[d].pc = "sample" => opts'[call'[d].job].every > 1
    BY <2>1, <2>2 DEF Fresh
  <2> QED
    BY <2>2, <2>4, <2>5 DEF Fresh
<1>3. CASE UNCHANGED vars
  BY <1>3 DEF vars, runVars, Fresh
<1> QED
  BY <1>1, <1>2, <1>3 DEF Next

(* Every step keeps the invariant.                                           *)
LEMMA NextIInv == IInv /\ [Next]_vars => IInv'
<1> SUFFICES ASSUME IInv, [Next]_vars PROVE IInv'
  OBVIOUS
<1>0. TypeOK /\ CallShape /\ RowCounted /\ Fresh
  BY DEF IInv
<1>1. TypeOK'
  <2>1. CASE UNCHANGED vars
    BY <1>0, <2>1 DEF TypeOK, vars, runVars, logVars
  <2> QED
    BY <1>0, <2>1, CallsTypeOK, InsideTypeOK DEF Next
<1>2. CallShape' /\ RowCounted' /\ Fresh'
  BY <1>0, CallShapeKept, RowCountedKept, FreshKept
<1>3. Shapes'
  <2>1. CASE UNCHANGED vars
    BY <2>1, QuietStep DEF vars, runVars, logVars, NoNewEnding, Ending
  <2> QED
    BY <2>1, CallsKeepShapes, InsideKeepsShapes DEF Next
<1> QED
  BY <1>1, <1>2, <1>3 DEF IInv, Shapes

-----------------------------------------------------------------------------
(* In every state the invariant holds: the types, the shape of every call,   *)
(* and that the call that ended a run is the only one to log its end.        *)
THEOREM Invariance == Spec => []IInv
<1> QED
  BY InitIInv, NextIInv, PTL DEF Spec

(* r.ended in Complete and Fail: whatever calls of them meet in any number   *)
(* of goroutines, a run logs one end at most, and the right one.             *)
THEOREM OneEnd == Spec => []EndsOnce
<1>1. IInv => EndsOnce
  BY DEF IInv
<1> QED
  BY Invariance, <1>1, PTL

(* Counts, called by emit: what the last event shows for a counter was its   *)
(* value at some moment since the end, however late additions interleave.    *)
THEOREM CountsOfTheRun == Spec => []CountsAreHeld
<1>1. IInv => CountsAreHeld
  BY DEF IInv
<1> QED
  BY Invariance, <1>1, PTL

(* shouldKeepBySample: n%every == 0, with the rates of the runs and one      *)
(* counter for all, drops at most e - 1 completions in a row of runs whose   *)
(* rates divide e, whatever goroutines step the counter and where it wraps.  *)
THEOREM KeptOfEvery == Spec => []OneOfEvery
<1>1. IInv => OneOfEvery
  <2> SUFFICES ASSUME IInv, NEW e \in Spans PROVE row[e] < e
    BY DEF OneOfEvery
  <2>1. counter \in Int /\ row[e] \in Nat /\ row[e] <= counter % e /\ e \in Nat \ {0}
    BY SizesAssumption DEF IInv, TypeOK, RowCounted
  <2>2. counter % e < e /\ counter % e \in Int
    BY <2>1
  <2> QED
    BY <2>1, <2>2
<1> QED
  BY Invariance, <1>1, PTL

-----------------------------------------------------------------------------
(* An end that must not be dropped: of the steps of its call only Emit ends  *)
(* it, and that logs.                                                        *)
LEMMA GoesOn ==
  ASSUME ImportantUnderWay, NEW c \in Callers, UNCHANGED ender,
         \A j \in Jobs : ender[j] # "none" => opts'[j] = opts[j],
         \A d \in Callers : d # c => call'[d] = call[d],
         \A j \in Jobs : EndTold(j) => EndTold(j)',
         \A j \in Jobs : PastSampler(c) /\ call[c].job = j =>
           \/ (PastSampler(c) /\ call[c].job = j)' \/ EndTold(j)'
           \/ EndAction(j) \in opts[j].mayDrop \/ ender[j] = "panic"
  PROVE  ImportantUnderWay'
<1> SUFFICES ASSUME NEW j \in Jobs, ender[j] \in {"slow", "error"},
                    EndAction(j) \in opts[j].logged \ opts[j].mayDrop
             PROVE  EndTold(j)' \/ \E d \in Callers : (PastSampler(d) /\ call[d].job = j)'
  BY DEF ImportantUnderWay, EndAction
<1>1. CASE EndTold(j)
  BY <1>1
<1>2. ASSUME NEW d \in Callers, PastSampler(d), call[d].job = j
      PROVE  EndTold(j)' \/ \E k \in Callers : (PastSampler(k) /\ call[k].job = j)'
  <2>1. CASE d # c
    BY <1>2, <2>1 DEF PastSampler, Ending
  <2>2. CASE d = c
    BY <1>2, <2>2
  <2> QED
    BY <2>1, <2>2
<1> QED
  BY <1>1, <1>2 DEF ImportantUnderWay

(* A call of the application ends no other call, and one that ends a run     *)
(* goes past the sampler if the end is important.                            *)
LEMMA CallUnderWay ==
  ASSUME IInv, ImportantUnderWay, NEW c \in Callers, NEW j \in Jobs, Calls(c, j)
  PROVE  ImportantUnderWay'
<1>0. TypeOK /\ CallTypes
  BY TypesOfState DEF IInv
<1>1. log' = log /\ \A k \in Jobs : EndTold(k)' = EndTold(k)
  <2>1. log' = log
    BY DEF Calls, Start, Retry, EndAgain, Fail, Complete, AddCount, SetCounts, logVars
  <2> QED
    BY <2>1 DEF EndTold, Ends
<1>2. ASSUME NEW a, NEW pc, NEW numbers, Call(c, j, a, pc, numbers)
      PROVE  /\ ~PastSampler(c) /\ \A d \in Callers : d # c => call'[d] = call[d]
             /\ pc # "idle" => call'[c] = [pc |-> pc, job |-> j, action |-> a, numbers |-> numbers]
  BY <1>0, <1>2 DEF Call, PastSampler, Ending, Idle, CallTypes
<1>3. ASSUME NEW how \in {"slow", "error", "success", "panic"},
             NEW a \in Terminal, NEW pc, EndRun(j, how), Call(c, j, a, pc, <<>>),
             how \in {"slow", "error"} /\ a \in opts[j].logged => pc = "hook",
             a = IF how \in {"slow", "success"} THEN "job.completed" ELSE "job.failed"
      PROVE  ImportantUnderWay'
  <2>1. /\ \A k \in Jobs : k # j => ender'[k] = ender[k]
        /\ opts' = opts /\ ender'[j] = how /\ EndAction(j)' = a
    BY <1>0, <1>3 DEF EndRun, TypeOK, EndAction
  <2>2. ASSUME NEW k \in Jobs, k # j, ender'[k] \in {"slow", "error"},
               EndAction(k)' \in opts[k].logged \ opts[k].mayDrop
        PROVE  EndTold(k)' \/ \E d \in Callers : (PastSampler(d) /\ call[d].job = k)'
    <3>1. EndTold(k) \/ \E d \in Callers : PastSampler(d) /\ call[d].job = k
      BY <2>1, <2>2 DEF ImportantUnderWay, EndAction
    <3>2. ASSUME NEW d \in Callers, PastSampler(d), call[d].job = k
          PROVE  (PastSampler(d) /\ call[d].job = k)'
      BY <1>2, <1>3, <3>2 DEF PastSampler, Ending
    <3> QED
      BY <1>1, <3>1, <3>2
  <2>3. ASSUME how \in {"slow", "error"}, a \in opts[j].logged
        PROVE  (PastSampler(c) /\ call[c].job = j)'
    <3>1. pc = "hook"
      BY <1>3, <2>3
    <3>2. call'[c] = [pc |-> pc, job |-> j, action |-> a, numbers |-> <<>>]
      BY <1>2, <1>3, <3>1
    <3> QED
      BY <1>3, <3>1, <3>2 DEF PastSampler, Ending
  <2> QED
    BY <2>1, <2>2, <2>3 DEF ImportantUnderWay
<1>4. ASSUME NEW how \in {"error", "panic"}, Fail(c, j, how) PROVE ImportantUnderWay'
  BY <1>3, <1>4 DEF Fail, Decide, Terminal
<1>5. ASSUME NEW how \in {"slow", "success"}, Complete(c, j, how) PROVE ImportantUnderWay'
  BY <1>3, <1>5 DEF Complete, Decide, Important, Terminal
<1>6. ASSUME UNCHANGED ender, \A k \in Jobs : ender[k] # "none" => opts'[k] = opts[k],
             NEW a, NEW pc, NEW numbers, Call(c, j, a, pc, numbers)
      PROVE  ImportantUnderWay'
  BY <1>1, <1>2, <1>6, GoesOn
<1>7. ASSUME NEW o \in load.options, Start(c, j, o) PROVE ImportantUnderWay'
  <2>1. \A k \in Jobs : ender[k] # "none" => opts'[k] = opts[k]
    BY <1>0, <1>7 DEF Start, TypeOK, IInv, Fresh
  <2> QED
    BY <1>6, <1>7, <2>1 DEF Start
<1> QED
  BY <1>4, <1>5, <1>6, <1>7
     DEF Calls, Start, Retry, EndAgain, AddCount, SetCounts, SetCounter, runVars

(* Inside a call that is past the sampler the hook may allow it, its counts  *)
(* are loaded and it is logged.                                              *)
LEMMA InsideUnderWay ==
  ASSUME IInv, ImportantUnderWay, NEW c \in Callers, Inside(c)
  PROVE  ImportantUnderWay'
<1>0. TypeOK /\ CallTypes /\ LogTypes
  BY TypesOfState DEF IInv
<1>1. UNCHANGED <<opts, ender>> /\ \A d \in Callers : d # c => call'[d] = call[d]
  <2>1. ASSUME NEW from, NEW to, Step(c, from, to)
        PROVE  \A d \in Callers : d # c => call'[d] = call[d]
    BY <1>0, <2>1 DEF Step, CallTypes
  <2>2. LoadCount(c) \/ StoreCount(c) => \A d \in Callers : d # c => call'[d] = call[d]
    BY <1>0 DEF LoadCount, StoreCount, CallTypes
  <2>3. UNCHANGED <<opts, ender>>
    BY DEF Inside, StartReturns, Sample, HookDrops, HookAllows, LoadCount, ErrorPanics, Emit,
           StoreCount, SetCounter, runVars
  <2> QED
    BY <2>1, <2>2, <2>3
       DEF Inside, StartReturns, Sample, HookDrops, HookAllows, ErrorPanics, Emit
<1>2. PastSampler(c) => /\ call[c].pc \in {"hook", "load", "emit"} /\ call[c].action \in Terminal
                        /\ call[c] \in CallRecords /\ call[c].job \in Jobs
                        /\ call[c].action = EndAction(call[c].job)
  <2>1. PastSampler(c) => call[c] \in CallRecords
    BY <1>0, InCall DEF PastSampler, Ending, Steps
  <2> QED
    BY <2>1 DEF PastSampler, Ending, IInv, OneEnding, OnlyEnding, CallRecords
<1>3. CASE UNCHANGED log
  <2> DEFINE Same(j) == (PastSampler(c) /\ call[c].job = j)'
             Lost(j) == EndAction(j) \in opts[j].mayDrop \/ ender[j] = "panic"
  <2>1. \A j \in Jobs : EndTold(j) => EndTold(j)'
    BY <1>3 DEF EndTold, Ends
  <2>2. StartReturns(c) \/ Sample(c) \/ StoreCount(c) => ~PastSampler(c)
    BY <1>2 DEF StartReturns, Sample, StoreCount, Step
  <2>3. ASSUME NEW j \in Jobs, PastSampler(c), call[c].job = j, HookDrops(c) PROVE Lost(j)
    BY <1>2, <2>3 DEF HookDrops
  <2>4. ASSUME NEW j \in Jobs, call[c].job = j, ErrorPanics(c) PROVE Lost(j)
    BY <2>4 DEF ErrorPanics
  <2>5. ASSUME NEW j \in Jobs, PastSampler(c), call[c].job = j, HookAllows(c) PROVE Same(j)
    BY <1>0, <1>2, <2>5 DEF HookAllows, Step, PastSampler, Ending, CallTypes, CallRecords
  <2>6. ASSUME NEW j \in Jobs, PastSampler(c), call[c].job = j, LoadCount(c) PROVE Same(j)
    <3>1. /\ call'[c].pc \in {"load", "emit"} /\ call'[c].action = call[c].action
          /\ call'[c].job = call[c].job
      BY <1>0, <1>2, <2>6 DEF LoadCount, CallTypes, CallRecords
    <3> QED
      BY <1>2, <2>6, <3>1 DEF PastSampler, Ending
  <2>7. ~Emit(c)
    <3>1. ASSUME Emit(c) PROVE FALSE
      <4> DEFINE j == call[c].job
      <4>1. call[c] \in CallRecords
        BY <1>0, <3>1, InCall DEF Emit, Steps
      <4>2. j \in Jobs
        BY <4>1 DEF CallRecords
      <4>3. \E e : log'[j] = Append(log[j], e)
        BY <1>0, <3>1, <4>2 DEF Emit, LogTypes
      <4>4. log[j] \in Seq([action : Actions, counts : Seq(Int)])
        BY <1>0, <4>2 DEF LogTypes
      <4> HIDE DEF j
      <4>5. Len(log'[j]) = Len(log[j]) + 1 /\ Len(log[j]) \in Nat
        BY <4>3, <4>4
      <4> QED
        BY <1>3, <4>5
    <3> QED
      BY <3>1
  <2> QED
    <3>1. \A j \in Jobs : PastSampler(c) /\ call[c].job = j => Same(j) \/ Lost(j)
      BY <2>2, <2>3, <2>4, <2>5, <2>6, <2>7 DEF Inside
    <3> QED
      BY <1>1, <2>1, <3>1, GoesOn
<1>4. CASE Emit(c)
  <2>1. call[c] \in CallRecords
    BY <1>0, <1>4, InCall DEF Emit, Steps
  <2>2. PICK j \in Jobs : call[c].job = j
    BY <2>1 DEF CallRecords
  <2> DEFINE e == [action |-> call[c].action, counts |-> call[c].numbers]
             n == Len(log[j]) + 1
  <2>3. /\ \A k \in Jobs : k # j => log'[k] = log[k]
        /\ log'[j] = Append(log[j], e) /\ log[j] \in Seq([action : Actions, counts : Seq(Int)])
    BY <1>0, <1>4, <2>1, <2>2 DEF Emit, LogTypes, CallRecords
  <2>4. e.action = call[c].action
    OBVIOUS
  <2> HIDE DEF e
  <2>5. Len(log[j]) \in Nat /\ DOMAIN log[j] = 1..Len(log[j]) /\ DOMAIN log'[j] = 1..n
    BY <2>3
  <2>6. /\ n \in DOMAIN log'[j] /\ log'[j][n] = e
        /\ \A i \in DOMAIN log[j] : i \in DOMAIN log'[j] /\ log'[j][i] = log[j][i]
    BY <2>3, <2>5
  <2> HIDE DEF n
  <2>7. \A k \in Jobs : EndTold(k) => EndTold(k)'
    BY <2>3, <2>6 DEF EndTold, Ends
  <2>8. PastSampler(c) => EndTold(j)'
    BY <1>2, <2>4, <2>6 DEF EndTold, Ends
  <2> QED
    BY <1>1, <2>2, <2>7, <2>8, GoesOn
<1> QED
  BY <1>3, <1>4 DEF Inside, StartReturns, Sample, HookDrops, HookAllows, LoadCount, ErrorPanics,
                    StoreCount, logVars

(* "slow completed event must not be sampled out": neither the sampler nor   *)
(* anything else in Complete and Fail drops the end of a run that was slow   *)
(* or failed; it is logged, or its call is still at it.                      *)
THEOREM ImportantEndsAreKept == Spec => []ImportantUnderWay
<1>1. Init => ImportantUnderWay
  BY DEF Init, ImportantUnderWay
<1>2. IInv /\ ImportantUnderWay /\ [Next]_vars => ImportantUnderWay'
  <2> SUFFICES ASSUME IInv, ImportantUnderWay, [Next]_vars PROVE ImportantUnderWay'
    OBVIOUS
  <2>1. CASE UNCHANGED vars
    BY <2>1 DEF vars, runVars, logVars, ImportantUnderWay, EndTold, PastSampler, Ending, Ends,
                EndAction
  <2> QED
    BY <2>1, CallUnderWay, InsideUnderWay DEF Next
<1> QED
  BY <1>1, <1>2, Invariance, PTL DEF Spec
==============================================================================
