--------------------------- MODULE GrpcStreamProofs ---------------------------
(***************************************************************************)
(* For every set of status codes and any number of messages: the client    *)
(* stream is logged once, and a failure it logs is the status of the call. *)
(***************************************************************************)
EXTENDS GrpcStream, TLAPS

(* The invariant holds initially.                                            *)
LEMMA InitIInv == Init => IInv
<1> SUFFICES ASSUME Init PROVE IInv
  OBVIOUS
<1> USE DEF Init
<1>1. /\ status \in Live \union Codes \union {"OK"}
      /\ err \in [Sides -> {"none", "EOF"} \union Codes]
      /\ seen \in [Sides -> BOOLEAN]
      /\ log \in Seq(Codes \union {"OK"})
  BY DEF Live
<1>2. arrived \in Nat /\ answers \in Nat /\ sends \in Nat
  OBVIOUS
<1>3. response \in BOOLEAN /\ once \in BOOLEAN
  OBVIOUS
<1>4. TypeOK
  BY <1>1, <1>2, <1>3 DEF TypeOK
<1>5. LogShape /\ ErrShape /\ ErrorIsLogged
  BY DEF LogShape, ErrShape, ErrorIsLogged
<1> QED
  BY <1>4, <1>5 DEF IInv

(* The type of the variables is preserved.                                   *)
LEMMA StepTypeOK ==
  ASSUME IInv, [Next]_vars
  PROVE  TypeOK'
<1> USE DEF IInv, TypeOK
<1>1. CASE ServerAnswers \/ CallEnds \/ Open \/ Send \/ Receive
  <2>1. arrived' \in Nat /\ answers' \in Nat /\ sends' \in Nat
    BY <1>1 DEF ServerAnswers, CallEnds, Open, Send, Receive
  <2>2. status' \in Live \union Codes \union {"OK"}
    BY <1>1 DEF ServerAnswers, CallEnds, Open, Send, Receive, Live
  <2>3. response' \in BOOLEAN
    BY <1>1, BoundsAssumption, Zenon DEF ServerAnswers, CallEnds, Open, Send, Receive
  <2>4. UNCHANGED <<err, seen, once, log>>
    BY <1>1 DEF ServerAnswers, CallEnds, Open, Send, Receive, logVars
  <2> QED
    BY <2>1, <2>2, <2>3, <2>4
<1>2. CASE OpenFails
  BY <1>2 DEF OpenFails
<1>3. CASE SendRejected \/ SendFails \/ ReceiveFails
  BY <1>3 DEF SendRejected, SendFails, ReceiveFails, Fails, logVars, Live, Sides
<1>4. ASSUME NEW s \in Sides, Finish(s)
      PROVE  TypeOK'
  <2>1. TerminalCode(err[s]) \in Codes \union {"OK"}
    BY <1>4 DEF Finish, TerminalCode
  <2>2. log' \in Seq(Codes \union {"OK"}) /\ once' \in BOOLEAN
    <3>1. once' \in {once, TRUE} /\ log' \in {log, Append(log, TerminalCode(err[s]))}
      BY <1>4 DEF Finish, logVars
    <3>2. once' \in BOOLEAN
      BY <3>1, Zenon
    <3>3. log \in Seq(Codes \union {"OK"})
      BY DEF IInv, TypeOK
    <3>4. Append(log, TerminalCode(err[s])) \in Seq(Codes \union {"OK"})
      BY <2>1, <3>3
    <3> QED
      BY <3>1, <3>2, <3>3, <3>4, Zenon
  <2>3. err' \in [Sides -> {"none", "EOF"} \union Codes] /\ seen' \in [Sides -> BOOLEAN]
    BY <1>4 DEF Finish
  <2>4. UNCHANGED <<status, arrived, answers, sends, response>>
    BY <1>4 DEF Finish, streamVars
  <2> QED
    BY <2>2, <2>3, <2>4
<1>5. CASE UNCHANGED vars
  BY <1>5 DEF vars, streamVars, logVars
<1> QED
  BY <1>1, <1>2, <1>3, <1>4, <1>5 DEF Next, Receiver, Sender, Sides

(* The log of the call keeps its shape, and so do the errors under way.      *)
LEMMA StepShapes ==
  ASSUME IInv, [Next]_vars
  PROVE  LogShape' /\ ErrShape' /\ ErrorIsLogged'
<1> USE DEF LogShape, ErrShape, ErrorIsLogged, Live
<1>0. LogShape /\ ErrShape /\ ErrorIsLogged /\ TypeOK
  BY DEF IInv
<1>1. CASE ServerAnswers \/ CallEnds \/ Open \/ Send \/ Receive
  BY <1>0, <1>1 DEF ServerAnswers, CallEnds, Open, Send, Receive, logVars
<1>2. CASE OpenFails
  <2>1. log' = <<status'>> /\ status' \in Codes
    BY <1>0, <1>2 DEF OpenFails
  <2> QED
    BY <1>0, <1>2, <2>1, CodesAssumption DEF OpenFails
<1>3. CASE SendRejected \/ SendFails \/ ReceiveFails
  BY <1>0, <1>3, CodesAssumption DEF TypeOK, SendRejected, SendFails, ReceiveFails, Fails, Ready, logVars
<1>4. ASSUME NEW s \in Sides, Finish(s)
      PROVE  LogShape' /\ ErrShape' /\ ErrorIsLogged'
  <2>1. status \notin Live /\ ~seen[s] /\ err[s] \in {"EOF", status} /\ status' = status
    BY <1>0, <1>4 DEF Finish, streamVars
  <2>2. /\ err' = [err EXCEPT ![s] = "none"] /\ seen' = [seen EXCEPT ![s] = TRUE]
        /\ err \in [Sides -> {"none", "EOF"} \union Codes] /\ seen \in [Sides -> BOOLEAN]
    BY <1>0, <1>4 DEF Finish, TypeOK
  <2>3. CASE once
    <3>1. once' = once /\ log' = log
      BY <1>4, <2>3 DEF Finish, FirstTime, logVars
    <3> QED
      BY <1>0, <2>1, <2>2, <2>3, <3>1
  <2>4. CASE ~once
    <3>1. log = <<>>
      BY <1>0, <2>1, <2>4
    <3>2. once' = TRUE /\ log' = <<TerminalCode(err[s])>>
      BY <1>4, <2>4, <3>1 DEF Finish, FirstTime, Reports
    <3>3. TerminalCode(err[s]) = "OK" \/ (status \in Codes /\ TerminalCode(err[s]) = status)
      BY <1>0, <2>1 DEF TypeOK, TerminalCode
    <3>4. log' # <<>>
      BY <3>2
    <3> QED
      BY <1>0, <2>1, <2>2, <3>2, <3>3, <3>4
  <2> QED
    BY <2>3, <2>4
<1>5. CASE UNCHANGED vars
  BY <1>0, <1>5 DEF vars, logVars
<1> QED
  BY <1>1, <1>2, <1>3, <1>4, <1>5 DEF Next, Receiver, Sender, Sides

(* The invariant holds in every state of every call.                         *)
THEOREM Invariance == Spec => []IInv
<1>1. IInv /\ [Next]_vars => IInv'
  BY StepTypeOK, StepShapes DEF IInv
<1> QED
  BY <1>1, InitIInv, PTL DEF Spec

(* A call is logged at most once.                                            *)
THEOREM OneEvent == Spec => []LoggedOnce
<1>1. IInv => LoggedOnce
  <2> SUFFICES ASSUME IInv PROVE Len(log) <= 1
    BY DEF LoggedOnce
  <2>1. log = <<>> \/ log = <<"OK">> \/ log = <<status>>
    BY DEF IInv, LogShape
  <2>2. Len(log) = 0 \/ Len(log) = 1
    BY <2>1
  <2>3. \A n : n = 0 \/ n = 1 => n <= 1
    OBVIOUS
  <2> QED
    BY <2>2, <2>3, Zenon
<1> QED
  BY <1>1, Invariance, PTL

(* A failure that is logged is the status the call ended with.               *)
THEOREM NoFalseFailure == Spec => []FailureIsReal
<1>1. IInv => FailureIsReal
  <2> SUFFICES ASSUME IInv, NEW i \in DOMAIN log, log[i] # "OK"
               PROVE  log[i] = status
    BY DEF FailureIsReal
  <2>1. log = <<>> \/ log = <<"OK">> \/ log = <<status>>
    BY DEF IInv, LogShape
  <2>2. CASE log = <<>>
    BY <2>2
  <2>3. CASE log = <<"OK">>
    BY <2>3
  <2>4. CASE log = <<status>>
    BY <2>4
  <2> QED
    BY <2>1, <2>2, <2>3, <2>4
<1> QED
  BY <1>1, Invariance, PTL

(* The application gets no error of a call that was not logged.              *)
THEOREM NoUnloggedError == Spec => []ErrorIsLogged
<1>1. IInv => ErrorIsLogged
  BY DEF IInv
<1> QED
  BY <1>1, Invariance, PTL

(* A unary response is shaped as its one answer has it.                      *)
LEMMA StepUnaryShape ==
  ASSUME IInv, UnaryShape, [Next]_vars
  PROVE  UnaryShape'
<1> USE DEF UnaryShape
<1>0. TypeOK /\ ErrShape
  BY DEF IInv
<1>1. CASE ServerAnswers
  BY <1>0, <1>1, CodesAssumption DEF ServerAnswers, TypeOK, Live
<1>2. CASE CallEnds
  BY <1>2, CodesAssumption DEF CallEnds
<1>3. CASE OpenFails \/ Open
  BY <1>3, CodesAssumption DEF OpenFails, Open, Live
<1>4. CASE Send \/ SendFails \/ ReceiveFails
  BY <1>4 DEF Send, SendFails, ReceiveFails, Fails
<1>5. CASE SendRejected
  BY <1>5, CodesAssumption DEF SendRejected, Fails
<1>6. CASE Receive
  BY <1>6 DEF Receive
<1>7. ASSUME NEW s \in Sides, Finish(s)
      PROVE  UnaryShape'
  BY <1>7 DEF Finish, streamVars
<1>8. CASE UNCHANGED vars
  BY <1>8 DEF vars
<1> QED
  BY <1>1, <1>2, <1>3, <1>4, <1>5, <1>6, <1>7, <1>8 DEF Next, Receiver, Sender, Sides

(* Of a call that ended unlogged, no side has been given an error, and what  *)
(* the receiver lacks is an answer or the status.                            *)
LEMMA UnloggedGoesOn ==
  ASSUME IInv, UnaryShape
  PROVE  UnloggedIsReceiving
<1> SUFFICES ASSUME status \notin Live, log = <<>>, ~response, err["receiver"] = "none"
             PROVE  ReceiverGoesOn
  BY DEF UnloggedIsReceiving, ReceiverGoesOn
<1>1. Ready("receiver")
  BY DEF IInv, ErrorIsLogged, Ready, Live, Sides
<1>2. CASE ServerStreams
  BY <1>1, <1>2 DEF ReceiverGoesOn
<1>3. CASE ~ServerStreams
  <2>1. status = "OK" => arrived > 0
    BY <1>3 DEF UnaryShape
  <2> QED
    BY <1>1, <1>3, <2>1 DEF ReceiverGoesOn
<1> QED
  BY <1>2, <1>3

(* A call never ends in a way that leaves nobody to log it, but for the      *)
(* unary response whose answer was received: as long as it is not logged,    *)
(* its receiver has a step to take, with no help from the sender.            *)
THEOREM UnloggedCallsGoOn == Spec => []UnloggedIsReceiving
<1>1. Init => UnaryShape
  BY DEF Init, UnaryShape
<1>2. IInv /\ UnaryShape /\ [Next]_vars => UnaryShape'
  BY StepUnaryShape
<1>3. IInv /\ UnaryShape => UnloggedIsReceiving
  BY UnloggedGoesOn
<1> QED
  BY <1>1, <1>2, <1>3, Invariance, PTL DEF Spec
==============================================================================
