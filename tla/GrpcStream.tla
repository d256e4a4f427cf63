------------------------------ MODULE GrpcStream ------------------------------
(***************************************************************************)
(* The client stream of src/adapters/grpcx/grpcx.go.  The interceptor      *)
(* wraps a grpc.ClientStream and logs the call once, when an operation on  *)
(* it returns an error.  One goroutine sends while another one receives,   *)
(* as grpc.ClientStream allows.                                            *)
(*                                                                         *)
(* The stream inside is external and modelled by what its operations       *)
(* return: once the call has ended, SendMsg returns io.EOF whatever the    *)
(* status, and RecvMsg delivers what has arrived, then io.EOF for OK or    *)
(* the status.  CloseSend does not fail and is left out.                   *)
(***************************************************************************)
EXTENDS Integers, Sequences

CONSTANTS
  Codes,          \* the status codes other than OK
  ServerStreams,  \* desc.ServerStreams: the server may answer many times
  MaxMessages     \* bound: messages in each direction

Live == {"opening", "open"}

ASSUME CodesAssumption ==
  Codes \intersect (Live \union {"OK", "EOF", "none", "Unknown"}) = {}
ASSUME BoundsAssumption == ServerStreams \in BOOLEAN /\ MaxMessages \in Nat

Sides == {"sender", "receiver"}

VARIABLES
  status,    \* external: "opening", "open", or the status the call ended with
  arrived,   \* external: answers not received yet
  answers,   \* external: answers the server has sent
  sends,     \* messages the client has sent
  err,       \* per side: the error its operation has returned, or "none"
  seen,      \* per side: the application has been given an error
  response,  \* the application has the one answer of a unary response
  once,      \* s.once
  log        \* the codes logged for this call

vars == <<status, arrived, answers, sends, err, seen, response, once, log>>

streamVars == <<status, arrived, answers, sends>>
logVars    == <<once, log>>

Init ==
  /\ status = "opening" /\ arrived = 0 /\ answers = 0 /\ sends = 0
  /\ err = [s \in Sides |-> "none"] /\ seen = [s \in Sides |-> FALSE]
  /\ response = FALSE /\ once = FALSE /\ log = <<>>

-----------------------------------------------------------------------------
(* The stream inside.                                                       *)

ServerAnswers ==
  /\ status = "open" /\ answers < (IF ServerStreams THEN MaxMessages ELSE 1)
  /\ answers' = answers + 1 /\ arrived' = arrived + 1
  /\ UNCHANGED <<status, sends, err, seen, response, logVars>>

(* The server ends the call, the transport fails or the context ends.  A    *)
(* unary response needs its answer to end with OK.                          *)
CallEnds ==
  /\ status = "open"
  /\ \/ status' \in Codes
     \/ status' = "OK" /\ (ServerStreams \/ answers = 1)
  /\ UNCHANGED <<arrived, answers, sends, err, seen, response, logVars>>

-----------------------------------------------------------------------------
(* StreamClientInterceptor                                                  *)

(* streamer fails: the error is logged and returned,                        *)
OpenFails ==
  /\ status = "opening" /\ status' \in Codes /\ log' = Append(log, status')
  /\ seen' = [s \in Sides |-> TRUE]
  /\ UNCHANGED <<arrived, answers, sends, err, response, once>>

(* or the stream is wrapped.                                                *)
Open ==
  /\ status = "opening" /\ status' = "open"
  /\ UNCHANGED <<arrived, answers, sends, err, seen, response, logVars>>

(* No operation of this side is in progress, and none failed before.        *)
Ready(s) == status # "opening" /\ err[s] = "none" /\ ~seen[s]

(* An operation returns an error to the wrapper.                            *)
Fails(s, e) ==
  /\ Ready(s) /\ err' = [err EXCEPT ![s] = e]
  /\ UNCHANGED <<arrived, answers, sends, seen, response, logVars>>

Send ==
  /\ Ready("sender") /\ status = "open" /\ sends < MaxMessages
  /\ sends' = sends + 1
  /\ UNCHANGED <<status, arrived, answers, err, seen, response, logVars>>

(* The client itself rejects the message: the call ends with that status.   *)
SendRejected ==
  /\ status = "open" /\ status' \in Codes
  /\ Fails("sender", status')

SendFails == status \notin Live /\ Fails("sender", "EOF") /\ UNCHANGED status

(* RecvMsg returns an answer; a unary response only when the call has ended *)
(* with OK, and the call is then over for the application.                  *)
Receive ==
  /\ Ready("receiver") /\ arrived > 0 /\ ~response
  /\ ServerStreams \/ status = "OK"
  /\ arrived' = arrived - 1 /\ response' = ~ServerStreams
  /\ UNCHANGED <<status, answers, sends, err, seen, logVars>>

ReceiveFails ==
  /\ status \notin Live /\ ~response
  /\ IF ServerStreams THEN arrived = 0 ELSE status # "OK"
  /\ Fails("receiver", IF status = "OK" THEN "EOF" ELSE status)
  /\ UNCHANGED status

(* status.Code(terminalError(err)); status.Code(io.EOF) is Unknown.         *)
TerminalCode_EofKept(e) == IF e = "EOF" THEN "Unknown" ELSE e
TerminalCode(e) == IF e = "EOF" THEN "OK" ELSE e

FirstTime_Always == TRUE
FirstTime == ~once

Reports_SenderOnly(s) == s = "sender"
Reports(s) == TRUE

(* once.Do(finish), then the error goes to the application.                 *)
Finish(s) ==
  /\ err[s] # "none"
  /\ IF FirstTime /\ Reports(s)
       THEN once' = TRUE /\ log' = Append(log, TerminalCode(err[s]))
       ELSE UNCHANGED logVars
  /\ err' = [err EXCEPT ![s] = "none"] /\ seen' = [seen EXCEPT ![s] = TRUE]
  /\ UNCHANGED <<streamVars, response>>

Receiver == Receive \/ ReceiveFails \/ Finish("receiver")
Sender   == Send \/ SendRejected \/ SendFails \/ Finish("sender")

Next == ServerAnswers \/ CallEnds \/ OpenFails \/ Open \/ Receiver \/ Sender

Spec == Init /\ [][Next]_vars

(* The application receives until it gets an error, as grpc asks of it, and *)
(* an operation that has failed returns.                                    *)
FairSpec == Spec /\ WF_vars(Receiver) /\ \A s \in Sides : WF_vars(Finish(s))

-----------------------------------------------------------------------------
TypeOK ==
  /\ status \in Live \union Codes \union {"OK"}
  /\ arrived \in Nat /\ answers \in Nat /\ sends \in Nat
  /\ err \in [Sides -> {"none", "EOF"} \union Codes]
  /\ seen \in [Sides -> BOOLEAN]
  /\ response \in BOOLEAN /\ once \in BOOLEAN
  /\ log \in Seq(Codes \union {"OK"})

(* However sender and receiver meet the end of the call, it is logged once.  *)
LoggedOnce == Len(log) <= 1

(* A failure that is logged is the status the call ended with.               *)
FailureIsReal == \A i \in DOMAIN log : log[i] # "OK" => log[i] = status

(* "logs when the client stream reaches a terminal operation": once an       *)
(* operation has returned an error to the application, the call is logged.   *)
ErrorIsLogged == (\E s \in Sides : seen[s]) => log # <<>>

(* The log of an ended call, and who may still add to it.                    *)
LogShape ==
  /\ log = <<>> \/ log = <<"OK">> \/ (status \in Codes /\ log = <<status>>)
  /\ status \in Live => log = <<>>
  /\ once => log # <<>>
  /\ ~once /\ log # <<>> => \A s \in Sides : seen[s]

(* An error on its way to the application is io.EOF or the status.           *)
ErrShape ==
  \A s \in Sides : err[s] # "none" =>
    status \notin Live /\ ~seen[s] /\ err[s] \in {"EOF", status}

(* What every step preserves.                                                *)
IInv == TypeOK /\ LogShape /\ ErrShape /\ ErrorIsLogged

(* A call that ended and whose application goes on receiving is logged.      *)
EndIsLogged == (status \notin Live) ~> (log # <<>>)

(* "interceptors emit service, method, status code": the code logged for an  *)
(* ended call is its status.                                                 *)
LoggedStatusIsFinal == \A i \in DOMAIN log : log[i] = status

(* "logs when the client stream reaches a terminal operation": the answer of *)
(* a unary response ends the call.                                           *)
ResponseIsLogged == response ~> (log # <<>>)

(* A unary response ends with OK after its one answer, which then waits for  *)
(* RecvMsg or has been received.                                             *)
UnaryShape ==
  /\ response => ~ServerStreams
  /\ ~ServerStreams => (response \/ arrived = answers) /\ (status = "OK" => answers = 1)

(* The receiver's next step: RecvMsg returns an answer or an error, or the   *)
(* error it has returned is reported.                                        *)
ReceiverGoesOn ==
  \/ err["receiver"] # "none"
  \/ /\ Ready("receiver") /\ ~response
     /\ IF ServerStreams THEN status \notin Live \/ arrived > 0
        ELSE status \notin Live /\ (status = "OK" => arrived > 0)

(* An ended call that is not logged yet is one whose receiver has a step to  *)
(* take, never one that nobody will log: the answer of a unary response is   *)
(* the one way to leave it there.                                            *)
UnloggedIsReceiving == status \notin Live /\ log = <<>> => response \/ ReceiverGoesOn
=============================================================================
