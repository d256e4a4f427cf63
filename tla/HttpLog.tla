------------------------------- MODULE HttpLog -------------------------------
(***************************************************************************)
(* src/httplog, as the HTTP middleware and the outbound transport share    *)
(* it: the stages of a call that may be logged, the decision to log one,   *)
(* and the bodies that are captured for an event and handed on.            *)
(*                                                                         *)
(* A body is a sequence of numbered bytes, and what its reader meets after *)
(* them: the end, or the error of a connection that broke, which it meets  *)
(* again if it goes on reading.                                            *)
(***************************************************************************)
EXTENDS Sampling, Sequences

Stages == {"start", "complete", "error"}

Upto(s, n)    == SubSeq(s, 1, IF n < Len(s) THEN n ELSE Len(s))
From(s, n)    == SubSeq(s, n + 1, Len(s))
Bytes(n)      == [i \in 1..n |-> i]

NoBody == [value |-> <<>>, cut |-> FALSE]

(* What an event shows of a body; textual is IsSafeBodyContentType.         *)
CaptureBody(textual, bytes, limit) ==
  IF ~textual THEN NoBody
  ELSE [value |-> Upto(bytes, limit), cut |-> Len(bytes) > limit]

(* A body is "open" as long as the connection may bring more.               *)
Endings == {"open", "eof", "broken"}
Ending(fails) == IF fails THEN "broken" ELSE "eof"

(* A body of which n bytes were read ahead, and put back in front of what   *)
(* the connection has, and ends with: replayBody, also when the read failed.*)
ReadAhead(bytes, n, end) ==
  [buffer |-> Upto(bytes, n), conn |-> From(bytes, n), end |-> end,
   taken |-> <<>>, met |-> "open"]

(* Its reader takes a byte, or after the last one meets the end.            *)
CanRead(b) == Len(b.buffer \o b.conn) > 0 \/ (b.end # "open" /\ b.met = "open")
TakeByte(b) ==
  [b EXCEPT !.buffer = From(@, 1), !.taken = Append(@, Head(b.buffer \o b.conn)),
            !.conn = IF b.buffer = <<>> THEN Tail(@) ELSE @]
ReadOn(b) == IF Len(b.buffer \o b.conn) > 0 THEN TakeByte(b) ELSE [b EXCEPT !.met = b.end]

(* Whoever reads b gets these bytes, in order, and then this end.           *)
Whole(b) == b.taken \o b.buffer \o b.conn
Arrives(b, bytes, end) ==
  /\ Whole(b) = bytes /\ b.end = end
  /\ b.met # "open" => b.taken = bytes /\ b.met = end

(* httplog.ShouldLog: the sampler first, then the hook, if there is one.    *)
(* refused are the events whose hook returns false; a hook that panics      *)
(* allows.                                                                  *)
ShouldLog(every, d, counter, refused) ==
  ShouldKeep(every, d, counter) /\ d.event \notin refused

(* IsSlowRequest: whether a call may be slow, given the threshold is set.   *)
SlowChoices(threshold) == IF threshold THEN BOOLEAN ELSE {FALSE}

(* The part of an event that does not describe the caller.                  *)
Event(event, stamp, request, status, size, body) ==
  [event |-> event, stamp |-> stamp, request |-> request,
   status |-> status, size |-> size, body |-> body]

==============================================================================
