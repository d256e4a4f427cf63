------------------------------- MODULE LogPath -------------------------------
(***************************************************************************)
(* The application's own log lines on their way through the handlers: the  *)
(* logger's (src/logger), which stamps a line from its context, standard   *)
(* output, where it is written at once, and the sink's, which queues a     *)
(* snapshot (src/internal/slogsnapshot) that the worker encodes later.     *)
(*                                                                         *)
(* The lines show an attribute that refers to a value of the caller's.  The*)
(* caller keeps the attribute (in a context, or in a variable) and may use *)
(* it in many lines.  The value may change at any time, by whoever shares  *)
(* it: one that is read while it changes guards itself.  Queue and worker  *)
(* are those of AsyncSink; here a queued line is just encoded later.       *)
(***************************************************************************)
EXTENDS Context, Integers, Sequences

CONSTANTS
  Kinds,        \* the kinds of value the callers log
  MaxVersion    \* bound: the versions a value goes through

(* "map" stands for slices and pointers too, "valuer" for a slog.LogValuer  *)
(* that resolves to a scalar; a "group" has one member, a map.              *)
ASSUME LogAssumption ==
  /\ Kinds \subseteq {"scalar", "map", "struct", "group", "valuer"}
  /\ MaxVersion \in Nat \ {0}

VARIABLES
  kind,       \* what the attribute's value is
  version,    \* the version of the value
  attr,       \* what the attribute (or the group's member) refers to
  pending,    \* the line each caller has printed and not yet queued
  lines       \* the lines queued, in order

logVars == <<kind, version, attr, pending, lines>>

(* A reference is to the value as it is when it is looked at, or to the     *)
(* bytes of one of its versions.                                            *)
Live == 0
Reads(ref, v) == IF ref = Live THEN v ELSE ref

NoLine == [stamp |-> Stamp(Background), from |-> 0, printed |-> 0]
InLogCall(x) == pending[x] # NoLine

(* needsSnapshot asks for maps, slices and pointers, also inside groups; a  *)
(* struct is not copied, whatever it refers to.                             *)
NeedsSnapshot_TopLevelOnly(k) == k = "map"
NeedsSnapshot(k) == k \in {"map", "group"}

(* What the queued record refers to, when the snapshot finds version v.     *)
(* Scalars were copied with the record that was printed.  What needs no     *)
(* snapshot goes with the record's clone as it is: a valuer unresolved.     *)
SnapshotAttr(k, ref, printed, v) ==
  IF k = "scalar" THEN printed ELSE IF NeedsSnapshot(k) THEN Reads(ref, v) ELSE ref

(* The snapshot of a group is written into the slice that holds its members,*)
(* which is the caller's.                                                   *)
AttrAfter(k, ref, v) == IF k = "group" THEN Reads(ref, v) ELSE ref

(* Handle lets the next handler print the line.  Two calls at a time with   *)
(* one group would both write into it: no caller may do that.               *)
PrintLine(x, c) ==
  /\ ~InLogCall(x)
  /\ kind = "group" => \A y \in Requests : ~InLogCall(y)
  /\ pending' = [pending EXCEPT ![x] =
       [stamp |-> Stamp(c), from |-> version, printed |-> Reads(attr, version)]]
  /\ UNCHANGED <<kind, version, attr, lines>>

(* Then, maybe after Close has let go of the lock, the sink takes its       *)
(* snapshot and queues it; or finds it too large, or the queue full; or it  *)
(* is closed, and does not look at the line.  Snapshot and queueing are one *)
(* step: in between nothing looks at the copy.                              *)
Enqueue(x) ==
  LET p == pending[x]
      queued == [by |-> x, stamp |-> p.stamp, from |-> p.from, printed |-> p.printed,
                 queued |-> SnapshotAttr(kind, attr, p.printed, version), until |-> version,
                 delivered |-> 0]
  IN  /\ InLogCall(x)
      /\ pending' = [pending EXCEPT ![x] = NoLine]
      /\ \/ attr' = AttrAfter(kind, attr, version) /\ lines' \in {Append(lines, queued), lines}
         \/ UNCHANGED <<attr, lines>>
      /\ UNCHANGED <<kind, version>>

(* The value changes; a scalar's attribute is replaced by another.          *)
Change ==
  /\ version < MaxVersion /\ version' = version + 1
  /\ UNCHANGED <<kind, attr, pending, lines>>

(* The worker encodes the next queued line.                                 *)
Encode ==
  \E i \in DOMAIN lines :
    /\ lines[i].delivered = 0
    /\ \A j \in 1..(i - 1) : lines[j].delivered # 0
    /\ lines' = [lines EXCEPT ![i].delivered = Reads(lines[i].queued, version)]
    /\ UNCHANGED <<kind, version, attr, pending>>

LogInit ==
  /\ kind \in Kinds /\ version = 1 /\ attr = Live
  /\ pending = [x \in Requests |-> NoLine] /\ lines = <<>>

-----------------------------------------------------------------------------
(* The variables hold what their comments say.                              *)
Printed == [stamp : Meta, from : 1..MaxVersion, printed : 1..MaxVersion]
Lines   == [by : Requests, stamp : Meta, from : 1..MaxVersion, printed : 1..MaxVersion,
            queued : 0..MaxVersion, until : 1..MaxVersion, delivered : 0..MaxVersion]

LogTypeOK ==
  /\ kind \in Kinds /\ version \in 1..MaxVersion /\ attr \in 0..MaxVersion
  /\ pending \in [Requests -> Printed \union {NoLine}]
  /\ \A i \in DOMAIN lines : lines[i] \in Lines

(* The collector gets a line with a value it had in the log call, from what *)
(* standard output shows to what the snapshot found, and if nothing changed *)
(* in the call, or if it is a scalar, with what standard output shows;      *)
(* however late it is encoded, whatever has changed since, and in however   *)
(* many lines the attribute was before.  Structs and valuers that resolve   *)
(* to scalars are not copied, and left out.                                 *)
DeliveredAsPrinted ==
  \A i \in DOMAIN lines :
    LET l == lines[i]
    IN  kind \notin {"struct", "valuer"} /\ l.delivered # 0 =>
          /\ l.delivered \in l.printed..l.until
          /\ kind = "scalar" \/ l.until = l.from => l.delivered = l.printed
=============================================================================
