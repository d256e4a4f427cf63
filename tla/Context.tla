------------------------------- MODULE Context -------------------------------
(***************************************************************************)
(* What a context.Context carries from call to call: the correlation ID    *)
(* (src/correlation) and the metadata every log line is stamped with       *)
(* (src/logger).  A context is never changed, only derived from.  Of the   *)
(* metadata the correlation and the trace ID are kept; layer, component,   *)
(* operation and the other IDs travel the same way.                        *)
(***************************************************************************)

CONSTANTS
  Requests,   \* the goroutines: each serves a request, and calls from there
  Ids,        \* correlation and trace IDs
  NoId        \* the empty string

ASSUME IdsAssumption == NoId \notin Ids /\ Requests \subseteq Ids

Id       == Ids \union {NoId}
Meta     == [corr : Id, trace : Id]
Contexts == [corr : Id, meta : Meta]

(* context.Background()                                                     *)
Background == [corr |-> NoId, meta |-> [corr |-> NoId, trace |-> NoId]]

WithID(c, id) == IF id = NoId THEN c ELSE [c EXCEPT !.corr = id]

(* generate may fail to read random bytes: fresh is NoId then.              *)
GetOrGenerate(c, fresh) == IF c.corr # NoId THEN c ELSE WithID(c, fresh)

(* WithMeta replaces all that was there.                                    *)
WithMeta(c, m) == [c EXCEPT !.meta = m]

WithCorrelationID_MetaOnly(c, id) == WithMeta(c, [c.meta EXCEPT !.corr = id])
WithCorrelationID(c, id) ==
  WithMeta(WithID(c, id), [c.meta EXCEPT !.corr = id])

CorrelationID(c) == IF c.corr # NoId THEN c.corr ELSE c.meta.corr

(* obskit.WithTrace                                                         *)
WithTrace(c, trace) == WithMeta(c, [c.meta EXCEPT !.trace = trace])

(* otel.WithTrace: nothing happens without an active span.                  *)
OtelWithTrace(c, span) == IF span = NoId THEN c ELSE WithTrace(c, span)

(* contextHandler.Handle: what a line logged under the context c shows; the *)
(* metadata goes before the ID of package correlation.                      *)
Stamp(c) ==
  [corr  |-> IF c.meta.corr # NoId THEN c.meta.corr ELSE CorrelationID(c),
   trace |-> c.meta.trace]
==============================================================================
