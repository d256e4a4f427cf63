------------------------------- MODULE Sampling -------------------------------
(***************************************************************************)
(* src/sampling: which events are logged, as the HTTP middleware, the      *)
(* outbound transport and the GORM logger use it.  Each of these owns one  *)
(* sampler, whose counter all its calls step.                              *)
(***************************************************************************)
EXTENDS Integers

CONSTANT CounterSize   \* the counter wraps at this value, 2^64 in the code

ASSUME CounterAssumption == CounterSize \in Nat \ {0}

(* The part of sampling.Decision that a decision depends on.                *)
Decision(event, status, failed, slow) ==
  [event |-> event, status |-> status, failed |-> failed, slow |-> slow]

IsImportant(d) ==
  d.failed \/ d.slow \/ d.status >= 400 \/ d.event \in {"error", "failed", "retry"}

(* The type of the event contains "complete".                               *)
IsSuccessCandidate(d) ==
  ~d.failed /\ ~d.slow /\ d.status < 400 /\ d.event \in {"complete", "querycomplete"}

(* A decision the sampler counts: it is off for every <= 1.                 *)
Counted_Everything(every, d) == every > 1 /\ d.event \notin {"none", "start"}
Counted(every, d) == every > 1 /\ ~IsImportant(d) /\ IsSuccessCandidate(d)

(* counter.Add(1) of an atomic Uint64                                       *)
Bumped_Unbounded(counter) == counter + 1
Bumped(counter) == (counter + 1) % CounterSize

ShouldKeep(every, d, counter) == Counted(every, d) => Bumped(counter) % every = 0

(* The counter, and the number of counted events sampled out since one was  *)
(* kept, after the decision d.                                              *)
CounterAfter_Kept(every, d, counter) ==
  IF Counted(every, d) /\ ShouldKeep(every, d, counter) THEN Bumped(counter) ELSE counter
CounterAfter(every, d, counter) == IF Counted(every, d) THEN Bumped(counter) ELSE counter

RowAfter(every, d, counter, row) ==
  IF ~Counted(every, d) THEN row
  ELSE IF ShouldKeep(every, d, counter) THEN 0 ELSE row + 1

(* Of every counted events in a row one is kept.                            *)
OneKept(every, row) == every > 1 => row < every
===============================================================================
