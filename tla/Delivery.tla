------------------------------- MODULE Delivery -------------------------------
(***************************************************************************)
(* What an asynchronous sink promises, without goroutines, locks or        *)
(* requests: records are taken in while intake is open, never more than    *)
(* Capacity of them are unsettled, they are settled (counted as sent or    *)
(* failed) in the order of intake, and the sink finishes only when intake  *)
(* is over and nothing is left to settle.                                  *)
(***************************************************************************)
EXTENDS Naturals, Sequences

CONSTANTS Record, Capacity

VARIABLES accepted, settled, intakeOver, finished
vars == <<accepted, settled, intakeOver, finished>>

Unsettled == Len(accepted) - Len(settled)

Init ==
  /\ accepted = <<>> /\ settled = <<>>
  /\ intakeOver = FALSE /\ finished = FALSE

Accept ==
  /\ ~intakeOver /\ Unsettled < Capacity
  /\ \E r \in Record : accepted' = Append(accepted, r)
  /\ UNCHANGED <<settled, intakeOver, finished>>

(* The outcome of the next batch is known.                                 *)
Settle ==
  /\ \E k \in 1..Unsettled :
       settled' = SubSeq(accepted, 1, Len(settled) + k)
  /\ UNCHANGED <<accepted, intakeOver, finished>>

EndIntake ==
  /\ ~intakeOver /\ intakeOver' = TRUE
  /\ UNCHANGED <<accepted, settled, finished>>

Finish ==
  /\ intakeOver /\ settled = accepted
  /\ ~finished /\ finished' = TRUE
  /\ UNCHANGED <<accepted, settled, intakeOver>>

(* The last batch may be settled by the step that finishes.                *)
SettleAndFinish ==
  /\ intakeOver /\ settled # accepted /\ settled' = accepted
  /\ ~finished /\ finished' = TRUE
  /\ UNCHANGED <<accepted, intakeOver>>

Next == Accept \/ Settle \/ EndIntake \/ Finish \/ SettleAndFinish

SafeSpec == Init /\ [][Next]_vars

(* The sink works through what it has taken in and, intake over, finishes. *)
Spec == SafeSpec /\ WF_vars(Settle) /\ WF_vars(Finish \/ SettleAndFinish)
=============================================================================
