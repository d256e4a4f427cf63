------------------------------ MODULE MCJobRun ------------------------------
(* Instances of JobRun for TLC.                                             *)
EXTENDS JobRun, TLC

CONSTANTS j1, j2, j3, j4, c1, c2

AllJobs == {j1, j2, j3, j4}
Both    == {c1, c2}

(* The hook may drop what is not an end.                                    *)
Full == [logged |-> Actions, mayDrop |-> {"job.started", "job.retry"}, every |-> 2]

(* Only completions are logged, one of `every`.                             *)
EndsOnly(every) == [logged |-> {"job.completed"}, mayDrop |-> {}, every |-> every]

(* Two runs with all their methods; four runs at two rates that only end;    *)
(* three at other rates, which two goroutines end.                           *)
Completing == {"job.started", "job.completed"}
ThreeLoads == {
  [jobs |-> {j1, j2}, options |-> {Full},
   callers |-> Both, methods |-> Methods, most |-> 2],
  [jobs |-> AllJobs, options |-> {EndsOnly(2), EndsOnly(4)},
   callers |-> {c1}, methods |-> Completing, most |-> 8],
  [jobs |-> {j1, j2, j3}, options |-> {EndsOnly(2), EndsOnly(3)},
   callers |-> Both, methods |-> Completing, most |-> 3]}
=============================================================================
