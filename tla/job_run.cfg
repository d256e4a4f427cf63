SPECIFICATION FairSpec
CONSTANTS
  j1 = j1
  j2 = j2
  j3 = j3
  j4 = j4
  c1 = c1
  c2 = c2
  Jobs <- AllJobs
  Callers <- Both
  NumCounts = 2
  Values = {5}
  CounterSize = 5
  Spans = {2, 3, 4}
  Loads <- ThreeLoads
INVARIANTS
  EndsOnce
  CountsAreHeld
  OneOfEvery
PROPERTIES
  ImportantEndIsLogged
CHECK_DEADLOCK FALSE
