SPECIFICATION Spec
CONSTANTS
  r1 = r1
  r2 = r2
  r3 = r3
  idA = idA
  idB = idB
  NoId = NoId
  Requests = {r1, r2, r3}
  Ids = {r1, r2, r3, idA, idB}
  CounterSize = 3
  HttpOptions <- MCHttpOptions
  Arrivals <- MCArrivals
  Codes <- MCCodes
  OutOptions <- MCOutOptions
  Calls <- MCCalls
  MaxAnswer = 3
  DbOptions <- MCDbOptions
  Queries <- AnyQuery
  Kinds <- MCKinds
  MaxVersion = 3
  Deployments <- Copying
INVARIANTS
  ClientUnaffectedByCopy
CHECK_DEADLOCK FALSE
