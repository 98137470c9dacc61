SPECIFICATION Spec
CONSTANTS
  q1 = q1
  q2 = q2
  q3 = q3
  s1 = s1
  k1 = k1
  k2 = k2
  Request <- MCPair
  StatusRequest <- MCStatusRequest
  Key <- MCKey
  FeeStroops = {3}
  MaxPending = 2
  StatModulus = 4
  SubmitAnswers = {FALSE}
INVARIANTS
  PendingIsBeingProcessed
