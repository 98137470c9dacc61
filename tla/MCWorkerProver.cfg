SPECIFICATION Spec
CONSTANTS
  Request = {r1, r2, r3, r4}
  NoProof = NoProof
INVARIANTS
  TypeOK
  Coherent
  RightProof
PROPERTIES
  EveryRequestSettles
