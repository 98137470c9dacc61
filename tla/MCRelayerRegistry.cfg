SPECIFICATION Spec
CONSTANTS
  r1 = r1
  r2 = r2
  r3 = r3
  url = url
  EmptyString = EmptyString
  NoAdmin = NoAdmin
  Address <- MCAddress
  Endpoint <- MCEndpoint
  FeeBps = {0, 1, 2}
SYMMETRY Symmetry
INVARIANTS
  TypeOK
  EnumerationExact
  ActiveListExact
PROPERTIES
  OnlyOwnEntry
