SPECIFICATION Spec
CONSTANTS
  o1 = o1
  v1 = v1
  v2 = v2
  Whole = Whole
  Operator <- OneOperator
  Version <- TwoVersions
  Faults <- AnythingFails
INVARIANTS
  TypeOK
PROPERTIES
  ReportsHold
