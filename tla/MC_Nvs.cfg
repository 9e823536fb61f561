SPECIFICATION Spec
CONSTANT MaxConfigs = 4
INVARIANTS
  TypeOK
  RebootKeeps
  GainsNotMixedWithDefaults
  TornInOrder
