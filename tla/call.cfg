\* Every entry, body and set of parameters.
SPECIFICATION Spec
CONSTANTS
  Names <- ParamNames
  Calls <- AllCalls
INVARIANTS
  TypeOK
  OnlyEntitledRun
  CheckedWhenComplete
  RefusedForAReason
  GivenValuesReachCommand
CHECK_DEADLOCK FALSE
