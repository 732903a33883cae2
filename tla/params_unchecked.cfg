\* One method with a required and two optional parameters.
SPECIFICATION Spec
CONSTANTS
  Names <- ParamNames
  Calls <- Parameters
INVARIANT
  RequiredChecked
CHECK_DEADLOCK FALSE
