CONSTANTS
  Values = {s1, s2}
  NoValue = NoValue
SPECIFICATION Spec
PROPERTY
  RegisterSpec
CHECK_DEADLOCK FALSE
