\* Three environments in every arrangement, two names, two values.
SPECIFICATION Spec
CONSTANTS
  Keys = {k1, k2}
  Values = {v1, v2}
  Null = Null
  Unbound = Unbound
  MaxEnvs = 3
  MaxNodes = 3
SYMMETRY Symmetry
CHECK_DEADLOCK FALSE
INVARIANTS
  TypeOK
  InnermostWins
  FormsHeldOnce
PROPERTY
  ShadowingIsLocal
