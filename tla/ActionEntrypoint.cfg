CONSTANT Codes = {0, 1, 2, 3, 126, 127, 137, 139}
SPECIFICATION Spec
INVARIANTS
  VerdictIsVerifys
  NothingLeftBehind
\* The process ends.
CHECK_DEADLOCK FALSE
