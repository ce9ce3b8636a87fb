CONSTANTS
  Fields <- mcFields
  Values <- mcValues
  Sidecars <- mcSidecars
  Envs <- mcEnvs
  MaxEdits = 1
SPECIFICATION Spec
INVARIANT FailsClosed
\* The process ends.
CHECK_DEADLOCK FALSE
