CONSTANTS
  Fields <- mcFields
  Values <- mcValues
  Sidecars <- mcSidecars
  Envs <- mcEnvs
  MaxEdits = 1
SPECIFICATION Spec
INVARIANTS
  OnlyAPassAdmits
  SidecarArtifactSidecarTrust
\* The process ends.
CHECK_DEADLOCK FALSE
