CONSTANTS
  Runs = {r1, r2}
  Flags <- mcFlags
  Parts = {"x", "y"}
  Deps = {"d", "e"}
  Kinds = {"skill", "mcp-server"}
  Projects <- mcProjects
  MaxEdits = 2
SYMMETRY mcSymmetry
SPECIFICATION Spec
INVARIANTS
  DryRunLeavesNoTrace
  SidecarBelongsToBundle
  SuccessIsPublication
  PublishedIsTrue
  LogMatchesPublication
PROPERTY OnlyTheSignedReplace
\* Every run ends.
CHECK_DEADLOCK FALSE
