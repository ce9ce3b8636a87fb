CONSTANTS
  Tools <- mcTools
  Listings <- mcListings
  Files <- mcNoFiles
  Escapes <- mcStdoutEscape
  PipeLines = 2
SPECIFICATION FairSpec
PROPERTY DeadlineBoundsExtraction
\* A listing that is in or given up has no next step.
CHECK_DEADLOCK FALSE
