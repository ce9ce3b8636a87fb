CONSTANTS
  Tools <- mcTools
  Listings <- mcListings
  Files <- mcFiles
  Escapes <- mcEscapes
  PipeLines = 2
SPECIFICATION FairSpec
INVARIANTS
  LiveListingIsServed
  CrossCheckedListing
  NoServerLeftBehind
PROPERTY ListingEnds
\* A listing that is in or given up has no next step.
CHECK_DEADLOCK FALSE
