CONSTANTS
  k1 = k1
  k2 = k2
  alice = alice
  h1 = h1
  h2 = h2
  Keys <- mcKeys
  Names <- mcNames
  DigestSets <- mcDigestSets
  Bundles <- mcBundles
  Trusts <- mcTrusts
  MaxBundles = 2
  Invocations <- mcInvocations
  Trees <- mcTrees
  MaxEdits = 1
SPECIFICATION CommandSpec
INVARIANTS
  ExitCodeTellsTheTruth
  VerdictUnderOneTrustMode
  EvidenceIsAuthentic
  StrictCoversTheTree
PROPERTY EveryRunExits
\* The process exits.
CHECK_DEADLOCK FALSE
