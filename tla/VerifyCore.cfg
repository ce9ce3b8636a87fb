CONSTANTS
  k1 = k1
  k2 = k2
  alice = alice
  mallory = mallory
  h1 = h1
  h2 = h2
  Keys <- mcKeys
  Names <- mcNames
  DigestSets <- mcDigestSets
  Bundles <- mcBundles
  Trusts <- mcTrusts
  MaxBundles = 2
SPECIFICATION FairSpec
INVARIANTS
  TypeOK
  ExitAgreesWithWinner
  BlameIsTrue
  UnverifiedStatementNotRead
PROPERTY ImplementsPromise
\* Run returns: a finished verification has no next step.
CHECK_DEADLOCK FALSE
