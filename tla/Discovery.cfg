CONSTANTS
  Words = {"w"}
  Versions = {"v1", "v2"}
  Digests <- mcDigests
  Bases = {"b", "c", "bad"}
  BadBase = "bad"
  Offers <- mcOffers
  Queries <- mcQueries
  Packuments <- mcPackuments
  MaxChanges = 1
  MaxOffers = 2
  Nothing = Nothing
SPECIFICATION Spec
INVARIANTS
  AttestedIsFound
  ProvenanceOfTheVersion
  PlacesAreApart
\* Resolve returns.
CHECK_DEADLOCK FALSE
