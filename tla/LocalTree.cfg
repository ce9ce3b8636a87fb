CONSTANTS
  Languages = {"js", "py"}
  Tables <- mcTables
  Names <- mcNames
  Constructs <- mcConstructs
  Rank <- mcRank
  Entries <- mcEntries
  Blank = ""
  Covers <- mcCovers
  Paths <- mcPaths
  Dirs <- mcDirs
  Root = "."
  Above <- mcAbove
  Position <- mcPosition
  Excluded <- mcExcluded
  Unclean <- mcUnclean
  Language <- mcLanguage
  Contents <- mcContents
  TextOf <- mcTextOf
  DeclaredBy <- mcDeclaredBy
  NameIn <- mcNameIn
  Admitted <- mcAdmitted
  Trees <- mcTrees
  LintTrees <- mcLintTrees
  Edits <- mcEdits
  MaxEdits = 2
SPECIFICATION Spec
INVARIANTS
  GenuineInstallIsAccepted
  AcceptedIsWhatWasSigned
  StrictMeansSigned
  SignedIsValid
  FindingsAreTheGap
  SkippedIsNoted
  LintIsAdvisory
\* Both commands end.
CHECK_DEADLOCK FALSE
