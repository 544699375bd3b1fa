SPECIFICATION MCFairSpec
CONSTANTS
  Texts <- MCTexts
  Sections = 2
  Indexed <- MCIndexed
  MaxTimers = 2
  RNames <- MCNames
  RNumbers <- MCNumbers
  RChildren <- MCChildren
  RQueries <- MCQueries
  NNodes <- MCNodes
  NLazy <- MCLazy
  NUrl <- MCUrl
  NIndexed <- MCPlaces
  NFile <- MCFile
  NPages = {"p", "q"}
  NHashes <- MCHashes
  NMaxScripts = 1
  Tabs = {t1, t2}
  Windows = {300, 767, 768, 1000}
  Drags = {0, 150, 250, 500}
  barWidth = 6
  FRows <- MCRows
  Foldables = {s1}
  Fragments <- MCFragments
  MAnchors = {"f", "m", "s"}
  AnchorParent <- MCAnchorParent
  RowsOf <- MCRowsOf
  MaxPending = 2
CHECK_DEADLOCK FALSE
INVARIANTS BResultsCurrent RShowsMatches RUpUndoesDown  DFrontIsChosen  FTreeIsOpen MMarkHasTimer MPastesCode
PROPERTIES NSelectionComes BTypedIsSearched
