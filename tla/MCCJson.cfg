SPECIFICATION JsonSpec
CONSTANTS
  Texts <- ManyTexts
  NestingLimit = 2
  MallocMayFail = TRUE
  Strings <- ShortStrings
  Literals16 <- TwoPieces
  Node = {1, 2, 3, 4, 5, 6, 7, 8, 9, 10, 11, 12}
  Keys = {"a", "A", "b", "c"}
  Folded <- FoldNames
  Kinds = {"array", "object"}
  MaxItems = 4
  Given <- TwoObjects
  MaxCalls = 5
  Items <- ManyItems
  DefaultSize = 8
  PrintSizes = {0, 1, 2, 7, 12, 16, 20, 23, 26}
  INT_MAX = 30
  PrintMayFail = TRUE
INVARIANTS
  CJsonTypeOK
  AcceptsExactlyJson
  ParserKeepsItsMemory
  StringsSurvive
  ListsAreSound
  CompareIsEquality
  PrintIsWhole
CHECK_DEADLOCK FALSE
