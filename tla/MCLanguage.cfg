SPECIFICATION LanguageSpec
CONSTANTS
  Files = {"a", "b", "c"}
  Units <- ProgramUnits
  TypeNames <- ProgramTypeNames
  Element <- NoElements
  Dotted <- DottedTypes
  NoTree = NoTree
  None = None
  NoNode = NoNode
  MaxChanges = 2
  IntTypes = {"uint256"}
  BytesTypes = {"bytes"}
  BuiltinTypes = {"uint256", "bool"}
  Keywords = {"require"}
  Assignments = {"=", "+="}
  Updates = {"+="}
INVARIANTS
  ExtractionIsOfTheProgram AnswersFitTheGraph ResolvesAsSolidity HintsFitTheRuns NavigationAgrees FramesFitTheRun DecodesWhatWasEncoded TextsAreReadAsSolidity ImportsReachTheirFile
CHECK_DEADLOCK FALSE
