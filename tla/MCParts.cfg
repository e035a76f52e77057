SPECIFICATION PartsSpec
CONSTANTS
  Files = {t1, t2, t3}
  Names <- TableNames
  Trees <- TableTrees
  Positions = {1, 2}
  NoTree = NoTree
  NoFile = NoFile
  Queries <- TableQueries
  MaxSpawns = 2
  MaxExprs = 2
  Commands = {c1, c2}
  MaxInstances = 2
  LastPort = 1
  PresetSize = 2
  MaxSteps = 3
  MaxDepth = 3
  TestContracts = {"A", "AB"}
  TestNames = {"t", "tu"}
  Containing <- NamesContaining
  Contents <- TestFiles
  MaxEdits = 1
  Sources = {f, g}
  MaxSaves = 1
  MaxCandidates = 3
  Checked = {f, g, h}
  Known = {f, g}
  Analysed = {f, h}
  MaxTexts = 3
  MaxBuilds = 2
  Scopes = {{}, {"tests"}}
  Nodes = {"n"}
  MaxOperations = 2
  Abis <- ReadableAbis
  Chains <- ChainUrls
  Addresses = {"x", "bad"}
  Valid = {"x"}
  Replies = {"ok"}
  Inspected = {"C", "D"}
  Bodies <- InspectedBodies
  MaxInspections = 4
  ScannedFiles = {"f", "g"}
  Finds <- AnalysersFind
  Settings <- EnabledTools
  MaxScanned = 1
  MaxScans = 3
  Hits <- RunsHit
  PaintedLines = {1, 2, 3}
  MaxCoverages = 3
  Snapshots <- GasSnapshots
  Editors <- TestsOfEditors
  MaxRefreshes = 3
  CallFiles = {"a", "b"}
  CallTexts <- TextsThatCall
  CallRequests = {1, 2}
  CallBatch = 1
  CallNames = {"f"}
  MaxAsks = 3
INVARIANTS
  PartsTypeOK TablesFollowTheTrees EvaluationsAreKept InstancesAreApart ContextIsRight
  TestsAreReported MutantsAreApart ProblemsAreCurrent ShowsWhatBoxesSay CallsOnlyRead
  ShowsWhatIsOnDisk ShowsTheLastRun CoverageIsOfOneRun ChangesAddUp CallsFitTheTexts
PROPERTIES
  NoBreakpointPassed VerdictIsItsOwn
CHECK_DEADLOCK FALSE
