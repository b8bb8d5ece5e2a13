CONSTANTS
  NumNodes = 4
  MaxSrc = 2
  MaxRoots = 2
  Batches = 2
  Epochs = {0, 1, 2}
  AttributeValues = {0, 1}
  WarmUp = 1
  Rounds = 2
  MaxRuns = 2
  Slots = 2
  HistoryLimits = {1,3}
  MaxWork = 3
  MaxCaptures = 2
  Ticks = 2
  Images = 2
  Wrong = {1}
  Side = 5
  Radius = 1
  Reach = 3
  MaxEvents = 5
  Campaign <- CampaignTried
  Controls <- ControlsTried
  MaxScripts = 2
  Groups <- GroupsTried
  Classes <- ClassesTried
  Guide <- GuideTried
  Capability <- CapabilityTried
  NavSections <- NavTried
  Mentions <- MentionsTried
  Drafts <- DraftsTried
  SeeLists <- SeeListsTried
  Diagrams = {"layer_stack"}
  EnvPage = "reference-env"
  Switches <- SwitchesTried
  Deferred = "sum"
  MaxBuilds = 2
  MaxSiteEdits = 2
  Operators <- OperatorsTried
  Tests <- TestsTried
  MaxSuiteEdits = 3
  MaxSessions = 2
  Suites <- SuitesTried
  Revisions <- RevisionsTried
  Floors = {0, 20}
  Ring = 2
  WarmUps = 1
  Reps = 2
  MaxBenches = 2
  FileKinds = {"header", "class", "kernel", "switch", "test"}
  Names = {"f", "g"}
  MaxLines = 4
  Options <- TreesTried
  SearchWindow = 1
  MinimumFiles = 3
  MaxTreeEdits = 2
SPECIFICATION ToolsSpec
INVARIANTS
  SourcesFirst ExactlyNeeded
  RunHonest
  CaptureHonest
  PanesDescribeCanvas
  ScriptsHonest
  SiteWhole
  NothingLost
  AlarmMeansChange
  
  GreenMeansHeld
PROPERTIES
  SearchEnds
CHECK_DEADLOCK FALSE
