\* Each of the services, two agents and two items at a time.
SPECIFICATION Spec
CONSTANTS
  None = None
  a1 = a1
  a2 = a2
  Agents = {a1, a2}
  i1 = i1
  i2 = i2
  Items = {i1, i2}
  Services = {"governance", "catalog", "regions", "gateway", "authoring", "knowledge", "migration",
    "federation", "analytics", "collaboration", "identity", "emergency", "library", "editor"}
  MaxDocument = 4
  MaxTargetRev = 2
  Holds = {"hold"}
  Requests = {"request"}
  Plans = {"erasure"}
  Admins = {"officer", "counsel"}
  People = {a1, a2}
  Releases = {"release"}
  Clients = {"client"}
  Regions = {"home", "away"}
  Home = "home"
  Budgets = {2}
  Proposals = {"proposal"}
  Agenda = {"plan"}
  Records = {"record"}
  MaxReceipts = 1
  MaxCalls = 1
  MaxResVersion = 2
  MaxToken = 2
  MaxTopology = 4
  MaxDay = 2
  MaxPrompt = 1
  MaxCost = 2
  MaxRev = 2
  MaxPlanWrites = 6
  MaxDraft = 3
  MaxChanges = 1
  MaxSeq = 2
  MaxOffer = 2
  MaxAgreement = 3
  MaxTime = 2
  MaxReplays = 1
  MaxCounts = 3
  MaxOps = 3
  MaxMerges = 2
  MaxSessions = 2
  MaxConcurrent = 2
  MaxAttempts = 2
  MaxRevisions = 2
  MaxEdits = 3
  MaxTasks = 2
SYMMETRY Alike
CHECK_DEADLOCK FALSE
INVARIANTS
    ErasureSound
    TrustIsEarned
    BudgetCovers
    AppliedOnce
    CheckpointCovers
    CompetingRecorded
    AccessFollowsDirectory
    DeliveredWasInspected
    EditsSafe
PROPERTIES
    HoldProtects
    SuspensionBlocks
    TopologyHeld
    DecidedStays
    AgreementBinds
