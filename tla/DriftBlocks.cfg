\* A migration alone, with room for a manual edit and an update after it.
SPECIFICATION Spec
CONSTANTS
  None = None
  a1 = a1
  a2 = a2
  Agents = {a1, a2}
  i1 = i1
  i2 = i2
  Items = {i1, i2}
  Services = {"migration"}
  MaxDocument = 0
  MaxTargetRev = 3
  Holds = {"hold"}
  Requests = {"request"}
  Plans = {"erasure"}
  Admins = {"officer", "counsel"}
  People = {a1, a2}
  Releases = {"release"}
  Clients = {"client"}
  Regions = {"home", "away"}
  Home = "home"
  Budgets = {2}
  Proposals = {"proposal"}
  Agenda = {"plan"}
  Records = {"record"}
  MaxReceipts = 1
  MaxCalls = 1
  MaxResVersion = 2
  MaxToken = 2
  MaxTopology = 4
  MaxDay = 2
  MaxPrompt = 1
  MaxCost = 2
  MaxRev = 2
  MaxPlanWrites = 6
  MaxDraft = 3
  MaxChanges = 2
  MaxSeq = 2
  MaxOffer = 2
  MaxAgreement = 3
  MaxTime = 2
  MaxReplays = 1
  MaxCounts = 3
  MaxOps = 3
  MaxMerges = 2
  MaxSessions = 2
  MaxConcurrent = 1
  MaxAttempts = 2
  MaxRevisions = 2
  MaxEdits = 3
  MaxTasks = 2
SYMMETRY Alike
CHECK_DEADLOCK FALSE
PROPERTIES
    DriftBlocks
