\* Two experiments over one placement and another.
SPECIFICATION Spec
CONSTANTS
  None = None
  a1 = a1
  a2 = a2
  Agents = {a1, a2}
  i1 = i1
  i2 = i2
  Items = {i1, i2}
  Scopes = {"one", "other"}
  Configurations <- Campaigns
  Visitors <- Visiting
  Placements = {"hero", "sidebar"}
  Members = {"member"}
  Operators = {"operator"}
  Writers <- Everybody
  MaxAttempts = 2
  MaxTargeting = 3
  MaxRevision = 2
  MaxObservations = 2
  MaxVersion = 4
  MaxSlots = 3
  MaxGoing = 1
  MaxChecks = 3
  MaxSwitches = 1
  MaxCloses = 2
  MaxPatches = 2
  MaxSends = 1
  MaxReloads = 1
  MaxBootstraps = 2
  Revisions = {"r1", "r2", "r3"}
  MaxRows = 4
  MaxEntryRev = 2
  MaxWrites = 2
  Services = {"experiments"}
SYMMETRY Alike
CHECK_DEADLOCK FALSE
PROPERTIES
    GuardrailHolds
