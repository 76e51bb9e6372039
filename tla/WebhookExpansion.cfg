\* A webhook that is switched on or off, and a replay, as the only destination.
SPECIFICATION Spec
CONSTANTS
    w1 = w1
    w2 = w2
    Worker = {w1, w2}
    Owner = {w1, w2}
    Name <- UniqueNames
    Event = {e1}
    Entry = {x1}
    EntryOf <- OneEntry
    Fixed = {}
    Removable = {}
    Sub = {hook}
    None = None
    MaxEventAttempts = 1
    MaxJobAttempts = 1
    Limit = 2
    MaxReplays = 1
    MaxCrashes = 1
    MaxSlips = 1
    MaxToggles = 1
SYMMETRY WorkersAlike
INVARIANTS
    SucceededMeansExpanded
    OneDeliveryPerAttempt
