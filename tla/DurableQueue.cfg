\* Two workers that crash, overrun leases and take over each other's claims.
SPECIFICATION FairSpec
CONSTANTS
    w1 = w1
    w2 = w2
    Worker = {w1, w2}
    Owner = {w1, w2}
    Name <- UniqueNames
    Event = {e1}
    Entry = {x1}
    EntryOf <- OneEntry
    Fixed = {search}
    Removable = {search}
    Sub = {}
    None = None
    MaxEventAttempts = 2
    MaxJobAttempts = 2
    Limit = 2
    MaxReplays = 0
    MaxCrashes = 1
    MaxSlips = 1
    MaxToggles = 0
INVARIANTS
    AttemptsCounted
PROPERTIES
    SettledStays
    EveryRowSettles
