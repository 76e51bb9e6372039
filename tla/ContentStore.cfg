\* Both adapters: edits, releases, deletions, exports and imports.
SPECIFICATION Spec
CONSTANTS
    Entry = {e1, e2}
    Rev = {r1, r2, r3}
    Scope = {s1, s2}
    None = None
    Unchecked = Unchecked
    MaxAudit = 4
    MaxExports = 1
SYMMETRY Symmetry
INVARIANTS
    StoreSound
    RevisionsImmutable
    AuditExplainsPointers
    ArchiveIsSnapshot
PROPERTIES
    ScopeIsolation
    TreeSpec
CHECK_DEADLOCK FALSE
