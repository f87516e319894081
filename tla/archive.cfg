CONSTANTS
    p1 = p1  p2 = p2  p3 = p3
    r1 = r1  r2 = r2
    c1 = c1  c2 = c2
    None = None
    Process = {p1, p2}
    Run = {r1, r2}
    Checkpoint = {c1}
    MaxRecords <- UnevenRuns
    LockTimeouts = TRUE
    Stalls = FALSE
    Faults = TRUE
SPECIFICATION Spec
SYMMETRY Symmetry
CHECK_DEADLOCK FALSE
INVARIANTS OneWriter SuspendedResumes
PROPERTIES OnlyLateReclaimsFallBehind ImplementsHistory
