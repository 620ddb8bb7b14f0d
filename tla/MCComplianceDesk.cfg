CONSTANTS
    Cases = {k}
    Calls = {c1, c2, c3}
    NoCase = NoCase
    NoReport = NoReport
    Creations = {n1, n2, n3}
    Readers = {w}
    Requests <- MCRequests
    Filters <- MCFilters
    Limits = {2}
    None = None
SPECIFICATION Spec
SYMMETRY MCSymmetry
INVARIANTS
    PagesMissNothing
    DashboardsAddUp
    DuplicatedReportBlocks
    SubmittedUnlessRedrafted
    AlertedIsStamped
CHECK_DEADLOCK FALSE
