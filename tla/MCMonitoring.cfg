CONSTANTS
    Evaluations = {r1, r2, r3}
    a = a
    b = b
    Subjects = {a, b}
    Summaries <- MCSummaries
    Requests <- MCRequests
    Looked = {"esg"}
SPECIFICATION MCSpec
INVARIANTS
    DuplicatesNeedOverlap
    CasesAndFindingsAgree
    DashboardShowsCases
PROPERTIES
    DuplicatedTitleBlocks
    CommittedSummaryShows
    EvaluationsEnd
CHECK_DEADLOCK FALSE
