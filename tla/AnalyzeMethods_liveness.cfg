SPECIFICATION FairSpec
CONSTANTS
    m1 = m1
    m2 = m2
    m3 = m3
    Method = {m1, m2, m3}
    NumClasses = 2
    MethodsOf <- TwoClasses
    State <- MCState
    Bottom = Bottom
    MoreSpecific <- MCMoreSpecific
    FirstState <- MCFirst
    ChangeThis <- MCChangeThis
    TwoPass = {m2}
    Outcomes <- MCOutcomes
    IssueKind <- MCIssueKind
    Issue <- MCIssue
    NumSlots = 2
    PoolThreads = 2
    NoJob = NoJob
PROPERTIES
    FixpointEventually
    TerminationIfPrompt
