SPECIFICATION Spec
CONSTANTS
    c1 = c1
    c2 = c2
    w1 = w1
    tenantA = tenantA
    process = process
    Calls <- TwoCalls
    Workers <- OneWorker
    Requests <- AllRequests
    Refusals <- RefusalsAndRedirect
    Results <- FewResults
    ProcessClient = process
    NoClient = NoClient
    Unbound = Unbound
    Nothing = Nothing
INVARIANTS
    VerifiedMeansWritten
