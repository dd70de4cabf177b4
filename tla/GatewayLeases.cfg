SPECIFICATION FairSpec
CONSTANTS
    Requests = {r1, r2}
    Configs <- FewConfigs
    Inputs <- FewInputs
    Outcomes <- FewOutcomes
    Clients = {c1, c2, c3}
    NilClient = NilClient
    InitialCap = 1
    MaxCap = 1
INVARIANTS LeaseMatchesRequest
PROPERTIES RequestAnswered
