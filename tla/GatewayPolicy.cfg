SPECIFICATION Spec
CONSTANTS
    Requests = {r1}
    Configs <- AllConfigs
    Inputs <- AllInputs
    Outcomes <- AllOutcomes
    Clients = {c1}
    NilClient = NilClient
    InitialCap = 0
    MaxCap = 1
INVARIANTS ForwardedOnlyIfAllowed DeliveredOnlyIfValid LogOnlyReports
           DisabledIsTransparent ShadowOnlyIfUnknown
PROPERTIES ImplementsFirewall
