SPECIFICATION FairSpec
CONSTANTS
    Conns = {a, b}
    Probes = {p}
    Configs <- SomeConfigs
INVARIANTS PoolOutlivesHandlers CleanExit
           ValidatedIsNotRefused LateProbeIsNotReady
PROPERTIES SignalEnds FailureEnds
CHECK_DEADLOCK FALSE
