CONSTANTS
    Directives <- GenOrder
    Sources <- SomeSources
    Addons <- BothAddons
    Replicas = 2
    MaxDocs = 2
    MaxProbes = 2
SPECIFICATION FairSpec
INVARIANTS
    EveryDocumentApplied
    HealthCheckHasObject
    NoneForgotten
    PanicHasCause
PROPERTIES
    UnreadyReported
CHECK_DEADLOCK FALSE
