CONSTANTS
    Dirs <- BothDirs
    Certs <- BothCerts
    KubeDir = "kubetls"
    Plugins <- TwoPlugins
    Bridge = "bridge"
    Configured <- TwoServices
    Kubelet = "kubelet"
    MayNotLink = TRUE
    DiskFaults = TRUE
    MaxRuns = 3
SPECIFICATION HostSpec
INVARIANTS
    CertificatesMatch
    RepairedUnlessTornOrBroken
    ConfiguredByThisRun
    BridgeStandsForAll
PROPERTY
    CANeverReplaced
CHECK_DEADLOCK FALSE
