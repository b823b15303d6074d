CONSTANTS
    Dirs <- BothDirs
    Certs <- BothCerts
    KubeDir = "kubetls"
    Plugins <- TwoPlugins
    Bridge = "bridge"
    Configured <- TwoServices
    Kubelet = "kubelet"
    MayNotLink = TRUE
    DiskFaults = FALSE
    MaxRuns = 2
SPECIFICATION HostSpec
INVARIANTS
    PluginsCopied
CHECK_DEADLOCK FALSE
