----------------------------- MODULE HostFiles -----------------------------
(***************************************************************************)
(* Everything that a start of the daemon prepares on the host's disk, in   *)
(* its order (start(), Microkubed.go:551-567): the CNI plugins of          *)
(* createDirectories, the certificates and the kubeconfig of Credentials,  *)
(* and the configuration file that the constructor of a service writes     *)
(* (KubeSchedulerConfigHandler.go, KubeletConfigHandler.go,                *)
(* KubeProxyConfigHandler.go).  The daemon may be killed between any two   *)
(* writes and is started again over what it has left behind.               *)
(*                                                                         *)
(* The three parts decide differently what to do with an old file: a       *)
(* plugin and a kubeconfig that exist are kept, one certificate stands for *)
(* its directory, a service's configuration is always made anew.           *)
(***************************************************************************)
EXTENDS Credentials

CONSTANTS
    Plugins,     \* the CNI plugins, in the order they are copied
    Bridge,      \* the plugin whose presence the kubelet looks at
    Configured,  \* the services with a configuration file, in start order
    Kubelet,     \* the service that is given the plugins
    MayNotLink   \* TRUE: the plugins may be on another file system

ASSUME HostConstants ==
    /\ Plugins \in Seq(STRING) /\ Configured \in Seq(STRING)
    /\ \E i \in 1..Len(Plugins) : Plugins[i] = Bridge
    /\ \E i \in 1..Len(Configured) : Configured[i] = Kubelet
    /\ \A i, j \in 1..Len(Configured) : Configured[i] = Configured[j] => i = j
    /\ MayNotLink \in BOOLEAN

VARIABLES
    cni,       \* what the CNI directory holds under each plugin's name
    found,     \* plugins that FindBinary has found in this run
    plugin,    \* index in Plugins; beyond the last when they are done
    copying,   \* what is done about the plugin: see Copying
    conf,      \* what each service's configuration file holds
    service,   \* index in Configured
    making,    \* what is done for the service: see Making
    started,   \* services of Configured started by this run
    ownCni     \* was the kubelet given the CNI directory of the daemon?

pluginVars  == <<cni, found, plugin, copying>>
serviceVars == <<conf, service, making, started, ownCni>>
hostVars    == <<vars, pluginVars, serviceVars>>

PluginSet  == {Plugins[i] : i \in 1..Len(Plugins)}
ServiceSet == {Configured[i] : i \in 1..Len(Configured)}
Copying == {"find", "open", "copy"}
Making  == {"create", "execute", "start"}

HostTypeOK ==
    /\ TypeOK
    /\ cni \in [PluginSet -> {"absent", "empty", "plugin"}]
    /\ found \subseteq PluginSet
    /\ plugin \in 1..Len(Plugins) + 1
    /\ copying \in Copying
    /\ conf \in [ServiceSet -> Contents]
    /\ service \in 1..Len(Configured) + 1
    /\ making \in Making
    /\ started \subseteq ServiceSet
    /\ ownCni \in BOOLEAN

HostInit ==
    /\ Init
    /\ cni = [p \in PluginSet |-> "absent"]
    /\ found = {} /\ plugin = 1 /\ copying = "find"
    /\ conf = [s \in ServiceSet |-> Absent]
    /\ service = 1 /\ making = "create"
    /\ started = {} /\ ownCni = FALSE

-----------------------------------------------------------------------------
(* createDirectories: the CNI plugins.                                      *)

PluginsDone  == plugin > Len(Plugins)
Plugin       == Plugins[plugin]
AtPlugin(at) == pc = "stat" /\ ~PluginsDone /\ copying = at

NextPlugin == plugin' = plugin + 1 /\ copying' = "find"

\* log.Fatal: nothing is running yet, or Microkubed stops it.
Fatal == pc' = "down" /\ UNCHANGED <<disk, config, run, dir, cert, torn>>

\* FindBinary finds the plugin in none of its directories: it is skipped.
SkipPlugin ==
    /\ AtPlugin("find")
    /\ NextPlugin
    /\ UNCHANGED <<vars, cni, found, serviceVars>>

\* Mutant: the bridge that is there already stands for the other plugins.
PlacePluginByBridge ==
    /\ AtPlugin("find")
    /\ found' = found \cup {Plugin}
    /\ IF cni[Bridge] # "absent"
         THEN NextPlugin /\ UNCHANGED cni
         ELSE \/ cni' = [cni EXCEPT ![Plugin] = "plugin"] /\ NextPlugin
              \/ MayNotLink /\ copying' = "open" /\ UNCHANGED <<cni, plugin>>
    /\ UNCHANGED <<vars, serviceVars>>

\* It is found: os.Stat of the destination decides whether there is anything
\* to do, and os.Link does it where source and destination share a device.
PlacePlugin ==
    /\ AtPlugin("find")
    /\ found' = found \cup {Plugin}
    /\ IF cni[Plugin] # "absent"
         THEN NextPlugin /\ UNCHANGED cni
         ELSE \/ cni' = [cni EXCEPT ![Plugin] = "plugin"] /\ NextPlugin
              \/ MayNotLink /\ copying' = "open" /\ UNCHANGED <<cni, plugin>>
    /\ UNCHANGED <<vars, serviceVars>>

\* os.Remove, os.Open of the source and os.OpenFile of the destination, which
\* creates it empty; an error of either is fatal.
OpenPlugin ==
    /\ AtPlugin("open")
    /\ \/ /\ cni' = [cni EXCEPT ![Plugin] = "empty"]
          /\ copying' = "copy"
          /\ UNCHANGED vars
       \/ Fatal /\ UNCHANGED <<cni, copying>>
    /\ UNCHANGED <<found, plugin, serviceVars>>

\* io.Copy(in, out) copies the destination, empty, to the source: no byte is
\* copied, which is fatal.
CopyPlugin ==
    /\ AtPlugin("copy")
    /\ Fatal
    /\ UNCHANGED <<pluginVars, serviceVars>>

-----------------------------------------------------------------------------
(* CreateOrLoadCertificates, findBinaries and the kubeconfig.               *)

CredentialsNext ==
    /\ PluginsDone
    /\ Ensure
    /\ UNCHANGED <<pluginVars, serviceVars>>

\* findBinaries: etcd or hyperkube is nowhere.
BinaryMissing ==
    /\ pc = "statConfig"
    /\ Fatal
    /\ UNCHANGED <<pluginVars, serviceVars>>

-----------------------------------------------------------------------------
(* The services with a configuration file.                                  *)

Service      == Configured[service]
Makes(at)    == pc = "ready" /\ service <= Len(Configured) /\ making = at

\* The services that have no such file need the kubeconfig: without one
\* kube-controller-manager ends at once, which is fatal.
ControllerManagerFails ==
    /\ Makes("create")
    /\ config.state # "written"
    /\ Fatal
    /\ UNCHANGED <<pluginVars, serviceVars>>

\* Mutant: a configuration that exists is kept, as the kubeconfig is.
CreateConfigOnce ==
    /\ Makes("create")
    /\ config.state = "written"
    /\ IF conf[Service].state = "absent"
         THEN /\ conf' = [conf EXCEPT ![Service] = Now("empty")]
              /\ making' = "execute"
         ELSE making' = "start" /\ UNCHANGED conf
    /\ UNCHANGED <<vars, pluginVars, service, started, ownCni>>

\* os.Create truncates what a former run has left; its error is fatal.
CreateConfig ==
    /\ Makes("create")
    /\ config.state = "written"
    /\ \/ /\ conf' = [conf EXCEPT ![Service] = Now("empty")]
          /\ making' = "execute"
          /\ UNCHANGED vars
       \/ Fatal /\ UNCHANGED <<conf, making>>
    /\ UNCHANGED <<pluginVars, service, started, ownCni>>

\* tmpl.Execute writes the file; its error makes the constructor fail.
ExecuteTemplate ==
    /\ Makes("execute")
    /\ \/ /\ conf' = [conf EXCEPT ![Service] = Now("written")]
          /\ making' = "start"
          /\ UNCHANGED vars
       \/ DiskFaults /\ Fatal /\ UNCHANGED <<conf, making>>
    /\ UNCHANGED <<pluginVars, service, started, ownCni>>

\* Start: the kubelet is given the daemon's own CNI directory when there is a
\* bridge in it.
StartConfigured ==
    /\ Makes("start")
    /\ started' = started \cup {Service}
    /\ ownCni' = IF Service = Kubelet THEN cni[Bridge] # "absent" ELSE ownCni
    /\ service' = service + 1
    /\ making' = "create"
    /\ UNCHANGED <<vars, pluginVars, conf>>

-----------------------------------------------------------------------------
HostKilled == Killed /\ UNCHANGED <<pluginVars, serviceVars>>

HostRestart ==
    /\ Restart
    /\ found' = {} /\ plugin' = 1 /\ copying' = "find"
    /\ service' = 1 /\ making' = "create"
    /\ started' = {} /\ ownCni' = FALSE
    /\ UNCHANGED <<cni, conf>>

HostNext ==
    \/ SkipPlugin \/ PlacePlugin \/ OpenPlugin \/ CopyPlugin
    \/ CredentialsNext
    \/ BinaryMissing
    \/ ControllerManagerFails \/ CreateConfig \/ ExecuteTemplate
    \/ StartConfigured
    \/ HostKilled \/ HostRestart

HostSpec == HostInit /\ [][HostNext]_hostVars

-----------------------------------------------------------------------------
(* Properties.                                                              *)

\* A service never runs with a configuration of an earlier run, which may name
\* other ports and addresses, nor with one that a kill or a full disk has cut
\* short (KubeletConfigHandler.go:70-75 and its two siblings).
ConfiguredByThisRun ==
    pc # "down" => \A s \in started : conf[s] = Now("written")

\* The one test that the kubelet makes, for the bridge, is enough: when it is
\* given the daemon's CNI directory, every plugin that this run has found is
\* in it, whatever earlier runs had found (Microkubed.go:112-150,
\* KubeletHandler.go:98-106).
BridgeStandsForAll ==
    Kubelet \in started /\ ownCni => \A p \in found : cni[p] # "absent"

\* "copy them to the right location" (Microkubed.go:104): what the kubelet
\* finds under the name of a plugin is the plugin.
PluginsCopied ==
    Kubelet \in started /\ ownCni => \A p \in found : cni[p] = "plugin"

=============================================================================
