# Verification of microkube

microkube runs a single-node Kubernetes cluster as one daemon, `microkubed`: it
makes certificates, starts etcd and five Kubernetes services as children,
watches their health, and drains the node before it stops them. This directory
holds TLA+ models of its logic, TLC configurations that check them, and TLAPS
proofs of what matters most about them. Paths below are relative to `src/`.

## 1. Inventory

| Component | Code | State | Operations | Called by / calls |
|---|---|---|---|---|
| Base service handler | `pkg/handlers/BaseServiceHandler.go` | `healthCheckRunning` (atomic), channel `healthCheck` (2), `retriesLeft` | `Stop`, `EnableHealthChecks` and its goroutine, `HandleExit`, `healthCheckFun` | embedded in all six handlers; used by the daemon from several goroutines |
| Child processes | `pkg/helpers/CmdHelper.go` | the `exec.Cmd`, its pipes | `Start` (four goroutines: two readers, waiter, interrupt), `Stop` | calls `HandleExit` and the log parsers |
| Validators | `pkg/handlers/etcd`, `pkg/handlers/kube` | none | `healthCheckFun` of each handler | called with the body of each answer |
| Daemon | `cmd/microkubed/cmd/Microkubed.go` | `serviceHandlers`, `gracefulTerminationMode`, health channels, signal channels | `Run`, `start`, `startService`, `checkService`, `waitUntilNodeReady`, exit handler of `log.Fatal` | everything else |
| Kubernetes client | `pkg/kube/KubeClient.go` | `node`, `nodeRef` (unlocked) | `WaitForNode`, `DrainNode`, `findNode`, lookups | main goroutine and drain goroutine; the API server |
| Credentials | `pkg/pki`, `pkg/handlers/kube/KubeconfigHandler.go` | files on disk | `CreateOrLoadCertificates`, `writeCertToFiles`, kubeconfig | at every start of the daemon |
| Address calculation | `internal/cmd/Network.go`, `ArgHandler.go` | none | `CalculateIPRanges`, `evalArgs`, `FindBindAddress` | once per start; the interfaces of the host |
| Log parsers | `internal/log` | line buffer with a lock | `HandleData`, `handleLine` | the two readers of each child |
| Cluster addons | `startServices`, `internal/manifests/KubeManifestBase.go` | Kubernetes client, health object | `ApplyToCluster`, `InitHealthCheck`, `IsHealthy`, reporting goroutines | end of startup; kubectl |
| Manifest code generator | `internal/manifests/ManifestCodegen.go`, `Gen.go`, `cmd/codegen` | list of entries, a flag | `ParseFile`, `parseDoc`, `WriteFiles` | at build time; its output is the constructors of the addons |
| Service configuration | `pkg/handlers/kube/*ConfigHandler.go` | files on disk | `os.Create`, `Execute` | by the constructor of a service, at every start |
| File system helpers, test helpers | `internal/cmd/FSHelpers.go`, `pkg/helpers/TestHelper.go` | none | `EnsureDir`, ... | daemon, tests |

What is hard here: goroutines that share an atomic flag and two bounded
channels (service handler); `log.Fatal` running the same exit handler in
several goroutines at once (daemon); signal handlers that are exchanged during
startup; a cache used by two goroutines without a lock while the cluster
changes (Kubernetes client); a daemon that may be killed between any two files
it writes, and decides at the next start what of them to keep (plugins,
credentials, service configuration); two readers of one line buffer (log
parsers); code whose correctness depends on what another program has generated
(addons). What makes each component correct is the list of properties in
section 4;
`PROJECT.json` lists the hazards, each at its line.

How the parts interact: `Microkubed.startService` calls a handler's `Start`
(child processes), then `EnableHealthChecks(_, false)` in a loop and waits for
each answer; `enableHealthChecks` asks for perpetual checks, whose answers
`checkService` reads. A child that exits reaches the daemon through
`HandleExit` and the exit callback, which is fatal during startup and ignored
later. A signal makes the drain goroutine call `DrainNode`, and then the main
goroutine call `Stop` of each handler. Before any of this `start` copies the CNI
plugins and loads or makes the certificates and the kubeconfig; a service's
constructor writes its configuration just before it starts; once all run,
`startServices` applies the addons, with constructors that the generator wrote
when the daemon was built.

## 2. Modules

| Module | Models | State and actions, and the code |
|---|---|---|
| `SupervisedService` | abstract: what the interface `ServiceHandler` promises of the checks of a service | `mode` is the check under way, `calls` the calls of `Stop` without effect so far, `answers` the messages nobody has received |
| `ServiceHandler` | one service: child (`killable` or not), health checks, Stop protocol; implements `SupervisedService` | `flag`, `tokens`, `messages` are `healthCheckRunning` and the two channels; `EnableLoad`/`EnableStore`, `Send`/`Clear`/`TakeToken`/`Tick`, `StopKill`/`StopLoad`/`StopSend` are the atomic and channel operations of the three functions in order |
| `HealthCheck` | one call of `healthCheckFun` | `waitTime`, `slept` are the backoff; `DialFails`, `Pause`, the verdicts of the six validators as operators |
| `Microkubed` | the life of the daemon with N services; implements one `SupervisedService` for each | `pc`, `cur` are the place of the main goroutine; `at`, `upto`, `step` that of each goroutine inside `log.Fatal` and inside a Stop, whose load and send are two steps; `hung` is a GET that is not answered |
| `KubeClient` | `WaitForNode`, `DrainNode` and the lookups over several runs | one action per request to the API server; what the two goroutines that use the cache at the same time do to it (`Ask`, `Store`, `DrainStart`, `DrainLook`, `DrainFound`) in steps of their own; the cluster is external |
| `Credentials` | certificates and kubeconfig over several runs | one action per `OpenFile`, `pem.Encode` and `Stat`; a failed write leaves a `broken` file, which to the daemon looks like any other; `Killed` and `Restart` |
| `HostFiles` | all that a start prepares on disk: extends `Credentials` with the CNI plugins of `createDirectories` before it and the configuration of the services after it | one action per `Stat`/`Link`, `OpenFile`, `Copy`, `Create` and `Execute`; a fatal error or a kill between any two |
| `IPRanges` | address arithmetic and `FindBindAddress` | operators over octets, and over the kinds of a host's addresses; one step computes the result, or ends the daemon at one of the `Faults` of `evalArgs` |
| `LogParser` | two readers, `HandleData`, `handleLine` of both parsers | bytes known by stream, line and newline, lines by what `handleLine` finds in them; one step per locked section |
| `ManifestCodegen` | the generator and what its output does | documents known by what the generator and its templates branch on; one step per document and per file; `Constructs`, `Objects`, `HealthObject` are the generated constructor |
| `Manifests` | `startServices` and the reports on addons: extends `ManifestCodegen`, whose output it runs | one action per step that may fail; deployments are external |
| `ServiceHandlerProofs`, `HealthCheckProofs`, `MicrokubedProofs`, `KubeClientProofs`, `HostFilesProofs`, `ManifestsProofs`, `IPRangesProofs`, `LogParserProofs` | theorems | section 6 |
| `MC*` | instances for TLC | section 4 |

The refinements. `ServiceHandler` maps its goroutines, flag and channels to
`SupervisedService`: `Mode` is the kind of the one probe that is alive, `Calls`
the tokens in the channel and the stoppers between the load of the flag and
their send, `messages` the answers. `ImplementsService` says that every
behaviour of the handler is one of the service, `EndsChecks` that it has the
service's fairness, too. `Microkubed` has the same service once for each
handler, by `check[s]`, `token[s]` and the length of `health[s]`:
`ImplementsServices` says that the daemon's use of the protocol, from the main
goroutine and all goroutines in `log.Fatal`, is within what the interface
promises.

`Microkubed` is coarser than `ServiceHandler` where no one else can tell: main
alone enables checks, so that `EnableHealthChecks` is one step, and so are
verdict and message of a check, and the kill and the load of the flag in a Stop
(nothing that happens to the flag depends on whether the child still runs or has
just been killed). The load and the send of a Stop, the message and the clearing
of the flag, the read of the mode by the callback of a child and that by the
exit handler of `log.Fatal` are steps of their own. The read of the mode and the
look at the list in the exit handler are one: the list is complete long before
main sets the mode. No pause is taken as long enough for anything.

`Microkubed` takes the verdicts of `HealthCheck` and the end of `DrainNode` as
nondeterministic, and createDirectories, credentials and addons as single steps
that may fail; `HostFiles` and `Manifests` look into those steps.

Abstractions common to all: log output, names, ports and formats are left out;
time is left out except for the pauses of `HealthCheck`, the pause between two
checks and the deadline of `DrainNode`. Kubernetes, etcd, kubectl, the kernel
and the disk are external: the models contain what the code can see of them, in
any order. The Go memory model is taken as sequentially consistent.

Definitions called "Mutant" in a comment are not part of the model: each changes
one definition as a plausible bug would, and is there to show that the
properties notice.

## 3. Fairness

* Goroutines that can take a step take one (weak fairness per goroutine and
  step): the Go scheduler is preemptive between channel operations and system
  calls. `select` picks at random among ready cases, hence strong fairness of
  `TakeToken`: a token that keeps being there is taken.
* `SupervisedService` has weak fairness of the end of a check. `ServiceHandler`
  implements it (`EndsChecks`), hanging requests included, for `Stop` kills the
  child before it asks the check to end. The exception is a child that the
  daemon may not kill (kubelet and kube-proxy under sudo) and that keeps a
  request unanswered for ever: the GET has no timeout
  (`BaseServiceHandler.go:123`), so that its check outlives Stop.
* A GET that hangs lasts until the child exits; neither is fair. Checks that do
  not hang come to a verdict.
* A killed child exits. A running child need not exit, a service need not
  become healthy, a node need not become ready, a signal need not arrive.
* An evicted pod ends within its grace period (`Terminated`). That the
  scheduler, a controller or a deadline does anything is not assumed.
* In `Microkubed`, `DrainReturns` is fair: section 4 says for which clusters
  `DrainNode` returns.
* The addon goroutines wake up from their pauses.

## 4. Runs

| Run | What is asked | Bounds, and why they are enough |
|---|---|---|
| `ServiceHandler_service` | `OneProbe`, `FirstStopsDoNotBlock`; `StopReturns`; the refinement `ImplementsService` with its fairness `EndsChecks` | capacities as in the code; two probes, so that a second one could exist; four calls of Stop by two goroutines, more than the channel takes; three checks, so that single ones precede a perpetual one; requests may hang, of children that can be killed and of such that cannot. One start: the daemon never starts a handler again, and a start behind a Stop would give a child that this Stop has not killed |
| `Microkubed_signal` | `ReturnStopsAll`, `DrainBeforeStop`, `ShutdownEnds`, the refinement `ImplementsServices` | two services: one before kube-proxy, and kube-proxy, whose deferred Stop is special; kube-proxy cannot be killed (sudo). One signal, at any time; one goroutine in `log.Fatal` at a time (`MaxFatal = 1`), for `Microkubed_live` asks what several do. Services between the two would add interleavings of handlers that share nothing |
| `Microkubed_live` | `FatalStopsListed`; `DeathNoticed`, `FatalEnds`, `StartupAnswered` | two services, one of them with a CA file that makes its checks healthy (`Blind`); all goroutines may be in `log.Fatal` at once (`MaxFatal = 4`); requests may hang; two checks per service at startup and two bad ones in a row, the least that tell a counter from a flag; no signal |
| `Microkubed_deferred` | violation: `StartedMeansRunning` | no signal is needed |
| `KubeClient_drain` | `NoPodRuns`, `Schedulable`, `DrainEnds` | two host names (a rename), two pods, one recreated under its name and one that tolerates the cordon, two runs (one to leave state in etcd); the lookups of the information message and of the drain interleave |
| `HostFiles_restarts` | `CertificatesMatch`, `RepairedUnlessTornOrBroken`, `CANeverReplaced`, `ConfiguredByThisRun`, `BridgeStandsForAll` | a directory of each layout, two plugins (the bridge and one behind it), two services with a configuration (one before the kubelet); three runs: one to tear, one to repair, one to go on from that; plugins that may or may not be linked, writes that fail noticed or not |
| `HostFiles_plugins` | violation: `PluginsCopied` | two runs, no disk faults |
| `HealthCheck_verdict` | `HealthyMeansOk`, `PatientEnough`, `CheckEnds` | the constants of the code, 100 and 7000 ms; all six services |
| `HealthCheck_unhealthy` | violation: `UnhealthyReported` | the same |
| `IPRanges_correct` | `ClusterIsSmallestCommon`, `DnsInServiceRange`, `BindsPrivately` | all pairs of ranges over three octets of two bits: there are octets before, in and after the one that differs, and bits before and after the one that differs. All hosts of up to three interfaces, readable or not, with up to two addresses of four kinds; each fault of `evalArgs` |
| `LogParser_streams` | `NoLineWaits`, `OrderKept`, `LinesIntact` | three lines on one stream, two on the other, reads of one to three bytes: a piece may hold less than a line, or two; both parsers, lines of the kinds their formats tell apart |
| `Manifests_generated` | `EveryDocumentApplied`, `HealthCheckHasObject`, `NoneForgotten`, `PanicHasCause`, `UnreadyReported` | both addons; the file of the DNS is any of one or two documents, with up to two probes, documents that do not decode, that are no templates or whose execution fails among them; the dashboard has an object and a deployment with a probe; up to two replicas |

`CHECK_DEADLOCK FALSE` stands in every configuration: each of these programs
ends (the daemon exits, a check concludes, a child and its readers finish) or
reaches a bound on the number of its runs and calls.

What the runs show, and what they except:

* `OneProbe` holds although the flag is loaded and stored in two steps, because
  one goroutine alone enables checks. `FirstStopsDoNotBlock` is tight: with
  the flag left set by `TakeToken`, each further Stop leaves a token, and the
  third for a check that has ended waits for ever. `ServiceHandler.go:46-47`
  says that Stop does nothing then. An orderly shutdown calls Stop once per
  handler, twice for kube-proxy; `FatalEnds` says that concurrent calls of
  `log.Fatal` end the daemon nevertheless.
* `ImplementsService` counts the tokens a Stop may leave behind: a call that met
  a single check keeps its token, which ends a perpetual check that is enabled
  later; the abstract service allows just that (`calls`), and that no call ends
  two checks.
* `StartupAnswered` excepts the two waits that nothing in the code bounds. One is
  for a service that accepts the GET and never answers it. The other follows
  from the order of message and flag: the flag of a check is cleared after its
  answer has been sent, so that a call that main makes in between starts nothing
  (`Missed`). A pause of a second makes that unlikely; the model does not take
  it for impossible.
* `DeathNoticed` excepts kube-proxy (the deferred Stop may leave a token in its
  channel, which ends its perpetual check after one round), services whose CA
  file holds no certificate (their checks are healthy without a request,
  `BaseServiceHandler.go:102-104`), and a perpetual check that was `Missed`.
* `DrainBeforeStop` excepts the daemon that is failing, and the signal that came
  just before `signal.Reset`: it still kills its service later on.
* `HealthyMeansOk` excepts the CA file without a certificate.
* `FatalStopsListed` is about listed services: the one that has just failed to
  get healthy is not listed, and is left running by `log.Fatal`. A goroutine that has read the mode
  before main sets it, and whose exit handler reads it afterwards, stops nothing
  at all; the list it goes through is empty then.
* `NoPodRuns` and `Schedulable` except drains and starts with a failed request,
  which the code only logs; `Schedulable` is about the cordon, the condition
  `Ready` that `WaitForNode` reads may be one of the last run. `DrainEnds` excepts drains in which a pod comes back under its name: the context
  of the daemon has no deadline, and the wait is for names.
* `ConfiguredByThisRun` holds because a configuration is made anew at each start;
  the kubeconfig, which is kept, has no such property: an empty one stays
  (`EnsureKubeconfig`), and kube-controller-manager ends at once with it.
* `BridgeStandsForAll` is about the presence of the plugins, which one test for
  the bridge decides; what is in them is `PluginsCopied`, below.
* `RepairedUnlessTornOrBroken` excepts directories torn after the file that is
  looked for (`ca.pem`) had been created, and files whose write has failed: the
  errors of `pem.Encode` are dropped (`CertManager.go:88, 99`). Both stay as they
  are over all restarts.
* `ClusterIsSmallestCommon` is about ranges that differ in one octet: the loop
  of `CalculateIPRanges` lets the last differing octet decide, so that other
  pairs may get a range that misses one of the two.
* `BindsPrivately` says nothing of a host all of whose addresses are loopback or
  IPv6: `FindBindAddress` gives up on it. When something else in `evalArgs`
  fails, the daemon gives up whatever the addresses.
* `LinesIntact` is about a child that writes to one stream: pieces of stdout
  and stderr share the buffer. It excepts the two messages of etcd that are
  dropped on purpose, and a line of kube that starts with a blank and has the
  format otherwise: the parser takes the first letter of an empty severity
  (`KubeLogParser.go:80`), which is a panic in a goroutine of the daemon.
* `PanicHasCause` names the two cases in which an addon takes the daemon down:
  a document that is no template (all in the repository are), for
  `startServices` asks a nil manifest for its name (`Microkubed.go:422`) before
  it looks at the error, and a write to the temporary file that fails, which is
  a panic (`KubeManifestBase.go:113-114`). What else fails is a warning.
* `UnreadyReported` is about pods that the controller has counted; zero of zero
  replicas is healthy.

The three violation runs:

* `Microkubed_deferred`: `startKubeProxy` defers `kubeProxyHandler.Stop()`
  (`Microkubed.go:326`), which runs when the function returns, so that the
  daemon enters graceful mode, in which "everything has started successfully"
  (`Microkubed.go:56`), with kube-proxy just killed.
* `HealthCheck_unhealthy`: `errors.Wrap(err, ...)` with a nil `err` is nil
  (`EtcdHandler.go:127`, `KubeProxyHandler.go:104`), so that etcd or kube-proxy
  answering that it is not healthy is reported healthy.
* `HostFiles_plugins`: plugins are copied with `io.Copy(in, out)`
  (`Microkubed.go:138`), that is, from the destination, which has just been
  created, to the source, which is open for reading. Nothing is copied and the
  start fails, but the empty file passes `os.Stat` (line 115) at the next start,
  and the kubelet is given it under the name of the plugin. A comment promises
  to "copy them to the right location" (line 104). Where the plugins can be
  linked the code is not reached.

## 5. Not modelled

* The main function that the generator may write (a program for one addon), but
  for the flag that shapes it; names and wording of the generated code.
* `EnsureDir` and the other file system helpers: a stat and a mkdir, whose
  result their callers ignore. The helpers of the tests.
* The command line: flags, their defaults and their parsing. The command lines
  and ports of the services, the information message.
* Extensions, serials and expiry of certificates; addresses in certificates:
  those on disk are kept whatever the address of the host is now.
* Weak memory: `gracefulTerminationMode`, `serviceHandlers` and `k.node` are
  shared without synchronisation; the models interleave their accesses (with the
  steps that are merged named in section 2 and in the modules), and have none of
  the reorderings the Go memory model allows. `k.nodeRef` and `k.node` are
  written in one step: a goroutine that looks in between finds `k.node` empty
  and asks on its own account, as it would before.
* A restart by `HandleExit`: `retriesLeft` is 1, so that the code never makes
  one. The branch is in `ServiceHandler`, and no run takes it.
* Children after the end of the daemon.

## 6. Proofs

Every theorem is about a specification without fairness and holds for all values
of the constants under the assumptions named; invariants are inductive, and a
step lemma has a case for each action.

`ServiceHandlerProofs`, for any sets of probes and stoppers (stoppers finite),
any capacities and any bounds (assumption `ConstantsOK`):

* `TypeCorrect`: `TypeOK` is inductive by itself; the two channel lengths stay
  within their capacities because every send is guarded.
* `AtMostOneProbe`: `OneProbe` is not inductive, for nothing in it says that
  the flag is set while a probe lives, or that a client between its load and
  its store has no rival. `ProbeInv` adds both: an active probe implies
  `flag = 1`, and `client = "store"` implies that no probe is active.
* `FirstStopsReturn`: a stopper can find the channel full only after more
  than `TokenCap` calls. `TokenInv` counts: tokens in the channel and stoppers
  inside a call (`Busy`) together are at most the calls made. The proof uses
  the cardinality theorems for sets that gain or lose one element.
* `HandlerImplementsService`: initial states map to initial states, and every
  step to a step of `SupervisedService` or a stutter. `KindInv` keeps a check of
  one kind from the load of the flag to its end; `ModeIs` computes the mode from
  the one probe alive (`OneProbe`), `BusyGrows` and `BusyShrinks` the calls.

`HealthCheckProofs`, for every first pause and limit (`BackoffConstants`):

* `TypeCorrect` and `BackoffBounded`: `BackoffInv` expresses the time slept by
  the next pause (`slept = waitTime - FirstWait`, as pauses double), from which
  both bounds of `PatientEnough` follow, and that the cap on `slept` is never
  reached.
* `HealthyOnAnswer`: `AnswerInv` ties a healthy verdict to the body it was
  concluded from.

`MicrokubedProofs`, for any number of services, any capacities and any number of
signals (`DaemonConstants`):

* `FatalStopsAllListed`: several goroutines may be in `log.Fatal` while the main
  goroutine goes on and children exit. `FatalInv` says that each of them has
  stopped what is before its place, and `ListInv` that the list only grows, and
  that the main goroutine starts no listed service again. `FatalSteps` and
  `StopSteps` take the exit handler and a Stop apart.
* `ReturnLeavesNone`: `LoopInv` is the same for the loop at the end of `Run`.
* `DrainComesFirst`: `ModeInv` puts mode, drain and loop in their order, and
  `Killers` names the steps that kill a running service.
* `DaemonTypes`: `TriesInv` (main asks for a check only while it has asked for
  fewer than `MaxTries`; `FatalIsFinal`), `RoomInv` (the channels stay within
  their capacities, for every send waits for room) and `ModeTypeInv`, on top of
  `ListInv`, `FatalInv` and `CheckInv`.
* `DaemonImplementsServices`: `CheckInv` ties the state of each check to its
  health channel and to the place of the main goroutine, `CheckAction` sorts all
  steps of the daemon by what they do to a check; a step for one service is a
  stutter of the others.

`KubeClientProofs`, for any pods, any finite set of host names, any number of
runs (`ClientConstants`):

* `DrainLeavesNoPod`: `CordonInv` (the node stays cordoned from the drain's
  patch on) and `PodsInv` (a pod that runs and respects the cordon is among
  those still to evict or to wait for, or a turn of the wait has seen it). A
  drain that has met no fault began with a single node registered
  (`CleanBefore`); on a cordoned node no pod comes up (`NoneComesUp`).
* `WaitLeavesSchedulable`: `WaitInv` follows the answer of `findNode` through the
  uncordon; `findNode` is fatal unless the node is the only one registered, so
  that this one is all of them.

`HostFilesProofs`, for any directories and certificates with distinct names
(`CredentialConstants`), any plugins and any services with distinct names
(`HostConstants`), and any number of runs:

* `CertificatesAlwaysMatch`, `OnlyTornOrBrokenIsIncomplete` and `CAStays`, of
  `Credentials`: `CredInv` describes a directory that nothing is made in as
  empty, full or torn (`Whole`), with certificates that match (`Match`), and the
  one being filled certificate by certificate (`Later`, `Current`, `Earlier`),
  so that what a kill leaves is known at each place.
* `HostImplementsCredentials`: `HostSpec => Spec`, for the steps that are not of
  `Credentials` leave its variables alone, and a fatal error is to it what a
  kill is. The theorems about certificates hold of the whole start with it.
* `BridgeIsEnough`: `PluginInv` says that all plugins before the place of
  `createDirectories` that were found are there, and that nothing goes on
  before all have been looked at.
* `ConfigurationIsFresh`: `ConfigInv` says which services have been started,
  those before `service`, whose files are of this run.

`ManifestsProofs`, for any addons, generated from any files
(`CodegenConstants`, `ManifestsConstants`):

* `NoAddonForgotten`: `PlaceInv`, `ClientInv` and `LedgerInv`; addons before
  `pos` are watched or warned about, not both, the others untouched.
* `NoOtherPanic`: `ClientInv` again (no goroutine without a client),
  `GeneratorInv`, by which the entries of a constructor name documents of its
  own file, so that the error of a constructor is one of them (`BlameInv`), and
  `WriteInv` and `PanicInv`: there is no other panic.
* `HealthChecksHaveObjects`: `CodeInv` says, of the manifest that the generator
  works on and of those it has written, that the entries are the code of the
  documents parsed so far (`CodeOf`): one of its own for each document, in their
  order, and health entries just when the flag is set. What a health entry
  names is a document (`GeneratorInv`), so that the last one is not 0.
* `EveryDocumentIsApplied`: `CodeInv` again, with `AppliedInv`: what kubectl has
  applied without an error is whole and comes from code that has been built.

`IPRangesProofs`, for octets of any number and width, and hosts with any number
of interfaces and addresses (`WidthsOK`). The laws of powers of two and of
division that it needs are lemmas (`Pow2Step` and what follows it):

* `DnsIsInRange`: the increment wraps within the last octet, which the mask
  clears.
* `BindsToPrivate`: the places of a host are ordered as the loops visit them,
  and each set of places that is not empty has a first one.
* `ClusterIsSmallest`: `Top(x, k)`, the first `k` bits of an octet, turns
  masking and comparing bit by bit into arithmetic. Two networks that differ in
  one octet agree up to the first bit that differs there (`Agree`), which is
  where `BaseOffset` ends, and in no longer prefix.

`LogParserProofs`, for any streams, any lines of any lengths and any `Piece`
(`LogConstants`). `FlattenSeq` is a fold of the community modules: that it turns
concatenation into concatenation is `FlattenConcat`.

* `LinesDoNotWait`: `WaitInv` says that with a line in the buffer some reader is
  about to look for it; a second reader may get the lock in between, but only a
  call that has found no line leaves for the next `Read`.
* `OrderIsKept`: `OrderKept` is inductive with the types (`ParserInv`). Whether
  it finds a line or not, `HandleData` puts its piece behind all that has come
  in before (`PastGrows`), of which the bytes of each stream are a part
  (`BytesOfConcat`).
* `LinesStayIntact`: `IntactInv` says that as long as one stream only has been
  written to, the lines handled are the first ones of that stream. The next one
  is again a line of it (`NextLine`), because by `OrderKept` what has been
  handled, the buffer and what is to come make up the lines of the stream, and
  these have a newline at their end and nowhere else. A whole line is of its own
  kind (`KindOfLine`), and leaves an entry unless it ends the daemon
  (`LineIsLogged`).

The theorems of the library for induction take an operator, which the provers
cannot instantiate. Where induction over numbers or lengths is needed (powers of
two, division, flattened sequences, first places), it is done with a set of
numbers: `SetInduction` follows from the well-foundedness of `<`.

Only model-checked: all liveness (`StopReturns`, `EndsChecks`, `CheckEnds`,
`DeathNoticed`, `FatalEnds`, `StartupAnswered`, `ShutdownEnds`, `DrainEnds`,
`UnreadyReported`), for fairness and ENABLED are outside the prover's reach.
Each invariant and each action property that a passing run checks is a theorem.

## 7. Plan

Done, the most important behaviour first: the models `ServiceHandler`,
`Microkubed`, `IPRanges`, `Credentials`, `KubeClient`, `HealthCheck`,
`LogParser`, `Manifests`; the abstract `SupervisedService` and both refinements;
`HostFiles` and `ManifestCodegen`, which complete the start and the addons; the
proofs above, the refinements among them.

Left:

1. `Microkubed` with the single steps "prepare" and "deploy" replaced by
   `HostFiles` and `Manifests`: today these meet only in that the one starts
   when the other is done.
2. An abstract line log (each stream a sequence of lines), which `LogParser`
   implements as long as only one stream is used.
3. The safety half of the liveness properties as theorems: that where a
   goroutine waits, what it waits for is on its way (a token, an answer, room in
   a channel), for any number of services and stoppers.
