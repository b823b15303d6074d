----------------------------- MODULE Manifests -----------------------------
(***************************************************************************)
(* The addons of the cluster: startServices (cmd/Microkubed.go) constructs *)
(* a manifest for each, applies it with kubectl, prepares its health check *)
(* and starts a goroutine that reports on it from then on, with IsHealthy  *)
(* of internal/manifests/KubeManifestBase.go.  The constructors are what   *)
(* the generator has made of the files (ManifestCodegen): the daemon runs  *)
(* when it has been built.                                                 *)
(*                                                                         *)
(* Of an addon's deployment, that of its health object, there is what      *)
(* IsHealthy looks at: whether it exists and the replicas its controller   *)
(* has counted.  Kubernetes changes it at any time.                        *)
(***************************************************************************)
EXTENDS ManifestCodegen

CONSTANTS
    Addons,     \* the enabled addons, in the order of the code
    Replicas    \* the pods of a deployment at most

ASSUME ManifestsConstants ==
    /\ Addons \in Seq(Manifest) /\ IsInjective(Addons)
    /\ Replicas \in Nat

Addon == ToSet(Addons)

VARIABLES
    pos,         \* the addon startServices works on
    step,        \* what it does next
    panicked,    \* why the daemon has panicked, if it has
    warned,      \* addons startServices has warned about
    client,      \* addons whose client is set
    watch,       \* the goroutine that reports on an addon
    verdict,     \* what that goroutine has reported last
    deployment   \* the deployment of an addon, as the API server shows it

daemon == <<pos, step, panicked, warned, client, watch, verdict, deployment>>

vars == <<generator, daemon>>

Panics == {"nil manifest", "write", "no client"}

Statuses == [exists : BOOLEAN, replicas : 0..Replicas, ready : 0..Replicas]

TypeOK ==
    /\ pos \in 1..Len(Addons) + 1
    /\ step \in {"construct", "apply", "init", "watch", "done"}
    /\ panicked \in Panics \cup {"no"}
    /\ warned \subseteq Addon /\ client \subseteq Addon
    /\ watch \in [Addon -> {"none", "sleep", "poll"}]
    /\ verdict \in [Addon -> {"none", "healthy", "unhealthy"}]
    /\ deployment \in [Addon -> Statuses]

\* An earlier run of the daemon may have left the deployments in etcd.
Init ==
    /\ CodegenInit
    /\ pos = 1
    /\ step = IF Addons = <<>> THEN "done" ELSE "construct"
    /\ panicked = "no"
    /\ warned = {} /\ client = {}
    /\ watch = [a \in Addon |-> "none"]
    /\ verdict = [a \in Addon |-> "none"]
    /\ deployment \in [Addon -> {d \in Statuses :
                                  /\ d.ready <= d.replicas
                                  /\ ~d.exists => d.replicas = 0}]

Runs == phase = "built" /\ panicked = "no"

At(s) == Runs /\ step = s

Panic(why) ==
    /\ panicked' = why
    /\ UNCHANGED <<pos, step, warned, client, watch, verdict, deployment>>

\* The loop goes on with the next addon.
Continue ==
    /\ pos' = pos + 1
    /\ step' = IF pos = Len(Addons) THEN "done" ELSE "construct"

\* Mutant: a failure ends startServices.
WarnReturn ==
    /\ warned' = warned \cup {Addons[pos]}
    /\ step' = "done"
    /\ UNCHANGED <<pos, panicked, client, watch, verdict>>

\* A step has failed: startServices warns and goes on with the next addon.
Warn ==
    /\ warned' = warned \cup {Addons[pos]}
    /\ Continue
    /\ UNCHANGED <<panicked, client, watch, verdict>>

-----------------------------------------------------------------------------
(* startServices.  The constructor returns no manifest with its error, and *)
(* the logger asks the manifest for its name before the error is looked at.*)
Construct ==
    /\ At("construct")
    /\ \/ /\ ~Constructs(Addons[pos])
          /\ Panic("nil manifest")
       \/ /\ Constructs(Addons[pos])
          /\ step' = "apply"
          /\ UNCHANGED <<pos, panicked, warned, client, watch, verdict,
                         deployment>>

\* kubectl has got to the document of the health object.
Created(a) ==
    IF \E i \in Objects(a) : DocAt(a, i) = HealthObject(a) /\ Whole(a, DocAt(a, i))
    THEN [deployment EXCEPT ![a].exists = TRUE]
    ELSE deployment

\* ApplyToCluster: the temporary file, where a write that fails is a panic, then
\* kubectl, which may have created the deployment when it fails, and fails at an
\* object that is cut short.
Apply ==
    /\ At("apply")
    /\ \/ Panic("write")
       \/ /\ Warn
          /\ deployment' \in {deployment, Created(Addons[pos])}
       \/ /\ \A i \in Objects(Addons[pos]) : Whole(Addons[pos], DocAt(Addons[pos], i))
          /\ step' = "init"
          /\ deployment' = Created(Addons[pos])
          /\ UNCHANGED <<pos, panicked, warned, client, watch, verdict>>

\* Mutant: the warning about the health check does not end the turn.
InitHealthCheckLenient ==
    /\ At("init")
    /\ step' = "watch"
    /\ \/ /\ client' = client \cup {Addons[pos]}
          /\ UNCHANGED warned
       \/ /\ warned' = warned \cup {Addons[pos]}
          /\ UNCHANGED client
    /\ UNCHANGED <<pos, panicked, watch, verdict, deployment>>

\* InitHealthCheck: without a health object, or a usable kubeconfig, there is
\* no client.
InitHealthCheck ==
    /\ At("init")
    /\ \/ /\ Warn
          /\ UNCHANGED deployment
       \/ /\ HealthObject(Addons[pos]) # 0
          /\ client' = client \cup {Addons[pos]}
          /\ step' = "watch"
          /\ UNCHANGED <<pos, panicked, warned, watch, verdict, deployment>>

\* The goroutine of the addon starts, with a pause.
Watch ==
    /\ At("watch")
    /\ watch' = [watch EXCEPT ![Addons[pos]] = "sleep"]
    /\ Continue
    /\ UNCHANGED <<panicked, warned, client, verdict, deployment>>

startServices == Construct \/ Apply \/ InitHealthCheck \/ Watch

-----------------------------------------------------------------------------
(* The goroutine of addon a.                                               *)
Wake(a) ==
    /\ Runs
    /\ watch[a] = "sleep"
    /\ watch' = [watch EXCEPT ![a] = "poll"]
    /\ UNCHANGED <<pos, step, panicked, warned, client, verdict, deployment>>

Unready(d) == d.replicas > d.ready

\* Mutant: everything that exists is healthy.
IsHealthyExists(a) == deployment[a].exists

\* IsHealthy, when its request is answered.  (The health object is a deployment
\* of one of the two versions, for parseDoc makes no other; its last return, for
\* an object of another kind, is not reached.)
IsHealthy(a) == deployment[a].exists /\ ~Unready(deployment[a])

Reported(a, v) ==
    /\ verdict' = [verdict EXCEPT ![a] = v]
    /\ UNCHANGED <<pos, step, panicked, warned, client, deployment>>

\* A request that fails is reported as unhealthy, too.  (The report, a line of
\* the log, may come later than the answer; no other goroutine reads it.)
Poll(a) ==
    /\ Runs
    /\ watch[a] = "poll"
    /\ \/ a \notin client /\ Panic("no client")
       \/ /\ a \in client
          /\ watch' = [watch EXCEPT ![a] = "sleep"]
          /\ \/ Reported(a, "unhealthy")
             \/ Reported(a, IF IsHealthy(a) THEN "healthy" ELSE "unhealthy")

-----------------------------------------------------------------------------
(* Kubernetes: the controller counts pods, which become ready or do not.   *)
Status(a) ==
    /\ Runs
    /\ deployment[a].exists
    /\ \E n \in 0..Replicas : \E r \in 0..n :
          deployment' = [deployment EXCEPT ![a].replicas = n, ![a].ready = r]
    /\ UNCHANGED <<pos, step, panicked, warned, client, watch, verdict>>

DaemonNext ==
    \/ startServices
    \/ \E a \in Addon : Wake(a) \/ Poll(a) \/ Status(a)

Next ==
    \/ CodegenNext /\ UNCHANGED daemon
    \/ DaemonNext /\ UNCHANGED generator

Spec == Init /\ [][Next]_vars

\* The goroutines are scheduled, and their pauses end.
Fairness ==
    \A a \in Addon : WF_vars((Wake(a) \/ Poll(a)) /\ UNCHANGED generator)

FairSpec == Spec /\ Fairness

-----------------------------------------------------------------------------
(* Properties.                                                             *)

\* An addon startServices has done with is either reported on or has been
\* warned about: that one fails leaves the others alone.
NoneForgotten ==
    \A i \in 1..Len(Addons) :
       i < pos \/ step = "done" =>
          (watch[Addons[i]] = "none" <=> Addons[i] \in warned)

\* A manifest that has been applied has had every document of its file, once,
\* whole and in the order of the file (a namespace comes before what lives in
\* it): parseDoc, the constructor and kubectl leave none out.
EveryDocumentApplied ==
    step = "init" =>
       LET a == Addons[pos]
       IN  /\ \A d \in DOMAIN source[a] :
                 Whole(a, d) /\ \E i \in Objects(a) : DocAt(a, i) = d
           /\ \A i, j \in Objects(a) : i < j => DocAt(a, i) < DocAt(a, j)

\* The daemon panics over an addon in two cases and no other: a document of its
\* file is no template, so that the logger asks a nil manifest for its name
\* (Microkubed.go:421-422), or a write to the temporary file fails
\* (KubeManifestBase.go:111-115).  All else is a warning; no goroutine, above
\* all, runs into IsHealthy without a client (KubeManifestBase.go:143).
PanicHasCause ==
    \/ panicked = "no"
    \/ panicked = "write" /\ step = "apply"
    \/ /\ panicked = "nil manifest" /\ step = "construct"
       /\ \E i \in DOMAIN source[Addons[pos]] :
             source[Addons[pos]][i].template = "malformed"

\* A deployment that stays short of ready pods is in the end reported as
\* unhealthy, and as nothing else.
UnreadyReported ==
    \A a \in Addon :
       <>[](watch[a] # "none" /\ panicked = "no" /\ Unready(deployment[a]))
          => <>[](verdict[a] = "unhealthy")

=============================================================================
