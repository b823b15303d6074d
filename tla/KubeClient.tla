----------------------------- MODULE KubeClient -----------------------------
(***************************************************************************)
(* KubeClient (pkg/kube/KubeClient.go) against the cluster it talks to,    *)
(* over several runs of the daemon: WaitForNode when the daemon starts,    *)
(* the lookups of PrintInfoMessage, and DrainNode when it is told to end.  *)
(* The lookups and the drain are done by two goroutines that share k.node  *)
(* and k.nodeRef without a lock.                                           *)
(*                                                                         *)
(* One action per request to the API server.  The cluster (kubelet,        *)
(* scheduler, controllers) is external: it creates, schedules, ends and    *)
(* recreates pods and reports the state of the node at any time.  Its      *)
(* objects are in etcd and survive the daemon.                             *)
(***************************************************************************)
EXTENDS Integers, FiniteSets, FiniteSetsExt

CONSTANTS
    Hosts,      \* names the host may have when the daemon starts; the kubelet
                \* registers the node under it
    Pods,       \* names of pods
    Named,      \* pods that are recreated under their name (StatefulSets)
    Tolerant,   \* pods that are scheduled on a cordoned node (DaemonSets)
    ApiFaults,  \* TRUE: a request may fail
    Deadline,   \* TRUE: the context has a deadline (in the daemon it has none)
    MaxRuns     \* bound: starts of the daemon

ASSUME ClientConstants ==
    /\ IsFiniteSet(Hosts)
    /\ Named \subseteq Pods /\ Tolerant \subseteq Pods
    /\ ApiFaults \in BOOLEAN /\ Deadline \in BOOLEAN
    /\ MaxRuns \in Nat \ {0}

VARIABLES
    nodes,    \* the Node objects, by name
    pods,     \* the Pod objects, by name
    host,     \* name of the host in this run
    known,    \* k.node # ""
    nodeRef,  \* k.nodeRef: a set of at most one copy of a Node object
    answer,   \* the node that a goroutine has been told of and not yet stored
    wait,     \* WaitForNode
    info,     \* the lookups of PrintInfoMessage
    drain,    \* DrainNode
    todo,     \* pods it has still to go through
    pending,  \* pendingPods
    alive,    \* runningPods > 0
    faulty,   \* has a request of this run failed?
    expired,  \* has the deadline passed?
    run       \* number of this run

cluster    == <<nodes, pods>>
cache      == <<known, nodeRef, answer>>
drainVars  == <<drain, todo, pending, alive>>
runVars    == <<host, expired, run>>
vars == <<cluster, cache, wait, info, drainVars, faulty, runVars>>

Node      == [there : BOOLEAN, ready : BOOLEAN, cordoned : BOOLEAN]
NodeCopy  == [name : Hosts, ready : BOOLEAN, cordoned : BOOLEAN]
NodeName  == [name : Hosts]   \* a copy of which only the name is used
PodStates == {"none", "unscheduled", "running", "terminating", "gone"}
WaitStates  == {"list", "judge", "uncordon", "returned", "late", "dead"}
InfoStates  == {"off", "find", "store", "get", "done"}
DrainStates == {"off", "look", "find", "store", "found", "cordon", "list",
                "evict", "poll", "returned", "failed", "late"}

\* The two goroutines that may be in findNode at the same time.
Lookups == {"info", "drain"}

TypeOK ==
    /\ nodes \in [Hosts -> Node]
    /\ pods \in [Pods -> PodStates]
    /\ host \in Hosts
    /\ known \in BOOLEAN
    /\ nodeRef \subseteq NodeCopy \cup NodeName /\ Cardinality(nodeRef) <= 1
    /\ answer \in [Lookups -> SUBSET NodeName]
    /\ wait \in WaitStates /\ info \in InfoStates /\ drain \in DrainStates
    /\ todo \subseteq Pods /\ pending \subseteq Pods
    /\ alive \in BOOLEAN /\ faulty \in BOOLEAN /\ expired \in BOOLEAN
    /\ run \in 1..MaxRuns

Unborn == [there |-> FALSE, ready |-> FALSE, cordoned |-> FALSE]

Init ==
    /\ nodes = [h \in Hosts |-> Unborn]
    /\ pods = [p \in Pods |-> "none"]
    /\ host \in Hosts
    /\ known = FALSE /\ nodeRef = {} /\ answer = [l \in Lookups |-> {}]
    /\ wait = "list" /\ info = "off" /\ drain = "off"
    /\ todo = {} /\ pending = {} /\ alive = FALSE
    /\ faulty = FALSE /\ expired = FALSE
    /\ run = 1

Up == wait # "dead"

-----------------------------------------------------------------------------
(* The cluster.                                                            *)

\* The kubelet registers its node, or reports whether it is ready.
KubeletReports ==
    /\ Up
    /\ \E r \in BOOLEAN :
          nodes' = [nodes EXCEPT ![host].there = TRUE, ![host].ready = r]
    /\ UNCHANGED <<pods, cache, wait, info, drainVars, faulty, runVars>>

\* The controller manager gives up on a node that does not report.
NodeUnknown(h) ==
    /\ Up
    /\ nodes[h].ready
    /\ nodes' = [nodes EXCEPT ![h].ready = FALSE]
    /\ UNCHANGED <<pods, cache, wait, info, drainVars, faulty, runVars>>

Exists(p) == pods[p] \in {"unscheduled", "running", "terminating"}

PodBecomes(p, from, to) ==
    /\ Up
    /\ pods[p] = from
    /\ pods' = [pods EXCEPT ![p] = to]
    /\ UNCHANGED <<nodes, cache, wait, info, drainVars, faulty, runVars>>

CreatePod(p) == PodBecomes(p, "none", "unscheduled")

Recreate(p) == p \in Named /\ PodBecomes(p, "gone", "unscheduled")

Schedule(p) ==
    /\ nodes[host].there /\ nodes[host].ready
    /\ ~nodes[host].cordoned \/ p \in Tolerant
    /\ PodBecomes(p, "unscheduled", "running")

Terminated(p) == PodBecomes(p, "terminating", "gone")

-----------------------------------------------------------------------------
(* Requests.                                                               *)

\* A request fails.
Fault == ApiFaults /\ faulty' = TRUE

Registered == {h \in Hosts : nodes[h].there}

CopyOf(h) == [name |-> h, ready |-> nodes[h].ready,
              cordoned |-> nodes[h].cordoned]

\* log.Fatal: the daemon ends.
Die == wait' = "dead"

\* findNode in WaitForNode, which no other goroutine runs along with, k.node
\* being "": a failure or a second node is fatal; without a node the fields
\* stay as they are.
FindNode ==
    /\ Cardinality(Registered) <= 1
    /\ nodeRef' = IF Registered = {} THEN nodeRef
                                     ELSE {CopyOf(h) : h \in Registered}
    /\ known' = (Registered # {})
    /\ UNCHANGED answer

\* findNode in one of several goroutines: the request, and what is written
\* then.  Both fields are written in one step: in between, k.node is still "",
\* and a goroutine that looks asks on its own account, as it would before.
Ask(l) ==
    /\ Cardinality(Registered) <= 1
    /\ answer' = [answer EXCEPT ![l] = {[name |-> h] : h \in Registered}]
    /\ UNCHANGED <<known, nodeRef>>

Store(l) ==
    /\ nodeRef' = answer[l] /\ known' = TRUE
    /\ answer' = [answer EXCEPT ![l] = {}]

FindNodeFatal ==
    /\ Fault \/ (Cardinality(Registered) > 1 /\ UNCHANGED faulty)
    /\ Die
    /\ UNCHANGED cache

\* setNodeUnschedulable: a merge patch, whose failure is only logged.
SetUnschedulable(name, value) ==
    \/ nodes' = [nodes EXCEPT ![name].cordoned = value] /\ UNCHANGED faulty
    \/ Fault /\ UNCHANGED nodes

-----------------------------------------------------------------------------
(* WaitForNode.                                                            *)

\* The deadline passes; it is looked at when a turn of a loop begins.
Expire ==
    /\ Up
    /\ Deadline /\ ~expired
    /\ expired' = TRUE
    /\ UNCHANGED <<cluster, cache, wait, info, drainVars, faulty, host, run>>

\* One turn: k.node = "" makes findNode ask, whatever it knew.
WaitList ==
    /\ wait = "list"
    /\ \/ expired /\ wait' = "late" /\ UNCHANGED <<cache, faulty>>
       \/ ~expired /\ FindNode /\ UNCHANGED faulty
             /\ wait' = IF nodeRef' = {} THEN "list" ELSE "judge"
       \/ ~expired /\ FindNodeFatal
    /\ UNCHANGED <<cluster, info, drainVars, runVars>>

\* Mutant: a node that is ready is left as it is.
WaitJudgeOnly ==
    /\ wait = "judge"
    /\ \E n \in nodeRef : wait' = IF n.ready THEN "returned" ELSE "list"
    /\ UNCHANGED <<cluster, cache, info, drainVars, faulty, runVars>>

\* The NodeReady condition of the copy decides; a node that is ready but
\* cordoned, as the last drain has left it, is to be uncordoned.
WaitJudge ==
    /\ wait = "judge"
    /\ \E n \in nodeRef :
          wait' = CASE ~n.ready -> "list"
                    [] n.ready /\ n.cordoned -> "uncordon"
                    [] OTHER -> "returned"
    /\ UNCHANGED <<cluster, cache, info, drainVars, faulty, runVars>>

WaitUncordon ==
    /\ wait = "uncordon"
    /\ \E n \in nodeRef : SetUnschedulable(n.name, FALSE)
    /\ wait' = "returned"
    /\ UNCHANGED <<pods, cache, info, drainVars, runVars>>

-----------------------------------------------------------------------------
(* FindService and FindDashboardAdminSecret, as PrintInfoMessage uses them. *)

Waited == wait \in {"returned", "late"}   \* the caller ignores the error

\* findNode looks at k.node, and asks in a step of its own.
InfoLook ==
    /\ Waited
    /\ info = "off"
    /\ info' = IF known THEN "get" ELSE "find"
    /\ UNCHANGED <<cluster, cache, wait, drainVars, faulty, runVars>>

InfoFind ==
    /\ Waited
    /\ info = "find"
    /\ \/ Ask("info") /\ UNCHANGED <<faulty, wait>>
       \/ FindNodeFatal
    /\ info' = IF Registered = {} THEN "get" ELSE "store"
    /\ UNCHANGED <<cluster, drainVars, runVars>>

InfoStore ==
    /\ Waited
    /\ info = "store"
    /\ Store("info")
    /\ info' = "get"
    /\ UNCHANGED <<cluster, wait, drainVars, faulty, runVars>>

\* Without a node nothing is asked for; a failure is only logged.
InfoGet ==
    /\ Waited
    /\ info = "get"
    /\ info' = "done"
    /\ IF known THEN UNCHANGED faulty \/ Fault ELSE UNCHANGED faulty
    /\ UNCHANGED <<cluster, cache, wait, drainVars, runVars>>

-----------------------------------------------------------------------------
(* DrainNode.                                                              *)

\* The signal: DrainNode begins with k.node = "".
DrainStart ==
    /\ Waited
    /\ drain = "off"
    /\ drain' = "look"
    /\ known' = FALSE
    /\ UNCHANGED <<cluster, nodeRef, answer, wait, info, todo, pending, alive, faulty,
                   runVars>>

\* findNode asks, unless a lookup has found the node meanwhile.
DrainLook ==
    /\ Waited
    /\ drain = "look"
    /\ drain' = IF known THEN "found" ELSE "find"
    /\ UNCHANGED <<cluster, cache, wait, info, todo, pending, alive, faulty,
                   runVars>>

DrainFind ==
    /\ Waited
    /\ drain = "find"
    /\ \/ Ask("drain") /\ UNCHANGED <<faulty, wait>>
       \/ FindNodeFatal
    /\ drain' = IF Registered = {} THEN "found" ELSE "store"
    /\ UNCHANGED <<cluster, info, todo, pending, alive, runVars>>

DrainStore ==
    /\ Waited
    /\ drain = "store"
    /\ Store("drain")
    /\ drain' = "found"
    /\ UNCHANGED <<cluster, wait, info, todo, pending, alive, faulty, runVars>>

\* Without a node, be it one of an earlier findNode, there is nothing to drain.
DrainFound ==
    /\ Waited
    /\ drain = "found"
    /\ drain' = IF nodeRef = {} THEN "failed" ELSE "cordon"
    /\ UNCHANGED <<cluster, cache, wait, info, todo, pending, alive, faulty,
                   runVars>>

DrainCordon ==
    /\ Waited
    /\ drain = "cordon"
    /\ \E n \in nodeRef : SetUnschedulable(n.name, TRUE)
    /\ drain' = "list"
    /\ UNCHANGED <<pods, cache, wait, info, todo, pending, alive, runVars>>

\* The pods of all namespaces; a failure is fatal.
DrainList ==
    /\ Waited
    /\ drain = "list"
    /\ \/ todo' = {p \in Pods : Exists(p)} /\ UNCHANGED <<faulty, wait>>
       \/ Fault /\ Die /\ UNCHANGED todo
    /\ drain' = "evict"
    /\ UNCHANGED <<cluster, cache, info, pending, alive, runVars>>

\* What an eviction does to a pod: one that runs gets ten seconds.
Evicted(p) ==
    [pods EXCEPT ![p] = IF @ = "unscheduled" THEN "gone" ELSE "terminating"]

\* One pod is evicted.  Only a pod whose eviction has been accepted is waited
\* for; a failure, or a pod that is gone already, is only logged.
DrainEvict(p) ==
    /\ Waited
    /\ drain = "evict"
    /\ p \in todo /\ ~expired
    /\ todo' = todo \ {p}
    /\ \/ Exists(p) /\ pods' = Evicted(p) /\ pending' = pending \cup {p}
             /\ UNCHANGED faulty
       \/ ~Exists(p) /\ UNCHANGED <<pods, pending, faulty>>
       \/ Fault /\ UNCHANGED <<pods, pending>>
    /\ UNCHANGED <<nodes, cache, wait, info, drain, alive, runVars>>

\* The waiting begins, or goes on with a new turn: runningPods is 0 again.
DrainRound ==
    /\ Waited
    /\ todo = {} /\ ~expired
    /\ drain = "evict" \/ (drain = "poll" /\ alive)
    /\ drain' = "poll"
    /\ todo' = pending
    /\ alive' = FALSE
    /\ UNCHANGED <<cluster, cache, wait, info, pending, faulty, runVars>>

\* The deadline: looked at before each eviction and each turn.
DrainLate ==
    /\ Waited
    /\ expired
    /\ \/ drain = "evict"
       \/ drain = "poll" /\ todo = {} /\ alive
    /\ drain' = "late"
    /\ UNCHANGED <<cluster, cache, wait, info, todo, pending, alive, faulty,
                   runVars>>

\* Mutant: the last answer of a turn decides, not all of them.
DrainPollLast(p) ==
    /\ Waited
    /\ drain = "poll"
    /\ p \in todo
    /\ todo' = todo \ {p}
    /\ \/ alive' = Exists(p) /\ UNCHANGED faulty
       \/ Fault /\ UNCHANGED alive
    /\ UNCHANGED <<cluster, cache, wait, info, drain, pending, runVars>>

\* Mutant: runningPods is never 0 after the first turn.
DrainPollSticky(p) ==
    /\ Waited
    /\ drain = "poll"
    /\ p \in todo
    /\ todo' = todo \ {p}
    /\ alive' = TRUE
    /\ UNCHANGED <<cluster, cache, wait, info, drain, pending, faulty, runVars>>

\* One evicted pod is asked for: a pod of that name counts as still running,
\* and "assuming it's dead" is the answer to a failure.
DrainPoll(p) ==
    /\ Waited
    /\ drain = "poll"
    /\ p \in todo
    /\ todo' = todo \ {p}
    /\ \/ alive' = (alive \/ Exists(p)) /\ UNCHANGED faulty
       \/ Fault /\ UNCHANGED alive
    /\ UNCHANGED <<cluster, cache, wait, info, drain, pending, runVars>>

\* A turn has found no pod: DrainNode returns.
DrainReturns ==
    /\ Waited
    /\ drain = "poll"
    /\ todo = {} /\ ~alive
    /\ drain' = "returned"
    /\ UNCHANGED <<cluster, cache, wait, info, todo, pending, alive, faulty,
                   runVars>>

-----------------------------------------------------------------------------
(* The daemon around it.                                                   *)

DrainEnded == drain \in {"returned", "failed", "late"}

\* What a process knows is gone with it; etcd keeps the objects.
Forget ==
    /\ known' = FALSE /\ nodeRef' = {} /\ answer' = [l \in Lookups |-> {}]
    /\ info' = "off" /\ drain' = "off"
    /\ todo' = {} /\ pending' = {} /\ alive' = FALSE
    /\ faulty' = FALSE /\ expired' = FALSE
    /\ UNCHANGED cluster

\* The daemon ends once the drain has, or is killed.
Ends ==
    /\ Up
    /\ Die
    /\ Forget
    /\ UNCHANGED <<host, run>>

\* NewKubeClient in a new process.
Restart ==
    /\ ~Up
    /\ run < MaxRuns
    /\ run' = run + 1
    /\ host' \in Hosts
    /\ wait' = "list"
    /\ Forget

Next ==
    \/ KubeletReports
    \/ \E h \in Hosts : NodeUnknown(h)
    \/ \E p \in Pods :
          \/ CreatePod(p) \/ Recreate(p) \/ Schedule(p) \/ Terminated(p)
          \/ DrainEvict(p) \/ DrainPoll(p)
    \/ Expire
    \/ WaitList \/ WaitJudge \/ WaitUncordon
    \/ InfoLook \/ InfoFind \/ InfoStore \/ InfoGet
    \/ DrainStart \/ DrainLook \/ DrainFind \/ DrainStore \/ DrainFound
    \/ DrainCordon \/ DrainList \/ DrainRound \/ DrainLate \/ DrainReturns
    \/ Ends \/ Restart

Spec == Init /\ [][Next]_vars

(***************************************************************************)
(* The goroutine that drains goes on as long as requests are answered, an  *)
(* evicted pod ends within its grace period.  Nothing else that the        *)
(* cluster does is certain to happen, nor that a deadline comes.           *)
(***************************************************************************)
Fairness ==
    /\ WF_vars(DrainLook \/ DrainFind \/ DrainStore \/ DrainFound
                 \/ DrainCordon \/ DrainList \/ DrainRound \/ DrainLate \/ DrainReturns
                 \/ \E p \in Pods : DrainEvict(p) \/ DrainPoll(p))
    /\ \A p \in Pods : WF_vars(Terminated(p))

FairSpec == Spec /\ Fairness

-----------------------------------------------------------------------------
(* Properties.                                                             *)

Runs(p) == pods[p] \in {"running", "terminating"}

\* When DrainNode returns without an error and none of its requests has
\* failed, no pod runs: the node has been cordoned before the pods were listed,
\* so that none comes up behind the list (KubeClient.go:190-272).  The host
\* must not have been renamed since its node was registered.
NoPodRuns ==
    drain = "returned" /\ ~faulty /\ Registered = {host} =>
        \A p \in Pods \ Tolerant : ~Runs(p)

\* When WaitForNode returns and none of its requests has failed (the failure
\* to uncordon is only logged), the node that the last run has cordoned is
\* schedulable again (KubeClient.go:308-313), until the next drain.  Whether it
\* is still ready is another matter: the condition it has read may be stale.
Schedulable ==
    wait = "returned" /\ ~faulty /\ drain = "off" =>
        \A h \in Hosts : ~nodes[h].cordoned

\* Nothing but a pod that is recreated under its name time and again keeps
\* DrainNode from returning: neither requests that fail nor pods that take
\* their time or were gone already; and a deadline ends it even then
\* (KubeClient.go:177, 203-274).
DrainEnds ==
    /\ drain # "off"
         ~> \/ DrainEnded \/ ~Up
            \/ \E p \in pending : pods[p] \in {"unscheduled", "running"}
    /\ drain # "off" /\ expired ~> DrainEnded \/ ~Up

=============================================================================
