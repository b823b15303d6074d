-------------------------- MODULE KubeClientProofs --------------------------
(***************************************************************************)
(* What KubeClient guarantees for any pods and hosts, any number of runs   *)
(* and whatever the cluster does.                                          *)
(***************************************************************************)
EXTENDS KubeClient, FiniteSetTheorems, TLAPS

-----------------------------------------------------------------------------
(* What the client knows about the cluster.                                *)

\* The places of a drain that may not have found a node.
Early == {"off", "look", "find", "store", "found", "failed"}

\* The node the client knows is registered, and it drains when it is up.
ClientInv ==
    /\ nodes \in [Hosts -> Node]
    /\ pods \in [Pods -> PodStates]
    /\ host \in Hosts
    /\ \A n \in nodeRef : n.name \in Registered
    /\ drain # "off" => wait \in {"returned", "late", "dead"}
    /\ drain \notin Early => nodeRef # {}
    /\ answer = [l \in Lookups |-> answer[l]]
    /\ \A l \in Lookups : \A n \in answer[l] : n.name \in Registered
    /\ info = "store" /\ Up => answer["info"] # {}
    /\ drain = "store" /\ Up => answer["drain"] # {}
    /\ \A h \in Hosts : nodes[h].cordoned => nodes[h].there

\* What a drain relies on: its requests are answered, for the node it runs on.
Clean == ~faulty /\ Registered = {host}

\* Nothing is cordoned and no request is under way at first.
LEMMA ClientInit == Init => ClientInv
  BY DEF Init, ClientInv, Early, Up, Unborn, Node, PodStates

\* findNode finds a node that is registered, and fails when there are several.
LEMMA FoundIsRegistered ==
    ASSUME ClientInv, FindNode, UNCHANGED nodes
    PROVE  /\ \A n \in nodeRef' : n.name \in Registered'
           /\ nodeRef # {} => nodeRef' # {}
<1>1. Registered' = Registered
  BY DEF Registered
<1>2. CASE Registered = {}
  BY <1>1, <1>2 DEF ClientInv, FindNode
<1>3. CASE Registered # {}
  <2>1. nodeRef' = {CopyOf(h) : h \in Registered}
    BY <1>3 DEF FindNode
  <2>2. \A h \in Registered : CopyOf(h).name = h
    BY DEF CopyOf
  <2>3. nodeRef' # {}
    BY <1>3, <2>1
  <2>4. \A n \in nodeRef' : n.name \in Registered
    BY <2>1, <2>2
  <2>5. QED
    BY <1>1, <2>3, <2>4
<1>4. QED
  BY <1>2, <1>3

\* A patch changes whether the node is cordoned, and nothing else of it.
LEMMA PatchKeepsNode ==
    ASSUME nodes \in [Hosts -> Node], NEW h \in Hosts, NEW value \in BOOLEAN,
           nodes' = [nodes EXCEPT ![h].cordoned = value]
    PROVE  /\ nodes' \in [Hosts -> Node]
           /\ nodes'[h].cordoned = value
           /\ \A g \in Hosts : nodes'[g].there = nodes[g].there
           /\ \A g \in Hosts \ {h} : nodes'[g] = nodes[g]
BY DEF Node

\* Whatever happens in the cluster, the client stays as it is.
LEMMA ClusterKeepsClient ==
    ASSUME ClientInv,
           \/ KubeletReports
           \/ \E h \in Hosts : NodeUnknown(h)
           \/ \E p \in Pods : CreatePod(p) \/ Recreate(p) \/ Schedule(p) \/ Terminated(p)
    PROVE  ClientInv'
<1>1. CASE KubeletReports
  <2>1. PICK r \in BOOLEAN :
           nodes' = [nodes EXCEPT ![host].there = TRUE, ![host].ready = r]
    BY <1>1 DEF KubeletReports
  <2>2. /\ nodes' \in [Hosts -> Node]
        /\ \A h \in Hosts : /\ nodes'[h].cordoned = nodes[h].cordoned
                            /\ nodes[h].there => nodes'[h].there
    BY <2>1 DEF ClientInv, Node
  <2>3. UNCHANGED <<pods, host, nodeRef, answer, wait, info, drain>>
    BY <1>1 DEF KubeletReports, cache, drainVars, runVars
  <2>4. QED
    BY <2>2, <2>3 DEF ClientInv, Registered, Up
<1>2. ASSUME NEW h \in Hosts, NodeUnknown(h) PROVE ClientInv'
  <2>1. nodes' = [nodes EXCEPT ![h].ready = FALSE]
    BY <1>2 DEF NodeUnknown
  <2>2. /\ nodes' \in [Hosts -> Node]
        /\ \A g \in Hosts : /\ nodes'[g].cordoned = nodes[g].cordoned
                            /\ nodes'[g].there = nodes[g].there
    BY <2>1 DEF ClientInv, Node
  <2>3. UNCHANGED <<pods, host, nodeRef, answer, wait, info, drain>>
    BY <1>2 DEF NodeUnknown, cache, drainVars, runVars
  <2>4. QED
    BY <2>2, <2>3 DEF ClientInv, Registered, Up
<1>3. ASSUME NEW p \in Pods, CreatePod(p) \/ Recreate(p) \/ Schedule(p) \/ Terminated(p)
      PROVE  ClientInv'
  <2>1. PICK to \in PodStates : pods' = [pods EXCEPT ![p] = to]
    BY <1>3
    DEF CreatePod, Recreate, Schedule, Terminated, PodBecomes, PodStates
  <2>2. UNCHANGED <<nodes, host, nodeRef, answer, wait, info, drain>>
    BY <1>3
    DEF CreatePod, Recreate, Schedule, Terminated, PodBecomes, cache, drainVars, runVars
  <2>3. QED
    BY <2>1, <2>2 DEF ClientInv, Registered, Up
<1>4. QED
  BY <1>1, <1>2, <1>3

\* The steps that leave the objects of the cluster alone.
ReadsOnly ==
    \/ Expire \/ WaitList \/ WaitJudge
    \/ InfoLook \/ InfoFind \/ InfoStore \/ InfoGet
    \/ DrainStart \/ DrainLook \/ DrainFind \/ DrainStore \/ DrainFound
    \/ DrainList \/ DrainRound \/ DrainLate \/ DrainReturns \/ Ends \/ Restart
    \/ \E p \in Pods : DrainPoll(p)
    \/ UNCHANGED vars

\* A lookup tells of nodes that are registered.
LEMMA AskedIsRegistered ==
    ASSUME ClientInv, NEW l \in Lookups, Ask(l), UNCHANGED nodes
    PROVE  /\ answer' = [k \in Lookups |-> answer'[k]]
           /\ \A k \in Lookups : \A n \in answer'[k] : n.name \in Registered'
           /\ Registered # {} => answer'[l] # {}
           /\ \A k \in Lookups : k # l => answer'[k] = answer[k]
           /\ UNCHANGED nodeRef
<1> DEFINE names == {[name |-> h] : h \in Registered}
<1>1. Registered' = Registered
  BY DEF Registered
<1>2. /\ answer' = [answer EXCEPT ![l] = names]
      /\ UNCHANGED nodeRef
  BY DEF Ask
<1>3. /\ \A n \in names : n.name \in Registered
      /\ Registered # {} => names # {}
  <2>1. \A h \in Registered : [name |-> h] \in names /\ [name |-> h].name = h
    OBVIOUS
  <2>2. QED
    BY <2>1
<1>4. answer = [k \in Lookups |-> answer[k]]
  BY DEF ClientInv
<1>5. \A k \in Lookups : \A n \in answer[k] : n.name \in Registered
  BY DEF ClientInv
<1> HIDE DEF names
<1>6. /\ answer' = [k \in Lookups |-> answer'[k]]
      /\ answer'[l] = names
      /\ \A k \in Lookups : k # l => answer'[k] = answer[k]
  BY <1>2, <1>4
<1>7. QED
  BY <1>1, <1>2, <1>3, <1>5, <1>6

\* What is stored then is what has been told.
LEMMA StoredIsRegistered ==
    ASSUME ClientInv, NEW l \in Lookups, Store(l), UNCHANGED nodes, answer[l] # {}
    PROVE  /\ answer' = [k \in Lookups |-> answer'[k]]
           /\ \A k \in Lookups : \A n \in answer'[k] : n.name \in Registered'
           /\ \A n \in nodeRef' : n.name \in Registered'
           /\ nodeRef' # {}
           /\ \A k \in Lookups : k # l => answer'[k] = answer[k]
BY DEF Store, ClientInv, Registered

\* Steps of the client that write nothing to the cluster.
LEMMA ReadsKeepClient == ClientInv /\ ReadsOnly => ClientInv'
<1> SUFFICES ASSUME ClientInv, ReadsOnly PROVE ClientInv'
  OBVIOUS
<1>1. /\ UNCHANGED <<nodes, pods>>
      /\ Registered' = Registered
      /\ \A h \in Hosts : nodes'[h].cordoned => nodes'[h].there
      /\ nodes' \in [Hosts -> Node] /\ pods' \in [Pods -> PodStates]
  <2>1. UNCHANGED <<nodes, pods>>
    BY DEF ReadsOnly, Expire, WaitList, WaitJudge, InfoLook, InfoFind, InfoStore,
           InfoGet, DrainStart, DrainLook, DrainFind, DrainStore, DrainFound,
           DrainList, DrainRound, DrainLate, DrainReturns, Ends, Restart, Forget,
           DrainPoll, vars, cluster
  <2>2. QED
    BY <2>1 DEF ClientInv, Registered
<1>2. CASE WaitList
  <2>1. UNCHANGED <<answer, info, drain, host>> /\ drain = "off" /\ wait = "list"
    BY <1>2 DEF WaitList, FindNode, FindNodeFatal, drainVars, runVars, cache, ClientInv
  <2>2. \A n \in nodeRef' : n.name \in Registered
    BY <1>1, <1>2, FoundIsRegistered DEF WaitList, FindNodeFatal, cache, ClientInv
  <2>3. QED
    BY <1>1, <2>1, <2>2 DEF ClientInv, Early, Up
<1>3. CASE InfoFind
  <2>1. UNCHANGED <<drain, host, nodeRef>> /\ wait' \in {wait, "dead"}
    BY <1>3 DEF InfoFind, Ask, FindNodeFatal, Die, drainVars, runVars, cache
  <2>2. CASE Ask("info")
    <3>1. info' = "store" => Registered # {}
      BY <1>3, <2>2 DEF InfoFind
    <3>2. QED
      BY <1>1, <2>1, <2>2, <3>1, AskedIsRegistered DEF ClientInv, Lookups, Up
  <2>3. CASE FindNodeFatal
    <3>1. UNCHANGED answer
      BY <2>3 DEF FindNodeFatal, cache
    <3>2. wait' = "dead"
      BY <2>3 DEF FindNodeFatal, Die
    <3>3. QED
      BY <1>1, <2>1, <3>1, <3>2, <1>3 DEF ClientInv, Up
  <2>4. QED
    BY <1>3, <2>2, <2>3 DEF InfoFind
<1>4. CASE InfoStore
  <2>1. /\ info = "store" /\ info' = "get" /\ Store("info")
        /\ UNCHANGED <<drain, host, wait>>
    BY <1>4 DEF InfoStore, drainVars, runVars
  <2>2. answer["info"] # {}
    BY <1>4, <2>1 DEF ClientInv, InfoStore, Waited, Up
  <2>3. QED
    BY <1>1, <2>1, <2>2, StoredIsRegistered DEF ClientInv, Lookups, Up
<1>5. CASE DrainFind
  <2>1. /\ UNCHANGED <<info, host, nodeRef>> /\ wait' \in {"returned", "late", "dead"}
        /\ drain' = IF Registered = {} THEN "found" ELSE "store"
        /\ wait # "dead"
    BY <1>5 DEF DrainFind, Ask, Waited, FindNodeFatal, Die, runVars, cache
  <2>2. CASE Ask("drain")
    BY <1>1, <2>1, <2>2, AskedIsRegistered DEF ClientInv, Lookups, Early, Up
  <2>3. CASE FindNodeFatal
    BY <1>1, <2>1, <2>3 DEF FindNodeFatal, Die, cache, ClientInv, Early, Up
  <2>4. QED
    BY <1>5, <2>2, <2>3 DEF DrainFind
<1>6. CASE DrainStore
  <2>1. /\ drain = "store" /\ drain' = "found" /\ Store("drain")
        /\ UNCHANGED <<info, host, wait>>
    BY <1>6 DEF DrainStore, runVars
  <2>2. answer["drain"] # {}
    BY <1>6, <2>1 DEF ClientInv, DrainStore, Waited, Up
  <2>3. QED
    BY <1>1, <2>1, <2>2, StoredIsRegistered DEF ClientInv, Lookups, Early, Up
<1>7. CASE DrainLook \/ DrainFound
  <2>1. /\ UNCHANGED <<nodeRef, answer, info, host, wait>> /\ Waited
        /\ \/ drain' \in {"found", "find", "failed"}
           \/ drain' = "cordon" /\ nodeRef # {}
    BY <1>7 DEF DrainLook, DrainFound, cache, runVars
  <2>2. QED
    BY <1>1, <2>1 DEF ClientInv, Early, Up, Waited
<1>8. CASE Ends \/ Restart
  <2>1. /\ nodeRef' = {} /\ answer' = [l \in Lookups |-> {}]
        /\ info' = "off" /\ drain' = "off" /\ host' \in Hosts
    BY <1>8 DEF Ends, Restart, Forget, ClientInv
  <2>2. QED
    BY <1>1, <2>1 DEF ClientInv, Early, Up
<1>9. CASE DrainStart
  BY <1>1, <1>9 DEF DrainStart, Waited, ClientInv, Early, Up, runVars
<1>10. CASE DrainList
  <2>1. /\ UNCHANGED <<nodeRef, answer, info, host>>
        /\ wait' \in {"returned", "late", "dead"}
        /\ drain = "list" /\ drain' = "evict" /\ wait # "dead"
    BY <1>10 DEF DrainList, Waited, Die, cache, runVars
  <2>2. QED
    BY <1>1, <2>1 DEF ClientInv, Early, Up
<1>11. CASE WaitJudge
  <2>1. /\ drain = "off" /\ wait = "judge"
        /\ UNCHANGED <<nodeRef, answer, info, drain, host>>
    BY <1>11 DEF WaitJudge, ClientInv, cache, drainVars, runVars
  <2>2. QED
    BY <1>1, <2>1 DEF ClientInv, Early, Up
<1>12. CASE \/ Expire \/ InfoLook \/ InfoGet \/ DrainRound \/ DrainLate
            \/ DrainReturns
            \/ \E p \in Pods : DrainPoll(p)
            \/ UNCHANGED vars
  <2>1. /\ UNCHANGED <<nodeRef, answer, host, wait>>
        /\ info' = info \/ info' # "store"
        /\ \/ drain' = drain
           \/ drain \in {"evict", "poll"} /\ drain' # "store" /\ Waited
    BY <1>12
    DEF Expire, InfoLook, InfoGet, DrainRound, DrainLate, DrainReturns, DrainPoll,
        vars, cache, drainVars, runVars
  <2>2. QED
    BY <1>1, <2>1 DEF ClientInv, Early, Up, Waited
<1>13. QED
  BY <1>2, <1>3, <1>4, <1>5, <1>6, <1>7, <1>8, <1>9, <1>10, <1>11, <1>12 DEF ReadsOnly

\* Steps of the client that patch a node or evict a pod.
LEMMA WritesKeepClient ==
    ASSUME ClientInv, WaitUncordon \/ DrainCordon \/ \E p \in Pods : DrainEvict(p)
    PROVE  ClientInv'
<1>1. ASSUME NEW n \in nodeRef, NEW value \in BOOLEAN, SetUnschedulable(n.name, value),
             UNCHANGED <<pods, nodeRef, answer, info, host>>,
             drain' # "off" => wait' \in {"returned", "late", "dead"},
             drain' # "store", drain' \notin Early => drain \notin Early,
             Up
      PROVE  ClientInv'
  <2>1. n.name \in Hosts /\ nodes[n.name].there
    BY DEF ClientInv, Registered
  <2>2. /\ nodes' \in [Hosts -> Node]
        /\ \A g \in Hosts : nodes'[g].there = nodes[g].there
        /\ \A g \in Hosts : nodes'[g].cordoned => nodes'[g].there
    BY <1>1, <2>1, PatchKeepsNode DEF SetUnschedulable, ClientInv
  <2>3. Registered' = Registered
    BY <2>2 DEF Registered
  <2>4. QED
    BY <1>1, <2>2, <2>3 DEF ClientInv, Up
<1>2. CASE WaitUncordon
  <2>1. drain = "off" /\ UNCHANGED <<pods, nodeRef, answer, info, host, drain>>
    BY <1>2 DEF WaitUncordon, cache, drainVars, runVars, ClientInv
  <2>2. QED
    BY <1>1, <1>2, <2>1 DEF WaitUncordon, Early, Up
<1>3. CASE DrainCordon
  <2>1. /\ UNCHANGED <<pods, nodeRef, answer, info, host>>
        /\ wait' \in {"returned", "late"} /\ drain = "cordon" /\ drain' = "list"
    BY <1>3 DEF DrainCordon, Waited, cache, runVars
  <2>2. QED
    BY <1>1, <1>3, <2>1 DEF DrainCordon, Early, Up, Waited
<1>4. ASSUME NEW p \in Pods, DrainEvict(p) PROVE ClientInv'
  <2>1. /\ UNCHANGED <<nodes, nodeRef, answer, info, host, wait, drain>>
        /\ pods' = pods \/ pods' = Evicted(p)
    BY <1>4 DEF DrainEvict, cache, runVars
  <2>2. pods' \in [Pods -> PodStates]
    BY <2>1 DEF Evicted, ClientInv, PodStates
  <2>3. QED
    BY <2>1, <2>2 DEF ClientInv, Registered, Up
<1>5. QED
  BY <1>2, <1>3, <1>4

\* Every step keeps the types of the client.
LEMMA ClientStep == ClientInv /\ [Next]_vars => ClientInv'
BY ClusterKeepsClient, ReadsKeepClient, WritesKeepClient DEF Next, ReadsOnly

-----------------------------------------------------------------------------
(* DrainNode.                                                              *)

\* The node stays cordoned from the patch on.
CordonInv ==
    Clean /\ drain \in {"list", "evict", "poll", "returned"} => nodes[host].cordoned

\* A pod that still runs has been, or will be, evicted and asked for.
Handled(p) ==
    Runs(p) => /\ drain = "evict" => p \in todo \cup pending
               /\ drain = "poll" => p \in pending /\ (p \in todo \/ alive)
               /\ drain # "returned"

PodsInv == Clean => \A p \in Pods \ Tolerant : Handled(p)

\* A drain that is under way knows a node, so that a host that is registered
\* meanwhile makes it two.
LEMMA CleanBefore ==
    ASSUME ClientInv, Clean', [Next]_vars, drain' \notin Early,
           drain \notin Early
    PROVE  Clean /\ host' = host
<1>1. ~Restart /\ ~Ends
  BY DEF Restart, Ends, Forget, Early
<1>2. host' = host
  BY <1>1
  DEF Next, KubeletReports, NodeUnknown, CreatePod, Recreate, Schedule, Terminated,
      PodBecomes, DrainEvict, DrainPoll, Expire, WaitList, WaitJudge, WaitUncordon,
      InfoLook, InfoFind, InfoStore, InfoGet, DrainStart, DrainLook, DrainFind,
      DrainStore, DrainFound, DrainCordon, DrainList, DrainRound, DrainLate,
      DrainReturns, runVars, vars
<1>3. ~faulty
  BY <1>1
  DEF Clean, Next, KubeletReports, NodeUnknown, CreatePod, Recreate, Schedule, Terminated,
      PodBecomes, DrainEvict, DrainPoll, Expire, WaitList, WaitJudge, WaitUncordon,
      InfoLook, InfoFind, InfoStore, InfoGet, DrainStart, DrainLook, DrainFind,
      DrainStore, DrainFound, DrainCordon, DrainList, DrainRound, DrainLate,
      DrainReturns, vars, Fault, FindNodeFatal, SetUnschedulable
<1>4. \A h \in Hosts : nodes[h].there => nodes'[h].there
  <2>1. CASE KubeletReports
    BY <2>1 DEF KubeletReports, ClientInv, Node
  <2>2. ASSUME NEW h \in Hosts, NodeUnknown(h)
        PROVE  \A g \in Hosts : nodes[g].there => nodes'[g].there
    BY <2>2 DEF NodeUnknown, ClientInv, Node
  <2>3. ASSUME NEW n \in nodeRef, NEW value \in BOOLEAN, SetUnschedulable(n.name, value)
        PROVE  \A g \in Hosts : nodes[g].there => nodes'[g].there
    <3>1. n.name \in Hosts
      BY DEF ClientInv, Registered
    <3>2. QED
      BY <2>3, <3>1, PatchKeepsNode DEF SetUnschedulable, ClientInv
  <2>4. CASE WaitUncordon \/ DrainCordon
    BY <2>3, <2>4 DEF WaitUncordon, DrainCordon
  <2>5. CASE UNCHANGED nodes
    BY <2>5
  <2>6. QED
    BY <1>1, <2>1, <2>2, <2>4, <2>5
    DEF Next, CreatePod, Recreate, Schedule, Terminated, PodBecomes, DrainEvict,
        DrainPoll, Expire, WaitList, WaitJudge, InfoLook, InfoFind, InfoStore,
        InfoGet, DrainStart, DrainLook, DrainFind, DrainStore, DrainFound, DrainList,
        DrainRound, DrainLate, DrainReturns, cluster, vars
<1>5. Registered \subseteq Registered'
  BY <1>4 DEF Registered
<1>6. Registered # {}
  BY DEF ClientInv, Early
<1>7. QED
  BY <1>2, <1>3, <1>5, <1>6 DEF Clean

\* Which steps lead to the places of a drain that are looked at here.
LEMMA DrainPlaces ==
    ASSUME ClientInv, [Next]_vars, drain' \in {"list", "evict", "poll", "returned"}
    PROVE  \/ DrainCordon
           \/ drain \in {"list", "evict", "poll", "returned"} /\ ~DrainCordon /\ ~WaitUncordon
<1>1. CASE DrainCordon
  BY <1>1
<1>2. CASE ~DrainCordon
  <2>1. drain \in {"list", "evict", "poll", "returned"}
    BY <1>2
    DEF Next, KubeletReports, NodeUnknown, CreatePod, Recreate, Schedule, Terminated,
        PodBecomes, DrainEvict, DrainPoll, Expire, WaitList, WaitJudge, WaitUncordon,
        InfoLook, InfoFind, InfoStore, InfoGet, DrainStart, DrainLook, DrainFind,
        DrainStore, DrainFound, DrainList, DrainRound, DrainLate, DrainReturns,
        Ends, Restart, Forget, drainVars, vars
  <2>2. ~WaitUncordon
    BY <2>1 DEF WaitUncordon, ClientInv
  <2>3. QED
    BY <1>2, <2>1, <2>2
<1>3. QED
  BY <1>1, <1>2

\* The node stays cordoned while a clean drain is behind its patch.
LEMMA CordonStep == ClientInv /\ CordonInv /\ [Next]_vars => CordonInv'
<1> SUFFICES ASSUME ClientInv, CordonInv, [Next]_vars, Clean',
                    drain' \in {"list", "evict", "poll", "returned"}
             PROVE  nodes'[host'].cordoned
  BY DEF CordonInv
<1>1. CASE DrainCordon
  <2>1. PICK n \in nodeRef : SetUnschedulable(n.name, TRUE)
    BY <1>1 DEF DrainCordon
  <2>2. n.name \in Hosts /\ n.name \in Registered
    BY DEF ClientInv, Registered
  <2>3. nodes' = [nodes EXCEPT ![n.name].cordoned = TRUE]
    BY <2>1 DEF SetUnschedulable, Fault, Clean
  <2>4. nodes'[n.name].cordoned /\ n.name \in Registered'
    BY <2>2, <2>3, PatchKeepsNode DEF ClientInv, Registered
  <2>5. QED
    BY <2>4 DEF Clean
<1>2. CASE ~DrainCordon
  <2>1. /\ drain \in {"list", "evict", "poll", "returned"}
        /\ ~WaitUncordon
    BY <1>2, DrainPlaces
  <2>2. Clean /\ host' = host
    BY <2>1, CleanBefore DEF Early
  <2>3. nodes[host].cordoned /\ host \in Hosts
    BY <2>1, <2>2 DEF CordonInv, ClientInv
  <2>4. CASE KubeletReports
    BY <2>2, <2>3, <2>4 DEF KubeletReports, ClientInv, Node
  <2>5. ASSUME NEW h \in Hosts, NodeUnknown(h) PROVE nodes'[host].cordoned
    BY <2>3, <2>5 DEF NodeUnknown, ClientInv, Node
  <2>6. CASE UNCHANGED nodes
    BY <2>2, <2>3, <2>6
  <2>7. QED
    BY <1>2, <2>1, <2>2, <2>4, <2>5, <2>6
    DEF Next, CreatePod, Recreate, Schedule, Terminated, PodBecomes, DrainEvict,
        DrainPoll, Expire, WaitList, WaitJudge, InfoLook, InfoFind, InfoStore,
        InfoGet, DrainStart, DrainLook, DrainFind, DrainStore, DrainFound, DrainList,
        DrainRound, DrainLate, DrainReturns, Ends, Restart, Forget, cluster, vars
<1>3. QED
  BY <1>1, <1>2

\* On a cordoned node no pod comes up.
LEMMA NoneComesUp ==
    ASSUME ClientInv, [Next]_vars, nodes[host].cordoned,
           NEW p \in Pods \ Tolerant, Runs(p)'
    PROVE  Runs(p)
<1>1. pods \in [Pods -> PodStates]
  BY DEF ClientInv
<1>2. ASSUME NEW q \in Pods,
             CreatePod(q) \/ Recreate(q) \/ Schedule(q) \/ Terminated(q)
      PROVE  Runs(p)
  <2>1. CASE p = q
    BY <1>1, <1>2, <2>1
    DEF CreatePod, Recreate, Schedule, Terminated, PodBecomes, Runs
  <2>2. CASE p # q
    BY <1>1, <1>2, <2>2
    DEF CreatePod, Recreate, Schedule, Terminated, PodBecomes, Runs
  <2>3. QED
    BY <2>1, <2>2
<1>3. ASSUME NEW q \in Pods, DrainEvict(q) PROVE Runs(p)
  <2>1. CASE Exists(q) /\ pods' = Evicted(q)
    BY <1>1, <2>1 DEF Evicted, Exists, Runs
  <2>2. CASE UNCHANGED pods
    BY <2>2 DEF Runs
  <2>3. QED
    BY <1>3, <2>1, <2>2 DEF DrainEvict
<1>4. CASE UNCHANGED pods
  BY <1>4 DEF Runs
<1>5. QED
  BY <1>2, <1>3, <1>4
  DEF Next, KubeletReports, NodeUnknown, DrainPoll, Expire, WaitList, WaitJudge,
      WaitUncordon, InfoLook, InfoFind, InfoStore, InfoGet, DrainStart, DrainLook,
      DrainFind, DrainStore, DrainFound, DrainCordon, DrainList, DrainRound,
      DrainLate, DrainReturns, Ends, Restart, Forget, cluster, vars

\* Every step keeps account of the pods that are not dealt with yet.
LEMMA PodsStep == ClientInv /\ CordonInv /\ PodsInv /\ [Next]_vars => PodsInv'
<1> SUFFICES ASSUME ClientInv, CordonInv, PodsInv, [Next]_vars, Clean',
                    NEW p \in Pods \ Tolerant, Runs(p)',
                    drain' \in {"evict", "poll", "returned"}
             PROVE  /\ drain' = "evict" => p \in todo' \cup pending'
                    /\ drain' = "poll" => p \in pending' /\ (p \in todo' \/ alive')
                    /\ drain' # "returned"
  BY DEF PodsInv, Handled
<1>1. drain \in {"list", "evict", "poll", "returned"} /\ ~DrainCordon /\ ~WaitUncordon
  BY DrainPlaces DEF DrainCordon
<1>2. Clean
  BY <1>1, CleanBefore DEF Early
<1>3. Runs(p)
  BY <1>1, <1>2, NoneComesUp DEF CordonInv
<1>4. Handled(p)
  BY <1>2 DEF PodsInv
<1>5. Exists(p)
  BY <1>3 DEF Runs, Exists
<1>6. ~Fault
  BY DEF Clean, Fault
<1>7. CASE DrainList
  BY <1>5, <1>6, <1>7 DEF DrainList
<1>8. ASSUME NEW q \in Pods, DrainEvict(q)
      PROVE  drain' = "evict" /\ p \in todo' \cup pending'
  BY <1>3, <1>4, <1>5, <1>6, <1>8 DEF DrainEvict, Handled
<1>9. CASE DrainRound
  BY <1>3, <1>4, <1>9 DEF DrainRound, Handled
<1>10. ASSUME NEW q \in Pods, DrainPoll(q)
       PROVE  drain' = "poll" /\ p \in pending' /\ (p \in todo' \/ alive')
  BY <1>3, <1>4, <1>5, <1>6, <1>10 DEF DrainPoll, Handled
<1>11. CASE DrainReturns
  BY <1>3, <1>4, <1>11 DEF DrainReturns, Handled
<1>12. CASE UNCHANGED drainVars
  BY <1>3, <1>4, <1>12 DEF drainVars, Handled
<1>13. QED
  BY <1>1, <1>7, <1>8, <1>9, <1>10, <1>11, <1>12
  DEF Next, KubeletReports, NodeUnknown, CreatePod, Recreate, Schedule, Terminated,
      PodBecomes, Expire, WaitList, WaitJudge, InfoLook, InfoFind, InfoStore,
      InfoGet, DrainStart, DrainLook, DrainFind, DrainStore, DrainFound, DrainLate,
      Ends, Restart, Forget, drainVars, vars

\* When DrainNode returns and its requests have been answered, no pod runs that
\* respects the cordon, however many pods there are and however they come and
\* go meanwhile.
THEOREM DrainLeavesNoPod == Spec => []NoPodRuns
<1>1. Init => CordonInv /\ PodsInv
  BY DEF Init, CordonInv, PodsInv, Handled, Runs
<1>2. PodsInv => NoPodRuns
  BY DEF PodsInv, Handled, NoPodRuns, Clean
<1>3. QED
  BY <1>1, <1>2, ClientInit, ClientStep, CordonStep, PodsStep, PTL DEF Spec

-----------------------------------------------------------------------------
(* WaitForNode.                                                            *)

NoneCordoned == \A h \in Hosts : ~nodes[h].cordoned

\* While it judges, no node is cordoned but the one it has found to be.
WaitInv ==
    /\ wait \in {"judge", "uncordon"} =>
          \A n \in nodeRef : \A h \in Hosts :
             nodes[h].cordoned => n.name = h /\ n.cordoned
    /\ wait = "returned" /\ ~faulty /\ drain = "off" => NoneCordoned

\* With a single node registered, that one being schedulable is all of them
\* being so.
LEMMA OneIsAll ==
    ASSUME Cardinality(Registered) <= 1, NEW g \in Registered, NEW h \in Registered
    PROVE  g = h
<1> SUFFICES ASSUME g # h PROVE FALSE
  OBVIOUS
<1>1. IsFiniteSet(Registered)
  BY ClientConstants, FS_Subset DEF ClientConstants, Registered
<1>2. IsFiniteSet({g}) /\ Cardinality({g}) = 1
  BY FS_Singleton
<1>3. IsFiniteSet({g} \cup {h}) /\ Cardinality({g} \cup {h}) = 2
  BY <1>2, FS_AddElement
<1>4. {g} \cup {h} \subseteq Registered
  OBVIOUS
<1>5. Cardinality({g} \cup {h}) <= Cardinality(Registered)
  BY <1>1, <1>4, FS_Subset
<1>6. Cardinality(Registered) \in Nat
  BY <1>1, FS_CardinalityType
<1>7. QED
  BY <1>3, <1>5, <1>6

\* The node that findNode finds is the only one that can be cordoned.
LEMMA FoundIsCordoned ==
    ASSUME ClientInv, FindNode, NEW n \in nodeRef', NEW h \in Hosts, nodes[h].cordoned
    PROVE  n.name = h /\ n.cordoned
<1>1. h \in Registered /\ Registered # {}
  BY DEF ClientInv, Registered
<1>2. PICK g \in Registered : n = CopyOf(g)
  BY <1>1 DEF FindNode
<1>3. g = h
  BY <1>1, OneIsAll DEF FindNode
<1>4. QED
  BY <1>2, <1>3 DEF CopyOf

\* The cordon is only touched by the patches.
LEMMA CordonKept ==
    ASSUME ClientInv, [Next]_vars, ~DrainCordon, ~WaitUncordon
    PROVE  \A h \in Hosts : nodes'[h].cordoned = nodes[h].cordoned
<1>1. CASE KubeletReports
  BY <1>1 DEF KubeletReports, ClientInv, Node
<1>2. ASSUME NEW h \in Hosts, NodeUnknown(h)
      PROVE  \A g \in Hosts : nodes'[g].cordoned = nodes[g].cordoned
  BY <1>2 DEF NodeUnknown, ClientInv, Node
<1>3. CASE UNCHANGED nodes
  BY <1>3
<1>4. QED
  BY <1>1, <1>2, <1>3
  DEF Next, CreatePod, Recreate, Schedule, Terminated, PodBecomes, DrainEvict,
      DrainPoll, Expire, WaitList, WaitJudge, InfoLook, InfoFind, InfoStore,
      InfoGet, DrainStart, DrainLook, DrainFind, DrainStore, DrainFound, DrainList,
      DrainRound, DrainLate, DrainReturns, Ends, Restart, Forget, cluster, vars

\* Every step keeps what WaitForNode knows of the cordon.
LEMMA WaitStep == ClientInv /\ WaitInv /\ [Next]_vars => WaitInv'
<1> SUFFICES ASSUME ClientInv, WaitInv, [Next]_vars PROVE WaitInv'
  OBVIOUS
<1>1. CASE DrainCordon
  BY <1>1 DEF DrainCordon, Waited, WaitInv
<1>2. CASE WaitUncordon
  <2>1. PICK n \in nodeRef : SetUnschedulable(n.name, FALSE)
    BY <1>2 DEF WaitUncordon
  <2>2. n.name \in Hosts /\ wait = "uncordon" /\ wait' = "returned"
    BY <1>2 DEF WaitUncordon, ClientInv, Registered
  <2>3. ASSUME ~faulty' PROVE NoneCordoned'
    <3>1. nodes' = [nodes EXCEPT ![n.name].cordoned = FALSE]
      BY <2>1, <2>3 DEF SetUnschedulable, Fault
    <3>2. \A h \in Hosts : nodes[h].cordoned => n.name = h
      BY <2>2 DEF WaitInv
    <3>3. QED
      BY <2>2, <3>1, <3>2, PatchKeepsNode DEF NoneCordoned, ClientInv
  <2>4. QED
    BY <2>2, <2>3 DEF WaitInv
<1>3. CASE ~DrainCordon /\ ~WaitUncordon
  <2>1. \A h \in Hosts : nodes'[h].cordoned = nodes[h].cordoned
    BY <1>3, CordonKept
  <2>2. CASE WaitList
    <3>1. wait' = "judge" => FindNode
      BY <2>2 DEF WaitList, FindNodeFatal, Die
    <3>2. wait' \notin {"uncordon", "returned"}
      BY <2>2 DEF WaitList, FindNodeFatal, Die
    <3>3. QED
      BY <2>1, <3>1, <3>2, FoundIsCordoned DEF WaitInv
  <2>3. CASE WaitJudge
    <3>1. PICK n \in nodeRef :
             wait' = CASE ~n.ready -> "list"
                       [] n.ready /\ n.cordoned -> "uncordon"
                       [] OTHER -> "returned"
      BY <2>3, Zenon DEF WaitJudge
    <3>2. wait = "judge" /\ UNCHANGED nodeRef
      BY <2>3 DEF WaitJudge, cache
    <3>3. wait' = "returned" => ~n.cordoned
      BY <3>1, Zenon
    <3>4. wait' # "judge"
      BY <3>1, Zenon
    <3>5. QED
      BY <2>1, <3>2, <3>3, <3>4 DEF WaitInv, NoneCordoned
  <2>4. CASE wait' = "dead" \/ wait' = "list"
    BY <2>4 DEF WaitInv
  <2>5. CASE UNCHANGED <<wait, nodeRef>> /\ (~faulty' => ~faulty) /\ (drain' = "off" => drain = "off")
    BY <2>1, <2>5 DEF WaitInv, NoneCordoned
  <2>6. CASE InfoFind \/ InfoStore
    <3>1. UNCHANGED drain /\ wait' \in {wait, "dead"} /\ (~faulty' => ~faulty) /\ Waited
      BY <2>6 DEF InfoFind, InfoStore, FindNodeFatal, Die, drainVars, Fault
    <3>2. QED
      BY <2>1, <3>1 DEF WaitInv, NoneCordoned, Waited
  <2>7. CASE DrainFind \/ DrainStore \/ DrainStart \/ DrainList
    <3>1. drain' # "off" /\ wait' \in {"returned", "late", "dead"}
      BY <2>7 DEF DrainFind, DrainStore, DrainStart, DrainList, Waited, FindNodeFatal, Die
    <3>2. QED
      BY <3>1 DEF WaitInv
  <2>8. CASE Restart \/ Ends
    BY <2>4, <2>8 DEF Restart, Ends, Die
  <2>9. CASE ~(WaitList \/ WaitJudge \/ InfoFind \/ DrainFind \/ DrainStart
                 \/ DrainList \/ Restart \/ Ends \/ InfoStore \/ DrainStore)
    <3>1. /\ UNCHANGED <<wait, nodeRef>>
          /\ ~faulty' => ~faulty
          /\ drain' = "off" => drain = "off"
      BY <1>3, <2>9
      DEF Next, KubeletReports, NodeUnknown, CreatePod, Recreate, Schedule,
          Terminated, PodBecomes, DrainEvict, DrainPoll, Expire, InfoLook, InfoGet,
          DrainLook, DrainFound, DrainRound, DrainLate, DrainReturns, Fault, cache, drainVars, vars
    <3>2. QED
      BY <2>5, <3>1
  <2>10. QED
    BY <2>2, <2>3, <2>6, <2>7, <2>8, <2>9
<1>4. QED
  BY <1>1, <1>2, <1>3

\* WaitForNode returns with every node schedulable, for any hosts, any history
\* of drains and of renamings, as long as its requests are answered.
THEOREM WaitLeavesSchedulable == Spec => []Schedulable
<1>1. Init => WaitInv
  BY DEF Init, WaitInv
<1>2. WaitInv => Schedulable
  BY DEF WaitInv, NoneCordoned, Schedulable
<1>3. QED
  BY <1>1, <1>2, ClientInit, ClientStep, WaitStep, PTL DEF Spec
=============================================================================
