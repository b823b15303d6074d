--------------------------- MODULE MCManifests -----------------------------
(* Manifests for TLC: both addons of the daemon.  The file of the DNS is    *)
(* any of one or two documents (one that is cut or does not decode among    *)
(* them); that of the dashboard is an object and a deployment with a probe. *)
EXTENDS Manifests

CONSTANTS MaxDocs, MaxProbes

BothAddons == <<"KubeDash", "DNS">>
GenOrder == <<"DNS", "KubeDash">>

Doc(decodes, template, deploys, probes) ==
    [decodes |-> decodes, template |-> template, deployment |-> deploys,
     probes |-> probes]

SomeDocs ==
    {Doc(FALSE, "executes", FALSE, 0)}
       \cup {Doc(TRUE, t, FALSE, 0) : t \in Templates}
       \cup {Doc(TRUE, t, TRUE, n) : t \in Templates, n \in 0..MaxProbes}

SomeSources ==
    [DNS |-> BoundedSeq(SomeDocs, MaxDocs) \ {<<>>},
     KubeDash |-> {<<Doc(TRUE, "executes", FALSE, 0),
                     Doc(TRUE, "executes", TRUE, 1)>>}]
=============================================================================
