---------------------------- MODULE MCHostFiles ----------------------------
(* HostFiles for TLC: a whole PKI (etcdtls and kubetls) and a directory with *)
(* one certificate (kubectls and kubestls), in the order of the daemon, and  *)
(* the files of two plugins and two services.                                *)
EXTENDS HostFiles, TLC

BothDirs  == <<"kubetls", "kubestls">>
BothCerts == "kubetls" :> <<"ca", "server", "client">> @@ "kubestls" :> <<"cert">>

TwoPlugins  == <<"bridge", "loopback">>
TwoServices == <<"kube-scheduler", "kubelet">>
=============================================================================
