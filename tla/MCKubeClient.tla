---------------------------- MODULE MCKubeClient ----------------------------
(* KubeClient for TLC.                                                      *)
EXTENDS KubeClient, TLC
=============================================================================
