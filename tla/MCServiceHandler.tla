-------------------------- MODULE MCServiceHandler --------------------------
(* ServiceHandler for TLC.                                                  *)
EXTENDS ServiceHandler
=============================================================================
