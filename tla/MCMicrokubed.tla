---------------------------- MODULE MCMicrokubed ----------------------------
(* Microkubed for TLC.                                                      *)
EXTENDS Microkubed, TLC
=============================================================================
