---------------------------- MODULE MCWedInstall ----------------------------
(* WedInstall for TLC: one administrator, any command may fail or the      *)
(* script be interrupted.                                                  *)
EXTENDS WedInstall
Anything == {"sql", "psql", "make", "conf", "busy", "kill"}
=============================================================================
