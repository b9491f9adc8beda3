----------------------------- MODULE MCRestart -----------------------------
(***************************************************************************)
(* An instance of Restart for TLC: one request at a time besides the tick  *)
(* and one command.                                                        *)
(***************************************************************************)
EXTENDS Restart

CONSTANT w1

OneWorker == {w1}
=============================================================================
