----------------------------- MODULE MCWsClient -----------------------------
(***************************************************************************)
(* Instances of WsClient for TLC.                                          *)
(***************************************************************************)
EXTENDS WsClient

FourSlots == {"s1", "s2", "s3", "s4"}
TwoTargets == {"A", "B"}
=============================================================================
