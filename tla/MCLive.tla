------------------------------- MODULE MCLive -------------------------------
(***************************************************************************)
(* Instances of Live for TLC.                                              *)
(***************************************************************************)
EXTENDS Live

TwoConns == {"c1", "c2"}
ThreeConns == {"c1", "c2", "c3"}
=============================================================================
