------------------------------- MODULE MCRoom -------------------------------
(***************************************************************************)
(* Instances of Room for TLC: requests one at a time, or two at once.      *)
(***************************************************************************)
EXTENDS Room, TLC

CONSTANTS w1, w2

OneWorker == {w1}
TwoWorkers == {w1, w2}
Symmetric == Permutations(TwoWorkers)
=============================================================================
