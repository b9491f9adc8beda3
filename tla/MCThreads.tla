----------------------------- MODULE MCThreads -----------------------------
(***************************************************************************)
(* An instance of MatchThreads for TLC: a chariot that can take the        *)
(* general once it is unlocked, generals that can step aside, one wave     *)
(* before the full unlock and draws right after it.                        *)
(***************************************************************************)
EXTENDS MatchThreads, Standard

OneWave == [w \in {0} |-> 1]
OneOffer == [t \in {0} |-> {"chariot", "general"}]
ShortCooldown == [k \in Kinds |-> 1]

ThreadBoard == <<At(2, "general", 4, 0), At(1, "general", 3, 9), At(1, "chariot", 4, 2)>>
ThreadAims == {<<3, <<4, 0>>>>, <<1, <<5, 0>>>>, <<2, <<3, 8>>>>}
ThreadWishes == {<<1, "chariot">>, <<1, "general">>}
TwoRequests == {"r1", "r2"}
============================================================================
