------------------------------ MODULE Standard ------------------------------
(***************************************************************************)
(* The rule set and the board the code ships with: the values of           *)
(* app/core/constants.py and app/core/ruleset.py, in seconds, and          *)
(* app/engine/board_setup.py.                                              *)
(***************************************************************************)
EXTENDS Integers, Sequences

StandardWaveOpen == [w \in 0 .. 3 |-> 50 + 20 * w]
StandardWaveWindow == 20

StandardUnlockWaves ==
  LET flyers == {"horse", "cannon", "chariot"}
  IN  [t \in {50, 70, 90, 110} |->
         CASE t = 50 -> flyers
           [] t = 70 -> flyers \cup {"elephant"}
           [] t = 90 -> flyers \cup {"elephant", "advisor"}
           [] OTHER  -> flyers \cup {"elephant", "advisor", "soldier", "general"}]

StandardCooldown ==
  [soldier |-> 10, advisor |-> 8, elephant |-> 15, horse |-> 20, cannon |-> 20,
   chariot |-> 30, general |-> 3]

At(owner, kind, x, y) == [owner |-> owner, kind |-> kind, cell |-> <<x, y>>]

BackRank == <<"chariot", "horse", "elephant", "advisor", "general",
              "advisor", "elephant", "horse", "chariot">>

\* The pieces of one side, from its rows of back rank, cannons and soldiers.
Side(owner, back, cannons, soldiers) ==
  [i \in 1 .. 9 |-> At(owner, BackRank[i], i - 1, back)]
  \o <<At(owner, "cannon", 1, cannons), At(owner, "cannon", 7, cannons)>>
  \o [i \in 1 .. 5 |-> At(owner, "soldier", 2 * (i - 1), soldiers)]

\* Black, on top, is spawned first.
StandardBoard == Side(2, 0, 2, 3) \o Side(1, 9, 7, 6)
=============================================================================
