------------------------------ MODULE MCMatch ------------------------------
(***************************************************************************)
(* Instances of Match and its views for TLC.  Boards are small end-game    *)
(* positions or the opening of create_standard_board; schedules are the    *)
(* code's, in units of ten seconds, or short ones whose unit is half a     *)
(* segment.                                                                *)
(***************************************************************************)
EXTENDS Snapshot, Standard

\* The standard schedule in units of ten seconds.
TensWaveOpen == [w \in DOMAIN StandardWaveOpen |-> StandardWaveOpen[w] \div 10]
TensUnlockWaves == [t \in {5, 7, 9, 11} |-> StandardUnlockWaves[10 * t]]

\* Two generals and nothing else: the schedule alone.
GeneralsOnly == <<At(2, "general", 4, 0), At(1, "general", 3, 9)>>
NoAims == {}
BothWish == {1, 2} \X {"cannon", "elephant"} \cup {1} \X (Kinds \ {"soldier"})

\* A schedule that is over at once: one wave at 0, everything unlocked at 1.
ShortWaveOpen == [w \in {0} |-> 0]
ShortUnlockWaves == [t \in {0} |-> Kinds]
ShortCooldown == [k \in Kinds |-> 3]

\* Chariots that meet head on in column 0, a horse and a soldier that cross them; the
\* rest stay where they are: a cannon before its screen, an elephant that is half blocked.
BattleBoard ==
  <<At(2, "general", 4, 0), At(2, "chariot", 0, 3), At(2, "soldier", 2, 5),
    At(2, "cannon", 3, 2), At(2, "advisor", 5, 1), At(2, "elephant", 6, 0),
    At(1, "general", 3, 9), At(1, "chariot", 0, 6), At(1, "horse", 1, 6), At(1, "soldier", 3, 6)>>
BattleAims ==
  {<<2, <<0, 6>>>>, <<2, <<0, 5>>>>, <<3, <<1, 5>>>>,
   <<8, <<0, 3>>>>, <<8, <<0, 4>>>>, <<9, <<0, 4>>>>}

\* Each side's chariot reaches for the enemy general.  One general may step aside; the
\* other may dodge and come back, and blocks its advisor while it is away.
EndgameBoard ==
  <<At(2, "general", 4, 0), At(2, "chariot", 2, 9),
    At(1, "general", 4, 9), At(1, "chariot", 4, 3),
    At(1, "advisor", 5, 9)>>
EndgameAims ==
  {<<1, <<5, 0>>>>, <<2, <<4, 9>>>>, <<3, <<4, 8>>>>, <<3, <<4, 9>>>>,
   <<4, <<4, 0>>>>}
EndgameCooldown == [k \in Kinds |-> 1]

\* The opening: a horse and a cannon of one side that can reach the same cell.
OpeningAims == {<<18, <<2, 7>>>>, <<26, <<2, 7>>>>, <<10, <<1, 6>>>>}
============================================================================
