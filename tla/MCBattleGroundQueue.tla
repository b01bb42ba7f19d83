------------------------ MODULE MCBattleGroundQueue -------------------------
(* Instances of BattleGroundQueue for TLC.                                 *)
EXTENDS BattleGroundQueue

CONSTANTS a1, a2, h1

\* Everybody but h1 is of the Alliance.
Sides == [p \in Players |-> IF p = h1 THEN "horde" ELSE "alliance"]

\* The player of the Alliance may join again.
Joins == [t \in Teams |-> IF t = "alliance" THEN 2 ELSE 1]

Alone == {{p} : p \in Players}
=============================================================================
