------------------------------ MODULE MCHasho ------------------------------
EXTENDS HashoTable, TLC

CONSTANT Lone \* the key that does not collide with the others

SomeCollide == [k \in Keys |-> IF k = Lone THEN 1 ELSE 0]

TableSymmetry == Permutations(Keys \ {Lone}) \cup Permutations(Datas)
=============================================================================
