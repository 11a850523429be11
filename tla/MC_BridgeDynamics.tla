--------------------------- MODULE MC_BridgeDynamics ---------------------------
(* Model-checking instance of BridgeDynamics: three nodes in a row, the last *)
(* one with a baseline outside the Omega of the others after one shock; a    *)
(* level pair of bridges and a slanted one.                                  *)
EXTENDS BridgeDynamics

Row == {<<0, 1>>, <<1, 0>>, <<1, 2>>, <<2, 1>>}
Baselines == [n \in Node |-> IF n = 2 THEN 800 ELSE 0]
Level == [e \in Row |-> 45]
Slanted == [Level EXCEPT ![<<1, 2>>] = 80, ![<<2, 1>>] = 11]
Shocks == {-200, 1000}
=============================================================================
