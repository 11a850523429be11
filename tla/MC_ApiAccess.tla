----------------------------- MODULE MC_ApiAccess -----------------------------
(* Model-checking instance of ApiAccess: two values of everything, and a      *)
(* position of two words.                                                  *)
EXTENDS ApiAccess

States == {0, 1}

HealthOfState == [v \in States |-> IF v = 0 THEN 1000 ELSE 400]

TwoCoordinates == <<"x", "y">>

BridgeCapacities == {0, 100, 500, 1000}
=============================================================================
