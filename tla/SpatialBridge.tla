---------------------------- MODULE SpatialBridge ----------------------------
(***************************************************************************)
(* What a signal does to the capacity and the status of a bridge           *)
(* (SpatialBridge::updateBridgeState).  Capacities are in thousandths,     *)
(* products cut off towards zero.                                          *)
(***************************************************************************)
EXTENDS Integers

SignalCategory == {"NOISE", "CREATIVE_SIGNAL", "DESTRUCTIVE_DRIFT"}

BridgeStatus == {"NORMAL", "DAMPING", "RECOVERY", "ISOLATED"}

Constrained(c) == IF (85 * c) \div 100 < 10 THEN 10 ELSE (85 * c) \div 100

Supported(c) == IF c + 150 > 1000 THEN 1000 ELSE c + 150

SupportedStatus_OfOld(old, new) == IF old >= 900 THEN "NORMAL" ELSE "RECOVERY"

(* A supported bridge is NORMAL from 0.9 on. *)
SupportedStatus(old, new) == IF new >= 900 THEN "NORMAL" ELSE "RECOVERY"

CapacityAfter(category, c) ==
    CASE category = "DESTRUCTIVE_DRIFT" -> 0
      [] category = "CREATIVE_SIGNAL"   -> Supported(c)
      [] category = "NOISE"             -> Constrained(c)

StatusAfter(category, c) ==
    CASE category = "DESTRUCTIVE_DRIFT" -> "ISOLATED"
      [] category = "CREATIVE_SIGNAL"   -> SupportedStatus(c, Supported(c))
      [] category = "NOISE"             -> "DAMPING"

(* Status s tells what capacity c is: a bridge carries nothing exactly when *)
(* it is isolated, a normal one carries at least 0.9, one in recovery less, *)
(* and damping never lets go of 0.01.                                       *)
Coherent(c, s) ==
    /\ s = "ISOLATED" <=> c = 0
    /\ s = "NORMAL"   => c \in 900 .. 1000
    /\ s = "RECOVERY" => c \in 150 .. 899
    /\ s = "DAMPING"  => c \in 10 .. 850
=============================================================================
