------------------------------ MODULE MCRelay ------------------------------
(* Instances of Relay for TLC: one message for two recipients, each at a     *)
(* domain of its own.                                                        *)
EXTENDS RelayDelivery, TLC

CONSTANTS m1, r1, r2, d1, d2

OneMsg     == {m1}
TwoRcpts   == {r1, r2}
TwoDomains == {d1, d2}
Split2     == r1 :> d1 @@ r2 :> d2
=============================================================================
