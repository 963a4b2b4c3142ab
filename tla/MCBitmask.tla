----------------------------- MODULE MCBitmask -----------------------------
(* Bitmask sectors of three bits for an image of seven sectors: three of   *)
(* them, the last one used for one bit only; or two, which is too few.     *)
EXTENDS Bitmask

Owner(owned) == [s \in Sector |-> IF s \in owned THEN BitmapId ELSE s]

MCFileIds == {Owner({1, 2, 3}), Owner({1, 2})}
=============================================================================
