------------------------------ MODULE MC_Swiss ------------------------------
(***************************************************************************)
(* Instances of Swiss for TLC.  The fighters are alike.                    *)
(***************************************************************************)
EXTENDS Swiss, TLC

(* What the desk asks for: anything twice, then a status or a delete, and  *)
(* last a fighter goes out.                                                *)
FourAsked == <<Ops, Ops, {"in", "out", "delete"}, {"out"}>>
NoneAsked == <<>>

Alike == Permutations(Fighters) \cup Permutations(Slots)
=============================================================================
