--------------------------- MODULE MCInventorySync ---------------------------
(* Constants of InventorySync for model checking: a regional task                           *)
(* resource and a global task with another.                                *)
EXTENDS InventorySync, TLC
CONSTANTS r1, r2, regional, global
OneResource  == {r1}
OneTask      == {regional}
SameTask     == [r \in Resources |-> regional]
=============================================================================
