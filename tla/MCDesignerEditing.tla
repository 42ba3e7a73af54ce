-------------------------- MODULE MCDesignerEditing --------------------------
(* Values of the constants of DesignerEditing for TLC: a file with the      *)
(* layouts l1 and l2, of which l1 has a region, and elements to create.      *)
EXTENDS DesignerEditing

CONSTANTS l1, l2, l3, r1, r2

ThreeLayouts == {l1, l2, l3}
TwoRegions == {r1, r2}
TwoOpened == <<l1, l2>>
OneRegionEach == [l \in ThreeLayouts |-> IF l = l1 THEN {r1} ELSE {}]
=============================================================================
