------------------------- MODULE MCContentRetrieval -------------------------
(* Values of the constants of ContentRetrieval for TLC.                     *)
EXTENDS ContentRetrieval, TLC

CONSTANTS d1, d2, k1, h1, h2, h3

OneDeployment == {d1}
TwoDeployments == {d1, d2}
OneResource == {k1}
OfOne == (d1 :> {k1})
OfEach == (d1 :> {k1}) @@ (d2 :> {k1})

TwoHandlers == {h1, h2}
ThreeHandlers == {h1, h2, h3}
Symmetry == Permutations(ThreeHandlers) \cup Permutations(TwoDeployments)
=============================================================================
