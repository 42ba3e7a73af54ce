-------------------------- MODULE MCSoftwareUpdate --------------------------
(* Values of the constants of SoftwareUpdate for TLC.                      *)
EXTENDS SoftwareUpdate, TLC

CONSTANTS d1, d2

TwoDesigners == {d1, d2}

\* As texts, the last version comes first: 1.7, 1.8, 1.9, 1.10.
FourVersions == 1..4
AsTexts == (1 :> 2) @@ (2 :> 3) @@ (3 :> 4) @@ (4 :> 1)

\* Script 2 only widens a column.
KnownScripts == (1 :> 1) @@ (2 :> 2) @@ (3 :> 3) @@ (4 :> 3)
Repeatable == {2}
=============================================================================
