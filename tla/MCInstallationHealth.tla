------------------------ MODULE MCInstallationHealth ------------------------
(* Values of the constants of InstallationHealth for TLC.                   *)
EXTENDS InstallationHealth

CONSTANT i1

OneInstallation == {i1}
=============================================================================
