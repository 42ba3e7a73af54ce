-------------------------- MODULE MCActionProtocol --------------------------
(* Values of the constants of ActionProtocol for TLC: d1 is a deployment,   *)
(* r1 a restart of the player.                                              *)
EXTENDS ActionProtocol, TLC

CONSTANTS d1, r1, c1

JustDeploy == {d1}
DeployAndRestart == {d1, r1}
OneCrc == {c1}
CrcOfOne == (d1 :> c1)

\* Failures but the one that can have the server send an action twice.
NoFlushFaults == FaultKinds \ {"flush"}
CrashOnly == {"crash"}
=============================================================================
