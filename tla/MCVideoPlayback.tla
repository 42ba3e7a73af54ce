---------------------------- MODULE MCVideoPlayback ----------------------------
(***************************************************************************)
(* Five processes are one more than there are at once with one scheduled   *)
(* file (FewProcesses): a thread never lacks one to start.                 *)
(***************************************************************************)
EXTENDS VideoPlayback
=============================================================================
