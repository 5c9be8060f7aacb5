-------------------------- MODULE MCDockerExecutor --------------------------
(***************************************************************************)
(* A small instance of DockerExecutor for TLC.                             *)
(***************************************************************************)
EXTENDS DockerExecutor, TLC

CONSTANTS m1, m2  \* two contents of `dependencies`
=============================================================================
