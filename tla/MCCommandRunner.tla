-------------------------- MODULE MCCommandRunner --------------------------
(* Values for TLC of the constants of CommandRunner.                       *)
EXTENDS CommandRunner

CONSTANTS leader, helper

=============================================================================
