------------------------------- MODULE MCDeploy -------------------------------
(***************************************************************************)
(* Instances of DeployRelease for TLC.                                     *)
(***************************************************************************)
EXTENDS DeployRelease

CONSTANTS first, second

\* The second candidate is built on the first.
Chain == [c \in {first, second} |-> IF c = first THEN Base ELSE first]
=============================================================================
