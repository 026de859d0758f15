-------------------------- MODULE MCRegistryDeploy --------------------------
(***************************************************************************)
(* Small instances of the registry bootstrap for TLC.                      *)
(***************************************************************************)
EXTENDS RegistryDeploy

CONSTANTS first, second, third

\* The sources change between runs: every run has a build of its own.
OwnBuild  == [r \in Run |-> IF r = first THEN "v1" ELSE "v2"]
\* The last run starts when the others are over.
ThenThird == [r \in Run |-> IF r = third THEN Run \ {third} ELSE {}]
=============================================================================
