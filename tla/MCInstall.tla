----------------------------- MODULE MCInstall ------------------------------
(***************************************************************************)
(* Small instances of `cdm install` for TLC: what the runs are asked for.  *)
(***************************************************************************)
EXTENDS Install

CONSTANTS first, second, a, b

Ask(library, version) == [library |-> library, version |-> version]

\* A pinned version and the latest, then a reinstallation from cdm.json.
Mixed == [r \in Run |-> IF r = first THEN <<Ask(a, 0), Ask(b, Latest)>> ELSE <<>>]

\* The latest of one library.
JustLatest == [r \in Run |-> <<Ask(a, Latest)>>]

InTurn == [r \in Run |-> IF r = second THEN {first} ELSE {}]
=============================================================================
