---------------------------- MODULE MCMigration -----------------------------
(***************************************************************************)
(* A small migration for TLC: a first run that exports and imports and may *)
(* fail anywhere, an import of the file it left, and two repetitions       *)
(* without faults, for the one name that others may claim on the target.   *)
(***************************************************************************)
EXTENDS Migration

CONSTANTS first, second, third, fourth, alice, bob, n1, n2

Versions == [n \in Name |-> IF n = n1 THEN 2 ELSE 1]

\* The third run imports everything in one batch, the others one by one.
Batches  == [r \in Run |-> IF r = third THEN 2 ELSE 1]

ReExport == [r \in Run |-> IF r = second THEN "import" ELSE "migrate"]
InTurn   == [r \in Run |-> CASE r = first  -> {}
                             [] r = second -> {first}
                             [] r = third  -> {first, second}
                             [] r = fourth -> {first, second, third}]
=============================================================================
