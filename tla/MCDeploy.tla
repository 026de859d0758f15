------------------------------ MODULE MCDeploy ------------------------------
(***************************************************************************)
(* Small instances of the deploy pipeline for TLC.  Every configuration    *)
(* picks its sessions, layers and faults from the definitions below.       *)
(***************************************************************************)
EXTENDS DeployCommand

CONSTANTS first, second, third, fourth, alice, bob, a, b, c

\* second runs over two layers, after first, which may fail or be cut off
\* anywhere; or beside third, a run of the same account that may; or beside
\* fourth, another account's run for the same names.
Reruns   == {first, second}
Overlaps == {third, second}
Rivals   == {fourth, second}

\* c depends on a, in a second layer; b is independent.
Dependency == [p \in Package |-> IF p = c THEN {a} ELSE {}]
SomeLayers == [s \in Session |->
  CASE s \in Reruns -> <<<<a, b>>, <<c>>>>
    [] s = third    -> <<<<a>>>>
    [] OTHER        -> <<<<a, b>>>>]

Accounts == [s \in Session |-> IF s = fourth THEN bob ELSE alice]
SameCode == [s \in Session |-> 1]
Order    == [s \in Session |-> IF s = second THEN {first} ELSE {}]

\* Two light extrinsics fill the budget; one alone may exceed it.
Weights   == {[ref_time |-> 1, proof_size |-> 1], [ref_time |-> 1, proof_size |-> 3]}
OneBudget == [ref_time |-> 2, proof_size |-> 2]

\* One of the three pairs takes place.
OnePair == \E pair \in {Reruns, Overlaps, Rivals} : CommandInitFor(pair)
PairSpec == OnePair /\ [][CommandNext]_commandVars /\ CommandFairness
=============================================================================
