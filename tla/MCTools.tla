------------------------------ MODULE MCTools ------------------------------
(***************************************************************************)
(* Three tools that share no state, checked in one run: the commands in a  *)
(* workspace, the generator of Solidity imports and the script that        *)
(* converges names.  A behaviour is one of the three; the others stay in   *)
(* one of their initial states.                                            *)
(***************************************************************************)
EXTENDS Workspace, SolidityImports, Converge, TLC
CONSTANTS p1, p2, p3, helper, owner, other, disputes, mock_disputes, contract_registry
VARIABLE tool

(* Workspace. *)
Named == 1 :> p1 @@ 2 :> p2 @@ 3 :> p3
AllSolidity == [t \in Target |-> "foundry"]
\* Every import graph of three Solidity contracts.
Graphs == {[toolchain |-> AllSolidity, package |-> Named, imports |-> helper :> {} @@ i] :
             i \in {f \in [Target -> SUBSET Package] : \A t \in Target : Named[t] \notin f[t]}}
\* Imports through a helper file and through another contract's file.
Indirect == [toolchain |-> AllSolidity, package |-> Named,
             imports |-> helper :> {p1} @@ 1 :> {} @@ 2 :> {helper} @@ 3 :> {2}]
Mixed == [toolchain |-> 1 :> "rust" @@ 2 :> "rust" @@ 3 :> "foundry", package |-> Named,
          imports |-> helper :> {} @@ 1 :> {} @@ 2 :> {p1} @@ 3 :> {p1}]
\* A contract imports itself, by its file and by its package.
Itself == [toolchain |-> AllSolidity, package |-> Named,
           imports |-> helper :> {p1} @@ 1 :> {1, p1} @@ 2 :> {p1, p2} @@ 3 :> {3, p2}]
\* One contract has no package name; two toolchains see the same package.
Unnamed == [toolchain |-> AllSolidity, package |-> [Named EXCEPT ![2] = NoPackage],
            imports |-> helper :> {} @@ 1 :> {} @@ 2 :> {} @@ 3 :> {p1}]
Twice == [toolchain |-> 1 :> "foundry" @@ 2 :> "hardhat" @@ 3 :> "rust",
          package |-> [Named EXCEPT ![2] = p1],
          imports |-> helper :> {} @@ 1 :> {} @@ 2 :> {} @@ 3 :> {}]
Trees == Graphs \cup {Indirect, Itself, Mixed, Unnamed, Twice}
MixedOnly == {Mixed}
OwnPath == [t \in Target |-> t]

(* SolidityImports. *)
Plain(name, type) == [name |-> name, type |-> type, internalType |-> None, components |-> <<>>]
Tuple(type, parts) == [name |-> None, type |-> "tuple", internalType |-> type, components |-> parts]
Params == {Plain("a", "bytes"), Plain("b", "function")}
  \cup {Tuple(type, <<part>>) : type \in {"Item", "Item2", "Lib", None},
                                part \in {Plain(None, "bool"), Plain("a", "bytes")}}
  \cup {Tuple("Pair", <<Plain("if", "bool"), Plain("if_", "bool"), Plain("field3", "bool"),
                        Tuple(None, <<Plain("a", "bool")>>)>>),
        Tuple("Item", <<Tuple("Item", <<Plain("a", "bool")>>), Plain(None, "bool")>>),
        Tuple("Item", <<Plain("b", "bytes")>>), Tuple("item", <<Plain("a", "bytes")>>)}
Parts == UNION {ToSet(p.components) : p \in Params} \cup {Plain("a", "bool")}
\* Types "Item" and "item" are different structs with one name in Pascal case.
PascalCase == "item" :> "Item" @@ [type \in {"Item", "Item2", "Lib", "Pair"} |-> type]

(* Converge. *)
Renames == disputes :> mock_disputes
Names == <<disputes, contract_registry>>
RegistryItself == [address |-> 9, uri |-> 9]
Two == {[address |-> 1, uri |-> 1], [address |-> 2, uri |-> 2]}

-----------------------------------------------------------------------------
toolsVars == <<tool, workspaceVars, importsVars, convergeVars>>

ToolsInit ==
  /\ tool \in {"workspace", "imports", "converge"}
  /\ WorkspaceInit /\ (tool = "workspace" \/ tree = Twice)
  /\ ImportsInit /\ ConvergeInit

ToolsNext ==
  /\ UNCHANGED tool
  /\ \/ tool = "workspace" /\ WorkspaceNext /\ UNCHANGED <<importsVars, convergeVars>>
     \/ tool = "imports" /\ ImportsNext /\ UNCHANGED <<workspaceVars, convergeVars>>
     \/ tool = "converge" /\ ConvergeNext /\ UNCHANGED <<workspaceVars, importsVars>>

ToolsSpec == ToolsInit /\ [][ToolsNext]_toolsVars
=============================================================================
