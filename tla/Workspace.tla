----------------------------- MODULE Workspace -----------------------------
(***************************************************************************)
(* A workspace of Rust and Solidity contracts on a developer's machine,    *)
(* and the cdm build and cdm deploy commands that run in it one after      *)
(* another: detection of the contracts and their dependencies, the layered *)
(* build, the bytecode files and the manifest it leaves, and the generated *)
(* Solidity files through which one contract imports another by package.   *)
(*                                                                         *)
(* A generated file is first a stub with address 0 and, after a deployment *)
(* of its package, a wrapper with the deployed address.  A Solidity        *)
(* contract compiles the address it finds into its bytecode.  What a       *)
(* deployment does on chain is the module Deploy; here it succeeds or      *)
(* fails for a layer.                                                      *)
(*                                                                         *)
(* A definition named D_Fault is a faulty variant of D that no             *)
(* specification uses: put in the place of D, it shows which property      *)
(* would notice the fault.                                                 *)
(***************************************************************************)
EXTENDS Detection, Functions

CONSTANTS
  Target,      \* the crates and Solidity contracts, numbers
  Helper,      \* Solidity source files that declare no contract
  Package,     \* CDM package names
  NoPackage,   \* of a contract that declares none
  Tree,        \* the source trees considered: [toolchain, package, imports]
  BytecodePath,\* (toolchain and) target name -> the file of its bytecode
  MaxRuns      \* how many commands are run

Toolchains == {"rust", "foundry", "hardhat"}
File == Target \cup Helper

ASSUME WorkspaceAssumption ==
  /\ Target \subseteq Nat /\ IsFiniteSet(Target) /\ Target \cap Helper = {}
  /\ NoPackage \notin Package
  /\ Tree \subseteq [toolchain : [Target -> Toolchains],
                     package   : [Target -> Package \cup {NoPackage}],
                     imports   : [File -> SUBSET (File \cup Package)]]
  /\ DOMAIN BytecodePath = Target

VARIABLES
  tree,       \* the sources, which no command changes
  wrapper,    \* package -> its file under .cdm/solidity
  bytecode,   \* path -> the bytecode in it
  manifest,   \* the contracts of target/cdm/build-manifest.json
  run,        \* the number of the command, 0 before the first
  command,    \* "build" or "deploy"
  at,         \* where the command is
  selected,   \* detected.contracts: what the filter selects
  layers,     \* detected.layers
  layer,      \* layerIndex
  ready,      \* builtCrates of the layer, to be deployed
  failed,     \* build.failed, and failedCrates
  deployed    \* target -> the bytecode this run deployed for it

workspaceVars == <<tree, wrapper, bytecode, manifest, run, command, at, selected, layers,
                   layer, ready, failed, deployed>>

Absent == [kind |-> "absent"]
Stub   == [kind |-> "stub"]
Nothing == [of |-> 0]
Wrapper(t) == [kind |-> "wrapper", target |-> t, run |-> run]

-----------------------------------------------------------------------------
(* Detection. *)

Solidity == {t \in Target : tree.toolchain[t] # "rust"}
\* detectContracts leaves out crates without a package name.
Rust == {t \in Target : tree.toolchain[t] = "rust" /\ tree.package[t] # NoPackage}

\* The packages a source file imports, with those of every file it reaches
\* through imports of files: what its compiler reads.
PackagesReached(t) ==
  LET Reached[visited \in SUBSET File] ==
        LET next == UNION {tree.imports[f] : f \in visited} \cap File
        IN  IF next \subseteq visited THEN visited ELSE Reached[visited \cup next]
  IN  UNION {tree.imports[f] : f \in Reached[{t}]} \cap Package

\* collectCdmImportPackages follows the same imports before it compiles; its
\* set of visited files cuts off import cycles.
ImportedPackages_Direct(t) == tree.imports[t] \cap Package
ImportedPackages(t) == PackagesReached(t)

\* dependsOnCrates.  A crate depends on the crates and packages its manifest
\* names, if they are crates of the workspace; a Solidity contract on the
\* packages it imports, if Solidity contracts of the workspace declare them.
RustDependencies(t) ==
  {d \in Rust : d \in tree.imports[t] \/ tree.package[d] \in tree.imports[t]}
SolidityDependencies(t) ==
  {d \in Solidity \ {t} : tree.package[d] \in ImportedPackages(t)}
DependsOnCrates ==
  [t \in Rust \cup Solidity |->
     IF t \in Rust THEN RustDependencies(t) ELSE SolidityDependencies(t)]

\* assertUniqueCdmPackages.
UniqueCdmPackages(contracts) ==
  \A t, u \in contracts :
    tree.package[t] = tree.package[u] /\ tree.package[t] # NoPackage => t = u

\* detectAndFilter orders all crates before it filters them, so a cycle among
\* them is an error whatever the filter.
DetectionFails(contracts) ==
  \/ ToposortLayers(DependencyGraph(Rust, DependsOnCrates)) = Circular
  \/ ~UniqueCdmPackages(contracts)
  \/ ToposortLayers(DependencyGraph(contracts, DependsOnCrates)) = Circular

Local(contracts) == {tree.package[t] : t \in contracts \cap Solidity} \ {NoPackage}

\* A command begins: detectBuildOrder, then writeLocalSolidityBuildImports.
Start(kind, contracts) ==
  /\ at = "idle" /\ run < MaxRuns
  /\ run' = run + 1 /\ command' = kind /\ selected' = contracts
  /\ failed' = {} /\ deployed' = [t \in Target |-> Nothing] /\ ready' = {} /\ layer' = 1
  /\ IF DetectionFails(contracts)
       THEN /\ layers' = <<>> /\ at' = "error"
            /\ UNCHANGED wrapper
       ELSE /\ layers' = ToposortLayers(DependencyGraph(contracts, DependsOnCrates))
            /\ at' = "build"
            /\ wrapper' = [p \in Package |-> IF p \in Local(contracts) THEN Stub ELSE wrapper[p]]
  /\ UNCHANGED <<tree, bytecode, manifest>>

StartBuild  == \E filter \in SUBSET (Rust \cup Solidity) : filter # {} /\ Start("build", filter)
StartDeploy == Start("deploy", Rust \cup Solidity)

-----------------------------------------------------------------------------
(* The build of a layer. *)

Of(toolchain) == {t \in Target : tree.toolchain[t] = toolchain}

\* forge and hardhat compile every source of the project, and need the files
\* these import.
Compiles(toolchain) ==
  \A t \in Of(toolchain) : \A p \in PackagesReached(t) : wrapper[p] # Absent

Compiled(t) ==
  [of |-> t, embeds |-> [p \in IF t \in Solidity THEN PackagesReached(t) ELSE {} |-> wrapper[p]]]

\* runBuildLayer: what has a failed dependency is skipped; crates fail one by
\* one; a Solidity toolchain fails for all its targets, or leaves some without
\* bytecode.  What is built is written to its path.
BuildLayer ==
  /\ at = "build" /\ layer \in DOMAIN layers
  /\ LET skipped  == {t \in layers[layer] : DependsOnCrates[t] \cap failed # {}}
         runnable == layers[layer] \ skipped
         broken   == {c \in {"foundry", "hardhat"} : ~Compiles(c)}
     IN  \E built \in SUBSET runnable :
           /\ \A c \in broken : built \cap Of(c) = {}
           /\ failed' = failed \cup (layers[layer] \ built)
           /\ ready' = built
           /\ bytecode' = [path \in Range(BytecodePath) |->
                LET written == {t \in built : BytecodePath[t] = path}
                IN  IF written = {} THEN bytecode[path] ELSE Compiled(Max(written))]
           /\ IF command = "deploy" /\ built # {}
                THEN at' = "deploy" /\ UNCHANGED layer
                ELSE at' = "build" /\ layer' = layer + 1
  /\ UNCHANGED <<tree, wrapper, manifest, run, command, selected, layers, deployed>>

\* A layer is deployed: getDeployableContract needs every package's name; the
\* bytecode is read from its path; then the wrappers are written.
Deployable(t) == tree.package[t] # NoPackage
DeployLayer ==
  /\ at = "deploy" /\ \A t \in ready : Deployable(t)
  /\ deployed' = [t \in Target |-> IF t \in ready THEN bytecode[BytecodePath[t]] ELSE deployed[t]]
  /\ wrapper' = [p \in Package |->
       IF \E t \in ready : tree.package[t] = p
         THEN Wrapper(CHOOSE t \in ready : tree.package[t] = p) ELSE wrapper[p]]
  /\ at' = "build" /\ layer' = layer + 1
  /\ UNCHANGED <<tree, bytecode, manifest, run, command, selected, layers, ready, failed>>

\* ... or fails, and with it all of the layer.
DeployFails ==
  /\ at = "deploy"
  /\ failed' = failed \cup ready
  /\ at' = "build" /\ layer' = layer + 1
  /\ UNCHANGED <<tree, wrapper, bytecode, manifest, run, command, selected, layers, ready,
                 deployed>>

\* writeManifestFromBuildSummary leaves the old manifest if nothing was built.
ManifestOf_Everything(built) == selected
ManifestOf(built) == IF built = {} THEN manifest ELSE built
Finish ==
  /\ at = "build" /\ layer \notin DOMAIN layers
  /\ manifest' = ManifestOf(selected \ failed)
  /\ at' = "done"
  /\ UNCHANGED <<tree, wrapper, bytecode, run, command, selected, layers, layer, ready, failed,
                 deployed>>

Return ==
  /\ at \in {"done", "error"}
  /\ at' = "idle"
  /\ UNCHANGED <<tree, wrapper, bytecode, manifest, run, command, selected, layers, layer, ready,
                 failed, deployed>>

WorkspaceInit ==
  /\ tree \in Tree
  /\ wrapper = [p \in Package |-> Absent]
  /\ bytecode = [path \in Range(BytecodePath) |-> Nothing]
  /\ manifest = {}
  /\ run = 0 /\ command = "build" /\ at = "idle"
  /\ selected = {} /\ layers = <<>> /\ layer = 1 /\ ready = {} /\ failed = {}
  /\ deployed = [t \in Target |-> Nothing]

WorkspaceNext ==
  \/ StartBuild \/ StartDeploy \/ BuildLayer \/ DeployLayer \/ DeployFails \/ Finish \/ Return

WorkspaceSpec == WorkspaceInit /\ [][WorkspaceNext]_workspaceVars

-----------------------------------------------------------------------------
(* Properties. *)

\* A command that gets past detection goes through a layering of the contracts
\* it selected, and one whose contracts depend on each other in a circle does
\* not; the flat order of the same graph agrees.
LayersAreALayering ==
  LET graph == DependencyGraph(selected, DependsOnCrates) IN
  /\ at \notin {"idle", "error"} => IsLayering(layers, graph)
  /\ at # "idle" =>
       IF Rankings(graph) = {} THEN at = "error" /\ Toposort(graph) = Circular
                               ELSE IsTopological(Toposort(graph), graph)

\* Whatever was built, deployed or left half done before, the bytecode a
\* deployment puts on chain embeds, for every Solidity package of the
\* workspace it imports, the address this very run has deployed it at.  Only
\* its own package, if it imports that, is the stub it was compiled with.
EmbedsThisRun(packages) ==
  command = "deploy" =>
    \A t \in Target : deployed[t] # Nothing =>
      \A p \in (DOMAIN deployed[t].embeds \cap packages) \ {tree.package[deployed[t].of]} :
        \E d \in Target : /\ tree.package[d] = p /\ deployed[d] # Nothing
                          /\ deployed[t].embeds[p] = Wrapper(d)
ImportsAreOfThisRun == EmbedsThisRun(Local(selected))

\* Every contract the manifest lists has bytecode of its own at its path.
ManifestIsBuilt ==
  \A t \in manifest : bytecode[BytecodePath[t]].of = t

\* Claimed by the documentation, not kept by the code: the order puts every
\* contract after all contracts of the workspace it imports, of any language.
OrderIsLanguageAgnostic ==
  EmbedsThisRun({tree.package[t] : t \in selected})
=============================================================================
