--------------------------- MODULE RegistryDeploy ---------------------------
(***************************************************************************)
(* Putting the registry on a chain: runs of scripts/deploy-registry and of *)
(* `cdm deploy --bootstrap` by one deployer, which may overlap, be cut off *)
(* and be run again.                                                       *)
(*                                                                         *)
(* A run puts three things on chain, each unless it finds it there: the    *)
(* CREATE3 factory, the registry implementation (its address commits to    *)
(* the build), and the proxy, through the factory, at an address that      *)
(* commits only to the factory and the salt.                               *)
(*                                                                         *)
(* A definition named D_Fault is a faulty variant of D that no             *)
(* specification uses: put in the place of D, it shows which property      *)
(* would notice the fault.                                                 *)
(***************************************************************************)
CONSTANTS
  Run,        \* invocations of the script or of the command
  Bootstrap,  \* those that are `cdm deploy --bootstrap`
  Build,      \* run -> the implementation build it deploys
  After,      \* run -> the runs that must have ended before it starts
  Faulty      \* the runs in which any external step may fail

ASSUME RunsAssumption ==
  After \in [Run -> SUBSET Run] /\ Bootstrap \subseteq Run /\ Faulty \subseteq Run

NoRegistry == "none"
Nothing    == "nothing"
Builds     == {Build[r] : r \in Run}

ASSUME BuildsAssumption == NoRegistry \notin Builds /\ Nothing \notin Builds

VARIABLES
  uploaded,         \* the blobs whose code is on chain: "child", "proxy"
  factory,          \* is the factory deployed?
  implementations,  \* the builds deployed as implementations
  child,            \* is the factory's salt for the registry spent?
  registry,         \* the build the deployed proxy delegates to, or NoRegistry
  inFlight,         \* run -> the step whose submission outlived it, or Nothing
  pc,               \* run -> its next step
  reported          \* run -> the implementation it reports, or Nothing

chain == <<uploaded, factory, implementations, child, registry>>
vars  == <<uploaded, factory, implementations, child, registry, inFlight, pc, reported>>

Ended      == {"done", "failed", "crashed"}
Submitting == {"submitChild", "deployFactory", "deployImplementation", "submitProxy", "deployProxy"}

Goto(r, step) == pc' = [pc EXCEPT ![r] = step] /\ UNCHANGED inFlight
Fails(r)      == Goto(r, "failed") /\ UNCHANGED reported

-----------------------------------------------------------------------------
(* What the chain accepts. *)

Upload(blob)        == uploaded' = uploaded \cup {blob}
                       /\ UNCHANGED <<factory, implementations, child, registry>>

\* Instantiating over an existing contract is DuplicateContract.
CanCreateFactory    == ~factory
CreateFactory       == factory' = TRUE /\ UNCHANGED <<uploaded, implementations, child, registry>>
CanCreateImpl(b)    == b \notin implementations
CreateImpl(b)       == implementations' = implementations \cup {b}
                       /\ UNCHANGED <<uploaded, factory, child, registry>>

\* factory.deploy: instantiate the child of the salt, from the child blob, and
\* have it instantiate the proxy blob; all of it is reverted if either fails.
CanFactoryDeploy_Again == factory /\ {"child", "proxy"} \subseteq uploaded
CanFactoryDeploy    == factory /\ ~child /\ {"child", "proxy"} \subseteq uploaded
FactoryDeploy(b)    == child' = TRUE /\ registry' = b
                       /\ UNCHANGED <<uploaded, factory, implementations>>

\* The run ends while its submission is in the pool of the chain.
LeavesInFlight(r, end) ==
  /\ pc[r] \in Submitting
  /\ pc' = [pc EXCEPT ![r] = end]
  /\ inFlight' = [inFlight EXCEPT ![r] = pc[r]]
  /\ UNCHANGED <<chain, reported>>

\* Nonces come from the state of the chain: while another run of the deployer
\* has a submission under way, a new one may be signed with the same nonce.
NonceTaken(r) == \E q \in Run \ {r} : inFlight[q] # Nothing \/ pc[q] \in Submitting

\* A submission lands and is seen to; or it is reverted or rejected; or the run
\* gives up on it (its time is over, its connection is gone) while it is in the
\* pool.  Only the first goes on.
Submit_Unchecked(r, can, effect, next) ==
  /\ (can /\ effect) \/ UNCHANGED chain
  /\ Goto(r, next) /\ UNCHANGED reported
Submit(r, can, effect, next) ==
  \/ can /\ effect /\ Goto(r, next) /\ UNCHANGED reported
  \/ (~can \/ r \in Faulty \/ NonceTaken(r)) /\ UNCHANGED chain /\ Fails(r)
  \/ r \in Faulty /\ LeavesInFlight(r, "failed")

-----------------------------------------------------------------------------
(* A run. *)

\* The script looks at the registry address before it deploys anything.  It
\* asks a registry it finds there for its live implementation, and succeeds
\* with nothing to report when that query fails; a look that fails fails the
\* run.  The bootstrap does not look.
Start(r) ==
  /\ pc[r] = "idle" /\ \A q \in After[r] : pc[q] \in Ended
  /\ \/ (r \in Bootstrap \/ registry = NoRegistry) /\ Goto(r, "registry") /\ UNCHANGED reported
     \/ /\ r \notin Bootstrap /\ registry # NoRegistry
        /\ Goto(r, "done")
        /\ \/ reported' = [reported EXCEPT ![r] = registry]
           \/ r \in Faulty /\ UNCHANGED reported
     \/ r \in Faulty \ Bootstrap /\ Fails(r)
  /\ UNCHANGED chain

\* getOnChainCode answers null also when the query fails.
Look(r, at, exists, found, missing) ==
  /\ pc[r] = at
  /\ \/ exists /\ Goto(r, found)
     \/ (~exists \/ r \in Faulty) /\ Goto(r, missing)
  /\ UNCHANGED <<chain, reported>>

LookForRegistry(r) == Look(r, "registry", registry # NoRegistry, "report", "factory")
LookForFactory_Blind(r) == Look(r, "factory", FALSE, "implementation", "childCode")
LookForFactory(r)  == Look(r, "factory", factory, "implementation", "childCode")
LookForImpl_Skipped(r) == Look(r, "implementation", TRUE, "proxyCode", "proxyCode")
LookForImpl(r)     == Look(r, "implementation", Build[r] \in implementations,
                           "proxyCode", "deployImplementation")

\* uploadCode: nothing to do if the code is there; a submission that loses the
\* race to another upload counts as done.
UploadCode(r, at, blob, submit, next) ==
  /\ pc[r] = at
  /\ \/ Goto(r, IF blob \in uploaded THEN next ELSE submit) /\ UNCHANGED reported
     \/ r \in Faulty /\ Fails(r)
  /\ UNCHANGED chain
SubmitUpload(r, submit, blob, next) ==
  /\ pc[r] = submit
  /\ Submit(r, TRUE, Upload(blob), next)
  /\ pc'[r] = "failed" => r \in Faulty \/ blob \notin uploaded

UploadChild(r) == UploadCode(r, "childCode", "child", "submitChild", "dryRunFactory")
SubmitChild(r) == SubmitUpload(r, "submitChild", "child", "dryRunFactory")
UploadProxy(r) == UploadCode(r, "proxyCode", "proxy", "submitProxy", "dryRunProxy")
SubmitProxy(r) == SubmitUpload(r, "submitProxy", "proxy", "dryRunProxy")

\* A dry-run fails if the submission would fail now.
DryRun(r, at, can, next) ==
  /\ pc[r] = at
  /\ \/ can /\ Goto(r, next) /\ UNCHANGED reported
     \/ (~can \/ r \in Faulty) /\ Fails(r)
  /\ UNCHANGED chain

DryRunFactory(r) == DryRun(r, "dryRunFactory", CanCreateFactory, "deployFactory")
DeployFactory(r) ==
  pc[r] = "deployFactory" /\ Submit(r, CanCreateFactory, CreateFactory, "implementation")

DeployImpl(r) ==
  /\ pc[r] = "deployImplementation"
  /\ Submit(r, CanCreateImpl(Build[r]), CreateImpl(Build[r]), "proxyCode")

DryRunProxy(r) == DryRun(r, "dryRunProxy", CanFactoryDeploy, "deployProxy")
DeployProxy(r) ==
  pc[r] = "deployProxy" /\ Submit(r, CanFactoryDeploy, FactoryDeploy(Build[r]), "report")

\* deployRegistryWithProxy returned: the run reports the predicted
\* implementation.
Report(r) ==
  /\ pc[r] = "report"
  /\ reported' = [reported EXCEPT ![r] = Build[r]]
  /\ Goto(r, "done")
  /\ UNCHANGED chain

\* The process is gone; its submission, if it has one under way, is not.
Crash(r) ==
  \/ /\ r \in Faulty /\ pc[r] \notin Ended \cup {"idle"}
     /\ Goto(r, "crashed") /\ UNCHANGED <<chain, reported>>
  \/ r \in Faulty /\ LeavesInFlight(r, "crashed")

-----------------------------------------------------------------------------
(* What outlives its run. *)

Settles(r) == inFlight' = [inFlight EXCEPT ![r] = Nothing] /\ UNCHANGED <<pc, reported>>

\* The chain includes the submission after all.
Lands(r) ==
  /\ \/ inFlight[r] = "submitChild" /\ Upload("child")
     \/ inFlight[r] = "submitProxy" /\ Upload("proxy")
     \/ inFlight[r] = "deployFactory" /\ CanCreateFactory /\ CreateFactory
     \/ inFlight[r] = "deployImplementation" /\ CanCreateImpl(Build[r]) /\ CreateImpl(Build[r])
     \/ inFlight[r] = "deployProxy" /\ CanFactoryDeploy /\ FactoryDeploy(Build[r])
  /\ Settles(r)

\* Or it is reverted, or never included.
Expires(r) == inFlight[r] # Nothing /\ Settles(r) /\ UNCHANGED chain

-----------------------------------------------------------------------------
Init ==
  /\ uploaded = {} /\ factory = FALSE /\ implementations = {}
  /\ child = FALSE /\ registry = NoRegistry
  /\ inFlight = [r \in Run |-> Nothing]
  /\ pc = [r \in Run |-> "idle"]
  /\ reported = [r \in Run |-> Nothing]

Step(r) ==
  \/ Start(r) \/ LookForRegistry(r) \/ LookForFactory(r) \/ LookForImpl(r)
  \/ UploadChild(r) \/ SubmitChild(r) \/ DryRunFactory(r) \/ DeployFactory(r) \/ DeployImpl(r)
  \/ UploadProxy(r) \/ SubmitProxy(r) \/ DryRunProxy(r) \/ DeployProxy(r) \/ Report(r)

Next == \E r \in Run : Step(r) \/ Crash(r) \/ Lands(r) \/ Expires(r)

\* The chain answers every query and settles every submission a run waits for.
\* What outlived its run may land at any time, or stay in the pool.
Fairness == \A r \in Run : WF_vars(Step(r))

Spec == Init /\ [][Next]_vars /\ Fairness

-----------------------------------------------------------------------------
(* Properties. *)

\* Type invariant.
Steps == {"idle", "registry", "factory", "childCode", "submitChild", "dryRunFactory",
          "deployFactory", "implementation", "deployImplementation", "proxyCode",
          "submitProxy", "dryRunProxy", "deployProxy", "report"} \cup Ended
TypeOK ==
  /\ uploaded \subseteq {"child", "proxy"}
  /\ factory \in BOOLEAN /\ child \in BOOLEAN
  /\ implementations \subseteq Builds
  /\ registry \in Builds \cup {NoRegistry}
  /\ inFlight \in [Run -> Submitting \cup {Nothing}]
  /\ pc \in [Run -> Steps]
  /\ reported \in [Run -> Builds \cup {Nothing}]

\* The proxy is never born without its implementation, whatever a run that
\* looked too early, was cut off, overlapped with another or left a submission
\* in the pool brought about.
BornWithItsImplementation == registry # NoRegistry => registry \in implementations

\* A run that ends with success leaves a registry on chain that delegates to a
\* deployed implementation; it may have nothing to report of it.
DoneMeansDeployed ==
  \A r \in Run : pc[r] = "done" => registry # NoRegistry /\ registry \in implementations

\* The first registry stays: no later or overlapping run, and no submission
\* that outlived its run, deploys over it.
RegistryIsNeverReplaced == [][registry # NoRegistry => registry' = registry]_vars

\* "a partially-failed earlier run can simply be re-run": a run without faults
\* of its own succeeds, wherever the others ended, once what they submitted has
\* landed or expired.  One that starts earlier may have looked before a late
\* submission lands, and fail on the contract it finds in its place.
AllSettled(r)  == \A q \in Run \ {r} : pc[q] \in Ended /\ inFlight[q] = Nothing
RerunSucceeds ==
  \A r \in Run \ Faulty : (pc[r] = "idle" /\ AllSettled(r)) ~> pc[r] = "done"
=============================================================================
