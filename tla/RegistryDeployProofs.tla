------------------------ MODULE RegistryDeployProofs ------------------------
(***************************************************************************)
(* The safety of the registry bootstrap, for any number of runs, builds    *)
(* and faults, and for submissions that outlive their runs: the proxy is   *)
(* never born without its implementation, a run that succeeds leaves a     *)
(* registry that works, and the first registry stays.                      *)
(***************************************************************************)
EXTENDS RegistryDeploy, TLAPS

\* A run past its implementation step knows that its build is deployed;
\* nothing takes an implementation away again.
PastImpl    == {"proxyCode", "submitProxy", "dryRunProxy", "deployProxy"}
ImplIsThere == \A r \in Run : pc[r] \in PastImpl => Build[r] \in implementations

\* So does a deployment of the proxy that is still in the pool of the chain.
LateProxyHasImpl == \A r \in Run : inFlight[r] = "deployProxy" => Build[r] \in implementations

\* A run that is about to report has seen or made the registry.
ReportsExisting == \A r \in Run : pc[r] \in {"report", "done"} => registry # NoRegistry

\* The factory's salt is spent exactly when the registry is there: this is what
\* keeps a second deployment out.
SaltIsSpent == child <=> registry # NoRegistry

IInv ==
  /\ TypeOK
  /\ BornWithItsImplementation
  /\ SaltIsSpent
  /\ ImplIsThere
  /\ LateProxyHasImpl
  /\ ReportsExisting

\* The deployment starts with nothing on chain.
LEMMA InitInvariant == Init => IInv
  BY DEF Init, IInv, TypeOK, Steps, Ended, BornWithItsImplementation, SaltIsSpent,
         ImplIsThere, PastImpl, LateProxyHasImpl, Nothing, ReportsExisting

\* What all steps have in common that do not deploy the proxy: the run goes to
\* some step, or leaves its submission behind, and knows what that requires.
Quiet(r, step, left) ==
  /\ pc' = [pc EXCEPT ![r] = step]
  /\ inFlight' = [inFlight EXCEPT ![r] = left]
  /\ UNCHANGED <<child, registry>>
  /\ reported' \in [Run -> Builds \cup {Nothing}]
  /\ uploaded' \subseteq {"child", "proxy"}
  /\ factory' \in BOOLEAN
  /\ implementations \subseteq implementations'
  /\ implementations' \subseteq Builds
  /\ step \in PastImpl \/ left = "deployProxy" => Build[r] \in implementations'
  /\ step \in {"report", "done"} => registry # NoRegistry

\* A quiet step preserves the invariant.
LEMMA QuietInvariant ==
  ASSUME IInv, NEW r \in Run, NEW step \in Steps, NEW left \in Submitting \cup {Nothing},
         Quiet(r, step, left)
  PROVE  IInv'
<1>1. TypeOK'
  BY DEF IInv, TypeOK, Quiet
<1>2. BornWithItsImplementation' /\ SaltIsSpent'
  BY DEF IInv, BornWithItsImplementation, SaltIsSpent, Quiet
<1>3. ImplIsThere'
  BY DEF IInv, TypeOK, ImplIsThere, Quiet
<1>4. LateProxyHasImpl'
  BY DEF IInv, TypeOK, LateProxyHasImpl, Quiet
<1>5. ReportsExisting'
  BY DEF IInv, TypeOK, ReportsExisting, Quiet
<1>6. QED
  BY <1>1, <1>2, <1>3, <1>4, <1>5 DEF IInv

\* A run that keeps nothing in flight but what it had is quiet in inFlight.
LEMMA SameInFlight ==
  ASSUME TypeOK, NEW r \in Run PROVE inFlight = [inFlight EXCEPT ![r] = inFlight[r]]
         /\ inFlight[r] \in Submitting \cup {Nothing}
  BY DEF TypeOK

\* A run that ends while its submission is in the pool: it had deployed its
\* implementation if the submission is the proxy's.
LEMMA LeavingInvariant ==
  ASSUME IInv, NEW r \in Run, NEW end \in {"failed", "crashed"}, LeavesInFlight(r, end)
  PROVE  IInv'
<1>1. Quiet(r, end, pc[r])
  BY DEF LeavesInFlight, chain, Quiet, PastImpl, IInv, TypeOK, ImplIsThere
<1>2. end \in Steps /\ pc[r] \in Submitting \cup {Nothing}
  BY DEF LeavesInFlight, Steps, Ended
<1>3. QED
  BY <1>1, <1>2, QuietInvariant

\* Deploying the proxy through the factory, by a run or after its end: the salt
\* was unspent, the build is deployed already.
LEMMA ProxyInvariant ==
  ASSUME IInv, NEW r \in Run, CanFactoryDeploy, FactoryDeploy(Build[r]),
         Build[r] \in implementations, UNCHANGED reported,
         pc' \in [Run -> Steps], inFlight' \in [Run -> Submitting \cup {Nothing}],
         \A q \in Run : pc'[q] \in PastImpl => pc[q] \in PastImpl,
         \A q \in Run : inFlight'[q] = "deployProxy" => inFlight[q] = "deployProxy"
  PROVE  IInv'
<1> USE DEF CanFactoryDeploy, FactoryDeploy
<1>1. Build[r] \in Builds /\ Build[r] # NoRegistry
  BY BuildsAssumption DEF Builds
<1>2. TypeOK'
  BY <1>1 DEF IInv, TypeOK
<1>3. BornWithItsImplementation' /\ SaltIsSpent'
  BY <1>1 DEF IInv, BornWithItsImplementation, SaltIsSpent
<1>4. ImplIsThere'
  BY DEF IInv, ImplIsThere
<1>5. LateProxyHasImpl'
  BY DEF IInv, LateProxyHasImpl
<1>6. ReportsExisting'
  BY <1>1 DEF ReportsExisting
<1>7. QED
  BY <1>2, <1>3, <1>4, <1>5, <1>6 DEF IInv

\* The run's own deployment of the proxy.
LEMMA DeployProxyInvariant == ASSUME IInv, NEW r \in Run, DeployProxy(r) PROVE IInv'
<1>1. CASE CanFactoryDeploy /\ FactoryDeploy(Build[r]) /\ Goto(r, "report") /\ UNCHANGED reported
  <2>1. Build[r] \in implementations
    BY DEF DeployProxy, IInv, ImplIsThere, PastImpl
  <2>2. pc' \in [Run -> Steps] /\ \A q \in Run : pc'[q] \in PastImpl => pc[q] \in PastImpl
    BY <1>1 DEF Goto, IInv, TypeOK, Steps, PastImpl
  <2>3. inFlight' \in [Run -> Submitting \cup {Nothing}]
        /\ \A q \in Run : inFlight'[q] = "deployProxy" => inFlight[q] = "deployProxy"
    BY <1>1 DEF Goto, IInv, TypeOK
  <2>4. QED
    BY <1>1, <2>1, <2>2, <2>3, ProxyInvariant
<1>2. CASE UNCHANGED chain /\ Fails(r)
  <2>1. Quiet(r, "failed", inFlight[r])
    BY <1>2, SameInFlight DEF Fails, Goto, chain, Quiet, PastImpl, IInv, TypeOK,
       LateProxyHasImpl
  <2>2. QED
    BY <2>1, SameInFlight, QuietInvariant DEF Steps, Ended, IInv
<1>3. CASE LeavesInFlight(r, "failed")
  BY <1>3, LeavingInvariant
<1>4. QED
  BY <1>1, <1>2, <1>3 DEF DeployProxy, Submit

\* What a run left in the pool lands: the proxy as the run itself would have
\* deployed it, anything else without a word to anybody.
LEMMA LandsInvariant == ASSUME IInv, NEW r \in Run, Lands(r) PROVE IInv'
<1>1. UNCHANGED <<pc, reported>> /\ inFlight' = [inFlight EXCEPT ![r] = Nothing]
  BY DEF Lands, Settles
<1>2. pc' = [pc EXCEPT ![r] = pc[r]] /\ pc[r] \in Steps
  BY <1>1 DEF IInv, TypeOK
<1>3. CASE inFlight[r] = "deployProxy"
  <2>1. Build[r] \in implementations
    BY <1>3 DEF IInv, LateProxyHasImpl
  <2>2. CanFactoryDeploy /\ FactoryDeploy(Build[r])
    BY <1>3 DEF Lands
  <2>3. inFlight' \in [Run -> Submitting \cup {Nothing}]
        /\ \A q \in Run : inFlight'[q] = "deployProxy" => inFlight[q] = "deployProxy"
    BY <1>1 DEF IInv, TypeOK, Nothing
  <2>4. pc' \in [Run -> Steps] /\ \A q \in Run : pc'[q] \in PastImpl => pc[q] \in PastImpl
    BY <1>1 DEF IInv, TypeOK
  <2>5. QED
    BY <1>1, <2>1, <2>2, <2>3, <2>4, ProxyInvariant
<1>4. CASE inFlight[r] # "deployProxy"
  <2>1. /\ UNCHANGED <<child, registry>>
        /\ uploaded' \subseteq {"child", "proxy"} /\ factory' \in BOOLEAN
        /\ implementations \subseteq implementations' /\ implementations' \subseteq Builds
    BY <1>4 DEF Lands, Upload, CreateFactory, CreateImpl, Builds, IInv, TypeOK
  <2>2. Quiet(r, pc[r], Nothing)
    BY <1>1, <1>2, <2>1 DEF Quiet, IInv, TypeOK, ImplIsThere, ReportsExisting, Nothing
  <2>3. QED
    BY <1>2, <2>2, QuietInvariant
<1>5. QED
  BY <1>3, <1>4

\* Every step of a run, and its crash, preserves the invariant.
LEMMA StepInvariant == IInv /\ [Next]_vars => IInv'
<1> SUFFICES ASSUME IInv, [Next]_vars PROVE IInv'
  OBVIOUS
<1> DEFINE To(r, step) == Quiet(r, step, inFlight[r])
<1>1. CASE UNCHANGED vars
  BY <1>1 DEF vars, IInv, TypeOK, BornWithItsImplementation, SaltIsSpent, ImplIsThere,
     LateProxyHasImpl, ReportsExisting
<1>2. ASSUME NEW r \in Run, NEW step \in Steps, To(r, step) PROVE IInv'
  <2>1. inFlight[r] \in Submitting \cup {Nothing}
    BY DEF IInv, TypeOK
  <2>2. QED
    BY <1>2, <2>1, QuietInvariant
<1>3. ASSUME NEW r \in Run, Start(r) PROVE IInv'
  <2>1. To(r, "registry") \/ To(r, "done") \/ To(r, "failed")
    BY <1>3, SameInFlight DEF Start, Fails, Builds, Goto, chain, Quiet, PastImpl, IInv, TypeOK,
       ImplIsThere, LateProxyHasImpl, ReportsExisting
  <2>2. QED
    BY <2>1, <1>2 DEF Steps, Ended
<1>4. ASSUME NEW r \in Run, LookForRegistry(r) PROVE IInv'
  <2>1. To(r, "report") \/ To(r, "factory")
    BY <1>4, SameInFlight DEF LookForRegistry, Look, Goto, chain, Quiet, PastImpl, IInv, TypeOK,
       ImplIsThere, LateProxyHasImpl, ReportsExisting
  <2>2. QED
    BY <2>1, <1>2 DEF Steps, Ended
<1>5. ASSUME NEW r \in Run, LookForFactory(r) PROVE IInv'
  <2>1. To(r, "implementation") \/ To(r, "childCode")
    BY <1>5, SameInFlight DEF LookForFactory, Look, Goto, chain, Quiet, PastImpl, IInv, TypeOK,
       ImplIsThere, LateProxyHasImpl, ReportsExisting
  <2>2. QED
    BY <2>1, <1>2 DEF Steps, Ended
<1>6. ASSUME NEW r \in Run, LookForImpl(r) PROVE IInv'
  <2>1. To(r, "proxyCode") \/ To(r, "deployImplementation")
    BY <1>6, SameInFlight DEF LookForImpl, Look, Goto, chain, Quiet, PastImpl, IInv, TypeOK,
       ImplIsThere, LateProxyHasImpl, ReportsExisting
  <2>2. QED
    BY <2>1, <1>2 DEF Steps, Ended
<1>7. ASSUME NEW r \in Run, UploadChild(r) PROVE IInv'
  <2>1. To(r, "dryRunFactory") \/ To(r, "submitChild") \/ To(r, "failed")
    BY <1>7, SameInFlight DEF UploadChild, UploadCode, Fails, Goto, chain, Quiet,
       PastImpl, IInv, TypeOK,
       ImplIsThere, LateProxyHasImpl, ReportsExisting
  <2>2. QED
    BY <2>1, <1>2 DEF Steps, Ended
<1>8. ASSUME NEW r \in Run, SubmitChild(r) PROVE IInv'
  <2>1. To(r, "dryRunFactory") \/ To(r, "failed") \/ LeavesInFlight(r, "failed")
    BY <1>8, SameInFlight DEF SubmitChild, SubmitUpload, Submit, Upload, Fails, Goto,
       chain, Quiet, PastImpl, IInv, TypeOK,
       ImplIsThere, LateProxyHasImpl, ReportsExisting
  <2>2. QED
    BY <2>1, <1>2, LeavingInvariant DEF Steps, Ended
<1>9. ASSUME NEW r \in Run, DryRunFactory(r) PROVE IInv'
  <2>1. To(r, "deployFactory") \/ To(r, "failed")
    BY <1>9, SameInFlight DEF DryRunFactory, DryRun, CanCreateFactory, Fails, Goto,
       chain, Quiet, PastImpl, IInv, TypeOK,
       ImplIsThere, LateProxyHasImpl, ReportsExisting
  <2>2. QED
    BY <2>1, <1>2 DEF Steps, Ended
<1>10. ASSUME NEW r \in Run, DeployFactory(r) PROVE IInv'
  <2>1. To(r, "implementation") \/ To(r, "failed") \/ LeavesInFlight(r, "failed")
    BY <1>10, SameInFlight DEF DeployFactory, Submit, CanCreateFactory, CreateFactory,
       Fails, Goto, chain, Quiet, PastImpl, IInv, TypeOK,
       ImplIsThere, LateProxyHasImpl, ReportsExisting
  <2>2. QED
    BY <2>1, <1>2, LeavingInvariant DEF Steps, Ended
<1>11. ASSUME NEW r \in Run, DeployImpl(r) PROVE IInv'
  <2>1. Build[r] \in Builds
    BY DEF Builds
  <2>2. CASE CreateImpl(Build[r]) /\ Goto(r, "proxyCode") /\ UNCHANGED reported
    <3>1. To(r, "proxyCode")
      BY <2>1, <2>2, SameInFlight DEF CreateImpl, Goto, Quiet, IInv, TypeOK
    <3>2. QED
      BY <3>1, <1>2 DEF Steps
  <2>3. CASE UNCHANGED chain /\ Fails(r)
    <3>1. To(r, "failed")
      BY <2>3, SameInFlight DEF Fails, Goto, chain, Quiet, PastImpl, IInv, TypeOK,
         LateProxyHasImpl
    <3>2. QED
      BY <3>1, <1>2 DEF Steps, Ended
  <2>4. QED
    BY <1>11, <2>2, <2>3, LeavingInvariant DEF DeployImpl, Submit
<1>12. ASSUME NEW r \in Run, UploadProxy(r) PROVE IInv'
  <2>1. To(r, "dryRunProxy") \/ To(r, "submitProxy") \/ To(r, "failed")
    BY <1>12, SameInFlight DEF UploadProxy, UploadCode, Fails, Goto, chain, Quiet,
       PastImpl, IInv, TypeOK,
       ImplIsThere, LateProxyHasImpl, ReportsExisting
  <2>2. QED
    BY <2>1, <1>2 DEF Steps, Ended
<1>13. ASSUME NEW r \in Run, SubmitProxy(r) PROVE IInv'
  <2>1. To(r, "dryRunProxy") \/ To(r, "failed") \/ LeavesInFlight(r, "failed")
    BY <1>13, SameInFlight DEF SubmitProxy, SubmitUpload, Submit, Upload, Fails, Goto,
       chain, Quiet, PastImpl, IInv, TypeOK,
       ImplIsThere, LateProxyHasImpl, ReportsExisting
  <2>2. QED
    BY <2>1, <1>2, LeavingInvariant DEF Steps, Ended
<1>14. ASSUME NEW r \in Run, DryRunProxy(r) PROVE IInv'
  <2>1. To(r, "deployProxy") \/ To(r, "failed")
    BY <1>14, SameInFlight DEF DryRunProxy, DryRun, CanFactoryDeploy, Fails, Goto, chain,
       Quiet, PastImpl, IInv, TypeOK,
       ImplIsThere, LateProxyHasImpl, ReportsExisting
  <2>2. QED
    BY <2>1, <1>2 DEF Steps, Ended
<1>15. ASSUME NEW r \in Run, Report(r) PROVE IInv'
  <2>1. To(r, "done")
    BY <1>15, SameInFlight DEF Report, Builds, Goto, chain, Quiet, PastImpl, IInv, TypeOK,
       ImplIsThere, LateProxyHasImpl, ReportsExisting
  <2>2. QED
    BY <2>1, <1>2 DEF Steps, Ended
<1>16. ASSUME NEW r \in Run, Crash(r) PROVE IInv'
  <2>1. To(r, "crashed") \/ LeavesInFlight(r, "crashed")
    BY <1>16, SameInFlight DEF Crash, Goto, chain, Quiet, PastImpl, IInv, TypeOK,
       ImplIsThere, LateProxyHasImpl, ReportsExisting
  <2>2. QED
    BY <2>1, <1>2, LeavingInvariant DEF Steps, Ended
<1>17. ASSUME NEW r \in Run, Expires(r) PROVE IInv'
  <2>1. Quiet(r, pc[r], Nothing) /\ pc[r] \in Steps
    BY <1>17 DEF Expires, Settles, chain, Quiet, IInv, TypeOK, ImplIsThere, ReportsExisting,
       Nothing
  <2>2. QED
    BY <2>1, QuietInvariant
<1>18. QED
  BY <1>1, <1>3, <1>4, <1>5, <1>6, <1>7, <1>8, <1>9, <1>10, <1>11, <1>12, <1>13, <1>14,
       <1>15, <1>16, <1>17, DeployProxyInvariant, LandsInvariant
  DEF Next, Step

\* The invariant holds throughout.
THEOREM Invariance == Spec => []IInv
<1>1. QED
  BY InitInvariant, StepInvariant, PTL DEF Spec

\* Type correctness.
THEOREM TypeCorrect == Spec => []TypeOK
<1>1. IInv => TypeOK
  BY DEF IInv
<1>2. QED
  BY Invariance, <1>1, PTL

\* Whatever a run that looked too early, was cut off or overlapped with another
\* left behind, the proxy's implementation is deployed before the proxy.
THEOREM ProxyHasItsImplementation == Spec => []BornWithItsImplementation
<1>1. IInv => BornWithItsImplementation
  BY DEF IInv
<1>2. QED
  BY Invariance, <1>1, PTL

\* A run that ends with success leaves a registry on chain, and the registry's
\* implementation is deployed: whoever deployed it, and whether or not the run
\* learns what to report.
THEOREM SuccessIsReal == Spec => []DoneMeansDeployed
<1>1. IInv => DoneMeansDeployed
  BY DEF IInv, ReportsExisting, BornWithItsImplementation, DoneMeansDeployed
<1>2. QED
  BY Invariance, <1>1, PTL

\* Only a deployment through the factory writes the registry, and it needs the
\* salt unspent: with SaltIsSpent, there is no registry yet.
THEOREM FirstRegistryStays == Spec => RegistryIsNeverReplaced
<1>1. IInv /\ [Next]_vars => [registry # NoRegistry => registry' = registry]_vars
  <2> SUFFICES ASSUME IInv, Next, registry # NoRegistry PROVE registry' = registry
    BY DEF vars
  <2>1. child
    BY DEF IInv, SaltIsSpent
  <2>2. PICK r \in Run : Step(r) \/ Crash(r) \/ Lands(r) \/ Expires(r)
    BY DEF Next
  <2>3. Lands(r) \/ Expires(r) => UNCHANGED registry
    BY <2>1 DEF Lands, Expires, Upload, CreateFactory, CreateImpl, CanFactoryDeploy, chain
  <2>4. DeployProxy(r) \/ Crash(r) => UNCHANGED registry
    BY <2>1 DEF DeployProxy, Submit, CanFactoryDeploy, LeavesInFlight, Crash, chain
  <2>5. Step(r) /\ ~DeployProxy(r) => UNCHANGED registry
    BY DEF Step, Start, Look, LookForRegistry, LookForFactory, LookForImpl, UploadCode,
       UploadChild, UploadProxy, SubmitUpload, SubmitChild, SubmitProxy, Submit, Upload, DryRun,
       DryRunFactory, DryRunProxy, DeployFactory, CreateFactory, DeployImpl, CreateImpl, Report,
       LeavesInFlight, chain
  <2>6. QED
    BY <2>2, <2>3, <2>4, <2>5
<1>2. QED
  BY Invariance, <1>1, PTL DEF Spec, RegistryIsNeverReplaced
=============================================================================
