------------------------------- MODULE Deploy -------------------------------
(***************************************************************************)
(* Runs of the deploy pipeline (deployContracts) against one registry, one *)
(* Asset Hub and one Bulletin chain.                                       *)
(*                                                                         *)
(* A run takes the dependency layers in order.  For a layer it builds the  *)
(* contracts, reads the registry's version counts, plans the deployment    *)
(* addresses, and then runs two tasks at once: deployAndRegisterBatch,     *)
(* which submits the layer in chunks, each an atomic batch of deployments  *)
(* and registrations, and publishBatch, which stores the metadata one blob *)
(* at a time.  The first task that fails ends the layer for the run, while *)
(* the other task goes on in the background.                               *)
(*                                                                         *)
(* The registry is its abstract log (RegistryLog), which Registry refines. *)
(*                                                                         *)
(* A definition named D_Fault is a faulty variant of D that no             *)
(* specification uses: put in the place of D, it shows which property      *)
(* would notice the fault.                                                 *)
(***************************************************************************)
EXTENDS Integers, Sequences, FiniteSets, Functions
LOCAL INSTANCE SequencesExt

CONSTANTS
  Session,    \* runs of the pipeline
  Account,    \* the accounts that sign for them
  NoOwner,    \* the owner of a package nobody has published
  Deployer,   \* session -> its account
  Code,       \* session -> the version of the sources it builds
  After,      \* session -> the sessions that must have ended before it starts
  Faulty,     \* the sessions in which any external step may fail; the others
              \* fail only for what the registry and the chain hold
  Package,    \* the CDM packages of the workspace, one per contract
  Layers,     \* session -> detectBuildOrder's layers of the contracts it
              \* selects, each a sequence of packages
  DependsOn,  \* package -> the packages it depends on
  Weight,     \* the weights an extrinsic may have, [ref_time, proof_size]
  Budget      \* the weight a batch may have

Layer == UNION {DOMAIN Layers[s] : s \in Session}
Selected(s) == UNION {Range(Layers[s][l]) : l \in DOMAIN Layers[s]}

ASSUME SessionsAssumption ==
  /\ Deployer \in [Session -> Account]
  /\ DOMAIN Code = Session
  /\ After \in [Session -> SUBSET Session]
  /\ Faulty \subseteq Session
  /\ NoOwner \notin Account
ASSUME LayersAssumption ==
  /\ Layers \in [Session -> Seq(Seq(Package))]
  /\ DependsOn \in [Package -> SUBSET Package]
  /\ \A s \in Session : \A k, l \in DOMAIN Layers[s] :
       \A i \in DOMAIN Layers[s][k], j \in DOMAIN Layers[s][l] :
         /\ Layers[s][k][i] = Layers[s][l][j] => k = l /\ i = j
         /\ Layers[s][k][i] \in DependsOn[Layers[s][l][j]] => k < l

VARIABLES
  owner,        \* registry: package -> its owner, if it has any version
  log,          \* registry: package -> its published entries
  contracts,    \* Asset Hub: the addresses with a contract
  stored,       \* Bulletin: the CIDs of the stored blobs
  pc,           \* session -> where its layer loop is
  layer,        \* session -> layerIndex
  failed,       \* session -> failedCrates (and build.failed, kept equal to it)
  status,       \* session -> package -> its verdict in the summary
  nextVersion,  \* session -> package -> the version count it read
  deployables,  \* session -> layer -> the packages it deploys, in order
  chunks,       \* session -> layer -> the plan's chunks, each item with the
                \* first one of its chunk
  batch,        \* session -> layer -> the deployAndRegisterBatch task
  publish,      \* session -> layer -> the publishBatch task
  addresses     \* session -> package -> the address reported by onChunk

chain   == <<owner, log, contracts, stored>>
locals  == <<failed, status, nextVersion, deployables, chunks, addresses>>
vars    == <<owner, log, contracts, stored, pc, layer, failed, status, nextVersion,
             deployables, chunks, batch, publish, addresses>>

Unread    == -1
NoAddress == [deployer |-> "none"]

\* A CREATE2 address commits to the deployer, the salt [registry, package,
\* version] and the bytecode.  A metadata blob holds its run's publish time.
Address_NoVersion(s, p) == [deployer |-> Deployer[s], package |-> p, code |-> Code[s]]
Address(s, p) == [deployer |-> Deployer[s], package |-> p,
                  version |-> nextVersion[s][p], code |-> Code[s]]
Cid(s, p)     == [session |-> s, package |-> p]
Entry(s, p)   == [address |-> Address(s, p), uri |-> Cid(s, p)]

Running(s)    == pc[s] \in {"build", "versions", "submit", "finished"}
Registered(p) == log[p] # <<>>

\* A task takes the items of a layer in order; next is the first one left.  A
\* rejected task whose last submission may still land is lost.
Task(state)       == [state |-> state, next |-> 1]
Advance_Nowhere(to, items) ==
  [state |-> IF to > Len(items) THEN "resolved" ELSE "running", next |-> 1]
Advance(to, items) ==
  [state |-> IF to > Len(items) THEN "resolved" ELSE "running", next |-> to]
Reject(task)      == [task EXCEPT !.state = "rejected"]
Lose(task)        == [task EXCEPT !.state = "lost"]

-----------------------------------------------------------------------------
(* The layer loop. *)

Start(s) ==
  /\ pc[s] = "waiting"
  /\ \A r \in After[s] : pc[r] = "exited"
  /\ pc' = [pc EXCEPT ![s] = "build"]
  /\ UNCHANGED <<chain, layer, locals, batch, publish>>

GiveUp_Forgets(s, packages) ==
  /\ UNCHANGED failed
  /\ status' = [status EXCEPT ![s] =
       [p \in Package |-> IF p \in packages THEN "error" ELSE @[p]]]
GiveUp(s, packages) ==
  /\ failed' = [failed EXCEPT ![s] = @ \cup packages]
  /\ status' = [status EXCEPT ![s] =
       [p \in Package |-> IF p \in packages THEN "error" ELSE @[p]]]

\* Array.filter: the sequence of these packages of a layer, in its order.
InOrder(packages, here) ==
  {kept \in [1..Cardinality(packages) -> packages] :
     /\ Range(kept) = packages
     /\ \A i, j \in DOMAIN kept : i < j =>
          \E m, n \in DOMAIN here : m < n /\ here[m] = kept[i] /\ here[n] = kept[j]}

\* runBuildLayer skips the contracts with a failed dependency; of the others
\* some may not compile.
Build(s) ==
  /\ pc[s] = "build" /\ layer[s] \in DOMAIN Layers[s]
  /\ LET here    == Layers[s][layer[s]]
         skipped == {p \in Range(here) : DependsOn[p] \cap failed[s] # {}}
     IN  \E broken \in SUBSET (Range(here) \ skipped) :
         \E ready \in InOrder(Range(here) \ (skipped \cup broken), here) :
           /\ broken # {} => s \in Faulty
           /\ GiveUp(s, skipped \cup broken)
           /\ deployables' = [deployables EXCEPT ![s][layer[s]] = ready]
           /\ pc' = [pc EXCEPT ![s] = IF ready = <<>> THEN "build" ELSE "versions"]
           /\ layer' = [layer EXCEPT ![s] = IF ready = <<>> THEN @ + 1 ELSE @]
  /\ UNCHANGED <<chain, nextVersion, chunks, addresses, batch, publish>>

Here(s) == Range(deployables[s][layer[s]])

\* queryRegistryVersionCounts: one query per package, answered in any order.
ReadVersionCount(s, p) ==
  /\ pc[s] = "versions" /\ p \in Here(s) /\ nextVersion[s][p] = Unread
  /\ nextVersion' = [nextVersion EXCEPT ![s][p] = Len(log[p])]
  /\ UNCHANGED <<chain, pc, layer, failed, status, deployables, chunks, addresses, batch,
                 publish>>

AllRead(s)   == \A p \in Here(s) : nextVersion[s][p] # Unread
Plannable(s) == \A p \in Here(s) : Address(s, p) \notin contracts

\* chunkByWeight: in order, each item joins the chunk before it if their sum stays
\* within the budget in both dimensions, and begins a chunk of its own otherwise.
\* first[i] is the first item of the chunk of item i.
Sum(w, v)  == [ref_time |-> w.ref_time + v.ref_time, proof_size |-> w.proof_size + v.proof_size]
Fits(weights) ==
  LET sum == FoldLeft(Sum, [ref_time |-> 0, proof_size |-> 0], weights)
  IN  sum.ref_time <= Budget.ref_time /\ sum.proof_size <= Budget.proof_size
ChunkByWeight(weights, first) ==
  \A i \in DOMAIN weights :
    first[i] = IF i > 1 /\ Fits(SubSeq(weights, first[i - 1], i)) THEN first[i - 1] ELSE i

\* planDeploy dry-runs every instantiation, which yields the weights, and
\* divides the layer into chunks; both tasks start.
Plan(s) ==
  /\ pc[s] = "versions" /\ AllRead(s) /\ Plannable(s)
  /\ pc' = [pc EXCEPT ![s] = "submit"]
  /\ LET items == DOMAIN deployables[s][layer[s]] IN
     \E weights \in [items -> Weight], first \in [items -> items] :
       /\ ChunkByWeight(weights, first)
       /\ chunks' = [chunks EXCEPT ![s][layer[s]] = first]
  /\ batch' = [batch EXCEPT ![s][layer[s]] = Task("preparing")]
  /\ publish' = [publish EXCEPT ![s][layer[s]] = Task("running")]
  /\ UNCHANGED <<chain, layer, failed, status, nextVersion, deployables, addresses>>

\* Promise.all over the two tasks.
Outcomes(s) == {batch[s][layer[s]].state, publish[s][layer[s]].state}
Resolved(s) == Outcomes(s) = {"resolved"}
Rejected_ByBatch(s) == batch[s][layer[s]].state \in {"rejected", "lost"}
Rejected(s) == Outcomes(s) \cap {"rejected", "lost"} # {}

LayerDone(s) ==
  /\ pc[s] = "submit" /\ Resolved(s)
  /\ status' = [status EXCEPT ![s] =
       [p \in Package |-> IF p \in Here(s) THEN "done" ELSE @[p]]]
  /\ layer' = [layer EXCEPT ![s] = @ + 1]
  /\ pc' = [pc EXCEPT ![s] = "build"]
  /\ UNCHANGED <<chain, failed, nextVersion, deployables, chunks, addresses, batch, publish>>

\* The layer's error handler: a query or a dry-run failed, a task rejected, or
\* the generated Solidity imports could not be written.
LayerFails(s) ==
  /\ \/ pc[s] = "versions" /\ (s \in Faulty \/ (AllRead(s) /\ ~Plannable(s)))
     \/ pc[s] = "submit" /\ Rejected(s)
     \/ pc[s] = "submit" /\ Resolved(s) /\ s \in Faulty
  /\ GiveUp(s, Here(s))
  /\ layer' = [layer EXCEPT ![s] = @ + 1]
  /\ pc' = [pc EXCEPT ![s] = "build"]
  /\ UNCHANGED <<chain, nextVersion, deployables, chunks, addresses, batch, publish>>

Finish(s) ==
  /\ pc[s] = "build" /\ layer[s] \notin DOMAIN Layers[s]
  /\ pc' = [pc EXCEPT ![s] = "finished"]
  /\ UNCHANGED <<chain, layer, locals, batch, publish>>

\* The end of the process cuts off the tasks that are still running; what they
\* submitted last stays in the pools of the chains.
CutOff(tasks) == [l \in Layer |-> IF tasks[l].state = "running" THEN Lose(tasks[l]) ELSE tasks[l]]
End(s) ==
  /\ pc' = [pc EXCEPT ![s] = "exited"]
  /\ batch' = [batch EXCEPT ![s] = CutOff(@)]
  /\ publish' = [publish EXCEPT ![s] = CutOff(@)]
  /\ UNCHANGED <<chain, layer, locals>>

\* The command closes its connections and returns or exits.
Exit(s)  == pc[s] = "finished" /\ End(s)
Crash(s) == Running(s) /\ s \in Faulty /\ End(s)

-----------------------------------------------------------------------------
(* The deployAndRegisterBatch task of a layer. *)

\* publishLatest accepts the deployer.
Publishable_ByAnyone(s, p) == TRUE
Publishable_ByItsOwner(s, p) == owner[p] = Deployer[s]
Publishable(s, p) == Registered(p) => owner[p] = Deployer[s]

Prepare(s, l) ==
  /\ Running(s) /\ batch[s][l].state = "preparing"
  /\ batch' = [batch EXCEPT ![s][l] = Task("running")]
  /\ UNCHANGED <<chain, pc, layer, locals, publish>>

PrepareFails(s, l) ==
  /\ Running(s) /\ batch[s][l].state = "preparing"
  /\ s \in Faulty \/ \E p \in Range(deployables[s][l]) : ~Publishable(s, p)
  /\ batch' = [batch EXCEPT ![s][l] = Reject(@)]
  /\ UNCHANGED <<chain, pc, layer, locals, publish>>

\* The next chunk goes from the first item left to the last one of its chunk.
EndsAt(s, l, last) ==
  /\ last >= batch[s][l].next /\ chunks[s][l][last] = batch[s][l].next
  /\ last + 1 \in DOMAIN chunks[s][l] => chunks[s][l][last + 1] # batch[s][l].next
Chunk(s, l, last) == SubSeq(deployables[s][l], batch[s][l].next, last)

\* batch_all: every deployment, then every registration, or nothing at all.
Executable(s, chunk) ==
  \A p \in Range(chunk) : Address(s, p) \notin contracts /\ Publishable(s, p)
Execute(s, chunk) ==
  /\ contracts' = contracts \cup {Address(s, p) : p \in Range(chunk)}
  /\ log' = [p \in Package |-> IF p \in Range(chunk) THEN Append(log[p], Entry(s, p)) ELSE log[p]]
  /\ owner' = [p \in Package |-> IF p \in Range(chunk) THEN Deployer[s] ELSE owner[p]]

\* A chunk lands, and onChunk gives the packages that follow its own count of
\* reported contracts (deployCursor) the addresses of the chunk, in order.
DeployCursor_NotAdvanced(s, l) == 0
DeployCursor(s, l) == batch[s][l].next - 1

OnChunk(s, l, chunk) ==
  addresses' = [addresses EXCEPT ![s] = [p \in Package |->
    IF \E i \in DOMAIN chunk : deployables[s][l][DeployCursor(s, l) + i] = p
      THEN Address(s, chunk[CHOOSE i \in DOMAIN chunk :
                              deployables[s][l][DeployCursor(s, l) + i] = p])
      ELSE @[p]]]

\* Nonces come from the state of the chain: while the account has another
\* submission under way, a new one may be signed with the same nonce.
NonceTaken(tasks, s, l) ==
  \E t \in Session, k \in Layer :
    /\ <<t, k>> # <<s, l>> /\ Deployer[t] = Deployer[s]
    /\ tasks[t][k].state \in {"running", "lost"}

ChunkLands(s, l) ==
  /\ Running(s) /\ batch[s][l].state = "running"
  /\ \E last \in DOMAIN chunks[s][l] :
       /\ EndsAt(s, l, last)
       /\ Executable(s, Chunk(s, l, last))
       /\ Execute(s, Chunk(s, l, last))
       /\ OnChunk(s, l, Chunk(s, l, last))
       /\ batch' = [batch EXCEPT ![s][l] = Advance(last + 1, deployables[s][l])]
  /\ UNCHANGED <<stored, pc, layer, failed, status, nextVersion, deployables, chunks, publish>>

\* The chunk is reverted or rejected; or the run gives up on it (the connection
\* drops, the time is over, the events cannot be checked) and it may still land.
ChunkFails(s, l) ==
  /\ Running(s) /\ batch[s][l].state = "running"
  /\ \/ /\ \/ s \in Faulty \/ NonceTaken(batch, s, l)
           \/ \E last \in DOMAIN chunks[s][l] :
                EndsAt(s, l, last) /\ ~Executable(s, Chunk(s, l, last))
        /\ batch' = [batch EXCEPT ![s][l] = Reject(@)]
     \/ s \in Faulty /\ batch' = [batch EXCEPT ![s][l] = Lose(@)]
  /\ UNCHANGED <<chain, pc, layer, locals, publish>>

-----------------------------------------------------------------------------
(* The publishBatch task of a layer. *)

NextBlob(s, l) == Cid(s, deployables[s][l][publish[s][l].next])

StoreBlob(s, l) ==
  /\ Running(s) /\ publish[s][l].state = "running"
  /\ stored' = stored \cup {NextBlob(s, l)}
  /\ publish' = [publish EXCEPT ![s][l] = Advance(publish[s][l].next + 1, deployables[s][l])]
  /\ UNCHANGED <<owner, log, contracts, pc, layer, locals, batch>>

\* The blob is rejected, or the run gives up on it and it may still be stored.
StoreFails(s, l) ==
  /\ Running(s) /\ publish[s][l].state = "running"
  /\ \/ (s \in Faulty \/ NonceTaken(publish, s, l)) /\ publish' = [publish EXCEPT ![s][l] = Reject(@)]
     \/ s \in Faulty /\ publish' = [publish EXCEPT ![s][l] = Lose(@)]
  /\ UNCHANGED <<chain, pc, layer, locals, batch>>

-----------------------------------------------------------------------------
(* What outlives its task, and perhaps its process: nobody hears of it. *)

LateChunkLands(s, l) ==
  /\ batch[s][l].state = "lost"
  /\ \E last \in DOMAIN chunks[s][l] :
       /\ EndsAt(s, l, last)
       /\ Executable(s, Chunk(s, l, last))
       /\ Execute(s, Chunk(s, l, last))
  /\ batch' = [batch EXCEPT ![s][l] = Reject(@)]
  /\ UNCHANGED <<stored, pc, layer, locals, publish>>

\* It is reverted, or never included.
LateChunkExpires(s, l) ==
  /\ batch[s][l].state = "lost"
  /\ batch' = [batch EXCEPT ![s][l] = Reject(@)]
  /\ UNCHANGED <<chain, pc, layer, locals, publish>>

LateBlobSettles(s, l) ==
  /\ publish[s][l].state = "lost"
  /\ stored' \in {stored, stored \cup {NextBlob(s, l)}}
  /\ publish' = [publish EXCEPT ![s][l] = Reject(@)]
  /\ UNCHANGED <<owner, log, contracts, pc, layer, locals, batch>>

-----------------------------------------------------------------------------
\* Of the sessions only those given take place.
InitFor(sessions) ==
  /\ owner = [p \in Package |-> NoOwner]
  /\ log = [p \in Package |-> <<>>]
  /\ contracts = {} /\ stored = {}
  /\ pc = [s \in Session |-> IF s \in sessions THEN "waiting" ELSE "exited"]
  /\ layer = [s \in Session |-> 1]
  /\ failed = [s \in Session |-> {}]
  /\ status = [s \in Session |-> [p \in Package |-> "pending"]]
  /\ nextVersion = [s \in Session |-> [p \in Package |-> Unread]]
  /\ deployables = [s \in Session |-> [l \in Layer |-> <<>>]]
  /\ chunks = [s \in Session |-> [l \in Layer |-> <<>>]]
  /\ batch = [s \in Session |-> [l \in Layer |-> Task("idle")]]
  /\ publish = [s \in Session |-> [l \in Layer |-> Task("idle")]]
  /\ addresses = [s \in Session |-> [p \in Package |-> NoAddress]]

Init == InitFor(Session)

LoopStep(s) ==
  \/ Start(s) \/ Build(s) \/ Plan(s) \/ LayerDone(s) \/ LayerFails(s) \/ Finish(s) \/ Exit(s)
  \/ \E p \in Package : ReadVersionCount(s, p)
BatchStep(s, l)   == Prepare(s, l) \/ PrepareFails(s, l) \/ ChunkLands(s, l) \/ ChunkFails(s, l)
PublishStep(s, l) == StoreBlob(s, l) \/ StoreFails(s, l)

SessionStep(s) == LoopStep(s) \/ \E l \in Layer : BatchStep(s, l) \/ PublishStep(s, l)

LateStep(s, l) == LateChunkLands(s, l) \/ LateChunkExpires(s, l) \/ LateBlobSettles(s, l)

Next == \E s \in Session : SessionStep(s) \/ Crash(s) \/ \E l \in Layer : LateStep(s, l)

\* Queries and submissions are answered eventually, with success or an error.
\* What a run gave up on may land at any time, or never.
Fairness == \A s \in Session : WF_vars(SessionStep(s))

Spec == Init /\ [][Next]_vars /\ Fairness
-----------------------------------------------------------------------------
(* Properties. *)

\* Type invariant.
TaskType(states) == [state : states, next : Nat \ {0}]
AddressType == [deployer : Account, package : Package, version : Nat, code : Range(Code)]
CidType     == [session : Session, package : Package]
TypeOK ==
  /\ owner \in [Package -> Account \cup {NoOwner}]
  /\ log \in [Package -> Seq([address : AddressType, uri : CidType])]
  /\ contracts \subseteq AddressType /\ stored \subseteq CidType
  /\ pc \in [Session -> {"waiting", "build", "versions", "submit", "finished", "exited"}]
  /\ layer \in [Session -> Nat \ {0}]
  /\ \A s \in Session : layer[s] <= Len(Layers[s]) + 1
  /\ failed \in [Session -> SUBSET Package]
  /\ status \in [Session -> [Package -> {"pending", "done", "error"}]]
  /\ nextVersion \in [Session -> [Package -> Nat \cup {Unread}]]
  /\ deployables \in [Session -> [Layer -> Seq(Package)]]
  /\ chunks \in [Session -> [Layer -> Seq(Nat)]]
  /\ addresses \in [Session -> [Package -> AddressType \cup {NoAddress}]]
  /\ batch \in [Session -> [Layer ->
       TaskType({"idle", "preparing", "running", "resolved", "rejected", "lost"})]]
  /\ publish \in [Session -> [Layer ->
       TaskType({"idle", "running", "resolved", "rejected", "lost"})]]

Published(p, entry) == \E i \in DOMAIN log[p] : log[p][i] = entry

\* What the summary calls "done" can be installed: the contract is deployed,
\* registered by this run for its account with its metadata's CID, and the
\* metadata is stored - whatever overlapping runs of the same account, or of a
\* rival for the same names, did meanwhile.
DoneMeansInstallable ==
  \A s \in Session, p \in Package : status[s][p] = "done" =>
    /\ Published(p, [address |-> addresses[s][p], uri |-> Cid(s, p)])
    /\ addresses[s][p] \in contracts
    /\ owner[p] = Deployer[s]
    /\ Cid(s, p) \in stored

\* A run publishes a contract only over dependencies it has completely
\* deployed, registered and stored itself - also when a batch that the run
\* gave up on lands in the background.
DependenciesFirst ==
  \A s \in Session, p \in Package : (\E i \in DOMAIN log[p] : log[p][i].uri = Cid(s, p)) =>
    \A d \in DependsOn[p] \cap Selected(s) : status[s][d] = "done"

\* The address onChunk reports for a package is the one registered under it.
ReportedIsRegistered ==
  \A s \in Session, p \in Package : addresses[s][p] # NoAddress =>
    Published(p, [address |-> addresses[s][p], uri |-> Cid(s, p)])

\* A run that waits for the tasks of a layer is never left waiting: both have
\* resolved, one has rejected, or one of them has a step of its own to take - and
\* a task that submits has a next chunk, however the layer was divided.
NeverStuck ==
  \A s \in Session : pc[s] = "submit" =>
    \/ Resolved(s) \/ Rejected(s)
    \/ batch[s][layer[s]].state = "preparing" \/ publish[s][layer[s]].state = "running"
    \/ /\ batch[s][layer[s]].state = "running"
       /\ \E last \in DOMAIN chunks[s][layer[s]] : EndsAt(s, layer[s], last)

\* Every step moves one run forward and none back: its loop, a version count it
\* reads for the first time, or a task.  All of these are bounded, so that no
\* run can retry, wait or loop for ever.
Phase == [waiting |-> 0, build |-> 1, versions |-> 2, submit |-> 3, finished |-> 4, exited |-> 5]
Stage == [idle |-> 0, preparing |-> 1, running |-> 2, resolved |-> 3, lost |-> 4, rejected |-> 5]
NoFurther(t, u) ==
  Stage[t.state] < Stage[u.state] \/ (t.state = u.state /\ t.next <= u.next)
NeverBack(s) ==
  /\ layer[s] < layer'[s] \/ (layer[s] = layer'[s] /\ Phase[pc[s]] <= Phase[pc'[s]])
  /\ \A p \in Package : nextVersion[s][p] \in {Unread, nextVersion'[s][p]}
  /\ \A l \in Layer : /\ NoFurther(batch[s][l], batch'[s][l])
                      /\ NoFurther(publish[s][l], publish'[s][l])
Place(s) == <<layer[s], pc[s], nextVersion[s], batch[s], publish[s]>>
RunsMoveForward ==
  [][/\ \A s \in Session : NeverBack(s)
     /\ \E s \in Session : Place(s)' # Place(s)]_vars

\* Every run comes to an end, however its steps fail.
EveryRunEnds == <>(\A s \in Session : pc[s] = "exited")

\* Running the pipeline again repairs: a run without faults of its own, started
\* after an earlier run was cut off anywhere, publishes every contract, provided
\* that what the earlier one submitted has landed or expired by then, and nobody
\* else has taken its names.  A rerun that starts sooner may plan for version
\* counts that a late chunk overtakes, and fail.
Settled(t) == \A l \in Layer : batch[t][l].state # "lost" /\ publish[t][l].state # "lost"
RerunCompletes ==
  \A s \in Session \ Faulty : After[s] # {} =>
    ((/\ pc[s] = "waiting" /\ \A p \in Selected(s) : Publishable(s, p)
      /\ \A t \in Session \ {s} : pc[t] = "exited" /\ Settled(t))
       ~> \A p \in Selected(s) : status[s][p] = "done")

\* Without faults, two rivals for the same names may take some from each other,
\* and each then fails for the rest of its layer and skips what depends on it;
\* still, when both are over, no other name that either of them was to publish
\* is left unpublished.
EverythingGetsPublished ==
  (/\ \A s \in Session : pc[s] = "exited"
   /\ \A s \in Faulty, l \in Layer : batch[s][l].state = "idle") =>
     \A s \in Session \ Faulty : \A p \in Selected(s) :
       status[s][p] # "pending" /\ DependsOn[p] \cap failed[s] = {} => Registered(p)

\* Claimed by the documentation, not kept by the code: metadata is on Bulletin
\* before the registry refers to it.
MetadataStoredFirst ==
  \A p \in Package : \A i \in DOMAIN log[p] : log[p][i].uri \in stored
=============================================================================
