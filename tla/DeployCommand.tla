--------------------------- MODULE DeployCommand ---------------------------
(***************************************************************************)
(* The command around a run of the deploy pipeline: the status adapter     *)
(* that turns the pipeline's events into rows (PipelineStatusAdapter), the *)
(* cells the table draws from a row (DeployTable), and the exit code.      *)
(*                                                                         *)
(* Every step of Deploy happens here together with the events it emits.    *)
(* The adapter listens for as long as the process lives, so the events of  *)
(* a batch that its layer gave up on still reach the table.                *)
(*                                                                         *)
(* A definition named D_Fault is a faulty variant of D that no             *)
(* specification uses: put in the place of D, it shows which property      *)
(* would notice the fault.                                                 *)
(***************************************************************************)
EXTENDS Deploy

CONSTANT FailsLate  \* the packages whose builds fail, if they do, when all is compiled

VARIABLES
  rows,       \* session -> package -> the ContractStatus of its row
  exitCode    \* session -> how its command ended, if it has

commandVars == <<vars, rows, exitCode>>

\* One row: compiled says whether its buildProgress is complete, sized stands
\* for bytecodeSize, address for the address and the deploy and register hashes
\* that come with it, cid for the CID, and error for the message.
Waiting == [state |-> "waiting", compiled |-> FALSE, sized |-> FALSE, address |-> NoAddress, cid |-> FALSE,
            deploying |-> FALSE, publishing |-> FALSE, registering |-> FALSE, error |-> FALSE]

\* What each event makes of a row it names: its fields over the row's own.
Detected(row)   == Waiting
BuildDone(row)  == [row EXCEPT !.state = "built", !.sized = TRUE]
BuildProgress(row) == [row EXCEPT !.compiled = TRUE]
BuildError(row) == [row EXCEPT !.state = "error", !.error = TRUE]
DeployRegisterStart(row) ==
  [row EXCEPT !.state = "deploying", !.deploying = TRUE, !.registering = TRUE]
PublishStart(row) == [row EXCEPT !.state = "deploying", !.publishing = TRUE]
DeployRegisterDone(row, address) ==
  [row EXCEPT !.state = "done", !.address = address, !.deploying = FALSE, !.registering = FALSE]
PublishDone(row) == [row EXCEPT !.publishing = FALSE, !.cid = TRUE]
DeployRegisterError_OnlyDeploy(row) ==
  [row EXCEPT !.state = "error", !.error = TRUE, !.deploying = FALSE, !.registering = FALSE]
DeployRegisterError(row) ==
  [row EXCEPT !.state = "error", !.error = TRUE,
              !.deploying = FALSE, !.publishing = FALSE, !.registering = FALSE]

\* An event has the new row of every package it names, and leaves the others.
Updated(table, event) == [p \in Package |-> IF p \in DOMAIN event THEN event[p] ELSE table[p]]
Emit(s, event) == rows' = [rows EXCEPT ![s] = Updated(@, event)]

\* The cells of a row.  publishBatch reports no hash, so that publishTxHash, the
\* mark of a failed registration, is empty in every row.
ErrorPhase(row) ==
  IF row.address # NoAddress /\ row.cid THEN "metadata"
  ELSE IF row.sized \/ row.compiled     THEN "deploy"
  ELSE "build"
FailedAt(row, phase) == row.state = "error" /\ ErrorPhase(row) = phase

BuildCell(row) ==
  CASE FailedAt(row, "build")  -> "failed"
    [] row.state = "waiting"   -> "idle"
    [] OTHER                   -> "done"
PhaseCell(row, phase, inProgress, done) ==
  IF inProgress                      THEN "spinner"
  ELSE IF FailedAt(row, phase)       THEN "failed"
  ELSE IF row.state = "done" /\ done THEN "done"
  ELSE "idle"
\* With an explorer and a gateway configured, a cell that is done is a link.
DeployCell(row)   == PhaseCell(row, "deploy", row.deploying, TRUE)
MetadataCell(row) == PhaseCell(row, "metadata", row.publishing, row.cid)
RegisterCell(row) == PhaseCell(row, "register", row.registering, TRUE)
Cells(row) == <<BuildCell(row), DeployCell(row), MetadataCell(row), RegisterCell(row)>>

-----------------------------------------------------------------------------
(* The steps of the pipeline with their events. *)

Quiet(step) == step /\ UNCHANGED <<rows, exitCode>>

Detect(s) ==
  Start(s) /\ Emit(s, [p \in Selected(s) |-> Detected(rows[s][p])]) /\ UNCHANGED exitCode

\* build-done for what is deployable, build-error for what is broken or skipped.
\* A build may fail after it has reported that all of its crates are compiled.
BuildLayer(s) ==
  /\ Build(s)
  /\ LET ready == Range(deployables'[s][layer[s]])
         given == failed'[s] \ failed[s]
         broken == {p \in given : DependsOn[p] \cap failed[s] = {}}
         told   == Updated(rows[s], [p \in broken \cap FailsLate |-> BuildProgress(rows[s][p])])
         built  == Updated(told, [p \in ready |-> BuildDone(told[p])])
     IN  rows' = [rows EXCEPT ![s] = Updated(built, [p \in given |-> BuildError(built[p])])]
  /\ UNCHANGED exitCode

Submit(s) ==
  /\ Plan(s)
  /\ Emit(s, [p \in Here(s) |-> PublishStart(DeployRegisterStart(rows[s][p]))])
  /\ UNCHANGED exitCode

\* deploy-register-done names the packages onChunk has just given an address.
ChunkDone(s, l) ==
  /\ ChunkLands(s, l)
  /\ rows' = [rows EXCEPT ![s] = [p \in Package |->
       IF addresses'[s][p] # addresses[s][p]
         THEN DeployRegisterDone(@[p], addresses'[s][p]) ELSE @[p]]]
  /\ UNCHANGED exitCode

LayerPublished(s) ==
  LayerDone(s) /\ Emit(s, [p \in Here(s) |-> PublishDone(rows[s][p])]) /\ UNCHANGED exitCode
LayerError(s) ==
  LayerFails(s) /\ Emit(s, [p \in Here(s) |-> DeployRegisterError(rows[s][p])]) /\ UNCHANGED exitCode

\* runDeployWithUI takes success from the summary and not from the rows.
Success_ByRows(s) == \A p \in Selected(s) : rows[s][p].state # "error"
Success(s) == \A p \in Selected(s) : status[s][p] # "error"
Return(s) ==
  /\ Exit(s)
  /\ exitCode' = [exitCode EXCEPT ![s] = IF Success(s) THEN "success" ELSE "failure"]
  /\ UNCHANGED rows

CommandInitFor(sessions) ==
  /\ InitFor(sessions)
  /\ rows = [s \in Session |-> [p \in Package |-> Waiting]]
  /\ exitCode = [s \in Session |-> "none"]
CommandInit == CommandInitFor(Session)

CommandLoop(s) ==
  \/ Detect(s) \/ BuildLayer(s) \/ Submit(s) \/ LayerPublished(s) \/ LayerError(s) \/ Return(s)
  \/ Quiet(Finish(s)) \/ \E p \in Package : Quiet(ReadVersionCount(s, p))
CommandBatch(s, l) ==
  \/ ChunkDone(s, l)
  \/ Quiet(Prepare(s, l)) \/ Quiet(PrepareFails(s, l)) \/ Quiet(ChunkFails(s, l))

CommandStep(s) ==
  CommandLoop(s) \/ \E l \in Layer : CommandBatch(s, l) \/ Quiet(PublishStep(s, l))

CommandNext ==
  \E s \in Session : CommandStep(s) \/ Quiet(Crash(s)) \/ \E l \in Layer : Quiet(LateStep(s, l))

CommandFairness == \A s \in Session : WF_commandVars(CommandStep(s))

CommandSpec == CommandInit /\ [][CommandNext]_commandVars /\ CommandFairness

-----------------------------------------------------------------------------
(* Properties. *)

\* A command that exits with success leaves a table in which every row is done
\* in all four columns and shows the address its package is registered at.
SuccessIsShown ==
  \A s \in Session : exitCode[s] = "success" =>
    \A p \in Selected(s) :
      /\ Cells(rows[s][p]) = <<"done", "done", "done", "done">>
      /\ Published(p, [address |-> rows[s][p].address, uri |-> Cid(s, p)])

\* When the pipeline has ended every contract has a verdict and no cell spins,
\* however a layer failed and whatever its abandoned batch reported since.
NothingSpinsAtTheEnd ==
  \A s \in Session : pc[s] = "finished" =>
    \A p \in Selected(s) :
      /\ status[s][p] # "pending"
      /\ \A i \in 1..4 : Cells(rows[s][p])[i] # "spinner"
=============================================================================
