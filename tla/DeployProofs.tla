---------------------------- MODULE DeployProofs ----------------------------
(***************************************************************************)
(* Theorems about Deploy and about DeployCommand, for any packages,        *)
(* layers, sessions, accounts, weights and budgets.                        *)
(*                                                                         *)
(* The invariant says of each session what its loop, its tasks and its     *)
(* summary have promised so far.  Registry, chain and Bulletin only grow,  *)
(* so these promises survive the steps of the other sessions (RunStays),   *)
(* and each step of a session is about its own promises only.  What a run  *)
(* has given up on, or left behind at its end, still keeps them: a lost    *)
(* task is within its items, and a late chunk is of its session's layer.   *)
(*                                                                         *)
(* That no run is stuck rests on the plan of its layer: a batch is always  *)
(* at the first item of a chunk, and a chunk that begins has an end.       *)
(*                                                                         *)
(* The command adds, of each row of its table, what the run's progress     *)
(* lets a cell show.  Its steps are steps of the run that also emit        *)
(* events, so its invariant rests on the run's.                            *)
(***************************************************************************)
EXTENDS DeployCommand, FiniteSetTheorems, TLAPS

LocalsOf(s) == <<pc[s], layer[s], failed[s], status[s], nextVersion[s], deployables[s],
                 chunks[s], batch[s], publish[s], addresses[s]>>

\* What a session deploys in a layer is part of it, and it deploys nothing in
\* the layers it has not built.
Ahead(s, l) == l > layer[s] \/ (l = layer[s] /\ pc[s] \in {"waiting", "build"})
LayerIsRight(s, l) ==
  /\ deployables[s][l] # <<>> => l \in DOMAIN Layers[s] /\ ~Ahead(s, l)
  /\ l \in DOMAIN Layers[s] => Range(deployables[s][l]) \subseteq Range(Layers[s][l])
  /\ \A i, j \in DOMAIN deployables[s][l] : deployables[s][l][i] = deployables[s][l][j] => i = j

\* Every task is within its items, and at their end if it has resolved.
Within(task, items) ==
  /\ task.next <= Len(items) + 1
  /\ task.state = "idle" => task.next = 1
  /\ task.state \in {"running", "lost"} => task.next <= Len(items)
  /\ task.state = "resolved" => task.next = Len(items) + 1
Planned(s, l) == batch[s][l].state # "idle"
TasksAreRight(s, l) ==
  /\ Within(batch[s][l], deployables[s][l]) /\ Within(publish[s][l], deployables[s][l])
  /\ Planned(s, l) <=> publish[s][l].state # "idle"
  /\ Planned(s, l) =>
       /\ deployables[s][l] # <<>> /\ Len(chunks[s][l]) = Len(deployables[s][l])
       /\ \A p \in Range(deployables[s][l]) : nextVersion[s][p] # Unread
       /\ ~Ahead(s, l) /\ ~(l = layer[s] /\ pc[s] = "versions")

\* The layer the loop is at.
LoopIsRight(s) ==
  /\ pc[s] \in {"versions", "submit"} =>
       /\ layer[s] \in DOMAIN Layers[s] /\ deployables[s][layer[s]] # <<>>
       /\ \A p \in Range(Layers[s][layer[s]]) : p \in Here(s) \/ p \in failed[s]
  /\ pc[s] = "submit" => Planned(s, layer[s])

\* What the tasks have reported and stored.
ReportIsRight(s, p) == addresses[s][p] # NoAddress =>
  /\ nextVersion[s][p] # Unread /\ addresses[s][p] = Address(s, p)
  /\ Address(s, p) \in contracts /\ Published(p, Entry(s, p)) /\ owner[p] = Deployer[s]
WorkIsRight(s, l) ==
  \A i \in DOMAIN deployables[s][l] :
    /\ i < batch[s][l].next => addresses[s][deployables[s][l][i]] # NoAddress
    /\ i < publish[s][l].next => Cid(s, deployables[s][l][i]) \in stored

\* What the summary says: a verdict for every layer that is over, "done" only
\* for what is reported and stored, and for the dependencies of what is deployed.
VerdictsAreRight(s) ==
  /\ \A l \in DOMAIN Layers[s] : l < layer[s] =>
       \A p \in Range(Layers[s][l]) : p \in failed[s] \/ status[s][p] = "done"
  /\ \A p \in Package : status[s][p] = "done" =>
       addresses[s][p] # NoAddress /\ Cid(s, p) \in stored
  /\ \A l \in Layer : \A p \in Range(deployables[s][l]) :
       \A d \in DependsOn[p] \cap Selected(s) : status[s][d] = "done"

RunIsRight(s) ==
  /\ \A l \in Layer : LayerIsRight(s, l) /\ TasksAreRight(s, l) /\ WorkIsRight(s, l)
  /\ LoopIsRight(s) /\ VerdictsAreRight(s)
  /\ \A p \in Package : ReportIsRight(s, p)

\* A session publishes what it deploys.
EntriesAreRight ==
  \A s \in Session, p \in Package : \A i \in DOMAIN log[p] :
    log[p][i].uri = Cid(s, p) => \E l \in Layer : p \in Range(deployables[s][l])

IInv == TypeOK /\ EntriesAreRight /\ \A s \in Session : RunIsRight(s)
-----------------------------------------------------------------------------
(* Layers and types. *)

LEMMA OneLayer ==
  ASSUME NEW s \in Session, NEW k \in DOMAIN Layers[s], NEW l \in DOMAIN Layers[s],
         NEW p \in Range(Layers[s][k]), p \in Range(Layers[s][l])
  PROVE  k = l
BY LayersAssumption DEF Range

\* What a contract depends on is in an earlier layer.
LEMMA DependencyBefore ==
  ASSUME NEW s \in Session, NEW k \in DOMAIN Layers[s], NEW p \in Range(Layers[s][k]),
         NEW d \in DependsOn[p] \cap Selected(s)
  PROVE  \E j \in DOMAIN Layers[s] : j < k /\ d \in Range(Layers[s][j])
<1>1. PICK j \in DOMAIN Layers[s] : d \in Range(Layers[s][j])
  BY DEF Selected
<1>2. PICK m \in DOMAIN Layers[s][j], n \in DOMAIN Layers[s][k] :
        d = Layers[s][j][m] /\ p = Layers[s][k][n]
  BY <1>1 DEF Range
<1>3. j < k
  BY <1>2, LayersAssumption
<1> QED
  BY <1>1, <1>3

LEMMA DependencyElsewhere ==
  ASSUME NEW s \in Session, NEW k \in DOMAIN Layers[s], NEW l \in DOMAIN Layers[s], k <= l,
         NEW p \in Range(Layers[s][k]), NEW d \in DependsOn[p] \cap Selected(s)
  PROVE  d \notin Range(Layers[s][l])
<1>1. PICK j \in DOMAIN Layers[s] : j < k /\ d \in Range(Layers[s][j])
  BY DependencyBefore
<1>2. j # l
  <2>1. Layers[s] \in Seq(Seq(Package))
    BY LayersAssumption
  <2>2. j \in Nat /\ k \in Nat /\ l \in Nat
    BY <2>1
  <2> QED
    BY <1>1, <2>2
<1> QED
  BY <1>1, <1>2, OneLayer

LEMMA LayerFacts ==
  ASSUME NEW s \in Session
  PROVE  /\ Layers[s] \in Seq(Seq(Package)) /\ Len(Layers[s]) \in Nat
         /\ DOMAIN Layers[s] = 1..Len(Layers[s]) /\ DOMAIN Layers[s] \subseteq Layer
         /\ \A l \in DOMAIN Layers[s] : /\ Layers[s][l] \in Seq(Package)
                                        /\ Range(Layers[s][l]) \subseteq Package
         /\ Layer \subseteq Nat
<1>1. \A t \in Session : Layers[t] \in Seq(Seq(Package))
  BY LayersAssumption
<1>2. /\ Len(Layers[s]) \in Nat /\ DOMAIN Layers[s] = 1..Len(Layers[s])
      /\ \A l \in DOMAIN Layers[s] : Layers[s][l] \in Seq(Package)
  BY <1>1
<1>3. \A l \in DOMAIN Layers[s] : Range(Layers[s][l]) \subseteq Package
  BY <1>2 DEF Range
<1>4. \A t \in Session : DOMAIN Layers[t] \subseteq Nat
  BY <1>1
<1> QED
  BY <1>1, <1>2, <1>3, <1>4 DEF Layer

LEMMA RunTypes ==
  ASSUME TypeOK, NEW s \in Session
  PROVE  /\ layer[s] \in Nat \ {0} /\ failed[s] \in SUBSET Package
         /\ status[s] \in [Package -> {"pending", "done", "error"}]
         /\ nextVersion[s] \in [Package -> Nat \cup {Unread}]
         /\ addresses[s] \in [Package -> AddressType \cup {NoAddress}]
         /\ \A l \in Layer : /\ deployables[s][l] \in Seq(Package)
                             /\ chunks[s][l] \in Seq(Nat)
                             /\ batch[s][l].next \in Nat \ {0} /\ publish[s][l].next \in Nat \ {0}
BY DEF TypeOK, TaskType

LEMMA AddressIsAddress ==
  ASSUME TypeOK, NEW s \in Session, NEW p \in Package, nextVersion[s][p] # Unread
  PROVE  Address(s, p) \in AddressType /\ Address(s, p) # NoAddress
<1>1. nextVersion[s][p] \in Nat /\ Deployer[s] \in Account /\ Code[s] \in Range(Code)
  BY RunTypes, SessionsAssumption DEF Range
<1>2. Address(s, p) \in AddressType
  BY <1>1 DEF Address, AddressType
<1>3. "package" \in DOMAIN Address(s, p) /\ "package" \notin DOMAIN NoAddress
  BY DEF Address, NoAddress
<1> QED
  BY <1>2, <1>3
-----------------------------------------------------------------------------
(* What a session has promised survives the steps of the others. *)

ChainGrows ==
  /\ contracts \subseteq contracts' /\ stored \subseteq stored'
  /\ \A p \in Package : \A i \in DOMAIN log[p] : /\ i \in DOMAIN log'[p]
                                                  /\ log'[p][i] = log[p][i]
  /\ \A p \in Package : log[p] # <<>> => owner'[p] = owner[p]

LEMMA ReportStays ==
  ASSUME NEW s \in Session, NEW p \in Package, ReportIsRight(s, p), ChainGrows, TypeOK,
         nextVersion'[s][p] = nextVersion[s][p], addresses'[s][p] = addresses[s][p]
  PROVE  ReportIsRight(s, p)'
<1>1. Address(s, p)' = Address(s, p) /\ Entry(s, p)' = Entry(s, p)
  BY DEF Address, Entry, Cid
<1>2. Published(p, Entry(s, p)) => Published(p, Entry(s, p))' /\ log[p] # <<>>
  <2>1. log[p] # <<>> \/ DOMAIN log[p] = {}
    BY DEF TypeOK
  <2> QED
    BY <1>1, <2>1 DEF Published, ChainGrows
<1> QED
  BY <1>1, <1>2 DEF ReportIsRight, ChainGrows

LEMMA RunStays ==
  ASSUME TypeOK, NEW s \in Session, RunIsRight(s), UNCHANGED LocalsOf(s), ChainGrows
  PROVE  RunIsRight(s)'
<1>1. /\ pc'[s] = pc[s] /\ layer'[s] = layer[s] /\ failed'[s] = failed[s]
      /\ status'[s] = status[s] /\ nextVersion'[s] = nextVersion[s]
      /\ deployables'[s] = deployables[s] /\ chunks'[s] = chunks[s]
      /\ batch'[s] = batch[s] /\ publish'[s] = publish[s] /\ addresses'[s] = addresses[s]
  BY DEF LocalsOf
<1>2. \A l \in Layer : LayerIsRight(s, l)'
  BY <1>1 DEF RunIsRight, LayerIsRight, Ahead
<1>3. \A l \in Layer : TasksAreRight(s, l)'
  BY <1>1 DEF RunIsRight, TasksAreRight, Planned, Ahead
<1>4. \A l \in Layer : WorkIsRight(s, l)'
  <2>1. \A l \in Layer : WorkIsRight(s, l)
    BY DEF RunIsRight
  <2>2. stored \subseteq stored'
    BY DEF ChainGrows
  <2> QED
    BY <1>1, <2>1, <2>2 DEF WorkIsRight
<1>5. LoopIsRight(s)'
  BY <1>1 DEF RunIsRight, LoopIsRight, Here, Planned
<1>6. VerdictsAreRight(s)'
  BY <1>1 DEF RunIsRight, VerdictsAreRight, ChainGrows, Cid
<1>7. \A p \in Package : ReportIsRight(s, p)'
  BY <1>1, ReportStays DEF RunIsRight
<1> QED
  BY <1>2, <1>3, <1>4, <1>5, <1>6, <1>7 DEF RunIsRight
-----------------------------------------------------------------------------
(* Steps. *)

\* The session s moves and no other does.
Moves(s) == \A t \in Session : t # s => LocalsOf(t)' = LocalsOf(t)

\* A step of one session that leaves the registry alone.
LEMMA LocalStep ==
  ASSUME IInv, NEW s \in Session, Moves(s), RunIsRight(s)', TypeOK',
         UNCHANGED <<owner, log, contracts>>, stored \subseteq stored',
         \A l \in Layer : \/ deployables'[s][l] = deployables[s][l]
                          \/ deployables[s][l] = <<>>
  PROVE  IInv'
<1>1. ChainGrows
  BY DEF ChainGrows
<1>2. ASSUME NEW t \in Session PROVE RunIsRight(t)'
  <2>1. CASE t = s
    BY <2>1
  <2>2. CASE t # s
    <3>1. LocalsOf(t)' = LocalsOf(t)
      BY <2>2 DEF Moves
    <3> QED
      BY <1>1, <3>1, RunStays DEF IInv
  <2> QED
    BY <2>1, <2>2
<1>3. ASSUME NEW t \in Session, NEW l \in Layer, NEW p \in Range(deployables[t][l])
      PROVE  p \in Range(deployables'[t][l])
  <2>1. CASE t = s
    <3>1. deployables[s][l] # <<>>
      BY <1>3, <2>1 DEF Range
    <3> QED
      BY <1>3, <2>1, <3>1
  <2>2. CASE t # s
    BY <1>3, <2>2 DEF Moves, LocalsOf
  <2> QED
    BY <2>1, <2>2
<1>4. EntriesAreRight'
  BY <1>3 DEF IInv, EntriesAreRight
<1> QED
  BY <1>2, <1>4 DEF IInv

\* A step that only moves the loop, and not ahead.
LEMMA LoopMoves ==
  ASSUME IInv, NEW s \in Session, NEW to, pc' = [pc EXCEPT ![s] = to],
         to \in {"build", "finished"}, to = "build" => pc[s] = "waiting",
         UNCHANGED <<chain, layer, locals, batch, publish>>
  PROVE  IInv'
<1>1. /\ pc'[s] = to /\ Moves(s) /\ UNCHANGED <<owner, log, contracts, stored>>
      /\ layer' = layer /\ failed' = failed /\ status' = status /\ nextVersion' = nextVersion
      /\ deployables' = deployables /\ chunks' = chunks /\ addresses' = addresses
      /\ batch' = batch /\ publish' = publish
  BY DEF IInv, TypeOK, Moves, LocalsOf, chain, locals
<1>2. TypeOK'
  BY <1>1 DEF IInv, TypeOK
<1>3. RunIsRight(s)
  BY DEF IInv
<1>4. ASSUME NEW l \in Layer
      PROVE  LayerIsRight(s, l)' /\ TasksAreRight(s, l)' /\ WorkIsRight(s, l)'
  <2>1. LayerIsRight(s, l) /\ TasksAreRight(s, l) /\ WorkIsRight(s, l)
    BY <1>3 DEF RunIsRight
  <2>2. LayerIsRight(s, l)'
    BY <1>1, <2>1 DEF LayerIsRight, Ahead
  <2>3. TasksAreRight(s, l)'
    BY <1>1, <2>1 DEF TasksAreRight, Planned, Ahead
  <2>4. WorkIsRight(s, l)'
    BY <1>1, <2>1 DEF WorkIsRight
  <2> QED
    BY <2>2, <2>3, <2>4
<1>5. LoopIsRight(s)'
  BY <1>1 DEF LoopIsRight
<1>6. VerdictsAreRight(s)'
  BY <1>1, <1>3 DEF RunIsRight, VerdictsAreRight
<1>7. \A p \in Package : ReportIsRight(s, p)'
  BY <1>1, <1>3 DEF RunIsRight, ReportIsRight, Address, Entry, Published
<1>8. RunIsRight(s)'
  BY <1>4, <1>5, <1>6, <1>7 DEF RunIsRight
<1> QED
  BY <1>1, <1>2, <1>8, LocalStep

\* The end of a process loses the tasks that are running, where they are.
LEMMA CutOffFacts ==
  ASSUME TypeOK, NEW s \in Session, End(s)
  PROVE  /\ \A l \in Layer :
              /\ batch'[s][l] = IF batch[s][l].state = "running" THEN Lose(batch[s][l])
                                                                ELSE batch[s][l]
              /\ publish'[s][l] = IF publish[s][l].state = "running" THEN Lose(publish[s][l])
                                                                    ELSE publish[s][l]
              /\ batch'[s][l].next = batch[s][l].next /\ publish'[s][l].next = publish[s][l].next
              /\ batch'[s][l].state =
                   IF batch[s][l].state = "running" THEN "lost" ELSE batch[s][l].state
              /\ publish'[s][l].state =
                   IF publish[s][l].state = "running" THEN "lost" ELSE publish[s][l].state
         /\ batch' \in [Session -> [Layer ->
              TaskType({"idle", "preparing", "running", "resolved", "rejected", "lost"})]]
         /\ publish' \in [Session -> [Layer ->
              TaskType({"idle", "running", "resolved", "rejected", "lost"})]]
         /\ \A t \in Session : t # s => batch'[t] = batch[t] /\ publish'[t] = publish[t]
<1>1. PICK B, P :
        /\ B = TaskType({"idle", "preparing", "running", "resolved", "rejected", "lost"})
        /\ P = TaskType({"idle", "running", "resolved", "rejected", "lost"})
  OBVIOUS
<1>2. batch \in [Session -> [Layer -> B]] /\ publish \in [Session -> [Layer -> P]]
  BY <1>1 DEF TypeOK
<1>3. /\ batch' = [batch EXCEPT ![s] = CutOff(batch[s])]
      /\ publish' = [publish EXCEPT ![s] = CutOff(publish[s])]
  BY <1>2 DEF End
<1>4. /\ batch'[s] = CutOff(batch[s]) /\ publish'[s] = CutOff(publish[s])
      /\ \A t \in Session : t # s => batch'[t] = batch[t] /\ publish'[t] = publish[t]
  BY <1>2, <1>3
<1>5. ASSUME NEW l \in Layer
      PROVE  /\ batch'[s][l] = IF batch[s][l].state = "running" THEN Lose(batch[s][l])
                                                              ELSE batch[s][l]
             /\ publish'[s][l] = IF publish[s][l].state = "running" THEN Lose(publish[s][l])
                                                                  ELSE publish[s][l]
  BY <1>4 DEF CutOff
<1>6. \A task \in B : Lose(task) \in B /\ Lose(task).state = "lost" /\ Lose(task).next = task.next
  BY <1>1 DEF Lose, TaskType
<1>7. \A task \in P : Lose(task) \in P /\ Lose(task).state = "lost" /\ Lose(task).next = task.next
  BY <1>1 DEF Lose, TaskType
<1>8. ASSUME NEW l \in Layer
      PROVE  /\ batch'[s][l] \in B /\ batch'[s][l].next = batch[s][l].next
             /\ batch'[s][l].state =
                  IF batch[s][l].state = "running" THEN "lost" ELSE batch[s][l].state
  BY <1>2, <1>5, <1>6
<1>9. ASSUME NEW l \in Layer
      PROVE  /\ publish'[s][l] \in P /\ publish'[s][l].next = publish[s][l].next
             /\ publish'[s][l].state =
                  IF publish[s][l].state = "running" THEN "lost" ELSE publish[s][l].state
  BY <1>2, <1>5, <1>7
<1>10. batch'[s] \in [Layer -> B]
  <2>1. DOMAIN batch'[s] = Layer /\ batch'[s] = [l \in Layer |-> batch'[s][l]]
    BY <1>4 DEF CutOff
  <2> QED
    BY <1>8, <2>1
<1>11. publish'[s] \in [Layer -> P]
  <2>1. DOMAIN publish'[s] = Layer /\ publish'[s] = [l \in Layer |-> publish'[s][l]]
    BY <1>4 DEF CutOff
  <2> QED
    BY <1>9, <2>1
<1>12. batch' \in [Session -> [Layer -> B]] /\ publish' \in [Session -> [Layer -> P]]
  BY <1>2, <1>3, <1>4, <1>10, <1>11
<1> QED
  BY <1>1, <1>4, <1>5, <1>8, <1>9, <1>12

LEMMA ProcessEnds ==
  ASSUME IInv, NEW s \in Session, End(s)
  PROVE  IInv'
<1>0. TypeOK /\ RunIsRight(s)
  BY DEF IInv
<1>1. /\ pc'[s] = "exited" /\ UNCHANGED <<owner, log, contracts, stored>>
      /\ \A t \in Session : t # s => pc'[t] = pc[t]
      /\ pc' \in [Session -> {"waiting", "build", "versions", "submit", "finished", "exited"}]
      /\ layer' = layer /\ failed' = failed /\ status' = status /\ nextVersion' = nextVersion
      /\ deployables' = deployables /\ chunks' = chunks /\ addresses' = addresses
  BY <1>0 DEF TypeOK, End, chain, locals
<1>2. TypeOK'
  BY <1>0, <1>1, CutOffFacts DEF TypeOK
<1>3. Moves(s)
  BY <1>0, <1>1, CutOffFacts DEF Moves, LocalsOf
<1>4. ASSUME NEW l \in Layer
      PROVE  LayerIsRight(s, l)' /\ TasksAreRight(s, l)' /\ WorkIsRight(s, l)'
  <2>1. LayerIsRight(s, l) /\ TasksAreRight(s, l) /\ WorkIsRight(s, l)
    BY <1>0 DEF RunIsRight
  <2>2. /\ batch'[s][l].next = batch[s][l].next /\ publish'[s][l].next = publish[s][l].next
        /\ batch'[s][l].state =
             IF batch[s][l].state = "running" THEN "lost" ELSE batch[s][l].state
        /\ publish'[s][l].state =
             IF publish[s][l].state = "running" THEN "lost" ELSE publish[s][l].state
    BY <1>0, CutOffFacts
  <2>3. LayerIsRight(s, l)'
    BY <1>1, <2>1 DEF LayerIsRight, Ahead
  <2>4. /\ Within(batch'[s][l], deployables'[s][l]) /\ Within(publish'[s][l], deployables'[s][l])
        /\ Planned(s, l)' <=> Planned(s, l)
        /\ publish'[s][l].state # "idle" <=> publish[s][l].state # "idle"
    BY <1>1, <2>1, <2>2 DEF TasksAreRight, Within, Planned
  <2>5. TasksAreRight(s, l)'
    BY <1>1, <2>1, <2>4 DEF TasksAreRight, Ahead
  <2>6. WorkIsRight(s, l)'
    BY <1>1, <2>1, <2>2 DEF WorkIsRight
  <2> QED
    BY <2>3, <2>5, <2>6
<1>5. LoopIsRight(s)'
  BY <1>1 DEF LoopIsRight
<1>6. VerdictsAreRight(s)'
  BY <1>0, <1>1 DEF RunIsRight, VerdictsAreRight
<1>7. \A p \in Package : ReportIsRight(s, p)'
  BY <1>0, <1>1 DEF RunIsRight, ReportIsRight, Address, Entry, Published
<1>8. RunIsRight(s)'
  BY <1>4, <1>5, <1>6, <1>7 DEF RunIsRight
<1> QED
  BY <1>1, <1>2, <1>3, <1>8, LocalStep

\* The filter of a layer is a sequence of some of its packages, each once.
LEMMA FilterFacts ==
  ASSUME NEW s \in Session, NEW k \in DOMAIN Layers[s],
         NEW packages \in SUBSET Range(Layers[s][k]),
         NEW ready \in InOrder(packages, Layers[s][k])
  PROVE  /\ ready \in Seq(Package) /\ Range(ready) = packages
         /\ \A i, j \in DOMAIN ready : ready[i] = ready[j] => i = j
<1> DEFINE here == Layers[s][k]
<1>1. here \in Seq(Package) /\ Range(here) \subseteq Package
  BY LayerFacts
<1>2. IsFiniteSet(Range(here))
  <2> HIDE DEF here
  <2>1. here \in Surjection(1..Len(here), Range(here)) /\ Len(here) \in Nat
    BY <1>1 DEF Surjection, Range
  <2>2. IsFiniteSet(1..Len(here))
    BY <2>1, FS_Interval
  <2> QED
    BY <2>1, <2>2, FS_Surjection
<1>3. Cardinality(packages) \in Nat
  BY <1>2, FS_Subset, FS_CardinalityType
<1>4. /\ ready \in [1..Cardinality(packages) -> packages] /\ Range(ready) = packages
      /\ \A i, j \in DOMAIN ready : i < j =>
           \E m, n \in DOMAIN here : m < n /\ here[m] = ready[i] /\ here[n] = ready[j]
  BY DEF InOrder
<1>5. ready \in Seq(Package)
  BY <1>1, <1>3, <1>4
<1>6. ASSUME NEW i \in DOMAIN ready, NEW j \in DOMAIN ready, i < j, ready[i] = ready[j]
      PROVE  FALSE
  <2>1. PICK m \in DOMAIN here, n \in DOMAIN here :
          m < n /\ here[m] = ready[i] /\ here[n] = ready[j]
    BY <1>4, <1>6
  <2>2. m = n
    BY <1>6, <2>1, LayersAssumption
  <2>3. m \in Nat
    BY <1>1
  <2> QED
    BY <2>1, <2>2, <2>3
<1>7. DOMAIN ready \subseteq Nat
  BY <1>3, <1>4
<1> QED
  BY <1>4, <1>5, <1>6, <1>7

LEMMA BuildStep ==
  ASSUME IInv, NEW s \in Session, Build(s)
  PROVE  IInv'
<1>0. PICK k \in DOMAIN Layers[s] : k = layer[s]
  BY DEF Build
<1> DEFINE here    == Layers[s][k]
           skipped == {p \in Range(here) : DependsOn[p] \cap failed[s] # {}}
<1>1. PICK broken \in SUBSET (Range(here) \ skipped) :
        \E ready \in InOrder(Range(here) \ (skipped \cup broken), here) :
          /\ GiveUp(s, skipped \cup broken)
          /\ deployables' = [deployables EXCEPT ![s][k] = ready]
          /\ pc' = [pc EXCEPT ![s] = IF ready = <<>> THEN "build" ELSE "versions"]
          /\ layer' = [layer EXCEPT ![s] = IF ready = <<>> THEN @ + 1 ELSE @]
  BY <1>0 DEF Build
<1> DEFINE lost == skipped \cup broken
<1>2. PICK ready \in InOrder(Range(here) \ lost, here) :
        /\ GiveUp(s, lost)
        /\ deployables' = [deployables EXCEPT ![s][k] = ready]
        /\ pc' = [pc EXCEPT ![s] = IF ready = <<>> THEN "build" ELSE "versions"]
        /\ layer' = [layer EXCEPT ![s] = IF ready = <<>> THEN @ + 1 ELSE @]
  BY <1>1
<1>3. /\ pc[s] = "build" /\ layer[s] = k /\ k \in DOMAIN Layers[s] /\ k \in Layer /\ k \in Nat
      /\ k <= Len(Layers[s]) /\ Len(Layers[s]) \in Nat
      /\ here \in Seq(Package) /\ Range(here) \subseteq Package
      /\ owner' = owner /\ log' = log /\ contracts' = contracts /\ stored' = stored
      /\ nextVersion' = nextVersion /\ chunks' = chunks /\ addresses' = addresses
      /\ batch' = batch /\ publish' = publish
  BY <1>0, LayerFacts DEF Build, chain
<1>4. /\ ready \in Seq(Package) /\ Range(ready) = Range(here) \ lost
      /\ \A i, j \in DOMAIN ready : ready[i] = ready[j] => i = j
  <2> DEFINE packages == Range(here) \ lost
  <2>1. packages \in SUBSET Range(Layers[s][k]) /\ ready \in InOrder(packages, Layers[s][k])
    OBVIOUS
  <2> HIDE DEF packages
  <2>2. /\ ready \in Seq(Package) /\ Range(ready) = packages
        /\ \A i, j \in DOMAIN ready : ready[i] = ready[j] => i = j
    BY <2>1, FilterFacts
  <2> QED
    BY <2>2 DEF packages
<1>5. /\ lost \subseteq Range(here)
      /\ \A p \in Range(ready) : DependsOn[p] \cap failed[s] = {}
  BY <1>4
<1>6. ready = <<>> <=> Range(ready) = {}
  <2> HIDE DEF here, lost
  <2> QED
    BY <1>4 DEF Range
<1> HIDE DEF lost, here, skipped
<1>7. TypeOK /\ RunIsRight(s)
  BY DEF IInv
<1>8. /\ failed' = [failed EXCEPT ![s] = @ \cup lost]
      /\ status' = [status EXCEPT ![s] = [p \in Package |-> IF p \in lost THEN "error" ELSE @[p]]]
  BY <1>2 DEF GiveUp
<1>9. /\ deployables'[s][k] = ready
      /\ \A l \in Layer : l # k => deployables'[s][l] = deployables[s][l]
      /\ \A t \in Session : t # s => deployables'[t] = deployables[t]
      /\ deployables' \in [Session -> [Layer -> Seq(Package)]]
  BY <1>2, <1>3, <1>4, <1>7 DEF TypeOK
<1>10. /\ failed'[s] = failed[s] \cup lost
       /\ \A p \in Package : status'[s][p] = IF p \in lost THEN "error" ELSE status[s][p]
       /\ \A t \in Session : t # s => failed'[t] = failed[t] /\ status'[t] = status[t]
       /\ failed' \in [Session -> SUBSET Package]
       /\ status' \in [Session -> [Package -> {"pending", "done", "error"}]]
  BY <1>3, <1>5, <1>7, <1>8 DEF TypeOK
<1>11. /\ pc'[s] = IF ready = <<>> THEN "build" ELSE "versions"
       /\ layer'[s] = IF ready = <<>> THEN k + 1 ELSE k
       /\ \A t \in Session : t # s => pc'[t] = pc[t] /\ layer'[t] = layer[t]
       /\ pc' \in [Session -> {"waiting", "build", "versions", "submit", "finished", "exited"}]
       /\ layer' \in [Session -> Nat \ {0}]
  BY <1>2, <1>3, <1>7 DEF TypeOK
<1>12. TypeOK'
  <2>1. \A t \in Session : layer'[t] <= Len(Layers[t]) + 1
    <3>1. \A t \in Session : layer[t] <= Len(Layers[t]) + 1
      BY <1>7 DEF TypeOK
    <3>2. layer'[s] <= Len(Layers[s]) + 1
      BY <1>3, <1>11
    <3> QED
      BY <1>11, <3>1, <3>2
  <2> QED
    BY <1>3, <1>7, <1>9, <1>10, <1>11, <2>1 DEF TypeOK
<1>13. Moves(s)
  BY <1>3, <1>9, <1>10, <1>11 DEF Moves, LocalsOf
<1>14. /\ deployables[s][k] = <<>> /\ ~Planned(s, k)
       /\ Within(batch[s][k], <<>>) /\ Within(publish[s][k], <<>>)
       /\ publish[s][k].state = "idle"
  BY <1>3, <1>7 DEF RunIsRight, LayerIsRight, TasksAreRight, Ahead
<1>15. ASSUME NEW l \in Layer
       PROVE  LayerIsRight(s, l)' /\ TasksAreRight(s, l)' /\ WorkIsRight(s, l)'
  <2>1. LayerIsRight(s, l) /\ TasksAreRight(s, l) /\ WorkIsRight(s, l) /\ l \in Nat
    BY <1>7, LayerFacts DEF RunIsRight
  <2>2. LayerIsRight(s, l)'
    <3>1. CASE l = k
      BY <1>3, <1>4, <1>5, <1>9, <1>11, <3>1 DEF LayerIsRight, Ahead, here
    <3>2. CASE l # k
      BY <1>3, <1>9, <1>11, <2>1, <3>2 DEF LayerIsRight, Ahead
    <3> QED
      BY <3>1, <3>2
  <2>3. TasksAreRight(s, l)'
    <3>1. CASE l = k
      <4>1. ~Planned(s, k)' /\ publish'[s][k].state = "idle"
        BY <1>3, <1>14 DEF Planned
      <4>2. batch[s][k].state = "idle" /\ batch[s][k].next = 1 /\ publish[s][k].next = 1
        BY <1>14 DEF Planned, Within
      <4>3. Len(ready) \in Nat
        BY <1>4
      <4>4. Within(batch'[s][k], ready) /\ Within(publish'[s][k], ready)
        BY <1>3, <1>14, <4>2, <4>3 DEF Within
      <4> QED
        BY <1>9, <3>1, <4>1, <4>4 DEF TasksAreRight
    <3>2. CASE l # k
      BY <1>3, <1>9, <1>11, <2>1, <3>2 DEF TasksAreRight, Planned, Ahead
    <3> QED
      BY <3>1, <3>2
  <2>4. WorkIsRight(s, l)'
    <3>1. CASE l = k
      <4>1. batch[s][k].next = 1 /\ publish[s][k].next = 1
        BY <1>14 DEF Planned, Within
      <4>2. \A i \in DOMAIN ready : ~(i < 1)
        BY <1>4
      <4> QED
        BY <1>3, <1>9, <3>1, <4>1, <4>2 DEF WorkIsRight
    <3>2. CASE l # k
      BY <1>3, <1>9, <2>1, <3>2 DEF WorkIsRight
    <3> QED
      BY <3>1, <3>2
  <2> QED
    BY <2>2, <2>3, <2>4
<1>16. LoopIsRight(s)'
  BY <1>3, <1>4, <1>6, <1>9, <1>10, <1>11 DEF LoopIsRight, Here, here
<1>17. VerdictsAreRight(s)'
  <2>1. VerdictsAreRight(s) /\ \A l \in Layer : LayerIsRight(s, l)
    BY <1>7 DEF RunIsRight
  <2>2. ASSUME NEW l \in DOMAIN Layers[s], l < layer'[s], NEW p \in Range(Layers[s][l])
        PROVE  p \in failed'[s] \/ status'[s][p] = "done"
    <3>1. p \in Package /\ l \in Nat
      BY LayerFacts
    <3>2. CASE l < k
      BY <1>3, <1>10, <2>1, <3>1, <3>2 DEF VerdictsAreRight
    <3>3. CASE l = k /\ ready = <<>>
      BY <1>4, <1>6, <1>10, <3>3 DEF here
    <3>4. l < k \/ (l = k /\ ready = <<>>)
      BY <1>3, <1>11, <2>2, <3>1
    <3> QED
      BY <3>2, <3>3, <3>4
  <2>3. \A p \in Package : status'[s][p] = "done" =>
          addresses'[s][p] # NoAddress /\ Cid(s, p) \in stored'
    BY <1>3, <1>10, <2>1 DEF VerdictsAreRight
  <2>4. ASSUME NEW l \in Layer, NEW p \in Range(deployables'[s][l]),
               NEW d \in DependsOn[p] \cap Selected(s)
        PROVE  status'[s][d] = "done"
    <3>1. CASE l = k
      <4>1. p \in Range(ready) /\ p \in Range(here)
        BY <1>4, <1>9, <2>4, <3>1
      <4>2. PICK j \in DOMAIN Layers[s] : j < k /\ d \in Range(Layers[s][j])
        BY <1>3, <4>1, DependencyBefore DEF here
      <4>3. d \notin Range(here)
        BY <1>3, <4>1, DependencyElsewhere DEF here
      <4>4. d \notin failed[s]
        BY <1>5, <4>1
      <4>5. d \in Package /\ d \notin lost
        BY <1>5, <4>2, <4>3, LayerFacts
      <4> QED
        BY <1>3, <1>10, <2>1, <4>2, <4>4, <4>5 DEF VerdictsAreRight
    <3>2. CASE l # k
      <4>1. p \in Range(deployables[s][l]) /\ deployables[s][l] # <<>>
        BY <1>9, <2>4, <3>2 DEF Range
      <4>2. /\ l \in DOMAIN Layers[s] /\ ~Ahead(s, l) /\ p \in Range(Layers[s][l])
        BY <2>1, <4>1 DEF LayerIsRight
      <4>3. l <= k
        BY <1>3, <4>2, LayerFacts DEF Ahead
      <4>4. d \notin Range(here)
        BY <1>3, <4>2, <4>3, DependencyElsewhere DEF here
      <4>5. status[s][d] = "done"
        BY <2>1, <4>1 DEF VerdictsAreRight
      <4>6. PICK j \in DOMAIN Layers[s] : d \in Range(Layers[s][j])
        BY DEF Selected
      <4>7. d \in Package /\ d \notin lost
        BY <1>5, <4>4, <4>6, LayerFacts
      <4> QED
        BY <1>10, <4>5, <4>7
    <3> QED
      BY <3>1, <3>2
  <2> QED
    BY <2>2, <2>3, <2>4 DEF VerdictsAreRight
<1>18. \A p \in Package : ReportIsRight(s, p)'
  BY <1>3, <1>7 DEF RunIsRight, ReportIsRight, Address, Entry, Published
<1>19. RunIsRight(s)'
  BY <1>15, <1>16, <1>17, <1>18 DEF RunIsRight
<1>20. \A l \in Layer : deployables'[s][l] = deployables[s][l] \/ deployables[s][l] = <<>>
  BY <1>9, <1>14
<1> QED
  BY <1>3, <1>12, <1>13, <1>19, <1>20, LocalStep

LEMMA ReadVersionCountStep ==
  ASSUME IInv, NEW s \in Session, NEW p \in Package, ReadVersionCount(s, p)
  PROVE  IInv'
<1>1. /\ nextVersion[s][p] = Unread
      /\ nextVersion' = [nextVersion EXCEPT ![s][p] = Len(log[p])]
      /\ owner' = owner /\ log' = log /\ contracts' = contracts /\ stored' = stored
      /\ pc' = pc /\ layer' = layer /\ failed' = failed /\ status' = status
      /\ deployables' = deployables /\ chunks' = chunks /\ addresses' = addresses
      /\ batch' = batch /\ publish' = publish
  BY DEF ReadVersionCount, chain
<1>2. TypeOK /\ RunIsRight(s)
  BY DEF IInv
<1>3. Len(log[p]) \in Nat
  BY <1>2 DEF TypeOK
<1>4. /\ \A q \in Package : q # p => nextVersion'[s][q] = nextVersion[s][q]
      /\ \A q \in Package : nextVersion[s][q] # Unread => nextVersion'[s][q] = nextVersion[s][q]
      /\ \A t \in Session : t # s => nextVersion'[t] = nextVersion[t]
      /\ nextVersion' \in [Session -> [Package -> Nat \cup {Unread}]]
  BY <1>1, <1>2, <1>3 DEF TypeOK
<1>5. TypeOK'
  BY <1>1, <1>2, <1>4 DEF TypeOK
<1>6. Moves(s) /\ ChainGrows
  BY <1>1, <1>4 DEF Moves, LocalsOf, ChainGrows
<1>7. ASSUME NEW l \in Layer
      PROVE  LayerIsRight(s, l)' /\ TasksAreRight(s, l)' /\ WorkIsRight(s, l)'
  <2>1. LayerIsRight(s, l) /\ TasksAreRight(s, l) /\ WorkIsRight(s, l)
    BY <1>2 DEF RunIsRight
  <2>2. LayerIsRight(s, l)'
    BY <1>1, <2>1 DEF LayerIsRight, Ahead
  <2>3. Range(deployables[s][l]) \subseteq Package
    <3>1. deployables[s][l] \in Seq(Package)
      BY <1>2, RunTypes
    <3> QED
      BY <3>1 DEF Range
  <2>4. TasksAreRight(s, l)'
    BY <1>1, <1>4, <2>1, <2>3 DEF TasksAreRight, Planned, Ahead
  <2>5. WorkIsRight(s, l)'
    BY <1>1, <2>1 DEF WorkIsRight
  <2> QED
    BY <2>2, <2>4, <2>5
<1>8. LoopIsRight(s)'
  BY <1>1, <1>2 DEF RunIsRight, LoopIsRight, Here, Planned
<1>9. VerdictsAreRight(s)'
  BY <1>1, <1>2 DEF RunIsRight, VerdictsAreRight
<1>10. ASSUME NEW q \in Package PROVE ReportIsRight(s, q)'
  <2>1. ReportIsRight(s, q)
    BY <1>2 DEF RunIsRight
  <2>2. CASE addresses[s][q] = NoAddress
    BY <1>1, <2>2 DEF ReportIsRight
  <2>3. CASE addresses[s][q] # NoAddress
    <3>1. nextVersion'[s][q] = nextVersion[s][q]
      BY <1>4, <2>1, <2>3 DEF ReportIsRight
    <3> QED
      BY <1>1, <1>2, <1>6, <2>1, <3>1, ReportStays
  <2> QED
    BY <2>2, <2>3
<1>11. RunIsRight(s)'
  BY <1>7, <1>8, <1>9, <1>10 DEF RunIsRight
<1> QED
  BY <1>1, <1>5, <1>6, <1>11, LocalStep

\* A step of the two tasks of one layer.
LEMMA TaskStep ==
  ASSUME IInv, NEW s \in Session, NEW l \in Layer, NEW b, NEW u,
         batch' = [batch EXCEPT ![s][l] = b], publish' = [publish EXCEPT ![s][l] = u],
         b \in TaskType({"idle", "preparing", "running", "resolved", "rejected", "lost"}),
         u \in TaskType({"idle", "running", "resolved", "rejected", "lost"}),
         Planned(s, l), b.state # "idle", u.state # "idle",
         Within(b, deployables[s][l]), Within(u, deployables[s][l]),
         UNCHANGED <<pc, layer, failed, status, nextVersion, deployables, chunks>>,
         ChainGrows, owner' \in [Package -> Account \cup {NoOwner}],
         log' \in [Package -> Seq([address : AddressType, uri : CidType])],
         contracts' \subseteq AddressType, stored' \subseteq CidType, EntriesAreRight',
         addresses' \in [Session -> [Package -> AddressType \cup {NoAddress}]],
         \A t \in Session : t # s => addresses'[t] = addresses[t],
         \A p \in Package : ReportIsRight(s, p)',
         \A p \in Package : addresses[s][p] # NoAddress => addresses'[s][p] # NoAddress,
         \A i \in DOMAIN deployables[s][l] :
           /\ i < b.next => addresses'[s][deployables[s][l][i]] # NoAddress
           /\ i < u.next => Cid(s, deployables[s][l][i]) \in stored'
  PROVE  IInv'
<1>1. /\ pc' = pc /\ layer' = layer /\ failed' = failed /\ status' = status
      /\ nextVersion' = nextVersion /\ deployables' = deployables /\ chunks' = chunks
      /\ stored \subseteq stored'
  BY DEF ChainGrows
<1>2. TypeOK /\ RunIsRight(s)
  BY DEF IInv
<1>3. /\ batch'[s][l] = b /\ publish'[s][l] = u
      /\ \A k \in Layer : k # l => batch'[s][k] = batch[s][k] /\ publish'[s][k] = publish[s][k]
      /\ \A t \in Session : t # s => batch'[t] = batch[t] /\ publish'[t] = publish[t]
      /\ batch' \in [Session -> [Layer ->
           TaskType({"idle", "preparing", "running", "resolved", "rejected", "lost"})]]
      /\ publish' \in [Session -> [Layer -> TaskType({"idle", "running", "resolved", "rejected", "lost"})]]
  BY <1>2 DEF TypeOK
<1>4. TypeOK'
  BY <1>1, <1>2, <1>3 DEF TypeOK
<1>5. ASSUME NEW k \in Layer
      PROVE  LayerIsRight(s, k)' /\ TasksAreRight(s, k)' /\ WorkIsRight(s, k)'
  <2>1. LayerIsRight(s, k) /\ TasksAreRight(s, k) /\ WorkIsRight(s, k)
    BY <1>2 DEF RunIsRight
  <2>2. LayerIsRight(s, k)'
    BY <1>1, <2>1 DEF LayerIsRight, Ahead
  <2>3. TasksAreRight(s, k)'
    <3>1. CASE k # l
      BY <1>1, <1>3, <2>1, <3>1 DEF TasksAreRight, Planned, Ahead
    <3>2. CASE k = l
      BY <1>1, <1>3, <2>1, <3>2 DEF TasksAreRight, Planned, Ahead
    <3> QED
      BY <3>1, <3>2
  <2>4. WorkIsRight(s, k)'
    <3>1. CASE k # l
      <4>1. \A i \in DOMAIN deployables[s][k] : deployables[s][k][i] \in Package
        <5>1. deployables[s][k] \in Seq(Package)
          BY <1>2, RunTypes
        <5> QED
          BY <5>1
      <4>2. ASSUME NEW i \in DOMAIN deployables[s][k]
            PROVE  /\ i < batch[s][k].next => addresses'[s][deployables[s][k][i]] # NoAddress
                   /\ i < publish[s][k].next => Cid(s, deployables[s][k][i]) \in stored'
        <5>1. /\ i < batch[s][k].next => addresses[s][deployables[s][k][i]] # NoAddress
              /\ i < publish[s][k].next => Cid(s, deployables[s][k][i]) \in stored
          BY <2>1 DEF WorkIsRight
        <5>2. deployables[s][k][i] \in Package
          BY <4>1
        <5> QED
          BY <1>1, <5>1, <5>2
      <4>3. batch'[s][k] = batch[s][k] /\ publish'[s][k] = publish[s][k]
        BY <1>3, <3>1
      <4> QED
        BY <1>1, <4>2, <4>3 DEF WorkIsRight, Cid
    <3>2. CASE k = l
      BY <1>1, <1>3, <3>2 DEF WorkIsRight
    <3> QED
      BY <3>1, <3>2
  <2> QED
    BY <2>2, <2>3, <2>4
<1>6. LoopIsRight(s)'
  <2>1. LoopIsRight(s) /\ (pc[s] = "submit" => layer[s] \in Layer)
    BY <1>2, LayerFacts DEF RunIsRight, LoopIsRight
  <2>2. \A k \in Layer : Planned(s, k) => batch'[s][k].state # "idle"
    BY <1>3 DEF Planned
  <2> QED
    BY <1>1, <2>1, <2>2 DEF LoopIsRight, Here, Planned
<1>7. VerdictsAreRight(s)'
  <2>1. VerdictsAreRight(s)
    BY <1>2 DEF RunIsRight
  <2> QED
    BY <1>1, <2>1 DEF VerdictsAreRight
<1>8. RunIsRight(s)'
  BY <1>5, <1>6, <1>7 DEF RunIsRight
<1>9. ASSUME NEW t \in Session PROVE RunIsRight(t)'
  <2>1. CASE t = s
    BY <1>8, <2>1
  <2>2. CASE t # s
    BY <1>1, <1>2, <1>3, <2>2, RunStays DEF IInv, LocalsOf
  <2> QED
    BY <2>1, <2>2
<1> QED
  BY <1>4, <1>9 DEF IInv

\* A step of the tasks that reports nothing and leaves the registry alone.
LEMMA QuietTaskStep ==
  ASSUME IInv, NEW s \in Session, NEW l \in Layer, NEW b, NEW u,
         batch' = [batch EXCEPT ![s][l] = b], publish' = [publish EXCEPT ![s][l] = u],
         b \in TaskType({"idle", "preparing", "running", "resolved", "rejected", "lost"}),
         u \in TaskType({"idle", "running", "resolved", "rejected", "lost"}),
         Planned(s, l), b.state # "idle", u.state # "idle",
         Within(b, deployables[s][l]), Within(u, deployables[s][l]),
         b.next <= batch[s][l].next,
         \A i \in DOMAIN deployables[s][l] : i < u.next => Cid(s, deployables[s][l][i]) \in stored',
         UNCHANGED <<owner, log, contracts, pc, layer, locals>>,
         stored \subseteq stored', stored' \subseteq CidType
  PROVE  IInv'
<1>1. /\ owner' = owner /\ log' = log /\ contracts' = contracts
      /\ pc' = pc /\ layer' = layer /\ failed' = failed /\ status' = status
      /\ nextVersion' = nextVersion
      /\ deployables' = deployables /\ chunks' = chunks /\ addresses' = addresses
  BY DEF locals
<1>2. TypeOK /\ RunIsRight(s)
  BY DEF IInv
<1>3. ChainGrows /\ EntriesAreRight'
  BY <1>1 DEF ChainGrows, IInv, EntriesAreRight
<1>4. \A p \in Package : ReportIsRight(s, p)'
  BY <1>1, <1>2, <1>3, ReportStays DEF RunIsRight
<1>5. \A i \in DOMAIN deployables[s][l] :
        i < b.next => addresses[s][deployables[s][l][i]] # NoAddress
  <2>1. DOMAIN deployables[s][l] \subseteq Nat /\ batch[s][l].next \in Nat /\ b.next \in Nat
    BY <1>2, RunTypes DEF TaskType
  <2>2. WorkIsRight(s, l)
    BY <1>2 DEF RunIsRight
  <2> QED
    BY <2>1, <2>2 DEF WorkIsRight
<1>6. /\ owner' \in [Package -> Account \cup {NoOwner}]
      /\ log' \in [Package -> Seq([address : AddressType, uri : CidType])]
      /\ contracts' \subseteq AddressType
      /\ addresses' \in [Session -> [Package -> AddressType \cup {NoAddress}]]
  BY <1>1, <1>2 DEF TypeOK
<1> QED
  BY <1>1, <1>3, <1>4, <1>5, <1>6, TaskStep

LEMMA PrepareStep ==
  ASSUME IInv, NEW s \in Session, NEW l \in Layer, Prepare(s, l) \/ PrepareFails(s, l)
  PROVE  IInv'
<1>1. TypeOK /\ RunIsRight(s)
  BY DEF IInv
<1>2. /\ batch[s][l].state = "preparing" /\ publish' = publish /\ stored' = stored
      /\ UNCHANGED <<owner, log, contracts, pc, layer, locals>>
      /\ \/ batch' = [batch EXCEPT ![s][l] = Task("running")]
         \/ batch' = [batch EXCEPT ![s][l] = Reject(batch[s][l])]
  <2>1. batch' = [batch EXCEPT ![s][l] = Reject(@)] =>
          batch' = [batch EXCEPT ![s][l] = Reject(batch[s][l])]
    BY <1>1 DEF TypeOK
  <2> QED
    BY <2>1 DEF Prepare, PrepareFails, chain
<1>3. /\ TasksAreRight(s, l) /\ WorkIsRight(s, l)
      /\ batch[s][l] \in TaskType({"idle", "preparing", "running", "resolved", "rejected", "lost"})
      /\ publish[s][l] \in TaskType({"idle", "running", "resolved", "rejected", "lost"})
      /\ deployables[s][l] \in Seq(Package) /\ stored \subseteq CidType
      /\ publish' = [publish EXCEPT ![s][l] = publish[s][l]]
  BY <1>1, <1>2 DEF RunIsRight, TypeOK
<1>4. PICK b \in TaskType({"idle", "preparing", "running", "resolved", "rejected", "lost"}) :
        /\ batch' = [batch EXCEPT ![s][l] = b]
        /\ b.state \in {"running", "rejected"} /\ b.next <= batch[s][l].next
        /\ Within(b, deployables[s][l])
  <2>1. Planned(s, l) /\ deployables[s][l] # <<>> /\ Len(deployables[s][l]) \in Nat \ {0}
    <3>1. Planned(s, l) /\ deployables[s][l] # <<>>
      BY <1>2, <1>3 DEF TasksAreRight, Planned
    <3> QED
      BY <1>3, <3>1
  <2>2. CASE batch' = [batch EXCEPT ![s][l] = Task("running")]
    <3>1. Task("running") \in TaskType({"idle", "preparing", "running", "resolved", "rejected", "lost"})
      BY DEF Task, TaskType
    <3>2. Task("running").next <= batch[s][l].next /\ Within(Task("running"), deployables[s][l])
      BY <1>3, <2>1 DEF Task, Within, TaskType
    <3> QED
      BY <2>2, <3>1, <3>2 DEF Task
  <2>3. CASE batch' = [batch EXCEPT ![s][l] = Reject(batch[s][l])]
    <3>1. /\ Reject(batch[s][l]) \in
               TaskType({"idle", "preparing", "running", "resolved", "rejected", "lost"})
          /\ Reject(batch[s][l]).state = "rejected"
          /\ Reject(batch[s][l]).next <= batch[s][l].next
          /\ Within(Reject(batch[s][l]), deployables[s][l])
      BY <1>3 DEF Reject, TasksAreRight, Within, TaskType
    <3> QED
      BY <2>3, <3>1
  <2> QED
    BY <1>2, <2>2, <2>3
<1>5. /\ Planned(s, l) /\ publish[s][l].state # "idle"
      /\ Within(publish[s][l], deployables[s][l])
      /\ \A i \in DOMAIN deployables[s][l] :
           i < publish[s][l].next => Cid(s, deployables[s][l][i]) \in stored'
  BY <1>2, <1>3 DEF TasksAreRight, WorkIsRight, Planned
<1> QED
  BY <1>2, <1>3, <1>4, <1>5, QuietTaskStep

\* A blob may be stored while its run waits for it, or when nobody does.
LEMMA StoreStep ==
  ASSUME IInv, NEW s \in Session, NEW l \in Layer,
         StoreBlob(s, l) \/ StoreFails(s, l) \/ LateBlobSettles(s, l)
  PROVE  IInv'
<1>1. TypeOK /\ RunIsRight(s)
  BY DEF IInv
<1> DEFINE next == publish[s][l].next
           items == deployables[s][l]
<1>2. /\ publish[s][l].state \in {"running", "lost"} /\ batch' = batch
      /\ UNCHANGED <<owner, log, contracts, pc, layer, locals>>
      /\ \/ /\ publish' = [publish EXCEPT ![s][l] = Advance(next + 1, items)]
            /\ stored' = stored \cup {NextBlob(s, l)}
         \/ /\ \/ publish' = [publish EXCEPT ![s][l] = Reject(publish[s][l])]
               \/ publish' = [publish EXCEPT ![s][l] = Lose(publish[s][l])]
            /\ stored' \in {stored, stored \cup {NextBlob(s, l)}}
  <2>1. /\ publish' = [publish EXCEPT ![s][l] = Reject(@)] =>
             publish' = [publish EXCEPT ![s][l] = Reject(publish[s][l])]
        /\ publish' = [publish EXCEPT ![s][l] = Lose(@)] =>
             publish' = [publish EXCEPT ![s][l] = Lose(publish[s][l])]
    BY <1>1 DEF TypeOK
  <2> QED
    BY <2>1 DEF StoreBlob, StoreFails, LateBlobSettles, chain
<1>3. /\ TasksAreRight(s, l) /\ WorkIsRight(s, l)
      /\ batch[s][l] \in TaskType({"idle", "preparing", "running", "resolved", "rejected", "lost"})
      /\ publish[s][l] \in TaskType({"idle", "running", "resolved", "rejected", "lost"})
      /\ items \in Seq(Package) /\ stored \subseteq CidType
      /\ batch' = [batch EXCEPT ![s][l] = batch[s][l]]
  BY <1>1, <1>2 DEF RunIsRight, TypeOK
<1>4. /\ next \in 1..Len(items) /\ Len(items) \in Nat /\ items[next] \in Package
      /\ Planned(s, l) /\ batch[s][l].state # "idle" /\ Within(batch[s][l], items)
  <2>1. next \in Nat \ {0} /\ Len(items) \in Nat
    BY <1>3 DEF TaskType
  <2>2. next <= Len(items) /\ Planned(s, l) /\ Within(batch[s][l], items)
    BY <1>2, <1>3 DEF TasksAreRight, Within
  <2>3. items[next] \in Package
    BY <1>3, <2>1, <2>2
  <2> QED
    BY <2>1, <2>2, <2>3 DEF Planned
<1>5. NextBlob(s, l) = Cid(s, items[next]) /\ NextBlob(s, l) \in CidType
  BY <1>4 DEF NextBlob, Cid, CidType
<1>6. stored \subseteq stored' /\ stored' \subseteq CidType
  BY <1>2, <1>3, <1>5
<1>7. batch[s][l].next <= batch[s][l].next
  BY <1>3 DEF TaskType
<1>8. \A i \in DOMAIN items : i < next => Cid(s, items[i]) \in stored
  BY <1>3 DEF WorkIsRight
<1>9. CASE publish' = [publish EXCEPT ![s][l] = Advance(next + 1, items)]
           /\ stored' = stored \cup {NextBlob(s, l)}
  <2> DEFINE u == Advance(next + 1, items)
  <2>1. u \in TaskType({"idle", "running", "resolved", "rejected", "lost"}) /\ u.next = next + 1
        /\ u.state \in {"running", "resolved"} /\ Within(u, items)
    <3> HIDE DEF items, next
    <3> QED
      BY <1>4 DEF Advance, TaskType, Within
  <2>2. \A i \in DOMAIN items : i < next + 1 => Cid(s, items[i]) \in stored'
    <3>1. DOMAIN items = 1..Len(items)
      BY <1>3
    <3>2. \A i \in DOMAIN items : i < next + 1 => i < next \/ i = next
      BY <1>4, <3>1
    <3> HIDE DEF items, next
    <3> QED
      BY <1>5, <1>8, <1>9, <3>2
  <2> HIDE DEF u
  <2>3. publish' = [publish EXCEPT ![s][l] = u]
    BY <1>9 DEF u
  <2> QED
    BY <1>2, <1>3, <1>4, <1>6, <1>7, <2>1, <2>2, <2>3, QuietTaskStep
<1>10. CASE \/ publish' = [publish EXCEPT ![s][l] = Reject(publish[s][l])]
            \/ publish' = [publish EXCEPT ![s][l] = Lose(publish[s][l])]
  <2>1. PICK u : /\ u \in {Reject(publish[s][l]), Lose(publish[s][l])}
                 /\ publish' = [publish EXCEPT ![s][l] = u]
    BY <1>10
  <2>2. /\ u \in TaskType({"idle", "running", "resolved", "rejected", "lost"}) /\ u.next = next
        /\ u.state \in {"rejected", "lost"} /\ Within(u, items)
    BY <1>3, <1>4, <2>1 DEF Reject, Lose, TaskType, Within
  <2>3. \A i \in DOMAIN items : i < next => Cid(s, items[i]) \in stored'
    BY <1>6, <1>8
  <2> QED
    BY <1>2, <1>3, <1>4, <1>6, <1>7, <2>1, <2>2, <2>3, QuietTaskStep
<1> QED
  BY <1>2, <1>9, <1>10
-----------------------------------------------------------------------------
(* The chunks. *)

\* A chunk is a stretch of the layer's items, from the first one left.
LEMMA ChunkFacts ==
  ASSUME TypeOK, NEW s \in Session, NEW l \in Layer, TasksAreRight(s, l),
         batch[s][l].state \in {"running", "lost"},
         NEW last \in DOMAIN chunks[s][l], EndsAt(s, l, last)
  PROVE  /\ Planned(s, l) /\ last \in Nat /\ Len(deployables[s][l]) \in Nat
         /\ batch[s][l].next \in 1..last /\ last <= Len(deployables[s][l])
         /\ Chunk(s, l, last) \in Seq(Package)
         /\ DOMAIN Chunk(s, l, last) = 1..(last - batch[s][l].next + 1)
         /\ \A i \in DOMAIN Chunk(s, l, last) :
              Chunk(s, l, last)[i] = deployables[s][l][batch[s][l].next - 1 + i]
         /\ Range(Chunk(s, l, last)) \subseteq Range(deployables[s][l])
<1> DEFINE items == deployables[s][l]
           next  == batch[s][l].next
<1>1. items \in Seq(Package) /\ chunks[s][l] \in Seq(Nat) /\ next \in Nat \ {0}
  BY RunTypes
<1>2. Planned(s, l) /\ Len(chunks[s][l]) = Len(items) /\ last >= next
  BY DEF TasksAreRight, Planned, EndsAt
<1>3. Len(items) \in Nat /\ last \in 1..Len(items) /\ next \in 1..last /\ DOMAIN items = 1..Len(items)
  BY <1>1, <1>2
<1>4. Chunk(s, l, last) = SubSeq(items, next, last)
  BY DEF Chunk
<1> HIDE DEF items, next
<1>5. /\ SubSeq(items, next, last) \in Seq(Package)
      /\ DOMAIN SubSeq(items, next, last) = 1..(last - next + 1)
      /\ \A i \in 1..(last - next + 1) : SubSeq(items, next, last)[i] = items[next - 1 + i]
  BY <1>1, <1>3
<1>6. \A i \in 1..(last - next + 1) : next - 1 + i \in 1..Len(items)
  BY <1>3
<1>7. Range(SubSeq(items, next, last)) \subseteq Range(items)
  BY <1>3, <1>5, <1>6 DEF Range
<1>8. /\ Chunk(s, l, last) \in Seq(Package) /\ DOMAIN Chunk(s, l, last) = 1..(last - next + 1)
      /\ \A i \in DOMAIN Chunk(s, l, last) : Chunk(s, l, last)[i] = items[next - 1 + i]
      /\ Range(Chunk(s, l, last)) \subseteq Range(items)
  BY <1>4, <1>5, <1>7
<1>9. last \in Nat /\ last <= Len(items)
  BY <1>3
<1> QED
  BY <1>2, <1>3, <1>8, <1>9 DEF items, next

\* What a chunk does when it is executed.
LEMMA Executed ==
  ASSUME IInv, NEW s \in Session, NEW l \in Layer, Planned(s, l), NEW chunk,
         Range(chunk) \subseteq Range(deployables[s][l]), Executable(s, chunk), Execute(s, chunk),
         UNCHANGED <<stored, nextVersion, deployables>>
  PROVE  /\ ChainGrows /\ EntriesAreRight'
         /\ owner' \in [Package -> Account \cup {NoOwner}]
         /\ log' \in [Package -> Seq([address : AddressType, uri : CidType])]
         /\ contracts' \subseteq AddressType /\ stored' \subseteq CidType
         /\ \A p \in Range(chunk) :
              /\ nextVersion[s][p] # Unread /\ Address(s, p) \in contracts'
              /\ owner'[p] = Deployer[s] /\ \E i \in DOMAIN log'[p] : log'[p][i] = Entry(s, p)
<1>1. TypeOK /\ TasksAreRight(s, l)
  BY DEF IInv, RunIsRight
<1>2. /\ contracts' = contracts \cup {Address(s, p) : p \in Range(chunk)}
      /\ log' = [p \in Package |-> IF p \in Range(chunk) THEN Append(log[p], Entry(s, p))
                                   ELSE log[p]]
      /\ owner' = [p \in Package |-> IF p \in Range(chunk) THEN Deployer[s] ELSE owner[p]]
  BY DEF Execute
<1>3. ASSUME NEW p \in Range(chunk)
      PROVE  /\ p \in Package /\ p \in Range(deployables[s][l]) /\ nextVersion[s][p] # Unread
             /\ Address(s, p) \in AddressType /\ Cid(s, p) \in CidType
             /\ log[p] # <<>> => owner[p] = Deployer[s]
  <2>1. p \in Range(deployables[s][l]) /\ nextVersion[s][p] # Unread
    BY <1>1 DEF TasksAreRight
  <2>2. p \in Package
    <3>1. deployables[s][l] \in Seq(Package)
      BY <1>1, RunTypes
    <3> QED
      BY <2>1, <3>1 DEF Range
  <2>3. Address(s, p) \in AddressType
    BY <1>1, <2>1, <2>2, AddressIsAddress
  <2> QED
    BY <2>1, <2>2, <2>3 DEF Cid, CidType, Executable, Publishable, Registered
<1> DEFINE EntryType == [address : AddressType, uri : CidType]
<1>4. ASSUME NEW p \in Package
      PROVE  /\ log[p] \in Seq(EntryType) /\ log'[p] \in Seq(EntryType)
             /\ p \notin Range(chunk) => log'[p] = log[p]
             /\ p \in Range(chunk) => log'[p] = Append(log[p], Entry(s, p))
  <2>1. log[p] \in Seq(EntryType)
    BY <1>1 DEF TypeOK
  <2>2. p \in Range(chunk) => Entry(s, p) \in EntryType
    BY <1>3 DEF Entry
  <2>3. /\ p \notin Range(chunk) => log'[p] = log[p]
        /\ p \in Range(chunk) => log'[p] = Append(log[p], Entry(s, p))
    BY <1>2
  <2> HIDE DEF EntryType
  <2>4. p \in Range(chunk) => log'[p] \in Seq(EntryType)
    BY <2>1, <2>2, <2>3
  <2> QED
    BY <2>1, <2>3, <2>4
<1>5. /\ DOMAIN log' = Package /\ log' = [p \in Package |-> log'[p]]
      /\ log' \in [Package -> Seq(EntryType)]
  BY <1>2, <1>4
<1>6. ASSUME NEW p \in Package
      PROVE  /\ \A i \in DOMAIN log[p] : i \in DOMAIN log'[p] /\ log'[p][i] = log[p][i]
             /\ p \in Range(chunk) =>
                  \A i \in DOMAIN log'[p] : i \in DOMAIN log[p] \/ log'[p][i] = Entry(s, p)
             /\ p \in Range(chunk) => \E i \in DOMAIN log'[p] : log'[p][i] = Entry(s, p)
  <2>1. log[p] \in Seq(EntryType) /\ p \notin Range(chunk) => log'[p] = log[p]
    BY <1>4
  <2>2. ASSUME p \in Range(chunk)
        PROVE  /\ Len(log[p]) \in Nat /\ DOMAIN log[p] = 1..Len(log[p])
               /\ DOMAIN log'[p] = 1..(Len(log[p]) + 1)
               /\ \A i \in 1..Len(log[p]) : log'[p][i] = log[p][i]
               /\ log'[p][Len(log[p]) + 1] = Entry(s, p)
    <3>1. log[p] \in Seq(EntryType) /\ log'[p] = Append(log[p], Entry(s, p))
      BY <1>4, <2>2
    <3> HIDE DEF EntryType
    <3> QED
      BY <3>1
  <2>3. CASE p \in Range(chunk)
    <3>1. Len(log[p]) + 1 \in DOMAIN log'[p]
      BY <2>2, <2>3
    <3> QED
      BY <2>2, <2>3, <3>1
  <2>4. CASE p \notin Range(chunk)
    BY <1>4, <2>4
  <2> QED
    BY <2>3, <2>4
<1>7. owner' \in [Package -> Account \cup {NoOwner}]
  <2>1. Deployer[s] \in Account /\ owner \in [Package -> Account \cup {NoOwner}]
    BY <1>1, SessionsAssumption DEF TypeOK
  <2> QED
    BY <1>2, <2>1
<1>8. contracts' \subseteq AddressType /\ stored' \subseteq CidType
  BY <1>1, <1>2, <1>3 DEF TypeOK
<1>9. \A p \in Package : log[p] # <<>> => owner'[p] = owner[p]
  BY <1>2, <1>3
<1>10. ChainGrows
  BY <1>2, <1>6, <1>9 DEF ChainGrows
<1>11. EntriesAreRight'
  <2>1. ASSUME NEW t \in Session, NEW p \in Package, NEW i \in DOMAIN log'[p],
               log'[p][i].uri = Cid(t, p)
        PROVE  \E k \in Layer : p \in Range(deployables[t][k])
    <3>1. CASE i \in DOMAIN log[p]
      BY <1>6, <2>1, <3>1 DEF IInv, EntriesAreRight
    <3>2. CASE i \notin DOMAIN log[p]
      <4>1. p \in Range(chunk) /\ log'[p][i] = Entry(s, p)
        BY <1>4, <1>6, <2>1, <3>2
      <4>2. t = s
        BY <2>1, <4>1 DEF Entry, Cid
      <4> QED
        BY <1>3, <4>1, <4>2
    <3> QED
      BY <3>1, <3>2
  <2>2. deployables' = deployables
    OBVIOUS
  <2> QED
    BY <2>1, <2>2 DEF EntriesAreRight, Cid
<1>12. \A p \in Range(chunk) : Address(s, p) \in contracts' /\ owner'[p] = Deployer[s]
  BY <1>2, <1>3
<1> QED
  BY <1>3, <1>5, <1>6, <1>7, <1>8, <1>10, <1>11, <1>12

\* onChunk gives every package of the chunk its own address.
LEMMA Reported ==
  ASSUME TypeOK, NEW s \in Session, NEW l \in Layer, TasksAreRight(s, l),
         batch[s][l].state = "running", NEW last \in DOMAIN chunks[s][l], EndsAt(s, l, last),
         OnChunk(s, l, Chunk(s, l, last))
  PROVE  /\ addresses' = [addresses EXCEPT ![s] = addresses'[s]]
         /\ addresses'[s] = [p \in Package |->
              IF p \in Range(Chunk(s, l, last)) THEN Address(s, p) ELSE addresses[s][p]]
         /\ \A t \in Session : t # s => addresses'[t] = addresses[t]
<1> DEFINE chunk == Chunk(s, l, last)
           items == deployables[s][l]
           next  == batch[s][l].next
           at(p) == CHOOSE i \in DOMAIN chunk : items[next - 1 + i] = p
           report == [p \in Package |-> IF \E i \in DOMAIN chunk : items[next - 1 + i] = p
                                          THEN Address(s, chunk[at(p)]) ELSE addresses[s][p]]
<1>1. \A i \in DOMAIN chunk : chunk[i] = items[next - 1 + i]
  BY ChunkFacts
<1>2. addresses' = [addresses EXCEPT ![s] = report]
  <2>1. addresses' = [addresses EXCEPT ![s] = [p \in Package |->
          IF \E i \in DOMAIN chunk : items[next - 1 + i] = p
            THEN Address(s, chunk[at(p)]) ELSE @[p]]]
    BY DEF OnChunk, DeployCursor
  <2>2. s \in DOMAIN addresses
    BY DEF TypeOK
  <2> HIDE DEF chunk, items, next
  <2> QED
    BY <2>1, <2>2
<1>3. s \in DOMAIN addresses /\ DOMAIN addresses = Session
  BY DEF TypeOK
<1>4. ASSUME NEW p \in Package
      PROVE  report[p] = IF p \in Range(chunk) THEN Address(s, p) ELSE addresses[s][p]
  <2> HIDE DEF chunk, items, next
  <2>1. CASE p \in Range(chunk)
    <3>1. PICK i \in DOMAIN chunk : items[next - 1 + i] = p
      BY <1>1, <2>1 DEF Range
    <3>2. at(p) \in DOMAIN chunk /\ items[next - 1 + at(p)] = p
      BY <3>1
    <3>3. chunk[at(p)] = p
      BY <1>1, <3>2
    <3> QED
      BY <2>1, <3>1, <3>3
  <2>2. CASE p \notin Range(chunk)
    <3>1. ~\E i \in DOMAIN chunk : items[next - 1 + i] = p
      BY <1>1, <2>2 DEF Range
    <3> QED
      BY <2>2, <3>1
  <2> QED
    BY <2>1, <2>2
<1>5. report = [p \in Package |-> IF p \in Range(chunk) THEN Address(s, p) ELSE addresses[s][p]]
  <2> HIDE DEF chunk, items, next
  <2> QED
    BY <1>4
<1> HIDE DEF report, chunk
<1>6. addresses'[s] = report
  BY <1>2, <1>3
<1> QED
  BY <1>2, <1>3, <1>5, <1>6 DEF chunk

LEMMA ChunkLandsStep ==
  ASSUME IInv, NEW s \in Session, NEW l \in Layer, ChunkLands(s, l)
  PROVE  IInv'
<1>1. TypeOK /\ RunIsRight(s)
  BY DEF IInv
<1>2. /\ TasksAreRight(s, l) /\ WorkIsRight(s, l) /\ batch[s][l].state = "running"
      /\ publish[s][l] \in TaskType({"idle", "running", "resolved", "rejected", "lost"})
      /\ publish' = [publish EXCEPT ![s][l] = publish[s][l]]
      /\ UNCHANGED <<stored, pc, layer, failed, status, nextVersion, deployables, chunks>>
      /\ deployables[s][l] \in Seq(Package)
  BY <1>1 DEF ChunkLands, RunIsRight, TypeOK
<1>3. PICK last \in DOMAIN chunks[s][l] :
        /\ EndsAt(s, l, last) /\ Executable(s, Chunk(s, l, last))
        /\ Execute(s, Chunk(s, l, last)) /\ OnChunk(s, l, Chunk(s, l, last))
        /\ batch' = [batch EXCEPT ![s][l] = Advance(last + 1, deployables[s][l])]
  BY DEF ChunkLands
<1>4. PICK chunk : chunk = Chunk(s, l, last)
  OBVIOUS
<1>5. PICK b : b = Advance(last + 1, deployables[s][l])
  OBVIOUS
<1>6. PICK next : next = batch[s][l].next
  OBVIOUS
<1>7. /\ Planned(s, l) /\ last \in Nat /\ Len(deployables[s][l]) \in Nat
      /\ next \in 1..last /\ last <= Len(deployables[s][l])
      /\ DOMAIN chunk = 1..(last - next + 1)
      /\ \A i \in DOMAIN chunk : chunk[i] = deployables[s][l][next - 1 + i]
      /\ Range(chunk) \subseteq Range(deployables[s][l])
  BY <1>1, <1>2, <1>3, <1>4, <1>6, ChunkFacts
<1>8. /\ b \in TaskType({"idle", "preparing", "running", "resolved", "rejected", "lost"})
      /\ b.next = last + 1 /\ b.state # "idle" /\ Within(b, deployables[s][l])
  <2>1. PICK n, state : /\ n = Len(deployables[s][l])
                        /\ state = IF last + 1 > n THEN "resolved" ELSE "running"
    OBVIOUS
  <2>2. b = [state |-> state, next |-> last + 1]
    BY <1>5, <2>1 DEF Advance
  <2>3. last + 1 \in Nat \ {0} /\ n \in Nat /\ last + 1 <= n + 1
    BY <1>7, <2>1
  <2>4. Within(b, deployables[s][l])
    BY <2>1, <2>2, <2>3 DEF Within
  <2> QED
    BY <2>1, <2>2, <2>3, <2>4 DEF TaskType
<1>9. /\ ChainGrows /\ EntriesAreRight'
      /\ owner' \in [Package -> Account \cup {NoOwner}]
      /\ log' \in [Package -> Seq([address : AddressType, uri : CidType])]
      /\ contracts' \subseteq AddressType /\ stored' \subseteq CidType
      /\ \A p \in Range(chunk) :
           /\ nextVersion[s][p] # Unread /\ Address(s, p) \in contracts'
           /\ owner'[p] = Deployer[s] /\ \E i \in DOMAIN log'[p] : log'[p][i] = Entry(s, p)
  <2>1. Executable(s, chunk) /\ Execute(s, chunk) /\ UNCHANGED <<stored, nextVersion, deployables>>
    BY <1>2, <1>3, <1>4
  <2>2. Planned(s, l) /\ Range(chunk) \subseteq Range(deployables[s][l])
    BY <1>7
  <2> QED
    BY <2>1, <2>2, Executed
<1>10. /\ addresses'[s] = [p \in Package |->
            IF p \in Range(chunk) THEN Address(s, p) ELSE addresses[s][p]]
       /\ addresses' = [addresses EXCEPT ![s] = addresses'[s]]
       /\ \A t \in Session : t # s => addresses'[t] = addresses[t]
  BY <1>1, <1>2, <1>3, <1>4, Reported
<1>11. \A p \in Package : p \in Range(chunk) =>
         Address(s, p) \in AddressType /\ Address(s, p) # NoAddress
  BY <1>1, <1>9, AddressIsAddress
<1>12. addresses' \in [Session -> [Package -> AddressType \cup {NoAddress}]]
  <2>1. addresses \in [Session -> [Package -> AddressType \cup {NoAddress}]]
    BY <1>1 DEF TypeOK
  <2>2. \A p \in Package : addresses'[s][p] \in AddressType \cup {NoAddress}
    BY <1>10, <1>11, <2>1
  <2>4. addresses'[s] \in [Package -> AddressType \cup {NoAddress}]
    BY <1>10, <2>2
  <2> QED
    BY <1>10, <2>1, <2>4
<1>13. ASSUME NEW p \in Package PROVE ReportIsRight(s, p)'
  <2>1. Address(s, p)' = Address(s, p) /\ Entry(s, p)' = Entry(s, p)
    BY <1>2 DEF Address, Entry, Cid
  <2>2. CASE p \in Range(chunk)
    <3>1. /\ nextVersion'[s][p] # Unread /\ addresses'[s][p] = Address(s, p)'
          /\ Address(s, p)' \in contracts' /\ owner'[p] = Deployer[s]
      BY <1>2, <1>9, <1>10, <2>1, <2>2
    <3>2. \E i \in DOMAIN log'[p] : log'[p][i] = Entry(s, p)'
      BY <1>9, <2>1, <2>2
    <3> QED
      BY <3>1, <3>2 DEF ReportIsRight, Published
  <2>3. CASE p \notin Range(chunk)
    <3>1. addresses'[s][p] = addresses[s][p] /\ nextVersion'[s][p] = nextVersion[s][p]
      BY <1>2, <1>10, <2>3
    <3> QED
      BY <1>1, <1>9, <3>1, ReportStays DEF RunIsRight
  <2> QED
    BY <2>2, <2>3
<1>14. \A p \in Package : addresses[s][p] # NoAddress => addresses'[s][p] # NoAddress
  BY <1>10, <1>11
<1>15. ASSUME NEW i \in DOMAIN deployables[s][l], i < b.next
       PROVE  addresses'[s][deployables[s][l][i]] # NoAddress
  <2>1. i \in Nat \ {0} /\ i <= last /\ deployables[s][l][i] \in Package
    BY <1>2, <1>7, <1>8, <1>15
  <2>2. CASE i < next
    BY <1>2, <1>6, <1>14, <2>1, <2>2 DEF WorkIsRight
  <2>3. CASE ~(i < next)
    <3>1. i - next + 1 \in DOMAIN chunk /\ next - 1 + (i - next + 1) = i
      BY <1>7, <2>1, <2>3
    <3>2. deployables[s][l][i] \in Range(chunk)
      BY <1>7, <3>1 DEF Range
    <3> QED
      BY <1>10, <1>11, <2>1, <3>2
  <2> QED
    BY <2>2, <2>3
<1>16. /\ publish[s][l].state # "idle" /\ Within(publish[s][l], deployables[s][l])
       /\ \A i \in DOMAIN deployables[s][l] :
            i < publish[s][l].next => Cid(s, deployables[s][l][i]) \in stored'
  BY <1>2, <1>7 DEF TasksAreRight, WorkIsRight
<1>17. /\ batch' = [batch EXCEPT ![s][l] = b]
       /\ UNCHANGED <<pc, layer, failed, status, nextVersion, deployables, chunks>>
       /\ \A i \in DOMAIN deployables[s][l] :
            /\ i < b.next => addresses'[s][deployables[s][l][i]] # NoAddress
            /\ i < publish[s][l].next => Cid(s, deployables[s][l][i]) \in stored'
       /\ \A t \in Session : t # s => addresses'[t] = addresses[t]
       /\ Planned(s, l)
  BY <1>2, <1>3, <1>5, <1>7, <1>10, <1>15, <1>16
<1>18. /\ publish[s][l] \in TaskType({"idle", "running", "resolved", "rejected", "lost"})
       /\ publish' = [publish EXCEPT ![s][l] = publish[s][l]]
  BY <1>2
<1>19. /\ ChainGrows /\ EntriesAreRight'
       /\ owner' \in [Package -> Account \cup {NoOwner}]
       /\ log' \in [Package -> Seq([address : AddressType, uri : CidType])]
       /\ contracts' \subseteq AddressType /\ stored' \subseteq CidType
  BY <1>9
<1>20. \A p \in Package : ReportIsRight(s, p)'
  BY <1>13
<1> QED
  BY <1>8, <1>12, <1>14, <1>16, <1>17, <1>18, <1>19, <1>20, TaskStep

\* A batch that fails, or that its run gives up on, registers nothing yet.
LEMMA ChunkFailsStep ==
  ASSUME IInv, NEW s \in Session, NEW l \in Layer, ChunkFails(s, l) \/ LateChunkExpires(s, l)
  PROVE  IInv'
<1>1. TypeOK /\ RunIsRight(s)
  BY DEF IInv
<1>2. /\ TasksAreRight(s, l) /\ WorkIsRight(s, l) /\ batch[s][l].state \in {"running", "lost"}
      /\ batch[s][l] \in TaskType({"idle", "preparing", "running", "resolved", "rejected", "lost"})
      /\ publish[s][l] \in TaskType({"idle", "running", "resolved", "rejected", "lost"})
      /\ publish' = [publish EXCEPT ![s][l] = publish[s][l]]
      /\ UNCHANGED <<owner, log, contracts, pc, layer, locals>>
      /\ stored' = stored /\ stored \subseteq CidType
  BY <1>1 DEF ChunkFails, LateChunkExpires, RunIsRight, TypeOK, chain
<1>3. PICK b : /\ b \in {Reject(batch[s][l]), Lose(batch[s][l])}
               /\ batch' = [batch EXCEPT ![s][l] = b]
  BY <1>1 DEF ChunkFails, LateChunkExpires, TypeOK
<1>4. /\ b \in TaskType({"idle", "preparing", "running", "resolved", "rejected", "lost"})
      /\ b.next = batch[s][l].next /\ b.next <= batch[s][l].next /\ b.state # "idle"
      /\ Within(b, deployables[s][l])
  BY <1>2, <1>3 DEF Reject, Lose, TaskType, TasksAreRight, Within
<1>5. /\ Planned(s, l) /\ publish[s][l].state # "idle"
      /\ Within(publish[s][l], deployables[s][l])
      /\ \A i \in DOMAIN deployables[s][l] :
           i < publish[s][l].next => Cid(s, deployables[s][l][i]) \in stored'
  BY <1>2 DEF TasksAreRight, WorkIsRight, Planned
<1>6. stored \subseteq stored' /\ stored' \subseteq CidType
  BY <1>2
<1> QED
  BY <1>2, <1>3, <1>4, <1>5, <1>6, QuietTaskStep

\* A chunk that lands without the run learning of it is registered and not
\* reported.
LEMMA LateChunkLandsStep ==
  ASSUME IInv, NEW s \in Session, NEW l \in Layer, LateChunkLands(s, l)
  PROVE  IInv'
<1>1. TypeOK /\ RunIsRight(s)
  BY DEF IInv
<1>2. /\ TasksAreRight(s, l) /\ WorkIsRight(s, l) /\ batch[s][l].state = "lost"
      /\ batch[s][l] \in TaskType({"idle", "preparing", "running", "resolved", "rejected", "lost"})
      /\ publish[s][l] \in TaskType({"idle", "running", "resolved", "rejected", "lost"})
      /\ publish' = [publish EXCEPT ![s][l] = publish[s][l]]
      /\ UNCHANGED <<stored, pc, layer, locals>>
      /\ deployables[s][l] \in Seq(Package)
  BY <1>1 DEF LateChunkLands, RunIsRight, TypeOK
<1>3. PICK last \in DOMAIN chunks[s][l] :
        /\ EndsAt(s, l, last)
        /\ Executable(s, Chunk(s, l, last)) /\ Execute(s, Chunk(s, l, last))
  BY DEF LateChunkLands
<1>4. PICK b : b = Reject(batch[s][l])
  OBVIOUS
<1>5. batch' = [batch EXCEPT ![s][l] = b]
  BY <1>1, <1>4 DEF LateChunkLands, TypeOK
<1>6. Planned(s, l) /\ Range(Chunk(s, l, last)) \subseteq Range(deployables[s][l])
  BY <1>1, <1>2, <1>3, ChunkFacts
<1>7. /\ b \in TaskType({"idle", "preparing", "running", "resolved", "rejected", "lost"})
      /\ b.next = batch[s][l].next /\ b.state # "idle" /\ Within(b, deployables[s][l])
  BY <1>2, <1>4 DEF Reject, TaskType, TasksAreRight, Within
<1>8. /\ publish[s][l].state # "idle" /\ Within(publish[s][l], deployables[s][l])
      /\ \A i \in DOMAIN deployables[s][l] :
           i < publish[s][l].next => Cid(s, deployables[s][l][i]) \in stored'
  BY <1>2, <1>6 DEF TasksAreRight, WorkIsRight
<1>9. /\ pc' = pc /\ layer' = layer /\ failed' = failed /\ status' = status
      /\ nextVersion' = nextVersion /\ deployables' = deployables /\ chunks' = chunks
      /\ addresses' = addresses
  BY <1>2 DEF locals
<1>10. /\ ChainGrows /\ EntriesAreRight'
       /\ owner' \in [Package -> Account \cup {NoOwner}]
       /\ log' \in [Package -> Seq([address : AddressType, uri : CidType])]
       /\ contracts' \subseteq AddressType /\ stored' \subseteq CidType
  BY <1>2, <1>3, <1>6, <1>9, Executed
<1>11. \A p \in Package : ReportIsRight(s, p)'
  BY <1>1, <1>9, <1>10, ReportStays DEF RunIsRight
<1>12. /\ addresses' \in [Session -> [Package -> AddressType \cup {NoAddress}]]
       /\ \A i \in DOMAIN deployables[s][l] :
            i < b.next => addresses[s][deployables[s][l][i]] # NoAddress
  BY <1>1, <1>2, <1>7, <1>9 DEF TypeOK, WorkIsRight
<1> QED
  BY <1>2, <1>5, <1>6, <1>7, <1>8, <1>9, <1>10, <1>11, <1>12, TaskStep
-----------------------------------------------------------------------------
(* The plan and the end of a layer. *)

LEMMA PlanStep ==
  ASSUME IInv, NEW s \in Session, Plan(s)
  PROVE  IInv'
<1>0. TypeOK /\ RunIsRight(s)
  BY DEF IInv
<1>1. PICK k : k = layer[s]
  OBVIOUS
<1>2. PICK first \in [DOMAIN deployables[s][k] -> DOMAIN deployables[s][k]] :
        chunks' = [chunks EXCEPT ![s][k] = first]
  BY <1>1 DEF Plan
<1>3. /\ pc[s] = "versions" /\ layer[s] = k /\ k \in DOMAIN Layers[s] /\ k \in Layer
      /\ deployables[s][k] # <<>>
      /\ \A p \in Range(deployables[s][k]) : nextVersion[s][p] # Unread
      /\ \A p \in Range(Layers[s][k]) : p \in Range(deployables[s][k]) \/ p \in failed[s]
      /\ pc' = [pc EXCEPT ![s] = "submit"]
      /\ batch' = [batch EXCEPT ![s][k] = Task("preparing")]
      /\ publish' = [publish EXCEPT ![s][k] = Task("running")]
      /\ owner' = owner /\ log' = log /\ contracts' = contracts /\ stored' = stored
      /\ layer' = layer /\ failed' = failed /\ status' = status /\ nextVersion' = nextVersion
      /\ deployables' = deployables /\ addresses' = addresses
  BY <1>0, <1>1, LayerFacts DEF Plan, AllRead, Here, RunIsRight, LoopIsRight, chain
<1>4. /\ deployables[s][k] \in Seq(Package) /\ Len(deployables[s][k]) \in Nat \ {0}
      /\ DOMAIN deployables[s][k] = 1..Len(deployables[s][k])
  <2>1. deployables[s][k] \in Seq(Package)
    BY <1>0, <1>3, RunTypes
  <2> QED
    BY <1>3, <2>1
<1>5. first \in Seq(Nat) /\ Len(first) = Len(deployables[s][k])
  BY <1>4
<1>6. /\ Task("preparing") \in TaskType({"idle", "preparing", "running", "resolved", "rejected", "lost"})
      /\ Task("running") \in TaskType({"idle", "running", "resolved", "rejected", "lost"})
      /\ Within(Task("preparing"), deployables[s][k]) /\ Within(Task("running"), deployables[s][k])
      /\ Task("preparing").state = "preparing" /\ Task("running").state = "running"
      /\ Task("preparing").next = 1 /\ Task("running").next = 1
  BY <1>4 DEF Task, TaskType, Within
<1>7. /\ chunks'[s][k] = first /\ chunks' \in [Session -> [Layer -> Seq(Nat)]]
      /\ \A j \in Layer : j # k => chunks'[s][j] = chunks[s][j]
      /\ \A t \in Session : t # s => chunks'[t] = chunks[t]
  BY <1>0, <1>2, <1>3, <1>5 DEF TypeOK
<1>8. /\ batch'[s][k] = Task("preparing")
      /\ batch' \in [Session -> [Layer ->
           TaskType({"idle", "preparing", "running", "resolved", "rejected", "lost"})]]
      /\ \A j \in Layer : j # k => batch'[s][j] = batch[s][j]
      /\ \A t \in Session : t # s => batch'[t] = batch[t]
  BY <1>0, <1>3, <1>6 DEF TypeOK
<1>9. /\ publish'[s][k] = Task("running")
      /\ publish' \in [Session -> [Layer -> TaskType({"idle", "running", "resolved", "rejected", "lost"})]]
      /\ \A j \in Layer : j # k => publish'[s][j] = publish[s][j]
      /\ \A t \in Session : t # s => publish'[t] = publish[t]
  BY <1>0, <1>3, <1>6 DEF TypeOK
<1>10. /\ pc'[s] = "submit" /\ \A t \in Session : t # s => pc'[t] = pc[t]
       /\ pc' \in [Session -> {"waiting", "build", "versions", "submit", "finished", "exited"}]
  BY <1>0, <1>3 DEF TypeOK
<1>11. TypeOK' /\ Moves(s)
  <2>1. TypeOK'
    BY <1>0, <1>3, <1>7, <1>8, <1>9, <1>10 DEF TypeOK
  <2>2. Moves(s)
    BY <1>3, <1>7, <1>8, <1>9, <1>10 DEF Moves, LocalsOf
  <2> QED
    BY <2>1, <2>2
<1>12. ASSUME NEW l \in Layer
       PROVE  LayerIsRight(s, l)' /\ TasksAreRight(s, l)' /\ WorkIsRight(s, l)'
  <2>1. LayerIsRight(s, l) /\ TasksAreRight(s, l) /\ WorkIsRight(s, l)
    BY <1>0 DEF RunIsRight
  <2>2. LayerIsRight(s, l)'
    BY <1>3, <1>10, <2>1 DEF LayerIsRight, Ahead
  <2>3. CASE l = k
    <3>1. TasksAreRight(s, l)'
      <4>1. ~Ahead(s, k)' /\ ~(k = layer'[s] /\ pc'[s] = "versions")
        <5>1. k \in Nat
          BY <1>3, LayerFacts
        <5> QED
          BY <1>3, <1>10, <5>1 DEF Ahead
      <4>2. Planned(s, k)' /\ publish'[s][k].state # "idle"
        BY <1>6, <1>8, <1>9 DEF Planned
      <4>3. Len(chunks'[s][k]) = Len(deployables'[s][k])
        BY <1>3, <1>5, <1>7
      <4> QED
        BY <1>3, <1>6, <1>8, <1>9, <2>3, <4>1, <4>2, <4>3 DEF TasksAreRight
    <3>2. WorkIsRight(s, l)'
      <4>1. \A i \in DOMAIN deployables[s][k] : ~(i < 1)
        BY <1>4
      <4> QED
        BY <1>3, <1>6, <1>8, <1>9, <2>3, <4>1 DEF WorkIsRight
    <3> QED
      BY <2>2, <3>1, <3>2
  <2>4. CASE l # k
    <3>1. TasksAreRight(s, l)'
      BY <1>3, <1>7, <1>8, <1>9, <1>10, <2>1, <2>4 DEF TasksAreRight, Planned, Ahead
    <3>2. WorkIsRight(s, l)'
      BY <1>3, <1>8, <1>9, <2>1, <2>4 DEF WorkIsRight
    <3> QED
      BY <2>2, <3>1, <3>2
  <2> QED
    BY <2>3, <2>4
<1>13. LoopIsRight(s)'
  BY <1>3, <1>6, <1>8, <1>10 DEF LoopIsRight, Here, Planned
<1>14. VerdictsAreRight(s)'
  BY <1>0, <1>3 DEF RunIsRight, VerdictsAreRight
<1>15. \A p \in Package : ReportIsRight(s, p)'
  BY <1>0, <1>3 DEF RunIsRight, ReportIsRight, Address, Entry, Published
<1>16. RunIsRight(s)'
  BY <1>12, <1>13, <1>14, <1>15 DEF RunIsRight
<1> QED
  BY <1>3, <1>11, <1>16, LocalStep

\* The layer is over: its packages get their verdicts, and the loop moves on.
LEMMA LayerEnds ==
  ASSUME IInv, NEW s \in Session, pc[s] \in {"versions", "submit"},
         layer' = [layer EXCEPT ![s] = @ + 1], pc' = [pc EXCEPT ![s] = "build"],
         UNCHANGED <<chain, nextVersion, deployables, chunks, addresses, batch, publish>>,
         failed' \in [Session -> SUBSET Package],
         status' \in [Session -> [Package -> {"pending", "done", "error"}]],
         \A t \in Session : t # s => failed'[t] = failed[t] /\ status'[t] = status[t],
         failed[s] \subseteq failed'[s],
         \A p \in Package : p \notin Here(s) => status'[s][p] = status[s][p],
         \/ Here(s) \subseteq failed'[s] /\ \A p \in Here(s) : status'[s][p] = "error"
         \/ /\ \A p \in Here(s) : addresses[s][p] # NoAddress /\ Cid(s, p) \in stored
            /\ \A p \in Here(s) : status'[s][p] = "done"
  PROVE  IInv'
<1>0. TypeOK /\ RunIsRight(s)
  BY DEF IInv
<1>1. PICK k : k = layer[s]
  OBVIOUS
<1>2. PICK items : items = deployables[s][k]
  OBVIOUS
<1>3. /\ k \in DOMAIN Layers[s] /\ k \in Layer /\ k \in Nat /\ k <= Len(Layers[s])
      /\ Len(Layers[s]) \in Nat /\ DOMAIN Layers[s] = 1..Len(Layers[s])
      /\ Here(s) = Range(items) /\ Range(items) \subseteq Range(Layers[s][k])
      /\ Range(items) \subseteq Package
      /\ \A p \in Range(Layers[s][k]) : p \in Range(items) \/ p \in failed[s]
  <2>1. /\ k \in DOMAIN Layers[s] /\ Here(s) = Range(items)
        /\ \A p \in Range(Layers[s][k]) : p \in Range(items) \/ p \in failed[s]
    BY <1>0, <1>1, <1>2 DEF RunIsRight, LoopIsRight, Here
  <2>2. /\ k \in Layer /\ k \in Nat /\ k <= Len(Layers[s])
        /\ Len(Layers[s]) \in Nat /\ DOMAIN Layers[s] = 1..Len(Layers[s])
        /\ Range(Layers[s][k]) \subseteq Package
    BY <2>1, LayerFacts
  <2>3. Range(items) \subseteq Range(Layers[s][k])
    BY <1>0, <1>2, <2>1, <2>2 DEF RunIsRight, LayerIsRight
  <2> QED
    BY <2>1, <2>2, <2>3
<1>4. /\ owner' = owner /\ log' = log /\ contracts' = contracts /\ stored' = stored
      /\ nextVersion' = nextVersion /\ deployables' = deployables /\ chunks' = chunks
      /\ addresses' = addresses /\ batch' = batch /\ publish' = publish
  BY DEF chain
<1>5. /\ pc'[s] = "build" /\ layer'[s] = k + 1 /\ layer[s] = k
      /\ \A t \in Session : t # s => pc'[t] = pc[t] /\ layer'[t] = layer[t]
      /\ pc' \in [Session -> {"waiting", "build", "versions", "submit", "finished", "exited"}]
      /\ layer' \in [Session -> Nat \ {0}]
  BY <1>0, <1>1, <1>3 DEF TypeOK
<1>6. TypeOK' /\ Moves(s)
  <2>1. \A t \in Session : layer'[t] <= Len(Layers[t]) + 1
    <3>1. layer'[s] <= Len(Layers[s]) + 1
      BY <1>3, <1>5
    <3> QED
      BY <1>0, <1>5, <3>1 DEF TypeOK
  <2>2. TypeOK'
    BY <1>0, <1>4, <1>5, <2>1 DEF TypeOK
  <2>3. Moves(s)
    BY <1>4, <1>5 DEF Moves, LocalsOf
  <2> QED
    BY <2>2, <2>3
<1>7. /\ \A p \in Range(items) : p \in failed'[s] \/ status'[s][p] = "done"
      /\ \A p \in Range(items) : status'[s][p] = "done" =>
           addresses[s][p] # NoAddress /\ Cid(s, p) \in stored
      /\ \A p \in Package : p \notin Range(items) => status'[s][p] = status[s][p]
  BY <1>3
<1>8. ASSUME NEW l \in Layer
      PROVE  LayerIsRight(s, l)' /\ TasksAreRight(s, l)' /\ WorkIsRight(s, l)'
  <2>1. LayerIsRight(s, l) /\ TasksAreRight(s, l) /\ WorkIsRight(s, l) /\ l \in Nat
    BY <1>0, LayerFacts DEF RunIsRight
  <2>2. LayerIsRight(s, l)'
    BY <1>3, <1>4, <1>5, <2>1 DEF LayerIsRight, Ahead
  <2>3. TasksAreRight(s, l)'
    BY <1>3, <1>4, <1>5, <2>1 DEF TasksAreRight, Planned, Ahead
  <2>4. WorkIsRight(s, l)'
    BY <1>4, <2>1 DEF WorkIsRight
  <2> QED
    BY <2>2, <2>3, <2>4
<1>9. LoopIsRight(s)'
  BY <1>5 DEF LoopIsRight
<1>10. VerdictsAreRight(s)'
  <2>1. VerdictsAreRight(s) /\ \A l \in Layer : LayerIsRight(s, l)
    BY <1>0 DEF RunIsRight
  <2>2. ASSUME NEW l \in DOMAIN Layers[s], l < layer'[s], NEW p \in Range(Layers[s][l])
        PROVE  p \in failed'[s] \/ status'[s][p] = "done"
    <3>1. p \in Package /\ l \in Nat
      BY LayerFacts
    <3>2. CASE p \in Range(items)
      BY <1>7, <3>2
    <3>3. CASE p \notin Range(items) /\ l = k
      BY <1>3, <3>3
    <3>4. CASE p \notin Range(items) /\ l # k
      <4>1. l < layer[s]
        BY <1>3, <1>5, <2>2, <3>1, <3>4
      <4> QED
        BY <1>7, <2>1, <3>1, <3>4, <4>1 DEF VerdictsAreRight
    <3> QED
      BY <3>2, <3>3, <3>4
  <2>3. ASSUME NEW p \in Package, status'[s][p] = "done"
        PROVE  addresses'[s][p] # NoAddress /\ Cid(s, p) \in stored'
    BY <1>4, <1>7, <2>1, <2>3 DEF VerdictsAreRight
  <2>4. ASSUME NEW l \in Layer, NEW p \in Range(deployables'[s][l]),
               NEW d \in DependsOn[p] \cap Selected(s)
        PROVE  status'[s][d] = "done"
    <3>1. p \in Range(deployables[s][l]) /\ deployables[s][l] # <<>> /\ status[s][d] = "done"
      BY <1>4, <2>1, <2>4 DEF VerdictsAreRight, Range
    <3>2. l \in DOMAIN Layers[s] /\ ~Ahead(s, l) /\ p \in Range(Layers[s][l])
      BY <2>1, <3>1 DEF LayerIsRight
    <3>3. l <= k
      BY <1>3, <1>5, <3>2, LayerFacts DEF Ahead
    <3>4. d \notin Range(Layers[s][k])
      BY <1>3, <3>2, <3>3, DependencyElsewhere
    <3>5. PICK j \in DOMAIN Layers[s] : d \in Range(Layers[s][j])
      BY DEF Selected
    <3>6. d \in Package
      BY <3>5, LayerFacts
    <3> QED
      BY <1>3, <1>7, <3>1, <3>4, <3>6
  <2> QED
    BY <2>2, <2>3, <2>4 DEF VerdictsAreRight, Cid
<1>11. \A p \in Package : ReportIsRight(s, p)'
  BY <1>0, <1>4 DEF RunIsRight, ReportIsRight, Address, Entry, Published
<1>12. RunIsRight(s)'
  BY <1>8, <1>9, <1>10, <1>11 DEF RunIsRight
<1> QED
  BY <1>4, <1>6, <1>12, LocalStep

LEMMA LayerDoneStep ==
  ASSUME IInv, NEW s \in Session, LayerDone(s)
  PROVE  IInv'
<1>0. TypeOK /\ RunIsRight(s)
  BY DEF IInv
<1>1. PICK k : k = layer[s]
  OBVIOUS
<1>2. /\ pc[s] = "submit" /\ batch[s][k].state = "resolved" /\ publish[s][k].state = "resolved"
      /\ layer' = [layer EXCEPT ![s] = @ + 1] /\ pc' = [pc EXCEPT ![s] = "build"]
      /\ UNCHANGED <<chain, nextVersion, deployables, chunks, addresses, batch, publish>>
      /\ failed' = failed
      /\ status' = [status EXCEPT ![s] =
           [p \in Package |-> IF p \in Here(s) THEN "done" ELSE @[p]]]
  BY <1>1 DEF LayerDone, Resolved, Outcomes
<1>3. /\ k \in Layer /\ Here(s) = Range(deployables[s][k])
      /\ deployables[s][k] \in Seq(Package) /\ TasksAreRight(s, k) /\ WorkIsRight(s, k)
  <2>1. k \in Layer
    BY <1>0, <1>1, <1>2, LayerFacts DEF RunIsRight, LoopIsRight
  <2> QED
    BY <1>0, <1>1, <2>1, RunTypes DEF Here, RunIsRight
<1>4. ASSUME NEW p \in Here(s) PROVE addresses[s][p] # NoAddress /\ Cid(s, p) \in stored
  <2>1. PICK i \in DOMAIN deployables[s][k] : deployables[s][k][i] = p
    BY <1>3 DEF Range
  <2>2. i < Len(deployables[s][k]) + 1
    BY <1>3
  <2>3. i < batch[s][k].next /\ i < publish[s][k].next
    BY <1>2, <1>3, <2>2 DEF TasksAreRight, Within
  <2> QED
    BY <1>3, <2>1, <2>3 DEF WorkIsRight
<1>5. /\ \A p \in Package : status'[s][p] = IF p \in Here(s) THEN "done" ELSE status[s][p]
      /\ \A t \in Session : t # s => status'[t] = status[t]
      /\ status' \in [Session -> [Package -> {"pending", "done", "error"}]]
  BY <1>0, <1>2 DEF TypeOK
<1>6. Here(s) \subseteq Package
  BY <1>3 DEF Range
<1>7. failed' \in [Session -> SUBSET Package]
  BY <1>0, <1>2 DEF TypeOK
<1> QED
  BY <1>2, <1>4, <1>5, <1>6, <1>7, LayerEnds

LEMMA LayerFailsStep ==
  ASSUME IInv, NEW s \in Session, LayerFails(s)
  PROVE  IInv'
<1>0. TypeOK /\ RunIsRight(s)
  BY DEF IInv
<1>1. /\ pc[s] \in {"versions", "submit"} /\ GiveUp(s, Here(s))
      /\ layer' = [layer EXCEPT ![s] = @ + 1] /\ pc' = [pc EXCEPT ![s] = "build"]
      /\ UNCHANGED <<chain, nextVersion, deployables, chunks, addresses, batch, publish>>
  BY DEF LayerFails
<1>2. Here(s) \subseteq Package
  <2>1. layer[s] \in Layer
    BY <1>0, <1>1, LayerFacts DEF RunIsRight, LoopIsRight
  <2>2. deployables[s][layer[s]] \in Seq(Package)
    BY <1>0, <2>1, RunTypes
  <2> QED
    BY <2>2 DEF Here, Range
<1> DEFINE here == Here(s)
<1>3. /\ failed' = [failed EXCEPT ![s] = @ \cup here]
      /\ status' = [status EXCEPT ![s] = [p \in Package |-> IF p \in here THEN "error" ELSE @[p]]]
  BY <1>1 DEF GiveUp
<1> HIDE DEF here
<1>4. /\ failed'[s] = failed[s] \cup here
      /\ \A p \in Package : status'[s][p] = IF p \in here THEN "error" ELSE status[s][p]
      /\ \A t \in Session : t # s => failed'[t] = failed[t] /\ status'[t] = status[t]
      /\ status' \in [Session -> [Package -> {"pending", "done", "error"}]]
  BY <1>0, <1>3 DEF TypeOK
<1>5. failed' \in [Session -> SUBSET Package]
  BY <1>0, <1>2, <1>3 DEF TypeOK, here
<1> QED
  BY <1>1, <1>2, <1>4, <1>5, LayerEnds DEF here
-----------------------------------------------------------------------------
LEMMA InitIsRight == Init => IInv
<1> SUFFICES ASSUME Init PROVE IInv
  OBVIOUS
<1>1. /\ owner = [p \in Package |-> NoOwner] /\ log = [p \in Package |-> <<>>]
      /\ contracts = {} /\ stored = {}
      /\ pc = [s \in Session |-> IF s \in Session THEN "waiting" ELSE "exited"]
      /\ layer = [s \in Session |-> 1] /\ failed = [s \in Session |-> {}]
      /\ status = [s \in Session |-> [p \in Package |-> "pending"]]
      /\ nextVersion = [s \in Session |-> [p \in Package |-> Unread]]
      /\ deployables = [s \in Session |-> [l \in Layer |-> <<>>]]
      /\ chunks = [s \in Session |-> [l \in Layer |-> <<>>]]
      /\ batch = [s \in Session |-> [l \in Layer |-> Task("idle")]]
      /\ publish = [s \in Session |-> [l \in Layer |-> Task("idle")]]
      /\ addresses = [s \in Session |-> [p \in Package |-> NoAddress]]
  BY DEF Init, InitFor
<1>2. /\ Task("idle") \in TaskType({"idle", "preparing", "running", "resolved", "rejected", "lost"})
      /\ Task("idle") \in TaskType({"idle", "running", "resolved", "rejected", "lost"})
      /\ Task("idle").state = "idle" /\ Task("idle").next = 1 /\ Within(Task("idle"), <<>>)
  BY DEF Task, TaskType, Within
<1>3. TypeOK
  <2>1. \A s \in Session : layer[s] <= Len(Layers[s]) + 1
    BY <1>1, LayerFacts
  <2> QED
    BY <1>1, <1>2, <2>1 DEF TypeOK
<1>4. EntriesAreRight
  BY <1>1 DEF EntriesAreRight
<1>5. ASSUME NEW s \in Session PROVE RunIsRight(s)
  <2>1. \A l \in Layer : LayerIsRight(s, l) /\ TasksAreRight(s, l) /\ WorkIsRight(s, l)
    BY <1>1, <1>2 DEF LayerIsRight, TasksAreRight, WorkIsRight, Planned, Range
  <2>2. LoopIsRight(s)
    BY <1>1 DEF LoopIsRight
  <2>3. VerdictsAreRight(s)
    <3>1. \A l \in DOMAIN Layers[s] : ~(l < layer[s])
      BY <1>1, LayerFacts
    <3>2. \A l \in Layer : Range(deployables[s][l]) = {}
      BY <1>1 DEF Range
    <3> QED
      BY <1>1, <3>1, <3>2 DEF VerdictsAreRight
  <2>4. \A p \in Package : ReportIsRight(s, p)
    BY <1>1 DEF ReportIsRight
  <2> QED
    BY <2>1, <2>2, <2>3, <2>4 DEF RunIsRight
<1> QED
  BY <1>3, <1>4, <1>5 DEF IInv

LEMMA Inductive == IInv /\ [Next]_vars => IInv'
<1> SUFFICES ASSUME IInv, [Next]_vars PROVE IInv'
  OBVIOUS
<1>1. CASE UNCHANGED vars
  <2>1. /\ owner' = owner /\ log' = log /\ contracts' = contracts /\ stored' = stored
        /\ pc' = pc /\ layer' = layer /\ failed' = failed /\ status' = status
        /\ nextVersion' = nextVersion /\ deployables' = deployables /\ chunks' = chunks
        /\ batch' = batch /\ publish' = publish /\ addresses' = addresses
    BY <1>1 DEF vars
  <2>2. TypeOK' /\ ChainGrows
    BY <2>1 DEF IInv, TypeOK, ChainGrows
  <2>3. \A s \in Session : RunIsRight(s)'
    BY <2>1, <2>2, RunStays DEF IInv, LocalsOf
  <2>4. EntriesAreRight'
    BY <2>1 DEF IInv, EntriesAreRight
  <2> QED
    BY <2>2, <2>3, <2>4 DEF IInv
<1>2. ASSUME NEW s \in Session, SessionStep(s) \/ Crash(s) \/ \E l \in Layer : LateStep(s, l)
      PROVE  IInv'
  <2>1. CASE Start(s) \/ Finish(s)
    BY <2>1, LoopMoves DEF Start, Finish
  <2>2. CASE Exit(s) \/ Crash(s)
    BY <2>2, ProcessEnds DEF Exit, Crash
  <2>3. CASE Build(s)
    BY <2>3, BuildStep
  <2>4. CASE \E p \in Package : ReadVersionCount(s, p)
    BY <2>4, ReadVersionCountStep
  <2>5. CASE Plan(s)
    BY <2>5, PlanStep
  <2>6. CASE LayerDone(s)
    BY <2>6, LayerDoneStep
  <2>7. CASE LayerFails(s)
    BY <2>7, LayerFailsStep
  <2>8. ASSUME NEW l \in Layer, BatchStep(s, l) PROVE IInv'
    BY <2>8, PrepareStep, ChunkLandsStep, ChunkFailsStep DEF BatchStep
  <2>9. ASSUME NEW l \in Layer, PublishStep(s, l) PROVE IInv'
    BY <2>9, StoreStep DEF PublishStep
  <2>10. ASSUME NEW l \in Layer, LateStep(s, l) PROVE IInv'
    BY <2>10, LateChunkLandsStep, ChunkFailsStep, StoreStep DEF LateStep
  <2> QED
    BY <1>2, <2>1, <2>2, <2>3, <2>4, <2>5, <2>6, <2>7, <2>8, <2>9, <2>10 DEF SessionStep, LoopStep
<1> QED
  BY <1>1, <1>2 DEF Next

LEMMA Invariant == Spec => []IInv
BY InitIsRight, Inductive, PTL DEF Spec
-----------------------------------------------------------------------------
(* Theorems. *)

\* The type invariant of every state of the pipeline's runs.
THEOREM TypeCorrect == Spec => []TypeOK
<1>1. IInv => TypeOK
  BY DEF IInv
<1> QED
  BY <1>1, Invariant, PTL

\* The address that onChunk reports for a package is the one the registry
\* holds for this run's metadata.
THEOREM ReportsAreTrue == Spec => []ReportedIsRegistered
<1>1. IInv => ReportedIsRegistered
  <2> SUFFICES ASSUME IInv, NEW s \in Session, NEW p \in Package, addresses[s][p] # NoAddress
               PROVE  Published(p, [address |-> addresses[s][p], uri |-> Cid(s, p)])
    BY DEF ReportedIsRegistered
  <2>1. addresses[s][p] = Address(s, p) /\ Published(p, Entry(s, p))
    BY DEF IInv, RunIsRight, ReportIsRight
  <2> QED
    BY <2>1 DEF Entry
<1> QED
  BY <1>1, Invariant, PTL

\* Whatever the summary calls "done" is deployed, registered for the run's
\* account with the CID of its metadata, and its metadata is stored.
THEOREM DoneIsInstallable == Spec => []DoneMeansInstallable
<1>1. IInv => DoneMeansInstallable
  <2> SUFFICES ASSUME IInv, NEW s \in Session, NEW p \in Package, status[s][p] = "done"
               PROVE  /\ Published(p, [address |-> addresses[s][p], uri |-> Cid(s, p)])
                      /\ addresses[s][p] \in contracts
                      /\ owner[p] = Deployer[s] /\ Cid(s, p) \in stored
    BY DEF DoneMeansInstallable
  <2>1. addresses[s][p] # NoAddress /\ Cid(s, p) \in stored
    BY DEF IInv, RunIsRight, VerdictsAreRight
  <2>2. /\ addresses[s][p] = Address(s, p) /\ Address(s, p) \in contracts
        /\ Published(p, Entry(s, p)) /\ owner[p] = Deployer[s]
    BY <2>1 DEF IInv, RunIsRight, ReportIsRight
  <2> QED
    BY <2>1, <2>2 DEF Entry
<1> QED
  BY <1>1, Invariant, PTL

\* A run publishes nothing over a dependency that it has not itself deployed,
\* registered and stored before.
THEOREM DependenciesAreFirst == Spec => []DependenciesFirst
<1>1. IInv => DependenciesFirst
  <2> SUFFICES ASSUME IInv, NEW s \in Session, NEW p \in Package,
                      NEW i \in DOMAIN log[p], log[p][i].uri = Cid(s, p),
                      NEW d \in DependsOn[p] \cap Selected(s)
               PROVE  status[s][d] = "done"
    BY DEF DependenciesFirst
  <2>1. PICK l \in Layer : p \in Range(deployables[s][l])
    BY DEF IInv, EntriesAreRight
  <2> QED
    BY <2>1 DEF IInv, RunIsRight, VerdictsAreRight
<1> QED
  BY <1>1, Invariant, PTL

-----------------------------------------------------------------------------
(* Runs come to an end: no run that waits is stuck, and every step is a step  *)
(* forward.                                                                   *)

\* Every item of a plan begins a chunk or continues the one of the item before
\* it, and a batch that is being submitted is at the first item of a chunk.
Division(first) ==
  \A i \in DOMAIN first : first[i] = i \/ (i > 1 /\ first[i] = first[i - 1])
ChunksAreRight(s, l) ==
  /\ Planned(s, l) => Division(chunks[s][l])
  /\ batch[s][l].state = "running" => chunks[s][l][batch[s][l].next] = batch[s][l].next
SInv == IInv /\ \A s \in Session : \A l \in Layer : ChunksAreRight(s, l)

\* A chunk that begins has an end: else each of its items would have the next
\* one in it too, all of them in less room than they take.
LEMMA NextChunk ==
  ASSUME NEW s \in Session, NEW k \in Layer, NEW n \in Nat, DOMAIN chunks[s][k] = 1..n,
         NEW next \in 1..n, next = batch[s][k].next, chunks[s][k][next] = next
  PROVE  \E last \in DOMAIN chunks[s][k] : EndsAt(s, k, last)
<1>0. PICK first : first = chunks[s][k] /\ DOMAIN first = 1..n /\ first[next] = next
  OBVIOUS
<1> DEFINE members == {i \in 1..n : i >= next /\ first[i] = next}
           others  == members \ {next}
<1>1. SUFFICES ASSUME \A i \in members : i + 1 \in 1..n /\ first[i + 1] = next PROVE FALSE
  <2>1. ASSUME NEW last \in members, ~(last + 1 \in 1..n /\ first[last + 1] = next)
        PROVE  last \in DOMAIN chunks[s][k] /\ EndsAt(s, k, last)
    BY <1>0, <2>1 DEF EndsAt
  <2> QED
    BY <2>1
<1>2. next \in members /\ members \in SUBSET (1..n)
  BY <1>0
<1>3. IsFiniteSet(members)
  <2> HIDE DEF members
  <2>1. IsFiniteSet(1..n)
    BY FS_Interval
  <2> QED
    BY <1>2, <2>1, FS_Subset
<1>4. PICK T : T = others
  OBVIOUS
<1>5. IsFiniteSet(T) /\ Cardinality(T) = Cardinality(members) - 1
  <2> HIDE DEF members
  <2> QED
    BY <1>2, <1>3, <1>4, FS_RemoveElement, Z3
<1>6. Cardinality(members) \in Nat
  <2> HIDE DEF members
  <2> QED
    BY <1>3, FS_CardinalityType
<1>7. PICK f : f = [i \in members |-> i + 1]
  OBVIOUS
<1>8. f \in [members -> T]
  <2>1. ASSUME NEW i \in members PROVE i + 1 \in T
    BY <1>1, <1>4, <2>1
  <2> QED
    BY <1>7, <2>1
<1>9. \E i, j \in members : i # j /\ f[i] = f[j]
  <2> HIDE DEF members
  <2>1. Cardinality(T) < Cardinality(members)
    BY <1>5, <1>6
  <2> QED
    BY <1>3, <1>5, <1>8, <2>1, FS_PigeonHole
<1> QED
  BY <1>7, <1>9

\* The chunks of a layer and the place of its batch in them.
LEMMA ChunksStay ==
  ASSUME NEW s \in Session, NEW l \in Layer, ChunksAreRight(s, l),
         chunks'[s][l] = chunks[s][l], batch'[s][l] = batch[s][l]
  PROVE  ChunksAreRight(s, l)'
BY DEF ChunksAreRight, Planned

\* What ends with its process is not being submitted any more.
LEMMA EndKeepsChunks ==
  ASSUME SInv, NEW s \in Session, End(s)
  PROVE  \A t \in Session : \A k \in Layer : ChunksAreRight(t, k)'
<1>1. TypeOK /\ chunks' = chunks
  BY DEF SInv, IInv, End, locals
<1>2. ASSUME NEW t \in Session, NEW k \in Layer PROVE ChunksAreRight(t, k)'
  <2>1. ChunksAreRight(t, k)
    BY DEF SInv
  <2>2. CASE t # s
    BY <1>1, <2>1, <2>2, CutOffFacts, ChunksStay
  <2>3. CASE t = s
    <3>1. batch'[s][k].state = IF batch[s][k].state = "running" THEN "lost" ELSE batch[s][k].state
      BY <1>1, CutOffFacts
    <3> QED
      BY <1>1, <2>1, <2>3, <3>1 DEF ChunksAreRight, Planned
  <2> QED
    BY <2>2, <2>3
<1> QED
  BY <1>2

\* A step of the batch of one layer leaves the other layers alone.
LEMMA BatchMoves ==
  ASSUME SInv, NEW s \in Session, NEW l \in Layer, NEW b, chunks' = chunks,
         batch' = [batch EXCEPT ![s][l] = b], Planned(s, l),
         b.state = "running" => chunks[s][l][b.next] = b.next
  PROVE  \A t \in Session : \A k \in Layer : ChunksAreRight(t, k)'
<1>1. batch'[s][l] = b /\ \A t \in Session : \A k \in Layer :
        t # s \/ k # l => batch'[t][k] = batch[t][k]
  BY DEF SInv, IInv, TypeOK
<1>2. ASSUME NEW t \in Session, NEW k \in Layer PROVE ChunksAreRight(t, k)'
  <2>1. ChunksAreRight(t, k) /\ ChunksAreRight(s, l)
    BY DEF SInv
  <2>2. CASE t # s \/ k # l
    BY <1>1, <2>1, <2>2, ChunksStay
  <2>3. CASE t = s /\ k = l
    <3>1. Division(chunks[s][l])
      BY <2>1 DEF ChunksAreRight
    <3> QED
      BY <1>1, <2>3, <3>1 DEF ChunksAreRight
  <2> QED
    BY <2>2, <2>3
<1> QED
  BY <1>2

LEMMA PlanDivides ==
  ASSUME SInv, NEW s \in Session, Plan(s)
  PROVE  \A t \in Session : \A k \in Layer : ChunksAreRight(t, k)'
<1>0. TypeOK /\ RunIsRight(s)
  BY DEF SInv, IInv
<1>1. PICK k : k = layer[s]
  OBVIOUS
<1>2. PICK weights \in [DOMAIN deployables[s][k] -> Weight],
           first \in [DOMAIN deployables[s][k] -> DOMAIN deployables[s][k]] :
        ChunkByWeight(weights, first) /\ chunks' = [chunks EXCEPT ![s][k] = first]
  BY <1>1 DEF Plan
<1>3. k \in Layer /\ batch' = [batch EXCEPT ![s][k] = Task("preparing")]
  BY <1>0, <1>1, LayerFacts DEF Plan, RunIsRight, LoopIsRight
<1>4. Division(first)
  BY <1>2 DEF ChunkByWeight, Division
<1>5. /\ chunks'[s][k] = first /\ batch'[s][k] = Task("preparing")
      /\ \A t \in Session : \A l \in Layer : t # s \/ l # k =>
           chunks'[t][l] = chunks[t][l] /\ batch'[t][l] = batch[t][l]
  BY <1>0, <1>2, <1>3 DEF TypeOK
<1>6. ASSUME NEW t \in Session, NEW l \in Layer PROVE ChunksAreRight(t, l)'
  <2>1. CASE t # s \/ l # k
    BY <1>5, <2>1, ChunksStay DEF SInv
  <2>2. CASE t = s /\ l = k
    BY <1>4, <1>5, <2>2 DEF ChunksAreRight, Task
  <2> QED
    BY <2>1, <2>2
<1> QED
  BY <1>6

LEMMA BatchStaysInPlace ==
  ASSUME SInv, NEW s \in Session, NEW l \in Layer,
         BatchStep(s, l) \/ LateChunkLands(s, l) \/ LateChunkExpires(s, l)
  PROVE  \A t \in Session : \A k \in Layer : ChunksAreRight(t, k)'
<1>0. TypeOK /\ TasksAreRight(s, l) /\ ChunksAreRight(s, l)
  BY DEF SInv, IInv, RunIsRight
<1>1. chunks' = chunks /\ Planned(s, l) /\ Division(chunks[s][l])
  BY <1>0 DEF BatchStep, Prepare, PrepareFails, ChunkLands, ChunkFails, LateChunkLands,
       LateChunkExpires, locals, Planned, ChunksAreRight
<1>2. PICK n \in Nat \ {0} : DOMAIN chunks[s][l] = 1..n /\ n = Len(deployables[s][l])
  <2>1. deployables[s][l] \in Seq(Package) /\ chunks[s][l] \in Seq(Nat)
    BY <1>0, RunTypes
  <2>2. deployables[s][l] # <<>> /\ Len(chunks[s][l]) = Len(deployables[s][l])
    BY <1>0, <1>1 DEF TasksAreRight
  <2>3. Len(deployables[s][l]) \in Nat \ {0} /\ DOMAIN chunks[s][l] = 1..Len(chunks[s][l])
    BY <2>1, <2>2
  <2> QED
    BY <2>2, <2>3
<1>3. CASE Prepare(s, l)
  <2>1. batch' = [batch EXCEPT ![s][l] = Task("running")]
    BY <1>3 DEF Prepare
  <2>2. Task("running").next = 1 /\ chunks[s][l][1] = 1
    <3>1. 1 \in DOMAIN chunks[s][l]
      BY <1>2
    <3>2. chunks[s][l][1] = 1 \/ 1 > 1
      BY <1>1, <3>1 DEF Division
    <3> QED
      BY <3>2 DEF Task
  <2> QED
    BY <1>1, <2>1, <2>2, BatchMoves
<1>4. CASE PrepareFails(s, l) \/ ChunkFails(s, l) \/ LateChunkLands(s, l) \/ LateChunkExpires(s, l)
  <2>1. PICK b : /\ b \in {Reject(batch[s][l]), Lose(batch[s][l])}
                 /\ batch' = [batch EXCEPT ![s][l] = b]
    BY <1>0, <1>4 DEF PrepareFails, ChunkFails, LateChunkLands, LateChunkExpires, TypeOK
  <2>2. b.state \in {"rejected", "lost"}
    BY <1>0, <2>1 DEF Reject, Lose, TypeOK, TaskType
  <2> QED
    BY <1>1, <2>1, <2>2, BatchMoves
<1>5. CASE ChunkLands(s, l)
  <2>1. PICK last \in DOMAIN chunks[s][l] :
          /\ EndsAt(s, l, last)
          /\ batch' = [batch EXCEPT ![s][l] = Advance(last + 1, deployables[s][l])]
    BY <1>5 DEF ChunkLands
  <2>2. PICK b : b = Advance(last + 1, deployables[s][l])
    OBVIOUS
  <2>3. PICK next : next = batch[s][l].next
    OBVIOUS
  <2>4. last \in 1..n /\ last >= next /\ next \in Nat \ {0}
    BY <1>0, <1>2, <2>1, <2>3, RunTypes DEF EndsAt
  <2>5. /\ b.next = last + 1 /\ b.state = IF last + 1 > n THEN "resolved" ELSE "running"
    BY <1>2, <2>2 DEF Advance
  <2>6. ASSUME b.state = "running" PROVE chunks[s][l][b.next] = b.next
    <3>1. last + 1 \in 1..n /\ last + 1 > 1 /\ (last + 1) - 1 = last
      BY <2>4, <2>5, <2>6
    <3>2. chunks[s][l][last] = next /\ chunks[s][l][last + 1] # next
      BY <1>2, <2>1, <2>3, <3>1 DEF EndsAt
    <3>3. last + 1 \in DOMAIN chunks[s][l]
      BY <1>2, <3>1
    <3>4. \/ chunks[s][l][last + 1] = last + 1
          \/ chunks[s][l][last + 1] = chunks[s][l][(last + 1) - 1]
      BY <1>1, <3>3 DEF Division
    <3> QED
      BY <2>5, <3>1, <3>2, <3>4
  <2>7. batch' = [batch EXCEPT ![s][l] = b]
    BY <2>1, <2>2
  <2> QED
    BY <1>1, <2>6, <2>7, BatchMoves
<1> QED
  BY <1>3, <1>4, <1>5 DEF BatchStep

LEMMA ChunksInvariant == Spec => []SInv
<1>1. Init => SInv
  <2> SUFFICES ASSUME Init PROVE SInv
    OBVIOUS
  <2>1. IInv
    BY InitIsRight
  <2>2. ASSUME NEW s \in Session, NEW l \in Layer PROVE batch[s][l].state = "idle"
    BY DEF Init, InitFor, Task
  <2> QED
    BY <2>1, <2>2 DEF SInv, ChunksAreRight, Planned
<1>2. SInv /\ [Next]_vars => SInv'
  <2> SUFFICES ASSUME SInv, [Next]_vars PROVE SInv'
    OBVIOUS
  <2>1. IInv'
    BY Inductive DEF SInv
  <2>2. CASE chunks' = chunks /\ batch' = batch
    BY <2>1, <2>2, ChunksStay DEF SInv
  <2>3. CASE UNCHANGED vars
    BY <2>2, <2>3 DEF vars
  <2>4. ASSUME NEW s \in Session, SessionStep(s) \/ Crash(s) \/ \E l \in Layer : LateStep(s, l)
        PROVE  SInv'
    <3>1. CASE Plan(s)
      BY <2>1, <3>1, PlanDivides DEF SInv
    <3>2. ASSUME NEW l \in Layer, BatchStep(s, l) PROVE SInv'
      BY <2>1, <3>2, BatchStaysInPlace DEF SInv
    <3>3. ASSUME NEW l \in Layer, PublishStep(s, l) \/ LateBlobSettles(s, l) PROVE SInv'
      <4>1. chunks' = chunks /\ batch' = batch
        BY <3>3 DEF PublishStep, StoreBlob, StoreFails, LateBlobSettles, locals
      <4> QED
        BY <2>2, <4>1
    <3>4. CASE Start(s) \/ Finish(s)
      <4>1. chunks' = chunks /\ batch' = batch
        BY <3>4 DEF Start, Finish, locals
      <4> QED
        BY <2>2, <4>1
    <3>5. CASE Build(s)
      BY <2>2, <3>5 DEF Build
    <3>6. CASE LayerDone(s) \/ LayerFails(s)
      BY <2>2, <3>6 DEF LayerDone, LayerFails
    <3>7. CASE \E p \in Package : ReadVersionCount(s, p)
      BY <2>2, <3>7 DEF ReadVersionCount
    <3>8. CASE Exit(s) \/ Crash(s)
      BY <2>1, <3>8, EndKeepsChunks DEF SInv, Exit, Crash
    <3>9. ASSUME NEW l \in Layer, LateChunkLands(s, l) \/ LateChunkExpires(s, l) PROVE SInv'
      BY <2>1, <3>9, BatchStaysInPlace DEF SInv
    <3> QED
      BY <2>4, <3>1, <3>2, <3>3, <3>4, <3>5, <3>6, <3>7, <3>8, <3>9
      DEF SessionStep, LoopStep, LateStep
  <2> QED
    BY <2>3, <2>4 DEF Next
<1> QED
  BY <1>1, <1>2, PTL DEF Spec

\* A run that waits for the tasks of its layer has something to wait for: they
\* are over, or one of them has a step to take.
THEOREM RunsNeverStuck == Spec => []NeverStuck
<1>1. SInv => NeverStuck
  <2> SUFFICES ASSUME SInv, NEW s \in Session, pc[s] = "submit"
               PROVE  \/ Resolved(s) \/ Rejected(s)
                      \/ batch[s][layer[s]].state = "preparing"
                      \/ publish[s][layer[s]].state = "running"
                      \/ /\ batch[s][layer[s]].state = "running"
                         /\ \E last \in DOMAIN chunks[s][layer[s]] : EndsAt(s, layer[s], last)
    BY DEF NeverStuck
  <2>1. PICK k : k = layer[s]
    OBVIOUS
  <2>2. TypeOK /\ RunIsRight(s)
    BY DEF SInv, IInv
  <2>3. k \in Layer /\ Planned(s, k)
    BY <2>1, <2>2, LayerFacts DEF RunIsRight, LoopIsRight
  <2>4. TasksAreRight(s, k) /\ ChunksAreRight(s, k)
    BY <2>2, <2>3 DEF SInv, RunIsRight
  <2>5. /\ batch[s][k].state \in {"preparing", "running", "resolved", "rejected", "lost"}
        /\ publish[s][k].state \in {"running", "resolved", "rejected", "lost"}
    BY <2>2, <2>3, <2>4 DEF TypeOK, TaskType, Planned, TasksAreRight
  <2>6. CASE batch[s][k].state = "resolved" /\ publish[s][k].state = "resolved"
    BY <2>1, <2>6 DEF Resolved, Outcomes
  <2>7. CASE \/ batch[s][k].state \in {"rejected", "lost"}
             \/ publish[s][k].state \in {"rejected", "lost"}
    BY <2>1, <2>7 DEF Rejected, Outcomes
  <2>8. CASE batch[s][k].state = "running"
    <3>1. PICK n \in Nat : DOMAIN chunks[s][k] = 1..n /\ n = Len(deployables[s][k])
      <4>1. deployables[s][k] \in Seq(Package) /\ chunks[s][k] \in Seq(Nat)
        BY <2>2, <2>3, RunTypes
      <4>2. Len(chunks[s][k]) = Len(deployables[s][k])
        BY <2>3, <2>4 DEF TasksAreRight
      <4> QED
        BY <4>1, <4>2
    <3>2. PICK next : next = batch[s][k].next
      OBVIOUS
    <3>3. next \in 1..n /\ chunks[s][k][next] = next
      BY <2>2, <2>3, <2>4, <2>8, <3>1, <3>2, RunTypes DEF TasksAreRight, Within, ChunksAreRight
    <3>4. \E last \in DOMAIN chunks[s][k] : EndsAt(s, k, last)
      BY <2>3, <3>1, <3>2, <3>3, NextChunk
    <3> QED
      BY <2>1, <2>8, <3>4
  <2> QED
    BY <2>1, <2>5, <2>6, <2>7, <2>8
<1> QED
  BY <1>1, ChunksInvariant, PTL

\* A step of one session moves no other.
LEMMA OneMoves ==
  ASSUME TypeOK, NEW s \in Session, SessionStep(s) \/ Crash(s) \/ \E l \in Layer : LateStep(s, l)
  PROVE  Moves(s)
<1> USE DEF TypeOK, Moves, LocalsOf, chain, locals
<1>1. CASE Start(s) BY <1>1 DEF Start
<1>2. CASE Finish(s) BY <1>2 DEF Finish
<1>3. CASE Build(s) BY <1>3 DEF Build, GiveUp
<1>4. CASE \E p \in Package : ReadVersionCount(s, p) BY <1>4 DEF ReadVersionCount
<1>5. CASE Plan(s) BY <1>5 DEF Plan
<1>6. CASE LayerDone(s) BY <1>6 DEF LayerDone
<1>7. CASE LayerFails(s) BY <1>7 DEF LayerFails, GiveUp
<1>8. ASSUME NEW l \in Layer, BatchStep(s, l) PROVE Moves(s)
  <2>1. CASE Prepare(s, l) \/ PrepareFails(s, l) BY <2>1 DEF Prepare, PrepareFails
  <2>2. CASE ChunkLands(s, l) BY <2>2 DEF ChunkLands, OnChunk
  <2>3. CASE ChunkFails(s, l) BY <2>3 DEF ChunkFails
  <2> QED BY <1>8, <2>1, <2>2, <2>3 DEF BatchStep
<1>9. ASSUME NEW l \in Layer, PublishStep(s, l) PROVE Moves(s)
  BY <1>9 DEF PublishStep, StoreBlob, StoreFails
<1>10. CASE Exit(s) \/ Crash(s) BY <1>10, CutOffFacts DEF Exit, Crash, End
<1>11. ASSUME NEW l \in Layer, LateStep(s, l) PROVE Moves(s)
  <2>1. CASE LateChunkLands(s, l) BY <2>1 DEF LateChunkLands
  <2>2. CASE LateChunkExpires(s, l) BY <2>2 DEF LateChunkExpires
  <2>3. CASE LateBlobSettles(s, l) BY <2>3 DEF LateBlobSettles
  <2> QED BY <1>11, <2>1, <2>2, <2>3 DEF LateStep
<1> QED
  BY <1>1, <1>2, <1>3, <1>4, <1>5, <1>6, <1>7, <1>8, <1>9, <1>10, <1>11 DEF SessionStep, LoopStep

LEMMA StagesAndPhases ==
  /\ Phase["waiting"] = 0 /\ Phase["build"] = 1 /\ Phase["versions"] = 2
  /\ Phase["submit"] = 3 /\ Phase["finished"] = 4 /\ Phase["exited"] = 5
  /\ Stage["idle"] = 0 /\ Stage["preparing"] = 1 /\ Stage["running"] = 2
  /\ Stage["resolved"] = 3 /\ Stage["lost"] = 4 /\ Stage["rejected"] = 5
BY DEF Phase, Stage

LEMMA PlaceType ==
  ASSUME TypeOK, NEW s \in Session
  PROVE  Phase[pc[s]] \in Nat /\ Phase[pc[s]] <= Phase[pc[s]] /\ layer[s] \in Nat
<1>1. /\ pc[s] \in {"waiting", "build", "versions", "submit", "finished", "exited"}
      /\ layer[s] \in Nat
  BY DEF TypeOK
<1>2. PICK phase : phase = Phase[pc[s]]
  OBVIOUS
<1>3. phase \in {0, 1, 2, 3, 4, 5}
  BY <1>1, <1>2, StagesAndPhases
<1> QED
  BY <1>1, <1>2, <1>3

LEMMA TaskForward ==
  ASSUME NEW t, NEW u, t.next \in Nat, u.next \in Nat,
         t.state \in {"idle", "preparing", "running", "resolved", "rejected", "lost"},
         u.state \in {"idle", "preparing", "running", "resolved", "rejected", "lost"},
         \/ t.state = u.state /\ t.next <= u.next
         \/ t.state = "idle" /\ u.state \in {"preparing", "running"}
         \/ t.state = "preparing" /\ u.state \in {"running", "rejected"}
         \/ t.state = "running" /\ u.state \in {"resolved", "rejected", "lost"}
         \/ t.state = "lost" /\ u.state = "rejected"
  PROVE  NoFurther(t, u)
BY StagesAndPhases DEF NoFurther

\* A table of tasks is itself with any of its entries written again.
LEMMA TasksAreTables ==
  ASSUME TypeOK, NEW s \in Session, NEW l \in Layer
  PROVE  /\ batch = [batch EXCEPT ![s][l] = batch[s][l]]
         /\ publish = [publish EXCEPT ![s][l] = publish[s][l]]
<1>1. PICK B, P : B = TaskType({"idle", "preparing", "running", "resolved", "rejected", "lost"})
               /\ P = TaskType({"idle", "running", "resolved", "rejected", "lost"})
  OBVIOUS
<1>2. batch \in [Session -> [Layer -> B]] /\ publish \in [Session -> [Layer -> P]]
  BY <1>1 DEF TypeOK
<1> QED
  BY <1>2

LEMMA TasksStay ==
  ASSUME TypeOK, NEW s \in Session, NEW l \in Layer
  PROVE  NoFurther(batch[s][l], batch[s][l]) /\ NoFurther(publish[s][l], publish[s][l])
BY DEF TypeOK, TaskType, NoFurther

\* Every run is where it was or further, and one of them is further.
Forward ==
  /\ \A s \in Session : NeverBack(s)
  /\ \E s \in Session : Place(s)' # Place(s)

\* A step of one session: its own loop and tasks go forward, the others stay.
LEMMA OneForward ==
  ASSUME TypeOK, NEW s \in Session, Moves(s),
         \/ layer[s] < layer'[s]
         \/ layer[s] = layer'[s] /\ Phase[pc[s]] <= Phase[pc'[s]],
         \A p \in Package : nextVersion[s][p] \in {Unread, nextVersion'[s][p]},
         \A l \in Layer : /\ NoFurther(batch[s][l], batch'[s][l])
                          /\ NoFurther(publish[s][l], publish'[s][l]),
         \/ layer'[s] # layer[s] \/ pc'[s] # pc[s] \/ nextVersion'[s] # nextVersion[s]
         \/ batch'[s] # batch[s] \/ publish'[s] # publish[s]
  PROVE  Forward
<1>1. NeverBack(s) /\ Place(s)' # Place(s)
  BY DEF NeverBack, Place
<1>2. ASSUME NEW t \in Session, t # s PROVE NeverBack(t)
  <2>1. /\ pc'[t] = pc[t] /\ layer'[t] = layer[t] /\ nextVersion'[t] = nextVersion[t]
        /\ batch'[t] = batch[t] /\ publish'[t] = publish[t]
    BY <1>2 DEF Moves, LocalsOf
  <2>2. layer[t] = layer'[t] /\ Phase[pc[t]] <= Phase[pc'[t]]
    BY <2>1, PlaceType
  <2>3. \A l \in Layer : /\ NoFurther(batch[t][l], batch'[t][l])
                         /\ NoFurther(publish[t][l], publish'[t][l])
    BY <2>1, TasksStay
  <2> QED
    BY <2>1, <2>2, <2>3 DEF NeverBack
<1> QED
  BY <1>1, <1>2 DEF Forward

\* A step of the loop that leaves the versions and the tasks as they are.
LEMMA LoopForward ==
  ASSUME TypeOK, NEW s \in Session, Moves(s), nextVersion' = nextVersion,
         batch' = batch, publish' = publish,
         \/ layer[s] < layer'[s]
         \/ layer[s] = layer'[s] /\ Phase[pc[s]] <= Phase[pc'[s]] /\ pc'[s] # pc[s]
  PROVE  Forward
<1>1. layer'[s] # layer[s] \/ pc'[s] # pc[s]
  <2>1. layer[s] \in Nat
    BY PlaceType
  <2> QED
    BY <2>1
<1> QED
  BY <1>1, TasksStay, OneForward

\* A step of the tasks of one layer.
LEMMA TaskStepForward ==
  ASSUME TypeOK, NEW s \in Session, NEW l \in Layer, NEW b, NEW u, Moves(s),
         pc' = pc, layer' = layer, nextVersion' = nextVersion,
         batch' = [batch EXCEPT ![s][l] = b], publish' = [publish EXCEPT ![s][l] = u],
         NoFurther(batch[s][l], b), NoFurther(publish[s][l], u),
         b # batch[s][l] \/ u # publish[s][l]
  PROVE  Forward
<1>1. /\ batch'[s][l] = b /\ publish'[s][l] = u
      /\ \A k \in Layer : k # l => batch'[s][k] = batch[s][k] /\ publish'[s][k] = publish[s][k]
  BY DEF TypeOK
<1>2. \A k \in Layer : /\ NoFurther(batch[s][k], batch'[s][k])
                       /\ NoFurther(publish[s][k], publish'[s][k])
  BY <1>1, TasksStay
<1>3. batch'[s] # batch[s] \/ publish'[s] # publish[s]
  BY <1>1
<1>4. layer[s] = layer'[s] /\ Phase[pc[s]] <= Phase[pc'[s]]
  BY PlaceType
<1>5. \A p \in Package : nextVersion[s][p] \in {Unread, nextVersion'[s][p]}
  OBVIOUS
<1> QED
  BY <1>2, <1>3, <1>4, <1>5, OneForward

LEMMA LoopStepForward ==
  ASSUME IInv, NEW s \in Session, LoopStep(s) \/ Crash(s)
  PROVE  Forward
<1>0. TypeOK /\ RunIsRight(s) /\ Moves(s) /\ layer[s] \in Nat
  <2>1. TypeOK /\ RunIsRight(s)
    BY DEF IInv
  <2> QED
    BY <2>1, OneMoves DEF SessionStep, TypeOK
<1>1. CASE Start(s) \/ Finish(s)
  <2>1. /\ nextVersion' = nextVersion /\ batch' = batch /\ publish' = publish /\ layer' = layer
        /\ \/ pc[s] = "waiting" /\ pc'[s] = "build"
           \/ pc[s] = "build" /\ pc'[s] = "finished"
    BY <1>0, <1>1 DEF Start, Finish, locals, TypeOK
  <2>2. layer[s] = layer'[s] /\ Phase[pc[s]] <= Phase[pc'[s]] /\ pc'[s] # pc[s]
    BY <2>1, StagesAndPhases
  <2> QED
    BY <1>0, <2>1, <2>2, LoopForward
<1>2. CASE Build(s)
  <2>1. /\ nextVersion' = nextVersion /\ batch' = batch /\ publish' = publish /\ pc[s] = "build"
    BY <1>2 DEF Build
  <2>2. \/ layer'[s] = layer[s] + 1
        \/ layer'[s] = layer[s] /\ pc'[s] = "versions"
    <3>1. PICK ready : /\ pc' = [pc EXCEPT ![s] = IF ready = <<>> THEN "build" ELSE "versions"]
                       /\ layer' = [layer EXCEPT ![s] = IF ready = <<>> THEN @ + 1 ELSE @]
      BY <1>2 DEF Build
    <3> QED
      BY <1>0, <3>1 DEF TypeOK
  <2>3. \/ layer[s] < layer'[s]
        \/ layer[s] = layer'[s] /\ Phase[pc[s]] <= Phase[pc'[s]] /\ pc'[s] # pc[s]
    BY <1>0, <2>1, <2>2, StagesAndPhases
  <2> QED
    BY <1>0, <2>1, <2>3, LoopForward
<1>3. CASE LayerDone(s) \/ LayerFails(s)
  <2>1. /\ nextVersion' = nextVersion /\ batch' = batch /\ publish' = publish
        /\ layer' = [layer EXCEPT ![s] = @ + 1]
    BY <1>3 DEF LayerDone, LayerFails
  <2>2. layer[s] < layer'[s]
    BY <1>0, <2>1 DEF TypeOK
  <2> QED
    BY <1>0, <2>1, <2>2, LoopForward
<1>4. CASE \E p \in Package : ReadVersionCount(s, p)
  <2>1. PICK p \in Package : ReadVersionCount(s, p)
    BY <1>4
  <2>2. /\ nextVersion[s][p] = Unread /\ pc' = pc /\ layer' = layer
        /\ nextVersion' = [nextVersion EXCEPT ![s][p] = Len(log[p])]
        /\ batch' = batch /\ publish' = publish
    BY <2>1 DEF ReadVersionCount
  <2>3. /\ nextVersion'[s][p] # Unread
        /\ \A q \in Package : nextVersion[s][q] \in {Unread, nextVersion'[s][q]}
    <3>1. Len(log[p]) \in Nat
      BY <1>0 DEF TypeOK
    <3>2. /\ nextVersion'[s][p] = Len(log[p])
          /\ \A q \in Package : q # p => nextVersion'[s][q] = nextVersion[s][q]
      BY <1>0, <2>2 DEF TypeOK
    <3> QED
      BY <2>2, <3>1, <3>2 DEF Unread
  <2>4. nextVersion'[s] # nextVersion[s]
    BY <2>2, <2>3
  <2>5. layer[s] = layer'[s] /\ Phase[pc[s]] <= Phase[pc'[s]]
    BY <1>0, <2>2, PlaceType
  <2>6. \A l \in Layer : /\ NoFurther(batch[s][l], batch'[s][l])
                         /\ NoFurther(publish[s][l], publish'[s][l])
    BY <1>0, <2>2, TasksStay
  <2> QED
    BY <1>0, <2>3, <2>4, <2>5, <2>6, OneForward
<1>5. CASE Plan(s)
  <2>1. PICK k : k = layer[s]
    OBVIOUS
  <2>2. /\ pc[s] = "versions" /\ pc'[s] = "submit" /\ layer' = layer /\ nextVersion' = nextVersion
        /\ batch' = [batch EXCEPT ![s][k] = Task("preparing")]
        /\ publish' = [publish EXCEPT ![s][k] = Task("running")]
        /\ k \in Layer
    BY <1>0, <1>5, <2>1, LayerFacts DEF Plan, RunIsRight, LoopIsRight, TypeOK
  <2>3. batch[s][k].state = "idle" /\ publish[s][k].state = "idle"
    BY <1>0, <2>1, <2>2 DEF RunIsRight, TasksAreRight, Planned
  <2>4. /\ NoFurther(batch[s][k], Task("preparing")) /\ NoFurther(publish[s][k], Task("running"))
    BY <2>3, StagesAndPhases DEF NoFurther, Task
  <2>5. /\ batch'[s][k] = Task("preparing") /\ publish'[s][k] = Task("running")
        /\ \A l \in Layer : l # k => batch'[s][l] = batch[s][l] /\ publish'[s][l] = publish[s][l]
    BY <1>0, <2>2 DEF TypeOK
  <2>6. \A l \in Layer : /\ NoFurther(batch[s][l], batch'[s][l])
                         /\ NoFurther(publish[s][l], publish'[s][l])
    BY <1>0, <2>4, <2>5, TasksStay
  <2>7. /\ layer[s] = layer'[s] /\ Phase[pc[s]] <= Phase[pc'[s]] /\ pc'[s] # pc[s]
        /\ \A p \in Package : nextVersion[s][p] \in {Unread, nextVersion'[s][p]}
    BY <2>2, StagesAndPhases
  <2> QED
    BY <1>0, <2>6, <2>7, OneForward
<1>6. CASE Exit(s) \/ Crash(s)
  <2>1. /\ nextVersion' = nextVersion /\ layer' = layer /\ pc'[s] = "exited" /\ End(s)
        /\ pc[s] \in {"build", "versions", "submit", "finished"}
    BY <1>0, <1>6 DEF Exit, Crash, End, Running, locals, TypeOK
  <2>2. layer[s] = layer'[s] /\ Phase[pc[s]] <= Phase[pc'[s]] /\ pc'[s] # pc[s]
    BY <2>1, StagesAndPhases
  <2>3. ASSUME NEW l \in Layer PROVE NoFurther(batch[s][l], batch'[s][l])
    <3>1. batch'[s][l] = IF batch[s][l].state = "running" THEN Lose(batch[s][l]) ELSE batch[s][l]
      BY <1>0, <2>1, CutOffFacts
    <3>2. batch[s][l].state = "running" => batch'[s][l].state = "lost"
      BY <1>0, <2>1, CutOffFacts
    <3>3. CASE batch[s][l].state = "running"
      BY <3>2, <3>3, StagesAndPhases DEF NoFurther
    <3>4. CASE batch[s][l].state # "running"
      BY <1>0, <3>1, <3>4, TasksStay
    <3> QED
      BY <3>3, <3>4
  <2>4. ASSUME NEW l \in Layer PROVE NoFurther(publish[s][l], publish'[s][l])
    <3>1. publish'[s][l] =
            IF publish[s][l].state = "running" THEN Lose(publish[s][l]) ELSE publish[s][l]
      BY <1>0, <2>1, CutOffFacts
    <3>2. publish[s][l].state = "running" => publish'[s][l].state = "lost"
      BY <1>0, <2>1, CutOffFacts
    <3>3. CASE publish[s][l].state = "running"
      BY <3>2, <3>3, StagesAndPhases DEF NoFurther
    <3>4. CASE publish[s][l].state # "running"
      BY <1>0, <3>1, <3>4, TasksStay
    <3> QED
      BY <3>3, <3>4
  <2> QED
    BY <1>0, <2>1, <2>2, <2>3, <2>4, OneForward
<1> QED
  BY <1>1, <1>2, <1>3, <1>4, <1>5, <1>6 DEF LoopStep

LEMMA BatchStepForward ==
  ASSUME IInv, NEW s \in Session, NEW l \in Layer,
         BatchStep(s, l) \/ LateChunkLands(s, l) \/ LateChunkExpires(s, l)
  PROVE  Forward
<1>0. TypeOK /\ TasksAreRight(s, l) /\ Moves(s)
  BY OneMoves DEF IInv, RunIsRight, SessionStep, LateStep
<1>1. /\ pc' = pc /\ layer' = layer /\ nextVersion' = nextVersion
      /\ publish' = [publish EXCEPT ![s][l] = publish[s][l]]
      /\ batch[s][l].state \in {"preparing", "running", "lost"} /\ batch[s][l].next \in Nat
      /\ NoFurther(publish[s][l], publish[s][l])
  <2>1. pc' = pc /\ layer' = layer /\ nextVersion' = nextVersion /\ publish' = publish
    BY DEF BatchStep, Prepare, PrepareFails, ChunkLands, ChunkFails, LateChunkLands,
           LateChunkExpires, locals
  <2>2. batch[s][l].state \in {"preparing", "running", "lost"}
    BY DEF BatchStep, Prepare, PrepareFails, ChunkLands, ChunkFails, LateChunkLands,
           LateChunkExpires
  <2>3. batch[s][l].next \in Nat
    BY <1>0 DEF TypeOK, TaskType
  <2>4. publish' = [publish EXCEPT ![s][l] = publish[s][l]]
    BY <1>0, <2>1, TasksAreTables
  <2>5. NoFurther(publish[s][l], publish[s][l])
    BY <1>0, TasksStay
  <2> QED
    BY <2>1, <2>2, <2>3, <2>4, <2>5
<1>2. PICK b : /\ batch' = [batch EXCEPT ![s][l] = b] /\ b.next \in Nat
               /\ \/ batch[s][l].state = "preparing" /\ b.state \in {"running", "rejected"}
                  \/ batch[s][l].state = "running" /\ b.state \in {"resolved", "rejected", "lost"}
                  \/ batch[s][l].state = "lost" /\ b.state = "rejected"
                  \/ /\ batch[s][l].state = "running" /\ b.state = "running"
                     /\ batch[s][l].next < b.next
  <2>1. CASE Prepare(s, l)
    <3>1. PICK c : c = Task("running")
      OBVIOUS
    <3>2. c.state = "running" /\ c.next \in Nat
      BY <3>1 DEF Task
    <3>3. batch[s][l].state = "preparing" /\ batch' = [batch EXCEPT ![s][l] = c]
      BY <2>1, <3>1 DEF Prepare
    <3> QED
      BY <3>2, <3>3
  <2>2. CASE PrepareFails(s, l) \/ ChunkFails(s, l) \/ LateChunkLands(s, l) \/ LateChunkExpires(s, l)
    <3>1. PICK c : /\ batch' = [batch EXCEPT ![s][l] = c]
                   /\ \/ c = Reject(batch[s][l])
                      \/ c = Lose(batch[s][l]) /\ batch[s][l].state = "running"
      BY <1>0, <2>2 DEF PrepareFails, ChunkFails, LateChunkLands, LateChunkExpires, TypeOK
    <3>2. /\ Reject(batch[s][l]).state = "rejected" /\ Reject(batch[s][l]).next \in Nat
          /\ Lose(batch[s][l]).state = "lost" /\ Lose(batch[s][l]).next \in Nat
      BY <1>0 DEF Reject, Lose, TypeOK, TaskType
    <3> QED
      BY <1>1, <3>1, <3>2
  <2>3. CASE ChunkLands(s, l)
    <3>1. PICK last \in DOMAIN chunks[s][l] :
            /\ EndsAt(s, l, last)
            /\ batch' = [batch EXCEPT ![s][l] = Advance(last + 1, deployables[s][l])]
      BY <2>3 DEF ChunkLands
    <3>2. batch[s][l].state = "running"
      BY <2>3 DEF ChunkLands
    <3>3. last \in Nat /\ batch[s][l].next < last + 1
      <4>1. last \in Nat /\ batch[s][l].next \in 1..last
        BY <1>0, <3>1, <3>2, ChunkFacts
      <4> QED
        BY <4>1
    <3>4. PICK c : c = Advance(last + 1, deployables[s][l])
      OBVIOUS
    <3>5. c.next = last + 1 /\ c.state \in {"resolved", "running"}
      BY <3>4 DEF Advance
    <3>6. batch' = [batch EXCEPT ![s][l] = c]
      BY <3>1, <3>4
    <3>7. c.next \in Nat /\ (c.state = "resolved" \/ c.state = "running") /\ batch[s][l].next < c.next
      BY <3>3, <3>5
    <3> QED
      BY <3>2, <3>6, <3>7
  <2> QED
    BY <2>1, <2>2, <2>3 DEF BatchStep
<1>3. b # batch[s][l]
  BY <1>1, <1>2
<1>4. NoFurther(batch[s][l], b)
  <2>1. \/ batch[s][l].state = b.state /\ batch[s][l].next <= b.next
        \/ batch[s][l].state = "preparing" /\ b.state \in {"running", "rejected"}
        \/ batch[s][l].state = "running" /\ b.state \in {"resolved", "rejected", "lost"}
        \/ batch[s][l].state = "lost" /\ b.state = "rejected"
    BY <1>1, <1>2
  <2> QED
    BY <1>1, <1>2, <2>1, TaskForward
<1> QED
  BY <1>0, <1>1, <1>2, <1>3, <1>4, TaskStepForward

LEMMA PublishStepForward ==
  ASSUME IInv, NEW s \in Session, NEW l \in Layer, PublishStep(s, l) \/ LateBlobSettles(s, l)
  PROVE  Forward
<1>0. TypeOK /\ Moves(s)
  BY OneMoves DEF IInv, SessionStep, LateStep
<1>1. /\ pc' = pc /\ layer' = layer /\ nextVersion' = nextVersion
      /\ batch' = [batch EXCEPT ![s][l] = batch[s][l]]
      /\ publish[s][l].state \in {"running", "lost"} /\ publish[s][l].next \in Nat
      /\ NoFurther(batch[s][l], batch[s][l])
  <2>1. pc' = pc /\ layer' = layer /\ nextVersion' = nextVersion /\ batch' = batch
    BY DEF PublishStep, StoreBlob, StoreFails, LateBlobSettles, locals
  <2>2. publish[s][l].state \in {"running", "lost"}
    BY DEF PublishStep, StoreBlob, StoreFails, LateBlobSettles
  <2>3. publish[s][l].next \in Nat
    BY <1>0 DEF TypeOK, TaskType
  <2>4. batch' = [batch EXCEPT ![s][l] = batch[s][l]]
    BY <1>0, <2>1, TasksAreTables
  <2>5. NoFurther(batch[s][l], batch[s][l])
    BY <1>0, TasksStay
  <2> QED
    BY <2>1, <2>2, <2>3, <2>4, <2>5
<1>2. PICK u : /\ publish' = [publish EXCEPT ![s][l] = u] /\ u.next \in Nat
               /\ \/ publish[s][l].state = "running" /\ u.state \in {"resolved", "rejected", "lost"}
                  \/ publish[s][l].state = "lost" /\ u.state = "rejected"
                  \/ /\ publish[s][l].state = "running" /\ u.state = "running"
                     /\ publish[s][l].next < u.next
  <2>1. CASE StoreBlob(s, l)
    <3>1. PICK c : c = Advance(publish[s][l].next + 1, deployables[s][l])
      OBVIOUS
    <3>2. c.next = publish[s][l].next + 1 /\ c.state \in {"resolved", "running"}
      BY <3>1 DEF Advance
    <3>3. publish' = [publish EXCEPT ![s][l] = c]
      BY <2>1, <3>1 DEF StoreBlob
    <3>4. /\ c.next \in Nat /\ (c.state = "resolved" \/ c.state = "running")
          /\ publish[s][l].next < c.next
      BY <1>1, <3>2
    <3>5. publish[s][l].state = "running"
      BY <2>1 DEF StoreBlob
    <3> QED
      BY <3>3, <3>4, <3>5
  <2>2. CASE StoreFails(s, l) \/ LateBlobSettles(s, l)
    <3>1. PICK c : /\ publish' = [publish EXCEPT ![s][l] = c]
                   /\ \/ c = Reject(publish[s][l])
                      \/ c = Lose(publish[s][l]) /\ publish[s][l].state = "running"
      BY <1>0, <2>2 DEF StoreFails, LateBlobSettles, TypeOK
    <3>2. /\ Reject(publish[s][l]).state = "rejected" /\ Reject(publish[s][l]).next \in Nat
          /\ Lose(publish[s][l]).state = "lost" /\ Lose(publish[s][l]).next \in Nat
      BY <1>0 DEF Reject, Lose, TypeOK, TaskType
    <3> QED
      BY <1>1, <3>1, <3>2
  <2> QED
    BY <2>1, <2>2 DEF PublishStep
<1>3. u # publish[s][l]
  BY <1>1, <1>2
<1>4. NoFurther(publish[s][l], u)
  BY <1>1, <1>2, TaskForward
<1> QED
  BY <1>0, <1>1, <1>2, <1>3, <1>4, TaskStepForward

\* Every step takes one run further, and none back.
THEOREM EveryStepIsForward == Spec => RunsMoveForward
<1>1. IInv /\ [Next]_vars =>
        [(\A s \in Session : NeverBack(s)) /\ \E s \in Session : Place(s)' # Place(s)]_vars
  <2> SUFFICES ASSUME IInv, Next
               PROVE  (\A s \in Session : NeverBack(s)) /\ \E s \in Session : Place(s)' # Place(s)
    OBVIOUS
  <2>1. PICK s \in Session : SessionStep(s) \/ Crash(s) \/ \E l \in Layer : LateStep(s, l)
    BY DEF Next
  <2>2. CASE LoopStep(s) \/ Crash(s)
    BY <2>2, LoopStepForward DEF Forward
  <2>3. ASSUME NEW l \in Layer, BatchStep(s, l) \/ PublishStep(s, l) PROVE Forward
    BY <2>3, BatchStepForward, PublishStepForward
  <2>4. ASSUME NEW l \in Layer, LateStep(s, l) PROVE Forward
    BY <2>4, BatchStepForward, PublishStepForward DEF LateStep
  <2> QED
    BY <2>1, <2>2, <2>3, <2>4 DEF SessionStep, Forward
<1> QED
  BY <1>1, Invariant, PTL DEF Spec, RunsMoveForward

-----------------------------------------------------------------------------
(* The command.  The same promises, in the rows of its table.  Which rows an *)
(* event changes depends on where the run is, so a few facts of the run come  *)
(* first that its own promises do not need.                                   *)

\* A verdict is given once, and what is reported has been planned.
ProgressIsRight(s) ==
  /\ pc[s] = "waiting" => layer[s] = 1
  /\ pc[s] = "finished" => layer[s] \notin DOMAIN Layers[s]
  /\ \A p \in failed[s] : status[s][p] = "error"
  /\ \A l \in DOMAIN Layers[s] : Ahead(s, l) =>
       \A p \in Range(Layers[s][l]) : status[s][p] = "pending"
  /\ pc[s] \in {"versions", "submit"} => \A p \in Here(s) : status[s][p] = "pending"
  /\ \A p \in Package : addresses[s][p] # NoAddress =>
       \E l \in Layer : Planned(s, l) /\ p \in Range(deployables[s][l])

\* One row: a cell spins only for what is being submitted, and the row of a
\* reported package has its address, unless its layer has failed.
RowType ==
  [state : {"waiting", "built", "deploying", "done", "error"}, compiled : BOOLEAN, sized : BOOLEAN,
   address : AddressType \cup {NoAddress}, cid : BOOLEAN,
   deploying : BOOLEAN, publishing : BOOLEAN, registering : BOOLEAN, error : BOOLEAN]
Spins(row) == row.deploying \/ row.publishing \/ row.registering
RowIsRight(s, p) ==
  /\ Spins(rows[s][p]) => pc[s] = "exited" \/ (pc[s] = "submit" /\ p \in Here(s))
  /\ addresses[s][p] # NoAddress =>
       /\ rows[s][p].address = addresses[s][p]
       /\ ~rows[s][p].deploying /\ ~rows[s][p].registering
       /\ status[s][p] # "error" => rows[s][p].state = "done"
  /\ status[s][p] = "done" => rows[s][p].cid /\ ~Spins(rows[s][p])

CommandIsRight(s) ==
  /\ ProgressIsRight(s)
  /\ \A p \in Package : RowIsRight(s, p)
  /\ exitCode[s] # "none" => pc[s] = "exited"
  /\ exitCode[s] = "success" => \A p \in Selected(s) : status[s][p] = "done"

CInv ==
  /\ IInv
  /\ rows \in [Session -> [Package -> RowType]]
  /\ exitCode \in [Session -> {"none", "success", "failure"}]
  /\ \A s \in Session : CommandIsRight(s)
-----------------------------------------------------------------------------
(* Rows and events. *)

\* The table of a session: its rows and its exit code.
Tables == /\ rows \in [Session -> [Package -> RowType]]
          /\ exitCode \in [Session -> {"none", "success", "failure"}]

LEMMA WaitingIsARow == Waiting \in RowType /\ ~Spins(Waiting)
BY DEF Waiting, RowType, Spins

\* What an event does to the row of a package it names, and to no other.
LEMMA Events ==
  ASSUME NEW row \in RowType, NEW address \in AddressType
  PROVE  /\ Detected(row) \in RowType /\ ~Spins(Detected(row))
         /\ BuildProgress(row) \in RowType /\ (Spins(BuildProgress(row)) => Spins(row))
         /\ BuildDone(row) \in RowType /\ (Spins(BuildDone(row)) => Spins(row))
         /\ BuildError(row) \in RowType /\ (Spins(BuildError(row)) => Spins(row))
         /\ DeployRegisterStart(row) \in RowType /\ PublishStart(row) \in RowType
         /\ /\ DeployRegisterDone(row, address) \in RowType
            /\ Spins(DeployRegisterDone(row, address)) => Spins(row)
            /\ DeployRegisterDone(row, address).address = address
            /\ DeployRegisterDone(row, address).state = "done"
            /\ DeployRegisterDone(row, address).cid = row.cid
            /\ ~DeployRegisterDone(row, address).deploying
            /\ ~DeployRegisterDone(row, address).registering
         /\ /\ PublishDone(row) \in RowType
            /\ PublishDone(row).cid /\ PublishDone(row).address = row.address
            /\ PublishDone(row).state = row.state
            /\ ~row.deploying => ~PublishDone(row).deploying
            /\ ~row.registering => ~PublishDone(row).registering
            /\ ~PublishDone(row).publishing
         /\ /\ DeployRegisterError(row) \in RowType
            /\ ~Spins(DeployRegisterError(row))
            /\ DeployRegisterError(row).address = row.address
<1>1. /\ Detected(row) \in RowType /\ ~Spins(Detected(row))
  BY WaitingIsARow DEF Detected
<1>2. /\ BuildProgress(row) \in RowType /\ (Spins(BuildProgress(row)) => Spins(row))
      /\ BuildDone(row) \in RowType /\ (Spins(BuildDone(row)) => Spins(row))
      /\ BuildError(row) \in RowType /\ (Spins(BuildError(row)) => Spins(row))
  BY DEF RowType, BuildProgress, BuildDone, BuildError, Spins
<1>3. DeployRegisterStart(row) \in RowType /\ PublishStart(row) \in RowType
  BY DEF RowType, DeployRegisterStart, PublishStart
<1>4. /\ DeployRegisterDone(row, address) \in RowType
      /\ Spins(DeployRegisterDone(row, address)) => Spins(row)
      /\ DeployRegisterDone(row, address).address = address
      /\ DeployRegisterDone(row, address).state = "done"
      /\ DeployRegisterDone(row, address).cid = row.cid
      /\ ~DeployRegisterDone(row, address).deploying
      /\ ~DeployRegisterDone(row, address).registering
  BY DEF RowType, DeployRegisterDone, Spins
<1>5. /\ PublishDone(row) \in RowType
      /\ PublishDone(row).cid /\ PublishDone(row).address = row.address
      /\ PublishDone(row).state = row.state
      /\ ~row.deploying => ~PublishDone(row).deploying
      /\ ~row.registering => ~PublishDone(row).registering
      /\ ~PublishDone(row).publishing
  BY DEF RowType, PublishDone
<1>6. /\ DeployRegisterError(row) \in RowType
      /\ ~Spins(DeployRegisterError(row))
      /\ DeployRegisterError(row).address = row.address
  BY DEF RowType, DeployRegisterError, Spins
<1> QED BY <1>1, <1>2, <1>3, <1>4, <1>5, <1>6

-----------------------------------------------------------------------------
(* Steps of the command. *)

\* A session stays right if its loop, its verdicts, its reports and its table
\* stay, and what is planned stays planned.
LEMMA CommandStays ==
  ASSUME NEW t \in Session, CommandIsRight(t), pc'[t] = pc[t], layer'[t] = layer[t],
         failed'[t] = failed[t], status'[t] = status[t], deployables'[t] = deployables[t],
         addresses'[t] = addresses[t], rows'[t] = rows[t], exitCode'[t] = exitCode[t],
         \A l \in Layer : Planned(t, l) => Planned(t, l)'
  PROVE  CommandIsRight(t)'
<1>1. Here(t)' = Here(t) BY DEF Here
<1>2. \A l \in DOMAIN Layers[t] : Ahead(t, l)' <=> Ahead(t, l) BY DEF Ahead
<1>3. ProgressIsRight(t)' BY <1>1, <1>2 DEF CommandIsRight, ProgressIsRight
<1>4. \A p \in Package : RowIsRight(t, p)' BY <1>1 DEF CommandIsRight, RowIsRight
<1> QED BY <1>3, <1>4 DEF CommandIsRight

\* A step of the session s is right if s is right after it.
LEMMA OthersStay ==
  ASSUME CInv, IInv', Tables', NEW s \in Session, Moves(s),
         \A t \in Session : t # s => rows'[t] = rows[t] /\ exitCode'[t] = exitCode[t],
         CommandIsRight(s)'
  PROVE  CInv'
<1>1. ASSUME NEW t \in Session, t # s PROVE CommandIsRight(t)'
  <2>1. /\ pc'[t] = pc[t] /\ layer'[t] = layer[t] /\ failed'[t] = failed[t]
        /\ status'[t] = status[t] /\ deployables'[t] = deployables[t]
        /\ batch'[t] = batch[t] /\ addresses'[t] = addresses[t]
    BY <1>1 DEF Moves, LocalsOf
  <2>2. \A l \in Layer : Planned(t, l) => Planned(t, l)' BY <2>1 DEF Planned
  <2>3. CommandIsRight(t) BY DEF CInv
  <2> QED BY <1>1, <2>1, <2>2, <2>3, CommandStays
<1> QED BY <1>1 DEF CInv, Tables

\* Nothing is reported of a layer the loop has not submitted.
LEMMA Unreported ==
  ASSUME CInv, NEW s \in Session, NEW l \in DOMAIN Layers[s],
         Ahead(s, l) \/ (l = layer[s] /\ pc[s] = "versions"), NEW p \in Range(Layers[s][l])
  PROVE  p \in Package /\ addresses[s][p] = NoAddress
<1>1. p \in Package BY LayerFacts
<1>2. SUFFICES ASSUME addresses[s][p] # NoAddress PROVE FALSE BY <1>1
<1>3. PICK k \in Layer : Planned(s, k) /\ p \in Range(deployables[s][k])
  BY <1>1, <1>2 DEF CInv, CommandIsRight, ProgressIsRight
<1>4. LayerIsRight(s, k) /\ TasksAreRight(s, k) BY DEF CInv, IInv, RunIsRight
<1>5. k \in DOMAIN Layers[s] /\ p \in Range(Layers[s][k])
  <2>1. deployables[s][k] # <<>> BY <1>3, <1>4 DEF TasksAreRight
  <2> QED BY <1>3, <1>4, <2>1 DEF LayerIsRight
<1>6. k = l BY <1>5, OneLayer
<1> QED BY <1>3, <1>4, <1>6 DEF TasksAreRight

LEMMA TableOf ==
  ASSUME CInv, NEW s \in Session
  PROVE  /\ TypeOK /\ RunIsRight(s) /\ ProgressIsRight(s) /\ CommandIsRight(s) /\ Tables
         /\ rows[s] \in [Package -> RowType]
         /\ \A p \in Package : rows[s][p] \in RowType /\ RowIsRight(s, p)
         /\ layer[s] \in Nat \ {0} /\ layer[s] <= Len(Layers[s]) + 1
         /\ Len(Layers[s]) \in Nat /\ DOMAIN Layers[s] = 1..Len(Layers[s])
         /\ \A l \in DOMAIN Layers[s] : l \in Layer /\ Range(Layers[s][l]) \subseteq Package
<1>1. Tables /\ TypeOK /\ RunIsRight(s) /\ CommandIsRight(s) BY DEF CInv, IInv, Tables
<1>2. rows[s] \in [Package -> RowType] BY <1>1 DEF Tables
<1>3. layer[s] \in Nat \ {0} /\ layer[s] <= Len(Layers[s]) + 1 BY <1>1 DEF TypeOK
<1> QED BY <1>1, <1>2, <1>3, LayerFacts DEF CommandIsRight

\* The loop moves on with nothing else.
LEMMA DetectStep == ASSUME CInv, NEW s \in Session, Detect(s) PROVE CInv'
<1>0. Start(s) BY DEF Detect
<1>1. IInv' BY <1>0, Inductive DEF CInv, Next, SessionStep, LoopStep
<1>2. Moves(s) BY <1>0, TableOf, OneMoves DEF SessionStep, LoopStep
<1>3. /\ pc[s] = "waiting" /\ pc'[s] = "build" /\ layer' = layer /\ failed' = failed
      /\ status' = status /\ deployables' = deployables /\ batch' = batch /\ addresses' = addresses
  BY <1>0, TableOf DEF Start, locals, TypeOK
<1>4. PICK table : table = [p \in Package |-> IF p \in Selected(s) THEN Waiting ELSE rows[s][p]]
  OBVIOUS
<1>5. rows' = [rows EXCEPT ![s] = table] /\ exitCode' = exitCode
  BY <1>4 DEF Detect, Emit, Updated, Detected
<1>6. table \in [Package -> RowType]
  BY <1>4, TableOf, WaitingIsARow
<1>7. Tables' /\ rows'[s] = table BY <1>5, <1>6, TableOf DEF Tables
<1>8. \A l \in DOMAIN Layers[s] : Ahead(s, l)
  BY <1>3, TableOf DEF ProgressIsRight, Ahead
<1>9. ASSUME NEW p \in Package PROVE addresses[s][p] = NoAddress
  <2> SUFFICES ASSUME addresses[s][p] # NoAddress PROVE FALSE OBVIOUS
  <2>1. PICK k \in Layer : Planned(s, k) BY TableOf DEF ProgressIsRight
  <2>2. TasksAreRight(s, k) /\ LayerIsRight(s, k) BY TableOf DEF RunIsRight
  <2>3. k \in DOMAIN Layers[s] /\ ~Ahead(s, k) BY <2>1, <2>2 DEF TasksAreRight, LayerIsRight
  <2> QED BY <1>8, <2>3
<1>10. ASSUME NEW p \in Package PROVE RowIsRight(s, p)'
  <2>1. ~Spins(rows[s][p]) /\ status[s][p] # "done"
    BY <1>3, <1>9, TableOf DEF RowIsRight, RunIsRight, VerdictsAreRight
  <2>2. ~Spins(table[p]) BY <1>4, <2>1, WaitingIsARow
  <2> QED BY <1>3, <1>7, <1>9, <2>1, <2>2 DEF RowIsRight
<1>11. ProgressIsRight(s)'
  <2>1. \A l \in DOMAIN Layers[s] : \A p \in Range(Layers[s][l]) : status'[s][p] = "pending"
    BY <1>3, <1>8, TableOf DEF ProgressIsRight
  <2> QED BY <1>3, <1>9, <2>1, TableOf DEF ProgressIsRight
<1>12. exitCode[s] = "none" BY <1>3, TableOf DEF CommandIsRight, Tables
<1>13. CommandIsRight(s)' BY <1>5, <1>10, <1>11, <1>12 DEF CommandIsRight
<1>14. \A t \in Session : t # s => rows'[t] = rows[t] /\ exitCode'[t] = exitCode[t]
  BY <1>5, TableOf DEF Tables
<1> QED BY <1>1, <1>2, <1>7, <1>13, <1>14, OthersStay

LEMMA EndStep ==
  ASSUME CInv, NEW s \in Session, Quiet(Finish(s)) \/ Return(s) \/ Quiet(Crash(s))
  PROVE  CInv'
<1>0. Finish(s) \/ Exit(s) \/ Crash(s) BY DEF Quiet, Return
<1>1. IInv' BY <1>0, Inductive DEF CInv, Next, SessionStep, LoopStep
<1>2. Moves(s) BY <1>0, TableOf, OneMoves DEF SessionStep, LoopStep
<1>3. /\ layer' = layer /\ failed' = failed /\ status' = status /\ deployables' = deployables
      /\ addresses' = addresses /\ rows' = rows
      /\ \/ pc'[s] = "exited"
         \/ pc'[s] = "finished" /\ pc[s] = "build" /\ layer[s] \notin DOMAIN Layers[s]
  BY <1>0, TableOf DEF Finish, Exit, Crash, End, locals, TypeOK, Quiet, Return
<1>4. PICK code \in {"none", "success", "failure"} :
        /\ exitCode' = [exitCode EXCEPT ![s] = code]
        /\ code # "none" => pc'[s] = "exited"
        /\ code = "success" => exitCode[s] = "success" \/ (pc[s] = "finished" /\ Success(s))
  <2>1. CASE Return(s)
    <3>1. pc[s] = "finished" /\ pc'[s] = "exited" BY <2>1, TableOf DEF Return, Exit, End, TypeOK
    <3> QED BY <2>1, <3>1 DEF Return
  <2>2. CASE Quiet(Finish(s)) \/ Quiet(Crash(s))
    <3>1. exitCode' = exitCode /\ pc[s] # "exited"
      BY <2>2 DEF Quiet, Finish, Crash, Running
    <3>2. exitCode[s] = "none" /\ exitCode \in [Session -> {"none", "success", "failure"}]
      BY <3>1, TableOf DEF CommandIsRight, Tables
    <3> QED BY <3>1, <3>2
  <2> QED BY <2>1, <2>2
<1>5. Tables' BY <1>3, <1>4, TableOf DEF Tables
<1>6. exitCode'[s] = code /\ \A t \in Session : t # s => exitCode'[t] = exitCode[t]
  BY <1>4, TableOf DEF Tables
<1>7. ASSUME NEW p \in Package PROVE RowIsRight(s, p)'
  <2>1. RowIsRight(s, p) BY TableOf
  <2>2. pc'[s] = "finished" => ~Spins(rows[s][p]) BY <1>3, <2>1 DEF RowIsRight
  <2> QED BY <1>3, <2>1, <2>2 DEF RowIsRight
<1>8. \A l \in DOMAIN Layers[s] : Ahead(s, l)' => Ahead(s, l) BY <1>3 DEF Ahead
<1>9. ProgressIsRight(s)'
  <2>1. ProgressIsRight(s) BY TableOf
  <2>2. \A l \in Layer : Planned(s, l) => Planned(s, l)'
    <3>1. CASE Finish(s) BY <3>1 DEF Finish, Planned
    <3>2. CASE Exit(s) \/ Crash(s) BY <3>2, TableOf, CutOffFacts DEF Exit, Crash, Planned
    <3> QED BY <1>0, <3>1, <3>2
  <2> QED BY <1>3, <1>8, <2>1, <2>2 DEF ProgressIsRight
<1>10. ASSUME code = "success", NEW p \in Selected(s) PROVE status'[s][p] = "done"
  <2>1. CASE exitCode[s] = "success" BY <1>3, <2>1, TableOf DEF CommandIsRight
  <2>2. CASE pc[s] = "finished" /\ Success(s)
    <3>1. PICK l \in DOMAIN Layers[s] : p \in Range(Layers[s][l]) BY DEF Selected
    <3>2. l < layer[s] BY <2>2, <3>1, TableOf DEF ProgressIsRight
    <3>3. p \in failed[s] \/ status[s][p] = "done"
      BY <3>1, <3>2, TableOf DEF RunIsRight, VerdictsAreRight
    <3>4. p \notin failed[s] BY <2>2, TableOf DEF Success, ProgressIsRight
    <3> QED BY <1>3, <3>3, <3>4
  <2> QED BY <1>4, <1>10, <2>1, <2>2
<1>11. CommandIsRight(s)' BY <1>4, <1>6, <1>7, <1>9, <1>10 DEF CommandIsRight
<1>12. \A t \in Session : t # s => rows'[t] = rows[t] /\ exitCode'[t] = exitCode[t]
  BY <1>3, <1>6
<1> QED BY <1>1, <1>2, <1>5, <1>11, <1>12, OthersStay

\* A step that only moves a task, or a query: nothing it changes is in the table.
LEMMA QuietStep ==
  ASSUME CInv, NEW s \in Session,
         \/ \E p \in Package : Quiet(ReadVersionCount(s, p))
         \/ \E l \in Layer : \/ Quiet(Prepare(s, l)) \/ Quiet(PrepareFails(s, l))
                             \/ Quiet(ChunkFails(s, l)) \/ Quiet(PublishStep(s, l))
                             \/ Quiet(LateStep(s, l))
  PROVE  CInv'
<1>0. /\ SessionStep(s) \/ \E l \in Layer : LateStep(s, l)
      /\ rows' = rows /\ exitCode' = exitCode
  BY DEF Quiet, SessionStep, LoopStep, BatchStep
<1>1. IInv' BY <1>0, Inductive DEF CInv, Next
<1>2. Moves(s) BY <1>0, TableOf, OneMoves
<1>3. /\ pc' = pc /\ layer' = layer /\ failed' = failed /\ status' = status
      /\ deployables' = deployables /\ addresses' = addresses
  BY DEF Quiet, ReadVersionCount, Prepare, PrepareFails, ChunkFails, PublishStep, StoreBlob,
         StoreFails, LateStep, LateChunkLands, LateChunkExpires, LateBlobSettles, locals
<1>4. \A l \in Layer : Planned(s, l) => Planned(s, l)'
  <2>0. batch \in [Session -> [Layer ->
                     TaskType({"idle", "preparing", "running", "resolved", "rejected", "lost"})]]
    BY TableOf DEF TypeOK
  <2>1. CASE batch' = batch BY <2>1 DEF Planned
  <2>2. ASSUME NEW l \in Layer,
               \/ Prepare(s, l) \/ PrepareFails(s, l) \/ ChunkFails(s, l)
               \/ LateChunkLands(s, l) \/ LateChunkExpires(s, l)
        PROVE  \E task : batch' = [batch EXCEPT ![s][l] = task] /\ task.state # "idle"
    <3>1. CASE Prepare(s, l)
      <4>1. batch' = [batch EXCEPT ![s][l] = Task("running")] BY <3>1 DEF Prepare
      <4>2. Task("running").state = "running" BY DEF Task
      <4> QED BY <4>1, <4>2
    <3>2. CASE ~Prepare(s, l)
      <4>1. \/ batch' = [batch EXCEPT ![s][l] = Reject(batch[s][l])]
            \/ batch' = [batch EXCEPT ![s][l] = Lose(batch[s][l])]
        BY <2>0, <2>2, <3>2 DEF PrepareFails, ChunkFails, LateChunkLands, LateChunkExpires
      <4>2. Reject(batch[s][l]).state = "rejected" /\ Lose(batch[s][l]).state = "lost"
        BY <2>0 DEF Reject, Lose, TaskType
      <4> QED BY <4>1, <4>2
    <3> QED BY <3>1, <3>2
  <2>3. ASSUME NEW l \in Layer, NEW task, batch' = [batch EXCEPT ![s][l] = task], task.state # "idle"
        PROVE  \A k \in Layer : Planned(s, k) => Planned(s, k)'
    BY <2>0, <2>3 DEF Planned
  <2>4. \/ batch' = batch
        \/ \E l \in Layer : \/ Prepare(s, l) \/ PrepareFails(s, l) \/ ChunkFails(s, l)
                            \/ LateChunkLands(s, l) \/ LateChunkExpires(s, l)
    BY DEF Quiet, ReadVersionCount, PublishStep, StoreBlob, StoreFails, LateStep, LateBlobSettles
  <2> QED BY <2>1, <2>2, <2>3, <2>4
<1>5. CommandIsRight(s)' BY <1>0, <1>3, <1>4, TableOf, CommandStays
<1>6. Tables' BY <1>0, TableOf DEF Tables
<1> QED BY <1>0, <1>1, <1>2, <1>5, <1>6, OthersStay

\* The build of a layer: its rows are pending and unreported before.
LEMMA BuildLayerStep == ASSUME CInv, NEW s \in Session, BuildLayer(s) PROVE CInv'
<1>0. Build(s) BY DEF BuildLayer
<1>1. IInv' BY <1>0, Inductive DEF CInv, Next, SessionStep, LoopStep
<1>2. Moves(s) BY <1>0, TableOf, OneMoves DEF SessionStep, LoopStep
<1>3. PICK k : k = layer[s] OBVIOUS
<1>4. PICK here : here = Layers[s][k] OBVIOUS
<1>5. PICK gone, ready :
        /\ gone \in SUBSET Range(here) /\ ready \in InOrder(Range(here) \ gone, here)
        /\ GiveUp(s, gone)
        /\ deployables' = [deployables EXCEPT ![s][k] = ready]
        /\ pc' = [pc EXCEPT ![s] = IF ready = <<>> THEN "build" ELSE "versions"]
        /\ layer' = [layer EXCEPT ![s] = IF ready = <<>> THEN @ + 1 ELSE @]
        /\ pc[s] = "build" /\ k \in DOMAIN Layers[s]
        /\ batch' = batch /\ addresses' = addresses
  <2>1. PICK skipped : skipped = {p \in Range(here) : DependsOn[p] \cap failed[s] # {}} OBVIOUS
  <2>2. PICK broken \in SUBSET (Range(here) \ skipped) :
          \E ready \in InOrder(Range(here) \ (skipped \cup broken), here) :
          /\ GiveUp(s, skipped \cup broken)
          /\ deployables' = [deployables EXCEPT ![s][layer[s]] = ready]
          /\ pc' = [pc EXCEPT ![s] = IF ready = <<>> THEN "build" ELSE "versions"]
          /\ layer' = [layer EXCEPT ![s] = IF ready = <<>> THEN @ + 1 ELSE @]
    BY <1>0, <1>3, <1>4, <2>1 DEF Build
  <2>3. skipped \cup broken \in SUBSET Range(here) BY <2>1
  <2>4. pc[s] = "build" /\ k \in DOMAIN Layers[s] /\ batch' = batch /\ addresses' = addresses
    BY <1>0, <1>3 DEF Build
  <2> QED BY <1>3, <2>2, <2>3, <2>4
<1>6. /\ Range(ready) = Range(here) \ gone /\ Range(here) \subseteq Package /\ ready \in Seq(Package)
      /\ k \in Layer /\ k \in Nat
  <2>1. PICK packages : packages = Range(here) \ gone OBVIOUS
  <2>2. packages \in SUBSET Range(Layers[s][k]) /\ k \in DOMAIN Layers[s] BY <1>4, <1>5, <2>1
  <2>3. ready \in InOrder(packages, Layers[s][k]) BY <1>4, <1>5, <2>1
  <2>4. ready \in Seq(Package) /\ Range(ready) = packages
    <3>1. \A r \in InOrder(packages, Layers[s][k]) : r \in Seq(Package) /\ Range(r) = packages
      <4> SUFFICES ASSUME NEW r \in InOrder(packages, Layers[s][k])
                   PROVE  r \in Seq(Package) /\ Range(r) = packages
        OBVIOUS
      <4>1. /\ r \in Seq(Package) /\ Range(r) = packages
            /\ \A i, j \in DOMAIN r : r[i] = r[j] => i = j
        BY <2>2, FilterFacts
      <4> QED BY <4>1
    <3> QED BY <2>3, <3>1
  <2> QED BY <1>3, <1>4, <1>5, <2>1, <2>4, TableOf
<1>7. /\ failed'[s] = failed[s] \cup gone
      /\ \A p \in Package : status'[s][p] = IF p \in gone THEN "error" ELSE status[s][p]
      /\ deployables'[s] = [deployables[s] EXCEPT ![k] = ready]
      /\ deployables[s] \in [Layer -> Seq(Package)]
      /\ \/ ready = <<>> /\ pc'[s] = "build" /\ layer'[s] = k + 1
         \/ ready # <<>> /\ pc'[s] = "versions" /\ layer'[s] = k
  BY <1>3, <1>5, TableOf DEF GiveUp, TypeOK
<1>8. Ahead(s, k) BY <1>3, <1>5 DEF Ahead
<1>9. \A p \in Range(here) : addresses[s][p] = NoAddress /\ status[s][p] = "pending"
  BY <1>4, <1>5, <1>8, TableOf, Unreported DEF ProgressIsRight
<1>10. ProgressIsRight(s)'
  <2>1. \A p \in failed'[s] : status'[s][p] = "error"
    <3>1. failed[s] \subseteq Package BY TableOf DEF TypeOK
    <3>2. \A p \in failed[s] : status[s][p] = "error" BY TableOf DEF ProgressIsRight
    <3>3. gone \subseteq Package BY <1>5, <1>6
    <3> QED BY <1>7, <3>1, <3>2, <3>3
  <2>2. ASSUME NEW l \in DOMAIN Layers[s], Ahead(s, l)', NEW p \in Range(Layers[s][l])
        PROVE  status'[s][p] = "pending"
    <3>1. Ahead(s, l) /\ l # k
      BY <1>3, <1>5, <1>6, <1>7, <2>2, TableOf DEF Ahead
    <3>2. p \notin Range(here) /\ p \in Package BY <1>4, <1>5, <3>1, OneLayer, TableOf
    <3>3. status[s][p] = "pending" BY <2>2, <3>1, TableOf DEF ProgressIsRight
    <3>4. p \notin gone BY <1>5, <3>2
    <3> QED BY <1>7, <3>2, <3>3, <3>4
  <2>3. pc'[s] \in {"versions", "submit"} => \A p \in Here(s)' : status'[s][p] = "pending"
    <3> SUFFICES ASSUME pc'[s] = "versions" PROVE \A p \in Here(s)' : status'[s][p] = "pending"
      BY <1>7
    <3>1. Here(s)' = Range(ready) BY <1>6, <1>7 DEF Here
    <3> QED BY <1>6, <1>7, <1>9, <3>1
  <2>4. ASSUME NEW p \in Package, addresses'[s][p] # NoAddress
        PROVE  \E l \in Layer : Planned(s, l)' /\ p \in Range(deployables'[s][l])
    <3>1. PICK l \in Layer : Planned(s, l) /\ p \in Range(deployables[s][l])
      BY <1>5, <2>4, TableOf DEF ProgressIsRight
    <3>2. l # k BY <1>8, <3>1, TableOf DEF RunIsRight, TasksAreRight
    <3> QED BY <1>5, <1>7, <3>1, <3>2 DEF Planned
  <2> QED BY <1>7, <2>1, <2>2, <2>3, <2>4 DEF ProgressIsRight
<1>11. PICK given : given = failed'[s] \ failed[s] OBVIOUS
<1>12. given \subseteq Range(here) BY <1>5, <1>7, <1>11
<1>13. PICK late, told, built, table :
         /\ late = {p \in given : DependsOn[p] \cap failed[s] = {}} \cap FailsLate
         /\ told = Updated(rows[s], [p \in late |-> BuildProgress(rows[s][p])])
         /\ built = Updated(told, [p \in Range(ready) |-> BuildDone(told[p])])
         /\ table = Updated(built, [p \in given |-> BuildError(built[p])])
  OBVIOUS
<1>14. rows' = [rows EXCEPT ![s] = table] /\ exitCode' = exitCode
  <2>1. Range(deployables'[s][layer[s]]) = Range(ready) BY <1>3, <1>6, <1>7
  <2> QED BY <1>11, <1>13, <2>1 DEF BuildLayer
<1>15. ASSUME NEW p \in Package
       PROVE  /\ table[p] \in RowType /\ (Spins(table[p]) => Spins(rows[s][p]))
              /\ p \notin Range(here) => table[p] = rows[s][p]
  <2>1. /\ told[p] \in {rows[s][p], BuildProgress(rows[s][p])}
        /\ built[p] \in {told[p], BuildDone(told[p])}
        /\ table[p] \in {built[p], BuildError(built[p])}
    BY <1>13 DEF Updated
  <2>2. p \notin Range(here) => table[p] = rows[s][p]
    BY <1>6, <1>12, <1>13 DEF Updated
  <2>3. \A row \in RowType :
          /\ BuildProgress(row) \in RowType /\ (Spins(BuildProgress(row)) => Spins(row))
          /\ BuildDone(row) \in RowType /\ (Spins(BuildDone(row)) => Spins(row))
          /\ BuildError(row) \in RowType /\ (Spins(BuildError(row)) => Spins(row))
    BY DEF RowType, BuildProgress, BuildDone, BuildError, Spins
  <2>4. rows[s][p] \in RowType BY TableOf
  <2>5. told[p] \in RowType /\ (Spins(told[p]) => Spins(rows[s][p])) BY <2>1, <2>3, <2>4
  <2>6. built[p] \in RowType /\ (Spins(built[p]) => Spins(rows[s][p])) BY <2>1, <2>3, <2>5
  <2> QED BY <2>1, <2>2, <2>3, <2>6
<1>16. table \in [Package -> RowType]
  <2>1. table = [p \in Package |-> table[p]] BY <1>13 DEF Updated
  <2> QED BY <1>15, <2>1
<1>17. Tables' /\ rows'[s] = table BY <1>14, <1>16, TableOf DEF Tables
<1>18. ASSUME NEW p \in Package PROVE RowIsRight(s, p)'
  <2>1. RowIsRight(s, p) BY TableOf
  <2>2. ~Spins(table[p]) BY <1>5, <1>15, <2>1 DEF RowIsRight
  <2>3. CASE p \in Range(here)
    <3>1. status'[s][p] # "done" BY <1>7, <1>9, <2>3
    <3> QED BY <1>5, <1>9, <1>17, <2>2, <2>3, <3>1 DEF RowIsRight
  <2>4. CASE p \notin Range(here)
    <3>1. status'[s][p] = status[s][p] /\ table[p] = rows[s][p] BY <1>5, <1>7, <1>15, <2>4
    <3> QED BY <1>5, <1>17, <2>1, <2>2, <3>1 DEF RowIsRight
  <2> QED BY <2>3, <2>4
<1>19. exitCode[s] = "none" BY <1>5, TableOf DEF CommandIsRight, Tables
<1>20. CommandIsRight(s)' BY <1>10, <1>14, <1>18, <1>19 DEF CommandIsRight
<1>21. \A t \in Session : t # s => rows'[t] = rows[t] /\ exitCode'[t] = exitCode[t]
  BY <1>14, TableOf DEF Tables
<1> QED BY <1>1, <1>2, <1>17, <1>20, <1>21, OthersStay

\* The layer is submitted, and the cells of its rows begin to spin.
LEMMA SubmitStep == ASSUME CInv, NEW s \in Session, Submit(s) PROVE CInv'
<1>0. Plan(s) BY DEF Submit
<1>1. IInv' BY <1>0, Inductive DEF CInv, Next, SessionStep, LoopStep
<1>2. Moves(s) BY <1>0, TableOf, OneMoves DEF SessionStep, LoopStep
<1>3. /\ pc[s] = "versions" /\ pc'[s] = "submit" /\ layer' = layer /\ failed' = failed
      /\ status' = status /\ deployables' = deployables /\ addresses' = addresses
      /\ batch' = [batch EXCEPT ![s][layer[s]] = Task("preparing")]
  BY <1>0, TableOf DEF Plan, TypeOK
<1>4. /\ layer[s] \in DOMAIN Layers[s] /\ Here(s) \subseteq Range(Layers[s][layer[s]])
      /\ Here(s) \subseteq Package
  <2>1. layer[s] \in DOMAIN Layers[s] BY <1>3, TableOf DEF RunIsRight, LoopIsRight
  <2> QED BY <2>1, TableOf DEF Here, RunIsRight, LayerIsRight
<1>5. \A p \in Here(s) : addresses[s][p] = NoAddress /\ status[s][p] = "pending"
  BY <1>3, <1>4, TableOf, Unreported DEF ProgressIsRight
<1>6. Here(s)' = Here(s) BY <1>3 DEF Here
<1>7. ProgressIsRight(s)'
  <2>1. ProgressIsRight(s) BY TableOf
  <2>2. \A l \in Layer : Planned(s, l) => Planned(s, l)'
    <3>1. Task("preparing").state = "preparing" BY DEF Task
    <3> QED BY <1>3, <3>1, TableOf DEF Planned, TypeOK
  <2>3. \A l \in DOMAIN Layers[s] : Ahead(s, l)' => Ahead(s, l) BY <1>3 DEF Ahead
  <2> QED BY <1>3, <1>6, <2>1, <2>2, <2>3 DEF ProgressIsRight
<1>8. PICK table :
        table = Updated(rows[s], [p \in Here(s) |-> PublishStart(DeployRegisterStart(rows[s][p]))])
  OBVIOUS
<1>9. rows' = [rows EXCEPT ![s] = table] /\ exitCode' = exitCode BY <1>8 DEF Submit, Emit
<1>10. ASSUME NEW p \in Package
       PROVE  table[p] \in RowType /\ (p \notin Here(s) => table[p] = rows[s][p])
  <2>1. \A row \in RowType : DeployRegisterStart(row) \in RowType /\ PublishStart(row) \in RowType
    BY DEF RowType, DeployRegisterStart, PublishStart
  <2>2. table[p] = IF p \in Here(s) THEN PublishStart(DeployRegisterStart(rows[s][p])) ELSE rows[s][p]
    BY <1>8 DEF Updated
  <2> QED BY <2>1, <2>2, TableOf
<1>11. table \in [Package -> RowType]
  <2>1. table = [p \in Package |-> table[p]] BY <1>8 DEF Updated
  <2> QED BY <1>10, <2>1
<1>12. Tables' /\ rows'[s] = table BY <1>9, <1>11, TableOf DEF Tables
<1>13. ASSUME NEW p \in Package PROVE RowIsRight(s, p)'
  <2>1. RowIsRight(s, p) BY TableOf
  <2>2. CASE p \in Here(s) BY <1>3, <1>5, <1>6, <2>2 DEF RowIsRight
  <2>3. CASE p \notin Here(s)
    <3>1. ~Spins(rows[s][p]) BY <1>3, <2>1 DEF RowIsRight
    <3> QED BY <1>3, <1>10, <1>12, <2>1, <2>3, <3>1 DEF RowIsRight
  <2> QED BY <2>2, <2>3
<1>14. exitCode[s] = "none" BY <1>3, TableOf DEF CommandIsRight, Tables
<1>15. CommandIsRight(s)' BY <1>7, <1>9, <1>13, <1>14 DEF CommandIsRight
<1>16. \A t \in Session : t # s => rows'[t] = rows[t] /\ exitCode'[t] = exitCode[t]
  BY <1>9, TableOf DEF Tables
<1> QED BY <1>1, <1>2, <1>12, <1>15, <1>16, OthersStay

\* A chunk has landed: what gets an address is done, and no longer deploys.
LEMMA ChunkDoneStep ==
  ASSUME CInv, NEW s \in Session, NEW l \in Layer, ChunkDone(s, l)
  PROVE  CInv'
<1>0. ChunkLands(s, l) BY DEF ChunkDone
<1>1. IInv' BY <1>0, Inductive DEF CInv, Next, SessionStep, BatchStep
<1>2. Moves(s) BY <1>0, TableOf, OneMoves DEF SessionStep, BatchStep
<1>3. PICK last \in DOMAIN chunks[s][l] :
        /\ batch[s][l].state = "running" /\ EndsAt(s, l, last) /\ OnChunk(s, l, Chunk(s, l, last))
        /\ batch' = [batch EXCEPT ![s][l] = Advance(last + 1, deployables[s][l])]
        /\ pc' = pc /\ layer' = layer /\ failed' = failed /\ status' = status
        /\ deployables' = deployables
  BY <1>0 DEF ChunkLands
<1>4. TasksAreRight(s, l) /\ TypeOK BY TableOf DEF RunIsRight
<1>5. PICK chunk : chunk = Range(Chunk(s, l, last)) OBVIOUS
<1>6. /\ addresses'[s] = [p \in Package |-> IF p \in chunk THEN Address(s, p) ELSE addresses[s][p]]
      /\ Planned(s, l) /\ chunk \subseteq Range(deployables[s][l])
  BY <1>3, <1>4, <1>5, Reported, ChunkFacts
<1>7. ASSUME NEW p \in Package, addresses'[s][p] # addresses[s][p]
      PROVE  /\ p \in chunk /\ addresses'[s][p] \in AddressType
             /\ status[s][p] # "done"
  <2>1. p \in chunk /\ addresses'[s][p] = Address(s, p) BY <1>6, <1>7
  <2>2. nextVersion[s][p] # Unread BY <1>4, <1>6, <2>1 DEF TasksAreRight
  <2>3. Address(s, p) \in AddressType BY <1>4, <2>2, AddressIsAddress
  <2>4. addresses[s][p] = NoAddress
    BY <1>7, <2>1, TableOf DEF RunIsRight, ReportIsRight
  <2>5. status[s][p] # "done" BY <2>4, TableOf DEF RunIsRight, VerdictsAreRight
  <2> QED BY <2>1, <2>3, <2>5
<1>8. \A k \in Layer : Planned(s, k) => Planned(s, k)'
  <2>1. Advance(last + 1, deployables[s][l]).state # "idle" BY DEF Advance
  <2> QED BY <1>3, <1>4, <1>6, <2>1 DEF Planned, TypeOK
<1>9. ProgressIsRight(s)'
  <2>1. ProgressIsRight(s) BY TableOf
  <2>2. ASSUME NEW p \in Package, addresses'[s][p] # NoAddress
        PROVE  \E k \in Layer : Planned(s, k)' /\ p \in Range(deployables'[s][k])
    <3>1. CASE p \in chunk BY <1>3, <1>6, <1>8, <3>1
    <3>2. CASE p \notin chunk
      <4>1. PICK k \in Layer : Planned(s, k) /\ p \in Range(deployables[s][k])
        BY <1>6, <2>1, <2>2, <3>2 DEF ProgressIsRight
      <4> QED BY <1>3, <1>8, <4>1
    <3> QED BY <3>1, <3>2
  <2>3. Here(s)' = Here(s) BY <1>3 DEF Here
  <2>4. \A k \in DOMAIN Layers[s] : Ahead(s, k)' <=> Ahead(s, k) BY <1>3 DEF Ahead
  <2> QED BY <1>3, <2>1, <2>2, <2>3, <2>4 DEF ProgressIsRight
<1>10. PICK table : table = [p \in Package |->
         IF addresses'[s][p] # addresses[s][p] THEN DeployRegisterDone(rows[s][p], addresses'[s][p])
                                               ELSE rows[s][p]]
  OBVIOUS
<1>11. rows' = [rows EXCEPT ![s] = table] /\ exitCode' = exitCode BY <1>10 DEF ChunkDone
<1>12. table \in [Package -> RowType]
  <2> SUFFICES ASSUME NEW p \in Package PROVE table[p] \in RowType BY <1>10
  <2>1. rows[s][p] \in RowType BY TableOf
  <2>2. CASE addresses'[s][p] # addresses[s][p] BY <1>7, <1>10, <2>1, <2>2, Events
  <2> QED BY <1>10, <2>1, <2>2
<1>13. Tables' /\ rows'[s] = table BY <1>11, <1>12, TableOf DEF Tables
<1>14. ASSUME NEW p \in Package PROVE RowIsRight(s, p)'
  <2>1. RowIsRight(s, p) /\ rows[s][p] \in RowType BY TableOf
  <2>2. Here(s)' = Here(s) BY <1>3 DEF Here
  <2>3. CASE addresses'[s][p] = addresses[s][p]
    <3>1. table[p] = rows[s][p] BY <1>10, <2>3
    <3> QED BY <1>3, <1>13, <2>1, <2>2, <2>3, <3>1 DEF RowIsRight
  <2>4. CASE addresses'[s][p] # addresses[s][p]
    <3>1. PICK address \in AddressType : address = addresses'[s][p] BY <1>7, <2>4
    <3>2. table[p] = DeployRegisterDone(rows[s][p], address) BY <1>10, <2>4, <3>1
    <3>3. /\ Spins(table[p]) => Spins(rows[s][p])
          /\ table[p].address = address /\ table[p].state = "done"
          /\ ~table[p].deploying /\ ~table[p].registering
      <4>1. PICK row \in RowType : row = rows[s][p] BY <2>1
      <4>2. /\ Spins(DeployRegisterDone(row, address)) => Spins(row)
            /\ DeployRegisterDone(row, address).address = address
            /\ DeployRegisterDone(row, address).state = "done"
            /\ ~DeployRegisterDone(row, address).deploying
            /\ ~DeployRegisterDone(row, address).registering
        BY Events
      <4> QED BY <3>2, <4>1, <4>2, Zenon
    <3>4. status'[s][p] # "done" BY <1>3, <1>7, <2>4
    <3> QED BY <1>3, <1>13, <2>1, <2>2, <3>1, <3>3, <3>4 DEF RowIsRight
  <2> QED BY <2>3, <2>4
<1>15. exitCode'[s] = exitCode[s] /\ pc'[s] = pc[s] /\ status'[s] = status[s] BY <1>3, <1>11
<1>16. CommandIsRight(s)' BY <1>9, <1>14, <1>15, TableOf DEF CommandIsRight
<1>17. \A t \in Session : t # s => rows'[t] = rows[t] /\ exitCode'[t] = exitCode[t]
  BY <1>11, TableOf DEF Tables
<1> QED BY <1>1, <1>2, <1>13, <1>16, <1>17, OthersStay

\* The layer ends: its rows get their last event, and nothing spins any more.
LEMMA LayerEndStep ==
  ASSUME CInv, NEW s \in Session, LayerPublished(s) \/ LayerError(s)
  PROVE  CInv'
<1>0. LayerDone(s) \/ LayerFails(s) BY DEF LayerPublished, LayerError
<1>1. IInv' BY <1>0, Inductive DEF CInv, Next, SessionStep, LoopStep
<1>2. Moves(s) BY <1>0, TableOf, OneMoves DEF SessionStep, LoopStep
<1>3. PICK k, here : k = layer[s] /\ here = Here(s) OBVIOUS
<1>4. /\ pc[s] \in {"versions", "submit"} /\ pc'[s] = "build" /\ layer'[s] = k + 1
      /\ deployables' = deployables /\ batch' = batch /\ addresses' = addresses
  BY <1>0, <1>3, TableOf DEF LayerDone, LayerFails, TypeOK
<1>5. k \in DOMAIN Layers[s] /\ here \subseteq Range(Layers[s][k]) /\ here \subseteq Package /\ k \in Nat
  <2>1. k \in DOMAIN Layers[s] /\ deployables[s][k] # <<>> BY <1>3, <1>4, TableOf DEF RunIsRight, LoopIsRight
  <2> QED BY <1>3, <2>1, TableOf DEF Here, RunIsRight, LayerIsRight
<1>6. \A p \in here : status[s][p] = "pending" /\ p \notin failed[s]
  BY <1>3, <1>4, TableOf DEF ProgressIsRight
<1>7. \A p \in Package : p \notin here => ~Spins(rows[s][p])
  BY <1>3, <1>4, TableOf DEF RowIsRight
<1>8. PICK verdict \in {"done", "error"} :
        /\ status'[s] = [p \in Package |-> IF p \in here THEN verdict ELSE status[s][p]]
        /\ failed'[s] = IF verdict = "done" THEN failed[s] ELSE failed[s] \cup here
        /\ verdict = "done" <=> LayerPublished(s)
        /\ verdict = "error" <=> LayerError(s)
        /\ verdict = "done" => \A p \in here : addresses[s][p] # NoAddress
  <2>1. CASE LayerPublished(s)
    <3>1. /\ status'[s] = [p \in Package |-> IF p \in here THEN "done" ELSE status[s][p]]
          /\ failed' = failed /\ Resolved(s) /\ pc[s] = "submit"
      BY <1>3, <2>1, TableOf DEF LayerPublished, LayerDone, TypeOK
    <3>2. batch[s][k].state = "resolved" BY <1>3, <3>1 DEF Resolved, Outcomes
    <3>3. k \in Layer BY <1>5, TableOf
    <3>4. TasksAreRight(s, k) /\ WorkIsRight(s, k) /\ deployables[s][k] \in Seq(Package)
      BY <3>3, TableOf, RunTypes DEF RunIsRight
    <3>5. batch[s][k].next = Len(deployables[s][k]) + 1 BY <3>2, <3>4 DEF TasksAreRight, Within
    <3>6. \A i \in DOMAIN deployables[s][k] : i < batch[s][k].next BY <3>4, <3>5
    <3>7. \A p \in here : addresses[s][p] # NoAddress
      BY <1>3, <3>4, <3>6 DEF WorkIsRight, Here, Range
    <3>8. ~LayerError(s)
      <4>1. Rejected(s) => FALSE BY <3>1 DEF Rejected, Resolved
      <4>2. PICK d : d \in here
        <5>1. deployables[s][k] # <<>> BY <1>3, <1>4, TableOf DEF RunIsRight, LoopIsRight
        <5>2. 1 \in DOMAIN deployables[s][k] BY <3>4, <5>1
        <5> QED BY <1>3, <5>2 DEF Here, Range
      <4>3. LayerError(s) => status'[s][d] = "error"
        BY <1>3, <1>5, <4>2, TableOf DEF LayerError, LayerFails, GiveUp, TypeOK
      <4> QED BY <1>5, <3>1, <4>2, <4>3
    <3> QED BY <2>1, <3>1, <3>7, <3>8
  <2>2. CASE LayerError(s) /\ ~LayerPublished(s)
    <3>1. /\ status'[s] = [p \in Package |-> IF p \in here THEN "error" ELSE status[s][p]]
          /\ failed'[s] = failed[s] \cup here
      BY <1>3, <2>2, TableOf DEF LayerError, LayerFails, GiveUp, TypeOK
    <3> QED BY <2>2, <3>1
  <2> QED BY <2>1, <2>2
<1>9. ProgressIsRight(s)'
  <2>1. ProgressIsRight(s) /\ failed[s] \subseteq Package BY TableOf DEF TypeOK
  <2>2. \A p \in failed'[s] : status'[s][p] = "error"
    BY <1>5, <1>6, <1>8, <2>1 DEF ProgressIsRight
  <2>3. ASSUME NEW l \in DOMAIN Layers[s], Ahead(s, l)', NEW p \in Range(Layers[s][l])
        PROVE  status'[s][p] = "pending"
    <3>1. Ahead(s, l) /\ l # k
      BY <1>3, <1>4, <1>5, <2>3, TableOf DEF Ahead
    <3>2. p \notin here /\ p \in Package BY <1>5, <3>1, OneLayer, TableOf
    <3>3. status[s][p] = "pending" BY <2>1, <2>3, <3>1 DEF ProgressIsRight
    <3> QED BY <1>8, <3>2, <3>3
  <2>4. \A p \in Package : addresses'[s][p] # NoAddress =>
          \E l \in Layer : Planned(s, l)' /\ p \in Range(deployables'[s][l])
    BY <1>4, <2>1 DEF ProgressIsRight, Planned
  <2> QED BY <1>4, <2>2, <2>3, <2>4 DEF ProgressIsRight
<1>10. PICK table : table = [p \in Package |->
         IF p \notin here THEN rows[s][p] ELSE IF verdict = "done" THEN PublishDone(rows[s][p])
                                                      ELSE DeployRegisterError(rows[s][p])]
  OBVIOUS
<1>11. rows' = [rows EXCEPT ![s] = table] /\ exitCode' = exitCode
  <2>1. CASE LayerPublished(s)
    <3>1. verdict = "done" BY <1>8, <2>1
    <3>2. table = Updated(rows[s], [p \in here |-> PublishDone(rows[s][p])]) BY <1>10, <3>1 DEF Updated
    <3> QED BY <1>3, <2>1, <3>2 DEF LayerPublished, Emit
  <2>2. CASE LayerError(s)
    <3>1. verdict = "error" BY <1>8, <2>2
    <3>2. table = Updated(rows[s], [p \in here |-> DeployRegisterError(rows[s][p])]) BY <1>10, <3>1 DEF Updated
    <3> QED BY <1>3, <2>2, <3>2 DEF LayerError, Emit
  <2> QED BY <2>1, <2>2
<1>12. ASSUME NEW p \in Package
       PROVE  /\ table[p] \in RowType /\ ~Spins(table[p])
              /\ table[p].address = rows[s][p].address
              /\ p \notin here => table[p] = rows[s][p]
              /\ p \in here /\ verdict = "done" => table[p].cid /\ table[p].state = rows[s][p].state
  <2>1. rows[s][p] \in RowType /\ RowIsRight(s, p) BY TableOf
  <2>2. CASE p \notin here BY <1>7, <1>10, <2>1, <2>2
  <2>3. CASE p \in here /\ verdict = "error"
    <3>1. table[p] = DeployRegisterError(rows[s][p]) BY <1>10, <2>3
    <3>2. /\ DeployRegisterError(rows[s][p]) \in RowType /\ ~Spins(DeployRegisterError(rows[s][p]))
          /\ DeployRegisterError(rows[s][p]).address = rows[s][p].address
      BY <2>1 DEF RowType, DeployRegisterError, Spins
    <3> QED BY <2>3, <3>1, <3>2
  <2>4. CASE p \in here /\ verdict = "done"
    <3>1. table[p] = PublishDone(rows[s][p]) BY <1>10, <2>4
    <3>2. ~rows[s][p].deploying /\ ~rows[s][p].registering BY <1>8, <2>1, <2>4 DEF RowIsRight
    <3>3. /\ PublishDone(rows[s][p]) \in RowType /\ PublishDone(rows[s][p]).cid
          /\ ~PublishDone(rows[s][p]).publishing
          /\ ~PublishDone(rows[s][p]).deploying /\ ~PublishDone(rows[s][p]).registering
          /\ PublishDone(rows[s][p]).address = rows[s][p].address
          /\ PublishDone(rows[s][p]).state = rows[s][p].state
      BY <2>1, <3>2 DEF RowType, PublishDone
    <3> QED BY <2>4, <3>1, <3>3 DEF Spins
  <2> QED BY <2>2, <2>3, <2>4
<1>13. table \in [Package -> RowType] BY <1>10, <1>12
<1>14. Tables' /\ rows'[s] = table BY <1>11, <1>13, TableOf DEF Tables
<1>15. ASSUME NEW p \in Package PROVE RowIsRight(s, p)'
  <2>1. RowIsRight(s, p) /\ ~Spins(table[p]) /\ table[p].address = rows[s][p].address
    BY <1>12, TableOf
  <2>2. addresses[s][p] # NoAddress => ~table[p].deploying /\ ~table[p].registering
    BY <2>1 DEF Spins
  <2>3. CASE p \notin here
    <3>1. status'[s][p] = status[s][p] /\ table[p] = rows[s][p] BY <1>8, <1>12, <2>3
    <3> QED BY <1>4, <1>14, <2>1, <2>2, <3>1 DEF RowIsRight
  <2>4. CASE p \in here
    <3>1. status'[s][p] = verdict /\ status[s][p] = "pending" BY <1>6, <1>8, <2>4
    <3>2. verdict = "done" => table[p].cid /\ table[p].state = rows[s][p].state BY <1>12, <2>4
    <3> QED BY <1>4, <1>14, <2>1, <2>2, <3>1, <3>2 DEF RowIsRight
  <2> QED BY <2>3, <2>4
<1>16. exitCode[s] = "none" BY <1>4, TableOf DEF CommandIsRight, Tables
<1>17. CommandIsRight(s)' BY <1>9, <1>11, <1>15, <1>16 DEF CommandIsRight
<1>18. \A t \in Session : t # s => rows'[t] = rows[t] /\ exitCode'[t] = exitCode[t]
  BY <1>11, TableOf DEF Tables
<1> QED BY <1>1, <1>2, <1>14, <1>17, <1>18, OthersStay

-----------------------------------------------------------------------------
(* The theorems about the command. *)

LEMMA CommandInvariant == CommandSpec => []CInv
<1>1. CommandInit => CInv
  <2> SUFFICES ASSUME CommandInit PROVE CInv OBVIOUS
  <2>1. Init /\ IInv BY InitIsRight DEF CommandInit, CommandInitFor, Init
  <2>2. /\ \A s \in Session : pc[s] = "waiting" /\ layer[s] = 1 /\ failed[s] = {}
        /\ \A s \in Session, p \in Package :
             /\ status[s][p] = "pending" /\ addresses[s][p] = NoAddress
             /\ rows[s][p] = Waiting
        /\ \A s \in Session : exitCode[s] = "none"
    BY <2>1 DEF CommandInit, CommandInitFor, Init, InitFor
  <2>3. Tables BY WaitingIsARow DEF CommandInit, CommandInitFor, Tables
  <2>4. ASSUME NEW s \in Session PROVE CommandIsRight(s)
    <3>1. \A p \in Package : RowIsRight(s, p) BY <2>2, WaitingIsARow DEF RowIsRight
    <3>2. ProgressIsRight(s) BY <2>2, LayerFacts DEF ProgressIsRight
    <3> QED BY <2>2, <3>1, <3>2 DEF CommandIsRight
  <2> QED BY <2>1, <2>3, <2>4 DEF CInv, Tables
<1>2. CInv /\ [CommandNext]_commandVars => CInv'
  <2> SUFFICES ASSUME CInv, [CommandNext]_commandVars PROVE CInv' OBVIOUS
  <2>1. ASSUME NEW s \in Session,
               CommandStep(s) \/ Quiet(Crash(s)) \/ \E l \in Layer : Quiet(LateStep(s, l))
        PROVE  CInv'
    <3>1. CASE Detect(s) BY <3>1, DetectStep
    <3>2. CASE BuildLayer(s) BY <3>2, BuildLayerStep
    <3>3. CASE Submit(s) BY <3>3, SubmitStep
    <3>4. CASE LayerPublished(s) \/ LayerError(s) BY <3>4, LayerEndStep
    <3>5. CASE Quiet(Finish(s)) \/ Return(s) \/ Quiet(Crash(s)) BY <3>5, EndStep
    <3>6. CASE \E p \in Package : Quiet(ReadVersionCount(s, p)) BY <3>6, QuietStep
    <3>7. ASSUME NEW l \in Layer,
                 CommandBatch(s, l) \/ Quiet(PublishStep(s, l)) \/ Quiet(LateStep(s, l))
          PROVE  CInv'
      BY <3>7, ChunkDoneStep, QuietStep DEF CommandBatch
    <3> QED BY <2>1, <3>1, <3>2, <3>3, <3>4, <3>5, <3>6, <3>7 DEF CommandStep, CommandLoop
  <2>2. CASE UNCHANGED commandVars
    <3>1. UNCHANGED vars /\ rows' = rows /\ exitCode' = exitCode BY <2>2 DEF commandVars
    <3>2. IInv' BY <3>1, Inductive DEF CInv
    <3>3. /\ pc' = pc /\ layer' = layer /\ failed' = failed /\ status' = status
          /\ deployables' = deployables /\ addresses' = addresses /\ batch' = batch
      BY <3>1 DEF vars
    <3>4. \A s \in Session : CommandIsRight(s)'
      <4> TAKE s \in Session
      <4>1. CommandIsRight(s) BY DEF CInv
      <4>2. \A l \in Layer : Planned(s, l) => Planned(s, l)' BY <3>3 DEF Planned
      <4> QED BY <3>1, <3>3, <4>1, <4>2, CommandStays
    <3> QED BY <3>1, <3>2, <3>4 DEF CInv
  <2> QED BY <2>1, <2>2 DEF CommandNext
<1> QED BY <1>1, <1>2, PTL DEF CommandSpec

\* A command that exits with success leaves a table in which every row is done
\* in all four columns and shows the address its package is registered at.
THEOREM SuccessIsTrue == CommandSpec => []SuccessIsShown
<1>1. CInv => SuccessIsShown
  <2> SUFFICES ASSUME CInv, NEW s \in Session, exitCode[s] = "success", NEW p \in Selected(s)
               PROVE  /\ Cells(rows[s][p]) = <<"done", "done", "done", "done">>
                      /\ Published(p, [address |-> rows[s][p].address, uri |-> Cid(s, p)])
    BY DEF SuccessIsShown
  <2>1. p \in Package /\ status[s][p] = "done"
    BY TableOf DEF CommandIsRight, Selected
  <2>2. addresses[s][p] # NoAddress /\ RowIsRight(s, p) /\ ReportIsRight(s, p)
    BY <2>1, TableOf DEF RunIsRight, VerdictsAreRight
  <2>3. PICK row : row = rows[s][p] OBVIOUS
  <2>4. /\ row.state = "done" /\ row.cid /\ row.address = addresses[s][p]
        /\ ~row.deploying /\ ~row.publishing /\ ~row.registering
    BY <2>1, <2>2, <2>3 DEF RowIsRight, Spins
  <2>5. BuildCell(row) = "done" BY <2>4 DEF BuildCell, FailedAt
  <2>6. DeployCell(row) = "done" BY <2>4 DEF DeployCell, PhaseCell, FailedAt
  <2>7. MetadataCell(row) = "done" BY <2>4 DEF MetadataCell, PhaseCell, FailedAt
  <2>8. RegisterCell(row) = "done" BY <2>4 DEF RegisterCell, PhaseCell, FailedAt
  <2>9. Published(p, [address |-> row.address, uri |-> Cid(s, p)])
    BY <2>2, <2>4 DEF ReportIsRight, Entry
  <2> QED BY <2>3, <2>5, <2>6, <2>7, <2>8, <2>9 DEF Cells
<1> QED BY <1>1, CommandInvariant, PTL

\* When the pipeline has ended every contract has a verdict and no cell spins,
\* however a layer failed and whatever its abandoned batch reported since.
THEOREM NothingIsLeftSpinning == CommandSpec => []NothingSpinsAtTheEnd
<1>1. CInv => NothingSpinsAtTheEnd
  <2> SUFFICES ASSUME CInv, NEW s \in Session, pc[s] = "finished", NEW p \in Selected(s)
               PROVE  /\ status[s][p] # "pending"
                      /\ \A i \in 1..4 : Cells(rows[s][p])[i] # "spinner"
    BY DEF NothingSpinsAtTheEnd
  <2>1. PICK l \in DOMAIN Layers[s] : p \in Range(Layers[s][l]) BY DEF Selected
  <2>2. p \in Package /\ l < layer[s] BY <2>1, TableOf DEF ProgressIsRight
  <2>3. p \in failed[s] \/ status[s][p] = "done"
    BY <2>1, <2>2, TableOf DEF RunIsRight, VerdictsAreRight
  <2>4. status[s][p] # "pending" BY <2>3, TableOf DEF ProgressIsRight
  <2>5. PICK row : row = rows[s][p] OBVIOUS
  <2>6. ~row.deploying /\ ~row.publishing /\ ~row.registering
    BY <2>2, <2>5, TableOf DEF RowIsRight, Spins
  <2>7. BuildCell(row) # "spinner" BY DEF BuildCell
  <2>8. DeployCell(row) # "spinner" BY <2>6 DEF DeployCell, PhaseCell
  <2>9. MetadataCell(row) # "spinner" BY <2>6 DEF MetadataCell, PhaseCell
  <2>10. RegisterCell(row) # "spinner" BY <2>6 DEF RegisterCell, PhaseCell
  <2> QED BY <2>4, <2>5, <2>7, <2>8, <2>9, <2>10 DEF Cells
<1> QED BY <1>1, CommandInvariant, PTL
=============================================================================
