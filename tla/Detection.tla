----------------------------- MODULE Detection -----------------------------
(***************************************************************************)
(* The ordering algorithms of detection.ts over a dependency graph: a      *)
(* function from each contract to the set of contracts it depends on.      *)
(* Contracts are numbers, whose order stands for that of their names.      *)
(*                                                                         *)
(* A definition named D_Fault is a faulty variant of D that no             *)
(* specification uses: put in the place of D, it shows which property      *)
(* would notice the fault.                                                 *)
(***************************************************************************)
EXTENDS Integers, FiniteSets, Sequences, FiniteSetsExt

CONSTANT Circular  \* the error both algorithms throw for a graph with a cycle

\* buildDependencyGraph: only edges among the given contracts count.
DependencyGraph(contracts, dependsOn) == [c \in contracts |-> dependsOn[c] \cap contracts]

InDegree(graph) == [c \in DOMAIN graph |-> Cardinality(graph[c])]
Ready(degree, changed) == {c \in changed : degree[c] = 0}
Dependents(graph, done) == {c \in DOMAIN graph : graph[c] \cap done # {}}
\* Taking nodes off the graph: each of their dependents has fewer left.
Lowered(graph, degree, done) ==
  [c \in DOMAIN graph |-> degree[c] - Cardinality(graph[c] \cap done)]

\* Kahn's algorithm visits the ready nodes one by one, the smallest name first.
Visits(graph) == [degree : [DOMAIN graph -> Int], queue : SUBSET DOMAIN graph,
                  result : Seq(DOMAIN graph)]
Visit(graph, s) ==
  LET node   == Min(s.queue)
      degree == Lowered(graph, s.degree, {node})
  IN  [degree |-> degree,
       queue  |-> (s.queue \ {node}) \cup Ready(degree, Dependents(graph, {node})),
       result |-> Append(s.result, node)]
Visited(graph) ==
  LET Run[s \in Visits(graph)] == IF s.queue = {} THEN s ELSE Run[Visit(graph, s)]
  IN  Run[[degree |-> InDegree(graph), queue |-> Ready(InDegree(graph), DOMAIN graph),
           result |-> <<>>]]
Toposort(graph) ==
  IF Len(Visited(graph).result) = Cardinality(DOMAIN graph) THEN Visited(graph).result
                                                           ELSE Circular

\* All that is ready at once is a layer, here a set: what a layer does with its
\* members does not depend on their order.
Rounds(graph) == [degree : [DOMAIN graph -> Int], queue : SUBSET DOMAIN graph,
                  layers : Seq(SUBSET DOMAIN graph), processed : Int]
Round(graph, s) ==
  LET degree == Lowered(graph, s.degree, s.queue)
  IN  [degree |-> degree, queue |-> Ready(degree, Dependents(graph, s.queue)),
       layers |-> Append(s.layers, s.queue), processed |-> s.processed + Cardinality(s.queue)]
Peeled(graph) ==
  LET Run[s \in Rounds(graph)] == IF s.queue = {} THEN s ELSE Run[Round(graph, s)]
  IN  Run[[degree |-> InDegree(graph), queue |-> Ready(InDegree(graph), DOMAIN graph),
           layers |-> <<>>, processed |-> 0]]
ToposortLayers_NoCycleCheck(graph) == Peeled(graph).layers
ToposortLayers(graph) ==
  IF Peeled(graph).processed = Cardinality(DOMAIN graph) THEN Peeled(graph).layers
                                                         ELSE Circular

-----------------------------------------------------------------------------
(* What the algorithms are for. *)

\* A ranking puts every contract above all it depends on; there is one exactly
\* if there is no cycle.
Rankings(graph) ==
  {rank \in [DOMAIN graph -> 1..Cardinality(DOMAIN graph)] :
     \A c \in DOMAIN graph : \A d \in graph[c] : rank[d] < rank[c]}

\* The layers hold every contract once, each in the layer right after the last
\* of its dependencies.
IsLayering(layers, graph) ==
  /\ UNION {layers[k] : k \in DOMAIN layers} = DOMAIN graph
  /\ \A k \in DOMAIN layers :
       /\ layers[k] # {}
       /\ \A c \in layers[k] :
            /\ \A l \in DOMAIN layers : c \in layers[l] => l = k
            /\ \A d \in graph[c] : \E l \in 1..(k - 1) : d \in layers[l]
            /\ k > 1 => graph[c] \cap layers[k - 1] # {}

IsTopological(order, graph) ==
  /\ {order[i] : i \in DOMAIN order} = DOMAIN graph
  /\ Len(order) = Cardinality(DOMAIN graph)
  /\ \A i, j \in DOMAIN order : order[i] \in graph[order[j]] => i < j
=============================================================================
