-------------------------- MODULE WorkspaceProofs --------------------------
(***************************************************************************)
(* The two orders of Detection are what they should be for every graph of  *)
(* finitely many contracts, and so the commands of Workspace build and     *)
(* deploy what depends on others after them.                               *)
(*                                                                         *)
(* The algorithms are loops: the first part proves that a loop which makes *)
(* a number smaller ends, in a state that has what every turn keeps; the   *)
(* second part finds that number and that invariant for both algorithms;   *)
(* the third is the inductive invariant of the commands.                   *)
(*                                                                         *)
(* The last parts are about SolidityImports, the file that the build of a  *)
(* contract leaves for those that import it: its structs have names of     *)
(* their own and mean the tuples of the ABI.                               *)
(***************************************************************************)
EXTENDS Workspace, SolidityImports, FiniteSetTheorems, SequenceTheorems, TLAPS

-----------------------------------------------------------------------------
(* Loops. *)

\* Every set of natural numbers has a least one.
LEMMA LeastNumber ==
  ASSUME NEW T \in SUBSET Nat, T # {}
  PROVE  \E n \in T : \A m \in T : n <= m
<1>1. PICK R : R = OpToRel(<, Nat) OBVIOUS
<1>2. IsWellFoundedOn(R, Nat) BY <1>1, NatLessThanWellFounded
<1>3. PICK n \in T : \A m \in T : ~(<<m, n>> \in R) BY <1>2, WFMin
<1>4. R = {ss \in Nat \X Nat : ss[1] < ss[2]} BY <1>1 DEF OpToRel
<1>5. ASSUME NEW m \in T PROVE n <= m
  <2>1. m \in Nat /\ n \in Nat /\ <<m, n>> \in Nat \X Nat /\ <<m, n>> \notin R
    BY <1>3, <1>5
  <2> QED BY <1>4, <2>1
<1> QED BY <1>5

\* A loop from state to state stops if every turn makes a number smaller.
Shrinking(S, Stop, next, size) ==
  /\ next \in [S -> S] /\ size \in [S -> Nat]
  /\ \A s \in S : s \notin Stop => size[next[s]] < size[s]
Loop(end, S, Stop, next) == end = [s \in S |-> IF s \in Stop THEN s ELSE end[next[s]]]

\* Two loops with the same turns end in the same state.
LEMMA LoopsAgree ==
  ASSUME NEW S, NEW Stop, NEW next, NEW size, Shrinking(S, Stop, next, size),
         NEW A \in SUBSET S, NEW B \in SUBSET S,
         \A s \in A : s \notin Stop => next[s] \in A,
         \A s \in B : s \notin Stop => next[s] \in B,
         NEW f, Loop(f, A, Stop, next), NEW g, Loop(g, B, Stop, next)
  PROVE  \A s \in A \cap B : f[s] = g[s]
<1> DEFINE Differ == {s \in A \cap B : f[s] # g[s]}
<1> SUFFICES ASSUME Differ # {} PROVE FALSE OBVIOUS
<1> DEFINE T == {size[s] : s \in Differ}
<1>1. T \in SUBSET Nat /\ T # {} BY DEF Shrinking
<1> HIDE DEF T
<1>2. PICK n \in T : \A m \in T : n <= m BY <1>1, LeastNumber
<1>3. PICK s \in Differ : size[s] = n BY <1>2 DEF T
<1>4. \A t \in Differ : size[t] \in T /\ size[t] \in Nat BY DEF T, Shrinking
<1>5. s \in S /\ s \in A /\ s \in B /\ f[s] # g[s] /\ size[s] \in Nat BY <1>3, <1>4
<1>6. /\ f[s] = IF s \in Stop THEN s ELSE f[next[s]]
      /\ g[s] = IF s \in Stop THEN s ELSE g[next[s]]
  BY <1>5 DEF Loop
<1>7. s \notin Stop /\ next[s] \in A \cap B /\ f[next[s]] # g[next[s]] BY <1>5, <1>6
<1>8. next[s] \in Differ BY <1>7
<1>9. size[next[s]] < size[s] BY <1>5, <1>7 DEF Shrinking
<1> QED BY <1>2, <1>3, <1>4, <1>5, <1>8, <1>9

\* There is such a loop.
LEMMA LoopExists ==
  ASSUME NEW S, NEW Stop, NEW next, NEW size, Shrinking(S, Stop, next, size)
  PROVE  \E end : Loop(end, S, Stop, next)
<1> DEFINE Below(n) == {s \in S : size[s] < n}
           Bad == {n \in Nat : ~\E f : Loop(f, Below(n), Stop, next)}
<1>0. /\ next \in [S -> S] /\ size \in [S -> Nat]
      /\ \A s \in S : s \notin Stop => size[next[s]] < size[s]
  BY DEF Shrinking
<1>1. ASSUME NEW n \in Nat
      PROVE  \A s \in Below(n) : s \notin Stop => next[s] \in Below(n) /\ size[next[s]] < n - 1
  BY <1>0
<1>2. \A n \in Nat : \E f : Loop(f, Below(n), Stop, next)
  <2> SUFFICES ASSUME Bad # {} PROVE FALSE OBVIOUS
  <2>1. PICK n \in Bad : \A m \in Bad : n <= m
    <3> HIDE DEF Bad
    <3>1. Bad \in SUBSET Nat BY DEF Bad
    <3> QED BY <3>1, LeastNumber
  <2>2. n \in Nat /\ ~\E f : Loop(f, Below(n), Stop, next) BY <2>1
  <2>3. CASE n = 0
    <3>1. Below(0) = {} BY <1>0
    <3>2. PICK f : f = [s \in {} |-> s] OBVIOUS
    <3>3. Loop(f, Below(0), Stop, next) BY <3>1, <3>2 DEF Loop
    <3> QED BY <2>2, <2>3, <3>3
  <2>4. CASE n # 0
    <3>1. n - 1 \in Nat /\ n - 1 \notin Bad
      <4> HIDE DEF Bad
      <4> QED BY <2>1, <2>2, <2>4
    <3>2. PICK f : Loop(f, Below(n - 1), Stop, next) BY <3>1
    <3>3. PICK g : g = [s \in Below(n) |-> IF s \in Stop THEN s ELSE f[next[s]]] OBVIOUS
    <3>4. \A t \in Below(n - 1) : t \in Below(n) /\ f[t] = g[t]
      <4>1. \A t \in Below(n - 1) : t \in Below(n) BY <1>0, <2>2
      <4>2. \A t \in Below(n - 1) : f[t] = IF t \in Stop THEN t ELSE f[next[t]]
        BY <3>2 DEF Loop
      <4> QED BY <3>3, <4>1, <4>2
    <3>5. \A s \in Below(n) : s \notin Stop => f[next[s]] = g[next[s]]
      <4>1. \A s \in Below(n) : s \notin Stop => next[s] \in Below(n - 1) BY <1>0, <1>1, <2>2
      <4> QED BY <3>4, <4>1
    <3>6. g = [s \in Below(n) |-> IF s \in Stop THEN s ELSE g[next[s]]] BY <3>3, <3>5
    <3> QED BY <2>2, <3>6 DEF Loop
  <2> QED BY <2>3, <2>4
<1>3. PICK pick : pick = [n \in Nat |-> CHOOSE f : Loop(f, Below(n), Stop, next)] OBVIOUS
<1>4. \A n \in Nat : Loop(pick[n], Below(n), Stop, next) BY <1>2, <1>3
<1>5. PICK end : end = [s \in S |-> pick[size[s] + 1][s]] OBVIOUS
<1>6. ASSUME NEW s \in S PROVE end[s] = IF s \in Stop THEN s ELSE end[next[s]]
  <2>1. PICK n \in Nat : n = size[s] + 1 /\ s \in Below(n) BY <1>0
  <2>2. end[s] = pick[n][s] BY <1>5, <2>1
  <2>3. pick[n][s] = IF s \in Stop THEN s ELSE pick[n][next[s]]
    <3>1. PICK A : A = Below(n) OBVIOUS
    <3>2. s \in A /\ Loop(pick[n], A, Stop, next) BY <1>4, <2>1, <3>1
    <3>3. PICK f : f = pick[n] OBVIOUS
    <3>4. f = [q \in A |-> IF q \in Stop THEN q ELSE f[next[q]]] BY <3>2, <3>3 DEF Loop
    <3>5. f[s] = IF s \in Stop THEN s ELSE f[next[s]]
      <4> HIDE DEF Below
      <4> QED BY <3>2, <3>4
    <3> QED BY <3>3, <3>5
  <2>4. CASE s \in Stop BY <2>2, <2>3, <2>4
  <2>5. CASE s \notin Stop
    <3>1. PICK t \in S : t = next[s] BY <1>0
    <3>2. PICK m \in Nat : m = size[t] + 1 /\ t \in Below(m) BY <1>0
    <3>3. t \in Below(n) BY <1>1, <2>1, <2>5, <3>1
    <3>4. Loop(pick[n], Below(n), Stop, next) /\ Loop(pick[m], Below(m), Stop, next) BY <1>4
    <3>5. /\ \A q \in Below(n) : q \notin Stop => next[q] \in Below(n)
          /\ \A q \in Below(m) : q \notin Stop => next[q] \in Below(m)
      BY <1>1
    <3>6. PICK A, B : A = Below(n) /\ B = Below(m) OBVIOUS
    <3>7. A \in SUBSET S /\ B \in SUBSET S /\ t \in A /\ t \in B BY <3>2, <3>3, <3>6
    <3>8. /\ \A q \in A : q \notin Stop => next[q] \in A
          /\ \A q \in B : q \notin Stop => next[q] \in B
          /\ Loop(pick[n], A, Stop, next) /\ Loop(pick[m], B, Stop, next)
      BY <3>4, <3>5, <3>6
    <3>9. pick[n][t] = pick[m][t]
      <4> HIDE DEF Below
      <4> QED BY <3>7, <3>8, LoopsAgree
    <3>10. end[t] = pick[m][t] BY <1>5, <3>2
    <3> QED BY <2>2, <2>3, <2>5, <3>1, <3>9, <3>10
  <2> QED BY <2>4, <2>5
<1>7. end = [s \in S |-> IF s \in Stop THEN s ELSE end[next[s]]] BY <1>5, <1>6
<1> QED BY <1>7 DEF Loop

\* A loop that keeps an invariant ends in a state that has it.
LEMMA LoopKeeps ==
  ASSUME NEW S, NEW Stop, NEW next, NEW size, Shrinking(S, Stop, next, size),
         NEW end, Loop(end, S, Stop, next),
         NEW I \in SUBSET S, \A s \in I : s \notin Stop => next[s] \in I
  PROVE  \A s \in I : end[s] \in I /\ end[s] \in Stop
<1> DEFINE Lost == {s \in I : ~(end[s] \in I /\ end[s] \in Stop)}
<1> SUFFICES ASSUME Lost # {} PROVE FALSE OBVIOUS
<1> DEFINE T == {size[s] : s \in Lost}
<1>1. T \in SUBSET Nat /\ T # {} BY DEF Shrinking
<1> HIDE DEF T
<1>2. PICK n \in T : \A m \in T : n <= m BY <1>1, LeastNumber
<1>3. PICK s \in Lost : size[s] = n BY <1>2 DEF T
<1>4. \A t \in Lost : size[t] \in T /\ size[t] \in Nat BY DEF T, Shrinking
<1>5. s \in I /\ s \in S /\ size[s] \in Nat BY <1>3, <1>4
<1>6. end[s] = IF s \in Stop THEN s ELSE end[next[s]] BY <1>5 DEF Loop
<1>7. s \notin Stop /\ next[s] \in I /\ next[s] \in Lost BY <1>3, <1>5, <1>6
<1>8. size[next[s]] < size[s] BY <1>5, <1>7 DEF Shrinking
<1> QED BY <1>2, <1>3, <1>4, <1>5, <1>7, <1>8

-----------------------------------------------------------------------------
(* Contracts that are done, ready, and waiting. *)

\* A graph of finitely many contracts.
IsGraph(graph, N) == IsFiniteSet(N) /\ N \subseteq Nat /\ graph \in [N -> SUBSET N]

\* Parts of a finite set are finite, and have a number.
LEMMA Counts ==
  ASSUME NEW N, IsFiniteSet(N)
  PROVE  \A S \in SUBSET N : IsFiniteSet(S) /\ Cardinality(S) \in Nat
                             /\ (S # {} => Cardinality(S) > 0)
<1> TAKE S \in SUBSET N
<1>1. IsFiniteSet(S) /\ Cardinality(S) \in Nat BY FS_Subset, FS_CardinalityType
<1>2. Cardinality(S) = 0 <=> S = {} BY <1>1, FS_EmptySet
<1> QED BY <1>1, <1>2

\* Taking contracts off leaves degrees and contracts.
LEMMA LoweredType ==
  ASSUME NEW N, NEW graph, IsGraph(graph, N), NEW degree \in [N -> Int], NEW taken \in SUBSET N
  PROVE  /\ Lowered(graph, degree, taken) \in [N -> Int]
         /\ \A low : Ready(low, Dependents(graph, taken)) \in SUBSET N
<1>0. IsFiniteSet(N) /\ graph \in [N -> SUBSET N] /\ DOMAIN graph = N BY DEF IsGraph
<1>1. \A c \in N : graph[c] \cap taken \in SUBSET N BY <1>0
<1>2. \A c \in N : Cardinality(graph[c] \cap taken) \in Nat BY <1>0, <1>1, Counts
<1>3. \A c \in N : degree[c] - Cardinality(graph[c] \cap taken) \in Int BY <1>2
<1>4. Lowered(graph, degree, taken) = [c \in N |-> degree[c] - Cardinality(graph[c] \cap taken)]
  BY <1>0 DEF Lowered
<1> QED BY <1>0, <1>3, <1>4 DEF Ready, Dependents

\* What gets ready had a positive number of dependencies left and has none now.
LEMMA Lowering ==
  ASSUME NEW N, NEW graph, IsGraph(graph, N), NEW degree \in [N -> Int],
         NEW taken \in SUBSET N, NEW low, low = Lowered(graph, degree, taken),
         NEW fresh, fresh = Ready(low, Dependents(graph, taken)),
         NEW before, before = {c \in N : degree[c] > 0},
         NEW left, left = {c \in N : low[c] > 0}
  PROVE  Cardinality(fresh) + Cardinality(left) <= Cardinality(before)
<1>0. IsFiniteSet(N) /\ graph \in [N -> SUBSET N] /\ DOMAIN graph = N BY DEF IsGraph
<1>1. \A c \in N : /\ graph[c] \cap taken \in SUBSET N
                   /\ Cardinality(graph[c] \cap taken) \in Nat
                   /\ (graph[c] \cap taken # {} => Cardinality(graph[c] \cap taken) > 0)
  BY <1>0, Counts
<1>2. \A c \in N : low[c] = degree[c] - Cardinality(graph[c] \cap taken) /\ low[c] \in Int
  BY <1>0, <1>1 DEF Lowered
<1>4. fresh = {c \in N : graph[c] \cap taken # {} /\ low[c] = 0}
  BY <1>0 DEF Ready, Dependents
<1>a. \A c \in N : /\ low[c] = 0 /\ graph[c] \cap taken # {} => degree[c] > 0
                   /\ low[c] > 0 => degree[c] > 0
  <2> TAKE c \in N
  <2>1. PICK n \in Nat : n = Cardinality(graph[c] \cap taken) /\ (graph[c] \cap taken # {} => n > 0)
    BY <1>1
  <2>2. low[c] = degree[c] - n /\ degree[c] \in Int BY <1>2, <2>1
  <2> QED BY <2>1, <2>2
<1>5. \A c \in fresh : degree[c] > 0 /\ c \in N /\ ~(low[c] > 0)
  <2>1. \A c \in fresh : c \in N /\ graph[c] \cap taken # {} /\ low[c] = 0 BY <1>4
  <2> QED BY <1>a, <2>1
<1>6. \A c \in left : degree[c] > 0 /\ c \in N BY <1>a
<1>7. fresh \cap left = {} /\ fresh \cup left \in SUBSET before BY <1>5, <1>6
<1>8. fresh \in SUBSET N /\ left \in SUBSET N /\ before \in SUBSET N /\ fresh \cup left \in SUBSET N
  BY <1>4
<1>9. /\ IsFiniteSet(fresh) /\ IsFiniteSet(left) /\ IsFiniteSet(before)
      /\ Cardinality(fresh) \in Nat /\ Cardinality(left) \in Nat /\ Cardinality(before) \in Nat
  BY <1>0, <1>8, Counts
<1>10. Cardinality(fresh \cup left) = Cardinality(fresh) + Cardinality(left) - Cardinality(fresh \cap left)
  BY <1>9, FS_Union
<1>11. Cardinality(fresh \cap left) = 0 BY <1>7, FS_EmptySet
<1>12. Cardinality(fresh \cup left) <= Cardinality(before) BY <1>7, <1>9, FS_Subset
<1> QED BY <1>9, <1>10, <1>11, <1>12

\* What both algorithms keep: done is what they have taken off the graph, the
\* degree counts the dependencies that are left, and all contracts whose
\* dependencies are done are in the queue.
Wave(graph, done, degree, queue) ==
  /\ done \in SUBSET DOMAIN graph /\ queue \in SUBSET DOMAIN graph
  /\ degree = [c \in DOMAIN graph |-> Cardinality(graph[c] \ done)]
  /\ \A c \in DOMAIN graph : c \in queue <=> c \notin done /\ graph[c] \subseteq done
  /\ \A c \in done : graph[c] \subseteq done

\* Nothing is done at the start, and what has no dependencies is ready.
LEMMA WaveBegins ==
  ASSUME NEW N, NEW graph, IsGraph(graph, N)
  PROVE  Wave(graph, {}, InDegree(graph), Ready(InDegree(graph), DOMAIN graph))
<1>0. IsFiniteSet(N) /\ graph \in [N -> SUBSET N] /\ DOMAIN graph = N BY DEF IsGraph
<1>1. \A c \in N : graph[c] \ {} = graph[c] /\ graph[c] \in SUBSET N BY <1>0
<1>2. \A c \in N : IsFiniteSet(graph[c]) BY <1>0, <1>1, Counts
<1>3. \A c \in N : Cardinality(graph[c]) = 0 <=> graph[c] = {} BY <1>2, FS_EmptySet
<1>4. InDegree(graph) = [c \in N |-> Cardinality(graph[c] \ {})] BY <1>0, <1>1 DEF InDegree
<1>5. \A c \in N : InDegree(graph)[c] = Cardinality(graph[c]) BY <1>0 DEF InDegree
<1>6. \A c \in N : c \in Ready(InDegree(graph), N) <=> graph[c] \subseteq {}
  BY <1>3, <1>5 DEF Ready
<1>7. Ready(InDegree(graph), N) \subseteq N BY DEF Ready
<1> QED BY <1>0, <1>4, <1>6, <1>7 DEF Wave

\* Some of the queue is done: its dependents have fewer left, and those with
\* none left get into the queue.
LEMMA WaveGoesOn ==
  ASSUME NEW N, NEW graph, IsGraph(graph, N), NEW done, NEW degree, NEW queue,
         Wave(graph, done, degree, queue), NEW taken \in SUBSET queue,
         NEW low, low = Lowered(graph, degree, taken)
  PROVE  Wave(graph, done \cup taken, low,
              (queue \ taken) \cup Ready(low, Dependents(graph, taken)))
<1>0. IsFiniteSet(N) /\ graph \in [N -> SUBSET N] /\ DOMAIN graph = N BY DEF IsGraph
<1> DEFINE done2 == done \cup taken
           fresh == Ready(low, Dependents(graph, taken))
           queue2 == (queue \ taken) \cup fresh
<1>1. /\ done \in SUBSET N /\ queue \in SUBSET N /\ taken \in SUBSET N
      /\ degree = [c \in N |-> Cardinality(graph[c] \ done)]
      /\ \A c \in N : c \in queue <=> c \notin done /\ graph[c] \subseteq done
      /\ \A c \in done : graph[c] \subseteq done
  BY <1>0 DEF Wave
<1>2. \A c \in N : degree[c] - Cardinality(graph[c] \cap taken) = Cardinality(graph[c] \ done2)
  <2> TAKE c \in N
  <2>1. PICK A, B, C : A = graph[c] \ done /\ B = graph[c] \cap taken /\ C = graph[c] \ done2
    OBVIOUS
  <2>2. A \in SUBSET N /\ B \in SUBSET N /\ C \in SUBSET N /\ A = B \cup C /\ B \cap C = {}
    BY <1>0, <1>1, <2>1
  <2>3. /\ IsFiniteSet(B) /\ IsFiniteSet(C)
        /\ Cardinality(A) \in Nat /\ Cardinality(B) \in Nat /\ Cardinality(C) \in Nat
    BY <1>0, <2>2, Counts
  <2>4. Cardinality(B \cup C) = Cardinality(B) + Cardinality(C) - Cardinality(B \cap C)
    BY <2>3, FS_Union
  <2>5. Cardinality(B \cap C) = 0 BY <2>2, FS_EmptySet
  <2>6. Cardinality(A) - Cardinality(B) = Cardinality(C) BY <2>2, <2>3, <2>4, <2>5
  <2>7. degree[c] = Cardinality(A) BY <1>1, <2>1
  <2> QED BY <2>1, <2>6, <2>7
<1>3. low = [c \in N |-> Cardinality(graph[c] \ done2)]
  <2>1. low = [c \in N |-> degree[c] - Cardinality(graph[c] \cap taken)] BY <1>0 DEF Lowered
  <2> QED BY <1>2, <2>1
<1>4. \A c \in N : low[c] = 0 <=> graph[c] \subseteq done2
  <2> TAKE c \in N
  <2>1. graph[c] \ done2 \in SUBSET N BY <1>0
  <2>2. IsFiniteSet(graph[c] \ done2) BY <1>0, <2>1, Counts
  <2>3. Cardinality(graph[c] \ done2) = 0 <=> graph[c] \ done2 = {} BY <2>2, FS_EmptySet
  <2>4. low[c] = Cardinality(graph[c] \ done2) BY <1>3
  <2> QED BY <2>3, <2>4
<1>5. fresh = {c \in N : graph[c] \cap taken # {} /\ low[c] = 0} BY <1>0 DEF Ready, Dependents
<1>6. \A c \in N : c \in queue2 <=> c \notin done2 /\ graph[c] \subseteq done2
  <2> TAKE c \in N
  <2>1. c \in fresh <=> graph[c] \cap taken # {} /\ graph[c] \subseteq done2 BY <1>4, <1>5
  <2> HIDE DEF fresh
  <2>2. CASE graph[c] \subseteq done
    <3>1. graph[c] \cap taken = {} BY <1>1, <2>2
    <3> QED BY <1>1, <2>1, <2>2, <3>1
  <2>3. CASE ~(graph[c] \subseteq done)
    <3>1. c \notin done /\ c \notin queue /\ c \notin taken BY <1>1, <2>3
    <3>2. graph[c] \subseteq done2 => graph[c] \cap taken # {} BY <2>3
    <3> QED BY <2>1, <3>1, <3>2
  <2> QED BY <2>2, <2>3
<1>7. \A c \in done2 : graph[c] \subseteq done2 BY <1>1
<1>8. done2 \in SUBSET N /\ queue2 \in SUBSET N BY <1>1, <1>5
<1> HIDE DEF done2, queue2
<1>9. Wave(graph, done2, low, queue2) BY <1>0, <1>3, <1>6, <1>7, <1>8 DEF Wave
<1> QED BY <1>9 DEF done2, queue2

\* What keeps a contract out of the order is a cycle: then there is no ranking.
LEMMA NothingIsLeft ==
  ASSUME NEW N, NEW graph, IsGraph(graph, N), NEW done, NEW degree,
         Wave(graph, done, degree, {}), Rankings(graph) # {}
  PROVE  done = N
<1>0. IsFiniteSet(N) /\ graph \in [N -> SUBSET N] /\ DOMAIN graph = N BY DEF IsGraph
<1>1. done \in SUBSET N /\ \A c \in N : c \notin done => ~(graph[c] \subseteq done)
  BY <1>0 DEF Wave
<1>2. PICK rank \in [N -> 1..Cardinality(N)] : \A c \in N : \A d \in graph[c] : rank[d] < rank[c]
  BY <1>0 DEF Rankings
<1> SUFFICES ASSUME done # N PROVE FALSE OBVIOUS
<1> DEFINE T == {rank[c] : c \in N \ done}
<1>3. \A c \in N : rank[c] \in Nat
  <2>1. Cardinality(N) \in Nat BY <1>0, FS_CardinalityType
  <2> QED BY <1>2, <2>1
<1>4. T \in SUBSET Nat /\ T # {} BY <1>1, <1>3
<1> HIDE DEF T
<1>5. PICK n \in T : \A m \in T : n <= m BY <1>4, LeastNumber
<1>6. PICK c \in N \ done : rank[c] = n BY <1>5 DEF T
<1>7. PICK d \in graph[c] : d \notin done BY <1>1, <1>6
<1>8. d \in N /\ rank[d] \in T /\ rank[d] < rank[c] BY <1>0, <1>2, <1>6, <1>7 DEF T
<1>9. n <= rank[d] /\ n \in Nat /\ rank[d] \in Nat BY <1>3, <1>5, <1>4, <1>8
<1> QED BY <1>6, <1>8, <1>9

-----------------------------------------------------------------------------
(* The layers. *)

\* The state Peeled begins with, and what its turns keep: the layers so far are
\* a layering of the contracts in them, and the queue is the next layer.
BegunRounds(graph) ==
  [degree |-> InDegree(graph), queue |-> Ready(InDegree(graph), DOMAIN graph),
   layers |-> <<>>, processed |-> 0]
Laid(s) == UNION {s.layers[k] : k \in DOMAIN s.layers}
Stacked(graph, L) ==
  \A k \in DOMAIN L :
    /\ L[k] # {}
    /\ \A c \in L[k] : /\ \A l \in DOMAIN L : c \in L[l] => l = k
                       /\ \A d \in graph[c] : \E l \in 1..(k - 1) : d \in L[l]
                       /\ k > 1 => graph[c] \cap L[k - 1] # {}
LayersSoFar(graph, s) ==
  /\ s \in Rounds(graph)
  /\ Wave(graph, Laid(s), s.degree, s.queue)
  /\ s.processed = Cardinality(Laid(s)) /\ Len(s.layers) <= s.processed
  /\ Stacked(graph, s.layers)
  /\ s.layers # <<>> => \A c \in s.queue : graph[c] \cap s.layers[Len(s.layers)] # {}

\* The rounds begin with no layer.
LEMMA LayersBegin ==
  ASSUME NEW N, NEW graph, IsGraph(graph, N)
  PROVE  LayersSoFar(graph, BegunRounds(graph))
<1>0. IsFiniteSet(N) /\ graph \in [N -> SUBSET N] /\ DOMAIN graph = N BY DEF IsGraph
<1>1. PICK s : s = BegunRounds(graph) OBVIOUS
<1>2. /\ s.degree = InDegree(graph) /\ s.queue = Ready(InDegree(graph), DOMAIN graph)
      /\ s.layers = <<>> /\ s.processed = 0
  BY <1>1 DEF BegunRounds
<1>3. Laid(s) = {} BY <1>2 DEF Laid
<1>4. Wave(graph, {}, s.degree, s.queue) BY <1>2, WaveBegins
<1>5. \A c \in N : graph[c] \in SUBSET N BY <1>0
<1>6. InDegree(graph) \in [N -> Int] /\ s.queue \in SUBSET N
  <2>1. \A c \in N : Cardinality(graph[c]) \in Int BY <1>0, <1>5, Counts
  <2> QED BY <1>0, <1>2, <2>1 DEF InDegree, Ready
<1>7. s \in Rounds(graph) BY <1>0, <1>1, <1>6, <1>2 DEF BegunRounds, Rounds
<1>8. Cardinality({}) = 0 BY FS_EmptySet
<1>9. Stacked(graph, s.layers) BY <1>2 DEF Stacked
<1>10. LayersSoFar(graph, s) BY <1>2, <1>3, <1>4, <1>7, <1>8, <1>9 DEF LayersSoFar
<1> QED BY <1>1, <1>10

\* A round puts the queue on top, whose members depend on nothing above the
\* last layer and on something in it.
LEMMA LayersGoOn ==
  ASSUME NEW N, NEW graph, IsGraph(graph, N), NEW s, LayersSoFar(graph, s), s.queue # {}
  PROVE  LayersSoFar(graph, Round(graph, s))
<1>0. IsFiniteSet(N) /\ graph \in [N -> SUBSET N] /\ DOMAIN graph = N BY DEF IsGraph
<1>1. PICK t : t = Round(graph, s) OBVIOUS
<1>2. PICK low : low = Lowered(graph, s.degree, s.queue) OBVIOUS
<1>3. /\ t = [degree |-> low, queue |-> Ready(low, Dependents(graph, s.queue)),
              layers |-> Append(s.layers, s.queue), processed |-> s.processed + Cardinality(s.queue)]
      /\ t.degree = low /\ t.queue = Ready(low, Dependents(graph, s.queue))
      /\ t.layers = Append(s.layers, s.queue) /\ t.processed = s.processed + Cardinality(s.queue)
  BY <1>1, <1>2 DEF Round
<1>4. /\ s.degree \in [N -> Int] /\ s.queue \in SUBSET N /\ s.layers \in Seq(SUBSET N)
      /\ s.processed \in Int
  BY <1>0 DEF LayersSoFar, Rounds
<1>5. PICK L, n, q : L = s.layers /\ n = Len(L) /\ q = s.queue OBVIOUS
<1>6. /\ L \in Seq(SUBSET N) /\ n \in Nat /\ DOMAIN L = 1..n /\ q \in SUBSET N
      /\ DOMAIN t.layers = 1..(n + 1) /\ Len(t.layers) = n + 1 /\ t.layers \in Seq(SUBSET N)
      /\ \A k \in 1..n : t.layers[k] = L[k]
      /\ t.layers[n + 1] = q
  BY <1>3, <1>4, <1>5
<1>7. Laid(t) = Laid(s) \cup q
  <2>1. \A c : c \in Laid(t) <=> \E k \in 1..(n + 1) : c \in t.layers[k] BY <1>6 DEF Laid
  <2>2. \A c : c \in Laid(s) <=> \E k \in 1..n : c \in L[k] BY <1>5, <1>6 DEF Laid
  <2>3. \A c : (\E k \in 1..(n + 1) : c \in t.layers[k]) <=> c \in q \/ \E k \in 1..n : c \in L[k]
    <3>1. PICK T : T = t.layers OBVIOUS
    <3>2. \A k : k \in 1..(n + 1) <=> k \in 1..n \/ k = n + 1 BY <1>6
    <3>3. T[n + 1] = q /\ \A k \in 1..n : T[k] = L[k] BY <1>6, <3>1
    <3>4. \A c : (\E k \in 1..(n + 1) : c \in T[k]) <=> c \in q \/ \E k \in 1..n : c \in L[k]
      BY <3>2, <3>3
    <3> QED BY <3>1, <3>4
  <2> QED BY <2>1, <2>2, <2>3
<1>8. /\ Wave(graph, Laid(s), s.degree, q) /\ s.processed = Cardinality(Laid(s))
      /\ n <= s.processed
  BY <1>5 DEF LayersSoFar
<1>9. /\ Laid(s) \in SUBSET N
      /\ \A c \in N : c \in q <=> c \notin Laid(s) /\ graph[c] \subseteq Laid(s)
  BY <1>0, <1>8 DEF Wave
<1>10. Wave(graph, Laid(t), low, t.queue)
  <2>1. Wave(graph, Laid(s) \cup q, low, (q \ q) \cup Ready(low, Dependents(graph, q)))
    BY <1>2, <1>5, <1>8, WaveGoesOn
  <2>2. (q \ q) \cup Ready(low, Dependents(graph, q)) = t.queue BY <1>3, <1>5
  <2> QED BY <1>7, <2>1, <2>2
<1>11. low \in [N -> Int] /\ t.queue \in SUBSET N
  <2>1. PICK degree \in [N -> Int] : degree = s.degree BY <1>4
  <2>2. low = Lowered(graph, degree, q) /\ t.queue = Ready(low, Dependents(graph, q))
    BY <1>2, <1>3, <1>5, <2>1
  <2> QED BY <1>6, <2>2, LoweredType
<1>12. t.processed = Cardinality(Laid(t)) /\ n + 1 <= t.processed /\ t.processed \in Int
  <2>1. /\ IsFiniteSet(Laid(s)) /\ IsFiniteSet(q)
        /\ Cardinality(Laid(s)) \in Nat /\ Cardinality(q) \in Nat /\ Cardinality(q) > 0
    BY <1>0, <1>5, <1>6, <1>9, Counts
  <2>2. Cardinality(Laid(s) \cup q) = Cardinality(Laid(s)) + Cardinality(q) - Cardinality(Laid(s) \cap q)
    BY <2>1, FS_Union
  <2>3. Laid(s) \cap q = {} BY <1>6, <1>9
  <2>4. Cardinality(Laid(s) \cap q) = 0 BY <2>3, FS_EmptySet
  <2>5. t.processed = Cardinality(Laid(s)) + Cardinality(q) BY <1>3, <1>5, <1>8
  <2>6. Cardinality(Laid(t)) = Cardinality(Laid(s)) + Cardinality(q) BY <1>7, <2>1, <2>2, <2>4
  <2>7. n <= Cardinality(Laid(s)) BY <1>8
  <2> QED BY <1>6, <2>1, <2>5, <2>6, <2>7
<1>13. t \in Rounds(graph) BY <1>0, <1>3, <1>6, <1>11, <1>12 DEF Rounds
<1>14. \A k \in 1..n :
         /\ L[k] # {}
         /\ \A c \in L[k] : /\ \A l \in 1..n : c \in L[l] => l = k
                            /\ \A d \in graph[c] : \E l \in 1..(k - 1) : d \in L[l]
                            /\ k > 1 => graph[c] \cap L[k - 1] # {}
  <2>1. Stacked(graph, L) BY <1>5 DEF LayersSoFar
  <2> QED BY <1>6, <2>1 DEF Stacked
<1>15. \A c : c \in Laid(s) <=> \E k \in 1..n : c \in L[k] BY <1>5, <1>6 DEF Laid
<1>16. n > 0 => \A c \in q : graph[c] \cap L[n] # {}
  <2>1. n > 0 => L # <<>> BY <1>6
  <2> QED BY <1>5, <2>1 DEF LayersSoFar
<1>17. \A k \in 1..(n + 1) :
         /\ t.layers[k] # {}
         /\ \A c \in t.layers[k] :
              /\ \A l \in 1..(n + 1) : c \in t.layers[l] => l = k
              /\ \A d \in graph[c] : \E l \in 1..(k - 1) : d \in t.layers[l]
              /\ k > 1 => graph[c] \cap t.layers[k - 1] # {}
  <2> TAKE k \in 1..(n + 1)
  <2>1. CASE k \in 1..n
    <3>1. t.layers[k] = L[k] /\ L[k] # {} BY <1>6, <1>14, <2>1
    <3>2. ASSUME NEW c \in L[k]
          PROVE  /\ \A l \in 1..(n + 1) : c \in t.layers[l] => l = k
                 /\ \A d \in graph[c] : \E l \in 1..(k - 1) : d \in t.layers[l]
                 /\ k > 1 => graph[c] \cap t.layers[k - 1] # {}
      <4>1. c \notin q /\ c \in N BY <1>6, <1>9, <1>15, <2>1, <3>2
      <4>2. \A l \in 1..(n + 1) : c \in t.layers[l] => l = k
        <5> TAKE l \in 1..(n + 1)
        <5>1. CASE l \in 1..n BY <1>6, <1>14, <2>1, <3>2, <5>1
        <5>2. CASE l = n + 1 BY <1>6, <4>1, <5>2
        <5> QED BY <1>6, <5>1, <5>2
      <4>3. \A d \in graph[c] : \E l \in 1..(k - 1) : d \in t.layers[l]
        <5>1. \A l \in 1..(k - 1) : l \in 1..n BY <1>6, <2>1
        <5> QED BY <1>6, <1>14, <2>1, <3>2, <5>1
      <4>4. k > 1 => graph[c] \cap t.layers[k - 1] # {}
        <5>1. k > 1 => k - 1 \in 1..n BY <1>6, <2>1
        <5>2. k > 1 => graph[c] \cap L[k - 1] # {} BY <1>14, <2>1, <3>2
        <5>3. k > 1 => t.layers[k - 1] = L[k - 1] BY <1>6, <5>1
        <5> QED BY <5>2, <5>3
      <4> QED BY <4>2, <4>3, <4>4
    <3> QED BY <3>1, <3>2
  <2>2. CASE k = n + 1
    <3>1. t.layers[k] = q /\ q # {} BY <1>5, <1>6, <2>2
    <3>2. ASSUME NEW c \in q
          PROVE  /\ \A l \in 1..(n + 1) : c \in t.layers[l] => l = k
                 /\ \A d \in graph[c] : \E l \in 1..(k - 1) : d \in t.layers[l]
                 /\ k > 1 => graph[c] \cap t.layers[k - 1] # {}
      <4>1. c \in N /\ c \notin Laid(s) /\ graph[c] \subseteq Laid(s) BY <1>6, <1>9
      <4>2. \A l \in 1..(n + 1) : c \in t.layers[l] => l = k
        <5> TAKE l \in 1..(n + 1)
        <5>1. CASE l \in 1..n BY <1>6, <1>15, <4>1, <5>1
        <5>2. CASE l = n + 1 BY <2>2, <5>2
        <5> QED BY <1>6, <5>1, <5>2
      <4>3. \A d \in graph[c] : \E l \in 1..n : d \in t.layers[l] BY <1>6, <1>15, <4>1
      <4>4. k - 1 = n /\ (k > 1 => n > 0 /\ n \in 1..n) BY <1>6, <2>2
      <4>5. k > 1 => graph[c] \cap t.layers[k - 1] # {}
        <5>1. k > 1 => t.layers[k - 1] = L[n] BY <1>6, <4>4
        <5>2. k > 1 => graph[c] \cap L[n] # {} BY <1>16, <4>4
        <5> QED BY <5>1, <5>2
      <4>6. \A d \in graph[c] : \E l \in 1..(k - 1) : d \in t.layers[l] BY <4>3, <4>4
      <4> QED BY <4>2, <4>5, <4>6
    <3> QED BY <3>1, <3>2
  <2> QED BY <1>6, <2>1, <2>2
<1>18. \A c \in t.queue : graph[c] \cap t.layers[Len(t.layers)] # {}
  <2>1. \A c \in t.queue : graph[c] \cap q # {} BY <1>3, <1>5 DEF Ready, Dependents
  <2> QED BY <1>6, <2>1
<1>19. Stacked(graph, t.layers)
  <2>1. PICK T : T = t.layers OBVIOUS
  <2>2. DOMAIN T = 1..(n + 1) BY <1>6, <2>1
  <2>3. Stacked(graph, T) BY <1>17, <2>1, <2>2 DEF Stacked
  <2> QED BY <2>1, <2>3
<1>20. LayersSoFar(graph, t)
  <2>1. Len(t.layers) <= t.processed /\ Wave(graph, Laid(t), t.degree, t.queue)
    BY <1>3, <1>6, <1>10, <1>12
  <2> QED BY <1>10, <1>12, <1>13, <1>18, <1>19, <2>1 DEF LayersSoFar
<1> QED BY <1>1, <1>20

\* The measure of both loops: the queue and the contracts that wait.
Measure(graph, s) == Cardinality(s.queue) + Cardinality({c \in DOMAIN graph : s.degree[c] > 0})
MeasureOf(S, graph) == [s \in S |-> Measure(graph, s)]
Finished(S) == {s \in S : s.queue = {}}
\* A turn, as a function.
NextRound(graph) == [s \in Rounds(graph) |-> IF s.queue = {} THEN s ELSE Round(graph, s)]

\* Every round takes from the queue or from those that wait.
LEMMA RoundsShrink ==
  ASSUME NEW N, NEW graph, IsGraph(graph, N)
  PROVE  Shrinking(Rounds(graph), Finished(Rounds(graph)), NextRound(graph),
                   MeasureOf(Rounds(graph), graph))
<1>0. IsFiniteSet(N) /\ graph \in [N -> SUBSET N] /\ DOMAIN graph = N BY DEF IsGraph
<1>1. ASSUME NEW s \in Rounds(graph) PROVE Measure(graph, s) \in Nat
  <2>1. s.queue \in SUBSET N BY <1>0, <1>1 DEF Rounds
  <2>2. {c \in N : s.degree[c] > 0} \in SUBSET N OBVIOUS
  <2>3. Cardinality(s.queue) \in Nat /\ Cardinality({c \in N : s.degree[c] > 0}) \in Nat
    BY <1>0, <2>1, <2>2, Counts
  <2> QED BY <1>0, <2>3 DEF Measure
<1>2. ASSUME NEW s \in Rounds(graph), s.queue # {}
      PROVE  Round(graph, s) \in Rounds(graph) /\ Measure(graph, Round(graph, s)) < Measure(graph, s)
  <2>1. PICK q, degree, low, t :
          q = s.queue /\ degree = s.degree /\ low = Lowered(graph, degree, q) /\ t = Round(graph, s)
    OBVIOUS
  <2>2. /\ q \in SUBSET N /\ degree \in [N -> Int] /\ s.layers \in Seq(SUBSET N)
        /\ s.processed \in Int
    BY <1>0, <1>2, <2>1 DEF Rounds
  <2>3. PICK fresh : fresh = Ready(low, Dependents(graph, q)) OBVIOUS
  <2>4. low \in [N -> Int] /\ fresh \in SUBSET N BY <2>1, <2>2, <2>3, LoweredType
  <2>5. t = [degree |-> low, queue |-> fresh, layers |-> Append(s.layers, q),
             processed |-> s.processed + Cardinality(q)]
    BY <2>1, <2>3 DEF Round
  <2>6. Cardinality(q) \in Nat /\ Cardinality(q) > 0 BY <1>0, <1>2, <2>1, <2>2, Counts
  <2>7. Append(s.layers, q) \in Seq(SUBSET N) /\ s.processed + Cardinality(q) \in Int
    BY <2>2, <2>6
  <2>8. t \in Rounds(graph) BY <1>0, <2>4, <2>5, <2>7 DEF Rounds
  <2>9. PICK before, after : /\ before = {c \in N : degree[c] > 0}
                             /\ after = {c \in N : low[c] > 0}
    OBVIOUS
  <2>10. Cardinality(fresh) + Cardinality(after) <= Cardinality(before)
    <3>1. low = Lowered(graph, degree, q) BY <2>1
    <3> QED BY <2>2, <2>3, <2>9, <3>1, Lowering
  <2>11. before \in SUBSET N /\ after \in SUBSET N BY <2>9
  <2>12. Cardinality(before) \in Nat /\ Cardinality(after) \in Nat /\ Cardinality(fresh) \in Nat
    BY <1>0, <2>4, <2>11, Counts
  <2>13. /\ Measure(graph, s) = Cardinality(q) + Cardinality(before)
         /\ Measure(graph, t) = Cardinality(fresh) + Cardinality(after)
    <3>1. t.queue = fresh /\ t.degree = low BY <2>5
    <3> QED BY <1>0, <2>1, <2>9, <3>1 DEF Measure
  <2>14. Measure(graph, t) < Measure(graph, s) BY <2>6, <2>10, <2>12, <2>13
  <2> QED BY <2>1, <2>8, <2>14
<1> DEFINE S == Rounds(graph)
           next == NextRound(graph)
           size == MeasureOf(S, graph)
<1>3. \A s \in S : /\ next[s] = (IF s.queue = {} THEN s ELSE Round(graph, s))
                   /\ size[s] = Measure(graph, s)
  BY DEF NextRound, MeasureOf
<1>4. next \in [S -> S]
  <2>1. \A s \in S : (IF s.queue = {} THEN s ELSE Round(graph, s)) \in S BY <1>2
  <2> HIDE DEF S
  <2>2. next = [s \in S |-> IF s.queue = {} THEN s ELSE Round(graph, s)] BY DEF NextRound, S
  <2> HIDE DEF next
  <2> QED BY <2>1, <2>2
<1>5. size \in [S -> Nat]
  <2>1. \A s \in S : Measure(graph, s) \in Nat BY <1>1
  <2> HIDE DEF S
  <2> QED BY <2>1 DEF MeasureOf
<1>6. \A s \in S : s \notin Finished(S) => size[next[s]] < size[s]
  <2> TAKE s \in S
  <2> HAVE s \notin Finished(S)
  <2>1. s.queue # {} BY DEF Finished
  <2>2. next[s] = Round(graph, s) /\ next[s] \in S BY <1>2, <1>3, <2>1
  <2>3. size[next[s]] = Measure(graph, Round(graph, s)) /\ size[s] = Measure(graph, s)
    BY <1>3, <2>2
  <2> QED BY <1>2, <2>1, <2>3
<1> QED BY <1>4, <1>5, <1>6 DEF Shrinking

\* The rounds end, in a state that has their invariant.
LEMMA LayersEnd ==
  ASSUME NEW N, NEW graph, IsGraph(graph, N)
  PROVE  LayersSoFar(graph, Peeled(graph)) /\ Peeled(graph).queue = {}
<1> DEFINE S == Rounds(graph)
           Stop == Finished(S)
           next == NextRound(graph)
           size == MeasureOf(S, graph)
           I == {s \in S : LayersSoFar(graph, s)}
<1>1. PICK f : Loop(f, S, Stop, next)
  <2>1. Shrinking(S, Stop, next, size) BY RoundsShrink
  <2> HIDE DEF S, Stop, next, size
  <2> QED BY <2>1, LoopExists
<1>2. f = [s \in Rounds(graph) |-> IF s.queue = {} THEN s ELSE f[Round(graph, s)]]
  <2>1. f = [s \in S |-> IF s \in Stop THEN s ELSE f[next[s]]] BY <1>1 DEF Loop
  <2>2. \A s \in S : /\ s \in Stop <=> s.queue = {}
                     /\ s.queue # {} => next[s] = Round(graph, s)
    BY DEF Finished, NextRound
  <2> HIDE DEF S, Stop, next
  <2>3. f = [s \in S |-> IF s.queue = {} THEN s ELSE f[Round(graph, s)]] BY <2>1, <2>2
  <2> QED BY <2>3 DEF S
<1>3. PICK Run : /\ Run = [s \in Rounds(graph) |-> IF s.queue = {} THEN s ELSE Run[Round(graph, s)]]
                 /\ Peeled(graph) = Run[BegunRounds(graph)]
  BY Zenon, <1>2 DEF Peeled, BegunRounds
<1>4. Loop(Run, S, Stop, next)
  <2>2. \A s \in S : /\ s \in Stop <=> s.queue = {}
                     /\ s.queue # {} => next[s] = Round(graph, s)
    BY DEF Finished, NextRound
  <2>3. Run = [s \in S |-> IF s.queue = {} THEN s ELSE Run[Round(graph, s)]] BY <1>3
  <2> HIDE DEF S, Stop, next
  <2> QED BY <2>2, <2>3 DEF Loop
<1>5. \A s \in I : s \notin Stop => next[s] \in I
  <2> TAKE s \in I
  <2> HAVE s \notin Stop
  <2>1. s \in S /\ s.queue # {} /\ LayersSoFar(graph, s) BY DEF Finished
  <2>2. next[s] = Round(graph, s) BY <2>1 DEF NextRound
  <2>3. LayersSoFar(graph, Round(graph, s)) BY <2>1, LayersGoOn
  <2>4. Round(graph, s) \in S BY <2>3 DEF LayersSoFar
  <2> QED BY <2>2, <2>3, <2>4
<1>6. BegunRounds(graph) \in I
  <2>1. LayersSoFar(graph, BegunRounds(graph)) BY LayersBegin
  <2> QED BY <2>1 DEF LayersSoFar
<1>7. \A s \in I : Run[s] \in I /\ Run[s] \in Stop
  <2>1. Shrinking(S, Stop, next, size) BY RoundsShrink
  <2>2. I \in SUBSET S OBVIOUS
  <2> HIDE DEF S, Stop, next, size, I
  <2> QED BY <1>4, <1>5, <2>1, <2>2, LoopKeeps
<1>8. Peeled(graph) \in I /\ Peeled(graph) \in Stop
  <2> HIDE DEF I, Stop
  <2> QED BY <1>3, <1>6, <1>7
<1> QED BY <1>8 DEF Finished

\* Kahn's algorithm in layers: it processes all contracts exactly if there is
\* no cycle among them, and then its layers are a layering.
THEOREM LayeredOrCircular ==
  ASSUME NEW N, NEW graph, IsGraph(graph, N)
  PROVE  /\ Peeled(graph).processed = Cardinality(N) =>
              /\ Peeled(graph).layers \in Seq(SUBSET N)
              /\ IsLayering(Peeled(graph).layers, graph)
         /\ Peeled(graph).processed = Cardinality(N) <=> Rankings(graph) # {}
<1>0. IsFiniteSet(N) /\ graph \in [N -> SUBSET N] /\ DOMAIN graph = N BY DEF IsGraph
<1>1. PICK s : s = Peeled(graph) OBVIOUS
<1>2. LayersSoFar(graph, s) /\ s.queue = {} BY <1>1, LayersEnd
<1>3. PICK L, n : L = s.layers /\ n = Len(L) OBVIOUS
<1>4. /\ L \in Seq(SUBSET N) /\ n \in Nat /\ DOMAIN L = 1..n
  <2>1. s \in Rounds(graph) BY <1>2 DEF LayersSoFar
  <2>2. L \in Seq(SUBSET N) BY <1>0, <1>3, <2>1 DEF Rounds
  <2> QED BY <1>3, <2>2
<1>5. PICK done : done = Laid(s) OBVIOUS
<1>6. /\ Wave(graph, done, s.degree, {}) /\ s.processed = Cardinality(done) /\ n <= s.processed
      /\ Stacked(graph, L) /\ done = UNION {L[k] : k \in DOMAIN L}
  BY <1>2, <1>3, <1>5 DEF LayersSoFar, Laid
<1>7. done \in SUBSET N BY <1>0, <1>6 DEF Wave
<1>8. s.processed = Cardinality(N) => done = N BY <1>0, <1>6, <1>7, FS_Subset
<1>9. done = N => IsLayering(L, graph)
  BY <1>0, <1>6 DEF IsLayering, Stacked
<1>10. ASSUME Rankings(graph) # {} PROVE s.processed = Cardinality(N)
  <2>1. done = N BY <1>6, <1>10, NothingIsLeft
  <2> QED BY <1>6, <2>1
<1>11. ASSUME s.processed = Cardinality(N) PROVE Rankings(graph) # {}
  <2>1. \A c \in N : \E k \in 1..n : c \in L[k] BY <1>4, <1>6, <1>8, <1>11
  <2>2. PICK rank : rank = [c \in N |-> CHOOSE k \in 1..n : c \in L[k]] OBVIOUS
  <2>3. \A c \in N : rank[c] \in 1..n /\ c \in L[rank[c]] BY <2>1, <2>2
  <2>4. \A c \in N : rank[c] \in 1..Cardinality(N)
    <3>1. Cardinality(N) \in Nat BY <1>0, FS_CardinalityType
    <3> QED BY <1>4, <1>6, <1>11, <2>3, <3>1
  <2>5. rank \in [N -> 1..Cardinality(N)] BY <2>2, <2>4
  <2>6. ASSUME NEW c \in N, NEW d \in graph[c] PROVE rank[d] < rank[c]
    <3>1. d \in N /\ rank[c] \in DOMAIN L /\ rank[d] \in DOMAIN L BY <1>0, <1>4, <2>3, <2>6
    <3>2. PICK l \in 1..(rank[c] - 1) : d \in L[l] BY <1>6, <2>3, <3>1 DEF Stacked
    <3>3. l \in DOMAIN L BY <1>4, <3>1
    <3>4. l = rank[d] BY <1>6, <2>3, <3>1, <3>2, <3>3 DEF Stacked
    <3> QED BY <1>4, <3>1, <3>2, <3>4
  <2> QED BY <1>0, <2>5, <2>6 DEF Rankings
<1> QED BY <1>1, <1>3, <1>4, <1>8, <1>9, <1>10, <1>11

-----------------------------------------------------------------------------
(* The flat order. *)

\* The smallest of several numbers is one of them.
LEMMA LeastIsIn ==
  ASSUME NEW S \in SUBSET Nat, S # {}
  PROVE  Min(S) \in S
<1>1. \E n \in S : \A m \in S : n <= m BY LeastNumber
<1> QED BY <1>1 DEF Min

\* The state Visited begins with, and what its turns keep: every contract in
\* the result is there once, after all it depends on.
BegunVisits(graph) ==
  [degree |-> InDegree(graph), queue |-> Ready(InDegree(graph), DOMAIN graph), result |-> <<>>]
Seen(s) == {s.result[i] : i \in DOMAIN s.result}
Ordered(graph, R) ==
  \A j \in DOMAIN R : /\ \A i \in DOMAIN R : R[i] = R[j] => i = j
                      /\ \A d \in graph[R[j]] : \E i \in 1..(j - 1) : R[i] = d
VisitsSoFar(graph, s) ==
  /\ s \in Visits(graph) /\ Wave(graph, Seen(s), s.degree, s.queue)
  /\ Len(s.result) = Cardinality(Seen(s)) /\ Ordered(graph, s.result)
NextVisit(graph) == [s \in Visits(graph) |-> IF s.queue = {} THEN s ELSE Visit(graph, s)]

\* A turn of the loop, its parts named.
LEMMA VisitIs ==
  ASSUME NEW N, NEW graph, IsGraph(graph, N), NEW s \in Visits(graph), s.queue # {}
  PROVE  \E node \in s.queue, low \in [N -> Int] :
           \E fresh \in SUBSET N :
             /\ low = Lowered(graph, s.degree, {node})
             /\ fresh = Ready(low, Dependents(graph, {node}))
             /\ Visit(graph, s) = [degree |-> low, queue |-> (s.queue \ {node}) \cup fresh,
                                   result |-> Append(s.result, node)]
             /\ Visit(graph, s) \in Visits(graph)
<1>0. N \subseteq Nat /\ graph \in [N -> SUBSET N] /\ DOMAIN graph = N BY DEF IsGraph
<1>1. /\ s.queue \in SUBSET N /\ s.degree \in [N -> Int] /\ s.result \in Seq(N)
  BY <1>0 DEF Visits
<1>2. PICK node \in s.queue : node = Min(s.queue) BY <1>0, <1>1, LeastIsIn
<1>3. PICK low : low = Lowered(graph, s.degree, {node}) OBVIOUS
<1>4. PICK fresh : fresh = Ready(low, Dependents(graph, {node})) OBVIOUS
<1>5. low \in [N -> Int] /\ fresh \in SUBSET N
  <2>1. {node} \in SUBSET N BY <1>1
  <2>2. PICK degree \in [N -> Int] : degree = s.degree BY <1>1
  <2>3. low = Lowered(graph, degree, {node}) BY <1>3, <2>2
  <2> QED BY <1>4, <2>1, <2>3, LoweredType
<1>6. Visit(graph, s) = [degree |-> low, queue |-> (s.queue \ {node}) \cup fresh,
                         result |-> Append(s.result, node)]
  BY <1>2, <1>3, <1>4 DEF Visit
<1>7. Append(s.result, node) \in Seq(N) /\ (s.queue \ {node}) \cup fresh \in SUBSET N
  BY <1>1, <1>5
<1>8. Visit(graph, s) \in Visits(graph) BY <1>0, <1>5, <1>6, <1>7 DEF Visits
<1> QED BY <1>3, <1>4, <1>5, <1>6, <1>8

\* A visit takes from the queue what may have been waited for.
LEMMA VisitsShrink ==
  ASSUME NEW N, NEW graph, IsGraph(graph, N)
  PROVE  Shrinking(Visits(graph), Finished(Visits(graph)), NextVisit(graph),
                   MeasureOf(Visits(graph), graph))
<1>0. IsFiniteSet(N) /\ graph \in [N -> SUBSET N] /\ DOMAIN graph = N BY DEF IsGraph
<1>1. ASSUME NEW s \in Visits(graph) PROVE Measure(graph, s) \in Nat
  <2>1. s.queue \in SUBSET N BY <1>0, <1>1 DEF Visits
  <2>2. {c \in N : s.degree[c] > 0} \in SUBSET N OBVIOUS
  <2>3. Cardinality(s.queue) \in Nat /\ Cardinality({c \in N : s.degree[c] > 0}) \in Nat
    BY <1>0, <2>1, <2>2, Counts
  <2> QED BY <1>0, <2>3 DEF Measure
<1>2. ASSUME NEW s \in Visits(graph), s.queue # {}
      PROVE  Visit(graph, s) \in Visits(graph) /\ Measure(graph, Visit(graph, s)) < Measure(graph, s)
  <2>1. PICK q, degree, t : q = s.queue /\ degree = s.degree /\ t = Visit(graph, s)
    OBVIOUS
  <2>2. PICK node \in s.queue, low \in [N -> Int] :
          \E fresh \in SUBSET N :
            /\ low = Lowered(graph, s.degree, {node})
            /\ fresh = Ready(low, Dependents(graph, {node}))
            /\ Visit(graph, s) = [degree |-> low, queue |-> (s.queue \ {node}) \cup fresh,
                                  result |-> Append(s.result, node)]
            /\ Visit(graph, s) \in Visits(graph)
    BY <1>2, VisitIs
  <2>a. PICK taken : taken = {node} OBVIOUS
  <2>3. PICK fresh \in SUBSET N :
          /\ low = Lowered(graph, degree, taken)
          /\ fresh = Ready(low, Dependents(graph, taken))
          /\ t = [degree |-> low, queue |-> (q \ {node}) \cup fresh,
                  result |-> Append(s.result, node)]
          /\ t \in Visits(graph)
    BY <2>1, <2>2, <2>a
  <2>4. q \in SUBSET N /\ degree \in [N -> Int] /\ taken \in SUBSET N /\ node \in q
    BY <1>0, <1>2, <2>1, <2>2, <2>a DEF Visits
  <2>5. PICK before, after : /\ before = {c \in N : degree[c] > 0}
                             /\ after = {c \in N : low[c] > 0}
    OBVIOUS
  <2>6. Cardinality(fresh) + Cardinality(after) <= Cardinality(before)
    <3>1. low = Lowered(graph, degree, taken) /\ fresh = Ready(low, Dependents(graph, taken))
      BY <2>3
    <3>2. degree \in [N -> Int] /\ taken \in SUBSET N BY <2>4
    <3> QED BY <2>5, <3>1, <3>2, Lowering
  <2>7. /\ IsFiniteSet(q \ {node}) /\ IsFiniteSet(fresh) /\ IsFiniteSet(q)
        /\ Cardinality(before) \in Nat /\ Cardinality(after) \in Nat /\ Cardinality(fresh) \in Nat
        /\ Cardinality(q) \in Nat /\ Cardinality((q \ {node}) \cup fresh) \in Nat
        /\ Cardinality((q \ {node}) \cap fresh) \in Nat
    <3>1. /\ q \ {node} \in SUBSET N /\ before \in SUBSET N /\ after \in SUBSET N
          /\ (q \ {node}) \cup fresh \in SUBSET N /\ (q \ {node}) \cap fresh \in SUBSET N
      BY <2>4, <2>5
    <3> QED BY <1>0, <2>4, <3>1, Counts
  <2>8. Cardinality(q \ {node}) = Cardinality(q) - 1 BY <2>4, <2>7, FS_RemoveElement
  <2>9. Cardinality((q \ {node}) \cup fresh)
          = Cardinality(q \ {node}) + Cardinality(fresh) - Cardinality((q \ {node}) \cap fresh)
    BY <2>7, FS_Union
  <2>10. /\ Measure(graph, s) = Cardinality(q) + Cardinality(before)
         /\ Measure(graph, t) = Cardinality((q \ {node}) \cup fresh) + Cardinality(after)
    <3>1. t.queue = (q \ {node}) \cup fresh /\ t.degree = low BY <2>3
    <3> QED BY <1>0, <2>1, <2>5, <3>1 DEF Measure
  <2>11. Measure(graph, t) < Measure(graph, s) BY <2>6, <2>7, <2>8, <2>9, <2>10
  <2> QED BY <2>1, <2>3, <2>11
<1> DEFINE S == Visits(graph)
           next == NextVisit(graph)
           size == MeasureOf(S, graph)
<1>3. \A s \in S : /\ next[s] = (IF s.queue = {} THEN s ELSE Visit(graph, s))
                   /\ size[s] = Measure(graph, s)
  BY DEF NextVisit, MeasureOf
<1>4. next \in [S -> S]
  <2>1. \A s \in S : (IF s.queue = {} THEN s ELSE Visit(graph, s)) \in S BY <1>2
  <2> HIDE DEF S
  <2>2. next = [s \in S |-> IF s.queue = {} THEN s ELSE Visit(graph, s)] BY DEF NextVisit, S
  <2> HIDE DEF next
  <2> QED BY <2>1, <2>2
<1>5. size \in [S -> Nat]
  <2>1. \A s \in S : Measure(graph, s) \in Nat BY <1>1
  <2> HIDE DEF S
  <2> QED BY <2>1 DEF MeasureOf
<1>6. \A s \in S : s \notin Finished(S) => size[next[s]] < size[s]
  <2> TAKE s \in S
  <2> HAVE s \notin Finished(S)
  <2>1. s.queue # {} BY DEF Finished
  <2>2. next[s] = Visit(graph, s) /\ next[s] \in S BY <1>2, <1>3, <2>1
  <2>3. size[next[s]] = Measure(graph, Visit(graph, s)) /\ size[s] = Measure(graph, s)
    BY <1>3, <2>2
  <2> QED BY <1>2, <2>1, <2>3
<1> QED BY <1>4, <1>5, <1>6 DEF Shrinking

\* The visits begin with no result.
LEMMA VisitsBegin ==
  ASSUME NEW N, NEW graph, IsGraph(graph, N)
  PROVE  VisitsSoFar(graph, BegunVisits(graph))
<1>0. IsFiniteSet(N) /\ graph \in [N -> SUBSET N] /\ DOMAIN graph = N BY DEF IsGraph
<1>1. PICK s : s = BegunVisits(graph) OBVIOUS
<1>2. /\ s.degree = InDegree(graph) /\ s.queue = Ready(InDegree(graph), DOMAIN graph)
      /\ s.result = <<>>
  BY <1>1 DEF BegunVisits
<1>3. Seen(s) = {} BY <1>2 DEF Seen
<1>4. Wave(graph, {}, s.degree, s.queue) BY <1>2, WaveBegins
<1>5. \A c \in N : graph[c] \in SUBSET N BY <1>0
<1>6. InDegree(graph) \in [N -> Int] /\ s.queue \in SUBSET N
  <2>1. \A c \in N : Cardinality(graph[c]) \in Int BY <1>0, <1>5, Counts
  <2> QED BY <1>0, <1>2, <2>1 DEF InDegree, Ready
<1>7. s \in Visits(graph) BY <1>0, <1>1, <1>6, <1>2 DEF BegunVisits, Visits
<1>8. Cardinality({}) = 0 BY FS_EmptySet
<1>9. Ordered(graph, s.result) BY <1>2 DEF Ordered
<1>10. VisitsSoFar(graph, s) BY <1>2, <1>3, <1>4, <1>7, <1>8, <1>9 DEF VisitsSoFar
<1> QED BY <1>1, <1>10

\* A visit appends a contract that is not in the result, and all whose
\* dependencies are.
LEMMA VisitsGoOn ==
  ASSUME NEW N, NEW graph, IsGraph(graph, N), NEW s, VisitsSoFar(graph, s), s.queue # {}
  PROVE  VisitsSoFar(graph, Visit(graph, s))
<1>0. IsFiniteSet(N) /\ graph \in [N -> SUBSET N] /\ DOMAIN graph = N BY DEF IsGraph
<1>1. PICK q, R, n, t, done : /\ q = s.queue /\ R = s.result /\ n = Len(R) /\ t = Visit(graph, s)
                              /\ done = Seen(s)
  OBVIOUS
<1>2. s \in Visits(graph) /\ q \in SUBSET N /\ R \in Seq(N) /\ n \in Nat /\ DOMAIN R = 1..n
  <2>1. s \in Visits(graph) BY DEF VisitsSoFar
  <2>2. q \in SUBSET N /\ R \in Seq(N) BY <1>0, <1>1, <2>1 DEF Visits
  <2> QED BY <1>1, <2>1, <2>2
<1>3. PICK node \in s.queue, low \in [N -> Int] :
        \E fresh \in SUBSET N :
          /\ low = Lowered(graph, s.degree, {node})
          /\ fresh = Ready(low, Dependents(graph, {node}))
          /\ Visit(graph, s) = [degree |-> low, queue |-> (s.queue \ {node}) \cup fresh,
                                result |-> Append(s.result, node)]
          /\ Visit(graph, s) \in Visits(graph)
  BY <1>2, VisitIs
<1>4. /\ low = Lowered(graph, s.degree, {node}) /\ t \in Visits(graph)
      /\ t.degree = low /\ t.queue = (q \ {node}) \cup Ready(low, Dependents(graph, {node}))
      /\ t.result = Append(R, node) /\ node \in q
  BY <1>1, <1>3
<1>5. PICK T : T = t.result OBVIOUS
<1>6. /\ node \in N /\ DOMAIN T = 1..(n + 1) /\ Len(T) = n + 1 /\ T[n + 1] = node
      /\ \A i \in 1..n : T[i] = R[i]
  BY <1>1, <1>2, <1>4, <1>5
<1>7. /\ Wave(graph, done, s.degree, q) /\ n = Cardinality(done) /\ Ordered(graph, R)
      /\ done = {R[i] : i \in 1..n}
  BY <1>1, <1>2 DEF VisitsSoFar, Seen
<1>a. \A d \in done : \E i \in 1..n : R[i] = d BY <1>7
<1>8. done \in SUBSET N /\ node \notin done /\ graph[node] \subseteq done BY <1>0, <1>4, <1>6, <1>7 DEF Wave
<1>9. \A i : i \in 1..(n + 1) <=> i \in 1..n \/ i = n + 1 BY <1>2
<1>10. Seen(t) = done \cup {node}
  <2>1. Seen(t) = {T[i] : i \in 1..(n + 1)} BY <1>5, <1>6 DEF Seen
  <2>2. \A c : (\E i \in 1..(n + 1) : c = T[i]) <=> c = node \/ \E i \in 1..n : c = R[i]
    BY <1>6, <1>9
  <2>3. \A c : c \in done <=> \E i \in 1..n : c = R[i] BY <1>7
  <2>4. \A c : c \in Seen(t) <=> \E i \in 1..(n + 1) : c = T[i] BY <2>1
  <2> QED BY <2>2, <2>3, <2>4
<1>11. Wave(graph, Seen(t), t.degree, t.queue)
  <2>1. {node} \in SUBSET q BY <1>4
  <2>2. Wave(graph, done \cup {node}, low, (q \ {node}) \cup Ready(low, Dependents(graph, {node})))
    BY <1>4, <1>7, <2>1, WaveGoesOn
  <2> QED BY <1>4, <1>10, <2>2
<1>12. Len(T) = Cardinality(Seen(t))
  <2>1. IsFiniteSet(done) BY <1>0, <1>8, Counts
  <2>2. Cardinality(done \cup {node}) = Cardinality(done) + 1 BY <1>8, <2>1, FS_AddElement
  <2> QED BY <1>6, <1>7, <1>10, <2>2
<1>13. Ordered(graph, T)
  <2>1. ASSUME NEW j \in 1..(n + 1)
        PROVE  /\ \A i \in 1..(n + 1) : T[i] = T[j] => i = j
               /\ \A d \in graph[T[j]] : \E i \in 1..(j - 1) : T[i] = d
    <3>1. CASE j \in 1..n
      <4>1. T[j] = R[j] /\ T[j] # node BY <1>6, <1>7, <1>8, <3>1
      <4>2. \A i \in 1..n : T[i] = T[j] => i = j BY <1>2, <1>6, <1>7, <3>1 DEF Ordered
      <4>3. \A d \in graph[R[j]] : \E i \in 1..(j - 1) : R[i] = d BY <1>2, <1>7, <3>1 DEF Ordered
      <4>4. \A i \in 1..(j - 1) : i \in 1..n BY <1>2, <3>1
      <4>5. \A d \in graph[T[j]] : \E i \in 1..(j - 1) : T[i] = d BY <1>6, <4>1, <4>3, <4>4
      <4> QED BY <1>6, <1>9, <4>1, <4>2, <4>5
    <3>2. CASE j = n + 1
      <4>1. \A i \in 1..n : T[i] # node BY <1>6, <1>7, <1>8
      <4>2. \A d \in graph[node] : \E i \in 1..n : T[i] = d
        <5> TAKE d \in graph[node]
        <5>1. PICK i \in 1..n : R[i] = d BY <1>a, <1>8
        <5> QED BY <1>6, <5>1
      <4>3. j - 1 = n BY <1>2, <3>2
      <4>4. T[j] = node BY <1>6, <3>2
      <4> QED BY <1>9, <3>2, <4>1, <4>2, <4>3, <4>4
    <3> QED BY <1>9, <3>1, <3>2
  <2> QED BY <1>6, <2>1 DEF Ordered
<1> QED BY <1>1, <1>4, <1>5, <1>11, <1>12, <1>13 DEF VisitsSoFar

\* The visits end, in a state that has their invariant.
LEMMA VisitsEnd ==
  ASSUME NEW N, NEW graph, IsGraph(graph, N)
  PROVE  VisitsSoFar(graph, Visited(graph)) /\ Visited(graph).queue = {}
<1> DEFINE S == Visits(graph)
           Stop == Finished(S)
           next == NextVisit(graph)
           size == MeasureOf(S, graph)
           I == {s \in S : VisitsSoFar(graph, s)}
<1>1. PICK f : Loop(f, S, Stop, next)
  <2>1. Shrinking(S, Stop, next, size) BY VisitsShrink
  <2> HIDE DEF S, Stop, next, size
  <2> QED BY <2>1, LoopExists
<1>2. f = [s \in Visits(graph) |-> IF s.queue = {} THEN s ELSE f[Visit(graph, s)]]
  <2>1. f = [s \in S |-> IF s \in Stop THEN s ELSE f[next[s]]] BY <1>1 DEF Loop
  <2>2. \A s \in S : /\ s \in Stop <=> s.queue = {}
                     /\ s.queue # {} => next[s] = Visit(graph, s)
    BY DEF Finished, NextVisit
  <2> HIDE DEF S, Stop, next
  <2>3. f = [s \in S |-> IF s.queue = {} THEN s ELSE f[Visit(graph, s)]] BY <2>1, <2>2
  <2> QED BY <2>3 DEF S
<1>3. PICK Run : /\ Run = [s \in Visits(graph) |-> IF s.queue = {} THEN s ELSE Run[Visit(graph, s)]]
                 /\ Visited(graph) = Run[BegunVisits(graph)]
  BY Zenon, <1>2 DEF Visited, BegunVisits
<1>4. Loop(Run, S, Stop, next)
  <2>2. \A s \in S : /\ s \in Stop <=> s.queue = {}
                     /\ s.queue # {} => next[s] = Visit(graph, s)
    BY DEF Finished, NextVisit
  <2>3. Run = [s \in S |-> IF s.queue = {} THEN s ELSE Run[Visit(graph, s)]] BY <1>3
  <2> HIDE DEF S, Stop, next
  <2> QED BY <2>2, <2>3 DEF Loop
<1>5. \A s \in I : s \notin Stop => next[s] \in I
  <2> TAKE s \in I
  <2> HAVE s \notin Stop
  <2>1. s \in S /\ s.queue # {} /\ VisitsSoFar(graph, s) BY DEF Finished
  <2>2. next[s] = Visit(graph, s) BY <2>1 DEF NextVisit
  <2>3. VisitsSoFar(graph, Visit(graph, s)) BY <2>1, VisitsGoOn
  <2>4. Visit(graph, s) \in S BY <2>3 DEF VisitsSoFar
  <2> QED BY <2>2, <2>3, <2>4
<1>6. BegunVisits(graph) \in I
  <2>1. VisitsSoFar(graph, BegunVisits(graph)) BY VisitsBegin
  <2> QED BY <2>1 DEF VisitsSoFar
<1>7. \A s \in I : Run[s] \in I /\ Run[s] \in Stop
  <2>1. Shrinking(S, Stop, next, size) BY VisitsShrink
  <2>2. I \in SUBSET S OBVIOUS
  <2> HIDE DEF S, Stop, next, size, I
  <2> QED BY <1>4, <1>5, <2>1, <2>2, LoopKeeps
<1>8. Visited(graph) \in I /\ Visited(graph) \in Stop
  <2> HIDE DEF I, Stop
  <2> QED BY <1>3, <1>6, <1>7
<1> QED BY <1>8 DEF Finished

\* Kahn's algorithm: it sorts the contracts, or finds that there is a cycle.
THEOREM SortedOrCircular ==
  ASSUME NEW N, NEW graph, IsGraph(graph, N)
  PROVE  IF Rankings(graph) = {} THEN Toposort(graph) = Circular
                                 ELSE IsTopological(Toposort(graph), graph)
<1>0. IsFiniteSet(N) /\ graph \in [N -> SUBSET N] /\ DOMAIN graph = N BY DEF IsGraph
<1>1. PICK s : s = Visited(graph) OBVIOUS
<1>2. VisitsSoFar(graph, s) /\ s.queue = {} BY <1>1, VisitsEnd
<1>3. PICK R, n, done : R = s.result /\ n = Len(R) /\ done = Seen(s) OBVIOUS
<1>4. R \in Seq(N) /\ n \in Nat /\ DOMAIN R = 1..n
  <2>1. s \in Visits(graph) BY <1>2 DEF VisitsSoFar
  <2>2. R \in Seq(N) BY <1>0, <1>3, <2>1 DEF Visits
  <2> QED BY <1>3, <2>2
<1>5. /\ Wave(graph, done, s.degree, {}) /\ n = Cardinality(done) /\ Ordered(graph, R)
      /\ done = {R[i] : i \in 1..n}
  BY <1>2, <1>3, <1>4 DEF VisitsSoFar, Seen
<1>6. done \in SUBSET N BY <1>0, <1>5 DEF Wave
<1>7. n = Cardinality(N) => done = N BY <1>0, <1>5, <1>6, FS_Subset
<1>8. ASSUME NEW i \in 1..n, NEW j \in 1..n, R[i] \in graph[R[j]]
      PROVE  i < j
  <2>1. PICK k \in 1..(j - 1) : R[k] = R[i] BY <1>4, <1>5, <1>8 DEF Ordered
  <2>2. k \in 1..n BY <1>4
  <2>3. k = i BY <1>4, <1>5, <2>1, <2>2 DEF Ordered
  <2> QED BY <1>4, <2>1, <2>3
<1>9. CASE Rankings(graph) # {}
  <2>1. done = N BY <1>5, <1>9, NothingIsLeft
  <2>2. Toposort(graph) = R BY <1>0, <1>1, <1>3, <1>5, <2>1 DEF Toposort
  <2>3. IsTopological(R, graph) BY <1>0, <1>3, <1>4, <1>5, <1>8, <2>1 DEF IsTopological
  <2> QED BY <1>9, <2>2, <2>3
<1>10. CASE Rankings(graph) = {}
  <2>1. SUFFICES ASSUME n = Cardinality(N) PROVE FALSE BY <1>0, <1>1, <1>3, <1>10 DEF Toposort
  <2>2. \A c \in N : \E i \in 1..n : R[i] = c BY <1>5, <1>7, <2>1
  <2>3. PICK rank : rank = [c \in N |-> CHOOSE i \in 1..n : R[i] = c] OBVIOUS
  <2>4. \A c \in N : rank[c] \in 1..Cardinality(N) /\ R[rank[c]] = c BY <2>1, <2>2, <2>3
  <2>5. rank \in [N -> 1..Cardinality(N)] BY <2>3, <2>4
  <2>6. ASSUME NEW c \in N, NEW d \in graph[c] PROVE rank[d] < rank[c]
    <3>1. d \in N BY <1>0, <2>6
    <3> QED BY <1>8, <2>1, <2>4, <3>1
  <2>7. Rankings(graph) # {} BY <1>0, <2>5, <2>6 DEF Rankings
  <2> QED BY <1>10, <2>7
<1> QED BY <1>9, <1>10

-----------------------------------------------------------------------------
(* The commands. *)

\* The graph of the contracts a command selected.
Graph == DependencyGraph(selected, DependsOnCrates)

WorkspaceTypeOK ==
  /\ tree \in Tree /\ selected \in SUBSET (Rust \cup Solidity) /\ manifest \in SUBSET Target
  /\ at \in {"idle", "build", "deploy", "done", "error"}
  /\ layers \in Seq(SUBSET selected) /\ layer \in Nat \ {0}
  /\ ready \in SUBSET Target /\ failed \in SUBSET Target
  /\ DOMAIN wrapper = Package /\ DOMAIN deployed = Target
  /\ DOMAIN bytecode = Range(BytecodePath)

\* A command that got past detection has a layering of its contracts.
Detected == at \notin {"idle", "error"} => IsLayering(layers, Graph) /\ Rankings(Graph) # {}

\* What has had its turn and has not failed is deployed, by a deployment.
Past(k) == k < layer \/ (at = "deploy" /\ k = layer)
LayerByLayer ==
  /\ (at \in {"build", "deploy"} /\ command = "deploy") =>
       \A k \in DOMAIN layers : k < layer =>
         \A t \in layers[k] \ failed : deployed[t] # Nothing
  /\ at = "deploy" => /\ layer \in DOMAIN layers
                      /\ layers[layer] \ failed \subseteq ready /\ command = "deploy"

\* A wrapper holds the address of this run as soon as there is one.
WrappersAreCurrent ==
  \A p \in Local(selected) :
    \/ \E d \in Target : tree.package[d] = p /\ deployed[d] # Nothing /\ wrapper[p] = Wrapper(d)
    \/ \A d \in Target : tree.package[d] = p => deployed[d] = Nothing

\* ... and so do the bytecodes that are about to be deployed.
Embeds(code) ==
  \A p \in (DOMAIN code.embeds \cap Local(selected)) \ {tree.package[code.of]} :
    \E d \in Target : tree.package[d] = p /\ deployed[d] # Nothing /\ code.embeds[p] = Wrapper(d)
ReadyIsCurrent ==
  at = "deploy" => \A t \in ready : /\ bytecode[BytecodePath[t]] # Nothing
                                    /\ Embeds(bytecode[BytecodePath[t]])

IInv == /\ WorkspaceTypeOK /\ Detected /\ LayerByLayer /\ WrappersAreCurrent /\ ReadyIsCurrent
        /\ \A t \in Target : deployed[t] # Nothing => Embeds(deployed[t])

\* With a path of its own for every contract, what was built in this run or
\* the manifest lists has its bytecode there.
OwnBytecode ==
  \A t \in Target :
    (\/ t \in manifest
     \/ /\ at \in {"build", "deploy"}
        /\ \E k \in DOMAIN layers : Past(k) /\ t \in layers[k] \ failed)
    => bytecode[BytecodePath[t]].of = t

\* What is read from the sources is the same as long as they are.
LEMMA SameSources ==
  ASSUME tree' = tree
  PROVE  /\ Rust' = Rust /\ Solidity' = Solidity /\ DependsOnCrates' = DependsOnCrates
         /\ \A t : PackagesReached(t)' = PackagesReached(t)
         /\ \A S : Local(S)' = Local(S)
<1>1. \A t : PackagesReached(t)' = PackagesReached(t) BY DEF PackagesReached
<1>2. Rust' = Rust /\ Solidity' = Solidity BY DEF Rust, Solidity
<1>3. DependsOnCrates' = DependsOnCrates
  BY <1>1 DEF DependsOnCrates, Rust, Solidity, RustDependencies, SolidityDependencies, ImportedPackages
<1>4. \A S : Local(S)' = Local(S) BY <1>2 DEF Local
<1> QED BY <1>1, <1>2, <1>3, <1>4

\* The graph a command orders is one of finitely many contracts.
LEMMA ContractsAreFinite ==
  ASSUME NEW contracts \in SUBSET (Rust \cup Solidity)
  PROVE  /\ contracts \in SUBSET Target
         /\ IsGraph(DependencyGraph(contracts, DependsOnCrates), contracts)
<1>1. contracts \in SUBSET Target BY DEF Rust, Solidity
<1>2. IsFiniteSet(Target) /\ Target \subseteq Nat BY WorkspaceAssumption
<1>3. IsFiniteSet(contracts) BY <1>1, <1>2, FS_Subset
<1>4. DependencyGraph(contracts, DependsOnCrates) \in [contracts -> SUBSET contracts]
  BY DEF DependencyGraph
<1> QED BY <1>1, <1>2, <1>3, <1>4 DEF IsGraph

\* The largest of several contracts is one of them.
LEMMA GreatestIsIn ==
  ASSUME NEW S \in SUBSET Target, S # {}
  PROVE  Max(S) \in S
<1>1. IsFiniteSet(Target) /\ Target \subseteq Nat BY WorkspaceAssumption
<1> DEFINE HasGreatest(U) == \E x \in U : \A y \in U : x >= y
           Bad == {U \in SUBSET S : U # {} /\ ~HasGreatest(U)}
           T == {Cardinality(U) : U \in Bad}
<1>2. \A U \in SUBSET S : IsFiniteSet(U) /\ Cardinality(U) \in Nat
  <2>1. \A U \in SUBSET S : U \in SUBSET Target OBVIOUS
  <2> QED BY <1>1, <2>1, Counts
<1>3. Bad = {}
  <2> SUFFICES ASSUME Bad # {} PROVE FALSE OBVIOUS
  <2>1. T \in SUBSET Nat /\ T # {} BY <1>2
  <2> HIDE DEF T
  <2>2. PICK n \in T : \A m \in T : n <= m BY <2>1, LeastNumber
  <2>3. PICK U \in Bad : Cardinality(U) = n BY <2>2 DEF T
  <2>4. PICK x \in U : TRUE BY <2>3
  <2>5. U \ {x} \in SUBSET S /\ Cardinality(U \ {x}) = n - 1 /\ n \in Nat
    <3>1. U \in SUBSET S /\ U \ {x} \in SUBSET S BY <2>3
    <3>2. IsFiniteSet(U) BY <1>2, <3>1
    <3> QED BY <2>1, <2>2, <2>3, <2>4, <3>1, <3>2, FS_RemoveElement
  <2>6. U \ {x} \notin Bad
    <3> SUFFICES ASSUME U \ {x} \in Bad PROVE FALSE OBVIOUS
    <3>1. n - 1 \in T BY <2>5 DEF T
    <3> HIDE DEF Bad
    <3> QED BY <2>2, <2>5, <3>1
  <2>7. U \in SUBSET Nat /\ x \in Nat BY <1>1, <2>3, <2>4
  <2>8. CASE U \ {x} = {}
    <3>1. U = {x} BY <2>4, <2>8
    <3>2. HasGreatest(U) BY <2>7, <3>1
    <3> QED BY <2>3, <3>2
  <2>9. CASE U \ {x} # {}
    <3>1. PICK m \in U \ {x} : \A y \in U \ {x} : m >= y BY <2>5, <2>6, <2>9
    <3>2. HasGreatest(U)
      <4>1. CASE m >= x BY <3>1, <4>1
      <4>2. CASE ~(m >= x)
        <5>1. \A y \in U : x >= y BY <2>7, <3>1, <4>2
        <5> QED BY <2>4, <5>1
      <4> QED BY <4>1, <4>2
    <3> QED BY <2>3, <3>2
  <2> QED BY <2>8, <2>9
<1>4. HasGreatest(S) BY <1>3
<1> QED BY <1>4 DEF Max

\* A command that gets past detection has a layering; nothing of it is
\* deployed yet.
LEMMA Starts ==
  ASSUME IInv, NEW kind, NEW contracts \in SUBSET (Rust \cup Solidity), Start(kind, contracts)
  PROVE  IInv'
<1> DEFINE graph == DependencyGraph(contracts, DependsOnCrates)
<1>1. /\ tree' = tree /\ selected' = contracts /\ deployed' = [t \in Target |-> Nothing]
      /\ failed' = {} /\ ready' = {} /\ layer' = 1 /\ bytecode' = bytecode /\ manifest' = manifest
  BY DEF Start
<1>2. /\ tree \in Tree /\ DOMAIN wrapper = Package /\ DOMAIN bytecode = Range(BytecodePath)
      /\ manifest \in SUBSET Target
  BY DEF IInv, WorkspaceTypeOK
<1>3. /\ Rust' = Rust /\ Solidity' = Solidity /\ DependsOnCrates' = DependsOnCrates
  BY <1>1, SameSources
<1>4. IsGraph(graph, contracts) BY ContractsAreFinite
<1>5. Graph' = graph BY <1>1, <1>3 DEF Graph, DependencyGraph
<1>6. /\ at' \in {"error", "build"}
      /\ at' = "error" => layers' = <<>>
      /\ at' = "build" => layers' = ToposortLayers(graph) /\ ToposortLayers(graph) # Circular
      /\ DOMAIN wrapper' = Package
  BY <1>2 DEF Start, DetectionFails
<1>7. at' = "build" => /\ layers' \in Seq(SUBSET contracts)
                       /\ IsLayering(layers', graph) /\ Rankings(graph) # {}
  <2> HIDE DEF graph
  <2>1. DOMAIN graph = contracts BY <1>4 DEF IsGraph
  <2>2. ToposortLayers(graph) # Circular =>
          /\ Peeled(graph).processed = Cardinality(contracts)
          /\ ToposortLayers(graph) = Peeled(graph).layers
    BY <2>1 DEF ToposortLayers
  <2> QED BY <1>4, <1>6, <2>2, LayeredOrCircular
<1>a. layers' \in Seq(SUBSET contracts)
  <2> HIDE DEF graph
  <2>1. CASE at' = "build" BY <1>7, <2>1
  <2>2. CASE at' = "error"
    <3>1. layers' = <<>> BY <1>6, <2>2
    <3> QED BY <3>1
  <2> QED BY <1>6, <2>1, <2>2
<1>8. WorkspaceTypeOK'
  <2>1. layers' \in Seq(SUBSET contracts) BY <1>a
  <2>2. selected' \in SUBSET (Rust' \cup Solidity') BY <1>1, <1>3
  <2>3. DOMAIN deployed' = Target /\ layer' \in Nat \ {0} BY <1>1
  <2> QED BY <1>1, <1>2, <1>6, <2>1, <2>2, <2>3 DEF WorkspaceTypeOK
<1>9. Detected'
  <2> HIDE DEF graph
  <2> QED BY <1>5, <1>6, <1>7 DEF Detected
<1>10. LayerByLayer'
  <2>1. layers' \in Seq(SUBSET contracts) BY <1>a
  <2>2. DOMAIN layers' = 1..Len(layers') /\ Len(layers') \in Nat BY <2>1
  <2>3. \A k \in DOMAIN layers' : ~(k < layer') BY <1>1, <2>2
  <2>4. at' # "deploy" BY <1>6
  <2> QED BY <2>3, <2>4 DEF LayerByLayer
<1>11. \A d \in Target : deployed'[d] = Nothing BY <1>1
<1>12. Nothing' = Nothing BY DEF Nothing
<1>13. WrappersAreCurrent' BY <1>11, <1>12 DEF WrappersAreCurrent
<1>14. ReadyIsCurrent' BY <1>6 DEF ReadyIsCurrent
<1> QED BY <1>8, <1>9, <1>10, <1>11, <1>12, <1>13, <1>14 DEF IInv

\* What a built contract embeds of the packages selected is of this run: the
\* contracts it depends on had their turn in earlier layers.
LEMMA BuiltIsCurrent ==
  ASSUME IInv, at = "build", command = "deploy", layer \in DOMAIN layers,
         NEW t \in layers[layer], DependsOnCrates[t] \cap failed = {}
  PROVE  Embeds(Compiled(t))
<1>1. /\ selected \in SUBSET (Rust \cup Solidity) /\ layers \in Seq(SUBSET selected)
      /\ layer \in Nat \ {0} /\ IsLayering(layers, Graph)
  BY DEF IInv, WorkspaceTypeOK, Detected
<1>2. t \in selected /\ t \in Target /\ DOMAIN layers = 1..Len(layers) /\ Len(layers) \in Nat
  <2>1. t \in selected BY <1>1
  <2> QED BY <1>1, <2>1 DEF Rust, Solidity
<1>3. Compiled(t).of = t
      /\ Compiled(t).embeds = [p \in IF t \in Solidity THEN PackagesReached(t) ELSE {} |-> wrapper[p]]
  BY DEF Compiled
<1>4. SUFFICES ASSUME NEW p \in (IF t \in Solidity THEN PackagesReached(t) ELSE {}) \cap Local(selected),
                      p # tree.package[t]
               PROVE  \E d \in Target : /\ tree.package[d] = p /\ deployed[d] # Nothing
                                        /\ wrapper[p] = Wrapper(d)
  BY <1>3 DEF Embeds
<1>5. t \in Solidity /\ p \in PackagesReached(t) BY <1>4
<1>6. PICK d \in selected \cap Solidity : tree.package[d] = p BY <1>4 DEF Local
<1>7. d \in Target /\ d # t BY <1>4, <1>6 DEF Solidity
<1>8. d \in DependsOnCrates[t]
  <2>1. t \notin Rust BY <1>5 DEF Rust, Solidity
  <2>2. DependsOnCrates[t] = SolidityDependencies(t) BY <1>5, <2>1 DEF DependsOnCrates
  <2> QED BY <1>5, <1>6, <1>7, <2>2 DEF SolidityDependencies, ImportedPackages
<1>9. d \in Graph[t] BY <1>2, <1>6, <1>8 DEF Graph, DependencyGraph
<1>10. PICK l \in 1..(layer - 1) : d \in layers[l] BY <1>1, <1>9 DEF IsLayering
<1>11. l \in DOMAIN layers /\ l < layer /\ d \notin failed BY <1>1, <1>2, <1>8, <1>10
<1>12. deployed[d] # Nothing BY <1>10, <1>11 DEF IInv, LayerByLayer
<1> QED BY <1>4, <1>6, <1>7, <1>12 DEF IInv, WrappersAreCurrent

\* A step that touches neither wrappers nor deployments keeps what they say.
LEMMA WrappersStayCurrent ==
  ASSUME WrappersAreCurrent, tree' = tree, run' = run, selected' = selected,
         deployed' = deployed, wrapper' = wrapper
  PROVE  WrappersAreCurrent'
<1>1. (\A S : Local(S)' = Local(S)) /\ Nothing' = Nothing BY SameSources DEF Nothing
<1>2. \A d : Wrapper(d)' = Wrapper(d) BY DEF Wrapper
<1> QED BY <1>1, <1>2 DEF WrappersAreCurrent

\* A layer is built.
LEMMA Builds ==
  ASSUME IInv, BuildLayer
  PROVE  IInv'
<1>1. /\ at = "build" /\ layer \in DOMAIN layers /\ tree' = tree /\ wrapper' = wrapper /\ run' = run
      /\ command' = command /\ selected' = selected /\ layers' = layers /\ deployed' = deployed
      /\ manifest' = manifest
  BY DEF BuildLayer
<1>2. /\ tree \in Tree /\ selected \in SUBSET (Rust \cup Solidity)
      /\ layers \in Seq(SUBSET selected) /\ layer \in Nat \ {0} /\ failed \in SUBSET Target
      /\ DOMAIN wrapper = Package /\ DOMAIN deployed = Target /\ DOMAIN bytecode = Range(BytecodePath)
      /\ manifest \in SUBSET Target
  BY DEF IInv, WorkspaceTypeOK
<1>3. /\ Rust' = Rust /\ Solidity' = Solidity /\ DependsOnCrates' = DependsOnCrates
      /\ \A S : Local(S)' = Local(S)
  BY <1>1, SameSources
<1>4. DOMAIN layers = 1..Len(layers) /\ Len(layers) \in Nat BY <1>2
<1>5. layers[layer] \in SUBSET selected /\ selected \in SUBSET Target
  <2>1. layers[layer] \in SUBSET selected BY <1>1, <1>2
  <2>2. selected \in SUBSET Target BY <1>2 DEF Rust, Solidity
  <2> QED BY <2>1, <2>2
<1>6. PICK skipped : skipped = {t \in layers[layer] : DependsOnCrates[t] \cap failed # {}}
  OBVIOUS
<1>7. PICK built \in SUBSET (layers[layer] \ skipped) :
        /\ failed' = failed \cup (layers[layer] \ built) /\ ready' = built
        /\ bytecode' = [path \in Range(BytecodePath) |->
             LET written == {t \in built : BytecodePath[t] = path}
             IN  IF written = {} THEN bytecode[path] ELSE Compiled(Max(written))]
        /\ IF command = "deploy" /\ built # {}
             THEN at' = "deploy" /\ UNCHANGED layer
             ELSE at' = "build" /\ layer' = layer + 1
  BY <1>6 DEF BuildLayer
<1>8. WorkspaceTypeOK'
  <2>1. failed' \in SUBSET Target /\ ready' \in SUBSET Target BY <1>2, <1>5, <1>7
  <2>2. at' \in {"build", "deploy"} /\ layer' \in Nat \ {0} BY <1>2, <1>7
  <2>3. DOMAIN bytecode' = Range(BytecodePath) BY <1>7
  <2> QED BY <1>1, <1>2, <1>3, <2>1, <2>2, <2>3 DEF WorkspaceTypeOK
<1>9. Graph' = Graph BY <1>1, <1>3 DEF Graph, DependencyGraph
<1>10. Detected' BY <1>1, <1>9 DEF IInv, Detected
<1>11. Nothing' = Nothing BY DEF Nothing
<1>12. LayerByLayer'
  <2>1. ASSUME command' = "deploy", NEW k \in DOMAIN layers, k < layer', NEW t \in layers[k] \ failed'
        PROVE  deployed[t] # Nothing
    <3>1. t \in layers[k] \ failed BY <1>7, <2>1
    <3>2. CASE k < layer BY <1>1, <2>1, <3>1, <3>2 DEF IInv, LayerByLayer
    <3>3. CASE ~(k < layer)
      <4>1. layer' # layer BY <2>1, <3>3
      <4>2. layer' = layer + 1 /\ built = {} BY <1>1, <1>7, <2>1, <4>1
      <4>3. k = layer BY <1>2, <1>4, <2>1, <3>3, <4>2
      <4>4. layers[k] \subseteq failed' BY <1>7, <4>2, <4>3
      <4> QED BY <2>1, <4>4
    <3> QED BY <3>2, <3>3
  <2>2. at' = "deploy" => layer' = layer /\ layers[layer] \ failed' \subseteq ready' /\ command' = "deploy"
    BY <1>1, <1>7
  <2> QED BY <1>1, <1>11, <2>1, <2>2 DEF LayerByLayer
<1>13. WrappersAreCurrent' BY <1>1, WrappersStayCurrent DEF IInv
<1>14. \A t \in Target : deployed'[t] # Nothing => Embeds(deployed[t])' BY <1>1, <1>3, <1>11 DEF IInv, Embeds, Wrapper
<1>15. ReadyIsCurrent'
  <2> SUFFICES ASSUME at' = "deploy", NEW t \in built
               PROVE  bytecode'[BytecodePath[t]] # Nothing /\ Embeds(bytecode[BytecodePath[t]])'
    BY <1>7, <1>11 DEF ReadyIsCurrent
  <2>1. command = "deploy" BY <1>7
  <2>2. t \in Target /\ BytecodePath[t] \in Range(BytecodePath)
    BY <1>5, <1>7, WorkspaceAssumption DEF Range
  <2>3. PICK written : written = {u \in built : BytecodePath[u] = BytecodePath[t]} OBVIOUS
  <2>4. written # {} /\ written \in SUBSET Target BY <1>5, <1>7, <2>3
  <2>5. PICK u : u = Max(written) OBVIOUS
  <2>6. u \in written BY <2>4, <2>5, GreatestIsIn
  <2>7. u \in layers[layer] /\ DependsOnCrates[u] \cap failed = {} BY <1>6, <1>7, <2>3, <2>6
  <2>8. bytecode'[BytecodePath[t]] = Compiled(u) BY <1>7, <2>2, <2>3, <2>4, <2>5
  <2>9. Embeds(Compiled(u)) BY <1>1, <2>1, <2>7, BuiltIsCurrent
  <2>10. Compiled(u) # Nothing
    <3>1. DOMAIN Compiled(u) = {"of", "embeds"} BY DEF Compiled
    <3>2. DOMAIN Nothing = {"of"} BY DEF Nothing
    <3> QED BY <3>1, <3>2
  <2>11. PICK code : code = Compiled(u) OBVIOUS
  <2>12. Embeds(code) /\ bytecode'[BytecodePath[t]] = code BY <2>8, <2>9, <2>11
  <2>13. Embeds(bytecode[BytecodePath[t]])' BY <1>1, <1>3, <1>11, <2>12 DEF Embeds, Wrapper
  <2> QED BY <2>8, <2>10, <2>13
<1> QED BY <1>8, <1>10, <1>11, <1>12, <1>13, <1>14, <1>15 DEF IInv

\* A layer is deployed, and its wrappers are written.
LEMMA LayerDeploys ==
  ASSUME IInv, DeployLayer
  PROVE  IInv'
<1>1. /\ at = "deploy" /\ at' = "build" /\ layer' = layer + 1 /\ tree' = tree /\ run' = run
      /\ bytecode' = bytecode /\ command' = command /\ selected' = selected /\ layers' = layers
      /\ ready' = ready /\ failed' = failed /\ manifest' = manifest
      /\ deployed' = [t \in Target |-> IF t \in ready THEN bytecode[BytecodePath[t]] ELSE deployed[t]]
      /\ wrapper' = [p \in Package |->
           IF \E t \in ready : tree.package[t] = p
             THEN Wrapper(CHOOSE t \in ready : tree.package[t] = p) ELSE wrapper[p]]
  BY DEF DeployLayer
<1>2. /\ tree \in Tree /\ selected \in SUBSET (Rust \cup Solidity) /\ ready \in SUBSET Target
      /\ layers \in Seq(SUBSET selected) /\ layer \in Nat \ {0} /\ failed \in SUBSET Target
      /\ DOMAIN wrapper = Package /\ DOMAIN deployed = Target /\ DOMAIN bytecode = Range(BytecodePath)
      /\ manifest \in SUBSET Target
  BY DEF IInv, WorkspaceTypeOK
<1>3. /\ Rust' = Rust /\ Solidity' = Solidity /\ DependsOnCrates' = DependsOnCrates
      /\ \A S : Local(S)' = Local(S)
  BY <1>1, SameSources
<1>4. DOMAIN layers = 1..Len(layers) /\ Len(layers) \in Nat BY <1>2
<1>5. WorkspaceTypeOK'
  <2>1. DOMAIN deployed' = Target /\ DOMAIN wrapper' = Package /\ layer' \in Nat \ {0}
    BY <1>1, <1>2
  <2> QED BY <1>1, <1>2, <1>3, <2>1 DEF WorkspaceTypeOK
<1>6. Graph' = Graph BY <1>1, <1>3 DEF Graph, DependencyGraph
<1>7. Detected' BY <1>1, <1>6 DEF IInv, Detected
<1>8. Nothing' = Nothing BY DEF Nothing
<1>9. \A t \in ready : bytecode[BytecodePath[t]] # Nothing BY <1>1 DEF IInv, ReadyIsCurrent
<1>10. \A t \in Target : /\ t \in ready => deployed'[t] = bytecode[BytecodePath[t]] /\ deployed'[t] # Nothing
                         /\ t \notin ready => deployed'[t] = deployed[t]
                         /\ deployed[t] # Nothing => deployed'[t] # Nothing
  BY <1>1, <1>9
<1>11. LayerByLayer'
  <2>1. ASSUME command' = "deploy", NEW k \in DOMAIN layers, k < layer', NEW t \in layers[k] \ failed
        PROVE  deployed'[t] # Nothing
    <3>1. t \in Target
      <4>1. t \in selected BY <1>2, <2>1
      <4> QED BY <1>2, <4>1 DEF Rust, Solidity
    <3>2. CASE k < layer
      <4>1. deployed[t] # Nothing BY <1>1, <2>1, <3>2 DEF IInv, LayerByLayer
      <4> QED BY <1>10, <3>1, <4>1
    <3>3. CASE ~(k < layer)
      <4>1. k = layer BY <1>1, <1>2, <1>4, <2>1, <3>3
      <4>2. t \in ready BY <1>1, <2>1, <4>1 DEF IInv, LayerByLayer
      <4> QED BY <1>10, <3>1, <4>2
    <3> QED BY <3>2, <3>3
  <2> QED BY <1>1, <1>8, <2>1 DEF LayerByLayer
<1>12. WrappersAreCurrent'
  <2> SUFFICES ASSUME NEW p \in Local(selected)
               PROVE  \/ \E d \in Target : /\ tree.package[d] = p /\ deployed'[d] # Nothing
                                           /\ wrapper'[p] = Wrapper(d)
                      \/ \A d \in Target : tree.package[d] = p => deployed'[d] = Nothing
    <3>1. \A S : Local(S)' = Local(S) BY <1>3
    <3>2. Local(selected)' = Local(selected) BY <1>1, <3>1
    <3>3. \A d : Wrapper(d)' = Wrapper(d) BY <1>1 DEF Wrapper
    <3> QED BY <1>1, <1>8, <3>2, <3>3 DEF WrappersAreCurrent
  <2>1. p \in Package
    <3>1. PICK t \in Target : tree.package[t] = p /\ p # NoPackage BY DEF Local, Solidity
    <3>2. tree.package \in [Target -> Package \cup {NoPackage}] BY <1>2, WorkspaceAssumption
    <3> QED BY <3>1, <3>2
  <2>2. CASE \E t \in ready : tree.package[t] = p
    <3>1. PICK d : d = CHOOSE t \in ready : tree.package[t] = p OBVIOUS
    <3>2. d \in ready /\ tree.package[d] = p BY <2>2, <3>1
    <3>3. wrapper'[p] = Wrapper(d) BY <1>1, <2>1, <2>2, <3>1
    <3> QED BY <1>2, <1>10, <3>2, <3>3
  <2>3. CASE ~\E t \in ready : tree.package[t] = p
    <3>1. wrapper'[p] = wrapper[p] BY <1>1, <2>1, <2>3
    <3>2. \A d \in Target : tree.package[d] = p => deployed'[d] = deployed[d] BY <1>10, <2>3
    <3>3. \/ \E d \in Target : /\ tree.package[d] = p /\ deployed[d] # Nothing
                               /\ wrapper[p] = Wrapper(d)
          \/ \A d \in Target : tree.package[d] = p => deployed[d] = Nothing
      BY DEF IInv, WrappersAreCurrent
    <3> QED BY <3>1, <3>2, <3>3
  <2> QED BY <2>2, <2>3
<1>13. \A t \in Target : deployed'[t] # Nothing => Embeds(deployed[t])'
  <2> TAKE t \in Target
  <2> HAVE deployed'[t] # Nothing
  <2>1. PICK code : code = deployed'[t] OBVIOUS
  <2>2. Embeds(code)
    <3>1. CASE t \in ready
      <4>1. Embeds(bytecode[BytecodePath[t]]) BY <1>1, <3>1 DEF IInv, ReadyIsCurrent
      <4>2. code = bytecode[BytecodePath[t]] BY <1>10, <2>1, <3>1
      <4> QED BY <4>1, <4>2
    <3>2. CASE t \notin ready
      <4>1. code = deployed[t] /\ deployed[t] # Nothing BY <1>10, <2>1, <3>2
      <4>2. Embeds(deployed[t]) BY <4>1 DEF IInv
      <4> QED BY <4>1, <4>2
    <3> QED BY <3>1, <3>2
  <2>3. \A p \in (DOMAIN code.embeds \cap Local(selected)) \ {tree.package[code.of]} :
          \E d \in Target : /\ tree.package[d] = p /\ deployed'[d] # Nothing
                            /\ code.embeds[p] = Wrapper(d)
    BY <1>10, <2>2 DEF Embeds
  <2>4. SUFFICES ASSUME NEW p \in (DOMAIN code.embeds \cap Local(selected)) \ {tree.package[code.of]}
                 PROVE  \E d \in Target : /\ tree.package[d] = p /\ deployed'[d] # Nothing
                                          /\ code.embeds[p] = Wrapper(d)'
    <3>1. \A S : Local(S)' = Local(S) BY <1>3
    <3>2. Local(selected)' = Local(selected) BY <1>1, <3>1
    <3> QED BY <1>1, <1>8, <2>1, <3>2 DEF Embeds
  <2>5. \A d : Wrapper(d)' = Wrapper(d) BY <1>1 DEF Wrapper
  <2> QED BY <2>3, <2>4, <2>5
<1>14. ReadyIsCurrent' BY <1>1 DEF ReadyIsCurrent
<1> QED BY <1>5, <1>7, <1>8, <1>11, <1>12, <1>13, <1>14 DEF IInv

\* All of a layer fails, so no later contract that depends on it is built.
LEMMA LayerFails ==
  ASSUME IInv, DeployFails
  PROVE  IInv'
<1>1. /\ at = "deploy" /\ at' = "build" /\ layer' = layer + 1 /\ tree' = tree /\ run' = run
      /\ bytecode' = bytecode /\ command' = command /\ selected' = selected /\ layers' = layers
      /\ ready' = ready /\ failed' = failed \cup ready /\ deployed' = deployed /\ wrapper' = wrapper
      /\ manifest' = manifest
  BY DEF DeployFails
<1>2. /\ tree \in Tree /\ selected \in SUBSET (Rust \cup Solidity) /\ ready \in SUBSET Target
      /\ layers \in Seq(SUBSET selected) /\ layer \in Nat \ {0} /\ failed \in SUBSET Target
      /\ DOMAIN wrapper = Package /\ DOMAIN deployed = Target /\ DOMAIN bytecode = Range(BytecodePath)
      /\ manifest \in SUBSET Target
  BY DEF IInv, WorkspaceTypeOK
<1>3. /\ Rust' = Rust /\ Solidity' = Solidity /\ DependsOnCrates' = DependsOnCrates
      /\ \A S : Local(S)' = Local(S)
  BY <1>1, SameSources
<1>4. DOMAIN layers = 1..Len(layers) /\ Len(layers) \in Nat BY <1>2
<1>5. WorkspaceTypeOK'
  <2>1. failed' \in SUBSET Target /\ layer' \in Nat \ {0} BY <1>1, <1>2
  <2> QED BY <1>1, <1>2, <1>3, <2>1 DEF WorkspaceTypeOK
<1>6. Graph' = Graph BY <1>1, <1>3 DEF Graph, DependencyGraph
<1>7. Detected' BY <1>1, <1>6 DEF IInv, Detected
<1>8. Nothing' = Nothing BY DEF Nothing
<1>9. LayerByLayer'
  <2>1. ASSUME command' = "deploy", NEW k \in DOMAIN layers, k < layer', NEW t \in layers[k] \ failed'
        PROVE  deployed[t] # Nothing
    <3>1. t \notin failed /\ t \notin ready BY <1>1, <2>1
    <3>2. CASE k < layer BY <1>1, <2>1, <3>1, <3>2 DEF IInv, LayerByLayer
    <3>3. CASE ~(k < layer)
      <4>1. k = layer BY <1>1, <1>2, <1>4, <2>1, <3>3
      <4>2. t \in ready BY <1>1, <2>1, <3>1, <4>1 DEF IInv, LayerByLayer
      <4> QED BY <3>1, <4>2
    <3> QED BY <3>2, <3>3
  <2> QED BY <1>1, <1>8, <2>1 DEF LayerByLayer
<1>10. WrappersAreCurrent' BY <1>1, WrappersStayCurrent DEF IInv
<1>11. \A t \in Target : deployed'[t] # Nothing => Embeds(deployed[t])' BY <1>1, <1>3, <1>8 DEF IInv, Embeds, Wrapper
<1>12. ReadyIsCurrent' BY <1>1 DEF ReadyIsCurrent
<1> QED BY <1>5, <1>7, <1>8, <1>9, <1>10, <1>11, <1>12 DEF IInv

\* The other steps leave all of this alone but the place the command is at.
LEMMA Ends ==
  ASSUME IInv, Finish \/ Return \/ UNCHANGED workspaceVars
  PROVE  IInv'
<1>1. /\ tree' = tree /\ run' = run /\ command' = command /\ selected' = selected
      /\ layers' = layers /\ layer' = layer /\ ready' = ready /\ failed' = failed
      /\ deployed' = deployed /\ wrapper' = wrapper /\ bytecode' = bytecode
      /\ \/ at' = at
         \/ at' = "idle"
         \/ at = "build" /\ at' = "done"
      /\ manifest' = manifest \/ manifest' = selected \ failed
  BY DEF Finish, Return, workspaceVars, ManifestOf
<1>2. /\ tree \in Tree /\ selected \in SUBSET (Rust \cup Solidity) /\ ready \in SUBSET Target
      /\ layers \in Seq(SUBSET selected) /\ layer \in Nat \ {0} /\ failed \in SUBSET Target
      /\ DOMAIN wrapper = Package /\ DOMAIN deployed = Target /\ DOMAIN bytecode = Range(BytecodePath)
      /\ at \in {"idle", "build", "deploy", "done", "error"} /\ manifest \in SUBSET Target
  BY DEF IInv, WorkspaceTypeOK
<1>3. /\ Rust' = Rust /\ Solidity' = Solidity /\ DependsOnCrates' = DependsOnCrates
      /\ \A S : Local(S)' = Local(S)
  BY <1>1, SameSources
<1>4. WorkspaceTypeOK'
  <2>1. manifest' \in SUBSET Target BY <1>1, <1>2 DEF Rust, Solidity
  <2> QED BY <1>1, <1>2, <1>3, <2>1 DEF WorkspaceTypeOK
<1>5. Graph' = Graph BY <1>1, <1>3 DEF Graph, DependencyGraph
<1>6. Detected' BY <1>1, <1>5 DEF IInv, Detected
<1>7. Nothing' = Nothing BY DEF Nothing
<1>8. LayerByLayer' BY <1>1, <1>7 DEF IInv, LayerByLayer
<1>9. WrappersAreCurrent' BY <1>1, WrappersStayCurrent DEF IInv
<1>10. \A t \in Target : deployed'[t] # Nothing => Embeds(deployed[t])' BY <1>1, <1>3, <1>7 DEF IInv, Embeds, Wrapper
<1>11. ReadyIsCurrent' BY <1>1, <1>3, <1>7 DEF IInv, ReadyIsCurrent, Embeds, Wrapper
<1> QED BY <1>4, <1>6, <1>7, <1>8, <1>9, <1>10, <1>11 DEF IInv

\* Before the first command.
LEMMA Begins ==
  ASSUME WorkspaceInit
  PROVE  IInv
<1>1. /\ tree \in Tree /\ selected = {} /\ manifest = {} /\ at = "idle" /\ layers = <<>> /\ layer = 1
      /\ ready = {} /\ failed = {} /\ deployed = [t \in Target |-> Nothing]
      /\ wrapper = [p \in Package |-> Absent]
      /\ bytecode = [path \in Range(BytecodePath) |-> Nothing]
  BY DEF WorkspaceInit
<1>2. WorkspaceTypeOK
  <2>1. layers \in Seq(SUBSET selected) BY <1>1
  <2> QED BY <1>1, <2>1 DEF WorkspaceTypeOK
<1>3. \A d \in Target : deployed[d] = Nothing BY <1>1
<1> QED BY <1>1, <1>2, <1>3
  DEF IInv, Detected, LayerByLayer, WrappersAreCurrent, ReadyIsCurrent

\* Every step keeps the invariant.
LEMMA Steps ==
  ASSUME IInv, [WorkspaceNext]_workspaceVars
  PROVE  IInv'
<1>1. CASE StartBuild
  <2>1. PICK filter \in SUBSET (Rust \cup Solidity) : Start("build", filter) BY <1>1 DEF StartBuild
  <2> QED BY <2>1, Starts
<1>2. CASE StartDeploy
  <2>1. PICK contracts : contracts = Rust \cup Solidity OBVIOUS
  <2>2. contracts \in SUBSET (Rust \cup Solidity) /\ Start("deploy", contracts)
    BY <1>2, <2>1 DEF StartDeploy
  <2> QED BY <2>2, Starts
<1>3. CASE BuildLayer BY <1>3, Builds
<1>4. CASE DeployLayer BY <1>4, LayerDeploys
<1>5. CASE DeployFails BY <1>5, LayerFails
<1>6. CASE Finish \/ Return \/ UNCHANGED workspaceVars BY <1>6, Ends
<1> QED BY <1>1, <1>2, <1>3, <1>4, <1>5, <1>6 DEF WorkspaceNext

\* The inductive invariant of the commands: at any time the layers are a
\* layering of what was selected, all that had its turn is deployed or failed,
\* and wrappers and ready bytecodes are those of this run.
THEOREM Invariant == WorkspaceSpec => []IInv
<1>1. WorkspaceInit => IInv BY Begins
<1>2. IInv /\ [WorkspaceNext]_workspaceVars => IInv' BY Steps
<1> QED BY <1>1, <1>2, PTL DEF WorkspaceSpec

\* For any sources: a command goes through its contracts in a layering of their
\* graph, stops if there is a cycle, and toposort agrees with toposortLayers
\* about that and sorts the same graph.
THEOREM OrderIsALayering == WorkspaceSpec => []LayersAreALayering
<1>1. IInv => LayersAreALayering
  <2> SUFFICES ASSUME IInv PROVE LayersAreALayering OBVIOUS
  <2>1. selected \in SUBSET (Rust \cup Solidity) /\ Detected BY DEF IInv, WorkspaceTypeOK
  <2>2. PICK contracts : contracts = selected OBVIOUS
  <2>3. IsGraph(DependencyGraph(contracts, DependsOnCrates), contracts)
    BY <2>1, <2>2, ContractsAreFinite
  <2>4. PICK graph : graph = DependencyGraph(selected, DependsOnCrates) OBVIOUS
  <2>5. /\ at \notin {"idle", "error"} => IsLayering(layers, graph) /\ Rankings(graph) # {}
        /\ at \in {"idle", "build", "deploy", "done", "error"}
    BY <2>1, <2>4 DEF Detected, Graph, IInv, WorkspaceTypeOK
  <2>6. IsGraph(graph, contracts) BY <2>2, <2>3, <2>4
  <2>7. IF Rankings(graph) = {} THEN Toposort(graph) = Circular
                                ELSE IsTopological(Toposort(graph), graph)
    BY <2>6, SortedOrCircular
  <2> QED BY <2>4, <2>5, <2>7 DEF LayersAreALayering
<1> QED BY <1>1, Invariant, PTL

\* For any sources and any history of commands: the bytecode cdm deploy puts on
\* chain embeds, for every other Solidity package of the workspace it imports,
\* the address this run deployed it at.
THEOREM DeployedImportsAreCurrent == WorkspaceSpec => []ImportsAreOfThisRun
<1>1. IInv => ImportsAreOfThisRun BY DEF IInv, Embeds, ImportsAreOfThisRun, EmbedsThisRun
<1> QED BY <1>1, Invariant, PTL

\* No two contracts have their bytecode in one file.
OwnPaths == \A t, u \in Target : BytecodePath[t] = BytecodePath[u] => t = u

\* A build writes no path but those of what it builds.
LEMMA StepKeepsOwnBytecode ==
  ASSUME OwnPaths, IInv, IInv', OwnBytecode, [WorkspaceNext]_workspaceVars
  PROVE  OwnBytecode'
<1>1. /\ selected \in SUBSET (Rust \cup Solidity) /\ selected \in SUBSET Target
      /\ layers \in Seq(SUBSET selected) /\ layer \in Nat \ {0} /\ failed \in SUBSET Target
      /\ at \in {"idle", "build", "deploy", "done", "error"}
  BY DEF IInv, WorkspaceTypeOK, Rust, Solidity
<1>2. DOMAIN layers = 1..Len(layers) /\ Len(layers) \in Nat BY <1>1
<1>3. \A t \in Target : t \in manifest => bytecode[BytecodePath[t]].of = t BY DEF OwnBytecode
<1>4. ASSUME NEW kind, NEW contracts, Start(kind, contracts)
      PROVE  OwnBytecode'
  <2>1. /\ manifest' = manifest /\ bytecode' = bytecode /\ layer' = 1 /\ at' \in {"build", "error"}
    BY <1>4 DEF Start
  <2>2. layers' \in Seq(SUBSET selected') BY DEF IInv, WorkspaceTypeOK
  <2>3. DOMAIN layers' = 1..Len(layers') /\ Len(layers') \in Nat BY <2>2
  <2>4. \A k \in DOMAIN layers' : ~Past(k)' BY <2>1, <2>3 DEF Past
  <2> QED BY <1>3, <2>1, <2>4 DEF OwnBytecode
<1>5. CASE BuildLayer
  <2>1. /\ at = "build" /\ layer \in DOMAIN layers /\ manifest' = manifest /\ layers' = layers
        /\ tree' = tree
    BY <1>5 DEF BuildLayer
  <2>2. PICK built \in SUBSET layers[layer] :
          /\ failed' = failed \cup (layers[layer] \ built)
          /\ bytecode' = [path \in Range(BytecodePath) |->
               LET written == {t \in built : BytecodePath[t] = path}
               IN  IF written = {} THEN bytecode[path] ELSE Compiled(Max(written))]
          /\ IF command = "deploy" /\ built # {}
               THEN at' = "deploy" /\ UNCHANGED layer
               ELSE at' = "build" /\ layer' = layer + 1
    BY <1>5 DEF BuildLayer
  <2>3. layers[layer] \in SUBSET Target BY <1>1, <2>1
  <2>4. ASSUME NEW t \in Target
        PROVE  /\ t \in built => bytecode'[BytecodePath[t]].of = t
               /\ t \notin built => bytecode'[BytecodePath[t]] = bytecode[BytecodePath[t]]
    <3>1. BytecodePath[t] \in Range(BytecodePath) BY WorkspaceAssumption DEF Range
    <3>2. PICK written : written = {u \in built : BytecodePath[u] = BytecodePath[t]} OBVIOUS
    <3>3. bytecode'[BytecodePath[t]]
            = IF written = {} THEN bytecode[BytecodePath[t]] ELSE Compiled(Max(written))
      BY <2>2, <3>1, <3>2
    <3>4. written \subseteq {t} /\ (t \in built <=> t \in written) /\ written \in SUBSET Target
      BY <2>3, <3>2 DEF OwnPaths
    <3>5. written # {} => Max(written) = t BY <3>4, GreatestIsIn
    <3>6. Compiled(t).of = t BY DEF Compiled
    <3> QED BY <3>3, <3>4, <3>5, <3>6
  <2>5. ASSUME NEW k \in DOMAIN layers, Past(k)', NEW t \in layers[k] \ failed', t \notin built
        PROVE  Past(k) /\ t \in layers[k] \ failed
    <3>1. k # layer BY <2>2, <2>5
    <3>2. k <= layer BY <1>1, <1>2, <2>2, <2>5 DEF Past
    <3> QED BY <1>1, <1>2, <2>2, <2>5, <3>1, <3>2 DEF Past
  <2>6. ASSUME NEW t \in Target,
               \/ t \in manifest
               \/ \E k \in DOMAIN layers : Past(k)' /\ t \in layers[k] \ failed'
        PROVE  bytecode'[BytecodePath[t]].of = t
    <3>1. CASE t \in built BY <2>4, <3>1
    <3>2. CASE t \notin built
      <4>1. bytecode[BytecodePath[t]].of = t BY <2>1, <2>5, <2>6, <3>2 DEF OwnBytecode
      <4> QED BY <2>4, <3>2, <4>1
    <3> QED BY <3>1, <3>2
  <2> QED BY <2>1, <2>6 DEF OwnBytecode
<1>6. CASE DeployLayer \/ DeployFails
  <2>1. /\ at = "deploy" /\ at' = "build" /\ layer' = layer + 1 /\ layers' = layers
        /\ manifest' = manifest /\ bytecode' = bytecode /\ failed \subseteq failed'
    BY <1>6 DEF DeployLayer, DeployFails
  <2>2. \A k \in DOMAIN layers : Past(k)' => Past(k) BY <1>1, <1>2, <2>1 DEF Past
  <2> QED BY <2>1, <2>2 DEF OwnBytecode
<1>7. CASE Finish
  <2>1. /\ at = "build" /\ layer \notin DOMAIN layers /\ at' = "done" /\ bytecode' = bytecode
        /\ manifest' = manifest \/ manifest' = selected \ failed
    BY <1>7 DEF Finish, ManifestOf
  <2>2. IsLayering(layers, Graph) BY <2>1 DEF IInv, Detected
  <2>3. DOMAIN Graph = selected BY DEF Graph, DependencyGraph
  <2>4. ASSUME NEW t \in selected \ failed PROVE bytecode[BytecodePath[t]].of = t
    <3>1. PICK k \in DOMAIN layers : t \in layers[k] BY <2>2, <2>3 DEF IsLayering
    <3>2. Past(k) BY <1>1, <1>2, <2>1, <3>1 DEF Past
    <3>3. t \in Target BY <1>1
    <3> QED BY <2>1, <2>4, <3>1, <3>2, <3>3 DEF OwnBytecode
  <2> QED BY <1>3, <2>1, <2>4 DEF OwnBytecode
<1>8. CASE Return \/ UNCHANGED workspaceVars
  <2>1. /\ manifest' = manifest /\ bytecode' = bytecode /\ layers' = layers /\ layer' = layer
        /\ failed' = failed /\ at' \in {at, "idle"}
    BY <1>8 DEF Return, workspaceVars
  <2>2. at' # "idle" => \A k : Past(k)' = Past(k) BY <2>1 DEF Past
  <2> QED BY <2>1, <2>2 DEF OwnBytecode
<1>9. CASE StartBuild \/ StartDeploy BY <1>4, <1>9 DEF StartBuild, StartDeploy
<1> QED BY <1>5, <1>6, <1>7, <1>8, <1>9 DEF WorkspaceNext

\* If normalizedBytecodePath gives every contract a path of its own, which it
\* does not promise, the manifest lists only contracts whose bytecode is at
\* their path.
THEOREM ManifestAlwaysBuilt ==
  ASSUME OwnPaths
  PROVE  WorkspaceSpec => []ManifestIsBuilt
<1>1. WorkspaceInit => OwnBytecode BY DEF WorkspaceInit, OwnBytecode
<1>2. IInv /\ IInv' /\ OwnBytecode /\ [WorkspaceNext]_workspaceVars => OwnBytecode'
  BY StepKeepsOwnBytecode
<1>3. IInv /\ OwnBytecode => ManifestIsBuilt
  BY DEF IInv, WorkspaceTypeOK, OwnBytecode, ManifestIsBuilt
<1> QED BY <1>1, <1>2, <1>3, Invariant, PTL DEF WorkspaceSpec

-----------------------------------------------------------------------------
(* Struct names. *)

\* What the proof uses of strings: what is put together of strings is one, and
\* a base with one number differs from the base with another.
StringFacts ==
  /\ {"", "_", "field", "Field"} \subseteq STRING
  /\ \A s, t \in STRING : s \o t \in STRING
  /\ \A n \in Nat : ToString(n) \in STRING
  /\ \A base, separator \in STRING, i, j \in Nat \ {0} :
       Numbered(base, separator, i) = Numbered(base, separator, j) => i = j

\* A numbered name is a string.
LEMMA NumberedIsString ==
  ASSUME StringFacts, NEW base \in STRING, NEW separator \in STRING, NEW i \in Nat
  PROVE  Numbered(base, separator, i) \in STRING
<1>1. ToString(i) \in STRING /\ base \o separator \in STRING BY DEF StringFacts
<1>2. PICK s \in STRING : s = ToString(i) BY <1>1
<1>3. PICK t \in STRING : t = base \o separator BY <1>1
<1>4. t \o s \in STRING BY DEF StringFacts
<1>5. base \o separator \o ToString(i) \in STRING BY <1>2, <1>3, <1>4
<1> QED BY <1>5 DEF Numbered

\* Of one more numbered names than are taken, one is free.
LEMMA FirstIsFree ==
  ASSUME StringFacts, NEW base \in STRING, NEW separator \in STRING,
         NEW used \in SUBSET STRING, IsFiniteSet(used)
  PROVE  LET first == FirstFree(base, separator, used)
             taken == used \cup ReservedIdentifier
         IN  /\ first \in STRING /\ first \notin taken
             /\ base \notin taken => first = base
<1> PICK taken : taken = used \cup ReservedIdentifier OBVIOUS
<1> PICK N : N = 1..(Cardinality(taken) + 1) OBVIOUS
<1> DEFINE Free == {i \in N : Numbered(base, separator, i) \notin taken}
<1>1. IsFiniteSet(taken) /\ Cardinality(taken) \in Nat
  BY FS_Union, FS_CardinalityType, ImportsAssumption
<1>2. N \in SUBSET (Nat \ {0}) BY <1>1
<1>3. IsFiniteSet(N) /\ Cardinality(N) = Cardinality(taken) + 1 BY <1>1, FS_Interval
<1>4. Free # {}
  <2> SUFFICES ASSUME Free = {} PROVE FALSE OBVIOUS
  <2>1. PICK f : f = [i \in N |-> Numbered(base, separator, i)] OBVIOUS
  <2>2. f \in [N -> taken] BY <2>1
  <2>3. PICK i, j \in N : i # j /\ f[i] = f[j]
    <3>1. Cardinality(taken) < Cardinality(N) BY <1>1, <1>3
    <3>2. IsFiniteSet(N) /\ IsFiniteSet(taken) BY <1>1, <1>3
    <3> HIDE DEF Free
    <3>3. \E x, y \in N : x # y /\ f[x] = f[y] BY ONLY <2>2, <3>1, <3>2, FS_PigeonHole
    <3> QED BY ONLY <3>3
  <2>4. Numbered(base, separator, i) = Numbered(base, separator, j) BY <2>1, <2>3
  <2>5. i \in Nat \ {0} /\ j \in Nat \ {0} BY <1>2
  <2>6. i = j BY <2>4, <2>5 DEF StringFacts
  <2> QED BY <2>3, <2>6
<1>5. PICK F : F = Free OBVIOUS
<1>6. F \in SUBSET Nat /\ F # {} BY <1>2, <1>4, <1>5
<1>7. PICK least : least = (CHOOSE i \in F : \A j \in F : i <= j) OBVIOUS
<1>8. least \in F /\ \A j \in F : least <= j
  <2>1. \E i \in F : \A j \in F : i <= j BY <1>6, LeastNumber
  <2> HIDE DEF Free
  <2> QED BY <1>7, <2>1
<1>9. FirstFree(base, separator, used) = Numbered(base, separator, least)
  BY <1>5, <1>7 DEF FirstFree
<1>10. least \in N /\ Numbered(base, separator, least) \notin taken BY <1>5, <1>8
<1>11. Numbered(base, separator, least) \in STRING BY <1>2, <1>10, NumberedIsString
<1>12. ASSUME base \notin taken PROVE Numbered(base, separator, least) = base
  <2>1. Numbered(base, separator, 1) = base BY DEF Numbered
  <2>2. 1 \in N BY <1>1
  <2>3. 1 \in F BY <1>5, <1>12, <2>1, <2>2
  <2>4. least <= 1 /\ least \in Nat \ {0} BY <1>2, <1>8, <1>10, <2>3
  <2>5. least = 1 BY <2>4
  <2> QED BY <2>1, <2>5
<1> HIDE DEF Free
<1> QED BY <1>9, <1>10, <1>11, <1>12

\* A safe identifier is new, and it is the name wherever that is possible.
LEMMA SafeIdentifierIsNew ==
  ASSUME StringFacts, NEW name \in STRING \cup {None}, NEW fallback \in STRING,
         NEW used \in SUBSET STRING, IsFiniteSet(used)
  PROVE  LET safe == SafeIdentifier(name, fallback, used)
         IN  /\ safe \in STRING /\ safe \notin used
             /\ name \in {None, safe} \cup ReservedIdentifier \cup used
<1>1. PICK base : base = IF name = None THEN fallback ELSE name OBVIOUS
<1>2. PICK tried : tried = IF base \in ReservedIdentifier THEN base \o "_" ELSE base OBVIOUS
<1>3. base \in STRING BY <1>1
<1>4. base \o "_" \in STRING
  <2>1. PICK s \in STRING : s = "_" BY DEF StringFacts
  <2>2. base \o s \in STRING BY <1>3 DEF StringFacts
  <2> QED BY <2>1, <2>2
<1>5. tried \in STRING BY <1>2, <1>3, <1>4
<1>6. SafeIdentifier(name, fallback, used) = FirstFree(tried, "_", used)
  BY <1>1, <1>2 DEF SafeIdentifier
<1>7. PICK underscore \in STRING : underscore = "_" BY DEF StringFacts
<1>8. PICK first : first = FirstFree(tried, underscore, used) OBVIOUS
<1>9. /\ first \in STRING /\ first \notin used \cup ReservedIdentifier
      /\ tried \notin used \cup ReservedIdentifier => first = tried
  BY <1>5, <1>8, FirstIsFree
<1>10. ASSUME name # None, name \notin ReservedIdentifier, name \notin used
       PROVE  name = first
  <2>1. base = name BY <1>1, <1>10
  <2>2. tried = name BY <1>2, <1>10, <2>1
  <2> QED BY <1>9, <1>10, <2>2
<1> QED BY <1>6, <1>7, <1>8, <1>9, <1>10

-----------------------------------------------------------------------------
(* The invariant of the generator. *)

Parameter == Param \cup Part
Field == [type : STRING, name : STRING]
Struct == [name : STRING, fields : Seq(Field)]
Tuple == [param : Parameter, name : STRING, fields : Seq(Field)]
Key == (DOMAIN StructName \cup {None}) \X Seq(Part)
Signature == [param : Parameter, type : STRING]

ImportsTypeOK ==
  /\ generation \in {"rendering", "done", "error"}
  /\ definitions \in Seq(Struct)
  /\ namesByKey \in SUBSET [key : Key, name : STRING]
  /\ usedNames \in SUBSET STRING /\ IsFiniteSet(usedNames)
  /\ open \in Seq(Tuple)
  /\ signatures \in Seq(Signature)

\* The type is the parameter's, if the names are those of the keys.
Entry(param, name) == [key |-> TupleKey(param), name |-> name]
Stands(names, type, param) ==
  IF param.type = "tuple" THEN Entry(param, type) \in names ELSE type = param.type

\* The fields are those of a struct's first components.
Fits(names, d, components) ==
  /\ Len(d.fields) <= Len(components)
  /\ \A k \in DOMAIN d.fields : /\ Stands(names, d.fields[k].type, components[k])
                                /\ KeepsItsName(d, k, components[k])
  /\ \A k, l \in DOMAIN d.fields : d.fields[k].name = d.fields[l].name => k = l

NamesDiffer ==
  /\ usedNames = HelperName \cup {pair.name : pair \in namesByKey}
  /\ \A pair \in namesByKey : pair.name \notin HelperName \cup ReservedIdentifier
  /\ \A p, q \in namesByKey : p.name = q.name \/ p.key = q.key => p = q

\* A struct is declared of a tuple that has its name, or the tuple is open.
DeclaredAs(d, pair) ==
  pair.name = d.name /\ Len(d.fields) = Len(pair.key[2]) /\ Fits(namesByKey, d, pair.key[2])
StructsFit ==
  /\ \A k \in DOMAIN definitions : \E pair \in namesByKey : DeclaredAs(definitions[k], pair)
  /\ \A k, l \in DOMAIN definitions : definitions[k].name = definitions[l].name => k = l
  /\ \A pair \in namesByKey : \/ \E k \in DOMAIN definitions : definitions[k].name = pair.name
                              \/ \E i \in DOMAIN open : open[i].name = pair.name

\* The parameter is the tuple's first component that has no field yet.
IsNext(tuple, param) ==
  /\ Len(tuple.fields) < Len(tuple.param.components)
  /\ param = tuple.param.components[Len(tuple.fields) + 1]
\* Tuples that are nested in one another.
TuplesNest(names, tuples) ==
  /\ \A i \in DOMAIN tuples :
       /\ tuples[i].param.type = "tuple" /\ Entry(tuples[i].param, tuples[i].name) \in names
       /\ Fits(names, tuples[i], tuples[i].param.components)
       /\ i < Len(tuples) => IsNext(tuples[i], tuples[i + 1].param)
  /\ \A i, j \in DOMAIN tuples : tuples[i].name = tuples[j].name => i = j
OpenTuplesFit ==
  /\ TuplesNest(namesByKey, open)
  /\ \A i \in DOMAIN open, k \in DOMAIN definitions : definitions[k].name # open[i].name

SignaturesStand ==
  \A i \in DOMAIN signatures : Stands(namesByKey, signatures[i].type, signatures[i].param)

ImportsInv ==
  /\ ImportsTypeOK /\ NamesDiffer /\ StructsFit /\ OpenTuplesFit /\ SignaturesStand

\* What is known of a parameter.
LEMMA ParameterType ==
  ASSUME NEW param \in Parameter
  PROVE  /\ param.name \in STRING \cup {None} /\ param.type \in STRING
         /\ param.internalType # None => StructName[param.internalType] \in STRING
         /\ param.components \in Seq(Part)
         /\ TupleKey(param) \in Key /\ TupleKey(param)[2] = param.components
<1>1. param \in [name : STRING \cup {None}, type : STRING,
                 internalType : DOMAIN StructName \cup {None}, components : Seq(Part)]
  BY ImportsAssumption DEF Parameter
<1>2. param.internalType \in DOMAIN StructName \cup {None} /\ param.components \in Seq(Part) BY <1>1
<1>3. PICK i, c : i = param.internalType /\ c = param.components OBVIOUS
<1>4. <<i, c>> \in (DOMAIN StructName \cup {None}) \X Seq(Part) BY <1>2, <1>3
<1>5. TupleKey(param) \in Key BY <1>3, <1>4 DEF TupleKey, Key
<1>6. TupleKey(param)[2] = param.components BY DEF TupleKey
<1>7. param.internalType # None => StructName[param.internalType] \in STRING
  BY <1>2, ImportsAssumption
<1> QED BY <1>1, <1>5, <1>6, <1>7

\* The components of a parameter are parameters.
LEMMA ComponentType ==
  ASSUME NEW param \in Parameter, NEW k \in DOMAIN param.components
  PROVE  param.components[k] \in Parameter
<1>1. param.components \in Seq(Part) BY ParameterType
<1> QED BY <1>1, LenProperties, ElementOfSeq DEF Parameter

\* A sequence without its last element.
LEMMA FrontProperties ==
  ASSUME NEW S, NEW s \in Seq(S), s # <<>>
  PROVE  /\ Len(s) \in Nat \ {0} /\ Last(s) = s[Len(s)] /\ Last(s) \in S
         /\ Front(s) \in Seq(S) /\ Len(Front(s)) = Len(s) - 1
         /\ \A i \in DOMAIN Front(s) : i \in DOMAIN s /\ Front(s)[i] = s[i]
<1>1. Len(s) \in Nat \ {0} /\ DOMAIN s = 1..Len(s) BY EmptySeq, LenProperties
<1>2. \A i \in 1..Len(s) : s[i] \in S BY ElementOfSeq
<1>3. Last(s) = s[Len(s)] BY DEF Last
<1>4. PICK m \in Nat : m = Len(s) - 1
  <2>1. PICK n \in Nat \ {0} : n = Len(s) BY <1>1
  <2>2. n - 1 \in Nat BY <2>1
  <2> QED BY ONLY <2>1, <2>2
<1>5. PICK front : front = SubSeq(s, 1, m) OBVIOUS
<1>6. Front(s) = front BY <1>4, <1>5 DEF Front
<1>7. \A i \in 1..m : s[i] \in S BY <1>1, <1>2, <1>4
<1>8. /\ front \in Seq(S) /\ Len(front) = m
      /\ \A i \in 1..m : front[i] = s[i]
  BY <1>1, <1>4, <1>5, <1>7, SubSeqProperties
<1>9. DOMAIN front = 1..m BY <1>8, LenProperties
<1> QED BY <1>1, <1>2, <1>3, <1>4, <1>6, <1>8, <1>9

\* More names do no harm to what stands for a parameter, or to its fields.
LEMMA StandsGrows ==
  ASSUME NEW names, NEW more, names \subseteq more, NEW type, NEW param,
         Stands(names, type, param)
  PROVE  Stands(more, type, param)
BY DEF Stands

LEMMA FitsGrows ==
  ASSUME NEW names, NEW more, names \subseteq more, NEW d, NEW components,
         Fits(names, d, components)
  PROVE  Fits(more, d, components)
<1>1. ASSUME NEW k \in DOMAIN d.fields PROVE Stands(more, d.fields[k].type, components[k])
  <2>1. Stands(names, d.fields[k].type, components[k]) BY DEF Fits
  <2> QED BY <2>1, StandsGrows
<1> QED BY <1>1 DEF Fits

LEMMA TuplesNestGrows ==
  ASSUME NEW names, NEW more, names \subseteq more, NEW tuples, TuplesNest(names, tuples)
  PROVE  TuplesNest(more, tuples)
BY FitsGrows DEF TuplesNest

\* The names of finitely many fields.
LEMMA FieldNames ==
  ASSUME NEW fields \in Seq(Field)
  PROVE  LET used == {field.name : field \in ToSet(fields)}
         IN  /\ used \in SUBSET STRING /\ IsFiniteSet(used)
             /\ used = {fields[k].name : k \in DOMAIN fields}
<1> DEFINE used == {field.name : field \in ToSet(fields)}
<1>1. Len(fields) \in Nat /\ DOMAIN fields = 1..Len(fields) BY LenProperties
<1>2. \A k \in DOMAIN fields : fields[k] \in Field /\ fields[k].name \in STRING
  <2> SUFFICES ASSUME NEW k \in DOMAIN fields
               PROVE  fields[k] \in Field /\ fields[k].name \in STRING
    OBVIOUS
  <2>1. fields[k] \in Field BY <1>1, ElementOfSeq
  <2>2. PICK field : field = fields[k] OBVIOUS
  <2>3. field.name \in STRING BY <2>1, <2>2 DEF Field
  <2> QED BY <2>1, <2>2, <2>3
<1>3. used = {fields[k].name : k \in DOMAIN fields} BY DEF ToSet
<1>4. PICK N : N = 1..Len(fields) OBVIOUS
<1>5. IsFiniteSet(N) BY <1>1, <1>4, FS_Interval
<1>6. PICK f : f = [k \in N |-> fields[k].name] OBVIOUS
<1>7. PICK U : U = used OBVIOUS
<1>8. U = {f[k] : k \in N} BY <1>1, <1>3, <1>4, <1>6, <1>7
<1>9. f \in Surjection(N, U) BY <1>6, <1>8 DEF Surjection
<1>10. IsFiniteSet(U) BY <1>5, <1>9, FS_Surjection
<1> QED BY <1>2, <1>3, <1>7, <1>10

\* A tuple with a field for one more of its components.
Longer(tuple, field) ==
  [param |-> tuple.param, name |-> tuple.name, fields |-> Append(tuple.fields, field)]
FieldOf(tuple, param, type) ==
  [type |-> type,
   name |-> SafeIdentifier(param.name, "field" \o ToString(Len(tuple.fields)),
                           {field.name : field \in ToSet(tuple.fields)})]

\* The field of the next component fits as the fields before it do.
LEMMA FieldGoesOn ==
  ASSUME StringFacts, NEW names, NEW tuple \in Tuple, NEW param \in Parameter,
         NEW type \in STRING, Fits(names, tuple, tuple.param.components),
         IsNext(tuple, param), Stands(names, type, param)
  PROVE  LET longer == Longer(tuple, FieldOf(tuple, param, type))
         IN  longer \in Tuple /\ Fits(names, longer, longer.param.components)
<1> PICK fields, components :
      fields = tuple.fields /\ components = tuple.param.components
  OBVIOUS
<1>1. /\ tuple.param \in Parameter /\ tuple.name \in STRING /\ fields \in Seq(Field)
  BY DEF Tuple
<1>2. components \in Seq(Part) BY <1>1, ParameterType
<1>3. PICK n \in Nat : n = Len(fields) /\ DOMAIN fields = 1..n BY <1>1, LenProperties
<1>4. PICK used : used = {field.name : field \in ToSet(fields)} OBVIOUS
<1>5. /\ used \in SUBSET STRING /\ IsFiniteSet(used)
      /\ used = {fields[k].name : k \in DOMAIN fields}
  BY <1>1, <1>4, FieldNames
<1>6. PICK fallback : fallback = "field" \o ToString(n) OBVIOUS
<1>7. fallback \in STRING
  <2>1. "field" \in STRING /\ ToString(n) \in STRING BY DEF StringFacts
  <2>2. PICK s, t \in STRING : s = "field" /\ t = ToString(n) BY <2>1
  <2>3. s \o t \in STRING BY DEF StringFacts
  <2> QED BY <1>6, <2>2, <2>3
<1>8. PICK name : name = SafeIdentifier(param.name, fallback, used) OBVIOUS
<1>9. /\ name \in STRING /\ name \notin used
      /\ param.name \in {None, name} \cup ReservedIdentifier \cup used
  <2>1. param.name \in STRING \cup {None} BY ParameterType
  <2> QED BY <1>5, <1>7, <1>8, <2>1, SafeIdentifierIsNew
<1>10. PICK field : field = [type |-> type, name |-> name] OBVIOUS
<1>11. field \in Field BY <1>9, <1>10 DEF Field
<1>12. FieldOf(tuple, param, type) = field BY <1>3, <1>4, <1>6, <1>8, <1>10 DEF FieldOf
<1>13. PICK more : more = Append(fields, field) OBVIOUS
<1>14. /\ more \in Seq(Field) /\ Len(more) = n + 1 /\ more[n + 1] = field
       /\ DOMAIN more = 1..(n + 1) /\ \A k \in 1..n : more[k] = fields[k]
  BY <1>1, <1>3, <1>11, <1>13, AppendProperties, LenProperties
<1>15. PICK longer : longer = [param |-> tuple.param, name |-> tuple.name, fields |-> more]
  OBVIOUS
<1>16. Longer(tuple, FieldOf(tuple, param, type)) = longer
  BY <1>12, <1>13, <1>15 DEF Longer
<1>17. longer \in Tuple BY <1>1, <1>14, <1>15 DEF Tuple
<1>18. n + 1 <= Len(components) /\ param = components[n + 1]
  <2>1. n < Len(components) /\ param = components[n + 1] BY <1>3 DEF IsNext
  <2>2. Len(components) \in Nat BY <1>2, LenProperties
  <2> QED BY <2>1, <2>2
<1>19. ASSUME NEW k \in DOMAIN more
       PROVE  /\ Stands(names, more[k].type, components[k])
              /\ KeepsItsName(longer, k, components[k])
  <2>1. CASE k \in 1..n
    <3>1. more[k] = fields[k] BY <1>14, <2>1
    <3>2. Stands(names, fields[k].type, components[k]) /\ KeepsItsName(tuple, k, components[k])
      BY <1>3, <2>1 DEF Fits
    <3>3. \A j \in 1..(k - 1) : longer.fields[j].name = tuple.fields[j].name
      <4>1. \A j \in 1..(k - 1) : j \in 1..n BY <2>1
      <4> QED BY <1>14, <1>15, <4>1
    <3>4. longer.fields[k].name = tuple.fields[k].name BY <1>15, <3>1
    <3>5. KeepsItsName(longer, k, components[k]) BY <3>2, <3>3, <3>4 DEF KeepsItsName
    <3> QED BY <3>1, <3>2, <3>5
  <2>2. CASE k = n + 1
    <3>1. more[k].type = type /\ components[k] = param BY <1>10, <1>14, <1>18, <2>2
    <3>2. longer.fields[k].name = name BY <1>10, <1>14, <1>15, <2>2
    <3>3. \A u \in used : \E j \in 1..(k - 1) : u = longer.fields[j].name
      <4>1. 1..(k - 1) = 1..n BY <2>2
      <4>2. \A j \in 1..n : longer.fields[j].name = fields[j].name BY <1>14, <1>15
      <4> QED BY <1>3, <1>5, <4>1, <4>2
    <3>4. KeepsItsName(longer, k, components[k])
      BY <1>9, <3>1, <3>2, <3>3 DEF KeepsItsName
    <3> QED BY <3>1, <3>4
  <2>3. k \in 1..n \/ k = n + 1 BY <1>14
  <2> QED BY <2>1, <2>2, <2>3
<1>20. ASSUME NEW k \in DOMAIN more, NEW l \in DOMAIN more, more[k].name = more[l].name
       PROVE  k = l
  <2>1. \A i \in DOMAIN more : i \in 1..n \/ i = n + 1 BY <1>14
  <2>2. ASSUME NEW i \in 1..n PROVE more[i].name \in used
    BY <1>3, <1>5, <1>14
  <2>3. more[n + 1].name = name BY <1>10, <1>14
  <2>4. \A i, j \in 1..n : more[i].name = more[j].name => i = j
    <3>1. \A i, j \in 1..n : fields[i].name = fields[j].name => i = j BY <1>3 DEF Fits
    <3> QED BY <1>14, <3>1
  <2> QED BY <1>9, <1>20, <2>1, <2>2, <2>3, <2>4
<1>21. Fits(names, longer, components) BY <1>14, <1>15, <1>18, <1>19, <1>20 DEF Fits
<1>22. longer.param.components = components BY <1>15
<1> QED BY <1>16, <1>17, <1>21, <1>22

\* What typeFor returns for a parameter, or for the next component of the
\* innermost tuple, is added to what has been rendered.
LEMMA TypedStands ==
  ASSUME StringFacts, NEW names, NEW tuples \in Seq(Tuple), TuplesNest(names, tuples),
         NEW param \in Parameter, NEW type \in STRING, Stands(names, type, param),
         tuples # <<>> => IsNext(Last(tuples), param),
         signatures \in Seq(Signature),
         \A i \in DOMAIN signatures : Stands(names, signatures[i].type, signatures[i].param),
         Typed(tuples, param, type)
  PROVE  /\ open' \in Seq(Tuple) /\ TuplesNest(names, open') /\ DOMAIN open' = DOMAIN tuples
         /\ \A i \in DOMAIN tuples : open'[i].name = tuples[i].name
         /\ signatures' \in Seq(Signature)
         /\ \A i \in DOMAIN signatures' :
              Stands(names, signatures'[i].type, signatures'[i].param)
<1>1. CASE tuples = <<>>
  <2>1. PICK signature : signature = [param |-> param, type |-> type] OBVIOUS
  <2>2. open' = tuples /\ signatures' = Append(signatures, signature)
    BY <1>1, <2>1 DEF Typed
  <2>3. signature \in Signature BY <2>1 DEF Signature
  <2>4. PICK n \in Nat : n = Len(signatures) /\ DOMAIN signatures = 1..n BY LenProperties
  <2>5. PICK more : more = Append(signatures, signature) OBVIOUS
  <2>6. /\ more \in Seq(Signature) /\ DOMAIN more = 1..(n + 1) /\ more[n + 1] = signature
        /\ \A i \in 1..n : more[i] = signatures[i]
    BY <2>3, <2>4, <2>5, AppendProperties, LenProperties
  <2>7. ASSUME NEW i \in DOMAIN more PROVE Stands(names, more[i].type, more[i].param)
    <3>1. CASE i \in 1..n BY <2>4, <2>6, <3>1
    <3>2. CASE i = n + 1 BY <2>1, <2>6, <3>2
    <3>3. i \in 1..n \/ i = n + 1 BY <2>6
    <3> QED BY <3>1, <3>2, <3>3
  <2> QED BY <2>2, <2>5, <2>6, <2>7
<1>2. CASE tuples # <<>>
  <2>1. PICK n \in Nat \ {0} : n = Len(tuples) /\ DOMAIN tuples = 1..n
    BY <1>2, EmptySeq, LenProperties
  <2>2. PICK tuple, front : tuple = Last(tuples) /\ front = Front(tuples) OBVIOUS
  <2>3. /\ tuple = tuples[n] /\ tuple \in Tuple /\ front \in Seq(Tuple) /\ Len(front) = n - 1
        /\ DOMAIN front = 1..(n - 1) /\ \A i \in 1..(n - 1) : front[i] = tuples[i]
    BY <1>2, <2>1, <2>2, FrontProperties, LenProperties
  <2>4. PICK longer : longer = Longer(tuple, FieldOf(tuple, param, type)) OBVIOUS
  <2>5. longer \in Tuple /\ Fits(names, longer, longer.param.components)
    <3>1. IsNext(tuple, param) BY <1>2, <2>2
    <3>2. Fits(names, tuple, tuple.param.components) BY <2>1, <2>3 DEF TuplesNest
    <3> QED BY <2>3, <2>4, <3>1, <3>2, FieldGoesOn
  <2>6. PICK more : more = Append(front, longer) OBVIOUS
  <2>7. /\ more \in Seq(Tuple) /\ Len(more) = n /\ DOMAIN more = 1..n /\ more[n] = longer
        /\ \A i \in 1..(n - 1) : more[i] = tuples[i]
    BY <2>1, <2>3, <2>5, <2>6, AppendProperties, LenProperties
  <2>8. open' = more /\ signatures' = signatures
    <3>1. open' = Append(Front(tuples), Longer(tuple, FieldOf(tuple, param, type)))
      BY <1>2, <2>2 DEF Typed, Longer, FieldOf
    <3>2. signatures' = signatures BY <1>2 DEF Typed
    <3> QED BY <2>2, <2>4, <2>6, <3>1, <3>2
  <2>9. longer.param = tuple.param /\ longer.name = tuple.name BY <2>4 DEF Longer
  <2>10. \A i \in 1..n : more[i].name = tuples[i].name /\ more[i].param = tuples[i].param
    <3>1. \A i \in 1..n : i \in 1..(n - 1) \/ i = n BY <2>1
    <3> QED BY <2>3, <2>7, <2>9, <3>1
  <2>11. TuplesNest(names, more)
    <3>1. ASSUME NEW i \in 1..n
          PROVE  /\ more[i].param.type = "tuple" /\ Entry(more[i].param, more[i].name) \in names
                 /\ Fits(names, more[i], more[i].param.components)
                 /\ i < n => IsNext(more[i], more[i + 1].param)
      <4>1. /\ tuples[i].param.type = "tuple" /\ Entry(tuples[i].param, tuples[i].name) \in names
            /\ Fits(names, tuples[i], tuples[i].param.components)
            /\ i < n => IsNext(tuples[i], tuples[i + 1].param)
        BY <2>1 DEF TuplesNest
      <4>2. i = n \/ (i \in 1..(n - 1) /\ i + 1 \in 1..n) BY <2>1
      <4>3. CASE i = n BY <2>1, <2>5, <2>7, <2>10, <4>1, <4>3
      <4>4. CASE i \in 1..(n - 1) /\ i + 1 \in 1..n BY <2>7, <2>10, <4>1, <4>4
      <4> QED BY <4>2, <4>3, <4>4
    <3>2. \A i, j \in 1..n : more[i].name = more[j].name => i = j
      BY <2>1, <2>10 DEF TuplesNest
    <3> QED BY <2>7, <3>1, <3>2 DEF TuplesNest
  <2> QED BY <2>1, <2>7, <2>8, <2>10, <2>11
<1> QED BY <1>1, <1>2

\* The first steps of registerTuple keep the invariant: the new struct's name
\* differs from every other, and the tuple is open.
LEMMA RegisterTupleStep ==
  ASSUME StringFacts, ImportsInv, NEW param \in Parameter, NEW fallback \in STRING,
         open # <<>> => IsNext(Last(open), param), param.type = "tuple",
         RegisterTuple(param, fallback), generation' = generation
  PROVE  ImportsInv'
<1> PICK base :
      base = IF param.internalType = None THEN fallback ELSE StructName[param.internalType]
  OBVIOUS
<1> PICK name : name = UniqueStructName(base) OBVIOUS
<1>1. base \in STRING BY ParameterType
<1>2. PICK separator \in STRING : separator = "" BY DEF StringFacts
<1>3. name \in STRING /\ name \notin usedNames \cup ReservedIdentifier
  <2>1. usedNames \in SUBSET STRING /\ IsFiniteSet(usedNames)
    BY DEF ImportsInv, ImportsTypeOK
  <2>2. name = FirstFree(base, separator, usedNames) BY <1>2 DEF UniqueStructName
  <2> QED BY <1>1, <2>1, <2>2, FirstIsFree
<1>4. PICK entry : entry = Entry(param, name) OBVIOUS
<1>5. PICK tuple : tuple = [param |-> param, name |-> name, fields |-> <<>>] OBVIOUS
<1>6. /\ usedNames' = usedNames \cup {name} /\ namesByKey' = namesByKey \cup {entry}
      /\ open' = Append(open, tuple)
      /\ definitions' = definitions /\ signatures' = signatures
  BY <1>4, <1>5 DEF RegisterTuple, Entry
<1>7. \A pair \in namesByKey : pair.key # entry.key
  BY <1>4 DEF RegisterTuple, Known, Entry
<1>8. \A pair \in namesByKey : pair.name \in usedNames BY DEF ImportsInv, NamesDiffer
<1>9. entry.name = name BY <1>4 DEF Entry
<1>10. entry \in [key : Key, name : STRING] BY <1>3, <1>4, ParameterType DEF Entry
<1>11. tuple \in Tuple BY <1>3, <1>5, EmptySeq DEF Tuple
<1>12. PICK n \in Nat : n = Len(open) /\ DOMAIN open = 1..n /\ open \in Seq(Tuple)
  BY LenProperties DEF ImportsInv, ImportsTypeOK
<1>13. PICK more : more = Append(open, tuple) OBVIOUS
<1>14. /\ more \in Seq(Tuple) /\ Len(more) = n + 1 /\ DOMAIN more = 1..(n + 1)
       /\ more[n + 1] = tuple /\ \A i \in 1..n : more[i] = open[i]
  BY <1>11, <1>12, <1>13, AppendProperties, LenProperties
<1>15. ImportsTypeOK'
  <2>1. (usedNames \cup {name}) \in SUBSET STRING /\ IsFiniteSet(usedNames \cup {name})
    BY <1>3, FS_AddElement DEF ImportsInv, ImportsTypeOK
  <2>2. namesByKey \cup {entry} \in SUBSET [key : Key, name : STRING]
    BY <1>10 DEF ImportsInv, ImportsTypeOK
  <2>3. more \in Seq(Tuple) BY <1>14
  <2> QED BY <1>6, <1>13, <2>1, <2>2, <2>3 DEF ImportsInv, ImportsTypeOK
<1>16. NamesDiffer'
  <2>1. usedNames \cup {name} = HelperName \cup {pair.name : pair \in namesByKey \cup {entry}}
    BY <1>9 DEF ImportsInv, NamesDiffer
  <2>2. \A pair \in namesByKey \cup {entry} : pair.name \notin HelperName \cup ReservedIdentifier
    BY <1>3, <1>9 DEF ImportsInv, NamesDiffer
  <2>3. \A p, q \in namesByKey \cup {entry} : p.name = q.name \/ p.key = q.key => p = q
    BY <1>3, <1>7, <1>8, <1>9 DEF ImportsInv, NamesDiffer
  <2> QED BY <1>6, <2>1, <2>2, <2>3 DEF NamesDiffer
<1>17. StructsFit'
  <2>1. ASSUME NEW k \in DOMAIN definitions
        PROVE  \E pair \in namesByKey' : DeclaredAs(definitions[k], pair)'
    <3>1. PICK pair \in namesByKey : DeclaredAs(definitions[k], pair)
      BY DEF ImportsInv, StructsFit
    <3>2. pair \in namesByKey' BY <1>6
    <3>3. Fits(namesByKey', definitions[k], pair.key[2])
      BY <1>6, <3>1, FitsGrows DEF DeclaredAs
    <3>4. DeclaredAs(definitions[k], pair)' BY <1>6, <3>1, <3>3 DEF DeclaredAs
    <3> QED BY <3>2, <3>4
  <2>2. ASSUME NEW pair \in namesByKey'
        PROVE  \/ \E k \in DOMAIN definitions : definitions[k].name = pair.name
               \/ \E i \in DOMAIN more : more[i].name = pair.name
    <3>1. CASE pair \in namesByKey
      <4>1. \/ \E k \in DOMAIN definitions : definitions[k].name = pair.name
            \/ \E i \in DOMAIN open : open[i].name = pair.name
        BY <3>1 DEF ImportsInv, StructsFit
      <4> QED BY <1>12, <1>14, <4>1
    <3>2. CASE pair = entry BY <1>5, <1>9, <1>14, <3>2
    <3> QED BY <1>6, <3>1, <3>2
  <2>3. \A k, l \in DOMAIN definitions : definitions[k].name = definitions[l].name => k = l
    BY DEF ImportsInv, StructsFit
  <2> QED BY <1>6, <1>13, <2>1, <2>2, <2>3 DEF StructsFit
<1>18. \A i \in 1..n : open[i].name \in usedNames
  <2>1. \A i \in 1..n : Entry(open[i].param, open[i].name) \in namesByKey
    BY <1>12 DEF ImportsInv, OpenTuplesFit, TuplesNest
  <2> QED BY <1>8, <2>1 DEF Entry
<1>19. \A k \in DOMAIN definitions : definitions[k].name \in usedNames
  BY <1>8 DEF ImportsInv, StructsFit, DeclaredAs
<1>20. TuplesNest(namesByKey', more)
  <2>1. TuplesNest(namesByKey', open)
    BY <1>6, TuplesNestGrows DEF ImportsInv, OpenTuplesFit
  <2>2. ASSUME NEW i \in 1..(n + 1)
        PROVE  /\ more[i].param.type = "tuple"
               /\ Entry(more[i].param, more[i].name) \in namesByKey'
               /\ Fits(namesByKey', more[i], more[i].param.components)
               /\ i < n + 1 => IsNext(more[i], more[i + 1].param)
    <3>1. CASE i = n + 1
      <4>1. more[i].param = param /\ more[i].name = name /\ more[i].fields = <<>>
        BY <1>5, <1>14, <3>1
      <4>2. Len(more[i].fields) = 0 /\ DOMAIN more[i].fields = {} BY <4>1
      <4>3. Len(param.components) \in Nat BY ParameterType, LenProperties
      <4>4. Fits(namesByKey', more[i], more[i].param.components)
        BY <4>1, <4>2, <4>3 DEF Fits
      <4> QED BY <1>4, <1>6, <3>1, <4>1, <4>4
    <3>2. CASE i = n /\ i \in 1..n
      <4>1. Last(open) = open[n] BY <1>12 DEF Last
      <4>2. IsNext(open[n], param) BY <1>12, <3>2, <4>1
      <4>3. more[i] = open[i] /\ more[i + 1].param = param BY <1>5, <1>14, <3>2
      <4> QED BY <1>12, <2>1, <3>2, <4>2, <4>3 DEF TuplesNest
    <3>3. CASE i \in 1..n /\ i < n
      <4>1. more[i] = open[i] /\ more[i + 1] = open[i + 1] BY <1>14, <3>3
      <4> QED BY <1>12, <2>1, <3>3, <4>1 DEF TuplesNest
    <3> QED BY <3>1, <3>2, <3>3
  <2>3. ASSUME NEW i \in 1..(n + 1), NEW j \in 1..(n + 1), more[i].name = more[j].name
        PROVE  i = j
    <3>1. \A h \in 1..(n + 1) : h \in 1..n \/ h = n + 1 OBVIOUS
    <3>2. \A h \in 1..n : more[h].name = open[h].name BY <1>14
    <3>3. more[n + 1].name = name BY <1>5, <1>14
    <3>4. \A h, l \in 1..n : open[h].name = open[l].name => h = l
      BY <1>12, <2>1 DEF TuplesNest
    <3> QED BY <1>3, <1>18, <2>3, <3>1, <3>2, <3>3, <3>4
  <2> QED BY <1>14, <2>2, <2>3 DEF TuplesNest
<1>21. \A i \in DOMAIN more, k \in DOMAIN definitions : definitions[k].name # more[i].name
  <2>1. \A i \in 1..n, k \in DOMAIN definitions : definitions[k].name # open[i].name
    BY <1>12 DEF ImportsInv, OpenTuplesFit
  <2>2. \A h \in 1..(n + 1) : h \in 1..n \/ h = n + 1 OBVIOUS
  <2>3. more[n + 1].name = name BY <1>5, <1>14
  <2> QED BY <1>3, <1>14, <1>19, <2>1, <2>2, <2>3
<1>22. OpenTuplesFit' BY <1>6, <1>13, <1>20, <1>21 DEF OpenTuplesFit
<1>23. SignaturesStand'
  <2>1. ASSUME NEW i \in DOMAIN signatures
        PROVE  Stands(namesByKey', signatures[i].type, signatures[i].param)
    BY <1>6, StandsGrows DEF ImportsInv, SignaturesStand
  <2> QED BY <1>6, <2>1 DEF SignaturesStand
<1> QED BY <1>15, <1>16, <1>17, <1>22, <1>23 DEF ImportsInv

\* A type that stands for the parameter is typed: only the open tuples and the
\* signatures change, and the invariant holds still.
LEMMA TypedStep ==
  ASSUME StringFacts, ImportsInv, NEW param \in Parameter, NEW type \in STRING,
         Stands(namesByKey, type, param), open # <<>> => IsNext(Last(open), param),
         Typed(open, param, type), generation' = generation,
         definitions' = definitions, namesByKey' = namesByKey, usedNames' = usedNames
  PROVE  ImportsInv'
<1>1. PICK names : names = namesByKey OBVIOUS
<1>2. /\ TuplesNest(names, open) /\ Stands(names, type, param)
      /\ open \in Seq(Tuple) /\ signatures \in Seq(Signature)
      /\ \A i \in DOMAIN signatures : Stands(names, signatures[i].type, signatures[i].param)
  BY <1>1 DEF ImportsInv, ImportsTypeOK, OpenTuplesFit, SignaturesStand
<1>3. /\ open' \in Seq(Tuple) /\ TuplesNest(names, open') /\ DOMAIN open' = DOMAIN open
      /\ \A i \in DOMAIN open : open'[i].name = open[i].name
      /\ signatures' \in Seq(Signature)
      /\ \A i \in DOMAIN signatures' :
           Stands(names, signatures'[i].type, signatures'[i].param)
  BY <1>2, TypedStands
<1>4. namesByKey' = names BY <1>1
<1>5. ImportsTypeOK' BY <1>3 DEF ImportsInv, ImportsTypeOK
<1>6. NamesDiffer' BY DEF ImportsInv, NamesDiffer
<1>7. StructsFit'
  <2>1. \A k \in DOMAIN definitions : \E pair \in namesByKey : DeclaredAs(definitions[k], pair)'
    BY DEF ImportsInv, StructsFit, DeclaredAs
  <2>2. \A pair \in namesByKey : \/ \E k \in DOMAIN definitions : definitions[k].name = pair.name
                                 \/ \E i \in DOMAIN open' : open'[i].name = pair.name
    BY <1>3 DEF ImportsInv, StructsFit
  <2>3. \A k, l \in DOMAIN definitions : definitions[k].name = definitions[l].name => k = l
    BY DEF ImportsInv, StructsFit
  <2> QED BY <2>1, <2>2, <2>3 DEF StructsFit
<1>8. OpenTuplesFit'
  <2>1. \A i \in DOMAIN open', k \in DOMAIN definitions : definitions[k].name # open'[i].name
    BY <1>3 DEF ImportsInv, OpenTuplesFit
  <2> QED BY <1>3, <1>4, <2>1 DEF OpenTuplesFit
<1>9. SignaturesStand' BY <1>3, <1>4 DEF SignaturesStand
<1> QED BY <1>5, <1>6, <1>7, <1>8, <1>9 DEF ImportsInv

\* typeFor keeps the invariant.
LEMMA TypeForStep ==
  ASSUME StringFacts, ImportsInv, NEW param \in Parameter, NEW fallback \in STRING,
         open # <<>> => IsNext(Last(open), param), TypeFor(param, fallback)
  PROVE  ImportsInv'
<1>1. generation' = generation BY DEF TypeFor
<1>2. CASE param.type # "tuple"
  <2>1. PICK type \in STRING : type = param.type BY ParameterType
  <2>2. /\ Typed(open, param, type) /\ definitions' = definitions
        /\ namesByKey' = namesByKey /\ usedNames' = usedNames
    BY <1>2, <2>1 DEF TypeFor
  <2>3. Stands(namesByKey, type, param) BY <1>2, <2>1 DEF Stands
  <2> QED BY <1>1, <2>2, <2>3, TypedStep
<1>3. CASE param.type = "tuple" /\ RegisterTuple(param, fallback)
  BY <1>1, <1>3, RegisterTupleStep
<1>4. CASE param.type = "tuple" /\ \E pair \in Known(param) : Typed(open, param, pair.name)
           /\ UNCHANGED <<definitions, namesByKey, usedNames>>
  <2>1. PICK pair \in Known(param) :
          /\ Typed(open, param, pair.name) /\ definitions' = definitions
          /\ namesByKey' = namesByKey /\ usedNames' = usedNames
    BY <1>4
  <2>2. PICK type : type = pair.name OBVIOUS
  <2>3. pair \in namesByKey /\ pair.key = TupleKey(param) BY DEF Known
  <2>4. pair \in [key : Key, name : STRING] BY <2>3 DEF ImportsInv, ImportsTypeOK
  <2>5. type \in STRING /\ pair = Entry(param, type) BY <2>2, <2>3, <2>4 DEF Entry
  <2>6. Stands(namesByKey, type, param) BY <1>4, <2>3, <2>5 DEF Stands
  <2>7. Typed(open, param, type) BY <2>1, <2>2
  <2> QED BY <1>1, <2>1, <2>5, <2>6, <2>7, TypedStep
<1> QED BY <1>2, <1>3, <1>4 DEF TypeFor

\* A tuple whose components all have fields is declared, and is the type of a
\* parameter or of the next field of the tuple it is in.
LEMMA TupleDoneStep ==
  ASSUME StringFacts, ImportsInv, TupleDone
  PROVE  ImportsInv'
<1>1. PICK n \in Nat \ {0} : n = Len(open) /\ DOMAIN open = 1..n /\ open \in Seq(Tuple)
  BY EmptySeq, LenProperties DEF ImportsInv, ImportsTypeOK, TupleDone
<1>2. PICK tuple, front : tuple = Last(open) /\ front = Front(open) OBVIOUS
<1>3. /\ tuple = open[n] /\ tuple \in Tuple /\ front \in Seq(Tuple) /\ Len(front) = n - 1
      /\ DOMAIN front = 1..(n - 1) /\ \A i \in 1..(n - 1) : front[i] = open[i]
  BY <1>1, <1>2, FrontProperties, LenProperties DEF TupleDone
<1>4. PICK param, type, fields, components :
        param = tuple.param /\ type = tuple.name /\ fields = tuple.fields
        /\ components = param.components
  OBVIOUS
<1>5. param \in Parameter /\ type \in STRING /\ fields \in Seq(Field) BY <1>3, <1>4 DEF Tuple
<1>6. PICK names : names = namesByKey OBVIOUS
<1>7. /\ param.type = "tuple" /\ Entry(param, type) \in names /\ Fits(names, tuple, components)
      /\ TuplesNest(names, open)
  BY <1>1, <1>3, <1>4, <1>6 DEF ImportsInv, OpenTuplesFit, TuplesNest
<1>8. PICK struct : struct = [name |-> type, fields |-> fields] OBVIOUS
<1>9. /\ Missing = <<>> /\ definitions' = Append(definitions, struct)
      /\ Typed(front, param, type) /\ generation' = generation
      /\ namesByKey' = names /\ usedNames' = usedNames
  BY <1>2, <1>4, <1>6, <1>8 DEF TupleDone
<1>10. Len(fields) = Len(components)
  <2>1. PICK f \in Nat : f = Len(fields) BY <1>5, LenProperties
  <2>2. PICK c \in Nat : c = Len(components) BY <1>4, <1>5, ParameterType, LenProperties
  <2>3. f <= c BY <1>4, <1>7, <2>1, <2>2 DEF Fits
  <2>4. SUFFICES ASSUME f < c PROVE FALSE BY <2>1, <2>2, <2>3
  <2>5. PICK m \in Nat : m = f + 1 OBVIOUS
  <2>6. Missing = SubSeq(components, m, c)
    BY <1>2, <1>4, <2>1, <2>2, <2>5 DEF Missing
  <2>7. components \in Seq(Part) BY <1>4, <1>5, ParameterType
  <2>8. \A i \in m..c : components[i] \in Part
    <3>1. \A i \in m..c : i \in 1..c BY <2>5
    <3> QED BY <2>2, <2>7, <3>1, ElementOfSeq
  <2>9. Len(SubSeq(components, m, c)) = c - m + 1 BY <2>4, <2>5, <2>8, SubSeqProperties
  <2>10. Len(<<>>) = 0 OBVIOUS
  <2>11. c - m + 1 > 0 BY <2>4, <2>5
  <2> QED BY <1>9, <2>6, <2>9, <2>10, <2>11
<1>11. TuplesNest(names, front)
  <2>1. \A i \in 1..(n - 1) : i \in 1..n /\ i < n /\ (i < n - 1 => i + 1 \in 1..(n - 1)) BY <1>1
  <2>2. ASSUME NEW i \in 1..(n - 1)
        PROVE  /\ front[i].param.type = "tuple" /\ Entry(front[i].param, front[i].name) \in names
               /\ Fits(names, front[i], front[i].param.components)
               /\ i < n - 1 => IsNext(front[i], front[i + 1].param)
    BY <1>1, <1>3, <1>7, <2>1 DEF TuplesNest
  <2>3. \A i, j \in 1..(n - 1) : front[i].name = front[j].name => i = j
    BY <1>1, <1>3, <1>7, <2>1 DEF TuplesNest
  <2> QED BY <1>3, <2>2, <2>3 DEF TuplesNest
<1>12. front # <<>> => IsNext(Last(front), param)
  <2> SUFFICES ASSUME front # <<>> PROVE IsNext(Last(front), param) OBVIOUS
  <2>1. PICK m \in Nat : m = n - 1 BY <1>1
  <2>2. m # 0 /\ Last(front) = front[m] BY <1>3, <2>1, EmptySeq DEF Last
  <2>3. m \in 1..n /\ m < n /\ m + 1 = n /\ m \in 1..(n - 1) BY <2>1, <2>2
  <2>4. IsNext(open[m], open[m + 1].param) BY <1>1, <1>7, <2>3 DEF TuplesNest
  <2> QED BY <1>3, <1>4, <2>2, <2>3, <2>4
<1>13. Stands(names, type, param) BY <1>7 DEF Stands
<1>14. /\ signatures \in Seq(Signature)
       /\ \A i \in DOMAIN signatures : Stands(names, signatures[i].type, signatures[i].param)
  BY <1>6 DEF ImportsInv, ImportsTypeOK, SignaturesStand
<1>15. /\ open' \in Seq(Tuple) /\ TuplesNest(names, open') /\ DOMAIN open' = DOMAIN front
       /\ \A i \in DOMAIN front : open'[i].name = front[i].name
       /\ signatures' \in Seq(Signature)
       /\ \A i \in DOMAIN signatures' :
            Stands(names, signatures'[i].type, signatures'[i].param)
  BY <1>3, <1>5, <1>9, <1>11, <1>12, <1>13, <1>14, TypedStands
<1>16. PICK d \in Nat : d = Len(definitions) /\ DOMAIN definitions = 1..d
                        /\ definitions \in Seq(Struct)
  BY LenProperties DEF ImportsInv, ImportsTypeOK
<1>17. struct \in Struct BY <1>5, <1>8 DEF Struct
<1>18. PICK more : more = Append(definitions, struct) OBVIOUS
<1>19. /\ more \in Seq(Struct) /\ DOMAIN more = 1..(d + 1) /\ more[d + 1] = struct
       /\ \A k \in 1..d : more[k] = definitions[k]
  BY <1>16, <1>17, <1>18, AppendProperties, LenProperties
<1>20. \A k \in 1..(d + 1) : k \in 1..d \/ k = d + 1 OBVIOUS
<1>21. \A k \in 1..d : definitions[k].name # type
  BY <1>1, <1>3, <1>4, <1>16 DEF ImportsInv, OpenTuplesFit
<1>22. ImportsTypeOK' BY <1>6, <1>9, <1>15, <1>18, <1>19 DEF ImportsInv, ImportsTypeOK
<1>23. NamesDiffer' BY <1>6, <1>9 DEF ImportsInv, NamesDiffer
<1>24. StructsFit'
  <2>1. ASSUME NEW k \in 1..d PROVE \E pair \in names : DeclaredAs(more[k], pair)'
    BY <1>6, <1>9, <1>16, <1>19 DEF ImportsInv, StructsFit, DeclaredAs
  <2>2. \E pair \in names : DeclaredAs(struct, pair)'
    <3>1. PICK pair : pair = Entry(param, type) OBVIOUS
    <3>2. pair \in names /\ pair.name = type /\ pair.key[2] = components
      BY <1>4, <1>7, <3>1 DEF Entry, TupleKey
    <3>3. Fits(names, struct, components)
      <4>1. struct.fields = tuple.fields BY <1>4, <1>8
      <4> QED BY <1>7, <4>1 DEF Fits, KeepsItsName
    <3>4. struct.name = type /\ Len(struct.fields) = Len(components) BY <1>8, <1>10
    <3> QED BY <1>9, <3>2, <3>3, <3>4 DEF DeclaredAs
  <2>3. \A k \in 1..(d + 1) : \E pair \in names : DeclaredAs(more[k], pair)'
    BY <1>19, <1>20, <2>1, <2>2
  <2>4. \A k, l \in 1..(d + 1) : more[k].name = more[l].name => k = l
    <3>1. \A k, l \in 1..d : definitions[k].name = definitions[l].name => k = l
      BY <1>16 DEF ImportsInv, StructsFit
    <3>2. \A k \in 1..d : more[k].name # type BY <1>19, <1>21
    <3>3. more[d + 1].name = type BY <1>8, <1>19
    <3>4. \A k, l \in 1..d : more[k].name = more[l].name => k = l BY <1>19, <3>1
    <3> QED BY <1>20, <3>2, <3>3, <3>4
  <2>5. ASSUME NEW pair \in names
        PROVE  \/ \E k \in 1..(d + 1) : more[k].name = pair.name
               \/ \E i \in DOMAIN open' : open'[i].name = pair.name
    <3>1. \/ \E k \in 1..d : definitions[k].name = pair.name
          \/ \E i \in 1..n : open[i].name = pair.name
      BY <1>1, <1>6, <1>16 DEF ImportsInv, StructsFit
    <3>2. ASSUME NEW k \in 1..d, definitions[k].name = pair.name
          PROVE  \E l \in 1..(d + 1) : more[l].name = pair.name
      BY <1>19, <3>2
    <3>3. ASSUME NEW i \in 1..n, open[i].name = pair.name
          PROVE  \/ \E k \in 1..(d + 1) : more[k].name = pair.name
                 \/ \E j \in DOMAIN open' : open'[j].name = pair.name
      <4>1. CASE i = n
        <5>1. pair.name = type BY <1>3, <1>4, <3>3, <4>1
        <5>2. d + 1 \in 1..(d + 1) /\ more[d + 1].name = type BY <1>8, <1>19
        <5> QED BY <5>1, <5>2
      <4>2. CASE i \in 1..(n - 1) BY <1>3, <1>15, <3>3, <4>2
      <4>3. i = n \/ i \in 1..(n - 1) BY <1>1
      <4> QED BY <4>1, <4>2, <4>3
    <3> QED BY <3>1, <3>2, <3>3
  <2> QED BY <1>9, <1>18, <1>19, <2>3, <2>4, <2>5 DEF StructsFit
<1>25. OpenTuplesFit'
  <2>1. ASSUME NEW i \in DOMAIN open', NEW k \in 1..(d + 1)
        PROVE  more[k].name # open'[i].name
    <3>1. i \in 1..(n - 1) /\ i \in 1..n /\ i # n BY <1>1, <1>3, <1>15
    <3>2. open'[i].name = open[i].name BY <1>3, <1>15, <3>1
    <3>3. open[i].name # type
      <4>1. n \in 1..n BY <1>1
      <4> QED BY <1>1, <1>3, <1>4, <1>7, <3>1, <4>1 DEF TuplesNest
    <3>4. ASSUME NEW l \in 1..d PROVE definitions[l].name # open[i].name
      BY <1>1, <1>16, <3>1 DEF ImportsInv, OpenTuplesFit
    <3> QED BY <1>8, <1>19, <1>20, <3>2, <3>3, <3>4
  <2> QED BY <1>9, <1>15, <1>18, <1>19, <2>1 DEF OpenTuplesFit
<1>26. SignaturesStand' BY <1>9, <1>15 DEF SignaturesStand
<1> QED BY <1>22, <1>23, <1>24, <1>25, <1>26 DEF ImportsInv

\* The invariant holds of an empty file, and every step keeps it.
LEMMA ImportsInvHolds ==
  ASSUME StringFacts
  PROVE  ImportsSpec => []ImportsInv
<1>1. ASSUME ImportsInit PROVE ImportsInv
  <2>1. ImportsTypeOK
    BY <1>1, EmptySeq, ImportsAssumption DEF ImportsInit, ImportsTypeOK
  <2>2. DOMAIN definitions = {} /\ DOMAIN open = {} /\ DOMAIN signatures = {}
    BY <1>1 DEF ImportsInit
  <2>3. NamesDiffer
    <3>1. {pair.name : pair \in {}} = {} OBVIOUS
    <3> QED BY <1>1, <3>1 DEF ImportsInit, NamesDiffer
  <2>4. StructsFit BY <1>1, <2>2 DEF ImportsInit, StructsFit
  <2>5. OpenTuplesFit BY <2>2 DEF OpenTuplesFit, TuplesNest
  <2>6. SignaturesStand BY <2>2 DEF SignaturesStand
  <2> QED BY <2>1, <2>3, <2>4, <2>5, <2>6 DEF ImportsInv
<1>2. ASSUME ImportsInv, [ImportsNext]_importsVars PROVE ImportsInv'
  <2>1. ASSUME NEW param \in Param, NEW context \in Context, RenderParam(param, context)
        PROVE  ImportsInv'
    <3>1. param \in Parameter /\ context \in STRING BY ImportsAssumption DEF Parameter
    <3>2. open = <<>> /\ TypeFor(param, context) BY <2>1 DEF RenderParam
    <3> QED BY <1>2, <3>1, <3>2, TypeForStep
  <2>2. CASE RenderComponent
    <3>1. PICK n \in Nat \ {0} : n = Len(open) /\ DOMAIN open = 1..n /\ open \in Seq(Tuple)
      BY <1>2, <2>2, EmptySeq, LenProperties DEF ImportsInv, ImportsTypeOK, RenderComponent
    <3>2. PICK tuple : tuple = Last(open) OBVIOUS
    <3>3. tuple \in Tuple BY <3>1, <3>2, <2>2, FrontProperties DEF RenderComponent
    <3>4. PICK components, f : components = tuple.param.components /\ f = Len(tuple.fields)
      OBVIOUS
    <3>5. tuple.param \in Parameter /\ components \in Seq(Part) /\ f \in Nat
          /\ tuple.name \in STRING
      <4>1. tuple.param \in Parameter /\ tuple.fields \in Seq(Field) /\ tuple.name \in STRING
        BY <3>3 DEF Tuple
      <4> QED BY <3>4, <4>1, ParameterType, LenProperties
    <3>6. PICK c \in Nat : c = Len(components) /\ DOMAIN components = 1..c
      BY <3>5, LenProperties
    <3>7. PICK m \in Nat : m = f + 1 BY <3>5
    <3>8. Missing = SubSeq(components, m, c) BY <3>2, <3>4, <3>6, <3>7 DEF Missing
    <3>9. m \in 1..c
      <4> SUFFICES ASSUME c < m PROVE FALSE BY <3>5, <3>6, <3>7
      <4>1. SubSeq(components, m, c) = <<>> BY <3>6, <3>7, SubSeqEmpty
      <4> QED BY <2>2, <3>8, <4>1 DEF RenderComponent
    <3>10. PICK param : param = Head(Missing) OBVIOUS
    <3>11. param = components[m] BY <3>5, <3>6, <3>8, <3>9, <3>10, HeadTailOfSubSeq
    <3>12. param \in Parameter BY <3>4, <3>5, <3>6, <3>9, <3>11, ComponentType
    <3>13. IsNext(tuple, param) BY <3>4, <3>5, <3>6, <3>7, <3>9, <3>11 DEF IsNext
    <3>14. PICK fallback : fallback = tuple.name \o "Field" \o ToString(f) OBVIOUS
    <3>15. fallback \in STRING
      <4>1. PICK s, t \in STRING : s = "Field" /\ t = ToString(f)
        BY <3>5 DEF StringFacts
      <4>2. PICK u \in STRING : u = tuple.name \o s BY <3>5 DEF StringFacts
      <4>3. u \o t \in STRING BY DEF StringFacts
      <4> QED BY <3>14, <4>1, <4>2, <4>3
    <3>16. TypeFor(param, fallback)
      BY <2>2, <3>2, <3>4, <3>10, <3>14 DEF RenderComponent
    <3> QED BY <1>2, <3>2, <3>12, <3>13, <3>15, <3>16, TypeForStep
  <2>3. CASE TupleDone BY <1>2, <2>3, TupleDoneStep
  <2>4. CASE generation' \in {"done", "error"}
             /\ UNCHANGED <<definitions, namesByKey, usedNames, open, signatures>>
    BY <1>2, <2>4 DEF ImportsInv, ImportsTypeOK, NamesDiffer, StructsFit, DeclaredAs,
                      OpenTuplesFit, SignaturesStand
  <2>5. CASE RenderFails BY <2>4, <2>5 DEF RenderFails
  <2>6. CASE Generated BY <2>4, <2>6 DEF Generated
  <2>7. CASE UNCHANGED importsVars
    BY <1>2, <2>7 DEF importsVars, ImportsInv, ImportsTypeOK, NamesDiffer, StructsFit,
                      DeclaredAs, OpenTuplesFit, SignaturesStand
  <2> QED BY <1>2, <2>1, <2>2, <2>3, <2>5, <2>6, <2>7 DEF ImportsNext
<1> QED BY <1>1, <1>2, PTL DEF ImportsSpec

-----------------------------------------------------------------------------
(* What the types mean. *)

\* The components of a parameter are less deep than it is.
IsDepth(depth) ==
  /\ depth \in [Parameter -> Nat]
  /\ \A param \in Parameter : \A k \in DOMAIN param.components :
       depth[param.components[k]] < depth[param]

\* Meanings on a set of parameters, one step of the recursion at a time.
Meaning(m, param) ==
  IF param.type # "tuple" THEN {param.type}
  ELSE {d.name : d \in {d \in ToSet(definitions) :
         /\ Len(d.fields) = Len(param.components)
         /\ \A k \in DOMAIN d.fields : /\ d.fields[k].type \in m[param.components[k]]
                                      /\ KeepsItsName(d, k, param.components[k])}}
MeaningsOf(m, S) == m = [param \in S |-> Meaning(m, param)]
Closed(S) == \A param \in S : \A k \in DOMAIN param.components : param.components[k] \in S

\* A meaning depends on those of the components only.
LEMMA MeaningDepends ==
  ASSUME ImportsTypeOK, NEW param \in Parameter, NEW f, NEW g,
         \A k \in DOMAIN param.components : f[param.components[k]] = g[param.components[k]]
  PROVE  Meaning(f, param) = Meaning(g, param)
<1>1. ASSUME NEW d \in ToSet(definitions), Len(d.fields) = Len(param.components)
      PROVE  DOMAIN d.fields = DOMAIN param.components
  <2>1. \A k \in DOMAIN definitions : definitions[k] \in Struct
    BY LenProperties, ElementOfSeq DEF ImportsTypeOK
  <2>2. d \in Struct BY <2>1 DEF ToSet
  <2>3. d.fields \in Seq(Field) BY <2>2 DEF Struct
  <2>4. param.components \in Seq(Part) BY ParameterType
  <2> QED BY <1>1, <2>3, <2>4, LenProperties
<1>2. PICK F : F = {d \in ToSet(definitions) :
         /\ Len(d.fields) = Len(param.components)
         /\ \A k \in DOMAIN d.fields : /\ d.fields[k].type \in f[param.components[k]]
                                      /\ KeepsItsName(d, k, param.components[k])}
  OBVIOUS
<1>3. PICK G : G = {d \in ToSet(definitions) :
         /\ Len(d.fields) = Len(param.components)
         /\ \A k \in DOMAIN d.fields : /\ d.fields[k].type \in g[param.components[k]]
                                      /\ KeepsItsName(d, k, param.components[k])}
  OBVIOUS
<1>4. ASSUME NEW d \in ToSet(definitions) PROVE d \in F <=> d \in G
  BY <1>1, <1>2, <1>3
<1>5. F = G BY <1>2, <1>3, <1>4
<1>6. /\ Meaning(f, param) = IF param.type # "tuple" THEN {param.type} ELSE {d.name : d \in F}
      /\ Meaning(g, param) = IF param.type # "tuple" THEN {param.type} ELSE {d.name : d \in G}
  BY <1>2, <1>3 DEF Meaning
<1> QED BY <1>5, <1>6

\* Two functions that mean what the recursion says agree.
LEMMA MeaningsAgree ==
  ASSUME ImportsTypeOK, NEW depth, IsDepth(depth),
         NEW A \in SUBSET Parameter, NEW B \in SUBSET Parameter, Closed(A), Closed(B),
         NEW f, MeaningsOf(f, A), NEW g, MeaningsOf(g, B)
  PROVE  \A param \in A \cap B : f[param] = g[param]
<1> DEFINE Differ == {param \in A \cap B : f[param] # g[param]}
<1> SUFFICES ASSUME Differ # {} PROVE FALSE OBVIOUS
<1> DEFINE T == {depth[param] : param \in Differ}
<1>1. T \in SUBSET Nat /\ T # {} BY DEF IsDepth
<1> HIDE DEF T
<1>2. PICK n \in T : \A m \in T : n <= m BY <1>1, LeastNumber
<1>3. PICK param \in Differ : depth[param] = n BY <1>2 DEF T
<1>4. param \in A /\ param \in B /\ param \in Parameter /\ f[param] # g[param] BY <1>3
<1>5. ASSUME NEW k \in DOMAIN param.components
      PROVE  f[param.components[k]] = g[param.components[k]]
  <2>1. PICK component : component = param.components[k] OBVIOUS
  <2>2. component \in A /\ component \in B BY <1>4, <2>1 DEF Closed
  <2>3. depth[component] < n /\ depth[component] \in Nat /\ n \in Nat
    BY <1>3, <1>4, <2>1, <2>2 DEF IsDepth
  <2>4. depth[component] \notin T BY <1>2, <2>3
  <2>5. component \notin Differ BY <2>4 DEF T
  <2> QED BY <2>1, <2>2, <2>5
<1>6. Meaning(f, param) = Meaning(g, param) BY <1>4, <1>5, MeaningDepends
<1>7. f[param] = Meaning(f, param) /\ g[param] = Meaning(g, param)
  BY <1>4 DEF MeaningsOf
<1> QED BY <1>4, <1>6, <1>7

\* There is a function that means what the recursion says.
LEMMA MeaningsExist ==
  ASSUME ImportsTypeOK, NEW depth, IsDepth(depth)
  PROVE  \E m : MeaningsOf(m, Parameter)
<1> DEFINE Below(n) == {param \in Parameter : depth[param] < n}
           Bad == {n \in Nat : ~\E f : MeaningsOf(f, Below(n))}
<1>1. ASSUME NEW n \in Nat, NEW param \in Below(n), NEW k \in DOMAIN param.components
      PROVE  /\ param.components[k] \in Parameter
             /\ depth[param.components[k]] \in Nat /\ depth[param] \in Nat
             /\ depth[param.components[k]] < depth[param] /\ depth[param] < n
  <2>1. PICK component : component = param.components[k] OBVIOUS
  <2>2. component \in Parameter BY <2>1, ComponentType
  <2> QED BY <2>1, <2>2 DEF IsDepth
<1>2. \A n \in Nat : Below(n) \in SUBSET Parameter /\ Closed(Below(n))
  <2> SUFFICES ASSUME NEW n \in Nat PROVE Closed(Below(n)) OBVIOUS
  <2>1. ASSUME NEW param \in Below(n), NEW k \in DOMAIN param.components
        PROVE  param.components[k] \in Below(n)
    BY <1>1
  <2> HIDE DEF Below
  <2> QED BY <2>1 DEF Closed
<1>3. \A n \in Nat : \E f : MeaningsOf(f, Below(n))
  <2> SUFFICES ASSUME Bad # {} PROVE FALSE OBVIOUS
  <2>1. PICK n \in Bad : \A m \in Bad : n <= m
    <3> HIDE DEF Bad
    <3>1. Bad \in SUBSET Nat BY DEF Bad
    <3> QED BY <3>1, LeastNumber
  <2>2. n \in Nat /\ ~\E f : MeaningsOf(f, Below(n)) BY <2>1
  <2>3. CASE n = 0
    <3>1. Below(0) = {} BY DEF IsDepth
    <3>2. PICK f : f = [param \in {} |-> param] OBVIOUS
    <3>3. MeaningsOf(f, {}) BY <3>2 DEF MeaningsOf
    <3> HIDE DEF Below
    <3> QED BY <2>2, <2>3, <3>1, <3>3
  <2>4. CASE n # 0
    <3>1. n - 1 \in Nat /\ n - 1 \notin Bad
      <4> HIDE DEF Bad
      <4> QED BY <2>1, <2>2, <2>4
    <3>2. PICK f : MeaningsOf(f, Below(n - 1)) BY <3>1
    <3>3. PICK g : g = [param \in Below(n) |-> Meaning(f, param)] OBVIOUS
    <3>4. ASSUME NEW param \in Below(n - 1) PROVE f[param] = g[param]
      <4>1. param \in Below(n) BY <2>2 DEF IsDepth
      <4>2. f[param] = Meaning(f, param)
        <5> HIDE DEF Below
        <5> QED BY <3>2 DEF MeaningsOf
      <4> HIDE DEF Below
      <4> QED BY <3>3, <4>1, <4>2
    <3>5. ASSUME NEW param \in Below(n) PROVE Meaning(f, param) = Meaning(g, param)
      <4>1. ASSUME NEW k \in DOMAIN param.components
            PROVE  f[param.components[k]] = g[param.components[k]]
        <5>1. param.components[k] \in Below(n - 1) BY <1>1, <2>2
        <5> QED BY <3>4, <5>1
      <4>2. param \in Parameter OBVIOUS
      <4> HIDE DEF Below
      <4> QED BY <4>1, <4>2, MeaningDepends
    <3>6. g = [param \in Below(n) |-> Meaning(g, param)]
      <4> HIDE DEF Below
      <4> QED BY <3>3, <3>5
    <3>7. MeaningsOf(g, Below(n))
      <4> HIDE DEF Below
      <4> QED BY <3>6 DEF MeaningsOf
    <3> QED BY <2>2, <3>7
  <2> QED BY <2>3, <2>4
<1>4. PICK pick : pick = [n \in Nat |-> CHOOSE f : MeaningsOf(f, Below(n))] OBVIOUS
<1>5. ASSUME NEW n \in Nat PROVE MeaningsOf(pick[n], Below(n))
  <2>1. PICK A : A = Below(n) OBVIOUS
  <2>2. \E f : MeaningsOf(f, A) BY <1>3, <2>1
  <2>3. pick[n] = CHOOSE f : MeaningsOf(f, A) BY <1>4, <2>1
  <2> HIDE DEF Below
  <2> QED BY <2>1, <2>2, <2>3
<1>6. PICK m : m = [param \in Parameter |-> pick[depth[param] + 1][param]] OBVIOUS
<1>7. ASSUME NEW param \in Parameter PROVE m[param] = Meaning(m, param)
  <2>1. PICK n \in Nat : n = depth[param] + 1 /\ param \in Below(n) BY DEF IsDepth
  <2>2. m[param] = pick[n][param] BY <1>6, <2>1
  <2>3. pick[n][param] = Meaning(pick[n], param)
    <3>1. MeaningsOf(pick[n], Below(n)) BY <1>5
    <3> HIDE DEF Below
    <3> QED BY <2>1, <3>1 DEF MeaningsOf
  <2>4. ASSUME NEW k \in DOMAIN param.components
        PROVE  pick[n][param.components[k]] = m[param.components[k]]
    <3>1. PICK component \in Parameter : component = param.components[k] BY ComponentType
    <3>2. PICK l \in Nat : l = depth[component] + 1 /\ component \in Below(l) BY DEF IsDepth
    <3>3. component \in Below(n) BY <2>1, <3>1 DEF IsDepth
    <3>4. m[component] = pick[l][component] BY <1>6, <3>2
    <3>5. PICK A, B, f, g : A = Below(n) /\ B = Below(l) /\ f = pick[n] /\ g = pick[l] OBVIOUS
    <3>6. A \in SUBSET Parameter /\ B \in SUBSET Parameter /\ Closed(A) /\ Closed(B)
          /\ MeaningsOf(f, A) /\ MeaningsOf(g, B) /\ component \in A \cap B
      BY <1>2, <1>5, <3>2, <3>3, <3>5
    <3> HIDE DEF Below
    <3>7. f[component] = g[component] BY <3>6, MeaningsAgree
    <3> QED BY <3>1, <3>4, <3>5, <3>7
  <2>5. Meaning(pick[n], param) = Meaning(m, param) BY <2>4, MeaningDepends
  <2> QED BY <2>2, <2>3, <2>5
<1>8. m = [param \in Parameter |-> Meaning(m, param)] BY <1>6, <1>7
<1> QED BY <1>8 DEF MeaningsOf

\* Once no tuple is open, a type that stands for a parameter means it.
LEMMA WhatStandsMeans ==
  ASSUME ImportsInv, open = <<>>, NEW depth, IsDepth(depth),
         NEW m, MeaningsOf(m, Parameter),
         NEW param \in Parameter, NEW type, Stands(namesByKey, type, param)
  PROVE  type \in m[param]
<1> DEFINE Astray == {p \in Parameter : \E t : Stands(namesByKey, t, p) /\ t \notin m[p]}
<1> SUFFICES ASSUME Astray # {} PROVE FALSE OBVIOUS
<1> DEFINE T == {depth[p] : p \in Astray}
<1>1. T \in SUBSET Nat /\ T # {} BY DEF IsDepth
<1> HIDE DEF T
<1>2. PICK n \in T : \A l \in T : n <= l BY <1>1, LeastNumber
<1>3. PICK p \in Astray : depth[p] = n BY <1>2 DEF T
<1>4. PICK t : p \in Parameter /\ Stands(namesByKey, t, p) /\ t \notin m[p] BY <1>3
<1>5. m[p] = Meaning(m, p) BY <1>4 DEF MeaningsOf
<1>6. p.type = "tuple" /\ Entry(p, t) \in namesByKey
  <2>1. CASE p.type # "tuple" BY <1>4, <1>5, <2>1 DEF Stands, Meaning
  <2> QED BY <1>4, <2>1 DEF Stands
<1>7. PICK pair : pair = Entry(p, t) OBVIOUS
<1>8. pair \in namesByKey /\ pair.name = t /\ pair.key[2] = p.components
  BY <1>6, <1>7 DEF Entry, TupleKey
<1>9. PICK k \in DOMAIN definitions : definitions[k].name = t
  <2>1. DOMAIN open = {} OBVIOUS
  <2> QED BY <1>8, <2>1 DEF ImportsInv, StructsFit
<1>10. DeclaredAs(definitions[k], pair)
  <2>1. PICK other \in namesByKey : DeclaredAs(definitions[k], other)
    BY DEF ImportsInv, StructsFit
  <2>2. other = pair BY <1>8, <1>9, <2>1 DEF DeclaredAs, ImportsInv, NamesDiffer
  <2> QED BY <2>1, <2>2
<1>11. PICK d : d = definitions[k] OBVIOUS
<1>12. /\ d \in ToSet(definitions) /\ d.name = t /\ Len(d.fields) = Len(p.components)
       /\ Fits(namesByKey, d, p.components)
  BY <1>8, <1>9, <1>10, <1>11 DEF DeclaredAs, ToSet
<1>13. DOMAIN d.fields = DOMAIN p.components
  <2>1. d \in Struct
    BY <1>11, LenProperties, ElementOfSeq DEF ImportsInv, ImportsTypeOK
  <2>2. d.fields \in Seq(Field) BY <2>1 DEF Struct
  <2>3. p.components \in Seq(Part) BY <1>4, ParameterType
  <2> QED BY <1>12, <2>2, <2>3, LenProperties
<1>14. ASSUME NEW i \in DOMAIN d.fields
       PROVE  d.fields[i].type \in m[p.components[i]] /\ KeepsItsName(d, i, p.components[i])
  <2>1. PICK component \in Parameter : component = p.components[i]
    BY <1>4, <1>13, ComponentType
  <2>2. Stands(namesByKey, d.fields[i].type, component) /\ KeepsItsName(d, i, component)
    BY <1>12, <2>1 DEF Fits
  <2>3. depth[component] < n /\ depth[component] \in Nat /\ n \in Nat
    BY <1>3, <1>4, <1>13, <2>1 DEF IsDepth
  <2>4. depth[component] \notin T BY <1>2, <2>3
  <2>5. component \notin Astray BY <2>4 DEF T
  <2> QED BY <2>1, <2>2, <2>5
<1>15. t \in Meaning(m, p) BY <1>6, <1>12, <1>14 DEF Meaning
<1> QED BY <1>4, <1>5, <1>15

\* The structs of a generated file mean the tuples of its ABI, whatever the
\* tuples are named and however they are nested: no name is declared twice or
\* is a name of the file itself, and every type stands for what the ABI says.
THEOREM StructsAlwaysMean ==
  ASSUME StringFacts, NEW depth, IsDepth(depth)
  PROVE  ImportsSpec => []StructsMeanTheirTuples
<1>1. ASSUME ImportsInv PROVE StructsMeanTheirTuples
  <2>1. PICK m : MeaningsOf(m, Parameter) BY <1>1, MeaningsExist DEF ImportsInv
  <2>2. MeaningsOf(Meanings, Parameter)
    BY <2>1, Zenon DEF MeaningsOf, Meanings, Meaning, Parameter
  <2>3. \A k, l \in DOMAIN definitions : definitions[k].name = definitions[l].name => k = l
    BY <1>1 DEF ImportsInv, StructsFit
  <2>4. ASSUME NEW d \in ToSet(definitions)
        PROVE  /\ d.name \notin HelperName \cup ReservedIdentifier
               /\ \A k, l \in DOMAIN d.fields : d.fields[k].name = d.fields[l].name => k = l
    <3>1. PICK pair \in namesByKey : DeclaredAs(d, pair)
      BY <1>1 DEF ToSet, ImportsInv, StructsFit
    <3>2. d.name \notin HelperName \cup ReservedIdentifier
      BY <1>1, <3>1 DEF ImportsInv, NamesDiffer, DeclaredAs
    <3>3. \A k, l \in DOMAIN d.fields : d.fields[k].name = d.fields[l].name => k = l
      BY <3>1 DEF DeclaredAs, Fits
    <3> QED BY <3>2, <3>3
  <2>5. ASSUME open = <<>>, NEW s \in ToSet(signatures)
        PROVE  s.type \in Meanings[s.param]
    <3>1. PICK i \in DOMAIN signatures : s = signatures[i] BY DEF ToSet
    <3>2. s \in Signature
      BY <1>1, <3>1, LenProperties, ElementOfSeq DEF ImportsInv, ImportsTypeOK
    <3>3. Stands(namesByKey, s.type, s.param) BY <1>1, <3>1 DEF ImportsInv, SignaturesStand
    <3>4. PICK param \in Parameter : param = s.param BY <3>2 DEF Signature
    <3>5. PICK type : type = s.type OBVIOUS
    <3>6. Stands(namesByKey, type, param) BY <3>3, <3>4, <3>5
    <3>7. type \in Meanings[param] BY <1>1, <2>2, <2>5, <3>6, WhatStandsMeans
    <3> QED BY <3>4, <3>5, <3>7
  <2> QED BY <2>3, <2>4, <2>5 DEF StructsMeanTheirTuples
<1>2. ImportsSpec => []ImportsInv BY ImportsInvHolds
<1> QED BY <1>1, <1>2, PTL
=============================================================================
