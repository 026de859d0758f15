--------------------------- MODULE InstallProofs ----------------------------
(***************************************************************************)
(* Theorems about Install, for any libraries, runs, command lines and      *)
(* number of versions.                                                     *)
(*                                                                         *)
(* What a request has read cannot be taken back, because the registry only *)
(* appends; so what a task knows stays true whatever owners and other      *)
(* requests do, and the artifacts and the manifest inherit it.  The parts  *)
(* of the invariant are therefore constant operators of the history, the   *)
(* stored CIDs and the artifacts, with a lemma each that they survive when *)
(* those three grow.                                                       *)
(***************************************************************************)
EXTENDS Install, FiniteSetTheorems, TLAPS

\* s combines the CID and the address of two versions of a history, each no
\* older than the one before; of one and the same, if exact.
ReadFrom(history, s, exact) ==
  \E i, j \in 1..Len(history) :
    /\ s.version < i /\ i <= j
    /\ history[i].uri = s.uri /\ history[j].address = s.address
    /\ exact => i = s.version + 1 /\ j = i

\* What a task for the request q has read, and what it has written.
TaskIsRight(lg, st, art, t, q) ==
  /\ q.version # Latest => t.version = q.version
  /\ t.at = "count" => q.version = Latest
  /\ t.at \notin {"count", "failed"} => t.version \in Version
  /\ t.at = "uri" /\ q.version = Latest => t.version < Len(lg[q.library])
  /\ t.at = "address" =>
       \E k \in 1..Len(lg[q.library]) :
         /\ t.version < k /\ lg[q.library][k].uri = t.uri
         /\ q.version # Latest => k = t.version + 1
  /\ t.at \in {"fetch", "saved"} => /\ t.address \in Address
                                    /\ ReadFrom(lg[q.library], t, q.version # Latest)
  /\ t.at = "saved" => /\ art[q.library][t.version] # Nothing
                       /\ t.uri \in st

ArtifactIsRight(lg, l, v, a) ==
  a # Nothing => a.version = v /\ ReadFrom(lg[l], a, FALSE)

\* A cdm.json names what is installed, and pins exactly.
ManifestIsRight(lg, st, art, m) ==
  \A l \in Library :
    /\ m.contracts[l] # Nothing =>
         /\ art[l][m.contracts[l].version] # Nothing
         /\ m.contracts[l].uri \in st
    /\ m.dependencies[l] \in Version =>
         /\ m.contracts[l].version = m.dependencies[l]
         /\ ReadFrom(lg[l], m.contracts[l], TRUE)

TasksAreRight ==
  \A r \in Run : \A i \in DOMAIN toInstall[r] :
    TaskIsRight(log, stored, artifacts, task[r][i], toInstall[r][i])
ArtifactsAreRight ==
  \A l \in Library, v \in Version : ArtifactIsRight(log, l, v, artifacts[l][v])

IInv == TypeOK /\ TasksAreRight /\ ArtifactsAreRight

\* No command line names a library twice; then no run does, for cdm.json
\* names each of its libraries once.
Distinct(requests) ==
  \A i, j \in DOMAIN requests : requests[i].library = requests[j].library => i = j
UniqueArguments  == \A r \in Run : Distinct(Arguments[r])
DistinctRequests == \A r \in Run : Distinct(toInstall[r])

ManifestsAreRight ==
  /\ ManifestIsRight(log, stored, artifacts, manifest)
  /\ \A r \in Run : ManifestIsRight(log, stored, artifacts, copy[r])

MInv == IInv /\ DistinctRequests /\ ManifestsAreRight

\* Of any two runs, one waits for the other.
Sequential == \A r, q \in Run : q = r \/ q \in After[r] \/ r \in After[q]

OneAtATime ==
  \A r \in Run : pc[r] # "idle" => \A q \in After[r] : pc[q] \in {"ended", "crashed"}
CopyIsCurrent == \A r \in Run : pc[r] = "installing" => copy[r] = manifest

SInv == TypeOK /\ OneAtATime /\ CopyIsCurrent
-----------------------------------------------------------------------------
(* What has been read stays read. *)

Grows(lg, lg2, st, st2, art, art2) ==
  /\ lg \in [Library -> Seq(Entry)] /\ lg2 \in [Library -> Seq(Entry)]
  /\ \A l \in Library : /\ Len(lg[l]) <= Len(lg2[l])
                        /\ \A k \in 1..Len(lg[l]) : lg2[l][k] = lg[l][k]
  /\ st \subseteq st2
  /\ \A l \in Library, v \in Version : art[l][v] # Nothing => art2[l][v] # Nothing

LEMMA ReadStays ==
  ASSUME NEW h1 \in Seq(Entry), NEW h2 \in Seq(Entry), Len(h1) <= Len(h2),
         \A k \in 1..Len(h1) : h2[k] = h1[k],
         NEW s, NEW exact \in BOOLEAN, ReadFrom(h1, s, exact)
  PROVE  ReadFrom(h2, s, exact)
<1>1. PICK i, j \in 1..Len(h1) :
        /\ s.version < i /\ i <= j
        /\ h1[i].uri = s.uri /\ h1[j].address = s.address
        /\ exact => i = s.version + 1 /\ j = i
  BY DEF ReadFrom
<1>2. i \in 1..Len(h2) /\ j \in 1..Len(h2)
  OBVIOUS
<1>3. h2[i].uri = s.uri /\ h2[j].address = s.address
  BY <1>1
<1> QED
  BY <1>1, <1>2, <1>3 DEF ReadFrom

LEMMA TaskStays ==
  ASSUME NEW lg, NEW lg2, NEW st, NEW st2, NEW art, NEW art2,
         Grows(lg, lg2, st, st2, art, art2),
         NEW t, NEW q \in Request, TaskIsRight(lg, st, art, t, q)
  PROVE  TaskIsRight(lg2, st2, art2, t, q)
<1> DEFINE l == q.library
           h1 == lg[q.library]
           h2 == lg2[q.library]
<1>1. /\ l \in Library /\ h1 \in Seq(Entry) /\ h2 \in Seq(Entry)
      /\ Len(h1) <= Len(h2) /\ \A k \in 1..Len(h1) : h2[k] = h1[k]
  BY DEF Grows, Request
<1>2. ASSUME t.at \in {"fetch", "saved"}
      PROVE  t.address \in Address /\ ReadFrom(h2, t, q.version # Latest)
  <2>1. t.address \in Address /\ ReadFrom(h1, t, q.version # Latest)
    BY <1>2 DEF TaskIsRight
  <2> HIDE DEF h1, h2
  <2> QED
    BY <2>1, <1>1, ReadStays
<1>3. ASSUME t.at = "address"
      PROVE  \E k \in 1..Len(h2) : /\ t.version < k /\ h2[k].uri = t.uri
                                   /\ q.version # Latest => k = t.version + 1
  <2>1. PICK k \in 1..Len(h1) : /\ t.version < k /\ h1[k].uri = t.uri
                                /\ q.version # Latest => k = t.version + 1
    BY <1>3 DEF TaskIsRight
  <2>2. k \in 1..Len(h2) /\ h2[k] = h1[k]
    BY <1>1
  <2> QED
    BY <2>1, <2>2
<1>4. ASSUME t.at = "uri", q.version = Latest
      PROVE  t.version < Len(h2)
  <2>1. t.version < Len(h1) /\ t.version \in Version
    BY <1>4 DEF TaskIsRight
  <2> QED
    BY <2>1, <1>1, BoundAssumption DEF Version
<1>5. t.at = "saved" => art2[l][t.version] # Nothing /\ t.uri \in st2
  BY <1>1 DEF TaskIsRight, Grows
<1> QED
  BY <1>2, <1>3, <1>4, <1>5 DEF TaskIsRight

LEMMA ArtifactStays ==
  ASSUME NEW lg, NEW lg2, NEW st, NEW st2, NEW art, NEW art2,
         Grows(lg, lg2, st, st2, art, art2),
         NEW l \in Library, NEW v, NEW a, ArtifactIsRight(lg, l, v, a)
  PROVE  ArtifactIsRight(lg2, l, v, a)
BY ReadStays DEF ArtifactIsRight, Grows

LEMMA ManifestStays ==
  ASSUME NEW lg, NEW lg2, NEW st, NEW st2, NEW art, NEW art2,
         Grows(lg, lg2, st, st2, art, art2),
         NEW m \in ManifestType, ManifestIsRight(lg, st, art, m)
  PROVE  ManifestIsRight(lg2, st2, art2, m)
<1> SUFFICES ASSUME NEW l \in Library
             PROVE  /\ m.contracts[l] # Nothing =>
                         /\ art2[l][m.contracts[l].version] # Nothing
                         /\ m.contracts[l].uri \in st2
                    /\ m.dependencies[l] \in Version =>
                         /\ m.contracts[l].version = m.dependencies[l]
                         /\ ReadFrom(lg2[l], m.contracts[l], TRUE)
  BY DEF ManifestIsRight
<1>1. m.contracts[l] # Nothing => m.contracts[l].version \in Version
  BY DEF ManifestType, SnapshotType
<1>2. ASSUME m.dependencies[l] \in Version PROVE ReadFrom(lg2[l], m.contracts[l], TRUE)
  BY <1>2, ReadStays DEF ManifestIsRight, Grows
<1> QED
  BY <1>1, <1>2 DEF ManifestIsRight, Grows
-----------------------------------------------------------------------------
(* Types. *)

LEMMA DependenciesAreRequests ==
  ASSUME TypeOK
  PROVE  /\ Cardinality(Dependencies) \in Nat
         /\ Dependencies \subseteq Request
<1> DEFINE Listed == {l \in Library : manifest.dependencies[l] # Absent}
           f == [l \in Listed |-> [library |-> l, version |-> manifest.dependencies[l]]]
<1>1. IsFiniteSet(Listed)
  BY FS_Subset, LibraryAssumption
<1>2. f \in Surjection(Listed, Dependencies)
  BY DEF Dependencies, Surjection
<1>3. IsFiniteSet(Dependencies)
  BY <1>1, <1>2, FS_Surjection
<1>4. Dependencies \subseteq Request
  BY DEF Dependencies, Request, TypeOK, ManifestType
<1> QED
  BY <1>3, <1>4, FS_CardinalityType

LEMMA StartTypes ==
  ASSUME TypeOK, NEW r \in Run, Start(r)
  PROVE  /\ toInstall' \in [Run -> Seq(Request)]
         /\ task' = [task EXCEPT ![r] = [i \in DOMAIN toInstall'[r] |-> NewTask(toInstall'[r][i])]]
         /\ \/ toInstall'[r] = Arguments[r]
            \/ toInstall'[r] \in Bijection(1..Cardinality(Dependencies), Dependencies)
         /\ \A q \in Run : q # r => toInstall'[q] = toInstall[q]
<1>1. PICK requests \in IF Arguments[r] # <<>> THEN {Arguments[r]}
                        ELSE Bijection(1..Cardinality(Dependencies), Dependencies) :
        /\ toInstall' = [toInstall EXCEPT ![r] = requests]
        /\ task' = [task EXCEPT ![r] = [i \in DOMAIN requests |-> NewTask(requests[i])]]
  BY DEF Start
<1>2. requests \in Seq(Request)
  <2>1. CASE requests = Arguments[r]
    BY <2>1, RunsAssumption
  <2>2. CASE requests \in Bijection(1..Cardinality(Dependencies), Dependencies)
    BY <2>2, DependenciesAreRequests DEF Bijection, Injection
  <2> QED
    BY <2>1, <2>2
<1> QED
  BY <1>1, <1>2 DEF TypeOK

\* The interval up to the least element is the one that contains no other.
LEMMA LeastElement ==
  ASSUME NEW S \in SUBSET Nat, S # {}
  PROVE  \E i \in S : \A j \in S : i <= j
<1> DEFINE Intervals == {0..i : i \in S}
<1>1. \A i \in S : i \in Nat /\ 0..i \in SUBSET Nat /\ IsFiniteSet(0..i)
  BY FS_Interval
<1>2. Intervals \subseteq FiniteSubsetsOf(Nat) /\ Intervals # {}
  BY <1>1 DEF FiniteSubsetsOf
<1>3. PICK I \in Intervals : \A J \in Intervals : ~ (<<J, I>> \in StrictSubsetOrdering(Nat))
  <2> HIDE DEF Intervals
  <2> QED
    BY <1>2, FS_StrictSubsetOrderingWellFounded, WFMin
<1>4. PICK i \in S : I = 0..i
  BY <1>3
<1>5. ASSUME NEW j \in S, j < i PROVE FALSE
  <2>1. 0..j \subseteq 0..i /\ i \in 0..i /\ i \notin 0..j
    BY <1>1, <1>5
  <2>2. <<0..j, 0..i>> \in StrictSubsetOrdering(Nat)
    BY <1>1, <2>1 DEF StrictSubsetOrdering
  <2> QED
    BY <1>3, <1>4, <2>2
<1> QED
  BY <1>1, <1>5

LEMMA FirstAndLast ==
  ASSUME NEW n \in Nat, NEW S \in SUBSET (1..n), S # {}
  PROVE  First(S) \in S /\ Last(S) \in S
<1>0. S \in SUBSET Nat
  <2>1. \A i \in 1..n : i \in Nat
    OBVIOUS
  <2>2. S \subseteq 1..n
    OBVIOUS
  <2> QED
    BY <2>1, <2>2
<1>1. \E i \in S : \A j \in S : i <= j
  BY <1>0, LeastElement
<1>2. \E i \in S : \A j \in S : i >= j
  <2> DEFINE T == {n - i : i \in S}
  <2>1. T \in SUBSET Nat /\ T # {}
    <3>1. \A i \in 1..n : n - i \in Nat
      OBVIOUS
    <3> QED
      BY <3>1
  <2>2. PICK k \in T : \A m \in T : k <= m
    <3> HIDE DEF T
    <3> QED
      BY <2>1, LeastElement
  <2>3. PICK i \in S : k = n - i
    BY <2>2
  <2>4. \A j \in S : i >= j
    BY <2>2, <2>3
  <2> QED
    BY <2>3, <2>4
<1> QED
  BY <1>1, <1>2 DEF First, Last

LEMMA RequestFacts ==
  ASSUME TypeOK, NEW r \in Run, NEW i \in Requests(r)
  PROVE  /\ task[r][i] \in TaskType /\ toInstall[r][i] \in Request
         /\ toInstall[r][i].library \in Library
         /\ i \in DOMAIN toInstall[r] /\ i \in 1..Len(toInstall[r])
         /\ DOMAIN task = Run /\ i \in DOMAIN task[r]
<1>1. toInstall[r] \in Seq(Request) /\ task[r] \in [DOMAIN toInstall[r] -> TaskType]
  BY DEF TypeOK
<1>2. i \in DOMAIN toInstall[r] /\ i \in 1..Len(toInstall[r])
  BY <1>1 DEF Requests
<1>3. toInstall[r][i] \in Request
  BY <1>1, <1>2
<1> QED
  BY <1>1, <1>2, <1>3 DEF Request, TypeOK

LEMMA TypeStep == IInv /\ [Next]_vars => TypeOK'
<1> SUFFICES ASSUME IInv, [Next]_vars PROVE TypeOK'
  OBVIOUS
<1> USE DEF IInv
<1>1. ASSUME NEW l \in Library, Publish(l) PROVE TypeOK'
  <2>1. PICK uri \in {<<l, Len(log[l])>>, EmptyUri} :
          log' = [log EXCEPT ![l] = Append(@, [address |-> <<l, Len(log[l])>>, uri |-> uri])]
    BY <1>1 DEF Publish
  <2>2. Len(log[l]) \in Version
    BY <1>1, BoundAssumption DEF Publish, TypeOK, Version
  <2>3. [address |-> <<l, Len(log[l])>>, uri |-> uri] \in Entry
    BY <2>2 DEF Entry, Address, Cid
  <2>4. log' \in [Library -> Seq(Entry)] /\ \A k \in Library : Len(log'[k]) <= MaxVersions
    BY <1>1, <2>1, <2>3, BoundAssumption DEF Publish, TypeOK
  <2> QED
    BY <1>1, <2>4 DEF Publish, TypeOK, project
<1>2. ASSUME NEW l \in Library, NEW v \in Version, Store(<<l, v>>) PROVE TypeOK'
  BY <1>2 DEF Store, TypeOK, project
<1>3. ASSUME NEW r \in Run, Start(r) PROVE TypeOK'
  <2>1. \A q \in Request : NewTask(q) \in TaskType
    BY DEF NewTask, TaskType, Request, Cid
  <2>2. pc' \in [Run -> {"idle", "installing", "ended", "crashed"}]
    BY <1>3 DEF Start, TypeOK
  <2>3. copy' \in [Run -> ManifestType]
    BY <1>3 DEF Start, TypeOK
  <2>4. /\ DOMAIN task' = Run
        /\ \A q \in Run : task'[q] \in [DOMAIN toInstall'[q] -> TaskType]
    <3>1. /\ DOMAIN task' = Run
          /\ \A q \in Run : q # r => task'[q] = task[q] /\ toInstall'[q] = toInstall[q]
      BY <1>3, StartTypes DEF TypeOK
    <3>2. task'[r] = [i \in DOMAIN toInstall'[r] |-> NewTask(toInstall'[r][i])]
      BY <1>3, StartTypes DEF TypeOK
    <3>3. \A i \in DOMAIN toInstall'[r] : toInstall'[r][i] \in Request
      BY <1>3, StartTypes
    <3>4. task'[r] \in [DOMAIN toInstall'[r] -> TaskType]
      BY <2>1, <3>2, <3>3
    <3> QED
      BY <3>1, <3>4 DEF TypeOK
  <2> QED
    BY <1>3, <2>2, <2>3, <2>4, StartTypes DEF Start, TypeOK, project
<1>4. ASSUME NEW r \in Run, NEW i \in Requests(r), Step(r, i) PROVE TypeOK'
  <2> DEFINE t == task[r][i]
             q == toInstall[r][i]
  <2>0. /\ t \in TaskType /\ q \in Request /\ q.library \in Library
        /\ i \in DOMAIN toInstall[r] /\ i \in 1..Len(toInstall[r])
    BY RequestFacts
  <2>1. ASSUME NEW u \in TaskType, task' = [task EXCEPT ![r][i] = u],
               UNCHANGED <<log, stored, manifest, pc, copy, toInstall>>,
               artifacts' \in [Library -> [Version -> SnapshotType \cup {Nothing}]],
               latestLink' \in [Library -> Version \cup {Absent}]
        PROVE  TypeOK'
    BY <2>0, <2>1 DEF TypeOK
  <2>2. ASSUME NEW u \in TaskType, task' = [task EXCEPT ![r][i] = u],
               UNCHANGED <<log, stored, project, pc, copy, toInstall>>
        PROVE  TypeOK'
    BY <2>1, <2>2 DEF TypeOK, project
  <2>3. [t EXCEPT !.at = "failed"] \in TaskType
    BY <2>0 DEF TaskType
  <2>4. CASE QueryVersionCount(r, i)
    <3>1. CASE log[LibraryOf(r, i)] = <<>>
      BY <2>4, <3>1, <2>2, <2>3 DEF QueryVersionCount
    <3>2. CASE log[LibraryOf(r, i)] # <<>>
      <4>1. Newest(LibraryOf(r, i)) \in Version
        BY <2>0, <3>2, BoundAssumption DEF TypeOK, Newest, LibraryOf, Version
      <4>2. [t EXCEPT !.at = "uri", !.version = Newest(LibraryOf(r, i))] \in TaskType
        BY <2>0, <4>1 DEF TaskType, Requested
      <4> QED
        BY <2>4, <3>2, <4>2, <2>2 DEF QueryVersionCount
    <3> QED
      BY <3>1, <3>2
  <2>5. CASE QueryMetadataUri(r, i)
    <3>1. CASE Exists(q.library, Asked(q)) /\ Answer(q).uri # EmptyUri
      <4>0. t.at = "uri" /\ TaskIsRight(log, stored, artifacts, t, q)
        BY <2>5, <2>0 DEF TasksAreRight, QueryMetadataUri, At
      <4>1. Answer(q) \in Entry
        <5>0. log[q.library] \in Seq(Entry) /\ q.version \in Requested
          BY <2>0 DEF TypeOK, Request
        <5>1. Asked(q) \in Nat /\ Asked(q) + 1 <= Len(log[q.library])
          <6>1. CASE q.version = Latest
            <7>1. t.version \in Version /\ t.version < Len(log[q.library])
              BY <4>0, <6>1 DEF TaskIsRight
            <7> QED
              BY <5>0, <6>1, <7>1, BoundAssumption DEF Asked, Newest, Version
          <6>2. CASE q.version # Latest
            BY <5>0, <3>1, <6>2, BoundAssumption DEF Asked, Exists, Requested, Version
          <6> QED
            BY <6>1, <6>2
        <5> QED
          BY <5>0, <5>1 DEF Answer
      <4>2. [t EXCEPT !.at = "address", !.uri = Answer(q).uri] \in TaskType
        BY <2>0, <4>1 DEF TaskType, Entry
      <4> QED
        BY <2>5, <3>1, <4>2, <2>2 DEF QueryMetadataUri
    <3>2. CASE ~(Exists(q.library, Asked(q)) /\ Answer(q).uri # EmptyUri)
      BY <2>5, <3>2, <2>2, <2>3 DEF QueryMetadataUri
    <3> QED
      BY <3>1, <3>2
  <2>6. CASE QueryAddress(r, i)
    <3>1. Answer(q) \in Entry
      <4>1. TaskIsRight(log, stored, artifacts, t, q) /\ t.at = "address"
        BY <2>6, <2>0 DEF TasksAreRight, QueryAddress, At
      <4>2. Len(log[q.library]) > 0 /\ (q.version # Latest => q.version < Len(log[q.library]))
        BY <2>0, <4>1 DEF TaskIsRight, TypeOK, Request, Requested, Version
      <4> QED
        BY <2>0, <4>2, BoundAssumption
           DEF TypeOK, Asked, Answer, Newest, Request, Requested, Version, Latest
    <3>2. [t EXCEPT !.at = "fetch", !.address = Answer(q).address] \in TaskType
      BY <2>0, <3>1 DEF TaskType, Entry
    <3> QED
      BY <2>6, <3>2, <2>2 DEF QueryAddress
  <2>7. CASE FetchAndSave(r, i)
    <3>1. /\ t.version \in Version /\ t.address \in Address
      BY <2>7, <2>0 DEF TasksAreRight, TaskIsRight, FetchAndSave, At
    <3>2. Snapshot(t) \in SnapshotType
      BY <2>0, <3>1 DEF Snapshot, SnapshotType, TaskType
    <3>3. /\ artifacts' \in [Library -> [Version -> SnapshotType \cup {Nothing}]]
          /\ latestLink' \in [Library -> Version \cup {Absent}]
      BY <2>7, <2>0, <3>1, <3>2 DEF FetchAndSave, TypeOK, LibraryOf
    <3>4. [t EXCEPT !.at = "saved"] \in TaskType
      BY <2>0 DEF TaskType
    <3> QED
      BY <2>7, <3>3, <3>4, <2>1 DEF FetchAndSave
  <2>8. CASE FetchFails(r, i) \/ StepFails(r, i)
    BY <2>8, <2>2, <2>3 DEF FetchFails, StepFails
  <2> QED
    BY <1>4, <2>4, <2>5, <2>6, <2>7, <2>8 DEF Step
<1>5. ASSUME NEW r \in Run, WriteManifest(r) PROVE TypeOK'
  <2>0. /\ toInstall[r] \in Seq(Request) /\ task[r] \in [DOMAIN toInstall[r] -> TaskType]
        /\ DOMAIN task[r] = 1..Len(toInstall[r]) /\ Len(toInstall[r]) \in Nat
    BY DEF TypeOK
  <2>1. ASSUME NEW l \in Library, Saved(r, l) # {}
        PROVE  /\ toInstall[r][First(Named(r, l))].version \in Requested
               /\ Snapshot(task[r][Last(Saved(r, l))]) \in SnapshotType
    <3>1. /\ First(Named(r, l)) \in Named(r, l)
          /\ Last(Saved(r, l)) \in Saved(r, l)
      <4>1. /\ Named(r, l) \in SUBSET (1..Len(toInstall[r])) /\ Named(r, l) # {}
            /\ Saved(r, l) \in SUBSET (1..Len(toInstall[r]))
        BY <2>0, <2>1 DEF Named, Saved
      <4> QED
        BY <2>0, <2>1, <4>1, FirstAndLast
    <3>2. toInstall[r][First(Named(r, l))] \in Request
      <4>1. First(Named(r, l)) \in 1..Len(toInstall[r])
        BY <2>0, <3>1 DEF Named
      <4> QED
        BY <2>0, <4>1
    <3> DEFINE t == task[r][Last(Saved(r, l))]
    <3>3. t \in TaskType /\ t.at = "saved" /\ Last(Saved(r, l)) \in DOMAIN toInstall[r]
      BY <2>0, <3>1 DEF Saved
    <3>4. t.version \in Version /\ t.address \in Address
      BY <3>3 DEF TasksAreRight, TaskIsRight
    <3>5. Snapshot(t) \in SnapshotType
      <4> HIDE DEF t
      <4> QED
        BY <3>3, <3>4 DEF Snapshot, SnapshotType, TaskType
    <3>6. toInstall[r][First(Named(r, l))].version \in Requested
      BY <3>2 DEF Request
    <3> QED
      BY <3>5, <3>6
  <2> QED
    BY <1>5, <2>1 DEF WriteManifest, TypeOK, ManifestType, OldDependency, OldContract
<1>6. ASSUME NEW r \in Run, Crash(r) PROVE TypeOK'
  BY <1>6 DEF Crash, TypeOK, project
<1>7. ASSUME UNCHANGED vars PROVE TypeOK'
  BY <1>7 DEF vars, TypeOK
<1> QED
  BY <1>1, <1>2, <1>3, <1>4, <1>5, <1>6, <1>7 DEF Next, Owners, RunStep
-----------------------------------------------------------------------------
(* Tasks and artifacts. *)

LEMMA StepGrows ==
  IInv /\ [Next]_vars => Grows(log, log', stored, stored', artifacts, artifacts')
<1> SUFFICES ASSUME IInv, [Next]_vars
             PROVE  Grows(log, log', stored, stored', artifacts, artifacts')
  OBVIOUS
<1> USE DEF IInv
<1>0. TypeOK'
  BY TypeStep
<1>1. ASSUME UNCHANGED <<log, stored, artifacts>>
      PROVE  Grows(log, log', stored, stored', artifacts, artifacts')
  BY <1>1 DEF Grows, TypeOK
<1>2. ASSUME NEW l \in Library, Publish(l)
      PROVE  Grows(log, log', stored, stored', artifacts, artifacts')
  <2>1. PICK e : log' = [log EXCEPT ![l] = Append(@, e)]
    BY <1>2 DEF Publish
  <2>2. \A k \in Library : /\ Len(log[k]) <= Len(log'[k])
                           /\ \A n \in 1..Len(log[k]) : log'[k][n] = log[k][n]
    BY <1>0, <2>1 DEF TypeOK
  <2> QED
    BY <1>0, <1>2, <2>2 DEF Grows, Publish, TypeOK, project
<1>3. ASSUME NEW l \in Library, NEW v \in Version, Store(<<l, v>>)
      PROVE  Grows(log, log', stored, stored', artifacts, artifacts')
  BY <1>3 DEF Grows, Store, TypeOK, project
<1>4. ASSUME NEW r \in Run, NEW i \in Requests(r), FetchAndSave(r, i)
      PROVE  Grows(log, log', stored, stored', artifacts, artifacts')
  <2>1. task[r][i].version \in Version
    <3>1. i \in DOMAIN toInstall[r]
      BY DEF TypeOK, Requests
    <3> QED
      BY <1>4, <3>1 DEF TasksAreRight, TaskIsRight, FetchAndSave, At
  <2>2. Snapshot(task[r][i]) # Nothing
    BY <2>1, BoundAssumption DEF Snapshot, Nothing, Absent, Version
  <2>3. \A l \in Library, v \in Version : artifacts[l][v] # Nothing => artifacts'[l][v] # Nothing
    BY <1>4, <2>1, <2>2 DEF FetchAndSave, TypeOK
  <2> QED
    BY <1>4, <2>3 DEF Grows, FetchAndSave, TypeOK
<1>5. ASSUME NEW r \in Run, Start(r) \/ WriteManifest(r) \/ Crash(r)
      PROVE  UNCHANGED <<log, stored, artifacts>>
  BY <1>5 DEF Start, WriteManifest, Crash, project
<1>6. ASSUME NEW r \in Run, NEW i \in Requests(r), Step(r, i), ~FetchAndSave(r, i)
      PROVE  UNCHANGED <<log, stored, artifacts>>
  BY <1>6 DEF Step, QueryVersionCount, QueryMetadataUri, QueryAddress, FetchFails, StepFails,
              project
<1>7. CASE UNCHANGED vars
  BY <1>1, <1>7 DEF vars
<1> QED
  BY <1>1, <1>2, <1>3, <1>4, <1>5, <1>6, <1>7 DEF Next, Owners, RunStep

\* The tasks that a step leaves alone stay right.
LEMMA OtherTasks ==
  ASSUME IInv, [Next]_vars, NEW r \in Run, NEW i \in DOMAIN toInstall[r],
         task'[r][i] = task[r][i], toInstall'[r][i] = toInstall[r][i]
  PROVE  TaskIsRight(log', stored', artifacts', task'[r][i], toInstall'[r][i])
<1>1. Grows(log, log', stored, stored', artifacts, artifacts')
  BY StepGrows
<1>2. toInstall[r][i] \in Request
  BY DEF IInv, TypeOK
<1>3. TaskIsRight(log, stored, artifacts, task[r][i], toInstall[r][i])
  BY DEF IInv, TasksAreRight
<1>4. TaskIsRight(log', stored', artifacts', task[r][i], toInstall[r][i])
  BY <1>1, <1>2, <1>3, TaskStays
<1> QED
  BY <1>4

\* A request's own step keeps its task right.
LEMMA OwnStep ==
  ASSUME IInv, [Next]_vars, NEW r \in Run, NEW i \in Requests(r), Step(r, i)
  PROVE  TaskIsRight(log', stored', artifacts', task'[r][i], toInstall'[r][i])
<1> DEFINE t == task[r][i]
           q == toInstall[r][i]
           l == q.library
<1>0. /\ i \in DOMAIN toInstall[r] /\ DOMAIN task = Run /\ i \in DOMAIN task[r]
      /\ t \in TaskType /\ q \in Request /\ l \in Library
      /\ TaskIsRight(log, stored, artifacts, t, q)
      /\ log[l] \in Seq(Entry) /\ Len(log[l]) <= MaxVersions
      /\ toInstall' = toInstall
  BY RequestFacts
     DEF IInv, TypeOK, TasksAreRight, Step, QueryVersionCount, QueryMetadataUri,
         QueryAddress, FetchAndSave, FetchFails, StepFails
<1> HIDE DEF t, q, l
<1>6. ASSUME task' = [task EXCEPT ![r][i].at = "failed"]
      PROVE  TaskIsRight(log', stored', artifacts', task'[r][i], toInstall'[r][i])
  <2>1. task'[r][i] = [t EXCEPT !.at = "failed"]
    BY <1>0, <1>6 DEF t
  <2>2. /\ task'[r][i].at = "failed" /\ task'[r][i].version = t.version
    BY <1>0, <2>1 DEF TaskType
  <2> QED
    BY <1>0, <2>2 DEF TaskIsRight, q
<1>1. CASE QueryVersionCount(r, i)
  <2>1. t.at = "count" /\ q.version = Latest
    BY <1>0, <1>1 DEF QueryVersionCount, At, TaskIsRight, t
  <2>2. CASE log[l] = <<>>
    BY <1>1, <1>6, <2>2 DEF QueryVersionCount, LibraryOf, l, q
  <2>3. CASE log[l] # <<>>
    <3>1. task'[r][i] = [t EXCEPT !.at = "uri", !.version = Newest(l)]
      BY <1>0, <1>1, <2>3 DEF QueryVersionCount, LibraryOf, l, q, t
    <3>2. task'[r][i].at = "uri" /\ task'[r][i].version = Newest(l)
      BY <1>0, <3>1 DEF TaskType
    <3>3. Newest(l) \in Version /\ Newest(l) < Len(log[l])
      BY <1>0, <2>3, BoundAssumption DEF Newest, Version
    <3> QED
      BY <1>0, <1>1, <2>1, <3>2, <3>3 DEF QueryVersionCount, TaskIsRight, l, q
  <2> QED
    BY <2>2, <2>3
<1>2. CASE QueryMetadataUri(r, i)
  <2>1. t.at = "uri" /\ t.version \in Version
    BY <1>0, <1>2 DEF QueryMetadataUri, At, TaskIsRight, t
  <2>2. CASE Exists(l, Asked(q)) /\ Answer(q).uri # EmptyUri
    <3>1. task'[r][i] = [t EXCEPT !.at = "address", !.uri = Answer(q).uri]
      BY <1>0, <1>2, <2>2 DEF QueryMetadataUri, l, q, t
    <3>2. /\ task'[r][i].at = "address" /\ task'[r][i].version = t.version
          /\ task'[r][i].uri = log[l][Asked(q) + 1].uri
      BY <1>0, <3>1 DEF TaskType, Answer, l
    <3>3. /\ Asked(q) + 1 \in 1..Len(log[l]) /\ t.version < Asked(q) + 1
          /\ q.version # Latest => t.version = q.version /\ Asked(q) = q.version
      <4>1. CASE q.version = Latest
        BY <1>0, <2>1, <4>1, BoundAssumption DEF Asked, Newest, Version, TaskIsRight, l
      <4>2. CASE q.version # Latest
        BY <1>0, <2>1, <2>2, <4>2, BoundAssumption DEF Asked, Exists, Version, TaskIsRight, l
      <4> QED
        BY <4>1, <4>2
    <3> QED
      BY <1>0, <1>2, <2>1, <3>2, <3>3 DEF QueryMetadataUri, TaskIsRight, l, q
  <2>3. CASE ~(Exists(l, Asked(q)) /\ Answer(q).uri # EmptyUri)
    BY <1>2, <1>6, <2>3 DEF QueryMetadataUri, l, q
  <2> QED
    BY <2>2, <2>3
<1>3. CASE QueryAddress(r, i)
  <2>1. t.at = "address" /\ t.version \in Version
    BY <1>0, <1>3 DEF QueryAddress, At, TaskIsRight, t
  <2>2. PICK k \in 1..Len(log[l]) : /\ t.version < k /\ log[l][k].uri = t.uri
                                    /\ q.version # Latest => k = t.version + 1
    BY <1>0, <2>1 DEF TaskIsRight, l
  <2>3. task'[r][i] = [t EXCEPT !.at = "fetch", !.address = Answer(q).address]
    BY <1>0, <1>3 DEF QueryAddress, q, t
  <2>4. /\ task'[r][i].at = "fetch" /\ task'[r][i].version = t.version
        /\ task'[r][i].uri = t.uri /\ task'[r][i].address = log[l][Asked(q) + 1].address
    BY <1>0, <2>3 DEF TaskType, Answer, l
  <2>5. /\ Asked(q) + 1 \in 1..Len(log[l]) /\ k <= Asked(q) + 1
        /\ q.version # Latest => t.version = q.version /\ Asked(q) + 1 = k
    BY <1>0, <2>1, <2>2, BoundAssumption DEF Asked, Newest, Version, TaskIsRight, l
  <2>6. log[l][Asked(q) + 1].address \in Address
    <3>1. log[l][Asked(q) + 1] \in Entry
      BY <1>0, <2>5
    <3> QED
      BY <3>1 DEF Entry
  <2>7. ReadFrom(log[l], task'[r][i], q.version # Latest)
    BY <2>2, <2>4, <2>5 DEF ReadFrom
  <2> QED
    BY <1>0, <1>3, <2>1, <2>4, <2>5, <2>6, <2>7 DEF QueryAddress, TaskIsRight, l, q
<1>4. CASE FetchAndSave(r, i)
  <2>1. /\ t.at = "fetch" /\ t.version \in Version /\ t.address \in Address
        /\ ReadFrom(log[l], t, q.version # Latest) /\ t.uri \in stored
    BY <1>0, <1>4 DEF FetchAndSave, At, TaskIsRight, t, l
  <2>2. task'[r][i] = [t EXCEPT !.at = "saved"]
    BY <1>0, <1>4 DEF FetchAndSave, t
  <2>3. /\ task'[r][i].at = "saved" /\ task'[r][i].version = t.version
        /\ task'[r][i].uri = t.uri /\ task'[r][i].address = t.address
    BY <1>0, <2>2 DEF TaskType
  <2>4. artifacts'[l][t.version] = Snapshot(t)
    BY <1>0, <1>4, <2>1 DEF FetchAndSave, LibraryOf, IInv, TypeOK, l, q, t
  <2>5. Snapshot(t) # Nothing
    BY <2>1, BoundAssumption DEF Snapshot, Nothing, Absent, Version
  <2>6. ReadFrom(log[l], task'[r][i], q.version # Latest)
    BY <2>1, <2>3 DEF ReadFrom
  <2> QED
    BY <1>0, <1>4, <2>1, <2>3, <2>4, <2>5, <2>6 DEF FetchAndSave, TaskIsRight, l, q
<1>5. CASE FetchFails(r, i) \/ StepFails(r, i)
  BY <1>5, <1>6 DEF FetchFails, StepFails
<1> QED
  BY <1>1, <1>2, <1>3, <1>4, <1>5 DEF Step

LEMMA TasksStep == IInv /\ [Next]_vars => TasksAreRight'
<1> SUFFICES ASSUME IInv, [Next]_vars,
                    NEW r \in Run, NEW i \in DOMAIN toInstall'[r]
             PROVE  TaskIsRight(log', stored', artifacts', task'[r][i], toInstall'[r][i])
  BY DEF TasksAreRight
<1>1. ASSUME Start(r)
      PROVE  TaskIsRight(log', stored', artifacts', task'[r][i], toInstall'[r][i])
  <2> DEFINE q == toInstall'[r][i]
  <2>1. task'[r][i] = NewTask(q) /\ q \in Request
    BY <1>1, StartTypes DEF IInv, TypeOK
  <2> HIDE DEF q
  <2>2. /\ NewTask(q).version = q.version
        /\ NewTask(q).at = IF q.version = Latest THEN "count" ELSE "uri"
    BY DEF NewTask
  <2>3. q.version # Latest => q.version \in Version
    BY <2>1 DEF Request, Requested
  <2>4. TaskIsRight(log', stored', artifacts', NewTask(q), q)
    BY <2>2, <2>3 DEF TaskIsRight
  <2> QED
    BY <2>1, <2>4 DEF q
<1>2. ASSUME i \in Requests(r), Step(r, i)
      PROVE  TaskIsRight(log', stored', artifacts', task'[r][i], toInstall'[r][i])
  BY <1>2, OwnStep
<1> DEFINE LeftAlone == /\ i \in DOMAIN toInstall[r]
                        /\ task'[r][i] = task[r][i] /\ toInstall'[r][i] = toInstall[r][i]
<1>3. ASSUME ~Start(r), ~(i \in Requests(r) /\ Step(r, i)) PROVE LeftAlone
  <2>1. ASSUME NEW s \in Run, s # r, Start(s) PROVE LeftAlone
    BY <2>1, StartTypes DEF IInv, TypeOK
  <2>2. ASSUME NEW s \in Run, NEW j \in Requests(s), Step(s, j), <<s, j>> # <<r, i>>
        PROVE  LeftAlone
    <3>1. toInstall' = toInstall /\ \E u : task' = [task EXCEPT ![s][j] = u]
      BY <2>2 DEF Step, QueryVersionCount, QueryMetadataUri, QueryAddress, FetchAndSave,
                  FetchFails, StepFails
    <3>2. DOMAIN task = Run /\ DOMAIN task[r] = DOMAIN toInstall[r]
      BY DEF IInv, TypeOK
    <3> QED
      BY <2>2, <3>1, <3>2
  <2>3. ASSUME UNCHANGED <<task, toInstall>> PROVE LeftAlone
    BY <2>3
  <2>5. ASSUME NEW s \in Run, WriteManifest(s) \/ Crash(s) PROVE UNCHANGED <<task, toInstall>>
    BY <2>5 DEF WriteManifest, Crash
  <2>6. ASSUME Owners PROVE UNCHANGED <<task, toInstall>>
    BY <2>6 DEF Owners, Publish, Store
  <2> QED
    BY <1>3, <2>1, <2>2, <2>3, <2>5, <2>6 DEF Next, RunStep, vars
<1> QED
  BY <1>1, <1>2, <1>3, OtherTasks

LEMMA ArtifactsStep == IInv /\ [Next]_vars => ArtifactsAreRight'
<1> SUFFICES ASSUME IInv, [Next]_vars, NEW l \in Library, NEW v \in Version
             PROVE  ArtifactIsRight(log', l, v, artifacts'[l][v])
  BY DEF ArtifactsAreRight
<1>1. ASSUME artifacts'[l][v] = artifacts[l][v]
      PROVE  ArtifactIsRight(log', l, v, artifacts'[l][v])
  <2>1. ArtifactIsRight(log', l, v, artifacts[l][v])
    BY StepGrows, ArtifactStays DEF IInv, ArtifactsAreRight
  <2> QED
    BY <1>1, <2>1
<1>2. ASSUME NEW r \in Run, NEW i \in Requests(r), FetchAndSave(r, i)
      PROVE  ArtifactIsRight(log', l, v, artifacts'[l][v])
  <2> DEFINE t == task[r][i]
             q == toInstall[r][i]
  <2>1. /\ t.version \in Version /\ q.library \in Library /\ log' = log
        /\ ReadFrom(log[q.library], t, q.version # Latest)
    BY <1>2, RequestFacts DEF IInv, FetchAndSave, At, TasksAreRight, TaskIsRight
  <2>2. artifacts' = [artifacts EXCEPT ![q.library][t.version] = Snapshot(t)]
    BY <1>2 DEF FetchAndSave, LibraryOf
  <2>3. /\ Snapshot(t).version = t.version /\ Snapshot(t).uri = t.uri
        /\ Snapshot(t).address = t.address
    BY DEF Snapshot
  <2>4. ReadFrom(log[q.library], Snapshot(t), FALSE)
    BY <2>1, <2>3 DEF ReadFrom
  <2>5. CASE l = q.library /\ v = t.version
    BY <2>1, <2>2, <2>3, <2>4, <2>5 DEF IInv, TypeOK, ArtifactIsRight
  <2>6. CASE ~(l = q.library /\ v = t.version)
    BY <1>1, <2>1, <2>2, <2>6 DEF IInv, TypeOK
  <2> QED
    BY <2>5, <2>6
<1>3. ASSUME UNCHANGED artifacts PROVE ArtifactIsRight(log', l, v, artifacts'[l][v])
  BY <1>1, <1>3
<1>4. ASSUME NEW r \in Run, NEW i \in Requests(r), Step(r, i), ~FetchAndSave(r, i)
      PROVE  UNCHANGED artifacts
  BY <1>4 DEF Step, QueryVersionCount, QueryMetadataUri, QueryAddress, FetchFails, StepFails,
              project
<1>5. ASSUME NEW r \in Run, Start(r) \/ WriteManifest(r) \/ Crash(r) PROVE UNCHANGED artifacts
  BY <1>5 DEF Start, WriteManifest, Crash, project
<1>6. ASSUME Owners PROVE UNCHANGED artifacts
  BY <1>6 DEF Owners, Publish, Store, project
<1>7. ASSUME UNCHANGED vars PROVE UNCHANGED artifacts
  BY <1>7 DEF vars
<1> QED
  BY <1>2, <1>3, <1>4, <1>5, <1>6, <1>7 DEF Next, RunStep

LEMMA Initially == Init => IInv
<1> SUFFICES ASSUME Init PROVE IInv
  OBVIOUS
<1>1. TypeOK
  BY BoundAssumption, RunsAssumption DEF Init, TypeOK, ManifestType
<1>2. TasksAreRight
  BY DEF Init, TasksAreRight
<1>3. ArtifactsAreRight
  BY DEF Init, ArtifactsAreRight, ArtifactIsRight
<1> QED
  BY <1>1, <1>2, <1>3 DEF IInv

LEMMA Inductive == Spec => []IInv
<1>1. IInv /\ [Next]_vars => IInv'
  BY TypeStep, TasksStep, ArtifactsStep DEF IInv
<1> QED
  BY Initially, <1>1, PTL DEF Spec

\* Every variable keeps its type.
THEOREM TypeCorrect == Spec => []TypeOK
<1>1. IInv => TypeOK
  BY DEF IInv
<1> QED
  BY <1>1, Inductive, PTL

\* Whatever is saved under a version of a library carries a CID and an address
\* that are no older than that version, and no older than one another.
THEOREM NeverTornBackward == Spec => []TornOnlyForward
<1>1. IInv => TornOnlyForward
  <2> SUFFICES ASSUME IInv, NEW l \in Library, NEW v \in Version, artifacts[l][v] # Nothing
               PROVE  \E i, j \in DOMAIN log[l] :
                        /\ v < i /\ i <= j
                        /\ log[l][i].uri = artifacts[l][v].uri
                        /\ log[l][j].address = artifacts[l][v].address
    BY DEF TornOnlyForward
  <2>1. artifacts[l][v].version = v /\ ReadFrom(log[l], artifacts[l][v], FALSE)
    BY DEF IInv, ArtifactsAreRight, ArtifactIsRight
  <2>2. DOMAIN log[l] = 1..Len(log[l])
    BY DEF IInv, TypeOK
  <2> QED
    BY <2>1, <2>2 DEF ReadFrom
<1> QED
  BY <1>1, Inductive, PTL
-----------------------------------------------------------------------------
(* The manifest. *)

LEMMA DistinctStep ==
  ASSUME UniqueArguments, IInv, DistinctRequests, [Next]_vars
  PROVE  DistinctRequests'
<1> SUFFICES ASSUME NEW r \in Run PROVE Distinct(toInstall'[r])
  BY DEF DistinctRequests
<1>1. ASSUME Start(r) PROVE Distinct(toInstall'[r])
  <2>1. CASE toInstall'[r] = Arguments[r]
    BY <2>1 DEF UniqueArguments
  <2>2. CASE toInstall'[r] \in Bijection(1..Cardinality(Dependencies), Dependencies)
    <3> DEFINE f == toInstall'[r]
    <3>1. \A i, j \in DOMAIN f : f[i] = f[j] => i = j
      BY <2>2 DEF Bijection, Injection, IsInjective
    <3>2. \A i \in DOMAIN f : f[i] \in Dependencies
      BY <2>2 DEF Bijection, Injection
    <3>3. \A x, y \in Dependencies : x.library = y.library => x = y
      BY DEF Dependencies
    <3> QED
      BY <3>1, <3>2, <3>3 DEF Distinct
  <2> QED
    BY <1>1, <2>1, <2>2, StartTypes DEF IInv
<1>2. ASSUME toInstall'[r] = toInstall[r] PROVE Distinct(toInstall'[r])
  BY <1>2 DEF DistinctRequests
<1>3. ASSUME NEW s \in Run, Start(s), s # r PROVE toInstall'[r] = toInstall[r]
  BY <1>3, StartTypes DEF IInv
<1>4. ASSUME NEW s \in Run, NEW j \in Requests(s), Step(s, j) PROVE toInstall'[r] = toInstall[r]
  BY <1>4 DEF Step, QueryVersionCount, QueryMetadataUri, QueryAddress, FetchAndSave,
              FetchFails, StepFails
<1>5. ASSUME NEW s \in Run, WriteManifest(s) \/ Crash(s) PROVE toInstall'[r] = toInstall[r]
  BY <1>5 DEF WriteManifest, Crash
<1>6. ASSUME Owners \/ UNCHANGED vars PROVE toInstall'[r] = toInstall[r]
  BY <1>6 DEF Owners, Publish, Store, vars
<1> QED
  BY <1>1, <1>2, <1>3, <1>4, <1>5, <1>6 DEF Next, RunStep

\* What a run writes about a library.
LEMMA WrittenEntry ==
  ASSUME IInv, DistinctRequests, NEW r \in Run, WriteManifest(r), NEW l \in Library
  PROVE  \/ /\ Saved(r, l) = {}
            /\ manifest'.dependencies[l] = copy[r].dependencies[l]
            /\ manifest'.contracts[l] = copy[r].contracts[l]
         \/ \E i \in Requests(r) :
              /\ toInstall[r][i].library = l /\ task[r][i].at = "saved"
              /\ manifest'.dependencies[l] = toInstall[r][i].version
              /\ manifest'.contracts[l] = Snapshot(task[r][i])
<1>1. CASE Saved(r, l) = {}
  BY <1>1 DEF WriteManifest, OldDependency, OldContract
<1>2. CASE Saved(r, l) # {}
  <2>1. PICK i \in Saved(r, l) : TRUE
    BY <1>2
  <2>2. /\ i \in Requests(r) /\ i \in 1..Len(toInstall[r])
        /\ toInstall[r][i].library = l /\ task[r][i].at = "saved"
    BY <2>1, RequestFacts DEF IInv, Saved, Requests, LibraryOf
  <2>3. DOMAIN task[r] = DOMAIN toInstall[r]
    BY DEF IInv, TypeOK
  <2>4. Named(r, l) = {i} /\ Saved(r, l) = {i}
    BY <2>2, <2>3 DEF DistinctRequests, Distinct, Named, Saved, LibraryOf, Requests
  <2>5. First({i}) = i /\ Last({i}) = i
    BY <2>2 DEF First, Last
  <2> QED
    BY <1>2, <2>2, <2>4, <2>5 DEF WriteManifest
<1> QED
  BY <1>1, <1>2

LEMMA WrittenIsRight ==
  ASSUME MInv, NEW r \in Run, WriteManifest(r)
  PROVE  ManifestIsRight(log', stored', artifacts', manifest')
<1>0. UNCHANGED <<log, stored, artifacts>>
  BY DEF WriteManifest
<1> SUFFICES ASSUME NEW l \in Library
             PROVE  /\ manifest'.contracts[l] # Nothing =>
                         /\ artifacts[l][manifest'.contracts[l].version] # Nothing
                         /\ manifest'.contracts[l].uri \in stored
                    /\ manifest'.dependencies[l] \in Version =>
                         /\ manifest'.contracts[l].version = manifest'.dependencies[l]
                         /\ ReadFrom(log[l], manifest'.contracts[l], TRUE)
  BY <1>0 DEF ManifestIsRight
<1>1. CASE /\ manifest'.dependencies[l] = copy[r].dependencies[l]
           /\ manifest'.contracts[l] = copy[r].contracts[l]
  <2>1. ManifestIsRight(log, stored, artifacts, copy[r])
    BY DEF MInv, ManifestsAreRight
  <2> DEFINE c == manifest'.contracts[l]
             d == manifest'.dependencies[l]
  <2>2. /\ c # Nothing => artifacts[l][c.version] # Nothing /\ c.uri \in stored
        /\ d \in Version => c.version = d /\ ReadFrom(log[l], c, TRUE)
    <3>1. c = copy[r].contracts[l] /\ d = copy[r].dependencies[l]
      BY <1>1
    <3> HIDE DEF c, d
    <3> QED
      BY <2>1, <3>1 DEF ManifestIsRight
  <2> QED
    BY <2>2
<1>2. ASSUME NEW i \in Requests(r),
             toInstall[r][i].library = l, task[r][i].at = "saved",
             manifest'.dependencies[l] = toInstall[r][i].version,
             manifest'.contracts[l] = Snapshot(task[r][i])
      PROVE  /\ artifacts[l][manifest'.contracts[l].version] # Nothing
             /\ manifest'.contracts[l].uri \in stored
             /\ manifest'.dependencies[l] \in Version =>
                  /\ manifest'.contracts[l].version = manifest'.dependencies[l]
                  /\ ReadFrom(log[l], manifest'.contracts[l], TRUE)
  <2> DEFINE t == task[r][i]
             q == toInstall[r][i]
  <2>1. TaskIsRight(log, stored, artifacts, t, q)
    BY RequestFacts DEF MInv, IInv, TasksAreRight
  <2>2. /\ Snapshot(t).version = t.version /\ Snapshot(t).uri = t.uri
        /\ Snapshot(t).address = t.address
    BY DEF Snapshot
  <2>3. q.version \in Version => q.version # Latest
    BY BoundAssumption DEF Version, Latest
  <2>4. q.version # Latest => ReadFrom(log[l], Snapshot(t), TRUE)
    BY <1>2, <2>1, <2>2 DEF TaskIsRight, ReadFrom
  <2> QED
    BY <1>2, <2>1, <2>2, <2>3, <2>4 DEF TaskIsRight
<1>3. CASE ~ (/\ manifest'.dependencies[l] = copy[r].dependencies[l]
              /\ manifest'.contracts[l] = copy[r].contracts[l])
  <2>1. PICK i \in Requests(r) :
          /\ toInstall[r][i].library = l /\ task[r][i].at = "saved"
          /\ manifest'.dependencies[l] = toInstall[r][i].version
          /\ manifest'.contracts[l] = Snapshot(task[r][i])
    BY <1>3, WrittenEntry DEF MInv
  <2> QED
    BY <1>2, <2>1
<1> QED
  BY <1>1, <1>3

LEMMA ManifestsStep ==
  ASSUME MInv, [Next]_vars
  PROVE  ManifestsAreRight'
<1> DEFINE Right(m) == ManifestIsRight(log', stored', artifacts', m)
<1>1. Right(manifest) /\ \A r \in Run : Right(copy[r])
  <2>1. Grows(log, log', stored, stored', artifacts, artifacts')
    BY StepGrows DEF MInv
  <2>2. manifest \in ManifestType /\ \A r \in Run : copy[r] \in ManifestType
    BY DEF MInv, IInv, TypeOK
  <2> QED
    BY <2>1, <2>2, ManifestStays DEF MInv, ManifestsAreRight
<1> HIDE DEF Right
<1>2. ASSUME NEW r \in Run, WriteManifest(r) PROVE Right(manifest') /\ copy' = copy
  BY <1>2, WrittenIsRight DEF WriteManifest, Right
<1>3. ASSUME NEW r \in Run, Start(r)
      PROVE  manifest' = manifest /\ copy' = [copy EXCEPT ![r] = manifest]
  BY <1>3 DEF Start, project
<1>4. ASSUME NEW r \in Run, NEW i \in Requests(r), Step(r, i) PROVE UNCHANGED <<manifest, copy>>
  BY <1>4 DEF Step, QueryVersionCount, QueryMetadataUri, QueryAddress, FetchAndSave,
              FetchFails, StepFails, project
<1>5. ASSUME Owners \/ UNCHANGED vars PROVE UNCHANGED <<manifest, copy>>
  BY <1>5 DEF Owners, Publish, Store, vars, project
<1>6. ASSUME NEW r \in Run, Crash(r) PROVE UNCHANGED <<manifest, copy>>
  BY <1>6 DEF Crash, project
<1>7. Right(manifest') /\ \A r \in Run : Right(copy'[r])
  BY <1>1, <1>2, <1>3, <1>4, <1>5, <1>6 DEF Next, RunStep, MInv, IInv, TypeOK
<1> QED
  BY <1>7 DEF ManifestsAreRight, Right

LEMMA ManifestInductive ==
  ASSUME UniqueArguments
  PROVE  Spec => []MInv
<1>1. ASSUME Init PROVE MInv
  <2>1. DistinctRequests
    BY <1>1 DEF Init, DistinctRequests, Distinct
  <2>2. Absent \notin Version
    BY BoundAssumption DEF Absent, Version
  <2>3. ManifestIsRight(log, stored, artifacts, manifest)
    BY <1>1, <2>2 DEF Init, ManifestIsRight
  <2>4. \A r \in Run : copy[r] = manifest
    BY <1>1 DEF Init
  <2> QED
    BY <1>1, Initially, <2>1, <2>3, <2>4 DEF MInv, ManifestsAreRight
<1>2. MInv /\ [Next]_vars => MInv'
  BY TypeStep, TasksStep, ArtifactsStep, DistinctStep, ManifestsStep DEF MInv, IInv
<1> QED
  BY <1>1, <1>2, PTL DEF Spec

\* If no command names a library twice, cdm.json only names contracts whose
\* artifacts are in the project and whose metadata was served.
THEOREM ManifestAlwaysInstalled ==
  ASSUME UniqueArguments
  PROVE  Spec => []ManifestIsInstalled
<1>1. MInv => ManifestIsInstalled
  BY DEF MInv, ManifestsAreRight, ManifestIsRight, ManifestIsInstalled
<1> QED
  BY <1>1, ManifestInductive, PTL

\* If no command names a library twice, a dependency pinned to a version is
\* recorded with exactly the address and the CID that version was published
\* with.
THEOREM PinnedAlwaysExact ==
  ASSUME UniqueArguments
  PROVE  Spec => []PinnedManifestIsExact
<1>1. MInv => PinnedManifestIsExact
  <2> SUFFICES ASSUME MInv, NEW l \in Library, manifest.dependencies[l] \in Version
               PROVE  /\ manifest.contracts[l].version = manifest.dependencies[l]
                      /\ IsPublished(l, manifest.contracts[l])
    BY DEF PinnedManifestIsExact
  <2> DEFINE s == manifest.contracts[l]
             v == manifest.dependencies[l]
  <2>1. s.version = v /\ ReadFrom(log[l], s, TRUE)
    BY DEF MInv, ManifestsAreRight, ManifestIsRight
  <2>2. /\ v + 1 \in 1..Len(log[l])
        /\ log[l][v + 1].uri = s.uri /\ log[l][v + 1].address = s.address
    BY <2>1 DEF ReadFrom
  <2>3. log[l] \in Seq(Entry) /\ v \in Nat
    BY BoundAssumption DEF MInv, IInv, TypeOK, Version
  <2>4. log[l][v + 1] \in Entry
    BY <2>2, <2>3
  <2>5. log[l][v + 1] = [address |-> s.address, uri |-> s.uri]
    BY <2>2, <2>4 DEF Entry
  <2>6. v < Len(log[l])
    BY <2>2, <2>3
  <2> QED
    BY <2>1, <2>5, <2>6 DEF IsPublished, Exists
<1> QED
  BY <1>1, ManifestInductive, PTL
-----------------------------------------------------------------------------
(* Runs in turn. *)

LEMMA RunsInTurn ==
  ASSUME Sequential
  PROVE  Spec => [](IInv /\ SInv)
<1>1. Init => SInv
  BY Initially DEF IInv, Init, SInv, OneAtATime, CopyIsCurrent
<1>2. ASSUME IInv, SInv, [Next]_vars PROVE SInv'
  <2>0. TypeOK'
    BY <1>2, TypeStep
  <2>1. ASSUME NEW r \in Run, Start(r) PROVE OneAtATime' /\ CopyIsCurrent'
    BY <1>2, <2>1 DEF Start, SInv, OneAtATime, CopyIsCurrent, TypeOK, project
  <2>2. ASSUME NEW r \in Run, WriteManifest(r) PROVE OneAtATime' /\ CopyIsCurrent'
    <3>1. pc[r] = "installing" /\ pc' = [pc EXCEPT ![r] = "ended"] /\ UNCHANGED copy
      BY <2>2 DEF WriteManifest
    <3>2. OneAtATime'
      BY <1>2, <3>1 DEF SInv, OneAtATime, TypeOK
    <3>3. \A q \in Run : pc'[q] # "installing"
      BY <1>2, <3>1 DEF Sequential, SInv, OneAtATime, TypeOK
    <3> QED
      BY <3>2, <3>3 DEF CopyIsCurrent
  <2>3. ASSUME NEW r \in Run, Crash(r) PROVE OneAtATime' /\ CopyIsCurrent'
    BY <1>2, <2>3 DEF Crash, SInv, OneAtATime, CopyIsCurrent, TypeOK, project
  <2>4. ASSUME UNCHANGED <<pc, copy, manifest>> PROVE OneAtATime' /\ CopyIsCurrent'
    BY <1>2, <2>4 DEF SInv, OneAtATime, CopyIsCurrent
  <2>5. ASSUME NEW r \in Run, NEW i \in Requests(r), Step(r, i)
        PROVE  UNCHANGED <<pc, copy, manifest>>
    BY <2>5 DEF Step, QueryVersionCount, QueryMetadataUri, QueryAddress, FetchAndSave,
                FetchFails, StepFails, project
  <2>6. ASSUME Owners \/ UNCHANGED vars PROVE UNCHANGED <<pc, copy, manifest>>
    BY <2>6 DEF Owners, Publish, Store, vars, project
  <2> QED
    BY <1>2, <2>0, <2>1, <2>2, <2>3, <2>4, <2>5, <2>6 DEF Next, RunStep, SInv
<1>3. Spec => []SInv
  <2>1. IInv /\ SInv /\ [Next]_vars => SInv'
    BY <1>2
  <2> QED
    BY <1>1, <2>1, Inductive, PTL DEF Spec
<1> QED
  BY <1>3, Inductive, PTL

\* If no two runs overlap, no run takes an installed library out of cdm.json,
\* whichever of its requests fail.
THEOREM NothingDisappears ==
  ASSUME UniqueArguments, Sequential
  PROVE  Spec => InstalledStaysInstalled
<1> DEFINE Kept == \A l \in Library :
                     manifest.contracts[l] # Nothing => manifest'.contracts[l] # Nothing
<1>1. ASSUME MInv, SInv, [Next]_vars PROVE [Kept]_vars
  <2>1. ASSUME NEW r \in Run, WriteManifest(r) PROVE Kept
    <3> SUFFICES ASSUME NEW l \in Library, manifest.contracts[l] # Nothing
                 PROVE  manifest'.contracts[l] # Nothing
      OBVIOUS
    <3>1. copy[r] = manifest
      BY <1>1, <2>1 DEF WriteManifest, SInv, CopyIsCurrent
    <3>2. ASSUME NEW i \in Requests(r), task[r][i].at = "saved"
          PROVE  Snapshot(task[r][i]) # Nothing
      <4>1. task[r][i].version \in Version
        BY <1>1, <3>2, RequestFacts DEF MInv, IInv, TasksAreRight, TaskIsRight
      <4> QED
        BY <4>1, BoundAssumption DEF Snapshot, Nothing, Absent, Version
    <3> QED
      BY <1>1, <2>1, <3>1, <3>2, WrittenEntry DEF MInv
  <2>2. ASSUME manifest' = manifest PROVE Kept
    BY <2>2
  <2>3. ASSUME NEW r \in Run, NEW i \in Requests(r), Step(r, i) PROVE manifest' = manifest
    BY <2>3 DEF Step, QueryVersionCount, QueryMetadataUri, QueryAddress, FetchAndSave,
                FetchFails, StepFails, project
  <2>4. ASSUME NEW r \in Run, Start(r) \/ Crash(r) PROVE manifest' = manifest
    BY <2>4 DEF Start, Crash, project
  <2>5. ASSUME Owners PROVE manifest' = manifest
    BY <2>5 DEF Owners, Publish, Store, project
  <2> HIDE DEF Kept
  <2> QED
    BY <1>1, <2>1, <2>2, <2>3, <2>4, <2>5 DEF Next, RunStep
<1>2. MInv /\ SInv /\ [Next]_vars => [Kept]_vars
  BY <1>1
<1> QED
  BY <1>2, ManifestInductive, RunsInTurn, PTL DEF Spec, InstalledStaysInstalled
=============================================================================
