------------------------------ MODULE Install -------------------------------
(***************************************************************************)
(* Runs of `cdm install` in one project, against a registry whose owners   *)
(* keep publishing.                                                        *)
(*                                                                         *)
(* A run reads cdm.json, resolves all its requests concurrently - each     *)
(* one a series of separate registry queries, a fetch of the metadata by   *)
(* CID, and a save of the artifacts - and when all have settled, writes    *)
(* cdm.json with those that succeeded.  The metadata is named by its CID,  *)
(* so the ABI installed is a function of the CID.                          *)
(*                                                                         *)
(* The registry is its abstract log (RegistryLog), which Registry refines. *)
(*                                                                         *)
(* A definition named D_Fault is a faulty variant of D that no             *)
(* specification uses: put in the place of D, it shows which property      *)
(* would notice the fault.                                                 *)
(***************************************************************************)
EXTENDS Integers, Sequences, FiniteSets, Functions

CONSTANTS
  Library,      \* CDM packages
  Run,          \* invocations of cdm install in the project
  Arguments,    \* run -> the requests on its command line, in order
  After,        \* run -> the runs that must have ended before it starts
  Faulty,       \* the runs in which any external step may fail
  MaxVersions   \* bound: the most versions an owner publishes of a library

Latest == -1    \* the requested version "latest"
Absent == -2    \* no dependency in cdm.json

Version   == 0..(MaxVersions - 1)
Requested == Version \cup {Latest}
Request   == [library : Library, version : Requested]

ASSUME BoundAssumption == MaxVersions \in Nat \ {0}
ASSUME LibraryAssumption == IsFiniteSet(Library)
ASSUME RunsAssumption ==
  /\ Arguments \in [Run -> Seq(Request)]
  /\ After \in [Run -> SUBSET Run]
  /\ Faulty \subseteq Run

EmptyUri  == <<>>   \* the empty string
NoAddress == <<>>   \* not read yet
Nothing   == [version |-> Absent]

VARIABLES
  log,        \* registry: library -> its published entries [address, uri]
  stored,     \* the CIDs the IPFS gateway serves
  manifest,   \* cdm.json: dependencies and contracts of every library
  artifacts,  \* .cdm/contracts/<library>/<version>: info.json
  latestLink, \* .cdm/contracts/<library>/latest
  pc,         \* run -> what it is doing
  copy,       \* run -> its copy of cdm.json
  toInstall,  \* run -> its requests
  task        \* run -> request -> how far it is and what it has read

project == <<manifest, artifacts, latestLink>>
vars    == <<log, stored, manifest, artifacts, latestLink, pc, copy, toInstall, task>>

-----------------------------------------------------------------------------
(* The registry's queries. *)

Exists(library, version) == version < Len(log[library])
Newest(library)          == Len(log[library]) - 1

\* The version a query names: an AtVersion query names its own, the others
\* answer for whatever is the newest when they are asked.
Asked_Newest(request) ==
  IF Exists(request.library, request.version) THEN Newest(request.library) ELSE request.version
Asked_First(request)  == IF request.version = Latest THEN 0 ELSE request.version
Asked(request) == IF request.version = Latest THEN Newest(request.library) ELSE request.version
Answer(request) == log[request.library][Asked(request) + 1]

-----------------------------------------------------------------------------
(* A run. *)

Dependencies == {[library |-> l, version |-> manifest.dependencies[l]] :
                   l \in {k \in Library : manifest.dependencies[k] # Absent}}

NewTask(request) ==
  [at |-> IF request.version = Latest THEN "count" ELSE "uri",
   version |-> request.version, uri |-> EmptyUri, address |-> NoAddress]

\* Without arguments a run installs the dependencies of cdm.json; if there are
\* none it exits.
Start(r) ==
  /\ pc[r] = "idle" /\ \A q \in After[r] : pc[q] \in {"ended", "crashed"}
  /\ \E requests \in IF Arguments[r] # <<>> THEN {Arguments[r]}
                     ELSE Bijection(1..Cardinality(Dependencies), Dependencies) :
       /\ toInstall' = [toInstall EXCEPT ![r] = requests]
       /\ task' = [task EXCEPT ![r] = [i \in DOMAIN requests |-> NewTask(requests[i])]]
       /\ pc' = [pc EXCEPT ![r] = IF requests = <<>> THEN "ended" ELSE "installing"]
  /\ copy' = [copy EXCEPT ![r] = manifest]
  /\ UNCHANGED <<log, stored, project>>

At(r, i, where) == pc[r] = "installing" /\ i \in DOMAIN task[r] /\ task[r][i].at = where
LibraryOf(r, i)  == toInstall[r][i].library

QueryVersionCount(r, i) ==
  /\ At(r, i, "count")
  /\ task' = IF log[LibraryOf(r, i)] = <<>>
             THEN [task EXCEPT ![r][i].at = "failed"]
             ELSE [task EXCEPT ![r][i].at = "uri", ![r][i].version = Newest(LibraryOf(r, i))]
  /\ UNCHANGED <<log, stored, project, pc, copy, toInstall>>

QueryMetadataUri(r, i) ==
  /\ At(r, i, "uri")
  /\ LET request == toInstall[r][i]
         found   == Exists(request.library, Asked(request)) /\ Answer(request).uri # EmptyUri
     IN  task' = IF found
                 THEN [task EXCEPT ![r][i].at = "address", ![r][i].uri = Answer(request).uri]
                 ELSE [task EXCEPT ![r][i].at = "failed"]
  /\ UNCHANGED <<log, stored, project, pc, copy, toInstall>>

QueryAddress(r, i) ==
  /\ At(r, i, "address")
  /\ task' = [task EXCEPT ![r][i].at = "fetch",
                          ![r][i].address = Answer(toInstall[r][i]).address]
  /\ UNCHANGED <<log, stored, project, pc, copy, toInstall>>

Snapshot(t) == [version |-> t.version, address |-> t.address, uri |-> t.uri]

\* The gateway serves the metadata and saveContract writes the artifacts.
FetchAndSave(r, i) ==
  /\ At(r, i, "fetch") /\ task[r][i].uri \in stored
  /\ artifacts' = [artifacts EXCEPT ![LibraryOf(r, i)][task[r][i].version] = Snapshot(task[r][i])]
  /\ latestLink' = [latestLink EXCEPT ![LibraryOf(r, i)] = task[r][i].version]
  /\ task' = [task EXCEPT ![r][i].at = "saved"]
  /\ UNCHANGED <<log, stored, manifest, pc, copy, toInstall>>

FetchFails(r, i) ==
  /\ At(r, i, "fetch") /\ task[r][i].uri \notin stored
  /\ task' = [task EXCEPT ![r][i].at = "failed"]
  /\ UNCHANGED <<log, stored, project, pc, copy, toInstall>>

\* A query or the fetch gets no answer, or the metadata has no ABI.
StepFails(r, i) ==
  /\ r \in Faulty
  /\ \E where \in {"count", "uri", "address", "fetch"} : At(r, i, where)
  /\ task' = [task EXCEPT ![r][i].at = "failed"]
  /\ UNCHANGED <<log, stored, project, pc, copy, toInstall>>

\* The successful requests go into the copy of cdm.json in order; the entry
\* for a library's dependency is the first request that names it.
Settled_OnlySuccess(t) == t.at = "saved"
Settled(t)   == t.at \in {"saved", "failed"}
Saved_Always(r, l) == {i \in DOMAIN task[r] : LibraryOf(r, i) = l}
Saved(r, l)  == {i \in DOMAIN task[r] : LibraryOf(r, i) = l /\ task[r][i].at = "saved"}
Named(r, l)  == {i \in DOMAIN task[r] : LibraryOf(r, i) = l}
First(S)     == CHOOSE i \in S : \A j \in S : i <= j
Last(S)      == CHOOSE i \in S : \A j \in S : i >= j

OldDependency(r, l) == copy[r].dependencies[l]
OldContract_Dropped(r, l) == Nothing
OldContract(r, l) == copy[r].contracts[l]

WriteManifest(r) ==
  /\ pc[r] = "installing" /\ \A i \in DOMAIN task[r] : Settled(task[r][i])
  /\ manifest' =
       [dependencies |-> [l \in Library |-> IF Saved(r, l) = {} THEN OldDependency(r, l)
                            ELSE toInstall[r][First(Named(r, l))].version],
        contracts    |-> [l \in Library |-> IF Saved(r, l) = {} THEN OldContract(r, l)
                            ELSE Snapshot(task[r][Last(Saved(r, l))])]]
  /\ pc' = [pc EXCEPT ![r] = "ended"]
  /\ UNCHANGED <<log, stored, artifacts, latestLink, copy, toInstall, task>>

Crash(r) ==
  /\ r \in Faulty /\ pc[r] = "installing"
  /\ pc' = [pc EXCEPT ![r] = "crashed"]
  /\ UNCHANGED <<log, stored, project, copy, toInstall, task>>

-----------------------------------------------------------------------------
(* The owners and Bulletin. *)

\* A new version has an address of its own and either its metadata's CID or,
\* for a contract without metadata, the empty URI.
Publish(l) ==
  /\ Len(log[l]) < MaxVersions
  /\ \E uri \in {<<l, Len(log[l])>>, EmptyUri} :
       log' = [log EXCEPT ![l] = Append(@, [address |-> <<l, Len(log[l])>>, uri |-> uri])]
  /\ UNCHANGED <<stored, project, pc, copy, toInstall, task>>

\* Metadata is stored independently of its registration (Deploy).
Store(uri) ==
  /\ uri \notin stored
  /\ stored' = stored \cup {uri}
  /\ UNCHANGED <<log, project, pc, copy, toInstall, task>>

Init ==
  /\ log = [l \in Library |-> <<>>] /\ stored = {}
  /\ manifest = [dependencies |-> [l \in Library |-> Absent],
                 contracts    |-> [l \in Library |-> Nothing]]
  /\ artifacts = [l \in Library |-> [v \in Version |-> Nothing]]
  /\ latestLink = [l \in Library |-> Absent]
  /\ pc = [r \in Run |-> "idle"]
  /\ copy = [r \in Run |-> manifest]
  /\ toInstall = [r \in Run |-> <<>>]
  /\ task = [r \in Run |-> <<>>]

Step(r, i) ==
  \/ QueryVersionCount(r, i) \/ QueryMetadataUri(r, i) \/ QueryAddress(r, i)
  \/ FetchAndSave(r, i) \/ FetchFails(r, i) \/ StepFails(r, i)

Requests(r) == DOMAIN task[r]

RunStep(r) == Start(r) \/ WriteManifest(r) \/ \E i \in Requests(r) : Step(r, i)

Owners ==
  \/ \E l \in Library : Publish(l)
  \/ \E l \in Library, v \in Version : Store(<<l, v>>)

Next == Owners \/ \E r \in Run : RunStep(r) \/ Crash(r)

\* Queries and fetches are answered or time out; nothing obliges an owner to
\* publish.
Fairness == \A r \in Run : WF_vars(RunStep(r))

Spec == Init /\ [][Next]_vars /\ Fairness
-----------------------------------------------------------------------------
(* Properties. *)

\* Type invariant.
Cid     == (Library \X Version) \cup {EmptyUri}
Address == Library \X Version
Entry   == [address : Address, uri : Cid]
SnapshotType == [version : Version, address : Address, uri : Cid]
ManifestType == [dependencies : [Library -> Requested \cup {Absent}],
                 contracts    : [Library -> SnapshotType \cup {Nothing}]]
TaskType ==
  [at : {"count", "uri", "address", "fetch", "saved", "failed"},
   version : Requested, uri : Cid, address : Address \cup {NoAddress}]
TypeOK ==
  /\ log \in [Library -> Seq(Entry)] /\ \A l \in Library : Len(log[l]) <= MaxVersions
  /\ stored \subseteq Library \X Version
  /\ manifest \in ManifestType
  /\ artifacts \in [Library -> [Version -> SnapshotType \cup {Nothing}]]
  /\ latestLink \in [Library -> Version \cup {Absent}]
  /\ pc \in [Run -> {"idle", "installing", "ended", "crashed"}]
  /\ copy \in [Run -> ManifestType]
  /\ toInstall \in [Run -> Seq(Request)]
  /\ DOMAIN task = Run /\ \A r \in Run : task[r] \in [DOMAIN toInstall[r] -> TaskType]

\* The version, address and CID of one published version.
IsPublished(l, snapshot) ==
  /\ Exists(l, snapshot.version)
  /\ log[l][snapshot.version + 1] = [address |-> snapshot.address, uri |-> snapshot.uri]

\* A dependency pinned to a version is recorded with exactly the address and
\* the metadata that version was published with, however long ago, and
\* whatever other requests failed or were cut off.
PinnedManifestIsExact ==
  \A l \in Library : manifest.dependencies[l] \in Version =>
    /\ manifest.contracts[l].version = manifest.dependencies[l]
    /\ IsPublished(l, manifest.contracts[l])

\* A "latest" install reads three versions at worst, each no older than the
\* one before: its CID is no older than its version number, and its address
\* no older than its CID.
TornOnlyForward ==
  \A l \in Library, v \in Version : artifacts[l][v] # Nothing =>
    \E i, j \in DOMAIN log[l] :
      /\ v < i /\ i <= j
      /\ log[l][i].uri = artifacts[l][v].uri
      /\ log[l][j].address = artifacts[l][v].address

\* cdm.json only names contracts whose artifacts are in the project and whose
\* metadata could be fetched.
ManifestIsInstalled ==
  \A l \in Library : manifest.contracts[l] # Nothing =>
    /\ artifacts[l][manifest.contracts[l].version] # Nothing
    /\ manifest.contracts[l].uri \in stored

\* Runs that do not overlap never take a library out of cdm.json, even when
\* its reinstallation fails or is cut off.
InstalledStaysInstalled ==
  [][\A l \in Library : manifest.contracts[l] # Nothing => manifest'.contracts[l] # Nothing]_vars

\* Every run that starts ends, although requests are settled one by one and
\* owners may publish for ever.
EveryRunEnds == \A r \in Run : pc[r] = "installing" ~> pc[r] \in {"ended", "crashed"}

\* Claimed by the documentation, not kept by the code for "latest": an
\* install is a snapshot of one version.
SnapshotIsOneVersion ==
  \A l \in Library, v \in Version : artifacts[l][v] # Nothing => IsPublished(l, artifacts[l][v])
=============================================================================
