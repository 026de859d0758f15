------------------------------ MODULE Converge ------------------------------
(***************************************************************************)
(* The script converge-registry-names.ts: it publishes packages a second   *)
(* time under canonical names, and the registry itself under a name, after *)
(* a plan made from queries.  The registry it writes is append-only, and   *)
(* others publish in it in the meantime.  Executing runs follow one        *)
(* another; one may stop anywhere, also between a transaction that lands   *)
(* and its answer.  A dry run ends where executing begins.                 *)
(*                                                                         *)
(* A definition named D_Fault is a faulty variant of D that no             *)
(* specification uses: put in the place of D, it shows which property      *)
(* would notice the fault.                                                 *)
(***************************************************************************)
EXTENDS Integers, Sequences, FiniteSets, SequencesExt

CONSTANTS
  Signer,          \* accounts the script or others publish with
  Renamed,         \* RENAMES: canonical name -> the name it mirrors
  Canonical,       \* the canonical names in the order of the plan
  RegistryPackage, \* the last of them
  RegistryEntry,   \* the registry's address, with freshly uploaded metadata
  ReferenceOwner,  \* the owner of OWNER_REFERENCE_NAME
  Entries,         \* what others publish
  MaxRun, MaxVersion

ASSUME ConvergeAssumption ==
  /\ Canonical \in Seq(ToSet(Canonical)) /\ IsInjective(Canonical)
  /\ ReferenceOwner \in Signer /\ DOMAIN Renamed = ToSet(Canonical) \ {RegistryPackage}
  /\ Entries \subseteq [address : Nat, uri : Nat] /\ RegistryEntry \in [address : Nat, uri : Nat]
  /\ MaxRun \in Nat /\ MaxVersion \in Nat

PublishedName == ToSet(Canonical) \cup {Renamed[n] : n \in DOMAIN Renamed}

VARIABLES
  published,  \* name -> its versions in the registry, with who published each
  script      \* the run: its number, signer, phase, position, reads and plan

convergeVars == <<published, script>>

Owner(name) == IF published[name] = <<>> THEN {} ELSE {published[name][1].signer}
Unpublished == [address |-> -1, uri |-> -1]
EmptyUri == 0
Latest(name) ==
  IF published[name] = <<>> THEN Unpublished
  ELSE [address |-> Last(published[name]).entry.address, uri |-> Last(published[name]).entry.uri]

\* publishLatest of the registry, as the module Registry has it.
CanPublish(signer, name) == Owner(name) \subseteq {signer} /\ Len(published[name]) < MaxVersion
PublishAs(signer, name, entry, by) ==
  published' = [published EXCEPT ![name] =
                  Append(@, [entry |-> entry, signer |-> signer, by |-> by])]

-----------------------------------------------------------------------------
(* The plan. *)

Begin(signer) ==
  /\ script.phase = "idle" /\ script.run < MaxRun
  /\ script' = [run |-> script.run + 1, signer |-> signer, phase |-> "plan", k |-> 1,
                source |-> Unpublished, plan |-> <<>>]
  /\ UNCHANGED published

InPlan(k) == script.phase = "plan" /\ k = script.k /\ k <= Len(Canonical)

\* currentEntry of the source: its address and its URI are separate queries, and
\* no URI is read as the empty one.
ReadAddress(k) ==
  /\ InPlan(k) /\ Canonical[k] # RegistryPackage /\ script.source.address = -1
  /\ Latest(Renamed[Canonical[k]]) # Unpublished
  /\ script' = [script EXCEPT !.source.address = Latest(Renamed[Canonical[k]]).address]
  /\ UNCHANGED published
ReadUri(k) ==
  /\ InPlan(k) /\ Canonical[k] # RegistryPackage /\ script.source.uri = -1
  /\ LET latest == Latest(Renamed[Canonical[k]])
     IN  script' = [script EXCEPT !.source.uri =
                      IF latest = Unpublished THEN EmptyUri ELSE latest.uri]
  /\ UNCHANGED published

Decision_NoSkip(intended, current) ==
  IF current = Unpublished \/ current.address = intended.address THEN "publish" ELSE "blocked"
Decision(intended, current) ==
  IF current = Unpublished THEN "publish"
  ELSE IF current.address = intended.address THEN "skip" ELSE "blocked"

\* currentEntry of the target, and the target's line of the plan.
Decide(k, intended, decision) ==
  script' = [script EXCEPT !.k = k + 1, !.source = Unpublished,
               !.plan = Append(@, [name |-> Canonical[k], entry |-> intended,
                                   action |-> decision])]
PlanRename(k) ==
  /\ InPlan(k) /\ Canonical[k] # RegistryPackage
  /\ script.source.address # -1 /\ script.source.uri # -1
  /\ Decide(k, script.source, Decision(script.source, Latest(Canonical[k])))
  /\ UNCHANGED published
SourceMissing(k) ==
  /\ InPlan(k) /\ Canonical[k] # RegistryPackage
  /\ script.source.address = -1 /\ Latest(Renamed[Canonical[k]]) = Unpublished
  /\ Decide(k, Unpublished, "blocked")
  /\ UNCHANGED published
PlanRegistry(k) ==
  /\ InPlan(k) /\ Canonical[k] = RegistryPackage
  /\ Decide(k, RegistryEntry, Decision(RegistryEntry, Latest(RegistryPackage)))
  /\ UNCHANGED published

-----------------------------------------------------------------------------
(* Executing it. *)

With(action) == {i \in DOMAIN script.plan : script.plan[i].action = action}

\* Nothing is executed if a target is blocked, or nothing is to be published.
Execute ==
  /\ script.phase = "plan" /\ script.k > Len(Canonical)
  /\ script' = [script EXCEPT !.k = 1,
       !.phase = IF With("publish") = {} \/ With("blocked") # {} THEN "idle" ELSE "execute"]
  /\ UNCHANGED published

Leave(k) == [script EXCEPT !.k = k + 1]
Skip(k) ==
  /\ script.phase = "execute" /\ k = script.k /\ k \in DOMAIN script.plan \ With("publish")
  /\ script' = Leave(k)
  /\ UNCHANGED published
PublishLine(k) ==
  /\ script.phase = "execute" /\ k = script.k /\ k \in With("publish")
  /\ CanPublish(script.signer, script.plan[k].name)
  /\ PublishAs(script.signer, script.plan[k].name, script.plan[k].entry, "script")
  /\ \/ script' = Leave(k)
     \/ script' = [script EXCEPT !.phase = "idle"]  \* its answer is lost

\* A query, an upload or a transaction fails, the registry refuses, or the
\* process is stopped; and the end, with the verification of the owners, which
\* is only printed.
StopScript ==
  /\ script.phase # "idle"
  /\ script' = [script EXCEPT !.phase = "idle"]
  /\ UNCHANGED published

PublishOther(signer, name, entry) ==
  /\ CanPublish(signer, name)
  /\ PublishAs(signer, name, entry, "other")
  /\ UNCHANGED script

ConvergeInit ==
  /\ published = [n \in PublishedName |-> <<>>]
  /\ script = [run |-> 0, signer |-> ReferenceOwner, phase |-> "idle", k |-> 1,
               source |-> Unpublished, plan |-> <<>>]

ConvergeNext ==
  \/ \E s \in Signer : Begin(s)
  \/ \E k \in DOMAIN Canonical :
       \/ ReadAddress(k) \/ ReadUri(k)
       \/ PlanRename(k) \/ SourceMissing(k) \/ PlanRegistry(k) \/ Skip(k) \/ PublishLine(k)
  \/ Execute \/ StopScript
  \/ \E s \in Signer, n \in PublishedName, e \in Entries : PublishOther(s, n, e)

ConvergeSpec == ConvergeInit /\ [][ConvergeNext]_convergeVars

-----------------------------------------------------------------------------
(* Properties. *)

\* However often the script stops halfway and is run again, and whatever is
\* published beside it, it publishes a canonical name at most once, with an
\* address the source has had and a URI the source has had - or none, if the
\* source itself was first published between the two queries.
ConvergesOnce ==
  \A n \in ToSet(Canonical) :
    LET ByScript == {i \in DOMAIN published[n] : published[n][i].by = "script"}
        Sources  == IF n = RegistryPackage THEN {RegistryEntry}
                    ELSE {published[Renamed[n]][i].entry : i \in DOMAIN published[Renamed[n]]}
    IN  /\ Cardinality(ByScript) <= 1
        /\ \A i \in ByScript : \E s, t \in Sources :
             published[n][i].entry \in {[address |-> s.address, uri |-> uri] :
                                          uri \in {t.uri, EmptyUri}}

\* Claimed by the script's header, not kept by the code: a canonical name is
\* only published by the owner of the existing canonical names.
OwnershipGuard ==
  \A n \in ToSet(Canonical) : \A i \in DOMAIN published[n] :
    published[n][i].by = "script" => published[n][i].signer = ReferenceOwner
=============================================================================
