--------------------------- MODULE ConvergeProofs ---------------------------
(***************************************************************************)
(* Theorems about Converge, for any names, accounts, entries and numbers   *)
(* of runs and versions.                                                   *)
(*                                                                         *)
(* What a run has read of a source stays something that source has had,    *)
(* because versions are only added.  What has to be kept in mind of the    *)
(* plan is which of its lines may still be published: those from the       *)
(* script's position on, and their names have no version of the script     *)
(* yet, since they were unpublished when the line was planned and only     *)
(* the line itself publishes its name.                                     *)
(***************************************************************************)
EXTENDS Converge, FiniteSetTheorems, TLAPS

Version == [entry : [address : Nat, uri : Nat], signer : Signer, by : {"script", "other"}]
Reading == [address : Nat \cup {-1}, uri : Nat \cup {-1}]
Line    == [name : ToSet(Canonical), entry : Reading, action : {"publish", "skip", "blocked"}]

TypeOK ==
  /\ published \in [PublishedName -> Seq(Version)]
  /\ script \in [run : Nat, signer : Signer, phase : {"idle", "plan", "execute"}, k : Nat \ {0},
                 source : Reading, plan : Seq(Line)]

\* The entries a canonical name may be given, when the registry holds reg.
EntriesOf(reg, name) ==
  IF name = RegistryPackage THEN {RegistryEntry}
  ELSE {reg[Renamed[name]][i].entry : i \in DOMAIN reg[Renamed[name]]}
MayBePublished(reg, name, entry) ==
  \E s, t \in EntriesOf(reg, name) : entry.address = s.address /\ entry.uri \in {t.uri, EmptyUri}

\* What has been read of the source of the next name is something it has had.
SourceIsRead(reg, s) ==
  /\ s.source # Unpublished =>
       s.phase # "execute" /\ s.k \in DOMAIN Canonical /\ Canonical[s.k] # RegistryPackage
  /\ s.source.address # -1 =>
       \E e \in EntriesOf(reg, Canonical[s.k]) : s.source.address = e.address
  /\ s.source.uri \notin {-1, EmptyUri} =>
       \E e \in EntriesOf(reg, Canonical[s.k]) : s.source.uri = e.uri

\* The plan names the canonical names in their order, and all when it is executed.
PlanFollows(s) ==
  /\ s.phase # "idle" => Len(s.plan) <= Len(Canonical) /\ \A i \in DOMAIN s.plan : s.plan[i].name = Canonical[i]
  /\ s.phase = "plan" => s.k = Len(s.plan) + 1

\* The lines that will be published have a right entry, and names the script
\* has not published.
Pending(s, i) ==
  i \in DOMAIN s.plan /\ s.plan[i].action = "publish" /\ (s.phase = "plan" \/ (s.phase = "execute" /\ i >= s.k))
PendingIsRight(reg, s) ==
  \A i \in DOMAIN s.plan : Pending(s, i) =>
    /\ MayBePublished(reg, s.plan[i].name, s.plan[i].entry)
    /\ \A j \in DOMAIN reg[s.plan[i].name] : reg[s.plan[i].name][j].by # "script"

OnceFrom(reg) ==
  \A n \in ToSet(Canonical) : \A i \in DOMAIN reg[n] : reg[n][i].by = "script" =>
    /\ MayBePublished(reg, n, reg[n][i].entry)
    /\ \A j \in DOMAIN reg[n] : reg[n][j].by = "script" => i = j

IInv ==
  /\ TypeOK
  /\ SourceIsRead(published, script)
  /\ PlanFollows(script)
  /\ PendingIsRight(published, script)
  /\ OnceFrom(published)

-----------------------------------------------------------------------------
(* The registry only grows. *)

Registries == [PublishedName -> Seq(Version)]
Grown(reg, name, version) == [reg EXCEPT ![name] = Append(@, version)]

LEMMA Names ==
  /\ \A n \in ToSet(Canonical) : n \in PublishedName
  /\ \A n \in ToSet(Canonical) \ {RegistryPackage} : Renamed[n] \in PublishedName
  /\ \A k \in DOMAIN Canonical : Canonical[k] \in ToSet(Canonical)
  /\ \A k \in DOMAIN Canonical : k \in Nat /\ k >= 1 /\ k <= Len(Canonical)
  /\ Len(Canonical) \in Nat /\ DOMAIN Canonical = 1..Len(Canonical)
BY ConvergeAssumption DEF PublishedName, ToSet

LEMMA GrownIs ==
  ASSUME NEW reg \in Registries, NEW name \in PublishedName, NEW version \in Version
  PROVE  /\ Grown(reg, name, version) \in Registries
         /\ \A n \in PublishedName : n # name => Grown(reg, name, version)[n] = reg[n]
         /\ Grown(reg, name, version)[name] = Append(reg[name], version)
         /\ Len(Grown(reg, name, version)[name]) = Len(reg[name]) + 1
         /\ \A i \in DOMAIN reg[name] : Grown(reg, name, version)[name][i] = reg[name][i]
         /\ \A n \in PublishedName : \A i \in DOMAIN reg[n] :
              i \in DOMAIN Grown(reg, name, version)[n] /\ Grown(reg, name, version)[n][i] = reg[n][i]
         /\ Grown(reg, name, version)[name][Len(reg[name]) + 1] = version
         /\ DOMAIN Grown(reg, name, version)[name] = DOMAIN reg[name] \cup {Len(reg[name]) + 1}
<1>1. reg[name] \in Seq(Version) BY DEF Registries
<1>2. PICK grown : grown = Append(reg[name], version) OBVIOUS
<1>3. /\ grown \in Seq(Version) /\ Len(grown) = Len(reg[name]) + 1
      /\ \A i \in DOMAIN reg[name] : i \in DOMAIN grown /\ grown[i] = reg[name][i]
      /\ grown[Len(reg[name]) + 1] = version
      /\ DOMAIN grown = DOMAIN reg[name] \cup {Len(reg[name]) + 1}
  BY <1>1, <1>2
<1>4. Grown(reg, name, version) = [reg EXCEPT ![name] = grown] BY <1>2 DEF Grown
<1> QED BY <1>2, <1>3, <1>4 DEF Registries

LEMMA EntriesGrow ==
  ASSUME NEW reg \in Registries, NEW name \in PublishedName, NEW version \in Version,
         NEW n \in ToSet(Canonical)
  PROVE  EntriesOf(reg, n) \subseteq EntriesOf(Grown(reg, name, version), n)
BY GrownIs, Names DEF EntriesOf

LEMMA MayStillBePublished ==
  ASSUME NEW reg \in Registries, NEW name \in PublishedName, NEW version \in Version,
         NEW n \in ToSet(Canonical), NEW entry, MayBePublished(reg, n, entry)
  PROVE  MayBePublished(Grown(reg, name, version), n, entry)
BY EntriesGrow DEF MayBePublished

\* What the last version of a name says, and what it means that there is none.
LEMMA LatestIs ==
  ASSUME TypeOK, NEW n \in PublishedName
  PROVE  /\ Latest(n) \in Reading
         /\ Latest(n) = Unpublished <=> published[n] = <<>>
         /\ Latest(n) # Unpublished =>
              /\ Latest(n).address \in Nat /\ Latest(n).uri \in Nat
              /\ \E i \in DOMAIN published[n] : published[n][i].entry = Latest(n)
<1>1. published[n] \in Seq(Version) BY DEF TypeOK
<1>2. CASE published[n] = <<>> BY <1>2 DEF Latest, Unpublished, Reading
<1>3. CASE published[n] # <<>>
  <2>1. PICK i : i = Len(published[n]) OBVIOUS
  <2>2. i \in DOMAIN published[n] /\ Last(published[n]) = published[n][i] /\ published[n][i] \in Version
    BY <1>1, <1>3, <2>1 DEF Last
  <2>3. published[n][i].entry \in [address : Nat, uri : Nat] BY <2>2 DEF Version
  <2>4. Latest(n) = published[n][i].entry BY <1>3, <2>2, <2>3 DEF Latest
  <2> QED BY <1>3, <2>2, <2>3, <2>4 DEF Reading, Unpublished
<1> QED BY <1>2, <1>3

-----------------------------------------------------------------------------
(* The plan. *)

Scripts == [run : Nat, signer : Signer, phase : {"idle", "plan", "execute"}, k : Nat \ {0},
            source : Reading, plan : Seq(Line)]

\* The invariant of the next state, where only the script has moved.
LEMMA ScriptMoves ==
  ASSUME IInv, UNCHANGED published, script' \in Scripts, SourceIsRead(published, script'),
         PlanFollows(script'), PendingIsRight(published, script')
  PROVE  IInv'
<1>1. TypeOK' BY DEF IInv, TypeOK, Scripts
<1>2. SourceIsRead(published, script)' BY DEF SourceIsRead, EntriesOf
<1>3. PlanFollows(script)' BY DEF PlanFollows
<1>4. PendingIsRight(published, script)' BY DEF PendingIsRight, Pending, MayBePublished, EntriesOf
<1>5. OnceFrom(published)' BY DEF IInv, OnceFrom, MayBePublished, EntriesOf
<1> QED BY <1>1, <1>2, <1>3, <1>4, <1>5 DEF IInv

LEMMA BeginKeeps == ASSUME IInv, NEW s \in Signer, Begin(s) PROVE IInv'
<1>1. /\ script' = [run |-> script.run + 1, signer |-> s, phase |-> "plan", k |-> 1,
                    source |-> Unpublished, plan |-> <<>>]
      /\ UNCHANGED published
  BY DEF Begin
<1>2. script' \in Scripts BY <1>1 DEF IInv, TypeOK, Scripts, Reading, Unpublished
<1>3. SourceIsRead(published, script') BY <1>1 DEF SourceIsRead, Unpublished
<1>4. PlanFollows(script') BY <1>1, Names DEF PlanFollows
<1>5. PendingIsRight(published, script') BY <1>1 DEF PendingIsRight
<1> QED BY <1>1, <1>2, <1>3, <1>4, <1>5, ScriptMoves

\* A query of the source: the plan stays.
LEMMA ReadKeeps ==
  ASSUME IInv, NEW k \in DOMAIN Canonical, ReadAddress(k) \/ ReadUri(k)
  PROVE  IInv'
<1>1. /\ InPlan(k) /\ Canonical[k] # RegistryPackage /\ UNCHANGED published
      /\ k = script.k /\ script.phase = "plan"
  BY DEF ReadAddress, ReadUri, InPlan
<1>2. Canonical[k] \in ToSet(Canonical) /\ Renamed[Canonical[k]] \in PublishedName
  BY <1>1, Names
<1>3. PICK latest : latest = Latest(Renamed[Canonical[k]]) OBVIOUS
<1>4. /\ latest \in Reading
      /\ latest # Unpublished => /\ latest.address \in Nat /\ latest.uri \in Nat
                                 /\ \E e \in EntriesOf(published, Canonical[k]) : e = latest
  BY <1>1, <1>2, <1>3, LatestIs DEF IInv, EntriesOf
<1>5. PICK source \in Reading :
        /\ script' = [script EXCEPT !.source = source]
        /\ source.address # -1 => \E e \in EntriesOf(published, Canonical[k]) : source.address = e.address
        /\ source.uri \notin {-1, EmptyUri} => \E e \in EntriesOf(published, Canonical[k]) : source.uri = e.uri
  <2>0. script \in Scripts /\ SourceIsRead(published, script) BY DEF IInv, TypeOK, Scripts
  <2>1. CASE ReadAddress(k)
    <3>1. /\ latest # Unpublished
          /\ script' = [script EXCEPT !.source = [script.source EXCEPT !.address = latest.address]]
      BY <1>3, <2>0, <2>1 DEF ReadAddress, Scripts, Reading
    <3>2. PICK source : source = [script.source EXCEPT !.address = latest.address] OBVIOUS
    <3>3. source \in Reading /\ source.address = latest.address /\ source.uri = script.source.uri
      BY <1>4, <2>0, <3>1, <3>2 DEF Scripts, Reading
    <3> QED BY <1>1, <1>4, <2>0, <3>1, <3>2, <3>3 DEF SourceIsRead
  <2>2. CASE ReadUri(k)
    <3>1. PICK uri : uri = IF latest = Unpublished THEN EmptyUri ELSE latest.uri OBVIOUS
    <3>2. script' = [script EXCEPT !.source = [script.source EXCEPT !.uri = uri]]
      BY <1>3, <2>0, <2>2, <3>1 DEF ReadUri, Scripts, Reading
    <3>3. PICK source : source = [script.source EXCEPT !.uri = uri] OBVIOUS
    <3>4. uri \in Nat /\ source \in Reading /\ source.uri = uri /\ source.address = script.source.address
      BY <1>4, <2>0, <3>1, <3>3 DEF Scripts, Reading, EmptyUri
    <3>5. uri # EmptyUri => \E e \in EntriesOf(published, Canonical[k]) : uri = e.uri
      BY <1>4, <3>1
    <3> QED BY <1>1, <2>0, <3>2, <3>3, <3>4, <3>5 DEF SourceIsRead
  <2> QED BY <2>1, <2>2
<1>6. /\ script' \in Scripts /\ script'.source = source /\ script'.phase = script.phase
      /\ script'.k = script.k /\ script'.plan = script.plan
  BY <1>5 DEF IInv, TypeOK, Scripts
<1>7. SourceIsRead(published, script') BY <1>1, <1>5, <1>6 DEF SourceIsRead
<1>8. PlanFollows(script')
  <2>1. PlanFollows(script) BY DEF IInv
  <2> QED BY <1>6, <2>1 DEF PlanFollows
<1>9. PendingIsRight(published, script') BY <1>6 DEF IInv, PendingIsRight, Pending
<1> QED BY <1>1, <1>6, <1>7, <1>8, <1>9, ScriptMoves

\* A line of the plan: if it is to be published, its name is unpublished.
LEMMA DecideKeeps ==
  ASSUME IInv, NEW k \in DOMAIN Canonical, NEW intended \in Reading,
         NEW decision \in {"publish", "skip", "blocked"}, InPlan(k), Decide(k, intended, decision),
         UNCHANGED published,
         decision = "publish" => /\ Latest(Canonical[k]) = Unpublished
                                 /\ MayBePublished(published, Canonical[k], intended)
  PROVE  IInv'
<1>1. /\ k = script.k /\ script.phase = "plan" /\ k = Len(script.plan) + 1
      /\ script \in Scripts /\ script.plan \in Seq(Line)
  BY DEF InPlan, IInv, TypeOK, Scripts, PlanFollows
<1>2. PICK line : line = [name |-> Canonical[k], entry |-> intended, action |-> decision] OBVIOUS
<1>3. line \in Line BY <1>2, Names DEF Line
<1>4. PICK plan : plan = Append(script.plan, line) OBVIOUS
<1>5. /\ plan \in Seq(Line) /\ Len(plan) = k /\ DOMAIN plan = DOMAIN script.plan \cup {k}
      /\ \A i \in DOMAIN script.plan : i # k /\ plan[i] = script.plan[i]
      /\ plan[k] = line
  BY <1>1, <1>3, <1>4
<1>6. script' = [script EXCEPT !.k = k + 1, !.source = Unpublished, !.plan = plan]
  BY <1>1, <1>2, <1>4 DEF Decide, Scripts
<1>7. /\ script' \in Scripts /\ script'.source = Unpublished /\ script'.phase = "plan"
      /\ script'.k = k + 1 /\ script'.plan = plan
  <2>1. k + 1 \in Nat \ {0} /\ Unpublished \in Reading BY Names DEF Reading, Unpublished
  <2>2. script \in Scripts /\ plan \in Seq(Line) /\ script.phase = "plan" BY <1>1, <1>5
  <2> QED BY <1>6, <2>1, <2>2 DEF Scripts
<1>8. SourceIsRead(published, script') BY <1>7 DEF SourceIsRead, Unpublished
<1>9. PlanFollows(script')
  <2>1. /\ k <= Len(Canonical)
        /\ \A i \in DOMAIN script.plan : script.plan[i].name = Canonical[i]
    BY <1>1, Names DEF IInv, PlanFollows
  <2>2. \A i \in DOMAIN plan : plan[i].name = Canonical[i]
    BY <1>2, <1>5, <2>1
  <2> QED BY <1>5, <1>7, <2>1, <2>2 DEF PlanFollows
<1>10. PendingIsRight(published, script')
  <2> SUFFICES ASSUME NEW i \in DOMAIN plan, plan[i].action = "publish"
               PROVE  /\ MayBePublished(published, plan[i].name, plan[i].entry)
                      /\ \A j \in DOMAIN published[plan[i].name] : published[plan[i].name][j].by # "script"
    BY <1>7 DEF PendingIsRight, Pending
  <2>1. CASE i = k
    <3>1. published[Canonical[k]] = <<>> BY <1>2, <1>5, <2>1, Names, LatestIs DEF IInv
    <3> QED BY <1>2, <1>5, <2>1, <3>1
  <2>2. CASE i # k
    BY <1>1, <1>5, <2>2 DEF IInv, PendingIsRight, Pending
  <2> QED BY <2>1, <2>2
<1> QED BY <1>7, <1>8, <1>9, <1>10, ScriptMoves

LEMMA PlanKeeps ==
  ASSUME IInv, NEW k \in DOMAIN Canonical, PlanRename(k) \/ SourceMissing(k) \/ PlanRegistry(k)
  PROVE  IInv'
<1>0. /\ InPlan(k) /\ k = script.k /\ UNCHANGED published
      /\ Canonical[k] \in ToSet(Canonical) /\ Canonical[k] \in PublishedName
  BY Names DEF PlanRename, SourceMissing, PlanRegistry, InPlan
<1>1. CASE PlanRename(k)
  <2>1. PICK decision : decision = Decision(script.source, Latest(Canonical[k])) OBVIOUS
  <2>2. /\ decision \in {"publish", "skip", "blocked"}
        /\ decision = "publish" => Latest(Canonical[k]) = Unpublished
    BY <2>1 DEF Decision
  <2>3. Decide(k, script.source, decision) BY <1>1, <2>1 DEF PlanRename
  <2>4. script.source \in Reading BY DEF IInv, TypeOK
  <2>5. MayBePublished(published, Canonical[k], script.source)
    BY <1>0, <1>1 DEF IInv, SourceIsRead, PlanRename, MayBePublished
  <2> QED BY <1>0, <2>2, <2>3, <2>4, <2>5, DecideKeeps
<1>2. CASE SourceMissing(k)
  <2>1. Unpublished \in Reading BY DEF Unpublished, Reading
  <2> QED BY <1>0, <1>2, <2>1, DecideKeeps DEF SourceMissing
<1>3. CASE PlanRegistry(k)
  <2>1. PICK decision : decision = Decision(RegistryEntry, Latest(RegistryPackage)) OBVIOUS
  <2>2. /\ decision \in {"publish", "skip", "blocked"}
        /\ decision = "publish" => Latest(RegistryPackage) = Unpublished
    BY <2>1 DEF Decision
  <2>3. Decide(k, RegistryEntry, decision) /\ Canonical[k] = RegistryPackage
    BY <1>3, <2>1 DEF PlanRegistry
  <2>4. RegistryEntry \in Reading BY ConvergeAssumption DEF Reading
  <2>5. MayBePublished(published, Canonical[k], RegistryEntry)
    BY <2>3 DEF MayBePublished, EntriesOf
  <2> QED BY <1>0, <2>2, <2>3, <2>4, <2>5, DecideKeeps
<1> QED BY <1>1, <1>2, <1>3

-----------------------------------------------------------------------------
(* Executing it. *)

LEMMA ExecutionKeeps ==
  ASSUME IInv, Execute \/ StopScript \/ \E k \in DOMAIN Canonical : Skip(k)
  PROVE  IInv'
<1>0. /\ script \in Scripts /\ script.k \in Nat \ {0} /\ SourceIsRead(published, script)
      /\ PlanFollows(script) /\ PendingIsRight(published, script)
  BY DEF IInv, TypeOK, Scripts
<1>1. CASE Execute
  <2>1. PICK phase \in {"idle", "execute"} : script' = [script EXCEPT !.k = 1, !.phase = phase]
    BY <1>1 DEF Execute
  <2>2. /\ script' \in Scripts /\ script'.source = script.source /\ script'.phase = phase
        /\ script'.k = 1 /\ script'.plan = script.plan
    <3>1. phase \in {"idle", "plan", "execute"} /\ 1 \in Nat \ {0} BY <2>1
    <3> QED BY <1>0, <2>1, <3>1 DEF Scripts
  <2>3. script.phase = "plan" /\ script.k > Len(Canonical) /\ UNCHANGED published
    BY <1>1 DEF Execute
  <2>4. script.source = Unpublished BY <1>0, <2>3, Names DEF SourceIsRead
  <2>5. SourceIsRead(published, script') BY <2>2, <2>4 DEF SourceIsRead, Unpublished
  <2>6. PlanFollows(script') BY <1>0, <2>2, <2>3 DEF PlanFollows
  <2>7. PendingIsRight(published, script') BY <1>0, <2>2, <2>3 DEF PendingIsRight, Pending
  <2> QED BY <2>2, <2>3, <2>5, <2>6, <2>7, ScriptMoves
<1>2. CASE StopScript
  <2>1. script' = [script EXCEPT !.phase = "idle"] /\ UNCHANGED published BY <1>2 DEF StopScript
  <2>2. /\ script' \in Scripts /\ script'.source = script.source /\ script'.phase = "idle"
        /\ script'.k = script.k /\ script'.plan = script.plan
    BY <1>0, <2>1 DEF Scripts
  <2>3. SourceIsRead(published, script') BY <1>0, <2>2 DEF SourceIsRead
  <2>4. PlanFollows(script') BY <2>2 DEF PlanFollows
  <2>5. PendingIsRight(published, script') BY <2>2 DEF PendingIsRight, Pending
  <2> QED BY <2>1, <2>2, <2>3, <2>4, <2>5, ScriptMoves
<1>3. CASE \E k \in DOMAIN Canonical : Skip(k)
  <2>1. /\ script' = [script EXCEPT !.k = script.k + 1] /\ UNCHANGED published
        /\ script.phase = "execute"
    BY <1>3 DEF Skip, Leave
  <2>2. /\ script' \in Scripts /\ script'.source = script.source /\ script'.phase = "execute"
        /\ script'.k = script.k + 1 /\ script'.plan = script.plan
    BY <1>0, <2>1 DEF Scripts
  <2>3. SourceIsRead(published, script') BY <1>0, <2>1, <2>2 DEF SourceIsRead, Unpublished
  <2>4. PlanFollows(script') BY <1>0, <2>1, <2>2 DEF PlanFollows
  <2>5. \A i \in DOMAIN script.plan : i >= script.k + 1 => i >= script.k
    <3>1. script.plan \in Seq(Line) BY <1>0 DEF Scripts
    <3> QED BY <1>0, <3>1
  <2>6. PendingIsRight(published, script') BY <1>0, <2>1, <2>2, <2>5 DEF PendingIsRight, Pending
  <2> QED BY <2>1, <2>2, <2>3, <2>4, <2>6, ScriptMoves
<1> QED BY <1>1, <1>2, <1>3

\* A version is added, and the script has moved on.
LEMMA RegistryGrows ==
  ASSUME IInv, NEW name \in PublishedName, NEW version \in Version,
         published' = Grown(published, name, version),
         script' \in Scripts, SourceIsRead(published, script'), PlanFollows(script'),
         PendingIsRight(published, script'),
         version.by = "script" =>
           /\ name \in ToSet(Canonical) /\ MayBePublished(published, name, version.entry)
           /\ \A j \in DOMAIN published[name] : published[name][j].by # "script"
           /\ \A i \in DOMAIN script'.plan : Pending(script', i) => script'.plan[i].name # name
  PROVE  IInv'
<1> DEFINE reg == Grown(published, name, version)
<1>0. published \in Registries /\ script'.plan \in Seq(Line) BY DEF IInv, TypeOK, Registries, Scripts
<1>1. /\ reg \in Registries
      /\ \A n \in PublishedName : n # name => reg[n] = published[n]
      /\ \A i \in DOMAIN published[name] : reg[name][i] = published[name][i]
      /\ reg[name][Len(published[name]) + 1] = version
      /\ DOMAIN reg[name] = DOMAIN published[name] \cup {Len(published[name]) + 1}
      /\ published[name] \in Seq(Version)
  BY <1>0, GrownIs DEF Registries
<1>2. \A n \in ToSet(Canonical) : EntriesOf(published, n) \subseteq EntriesOf(reg, n)
  BY <1>0, EntriesGrow
<1>3. \A n \in ToSet(Canonical) : \A entry :
        MayBePublished(published, n, entry) => MayBePublished(reg, n, entry)
  BY <1>0, MayStillBePublished
<1>4. published' = reg OBVIOUS
<1> HIDE DEF reg
<1>5. TypeOK' BY <1>1, <1>4 DEF TypeOK, Registries, Scripts
<1>6. SourceIsRead(reg, script')
  <2>1. script'.k \in DOMAIN Canonical => Canonical[script'.k] \in ToSet(Canonical) BY Names
  <2>2. script'.source.address # -1 \/ script'.source.uri \notin {-1, EmptyUri}
           => script'.source # Unpublished
    BY DEF Unpublished
  <2> QED BY <1>2, <2>1, <2>2 DEF SourceIsRead
<1>7. PendingIsRight(reg, script')
  <2> SUFFICES ASSUME NEW i \in DOMAIN script'.plan, Pending(script', i)
               PROVE  /\ MayBePublished(reg, script'.plan[i].name, script'.plan[i].entry)
                      /\ \A j \in DOMAIN reg[script'.plan[i].name] :
                           reg[script'.plan[i].name][j].by # "script"
    BY DEF PendingIsRight
  <2>1. script'.plan[i].name \in ToSet(Canonical)
    <3>1. script'.plan[i] \in Line BY <1>0
    <3> QED BY <3>1 DEF Line
  <2>2. /\ MayBePublished(published, script'.plan[i].name, script'.plan[i].entry)
        /\ \A j \in DOMAIN published[script'.plan[i].name] :
             published[script'.plan[i].name][j].by # "script"
    BY DEF PendingIsRight
  <2>3. CASE script'.plan[i].name = name
    <3>1. version.by # "script" BY <2>3
    <3> QED BY <1>1, <1>3, <2>1, <2>2, <2>3, <3>1
  <2>4. CASE script'.plan[i].name # name
    BY <1>1, <1>3, <2>1, <2>2, <2>4, Names
  <2> QED BY <2>3, <2>4
<1>8. OnceFrom(reg)
  <2> SUFFICES ASSUME NEW n \in ToSet(Canonical), NEW i \in DOMAIN reg[n], reg[n][i].by = "script"
               PROVE  /\ MayBePublished(reg, n, reg[n][i].entry)
                      /\ \A j \in DOMAIN reg[n] : reg[n][j].by = "script" => i = j
    BY DEF OnceFrom
  <2>0. OnceFrom(published) /\ n \in PublishedName BY Names DEF IInv
  <2>1. CASE n # name
    <3>1. reg[n] = published[n] BY <1>1, <2>0, <2>1
    <3> QED BY <1>3, <2>0, <3>1 DEF OnceFrom
  <2>2. CASE n = name /\ version.by = "script"
    <3>1. \A j \in DOMAIN published[n] : reg[n][j].by # "script" BY <1>1, <2>2
    <3>2. i = Len(published[n]) + 1 /\ \A j \in DOMAIN reg[n] : reg[n][j].by = "script" => j = i
      BY <1>1, <2>2, <3>1
    <3> QED BY <1>1, <1>3, <2>2, <3>2
  <2>3. CASE n = name /\ version.by # "script"
    <3>1. \A j \in DOMAIN reg[n] : reg[n][j].by = "script" =>
            j \in DOMAIN published[n] /\ reg[n][j] = published[n][j]
      BY <1>1, <2>3
    <3> QED BY <1>3, <2>0, <3>1 DEF OnceFrom
  <2> QED BY <2>1, <2>2, <2>3
<1> QED BY <1>4, <1>5, <1>6, <1>7, <1>8 DEF IInv, PlanFollows

LEMMA OtherKeeps ==
  ASSUME IInv, NEW s \in Signer, NEW n \in PublishedName, NEW e \in Entries, PublishOther(s, n, e)
  PROVE  IInv'
<1>1. PICK version : version = [entry |-> e, signer |-> s, by |-> "other"] OBVIOUS
<1>2. version \in Version /\ version.by # "script" BY <1>1, ConvergeAssumption DEF Version
<1>3. published' = Grown(published, n, version) /\ script' = script
  BY <1>1 DEF PublishOther, PublishAs, Grown
<1>4. /\ script' \in Scripts /\ SourceIsRead(published, script') /\ PlanFollows(script')
      /\ PendingIsRight(published, script')
  BY <1>3 DEF IInv, TypeOK, Scripts
<1> QED BY <1>2, <1>3, <1>4, RegistryGrows

LEMMA PublishKeeps ==
  ASSUME IInv, NEW k \in DOMAIN Canonical, PublishLine(k)
  PROVE  IInv'
<1>0. /\ script \in Scripts /\ script.plan \in Seq(Line) /\ script.signer \in Signer
      /\ SourceIsRead(published, script) /\ PlanFollows(script) /\ PendingIsRight(published, script)
  BY DEF IInv, TypeOK, Scripts
<1>1. /\ script.phase = "execute" /\ k = script.k /\ k \in DOMAIN script.plan
      /\ script.plan[k].action = "publish" /\ k \in Nat \ {0}
  BY Names DEF PublishLine, With
<1>2. PICK name, entry : name = script.plan[k].name /\ entry = script.plan[k].entry OBVIOUS
<1>3. /\ name = Canonical[k] /\ name \in ToSet(Canonical) /\ name \in PublishedName
      /\ MayBePublished(published, name, entry)
      /\ \A j \in DOMAIN published[name] : published[name][j].by # "script"
  <2>1. name = Canonical[k] BY <1>0, <1>1, <1>2 DEF PlanFollows
  <2>2. Pending(script, k) BY <1>1 DEF Pending
  <2>3. /\ MayBePublished(published, name, entry)
        /\ \A j \in DOMAIN published[name] : published[name][j].by # "script"
    BY <1>0, <1>1, <1>2, <2>2 DEF PendingIsRight
  <2> QED BY <2>1, <2>3, Names
<1>4. entry \in [address : Nat, uri : Nat]
  <2>1. \A t \in EntriesOf(published, name) : t \in [address : Nat, uri : Nat]
    <3>1. CASE name = RegistryPackage BY <3>1, ConvergeAssumption DEF EntriesOf
    <3>2. CASE name # RegistryPackage
      <4>1. published[Renamed[name]] \in Seq(Version) BY <1>3, <3>2, Names DEF IInv, TypeOK
      <4>2. \A i \in DOMAIN published[Renamed[name]] :
              published[Renamed[name]][i].entry \in [address : Nat, uri : Nat]
        <5> TAKE i \in DOMAIN published[Renamed[name]]
        <5>1. published[Renamed[name]][i] \in Version BY <4>1
        <5> QED BY <5>1 DEF Version
      <4> QED BY <3>2, <4>2 DEF EntriesOf
    <3> QED BY <3>1, <3>2
  <2>2. entry \in Reading
    <3>1. script.plan[k] \in Line BY <1>0, <1>1
    <3> QED BY <1>2, <3>1 DEF Line
  <2> QED BY <1>3, <2>1, <2>2 DEF MayBePublished, Reading, EmptyUri
<1>5. PICK version : version = [entry |-> entry, signer |-> script.signer, by |-> "script"] OBVIOUS
<1>6. version \in Version /\ version.by = "script" /\ version.entry = entry
  BY <1>0, <1>4, <1>5 DEF Version
<1>7. published' = Grown(published, name, version)
  BY <1>2, <1>5 DEF PublishLine, PublishAs, Grown
<1>8. /\ script' \in Scripts /\ script'.plan = script.plan /\ script'.source = script.source
      /\ \/ script'.phase = "execute" /\ script'.k = k + 1
         \/ script'.phase = "idle" /\ script'.k = k
  <2>1. \/ script' = [script EXCEPT !.k = k + 1] \/ script' = [script EXCEPT !.phase = "idle"]
    BY DEF PublishLine, Leave
  <2>2. k + 1 \in Nat \ {0} BY <1>1
  <2> QED BY <1>0, <1>1, <2>1, <2>2 DEF Scripts
<1>9. SourceIsRead(published, script') BY <1>0, <1>1, <1>8 DEF SourceIsRead, Unpublished
<1>10. PlanFollows(script') BY <1>0, <1>1, <1>8 DEF PlanFollows
<1>11. \A i \in DOMAIN script'.plan : Pending(script', i) => Pending(script, i) /\ i # k
  BY <1>0, <1>1, <1>8 DEF Pending
<1>12. PendingIsRight(published, script') BY <1>0, <1>8, <1>11 DEF PendingIsRight
<1>13. \A i \in DOMAIN script'.plan : Pending(script', i) => script'.plan[i].name # name
  <2> SUFFICES ASSUME NEW i \in DOMAIN script.plan, i # k PROVE script.plan[i].name # Canonical[k]
    BY <1>3, <1>8, <1>11
  <2>1. script.plan[i].name = Canonical[i] /\ Len(script.plan) <= Len(Canonical)
    BY <1>0, <1>1 DEF PlanFollows
  <2>2. i \in DOMAIN Canonical BY <1>0, <2>1, Names
  <2> QED BY <2>1, <2>2, ConvergeAssumption DEF IsInjective
<1> QED BY <1>3, <1>6, <1>7, <1>8, <1>9, <1>10, <1>12, <1>13, RegistryGrows

-----------------------------------------------------------------------------
(* The theorems. *)

\* The registry holds versions of the right shape and the run of the script is
\* where the code can be; the plan's pending lines are of names the script has
\* not published, with entries their source has had.
THEOREM Invariant == ConvergeSpec => []IInv
<1>1. ConvergeInit => IInv
  <2> SUFFICES ASSUME ConvergeInit PROVE IInv OBVIOUS
  <2>1. /\ \A n \in PublishedName : published[n] = <<>>
        /\ script.source = Unpublished /\ script.plan = <<>> /\ script.phase = "idle"
    BY DEF ConvergeInit
  <2>2. TypeOK BY ConvergeAssumption DEF ConvergeInit, TypeOK, Reading, Unpublished
  <2>3. OnceFrom(published) BY <2>1, Names DEF OnceFrom
  <2> QED BY <2>1, <2>2, <2>3 DEF IInv, SourceIsRead, PlanFollows, PendingIsRight, Unpublished
<1>2. IInv /\ [ConvergeNext]_convergeVars => IInv'
  <2> SUFFICES ASSUME IInv, [ConvergeNext]_convergeVars PROVE IInv' OBVIOUS
  <2>1. ASSUME NEW s \in Signer, Begin(s) PROVE IInv' BY <2>1, BeginKeeps
  <2>2. ASSUME NEW k \in DOMAIN Canonical, ReadAddress(k) \/ ReadUri(k) PROVE IInv'
    BY <2>2, ReadKeeps
  <2>3. ASSUME NEW k \in DOMAIN Canonical, PlanRename(k) \/ SourceMissing(k) \/ PlanRegistry(k)
        PROVE  IInv'
    BY <2>3, PlanKeeps
  <2>4. ASSUME Execute \/ StopScript \/ \E k \in DOMAIN Canonical : Skip(k) PROVE IInv'
    BY <2>4, ExecutionKeeps
  <2>5. ASSUME NEW k \in DOMAIN Canonical, PublishLine(k) PROVE IInv' BY <2>5, PublishKeeps
  <2>6. ASSUME NEW s \in Signer, NEW n \in PublishedName, NEW e \in Entries, PublishOther(s, n, e)
        PROVE  IInv'
    BY <2>6, OtherKeeps
  <2>7. CASE UNCHANGED convergeVars
    <3>1. published' = published /\ script' = script BY <2>7 DEF convergeVars
    <3> QED BY <3>1, ScriptMoves DEF IInv, TypeOK, Scripts
  <2> QED BY <2>1, <2>2, <2>3, <2>4, <2>5, <2>6, <2>7 DEF ConvergeNext
<1> QED BY <1>1, <1>2, PTL DEF ConvergeSpec

\* However often the script stops halfway and is run again, and whatever others
\* publish, it publishes a canonical name at most once, with an address its
\* source has had and a URI its source has had, or none.
THEOREM PublishesANameOnce == ConvergeSpec => []ConvergesOnce
<1>1. IInv => ConvergesOnce
  <2> SUFFICES ASSUME IInv, NEW n \in ToSet(Canonical)
               PROVE  /\ Cardinality({i \in DOMAIN published[n] : published[n][i].by = "script"}) <= 1
                      /\ \A i \in DOMAIN published[n] : published[n][i].by = "script" =>
                           \E s, t \in EntriesOf(published, n) :
                             published[n][i].entry \in {[address |-> s.address, uri |-> uri] :
                                                          uri \in {t.uri, EmptyUri}}
    BY DEF ConvergesOnce, EntriesOf
  <2>1. /\ published[n] \in Seq(Version)
        /\ \A i \in DOMAIN published[n] : published[n][i].by = "script" =>
             /\ MayBePublished(published, n, published[n][i].entry)
             /\ \A j \in DOMAIN published[n] : published[n][j].by = "script" => i = j
    BY Names DEF IInv, TypeOK, OnceFrom
  <2>2. PICK S : S = {i \in DOMAIN published[n] : published[n][i].by = "script"} OBVIOUS
  <2>3. S = {} \/ \E i : S = {i} BY <2>1, <2>2
  <2>4. Cardinality(S) <= 1
    <3>1. CASE S = {} BY <3>1, FS_EmptySet
    <3>2. ASSUME NEW i, S = {i} PROVE Cardinality(S) <= 1
      <4>1. Cardinality({i}) = 1 BY FS_Singleton
      <4> QED BY <3>2, <4>1
    <3> QED BY <2>3, <3>1, <3>2
  <2>5. ASSUME NEW i \in DOMAIN published[n], published[n][i].by = "script"
        PROVE  \E s, t \in EntriesOf(published, n) :
                 published[n][i].entry \in {[address |-> s.address, uri |-> uri] :
                                              uri \in {t.uri, EmptyUri}}
    <3>1. PICK entry : entry = published[n][i].entry OBVIOUS
    <3>2. entry \in [address : Nat, uri : Nat]
      <4>1. published[n][i] \in Version BY <2>1
      <4> QED BY <3>1, <4>1 DEF Version
    <3>3. PICK s, t \in EntriesOf(published, n) :
            entry.address = s.address /\ entry.uri \in {t.uri, EmptyUri}
      BY <2>1, <2>5, <3>1 DEF MayBePublished
    <3>4. entry = [address |-> s.address, uri |-> entry.uri] BY <3>2, <3>3
    <3> QED BY <3>1, <3>3, <3>4
  <2> QED BY <2>2, <2>4, <2>5
<1> QED BY <1>1, Invariant, PTL
=============================================================================
