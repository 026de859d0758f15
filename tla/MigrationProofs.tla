-------------------------- MODULE MigrationProofs ---------------------------
(***************************************************************************)
(* Theorems about Migration, for any names, accounts, runs, batch sizes    *)
(* and numbers of versions.                                                *)
(*                                                                         *)
(* Both registries only grow.  So what a run has read of the source stays  *)
(* a beginning of it, what it has found on the target stays there, and     *)
(* what a run or the snapshot file promises survives every step of the     *)
(* others.  These promises are constant operators of the registries, with  *)
(* a lemma that they survive when the registries grow.                     *)
(***************************************************************************)
EXTENDS Migration, TLAPS

\* s is the beginning of t.
Begins(s, t) == Len(s) <= Len(t) /\ \A i \in 1..Len(s) : s[i] = t[i]

\* A contract of a snapshot, perhaps one that is still being exported.
ContractIsRight(ow, lg, c) == c.owner = ow[c.name] /\ Begins(c.versions, lg[c.name])
Complete(c) == c.versions # <<>>

Exporting == {"contract", "versions"}
Importing == {"probe", "import"}

\* What a run has exported of the source, and that it follows its index.
ExportIsRight(ord, ow, lg, s) ==
  /\ \A i \in DOMAIN s.contracts : ContractIsRight(ow, lg, s.contracts[i])
  /\ s.at \in Exporting =>
       /\ s.total <= Len(ord) /\ Len(s.contracts) <= s.total
       /\ \A n \in Name : s.before[n] <= Len(lg[n])
       /\ \A n \in Name : s.before[n] > 0 => \E i \in 1..s.total : ord[i] = n
       /\ \A i \in DOMAIN s.contracts : s.contracts[i].name = ord[i]
       /\ \A i \in DOMAIN s.contracts : (s.at = "contract" \/ i < Len(s.contracts)) =>
            /\ Complete(s.contracts[i])
            /\ Len(s.contracts[i].versions) >= s.before[s.contracts[i].name]
  /\ s.at = "versions" =>
       LET c == s.contracts[Len(s.contracts)] IN
       /\ s.contracts # <<>> /\ s.count > 0 /\ s.count <= Len(lg[c.name])
       /\ Len(c.versions) <= s.count /\ s.before[c.name] <= s.count
  /\ s.at \in {"idle", "total", "read"} => s.contracts = <<>> /\ \A n \in Name : s.before[n] = 0
  /\ s.at \in Importing => \A i \in DOMAIN s.contracts : Complete(s.contracts[i])
  /\ s.at \in Importing \cup {"done"} =>
       \A n \in Name : s.before[n] > 0 =>
         \E i \in DOMAIN s.contracts :
           s.contracts[i].name = n /\ Len(s.contracts[i].versions) >= s.before[n]

\* What a run has found missing on the target, and what it has brought there.
ImportIsRight(kind, ow, lg, lgAt, s) ==
  /\ s.at \in Exporting \cup {"total"} => kind # "import"
  /\ s.at \notin Importing \cup Ended => s.probed = 0 /\ s.start = 0 /\ s.remaining = <<>>
  /\ s.at = "probe" => s.start = 0
  /\ s.at = "import" => s.probed = Len(s.contracts)
  /\ s.at \in Importing =>
       /\ \A i \in DOMAIN s.remaining :
            ContractIsRight(ow, lg, s.remaining[i]) /\ Complete(s.remaining[i])
       /\ \A i \in DOMAIN s.contracts : i <= s.probed =>
            \/ lgAt[s.contracts[i].name] # <<>>
            \/ \E j \in DOMAIN s.remaining : s.remaining[j] = s.contracts[i]
       /\ \A j \in DOMAIN s.remaining : j <= s.start => lgAt[s.remaining[j].name] # <<>>
  /\ s.at = "done" /\ kind # "export" =>
       \A i \in DOMAIN s.contracts : lgAt[s.contracts[i].name] # <<>>

FileIsRight(ow, lg, f) ==
  \A i \in DOMAIN f.contracts :
    ContractIsRight(ow, lg, f.contracts[i]) /\ Complete(f.contracts[i])

\* The index of the source has the names that have a history, and only the
\* source writes there.
SourceIsRight ==
  /\ \A i \in DOMAIN order : log[order[i]] # <<>>
  /\ \A n \in Name : IF log[n] = <<>> THEN owner[n] = NoOwner
                     ELSE owner[n] \in Account /\ \E i \in DOMAIN order : order[i] = n

\* The history of a name on the target: k entries of the source, then others.
TargetIsRight(ow, lg, owAt, lgAt, n) ==
  \E k \in 0..Len(lgAt[n]) :
    /\ k <= Len(lg[n]) /\ \A i \in 1..k : lgAt[n][i] = lg[n][i]
    /\ \A i \in (k + 1)..Len(lgAt[n]) : lgAt[n][i].registry = "target"
    /\ k > 0 => owAt[n] = ow[n]

IInv ==
  /\ TypeOK /\ SourceIsRight
  /\ \A r \in Run : /\ ExportIsRight(order, owner, log, run[r])
                    /\ ImportIsRight(Kind[r], owner, log, logAt, run[r])
  /\ FileIsRight(owner, log, file)
  /\ \A n \in Name : TargetIsRight(owner, log, ownerAt, logAt, n)
-----------------------------------------------------------------------------
(* What is promised stays true when the registries grow. *)

SourceGrows(ord, ord2, ow, ow2, lg, lg2) ==
  /\ ord \in Seq(Name) /\ ord2 \in Seq(Name) /\ Begins(ord, ord2)
  /\ \A n \in Name : /\ lg[n] \in Seq(EntryType) /\ lg2[n] \in Seq(EntryType)
                     /\ Begins(lg[n], lg2[n])
                     /\ ow[n] \in Account => ow2[n] = ow[n]
TargetGrows(lgAt, lgAt2) == \A n \in Name : lgAt[n] # <<>> => lgAt2[n] # <<>>

LEMMA ContractAt ==
  ASSUME NEW q \in Seq(ContractType), NEW i \in DOMAIN q
  PROVE  /\ q[i] \in ContractType /\ q[i].name \in Name /\ q[i].owner \in Account
         /\ q[i].versions \in Seq(EntryType)
<1>1. q[i] \in ContractType
  OBVIOUS
<1> QED
  BY <1>1 DEF ContractType

LEMMA ContractStays ==
  ASSUME NEW ord, NEW ord2, NEW ow, NEW ow2, NEW lg, NEW lg2,
         SourceGrows(ord, ord2, ow, ow2, lg, lg2),
         NEW c \in ContractType, ContractIsRight(ow, lg, c)
  PROVE  ContractIsRight(ow2, lg2, c)
<1>1. /\ c.name \in Name /\ c.owner \in Account /\ c.versions \in Seq(EntryType)
  BY DEF ContractType
<1>2. c.owner = ow2[c.name]
  BY <1>1 DEF SourceGrows, ContractIsRight
<1>3. Begins(c.versions, lg2[c.name])
  <2> DEFINE v == c.versions
             h == lg[c.name]
             h2 == lg2[c.name]
  <2>1. /\ v \in Seq(EntryType) /\ h \in Seq(EntryType) /\ h2 \in Seq(EntryType)
        /\ Begins(v, h) /\ Begins(h, h2)
    BY <1>1 DEF SourceGrows, ContractIsRight
  <2> HIDE DEF v, h, h2
  <2>2. Begins(v, h2)
    BY <2>1 DEF Begins
  <2> QED
    BY <2>2 DEF v, h2
<1> QED
  BY <1>2, <1>3 DEF ContractIsRight

LEMMA FileStays ==
  ASSUME NEW ord, NEW ord2, NEW ow, NEW ow2, NEW lg, NEW lg2,
         SourceGrows(ord, ord2, ow, ow2, lg, lg2),
         NEW f, f.contracts \in Seq(ContractType), FileIsRight(ow, lg, f)
  PROVE  FileIsRight(ow2, lg2, f)
BY ContractStays DEF FileIsRight

LEMMA ExportStays ==
  ASSUME NEW ord, NEW ord2, NEW ow, NEW ow2, NEW lg, NEW lg2,
         SourceGrows(ord, ord2, ow, ow2, lg, lg2),
         NEW s \in RunType, ExportIsRight(ord, ow, lg, s)
  PROVE  ExportIsRight(ord2, ow2, lg2, s)
<1>1. /\ s.contracts \in Seq(ContractType) /\ s.total \in Nat /\ s.count \in Nat
      /\ s.before \in [Name -> Nat]
  BY DEF RunType
<1>2. \A i \in DOMAIN s.contracts : ContractIsRight(ow2, lg2, s.contracts[i])
  BY <1>1, ContractStays DEF ExportIsRight
<1>3. ASSUME s.at \in Exporting
      PROVE  /\ s.total <= Len(ord2) /\ Len(s.contracts) <= s.total
             /\ \A n \in Name : s.before[n] > 0 => \E i \in 1..s.total : ord2[i] = n
             /\ \A i \in DOMAIN s.contracts : s.contracts[i].name = ord2[i]
  <2>1. /\ s.total <= Len(ord) /\ Len(s.contracts) <= s.total
        /\ \A n \in Name : s.before[n] > 0 => \E i \in 1..s.total : ord[i] = n
        /\ \A i \in DOMAIN s.contracts : s.contracts[i].name = ord[i]
    BY <1>3 DEF ExportIsRight
  <2>2. /\ Len(ord) \in Nat /\ Len(ord2) \in Nat
        /\ Len(ord) <= Len(ord2) /\ \A i \in 1..Len(ord) : ord2[i] = ord[i]
    BY DEF SourceGrows, Begins
  <2>3. \A i \in 1..s.total : ord2[i] = ord[i]
    BY <1>1, <2>1, <2>2
  <2>4. DOMAIN s.contracts \subseteq 1..s.total
    BY <1>1, <2>1
  <2> QED
    BY <1>1, <2>1, <2>2, <2>3, <2>4
<1> DEFINE c == s.contracts[Len(s.contracts)]
<1>4. ASSUME s.contracts # <<>>, s.count <= Len(lg[c.name])
      PROVE  s.count <= Len(lg2[c.name])
  <2>1. c \in ContractType
    BY <1>1, <1>4
  <2>2. c.name \in Name
    BY <2>1 DEF ContractType
  <2> HIDE DEF c
  <2>3. Len(lg[c.name]) \in Nat /\ Len(lg2[c.name]) \in Nat /\ Len(lg[c.name]) <= Len(lg2[c.name])
    BY <2>2 DEF SourceGrows, Begins
  <2> QED
    BY <1>1, <1>4, <2>3
<1>5. ASSUME NEW n \in Name, s.before[n] <= Len(lg[n]) PROVE s.before[n] <= Len(lg2[n])
  BY <1>1, <1>5 DEF SourceGrows, Begins
<1> QED
  BY <1>2, <1>3, <1>4, <1>5 DEF ExportIsRight

LEMMA ImportStays ==
  ASSUME NEW ord, NEW ord2, NEW ow, NEW ow2, NEW lg, NEW lg2, NEW lgAt, NEW lgAt2,
         SourceGrows(ord, ord2, ow, ow2, lg, lg2), TargetGrows(lgAt, lgAt2),
         NEW s \in RunType, NEW kind, ImportIsRight(kind, ow, lg, lgAt, s)
  PROVE  ImportIsRight(kind, ow2, lg2, lgAt2, s)
<1>1. /\ s.contracts \in Seq(ContractType) /\ s.remaining \in Seq(ContractType)
  BY DEF RunType
<1>2. /\ \A i \in DOMAIN s.contracts : s.contracts[i].name \in Name
      /\ \A i \in DOMAIN s.remaining : s.remaining[i].name \in Name /\ s.remaining[i] \in ContractType
  BY <1>1, ContractAt
<1>3. \A i \in DOMAIN s.remaining :
        ContractIsRight(ow, lg, s.remaining[i]) => ContractIsRight(ow2, lg2, s.remaining[i])
  BY <1>2, ContractStays
<1>4. /\ \A i \in DOMAIN s.contracts :
           lgAt[s.contracts[i].name] # <<>> => lgAt2[s.contracts[i].name] # <<>>
      /\ \A i \in DOMAIN s.remaining :
           lgAt[s.remaining[i].name] # <<>> => lgAt2[s.remaining[i].name] # <<>>
  BY <1>2 DEF TargetGrows
<1>5. ASSUME s.at \in Importing
      PROVE  /\ \A i \in DOMAIN s.contracts : i <= s.probed =>
                  \/ lgAt2[s.contracts[i].name] # <<>>
                  \/ \E j \in DOMAIN s.remaining : s.remaining[j] = s.contracts[i]
             /\ \A j \in DOMAIN s.remaining : j <= s.start => lgAt2[s.remaining[j].name] # <<>>
  BY <1>4, <1>5 DEF ImportIsRight
<1>6. ASSUME s.at \in Importing
      PROVE  \A i \in DOMAIN s.remaining :
               ContractIsRight(ow2, lg2, s.remaining[i]) /\ Complete(s.remaining[i])
  BY <1>3, <1>6 DEF ImportIsRight
<1>7. ASSUME s.at = "done", kind # "export"
      PROVE  \A i \in DOMAIN s.contracts : lgAt2[s.contracts[i].name] # <<>>
  BY <1>4, <1>7 DEF ImportIsRight
<1> QED
  BY <1>5, <1>6, <1>7 DEF ImportIsRight

LEMMA TargetStays ==
  ASSUME NEW ord, NEW ord2, NEW ow, NEW ow2, NEW lg, NEW lg2, NEW owAt, NEW lgAt,
         SourceGrows(ord, ord2, ow, ow2, lg, lg2),
         NEW n \in Name, lgAt[n] \in Seq(EntryType), TargetIsRight(ow, lg, owAt, lgAt, n),
         lg[n] # <<>> => ow[n] \in Account
  PROVE  TargetIsRight(ow2, lg2, owAt, lgAt, n)
<1>1. PICK k \in 0..Len(lgAt[n]) :
        /\ k <= Len(lg[n]) /\ \A i \in 1..k : lgAt[n][i] = lg[n][i]
        /\ \A i \in (k + 1)..Len(lgAt[n]) : lgAt[n][i].registry = "target"
        /\ k > 0 => owAt[n] = ow[n]
  BY DEF TargetIsRight
<1>2. /\ lg[n] \in Seq(EntryType) /\ lg2[n] \in Seq(EntryType)
      /\ Len(lg[n]) <= Len(lg2[n]) /\ \A i \in 1..Len(lg[n]) : lg[n][i] = lg2[n][i]
  BY DEF SourceGrows, Begins
<1>3. k <= Len(lg2[n]) /\ \A i \in 1..k : lgAt[n][i] = lg2[n][i]
  BY <1>1, <1>2
<1>4. k > 0 => owAt[n] = ow2[n]
  <2>1. k > 0 => lg[n] # <<>>
    BY <1>1, <1>2
  <2> QED
    BY <1>1, <2>1 DEF SourceGrows
<1> QED
  BY <1>1, <1>3, <1>4 DEF TargetIsRight
-----------------------------------------------------------------------------
(* Types. *)

LEMMA StepTypes ==
  ASSUME TypeOK, NEW r \in Run, NEW s \in RunType, run' = [run EXCEPT ![r] = s],
         UNCHANGED <<source, target, file>>
  PROVE  TypeOK'
BY DEF TypeOK, source, target

LEMMA MinType ==
  ASSUME NEW a \in Nat, NEW b \in Nat
  PROVE  Min({a, b}) \in {a, b} /\ Min({a, b}) <= a /\ Min({a, b}) <= b
BY DEF Min

LEMMA BatchTypes ==
  ASSUME TypeOK, NEW r \in Run
  PROVE  /\ Batch(r) \in Seq(ContractType)
         /\ \A i \in DOMAIN Batch(r) :
              /\ run[r].start + i \in DOMAIN run[r].remaining
              /\ Batch(r)[i] = run[r].remaining[run[r].start + i]
         /\ \A j \in DOMAIN run[r].remaining :
              run[r].start < j /\ j <= NextStart(r) =>
                \E i \in DOMAIN Batch(r) : Batch(r)[i] = run[r].remaining[j]
<1> DEFINE q == run[r].remaining
           m == Min({run[r].start + BatchSize[r], Len(q)})
           n == run[r].start
<1>1. q \in Seq(ContractType) /\ n \in Nat /\ BatchSize[r] \in Nat
  BY RunsAssumption DEF TypeOK, RunType
<1>2. m \in Nat /\ m <= Len(q) /\ m <= n + BatchSize[r] /\ m \in {n + BatchSize[r], Len(q)}
  <2>1. n + BatchSize[r] \in Nat /\ Len(q) \in Nat
    BY <1>1
  <2>2. /\ Min({n + BatchSize[r], Len(q)}) \in {n + BatchSize[r], Len(q)}
        /\ Min({n + BatchSize[r], Len(q)}) <= n + BatchSize[r]
        /\ Min({n + BatchSize[r], Len(q)}) <= Len(q)
    BY <2>1, MinType
  <2>3. m = Min({n + BatchSize[r], Len(q)})
    OBVIOUS
  <2> HIDE DEF m, n, q
  <2> QED
    BY <2>1, <2>2, <2>3
<1>3. Batch(r) = SubSeq(q, n + 1, m)
  BY DEF Batch
<1> HIDE DEF q, m, n
<1>4. /\ SubSeq(q, n + 1, m) \in Seq(ContractType)
      /\ DOMAIN SubSeq(q, n + 1, m) = 1..(m - n)
      /\ \A i \in 1..(m - n) : SubSeq(q, n + 1, m)[i] = q[n + i]
  BY <1>1, <1>2
<1>5. \A i \in 1..(m - n) : n + i \in DOMAIN q
  BY <1>1, <1>2
<1>6. \A j \in DOMAIN q : n < j /\ j <= n + BatchSize[r] => j - n \in 1..(m - n) /\ n + (j - n) = j
  BY <1>1, <1>2
<1> QED
  BY <1>3, <1>4, <1>5, <1>6 DEF q, n, NextStart

\* What an import makes of one name.
LEMMA ImportOf ==
  ASSUME NEW batch \in Seq(ContractType), AdminImportContracts(batch), NEW n \in Name
  PROVE  \/ \E i \in DOMAIN batch : /\ batch[i].name = n
                                    /\ ownerAt'[n] = batch[i].owner
                                    /\ logAt'[n] = batch[i].versions
         \/ /\ \A i \in DOMAIN batch : batch[i].name # n
            /\ ownerAt'[n] = ownerAt[n] /\ logAt'[n] = logAt[n]
<1>1. CASE \E c \in ToSet(batch) : c.name = n
  <2>1. PICK c \in ToSet(batch) : /\ c.name = n
                                  /\ c = CHOOSE d \in ToSet(batch) : d.name = n
    BY <1>1
  <2>2. ownerAt'[n] = c.owner /\ logAt'[n] = c.versions
    BY <1>1, <2>1 DEF AdminImportContracts
  <2>3. \E i \in DOMAIN batch : batch[i] = c
    BY <2>1 DEF ToSet
  <2> QED
    BY <2>1, <2>2, <2>3
<1>2. CASE ~ \E c \in ToSet(batch) : c.name = n
  <2>1. ownerAt'[n] = ownerAt[n] /\ logAt'[n] = logAt[n]
    BY <1>2 DEF AdminImportContracts
  <2>2. \A i \in DOMAIN batch : batch[i].name # n
    BY <1>2 DEF ToSet
  <2> QED
    BY <2>1, <2>2
<1> QED
  BY <1>1, <1>2

LEMMA ImportTypes ==
  ASSUME TypeOK, NEW batch \in Seq(ContractType), AdminImportContracts(batch)
  PROVE  /\ ownerAt' \in [Name -> Account \cup {NoOwner}]
         /\ logAt' \in [Name -> Seq(EntryType)]
<1>1. DOMAIN ownerAt' = Name /\ DOMAIN logAt' = Name
      /\ ownerAt' = [n \in Name |-> ownerAt'[n]] /\ logAt' = [n \in Name |-> logAt'[n]]
  BY DEF AdminImportContracts
<1>2. ASSUME NEW n \in Name
      PROVE  ownerAt'[n] \in Account \cup {NoOwner} /\ logAt'[n] \in Seq(EntryType)
  <2>1. CASE \E i \in DOMAIN batch : /\ ownerAt'[n] = batch[i].owner
                                     /\ logAt'[n] = batch[i].versions
    BY <2>1, ContractAt
  <2>2. CASE ownerAt'[n] = ownerAt[n] /\ logAt'[n] = logAt[n]
    BY <2>2 DEF TypeOK
  <2> QED
    BY <2>1, <2>2, ImportOf
<1> QED
  BY <1>1, <1>2
-----------------------------------------------------------------------------
(* A run's own steps. *)

\* s is a right state of the run r, once the target holds lgAt.
RightNext(r, s, lgAt) ==
  /\ s \in RunType
  /\ ExportIsRight(order, owner, log, s) /\ ImportIsRight(Kind[r], owner, log, lgAt, s)

LEMMA RunFacts ==
  ASSUME IInv, NEW r \in Run
  PROVE  /\ run[r] \in RunType /\ run[r].at \in Steps /\ run[r].contracts \in Seq(ContractType)
         /\ run[r].remaining \in Seq(ContractType)
         /\ run[r].total \in Nat /\ run[r].count \in Nat /\ run[r].probed \in Nat
         /\ run[r].start \in Nat /\ run[r].before \in [Name -> Nat]
         /\ ExportIsRight(order, owner, log, run[r])
         /\ ImportIsRight(Kind[r], owner, log, logAt, run[r])
         /\ order \in Seq(Name) /\ \A n \in Name : log[n] \in Seq(EntryType)
BY DEF IInv, TypeOK, RunType

LEMMA EndsRight ==
  ASSUME IInv, NEW r \in Run, NEW end \in {"failed", "crashed"}, NEW lgAt
  PROVE  RightNext(r, [run[r] EXCEPT !.at = end], lgAt)
<1> DEFINE o == run[r]
           s == [o EXCEPT !.at = end]
<1>1. s \in RunType /\ s.at = end /\ s.contracts = o.contracts
  BY RunFacts DEF RunType, Steps, Ended
<1>2. \A i \in DOMAIN o.contracts : ContractIsRight(owner, log, o.contracts[i])
  BY RunFacts DEF ExportIsRight
<1> HIDE DEF o, s
<1>3. ExportIsRight(order, owner, log, s)
  BY <1>1, <1>2 DEF ExportIsRight, Exporting, Importing
<1>4. ImportIsRight(Kind[r], owner, log, lgAt, s)
  BY <1>1 DEF ImportIsRight, Exporting, Importing, Ended
<1> QED
  BY <1>1, <1>3, <1>4 DEF RightNext, s, o

LEMMA StartRight ==
  ASSUME IInv, NEW r \in Run, Start(r)
  PROVE  \E s : run' = [run EXCEPT ![r] = s] /\ RightNext(r, s, logAt')
<1> DEFINE o == run[r]
           s == [o EXCEPT !.at = IF Kind[r] = "import" THEN "read" ELSE "total"]
<1>1. /\ s \in RunType /\ s.at = IF Kind[r] = "import" THEN "read" ELSE "total"
      /\ s.contracts = o.contracts /\ s.before = o.before
      /\ s.probed = o.probed /\ s.start = o.start /\ s.remaining = o.remaining
  BY RunFacts DEF RunType, Steps
<1>2. /\ o.at = "idle" /\ run' = [run EXCEPT ![r] = s] /\ logAt' = logAt
  BY DEF Start, At, Goto, target
<1>3. /\ o.contracts = <<>> /\ \A n \in Name : o.before[n] = 0
      /\ o.probed = 0 /\ o.start = 0 /\ o.remaining = <<>>
  BY <1>2, RunFacts DEF ExportIsRight, ImportIsRight, Importing, Ended
<1> HIDE DEF s
<1>4. ExportIsRight(order, owner, log, s)
  BY <1>1, <1>3 DEF ExportIsRight, Exporting, Importing
<1>5. ImportIsRight(Kind[r], owner, log, logAt', s)
  BY <1>1, <1>3 DEF ImportIsRight, Exporting, Importing, Ended
<1> QED
  BY <1>1, <1>2, <1>4, <1>5 DEF RightNext

LEMMA QueryContractCountRight ==
  ASSUME IInv, NEW r \in Run, QueryContractCount(r)
  PROVE  \E s : run' = [run EXCEPT ![r] = s] /\ RightNext(r, s, logAt')
<1> DEFINE o == run[r]
           s == [o EXCEPT !.at = "contract", !.total = Len(order),
                          !.before = [n \in Name |-> Len(log[n])]]
<1>1. /\ s \in RunType /\ s.at = "contract" /\ s.total = Len(order)
      /\ s.before = [n \in Name |-> Len(log[n])] /\ s.contracts = o.contracts
      /\ s.probed = o.probed /\ s.start = o.start /\ s.remaining = o.remaining
  <2>1. [n \in Name |-> Len(log[n])] \in [Name -> Nat] /\ Len(order) \in Nat
    BY RunFacts
  <2> DEFINE b == [n \in Name |-> Len(log[n])]
             t == Len(order)
  <2>2. b \in [Name -> Nat] /\ t \in Nat /\ s = [o EXCEPT !.at = "contract", !.total = t, !.before = b]
    BY <2>1
  <2>3. o \in RunType
    BY RunFacts
  <2> HIDE DEF b, t, o, s
  <2>4. /\ s \in RunType /\ s.at = "contract" /\ s.total = t
        /\ s.before = b /\ s.contracts = o.contracts
        /\ s.probed = o.probed /\ s.start = o.start /\ s.remaining = o.remaining
    BY <2>2, <2>3 DEF RunType, Steps
  <2> QED
    BY <2>4 DEF b, t
<1>2. o.at = "total" /\ run' = [run EXCEPT ![r] = s] /\ logAt' = logAt
  BY DEF QueryContractCount, At, target
<1>3. /\ o.contracts = <<>> /\ Kind[r] # "import"
      /\ o.probed = 0 /\ o.start = 0 /\ o.remaining = <<>>
  BY <1>2, RunFacts DEF ExportIsRight, ImportIsRight, Importing, Ended
<1>4. \A n \in Name : Len(log[n]) > 0 => \E i \in 1..Len(order) : order[i] = n
  BY RunFacts DEF IInv, SourceIsRight
<1> HIDE DEF s
<1>5. ExportIsRight(order, owner, log, s)
  BY <1>1, <1>3, <1>4, RunFacts DEF ExportIsRight, Exporting, Importing
<1>6. ImportIsRight(Kind[r], owner, log, logAt', s)
  BY <1>1, <1>3 DEF ImportIsRight, Exporting, Importing, Ended
<1> QED
  BY <1>1, <1>2, <1>5, <1>6 DEF RightNext

LEMMA ExportContractRight ==
  ASSUME IInv, NEW r \in Run, ExportContract(r)
  PROVE  \E s : run' = [run EXCEPT ![r] = s] /\ RightNext(r, s, logAt')
<1> DEFINE o == run[r]
           n == order[NextIndex(r)]
           c == Contract(n)
           m == Len(o.contracts)
           s == [o EXCEPT !.at = "versions", !.count = VersionCount(n),
                          !.contracts = Append(o.contracts, c)]
<1>1. o.at = "contract" /\ run' = [run EXCEPT ![r] = s] /\ logAt' = logAt
  BY DEF ExportContract, At, target
<1>2. /\ o.total <= Len(order) /\ m <= o.total
      /\ \A k \in Name : o.before[k] <= Len(log[k])
      /\ \A k \in Name : o.before[k] > 0 => \E i \in 1..o.total : order[i] = k
      /\ \A i \in DOMAIN o.contracts : /\ o.contracts[i].name = order[i]
                                       /\ Complete(o.contracts[i])
                                       /\ Len(o.contracts[i].versions) >= o.before[o.contracts[i].name]
      /\ \A i \in DOMAIN o.contracts : ContractIsRight(owner, log, o.contracts[i])
      /\ Kind[r] # "import" /\ o.probed = 0 /\ o.start = 0 /\ o.remaining = <<>>
  BY <1>1, RunFacts DEF ExportIsRight, ImportIsRight, Exporting, Importing, Ended
<1>3. m + 1 <= o.total /\ NextIndex(r) = m + 1 /\ m \in Nat /\ m + 1 \in DOMAIN order
  BY <1>2, RunFacts DEF ExportContract, NextIndex
<1>4. n \in Name /\ log[n] # <<>> /\ owner[n] \in Account /\ log[n] \in Seq(EntryType)
  BY <1>3, RunFacts DEF IInv, SourceIsRight
<1>5. /\ c \in ContractType /\ c.name = n /\ c.owner = owner[n] /\ c.versions = <<>>
      /\ VersionCount(n) = Len(log[n]) /\ Len(log[n]) \in Nat /\ Len(log[n]) > 0
  BY <1>4 DEF Contract, ContractType, VersionCount
<1>6. ContractIsRight(owner, log, c)
  BY <1>5 DEF ContractIsRight, Begins
<1> HIDE DEF c, n
<1>7. /\ Append(o.contracts, c) \in Seq(ContractType) /\ Len(Append(o.contracts, c)) = m + 1
      /\ DOMAIN Append(o.contracts, c) = 1..(m + 1) /\ DOMAIN o.contracts = 1..m
      /\ Append(o.contracts, c)[m + 1] = c /\ Append(o.contracts, c) # <<>>
      /\ \A i \in 1..m : Append(o.contracts, c)[i] = o.contracts[i]
  <2> DEFINE q == o.contracts
  <2>1. q \in Seq(ContractType)
    BY RunFacts
  <2> HIDE DEF q
  <2>2. /\ Append(q, c) \in Seq(ContractType) /\ Len(Append(q, c)) = Len(q) + 1
        /\ DOMAIN Append(q, c) = 1..(Len(q) + 1) /\ DOMAIN q = 1..Len(q)
        /\ Append(q, c)[Len(q) + 1] = c /\ Append(q, c) # <<>>
        /\ \A i \in 1..Len(q) : Append(q, c)[i] = q[i]
    BY <1>5, <2>1
  <2> QED
    BY <2>2 DEF q
<1>8. /\ s \in RunType /\ s.at = "versions" /\ s.count = Len(log[n])
      /\ s.contracts = Append(o.contracts, c) /\ s.total = o.total /\ s.before = o.before
      /\ s.probed = o.probed /\ s.start = o.start /\ s.remaining = o.remaining
  <2> DEFINE q == Append(o.contracts, c)
             k == VersionCount(n)
  <2>1. q \in Seq(ContractType) /\ k \in Nat /\ k = Len(log[n]) /\ o \in RunType
    BY <1>5, <1>7, RunFacts
  <2>2. s = [o EXCEPT !.at = "versions", !.count = k, !.contracts = q]
    OBVIOUS
  <2> HIDE DEF q, k, o, s
  <2>3. /\ s \in RunType /\ s.at = "versions" /\ s.count = k /\ s.contracts = q
        /\ s.total = o.total /\ s.before = o.before
        /\ s.probed = o.probed /\ s.start = o.start /\ s.remaining = o.remaining
    BY <2>1, <2>2 DEF RunType, Steps
  <2> QED
    BY <2>1, <2>3 DEF q
<1> HIDE DEF s, m
<1>9. ExportIsRight(order, owner, log, s)
  <2>1. \A i \in DOMAIN s.contracts : /\ ContractIsRight(owner, log, s.contracts[i])
                                      /\ s.contracts[i].name = order[i]
    BY <1>2, <1>3, <1>5, <1>6, <1>7, <1>8 DEF n
  <2>2. Len(s.contracts) = m + 1 /\ s.contracts[m + 1] = c
    BY <1>7, <1>8
  <2>3. \A i \in DOMAIN s.contracts : i < Len(s.contracts) =>
          /\ Complete(s.contracts[i])
          /\ Len(s.contracts[i].versions) >= s.before[s.contracts[i].name]
    BY <1>2, <1>3, <1>7, <1>8, <2>2
  <2>4. /\ s.contracts # <<>> /\ s.count > 0 /\ s.count <= Len(log[c.name])
        /\ Len(c.versions) <= s.count /\ s.before[c.name] <= s.count
    <3>1. s.contracts # <<>>
      BY <1>7, <1>8
    <3>2. s.count > 0 /\ s.count <= Len(log[c.name]) /\ Len(c.versions) <= s.count
      BY <1>5, <1>8
    <3>3. s.before[c.name] <= s.count
      BY <1>2, <1>4, <1>5, <1>8
    <3> QED
      BY <3>1, <3>2, <3>3
  <2> QED
    BY <1>2, <1>3, <1>8, <2>1, <2>2, <2>3, <2>4 DEF ExportIsRight, Exporting, Importing
<1>10. ImportIsRight(Kind[r], owner, log, logAt', s)
  BY <1>2, <1>8 DEF ImportIsRight, Exporting, Importing, Ended
<1> QED
  BY <1>1, <1>8, <1>9, <1>10 DEF RightNext

LEMMA ExportVersionRight ==
  ASSUME IInv, NEW r \in Run, ExportVersion(r)
  PROVE  \E s : run' = [run EXCEPT ![r] = s] /\ RightNext(r, s, logAt')
<1> DEFINE o == run[r]
           m == Len(o.contracts)
           c == o.contracts[m]
           v == Len(c.versions)
<1>1. o.at = "versions" /\ logAt' = logAt
  BY DEF ExportVersion, At, target
<1>2. /\ o.total <= Len(order) /\ m <= o.total
      /\ \A k \in Name : o.before[k] <= Len(log[k])
      /\ \A k \in Name : o.before[k] > 0 => \E i \in 1..o.total : order[i] = k
      /\ \A i \in DOMAIN o.contracts : o.contracts[i].name = order[i]
      /\ \A i \in DOMAIN o.contracts : i < m =>
           /\ Complete(o.contracts[i])
           /\ Len(o.contracts[i].versions) >= o.before[o.contracts[i].name]
      /\ \A i \in DOMAIN o.contracts : ContractIsRight(owner, log, o.contracts[i])
      /\ o.contracts # <<>> /\ o.count > 0 /\ o.count <= Len(log[c.name])
      /\ v <= o.count /\ o.before[c.name] <= o.count
      /\ Kind[r] # "import" /\ o.probed = 0 /\ o.start = 0 /\ o.remaining = <<>>
  BY <1>1, RunFacts DEF ExportIsRight, ImportIsRight, Exporting, Importing, Ended
<1>3. m \in 1..m /\ m \in Nat /\ m > 0 /\ DOMAIN o.contracts = 1..m
  <2>1. o.contracts \in Seq(ContractType) /\ o.contracts # <<>>
    BY <1>2, RunFacts
  <2> QED
    BY <2>1
<1>4. /\ c \in ContractType /\ c.name \in Name /\ c.versions \in Seq(EntryType) /\ v \in Nat
      /\ log[c.name] \in Seq(EntryType)
  <2>1. c \in ContractType /\ c.name \in Name /\ c.versions \in Seq(EntryType)
    BY <1>3, RunFacts, ContractAt
  <2> HIDE DEF c
  <2> QED
    BY <2>1, RunFacts
<1>5. ContractIsRight(owner, log, c)
  BY <1>2, <1>3
<1>6. CASE v < o.count
  <2> DEFINE e == EntryAt(c.name, v)
             d == [c EXCEPT !.versions = Append(c.versions, e)]
             q == [o.contracts EXCEPT ![m] = d]
             s == [o EXCEPT !.contracts = q]
  <2>1. run' = [run EXCEPT ![r] = s]
    BY <1>6 DEF ExportVersion
  <2> HIDE DEF c, v
  <2>2. e = log[c.name][v + 1] /\ e \in EntryType /\ v + 1 <= Len(log[c.name])
    <3>1. o.count \in Nat
      BY RunFacts
    <3>2. v + 1 \in 1..Len(log[c.name])
      BY <1>2, <1>4, <1>6, <3>1
    <3> QED
      BY <1>4, <3>2 DEF EntryAt
  <2>3. /\ d \in ContractType /\ d.name = c.name /\ d.owner = c.owner
        /\ d.versions = Append(c.versions, e)
    <3>1. Append(c.versions, e) \in Seq(EntryType)
      BY <1>4, <2>2
    <3> DEFINE w == Append(c.versions, e)
    <3>2. d = [c EXCEPT !.versions = w] /\ w \in Seq(EntryType)
      BY <3>1
    <3> HIDE DEF e, w, d
    <3>3. /\ d \in ContractType /\ d.name = c.name /\ d.owner = c.owner /\ d.versions = w
      BY <1>4, <3>2 DEF ContractType
    <3> QED
      BY <3>3 DEF w
  <2>4. Begins(d.versions, log[c.name]) /\ Len(d.versions) = v + 1
    <3>1. Begins(c.versions, log[c.name])
      BY <1>5 DEF ContractIsRight
    <3> HIDE DEF e, d
    <3> QED
      BY <1>4, <2>2, <2>3, <3>1 DEF Begins, v
  <2>5. ContractIsRight(owner, log, d)
    BY <1>5, <2>3, <2>4 DEF ContractIsRight
  <2>6. /\ q \in Seq(ContractType) /\ DOMAIN q = 1..m /\ Len(q) = m
        /\ q[m] = d /\ \A i \in 1..m : i # m => q[i] = o.contracts[i]
    <3> HIDE DEF d
    <3> QED
      BY <1>3, <2>3, RunFacts
  <2>7. /\ s \in RunType /\ s.at = "versions" /\ s.contracts = q
        /\ s.total = o.total /\ s.before = o.before /\ s.count = o.count
        /\ s.probed = o.probed /\ s.start = o.start /\ s.remaining = o.remaining
    <3> HIDE DEF q
    <3> QED
      BY <1>1, <2>6, RunFacts DEF RunType, Steps
  <2> HIDE DEF s, q, d, e
  <2>8. ExportIsRight(order, owner, log, s)
    <3>1. \A i \in DOMAIN s.contracts : /\ ContractIsRight(owner, log, s.contracts[i])
                                        /\ s.contracts[i].name = order[i]
      BY <1>2, <1>3, <2>3, <2>5, <2>6, <2>7 DEF c
    <3>2. Len(s.contracts) = m /\ s.contracts[m] = d /\ s.contracts # <<>>
      BY <1>3, <2>6, <2>7
    <3>3. \A i \in DOMAIN s.contracts : i < Len(s.contracts) =>
            /\ Complete(s.contracts[i])
            /\ Len(s.contracts[i].versions) >= s.before[s.contracts[i].name]
      BY <1>2, <1>3, <2>6, <2>7, <3>2
    <3>4. /\ s.count > 0 /\ s.count <= Len(log[d.name])
          /\ Len(d.versions) <= s.count /\ s.before[d.name] <= s.count
      <4>1. o.count \in Nat
        BY RunFacts
      <4>2. v + 1 <= o.count
        BY <1>4, <1>6, <4>1
      <4> QED
        BY <1>2, <2>3, <2>4, <2>7, <4>2
    <3> HIDE DEF m
    <3> QED
      BY <1>2, <2>7, <3>1, <3>2, <3>3, <3>4 DEF ExportIsRight, Exporting, Importing
  <2>9. ImportIsRight(Kind[r], owner, log, logAt', s)
    BY <1>2, <2>7 DEF ImportIsRight, Exporting, Importing, Ended
  <2> QED
    BY <2>1, <2>7, <2>8, <2>9 DEF RightNext
<1>7. CASE ~(v < o.count)
  <2> DEFINE s == [o EXCEPT !.at = "contract"]
  <2>1. run' = [run EXCEPT ![r] = s]
    BY <1>7 DEF ExportVersion, Goto
  <2>2. /\ s \in RunType /\ s.at = "contract" /\ s.contracts = o.contracts
        /\ s.total = o.total /\ s.before = o.before
        /\ s.probed = o.probed /\ s.start = o.start /\ s.remaining = o.remaining
    BY RunFacts DEF RunType, Steps
  <2>3. v = o.count
    <3>1. o.count \in Nat
      BY RunFacts
    <3> HIDE DEF v, o
    <3> QED
      BY <1>2, <1>4, <1>7, <3>1
  <2>4. Complete(c) /\ Len(c.versions) >= o.before[c.name]
    BY <1>2, <1>4, <2>3, RunFacts DEF Complete
  <2>5. \A i \in DOMAIN o.contracts : /\ Complete(o.contracts[i])
                                      /\ Len(o.contracts[i].versions) >= o.before[o.contracts[i].name]
    BY <1>2, <1>3, <2>4
  <2> HIDE DEF s
  <2>6. ExportIsRight(order, owner, log, s)
    BY <1>2, <2>2, <2>5 DEF ExportIsRight, Exporting, Importing
  <2>7. ImportIsRight(Kind[r], owner, log, logAt', s)
    BY <1>2, <2>2 DEF ImportIsRight, Exporting, Importing, Ended
  <2> QED
    BY <2>1, <2>2, <2>6, <2>7 DEF RightNext
<1> QED
  BY <1>6, <1>7

LEMMA WriteSnapshotRight ==
  ASSUME IInv, NEW r \in Run, WriteSnapshot(r)
  PROVE  /\ \E s : run' = [run EXCEPT ![r] = s] /\ RightNext(r, s, logAt')
         /\ file'.contracts \in Seq(ContractType) /\ file'.state = "whole"
         /\ FileIsRight(owner, log, file')
<1> DEFINE o == run[r]
           s == [o EXCEPT !.at = IF Kind[r] = "migrate" THEN "probe" ELSE "done"]
<1>1. /\ o.at = "contract" /\ Len(o.contracts) = o.total /\ logAt' = logAt
      /\ run' = [run EXCEPT ![r] = s] /\ file' = Whole(o.contracts)
  BY DEF WriteSnapshot, CanWrite, At, Goto, target
<1>2. /\ o.total <= Len(order)
      /\ \A k \in Name : o.before[k] > 0 => \E i \in 1..o.total : order[i] = k
      /\ \A i \in DOMAIN o.contracts : /\ o.contracts[i].name = order[i]
                                       /\ Complete(o.contracts[i])
                                       /\ Len(o.contracts[i].versions) >= o.before[o.contracts[i].name]
      /\ \A i \in DOMAIN o.contracts : ContractIsRight(owner, log, o.contracts[i])
      /\ Kind[r] # "import" /\ o.probed = 0 /\ o.start = 0 /\ o.remaining = <<>>
  BY <1>1, RunFacts DEF ExportIsRight, ImportIsRight, Exporting, Importing, Ended
<1>3. /\ s \in RunType /\ s.at = IF Kind[r] = "migrate" THEN "probe" ELSE "done"
      /\ s.contracts = o.contracts /\ s.before = o.before
      /\ s.probed = o.probed /\ s.start = o.start /\ s.remaining = o.remaining
  BY RunFacts DEF RunType, Steps, Ended
<1>4. DOMAIN o.contracts = 1..o.total /\ o.contracts \in Seq(ContractType)
  BY <1>1, RunFacts
<1>5. \A n \in Name : o.before[n] > 0 =>
        \E i \in DOMAIN o.contracts :
          o.contracts[i].name = n /\ Len(o.contracts[i].versions) >= o.before[n]
  BY <1>2, <1>4
<1>6. Kind[r] # "migrate" => Kind[r] = "export"
  BY <1>2, RunsAssumption
<1>7. /\ file'.contracts \in Seq(ContractType) /\ file'.state = "whole"
      /\ FileIsRight(owner, log, file')
  BY <1>1, <1>2, <1>4 DEF Whole, FileIsRight
<1> HIDE DEF s
<1>8. ExportIsRight(order, owner, log, s)
  BY <1>2, <1>3, <1>5 DEF ExportIsRight, Exporting, Importing
<1>9. ImportIsRight(Kind[r], owner, log, logAt', s)
  BY <1>2, <1>3, <1>4, <1>6 DEF ImportIsRight, Exporting, Importing, Ended
<1> QED
  BY <1>1, <1>3, <1>7, <1>8, <1>9 DEF RightNext

LEMMA ReadSnapshotRight ==
  ASSUME IInv, NEW r \in Run, ReadSnapshot(r)
  PROVE  \E s : run' = [run EXCEPT ![r] = s] /\ RightNext(r, s, logAt')
<1> DEFINE o == run[r]
<1>1. o.at = "read" /\ logAt' = logAt
  BY DEF ReadSnapshot, At, target
<1>2. CASE file.state # "whole"
  <2>1. run' = [run EXCEPT ![r] = [o EXCEPT !.at = "failed"]]
    BY <1>2 DEF ReadSnapshot, Fails, Goto
  <2> QED
    BY <2>1, EndsRight
<1>3. CASE file.state = "whole"
  <2> DEFINE s == [o EXCEPT !.at = "probe", !.contracts = file.contracts]
  <2>1. run' = [run EXCEPT ![r] = s]
    BY <1>3 DEF ReadSnapshot
  <2>2. file.contracts \in Seq(ContractType) /\ FileIsRight(owner, log, file)
    BY DEF IInv, TypeOK
  <2>3. /\ s \in RunType /\ s.at = "probe" /\ s.contracts = file.contracts
        /\ s.before = o.before
        /\ s.probed = o.probed /\ s.start = o.start /\ s.remaining = o.remaining
    BY <2>2, RunFacts DEF RunType, Steps
  <2>4. /\ \A n \in Name : o.before[n] = 0
        /\ o.probed = 0 /\ o.start = 0 /\ o.remaining = <<>>
    BY <1>1, RunFacts DEF ExportIsRight, ImportIsRight, Importing, Ended
  <2>5. \A i \in DOMAIN s.contracts : /\ ContractIsRight(owner, log, s.contracts[i])
                                      /\ Complete(s.contracts[i])
    BY <2>2, <2>3 DEF FileIsRight
  <2> HIDE DEF s, o
  <2>6. ExportIsRight(order, owner, log, s)
    BY <2>3, <2>4, <2>5 DEF ExportIsRight, Exporting, Importing
  <2>7. \A i \in DOMAIN s.contracts : ~(i <= 0)
    BY <2>2, <2>3
  <2>8. ImportIsRight(Kind[r], owner, log, logAt', s)
    BY <2>3, <2>4, <2>7 DEF ImportIsRight, Exporting, Importing, Ended
  <2> QED
    BY <2>1, <2>3, <2>6, <2>8 DEF RightNext
<1> QED
  BY <1>2, <1>3

LEMMA ProbeRight ==
  ASSUME IInv, NEW r \in Run, Probe(r)
  PROVE  \E s : run' = [run EXCEPT ![r] = s] /\ RightNext(r, s, logAt')
<1> DEFINE o == run[r]
           p == o.probed + 1
           c == o.contracts[p]
           q == IF Missing(c) THEN Append(o.remaining, c) ELSE o.remaining
           s == [o EXCEPT !.probed = p, !.remaining = q]
<1>1. /\ o.at = "probe" /\ o.probed < Len(o.contracts) /\ logAt' = logAt
      /\ run' = [run EXCEPT ![r] = s]
  BY DEF Probe, At, target
<1>2. /\ p \in DOMAIN o.contracts /\ p \in Nat /\ o.probed \in Nat
      /\ o.contracts \in Seq(ContractType) /\ o.remaining \in Seq(ContractType)
  BY <1>1, RunFacts
<1>3. c \in ContractType /\ c.name \in Name
  BY <1>2, ContractAt
<1>4. /\ o.start = 0
      /\ \A i \in DOMAIN o.contracts : /\ ContractIsRight(owner, log, o.contracts[i])
                                       /\ Complete(o.contracts[i])
      /\ \A i \in DOMAIN o.remaining : /\ ContractIsRight(owner, log, o.remaining[i])
                                       /\ Complete(o.remaining[i])
      /\ \A i \in DOMAIN o.contracts : i <= o.probed =>
           \/ logAt[o.contracts[i].name] # <<>>
           \/ \E j \in DOMAIN o.remaining : o.remaining[j] = o.contracts[i]
  BY <1>1, RunFacts DEF ExportIsRight, ImportIsRight, Importing
<1>5. /\ q \in Seq(ContractType)
      /\ \A i \in DOMAIN o.remaining : i \in DOMAIN q /\ q[i] = o.remaining[i]
      /\ \A i \in DOMAIN q : (i \in DOMAIN o.remaining /\ q[i] = o.remaining[i]) \/ q[i] = c
      /\ logAt[c.name] # <<>> \/ \E j \in DOMAIN q : q[j] = c
  <2> DEFINE w == o.remaining
  <2> HIDE DEF c
  <2>1. CASE Missing(c)
    <3>1. q = Append(w, c) /\ w \in Seq(ContractType)
      BY <1>2, <2>1
    <3> HIDE DEF w, q
    <3>2. /\ q \in Seq(ContractType) /\ DOMAIN q = 1..(Len(w) + 1) /\ q[Len(w) + 1] = c
          /\ DOMAIN w = 1..Len(w) /\ Len(w) \in Nat /\ \A i \in 1..Len(w) : q[i] = w[i]
      BY <1>3, <3>1
    <3>3. \A i \in 1..(Len(w) + 1) : i \in 1..Len(w) \/ i = Len(w) + 1
      BY <3>2
    <3> QED
      BY <3>2, <3>3 DEF w
  <2>2. CASE ~Missing(c)
    BY <1>2, <2>2 DEF Missing
  <2> QED
    BY <2>1, <2>2
<1>6. /\ s \in RunType /\ s.at = "probe" /\ s.contracts = o.contracts /\ s.before = o.before
      /\ s.probed = p /\ s.start = o.start /\ s.remaining = q
  <2> HIDE DEF p, q
  <2> QED
    BY <1>1, <1>2, <1>5, RunFacts DEF RunType, Steps
<1>7. \A n \in Name : o.before[n] > 0 =>
        \E i \in DOMAIN o.contracts :
          o.contracts[i].name = n /\ Len(o.contracts[i].versions) >= o.before[n]
  BY <1>1, RunFacts DEF ExportIsRight, Importing
<1> HIDE DEF s, q
<1>8. ExportIsRight(order, owner, log, s)
  BY <1>4, <1>6, <1>7 DEF ExportIsRight, Exporting, Importing
<1>9. \A i \in DOMAIN s.contracts : i <= s.probed =>
        \/ logAt[s.contracts[i].name] # <<>>
        \/ \E j \in DOMAIN s.remaining : s.remaining[j] = s.contracts[i]
  <2>1. ASSUME NEW i \in DOMAIN o.contracts, i <= p
        PROVE  logAt[o.contracts[i].name] # <<>> \/ \E j \in DOMAIN q : q[j] = o.contracts[i]
    <3>1. i <= o.probed \/ i = p
      <4>1. i \in Nat
        BY <1>2
      <4> QED
        BY <1>2, <2>1, <4>1
    <3>2. CASE i = p
      BY <1>5, <3>2
    <3>3. CASE i <= o.probed
      BY <1>4, <1>5, <3>3
    <3> QED
      BY <3>1, <3>2, <3>3
  <2> QED
    BY <1>6, <2>1
<1>10. \A i \in DOMAIN s.remaining : ContractIsRight(owner, log, s.remaining[i])
                                     /\ Complete(s.remaining[i])
  BY <1>2, <1>4, <1>5, <1>6
<1>11. \A j \in DOMAIN s.remaining : ~(j <= 0)
  BY <1>5, <1>6
<1>12. ImportIsRight(Kind[r], owner, log, logAt', s)
  BY <1>1, <1>4, <1>6, <1>9, <1>10, <1>11 DEF ImportIsRight, Exporting, Importing, Ended
<1> QED
  BY <1>1, <1>6, <1>8, <1>12 DEF RightNext

LEMMA ProbedRight ==
  ASSUME IInv, NEW r \in Run, Probed(r)
  PROVE  \E s : run' = [run EXCEPT ![r] = s] /\ RightNext(r, s, logAt')
<1> DEFINE o == run[r]
           s == [o EXCEPT !.at = "import"]
<1>1. /\ o.at = "probe" /\ o.probed = Len(o.contracts) /\ logAt' = logAt
      /\ run' = [run EXCEPT ![r] = s]
  BY DEF Probed, At, Goto, target
<1>2. /\ s \in RunType /\ s.at = "import" /\ s.contracts = o.contracts /\ s.before = o.before
      /\ s.probed = o.probed /\ s.start = o.start /\ s.remaining = o.remaining
  BY RunFacts DEF RunType, Steps
<1> HIDE DEF s
<1>3. ExportIsRight(order, owner, log, s)
  BY <1>1, <1>2, RunFacts DEF ExportIsRight, Exporting, Importing
<1>4. ImportIsRight(Kind[r], owner, log, logAt', s)
  BY <1>1, <1>2, RunFacts DEF ImportIsRight, Exporting, Importing, Ended
<1> QED
  BY <1>1, <1>2, <1>3, <1>4 DEF RightNext

LEMMA ImportedRight ==
  ASSUME IInv, NEW r \in Run, Imported(r)
  PROVE  \E s : run' = [run EXCEPT ![r] = s] /\ RightNext(r, s, logAt')
<1> DEFINE o == run[r]
           s == [o EXCEPT !.at = "done"]
<1>1. /\ o.at = "import" /\ o.start >= Len(o.remaining) /\ logAt' = logAt
      /\ run' = [run EXCEPT ![r] = s]
  BY DEF Imported, At, Goto, target
<1>2. /\ s \in RunType /\ s.at = "done" /\ s.contracts = o.contracts /\ s.before = o.before
  BY RunFacts DEF RunType, Steps, Ended
<1>3. \A i \in DOMAIN o.contracts : logAt[o.contracts[i].name] # <<>>
  <2>1. /\ o.probed = Len(o.contracts)
        /\ \A i \in DOMAIN o.contracts : i <= o.probed =>
             \/ logAt[o.contracts[i].name] # <<>>
             \/ \E j \in DOMAIN o.remaining : o.remaining[j] = o.contracts[i]
        /\ \A j \in DOMAIN o.remaining : j <= o.start => logAt[o.remaining[j].name] # <<>>
    BY <1>1, RunFacts DEF ImportIsRight, Importing
  <2>2. /\ \A i \in DOMAIN o.contracts : i <= Len(o.contracts)
        /\ \A j \in DOMAIN o.remaining : j <= o.start
    BY <1>1, RunFacts
  <2> QED
    BY <2>1, <2>2
<1> HIDE DEF s
<1>4. ExportIsRight(order, owner, log, s)
  BY <1>1, <1>2, RunFacts DEF ExportIsRight, Exporting, Importing
<1>5. ImportIsRight(Kind[r], owner, log, logAt', s)
  BY <1>1, <1>2, <1>3 DEF ImportIsRight, Exporting, Importing, Ended
<1> QED
  BY <1>1, <1>2, <1>4, <1>5 DEF RightNext

\* A batch that lands.
LEMMA BatchLands ==
  ASSUME IInv, NEW r \in Run, run[r].at = "import", CanImport(Batch(r)),
         AdminImportContracts(Batch(r))
  PROVE  /\ TargetGrows(logAt, logAt')
         /\ \A i \in DOMAIN Batch(r) : logAt'[Batch(r)[i].name] # <<>>
         /\ \A n \in Name : TargetIsRight(owner, log, ownerAt', logAt', n)
<1> DEFINE b == Batch(r)
<1>1. TypeOK
  BY DEF IInv
<1>2. b \in Seq(ContractType)
  BY <1>1, BatchTypes
<1>3. \A i \in DOMAIN b : /\ ContractIsRight(owner, log, b[i]) /\ Complete(b[i])
                          /\ b[i].name \in Name /\ b[i].versions \in Seq(EntryType)
  <2>1. \A j \in DOMAIN run[r].remaining : /\ ContractIsRight(owner, log, run[r].remaining[j])
                                           /\ Complete(run[r].remaining[j])
    BY RunFacts DEF ImportIsRight, Importing
  <2>2. \A i \in DOMAIN b : ContractIsRight(owner, log, b[i]) /\ Complete(b[i])
    BY <1>1, <2>1, BatchTypes
  <2> QED
    BY <1>2, <2>2, ContractAt
<1>4. AdminImportContracts(b)
  OBVIOUS
<1> HIDE DEF b
<1>5. TargetGrows(logAt, logAt')
  BY <1>2, <1>3, <1>4, ImportOf DEF TargetGrows, Complete
<1>6. \A i \in DOMAIN b : logAt'[b[i].name] # <<>>
  BY <1>2, <1>3, <1>4, ImportOf DEF Complete
<1>7. ASSUME NEW n \in Name PROVE TargetIsRight(owner, log, ownerAt', logAt', n)
  <2>1. CASE \E i \in DOMAIN b : /\ b[i].name = n
                                 /\ ownerAt'[n] = b[i].owner
                                 /\ logAt'[n] = b[i].versions
    <3>1. PICK i \in DOMAIN b : /\ b[i].name = n
                                /\ ownerAt'[n] = b[i].owner
                                /\ logAt'[n] = b[i].versions
      BY <2>1
    <3> DEFINE h == logAt'[n]
               g == log[n]
    <3>2. /\ h \in Seq(EntryType) /\ Len(h) <= Len(g)
          /\ \A j \in 1..Len(h) : h[j] = g[j]
          /\ ownerAt'[n] = owner[n]
      BY <1>3, <3>1 DEF ContractIsRight, Begins
    <3>3. Len(h) \in 0..Len(h) /\ \A j \in (Len(h) + 1)..Len(h) : FALSE
      <4>1. Len(h) \in Nat
        BY <3>2
      <4> HIDE DEF h
      <4> QED
        BY <4>1
    <3> QED
      BY <3>2, <3>3 DEF TargetIsRight
  <2>2. CASE ownerAt'[n] = ownerAt[n] /\ logAt'[n] = logAt[n]
    BY <2>2 DEF IInv, TargetIsRight
  <2> QED
    BY <1>2, <1>4, <2>1, <2>2, ImportOf
<1> QED
  BY <1>5, <1>6, <1>7 DEF b

LEMMA BatchSeen ==
  ASSUME IInv, NEW r \in Run, run[r].at = "import", CanImport(Batch(r)),
         AdminImportContracts(Batch(r))
  PROVE  RightNext(r, [run[r] EXCEPT !.start = NextStart(r)], logAt')
<1> DEFINE o == run[r]
           s == [o EXCEPT !.start = NextStart(r)]
<1>1. NextStart(r) \in Nat
  BY RunFacts, RunsAssumption DEF NextStart
<1>2. /\ s \in RunType /\ s.at = "import" /\ s.contracts = o.contracts /\ s.before = o.before
      /\ s.probed = o.probed /\ s.start = NextStart(r) /\ s.remaining = o.remaining
  <2> DEFINE m == NextStart(r)
  <2> HIDE DEF m
  <2>1. m \in Nat
    BY <1>1 DEF m
  <2>2. \A t \in Nat : LET z == [o EXCEPT !.start = t] IN
          /\ z \in RunType /\ z.at = o.at /\ z.contracts = o.contracts /\ z.before = o.before
          /\ z.probed = o.probed /\ z.start = t /\ z.remaining = o.remaining
    BY RunFacts DEF RunType
  <2> QED
    BY <1>1, <2>2
<1>3. /\ \A i \in DOMAIN o.remaining : /\ ContractIsRight(owner, log, o.remaining[i])
                                       /\ Complete(o.remaining[i])
      /\ o.probed = Len(o.contracts)
      /\ \A i \in DOMAIN o.contracts : i <= o.probed =>
           \/ logAt[o.contracts[i].name] # <<>>
           \/ \E j \in DOMAIN o.remaining : o.remaining[j] = o.contracts[i]
      /\ \A j \in DOMAIN o.remaining : j <= o.start => logAt[o.remaining[j].name] # <<>>
  BY RunFacts DEF ImportIsRight, Importing
<1>4. /\ \A i \in DOMAIN o.contracts : o.contracts[i].name \in Name
      /\ \A j \in DOMAIN o.remaining : o.remaining[j].name \in Name
  BY RunFacts, ContractAt
<1>5. TargetGrows(logAt, logAt') /\ \A i \in DOMAIN Batch(r) : logAt'[Batch(r)[i].name] # <<>>
  BY BatchLands
<1>6. ASSUME NEW j \in DOMAIN o.remaining, j <= NextStart(r)
      PROVE  logAt'[o.remaining[j].name] # <<>>
  <2>1. CASE j <= o.start
    BY <1>3, <1>4, <1>5, <2>1 DEF TargetGrows
  <2>2. CASE o.start < j
    <3>1. PICK i \in DOMAIN Batch(r) : Batch(r)[i] = o.remaining[j]
      BY <1>6, <2>2, BatchTypes DEF IInv
    <3> QED
      BY <1>5, <3>1
  <2>3. j \in Nat /\ o.start \in Nat
    BY RunFacts
  <2>4. j <= o.start \/ o.start < j
    BY <2>3
  <2> QED
    BY <2>1, <2>2, <2>4
<1>7. \A i \in DOMAIN o.contracts : i <= o.probed =>
        \/ logAt'[o.contracts[i].name] # <<>>
        \/ \E j \in DOMAIN o.remaining : o.remaining[j] = o.contracts[i]
  BY <1>3, <1>4, <1>5 DEF TargetGrows
<1> HIDE DEF s
<1>8. ExportIsRight(order, owner, log, s)
  BY <1>2, RunFacts DEF ExportIsRight, Exporting, Importing
<1>9. ImportIsRight(Kind[r], owner, log, logAt', s)
  BY <1>2, <1>3, <1>6, <1>7 DEF ImportIsRight, Exporting, Importing, Ended
<1> QED
  BY <1>2, <1>8, <1>9 DEF RightNext, s

LEMMA ImportBatchRight ==
  ASSUME IInv, NEW r \in Run, ImportBatch(r)
  PROVE  /\ \E s : run' = [run EXCEPT ![r] = s] /\ RightNext(r, s, logAt')
         /\ TargetGrows(logAt, logAt')
         /\ \A n \in Name : TargetIsRight(owner, log, ownerAt', logAt', n)
         /\ ownerAt' \in [Name -> Account \cup {NoOwner}]
         /\ logAt' \in [Name -> Seq(EntryType)]
<1> DEFINE b == Batch(r)
<1>1. run[r].at = "import" /\ b \in Seq(ContractType)
  BY BatchTypes DEF ImportBatch, At, IInv
<1>2. Fails(r) => run' = [run EXCEPT ![r] = [run[r] EXCEPT !.at = "failed"]]
  BY DEF Fails, Goto
<1>3. CASE /\ CanImport(b) /\ AdminImportContracts(b)
           /\ run' = [run EXCEPT ![r].start = NextStart(r)] \/ Fails(r)
  <2>1. /\ TargetGrows(logAt, logAt')
        /\ \A n \in Name : TargetIsRight(owner, log, ownerAt', logAt', n)
    BY <1>1, <1>3, BatchLands
  <2>2. /\ ownerAt' \in [Name -> Account \cup {NoOwner}]
        /\ logAt' \in [Name -> Seq(EntryType)]
    BY <1>1, <1>3, ImportTypes DEF IInv
  <2>3. run' = [run EXCEPT ![r] = [run[r] EXCEPT !.start = NextStart(r)]] \/ Fails(r)
    BY <1>3
  <2>4. \E s : run' = [run EXCEPT ![r] = s] /\ RightNext(r, s, logAt')
    BY <1>1, <1>2, <1>3, <2>3, BatchSeen, EndsRight
  <2> QED
    BY <2>1, <2>2, <2>4
<1>4. CASE UNCHANGED target /\ Fails(r)
  <2>1. ownerAt' = ownerAt /\ logAt' = logAt
    BY <1>4 DEF target
  <2> QED
    BY <1>2, <1>4, <2>1, EndsRight DEF IInv, TypeOK, TargetGrows, TargetIsRight
<1> QED
  BY <1>3, <1>4 DEF ImportBatch

LEMMA InterruptedRight ==
  ASSUME IInv, NEW r \in Run, NEW end \in {"failed", "crashed"}, Interrupted(r, end)
  PROVE  /\ \E s : run' = [run EXCEPT ![r] = s] /\ RightNext(r, s, logAt')
         /\ file' \in {file, Torn}
<1>1. run' = [run EXCEPT ![r] = [run[r] EXCEPT !.at = end]] /\ file' \in {file, Torn}
  BY DEF Interrupted, Goto
<1> QED
  BY <1>1, EndsRight
-----------------------------------------------------------------------------
(* Publications. *)

LEMMA SourcePublished ==
  ASSUME IInv, NEW n \in Name, NEW a \in SourceAccount, PublishAtSource(n, a)
  PROVE  /\ SourceGrows(order, order', owner, owner', log, log')
         /\ SourceIsRight'
         /\ order' \in Seq(Name)
         /\ owner' \in [Name -> Account \cup {NoOwner}] /\ log' \in [Name -> Seq(EntryType)]
<1> DEFINE e == Entry("source", n, Len(log[n]))
           h == Append(log[n], e)
<1>1. /\ order \in Seq(Name) /\ owner \in [Name -> Account \cup {NoOwner}]
      /\ log \in [Name -> Seq(EntryType)] /\ log[n] \in Seq(EntryType)
      /\ a \in Account /\ NoOwner \notin Account
  BY RunsAssumption DEF IInv, TypeOK, Account
<1>2. e \in EntryType
  <2>1. Len(log[n]) \in Nat
    BY <1>1
  <2> QED
    BY <2>1 DEF Entry, EntryType
<1>3. /\ owner' = [owner EXCEPT ![n] = a] /\ log' = [log EXCEPT ![n] = h]
      /\ order' = IF log[n] = <<>> THEN Append(order, n) ELSE order
      /\ log[n] # <<>> => owner[n] = a
  BY DEF PublishAtSource, MayPublish
<1>4. h \in Seq(EntryType) /\ h # <<>> /\ Begins(log[n], h)
  <2> DEFINE g == log[n]
  <2>1. g \in Seq(EntryType) /\ h = Append(g, e)
    BY <1>1
  <2> HIDE DEF g, h, e
  <2>2. h \in Seq(EntryType) /\ h # <<>> /\ Begins(g, h)
    BY <1>2, <2>1 DEF Begins
  <2> QED
    BY <2>2 DEF g
<1> HIDE DEF h, e
<1>5. /\ order' \in Seq(Name) /\ Begins(order, order')
      /\ \A i \in DOMAIN order : i \in DOMAIN order' /\ order'[i] = order[i]
      /\ \A i \in DOMAIN order' : (i \in DOMAIN order /\ order'[i] = order[i]) \/ order'[i] = n
      /\ log[n] = <<>> => \E i \in DOMAIN order' : order'[i] = n
  <2>1. CASE log[n] = <<>>
    <3>1. /\ order' = Append(order, n) /\ DOMAIN order = 1..Len(order) /\ Len(order) \in Nat
          /\ order' \in Seq(Name) /\ Len(order') = Len(order) + 1
          /\ DOMAIN order' = 1..(Len(order) + 1) /\ order'[Len(order) + 1] = n
          /\ \A i \in 1..Len(order) : order'[i] = order[i]
      BY <1>1, <1>3, <2>1
    <3> QED
      BY <3>1 DEF Begins
  <2>2. CASE log[n] # <<>>
    <3>1. order' = order /\ Len(order) \in Nat /\ DOMAIN order = 1..Len(order)
      BY <1>1, <1>3, <2>2
    <3> QED
      BY <1>1, <2>2, <3>1 DEF Begins
  <2> QED
    BY <2>1, <2>2
<1>6. /\ owner' \in [Name -> Account \cup {NoOwner}] /\ log' \in [Name -> Seq(EntryType)]
      /\ log'[n] = h /\ owner'[n] = a
      /\ \A m \in Name : m # n => log'[m] = log[m] /\ owner'[m] = owner[m]
  BY <1>1, <1>3, <1>4
<1>7. SourceIsRight
  BY DEF IInv
<1>8. SourceGrows(order, order', owner, owner', log, log')
  <2>1. ASSUME NEW m \in Name
        PROVE  /\ log[m] \in Seq(EntryType) /\ log'[m] \in Seq(EntryType)
               /\ Begins(log[m], log'[m])
               /\ owner[m] \in Account => owner'[m] = owner[m]
    <3>1. CASE m = n
      <4>1. owner[n] \in Account => log[n] # <<>>
        BY <1>1, <1>7 DEF SourceIsRight
      <4> QED
        BY <1>1, <1>3, <1>4, <1>6, <3>1, <4>1
    <3>2. CASE m # n
      <4> DEFINE g == log[m]
      <4>1. g \in Seq(EntryType) /\ log'[m] = g /\ owner'[m] = owner[m]
        BY <1>1, <1>6, <3>2
      <4> HIDE DEF g
      <4>2. Begins(g, g)
        BY <4>1 DEF Begins
      <4> QED
        BY <4>1, <4>2 DEF g
    <3> QED
      BY <3>1, <3>2
  <2> QED
    BY <1>1, <1>5, <2>1 DEF SourceGrows
<1>9. SourceIsRight'
  <2>1. \A i \in DOMAIN order' : log'[order'[i]] # <<>>
    <3>1. \A i \in DOMAIN order : order[i] \in Name /\ log[order[i]] # <<>>
      BY <1>1, <1>7 DEF SourceIsRight
    <3> QED
      BY <1>4, <1>5, <1>6, <3>1
  <2>2. ASSUME NEW m \in Name
        PROVE  IF log'[m] = <<>> THEN owner'[m] = NoOwner
               ELSE owner'[m] \in Account /\ \E i \in DOMAIN order' : order'[i] = m
    <3>1. CASE m = n
      BY <1>1, <1>4, <1>5, <1>6, <1>7, <3>1 DEF SourceIsRight
    <3>2. CASE m # n
      <4>1. log'[m] = log[m] /\ owner'[m] = owner[m]
        BY <1>6, <3>2
      <4>2. ASSUME log[m] # <<>>
            PROVE  owner[m] \in Account /\ \E i \in DOMAIN order' : order'[i] = m
        <5>1. PICK i \in DOMAIN order : order[i] = m
          BY <1>7, <4>2 DEF SourceIsRight
        <5>2. i \in DOMAIN order' /\ order'[i] = m
          BY <1>5, <5>1
        <5> QED
          BY <1>7, <4>2, <5>2 DEF SourceIsRight
      <4>3. log[m] = <<>> => owner[m] = NoOwner
        BY <1>7 DEF SourceIsRight
      <4> QED
        BY <4>1, <4>2, <4>3
    <3> QED
      BY <3>1, <3>2
  <2> QED
    BY <2>1, <2>2 DEF SourceIsRight
<1> QED
  BY <1>5, <1>6, <1>8, <1>9

LEMMA TargetPublished ==
  ASSUME IInv, NEW n \in Name, NEW a \in TargetAccount, PublishAtTarget(n, a)
  PROVE  /\ TargetGrows(logAt, logAt')
         /\ \A m \in Name : TargetIsRight(owner, log, ownerAt', logAt', m)
         /\ ownerAt' \in [Name -> Account \cup {NoOwner}]
         /\ logAt' \in [Name -> Seq(EntryType)]
<1> DEFINE e == Entry("target", n, Len(logAt[n]))
           g == logAt[n]
           h == Append(g, e)
<1>1. /\ ownerAt \in [Name -> Account \cup {NoOwner}]
      /\ logAt \in [Name -> Seq(EntryType)] /\ g \in Seq(EntryType) /\ a \in Account
  BY DEF IInv, TypeOK, Account
<1>2. e \in EntryType /\ e.registry = "target"
  <2>1. Len(logAt[n]) \in Nat
    BY <1>1
  <2> QED
    BY <2>1 DEF Entry, EntryType
<1>3. /\ ownerAt' = [ownerAt EXCEPT ![n] = a] /\ logAt' = [logAt EXCEPT ![n] = h]
      /\ g # <<>> => ownerAt[n] = a
  BY DEF PublishAtTarget, MayPublish
<1> HIDE DEF e, g
<1>4. /\ h \in Seq(EntryType) /\ h # <<>> /\ Len(g) \in Nat /\ Len(h) = Len(g) + 1
      /\ h[Len(g) + 1] = e /\ \A i \in 1..Len(g) : h[i] = g[i]
  <2>1. h = Append(g, e) /\ g \in Seq(EntryType) /\ e \in EntryType
    BY <1>1, <1>2
  <2> HIDE DEF h
  <2>2. /\ h \in Seq(EntryType) /\ h # <<>> /\ Len(g) \in Nat /\ Len(h) = Len(g) + 1
        /\ h[Len(g) + 1] = e
    BY <2>1
  <2>3. \A i \in 1..Len(g) : h[i] = g[i]
    BY <2>1
  <2> QED
    BY <2>2, <2>3
<1> HIDE DEF h
<1>5. /\ ownerAt' \in [Name -> Account \cup {NoOwner}] /\ logAt' \in [Name -> Seq(EntryType)]
      /\ logAt'[n] = h /\ ownerAt'[n] = a
      /\ \A m \in Name : m # n => logAt'[m] = logAt[m] /\ ownerAt'[m] = ownerAt[m]
  BY <1>1, <1>3, <1>4
<1>6. TargetGrows(logAt, logAt')
  BY <1>4, <1>5 DEF TargetGrows
<1>7. ASSUME NEW m \in Name PROVE TargetIsRight(owner, log, ownerAt', logAt', m)
  <2>1. TargetIsRight(owner, log, ownerAt, logAt, m)
    BY DEF IInv
  <2>2. CASE m # n
    BY <1>5, <2>1, <2>2 DEF TargetIsRight
  <2>3. CASE m = n
    <3>1. PICK k \in 0..Len(g) :
            /\ k <= Len(log[n]) /\ \A i \in 1..k : g[i] = log[n][i]
            /\ \A i \in (k + 1)..Len(g) : g[i].registry = "target"
            /\ k > 0 => ownerAt[n] = owner[n]
      BY <2>1, <2>3 DEF TargetIsRight, g
    <3>2. k \in 0..Len(h) /\ \A i \in 1..k : h[i] = log[n][i]
      BY <1>4, <3>1
    <3>3. \A i \in (k + 1)..Len(h) : h[i].registry = "target"
      <4>1. ASSUME NEW i \in (k + 1)..Len(h) PROVE h[i].registry = "target"
        <5>1. CASE i = Len(g) + 1
          BY <1>2, <1>4, <5>1
        <5>2. CASE i # Len(g) + 1
          <6>1. i \in (k + 1)..Len(g) /\ i \in 1..Len(g)
            BY <1>4, <3>1, <4>1, <5>2
          <6>2. h[i] = g[i]
            BY <1>4, <6>1
          <6> QED
            BY <3>1, <6>1, <6>2
        <5> QED
          BY <5>1, <5>2
      <4> QED
        BY <4>1
    <3>4. k > 0 => ownerAt'[n] = owner[n]
      <4>1. k > 0 => g # <<>>
        BY <1>1, <3>1
      <4> QED
        BY <1>3, <1>5, <3>1, <4>1
    <3> QED
      BY <1>5, <2>3, <3>1, <3>2, <3>3, <3>4 DEF TargetIsRight
  <2> QED
    BY <2>2, <2>3
<1> QED
  BY <1>5, <1>6, <1>7
-----------------------------------------------------------------------------
(* The invariant is inductive. *)

\* The registries grow and no run moves.
LEMMA RegistriesGrow ==
  ASSUME IInv, UNCHANGED <<file, run>>,
         SourceGrows(order, order', owner, owner', log, log'), TargetGrows(logAt, logAt'),
         \A n \in Name : TargetIsRight(owner', log', ownerAt', logAt', n),
         SourceIsRight',
         order' \in Seq(Name),
         owner' \in [Name -> Account \cup {NoOwner}], log' \in [Name -> Seq(EntryType)],
         ownerAt' \in [Name -> Account \cup {NoOwner}], logAt' \in [Name -> Seq(EntryType)]
  PROVE  IInv'
<1>1. TypeOK'
  BY DEF IInv, TypeOK
<1>2. ASSUME NEW r \in Run
      PROVE  /\ ExportIsRight(order', owner', log', run'[r])
             /\ ImportIsRight(Kind[r], owner', log', logAt', run'[r])
  BY RunFacts, ExportStays, ImportStays
<1>3. FileIsRight(owner', log', file')
  BY FileStays DEF IInv, TypeOK
<1> QED
  BY <1>1, <1>2, <1>3 DEF IInv

LEMMA SourceIsItself ==
  ASSUME IInv
  PROVE  SourceGrows(order, order, owner, owner, log, log)
<1>1. order \in Seq(Name) /\ \A n \in Name : log[n] \in Seq(EntryType)
  BY DEF IInv, TypeOK
<1>2. ASSUME NEW S, NEW q \in Seq(S) PROVE Begins(q, q)
  BY DEF Begins
<1>3. Begins(order, order)
  BY <1>1, <1>2
<1>4. \A n \in Name : Begins(log[n], log[n])
  BY <1>1, <1>2
<1> QED
  BY <1>1, <1>3, <1>4 DEF SourceGrows

\* One run moves, and perhaps the target grows.
LEMMA RunMoves ==
  ASSUME IInv, NEW r \in Run, UNCHANGED source,
         \E s : run' = [run EXCEPT ![r] = s] /\ RightNext(r, s, logAt'),
         TargetGrows(logAt, logAt'),
         \A n \in Name : TargetIsRight(owner, log, ownerAt', logAt', n),
         ownerAt' \in [Name -> Account \cup {NoOwner}], logAt' \in [Name -> Seq(EntryType)],
         file' \in [state : {"absent", "torn", "whole"}, contracts : Seq(ContractType)],
         FileIsRight(owner, log, file')
  PROVE  IInv'
<1>1. PICK s : run' = [run EXCEPT ![r] = s] /\ RightNext(r, s, logAt')
  OBVIOUS
<1>2. order' = order /\ owner' = owner /\ log' = log
  BY DEF source
<1>3. s \in RunType /\ run \in [Run -> RunType]
  BY <1>1 DEF RightNext, IInv, TypeOK
<1>4. TypeOK'
  BY <1>1, <1>2, <1>3 DEF IInv, TypeOK
<1>5. ASSUME NEW q \in Run
      PROVE  /\ ExportIsRight(order, owner, log, run'[q])
             /\ ImportIsRight(Kind[q], owner, log, logAt', run'[q])
  <2>1. CASE q = r
    <3>1. run'[q] = s
      BY <1>1, <1>3, <2>1
    <3> QED
      BY <1>1, <2>1, <3>1 DEF RightNext
  <2>2. CASE q # r
    <3>1. run'[q] = run[q]
      BY <1>1, <1>3, <2>2
    <3> QED
      BY <3>1, RunFacts, SourceIsItself, ImportStays
  <2> QED
    BY <2>1, <2>2
<1>6. SourceIsRight'
  BY <1>2 DEF IInv, SourceIsRight
<1> QED
  BY <1>2, <1>4, <1>5, <1>6 DEF IInv

LEMMA TargetIsItself ==
  ASSUME IInv, UNCHANGED target
  PROVE  /\ TargetGrows(logAt, logAt')
         /\ \A n \in Name : TargetIsRight(owner, log, ownerAt', logAt', n)
         /\ ownerAt' \in [Name -> Account \cup {NoOwner}]
         /\ logAt' \in [Name -> Seq(EntryType)]
BY DEF IInv, TypeOK, target, TargetGrows, TargetIsRight

LEMMA FileTypes ==
  ASSUME IInv, file' \in {file, Torn}
  PROVE  /\ file' \in [state : {"absent", "torn", "whole"}, contracts : Seq(ContractType)]
         /\ FileIsRight(owner, log, file')
<1>1. CASE file' = file
  BY <1>1 DEF IInv, TypeOK
<1>2. CASE file' = Torn
  <2>1. <<>> \in Seq(ContractType) /\ DOMAIN <<>> = {}
    OBVIOUS
  <2> QED
    BY <1>2, <2>1 DEF Torn, FileIsRight
<1> QED
  BY <1>1, <1>2

LEMMA InitRight == Init => IInv
<1> SUFFICES ASSUME Init PROVE IInv
  OBVIOUS
<1>1. TypeOK
  BY DEF Init, TypeOK, Absent, Fresh, RunType, Steps
<1>2. SourceIsRight
  BY DEF Init, SourceIsRight
<1>3. ASSUME NEW r \in Run
      PROVE  /\ ExportIsRight(order, owner, log, run[r])
             /\ ImportIsRight(Kind[r], owner, log, logAt, run[r])
  <2>1. /\ run[r].at = "idle" /\ run[r].contracts = <<>> /\ run[r].probed = 0
        /\ run[r].start = 0 /\ run[r].remaining = <<>> /\ \A n \in Name : run[r].before[n] = 0
    BY DEF Init, Fresh
  <2> QED
    BY <2>1 DEF ExportIsRight, ImportIsRight, Exporting, Importing, Ended
<1>4. FileIsRight(owner, log, file)
  BY DEF Init, FileIsRight, Absent
<1>5. ASSUME NEW n \in Name PROVE TargetIsRight(owner, log, ownerAt, logAt, n)
  BY DEF Init, TargetIsRight
<1> QED
  BY <1>1, <1>2, <1>3, <1>4, <1>5 DEF IInv

LEMMA StepRight ==
  ASSUME IInv, NEW r \in Run, Step(r) \/ Interrupted(r, "crashed")
  PROVE  IInv'
<1> DEFINE Moves == \E s : run' = [run EXCEPT ![r] = s] /\ RightNext(r, s, logAt')
<1>1. CASE UNCHANGED <<source, target, file>> /\ Moves
  <2>1. file' \in {file, Torn}
    BY <1>1
  <2> QED
    BY <1>1, <2>1, TargetIsItself, FileTypes, RunMoves
<1>2. CASE Start(r)
  BY <1>1, <1>2, StartRight DEF Start
<1>3. CASE QueryContractCount(r)
  BY <1>1, <1>3, QueryContractCountRight DEF QueryContractCount
<1>4. CASE ExportContract(r)
  BY <1>1, <1>4, ExportContractRight DEF ExportContract
<1>5. CASE ExportVersion(r)
  BY <1>1, <1>5, ExportVersionRight DEF ExportVersion
<1>6. CASE WriteSnapshot(r)
  <2>1. /\ Moves /\ file'.contracts \in Seq(ContractType) /\ file'.state = "whole"
        /\ FileIsRight(owner, log, file')
    BY <1>6, WriteSnapshotRight
  <2>2. file' = Whole(run[r].contracts) /\ UNCHANGED source /\ UNCHANGED target
    BY <1>6 DEF WriteSnapshot
  <2>3. file' \in [state : {"absent", "torn", "whole"}, contracts : Seq(ContractType)]
    BY <2>2, RunFacts DEF Whole
  <2> QED
    BY <2>1, <2>2, <2>3, TargetIsItself, RunMoves
<1>7. CASE ReadSnapshot(r)
  BY <1>1, <1>7, ReadSnapshotRight DEF ReadSnapshot
<1>8. CASE Probe(r)
  BY <1>1, <1>8, ProbeRight DEF Probe
<1>9. CASE Probed(r)
  BY <1>1, <1>9, ProbedRight DEF Probed
<1>10. CASE ImportBatch(r)
  <2>1. UNCHANGED source /\ file' \in {file, Torn}
    BY <1>10 DEF ImportBatch
  <2> QED
    BY <1>10, <2>1, ImportBatchRight, FileTypes, RunMoves
<1>11. CASE Imported(r)
  BY <1>1, <1>11, ImportedRight DEF Imported
<1>12. CASE Interrupted(r, "failed") \/ Interrupted(r, "crashed")
  <2>1. Moves /\ file' \in {file, Torn}
    BY <1>12, InterruptedRight
  <2>2. UNCHANGED source /\ UNCHANGED target
    BY <1>12 DEF Interrupted
  <2> QED
    BY <2>1, <2>2, TargetIsItself, FileTypes, RunMoves
<1> QED
  BY <1>2, <1>3, <1>4, <1>5, <1>6, <1>7, <1>8, <1>9, <1>10, <1>11, <1>12 DEF Step

LEMMA NextRight == IInv /\ [Next]_vars => IInv'
<1> SUFFICES ASSUME IInv, [Next]_vars PROVE IInv'
  OBVIOUS
<1>1. ASSUME NEW n \in Name, NEW a \in SourceAccount, PublishAtSource(n, a)
      PROVE  IInv'
  <2>1. /\ SourceGrows(order, order', owner, owner', log, log')
        /\ SourceIsRight'
        /\ order' \in Seq(Name)
        /\ owner' \in [Name -> Account \cup {NoOwner}] /\ log' \in [Name -> Seq(EntryType)]
    BY <1>1, SourcePublished
  <2>2. /\ UNCHANGED <<file, run>> /\ ownerAt' = ownerAt /\ logAt' = logAt
    BY <1>1 DEF PublishAtSource, target
  <2>3. TargetGrows(logAt, logAt')
    BY <2>2 DEF TargetGrows
  <2>4. ASSUME NEW m \in Name PROVE TargetIsRight(owner', log', ownerAt', logAt', m)
    <3>1. /\ logAt[m] \in Seq(EntryType) /\ TargetIsRight(owner, log, ownerAt, logAt, m)
          /\ log[m] # <<>> => owner[m] \in Account
      BY DEF IInv, TypeOK, SourceIsRight
    <3> QED
      BY <2>1, <2>2, <3>1, TargetStays
  <2>5. /\ ownerAt' \in [Name -> Account \cup {NoOwner}] /\ logAt' \in [Name -> Seq(EntryType)]
    BY <2>2 DEF IInv, TypeOK
  <2> QED
    BY <2>1, <2>2, <2>3, <2>4, <2>5, RegistriesGrow
<1>2. ASSUME NEW n \in Contested, NEW a \in TargetAccount, PublishAtTarget(n, a)
      PROVE  IInv'
  <2>1. n \in Name
    BY RunsAssumption
  <2>2. /\ TargetGrows(logAt, logAt')
        /\ \A m \in Name : TargetIsRight(owner, log, ownerAt', logAt', m)
        /\ ownerAt' \in [Name -> Account \cup {NoOwner}]
        /\ logAt' \in [Name -> Seq(EntryType)]
    BY <1>2, <2>1, TargetPublished
  <2>3. /\ UNCHANGED <<file, run>> /\ order' = order /\ owner' = owner /\ log' = log
    BY <1>2 DEF PublishAtTarget, source
  <2>4. SourceGrows(order, order', owner, owner', log, log')
    BY <2>3, SourceIsItself
  <2>5. /\ SourceIsRight' /\ order' \in Seq(Name)
        /\ owner' \in [Name -> Account \cup {NoOwner}] /\ log' \in [Name -> Seq(EntryType)]
    BY <2>3 DEF IInv, TypeOK, SourceIsRight
  <2>6. \A m \in Name : TargetIsRight(owner', log', ownerAt', logAt', m)
    BY <2>2, <2>3
  <2> QED
    BY <2>2, <2>3, <2>4, <2>5, <2>6, RegistriesGrow
<1>3. ASSUME NEW r \in Run, Step(r) \/ Interrupted(r, "crashed") PROVE IInv'
  BY <1>3, StepRight
<1>4. CASE UNCHANGED vars
  BY <1>4 DEF vars, IInv, TypeOK, SourceIsRight, Fresh
<1> QED
  BY <1>1, <1>2, <1>3, <1>4 DEF Next

LEMMA Inductive == Spec => []IInv
BY InitRight, NextRight, PTL DEF Spec
-----------------------------------------------------------------------------
(* Theorems. *)

LEMMA BeginsIsPrefix ==
  ASSUME NEW s \in Seq(EntryType), NEW t \in Seq(EntryType), Begins(s, t)
  PROVE  IsPrefix(s, t)
<1>1. Len(s) <= Len(t) /\ \A i \in 1..Len(s) : s[i] = t[i]
  BY DEF Begins
<1>2. /\ Len(s) \in Nat /\ Len(t) \in Nat
      /\ Len(SubSeq(s, 1, Len(s))) = Len(s) /\ Len(SubSeq(t, 1, Len(s))) = Len(s)
      /\ \A i \in 1..Len(s) : SubSeq(s, 1, Len(s))[i] = SubSeq(t, 1, Len(s))[i]
      /\ SubSeq(s, 1, Len(s)) \in Seq(EntryType) /\ SubSeq(t, 1, Len(s)) \in Seq(EntryType)
  BY <1>1
<1>3. SubSeq(s, 1, Len(s)) = SubSeq(t, 1, Len(s))
  BY <1>2
<1> QED
  BY <1>1, <1>3 DEF IsPrefix

\* The variables of a migration keep their types.
THEOREM TypeCorrect == Spec => []TypeOK
<1>1. IInv => TypeOK
  BY DEF IInv
<1> QED
  BY <1>1, Inductive, PTL

\* However the source moves while it is exported, every contract of a snapshot
\* is the beginning of its history, under its owner.
THEOREM SnapshotAlwaysHistory == Spec => []SnapshotIsHistory
<1>1. IInv => SnapshotIsHistory
  <2> SUFFICES ASSUME IInv, NEW r \in Run, NEW c \in ToSet(run[r].contracts)
               PROVE  c.owner = owner[c.name] /\ IsPrefix(c.versions, log[c.name])
    BY DEF SnapshotIsHistory
  <2>1. PICK i \in DOMAIN run[r].contracts : c = run[r].contracts[i]
    BY DEF ToSet
  <2>2. c.name \in Name /\ c.versions \in Seq(EntryType)
    BY <2>1, RunFacts, ContractAt
  <2>3. ContractIsRight(owner, log, c) /\ log[c.name] \in Seq(EntryType)
    BY <2>1, <2>2, RunFacts DEF ExportIsRight
  <2> QED
    BY <2>2, <2>3, BeginsIsPrefix DEF ContractIsRight
<1> QED
  BY <1>1, Inductive, PTL

\* A run that has exported the source has every contract, with at least the
\* versions, that the source had when it began.
THEOREM NeverMisses == Spec => []NothingIsMissed
<1>1. IInv => NothingIsMissed
  <2> SUFFICES ASSUME IInv, NEW r \in Run, run[r].at \in {"probe", "import", "done"},
                      NEW n \in Name, run[r].before[n] > 0
               PROVE  \E c \in ToSet(run[r].contracts) :
                        c.name = n /\ Len(c.versions) >= run[r].before[n]
    BY DEF NothingIsMissed
  <2>1. PICK i \in DOMAIN run[r].contracts :
          /\ run[r].contracts[i].name = n
          /\ Len(run[r].contracts[i].versions) >= run[r].before[n]
    BY RunFacts DEF ExportIsRight, Importing
  <2> QED
    BY <2>1 DEF ToSet
<1> QED
  BY <1>1, Inductive, PTL

\* However often a migration is cut off, repeated or overtaken, and in whatever
\* batches: a name of the target has its history of the source, without a gap
\* and under the same owner, before anything published on the target itself.
THEOREM TargetAlwaysExact == Spec => []TargetIsExact
<1>1. IInv => TargetIsExact
  <2> SUFFICES ASSUME IInv, NEW n \in Name
               PROVE  \E k \in 0..Len(logAt[n]) :
                        /\ IsPrefix(SubSeq(logAt[n], 1, k), log[n])
                        /\ \A i \in (k + 1)..Len(logAt[n]) : logAt[n][i].registry = "target"
                        /\ k > 0 => ownerAt[n] = owner[n]
    BY DEF TargetIsExact
  <2> DEFINE h == logAt[n]
             g == log[n]
  <2>1. PICK k \in 0..Len(h) :
          /\ k <= Len(g) /\ \A i \in 1..k : h[i] = g[i]
          /\ \A i \in (k + 1)..Len(h) : h[i].registry = "target"
          /\ k > 0 => ownerAt[n] = owner[n]
    BY DEF IInv, TargetIsRight
  <2>2. h \in Seq(EntryType) /\ g \in Seq(EntryType)
    BY DEF IInv, TypeOK
  <2> HIDE DEF h, g
  <2>3. /\ SubSeq(h, 1, k) \in Seq(EntryType) /\ Len(SubSeq(h, 1, k)) = k
        /\ \A i \in 1..k : SubSeq(h, 1, k)[i] = h[i]
    BY <2>1, <2>2
  <2>4. Begins(SubSeq(h, 1, k), g)
    BY <2>1, <2>3 DEF Begins
  <2>5. IsPrefix(SubSeq(h, 1, k), g)
    BY <2>2, <2>3, <2>4, BeginsIsPrefix
  <2> QED
    BY <2>1, <2>5 DEF h, g
<1> QED
  BY <1>1, Inductive, PTL

\* An import that reports success leaves no name of its snapshot behind.
THEOREM DoneAlwaysMigrated == Spec => []DoneMeansMigrated
<1>1. IInv => DoneMeansMigrated
  <2> SUFFICES ASSUME IInv, NEW r \in Run, run[r].at = "done", Kind[r] # "export",
                      NEW c \in ToSet(run[r].contracts)
               PROVE  logAt[c.name] # <<>>
    BY DEF DoneMeansMigrated
  <2>1. PICK i \in DOMAIN run[r].contracts : c = run[r].contracts[i]
    BY DEF ToSet
  <2> QED
    BY <2>1, RunFacts DEF ImportIsRight
<1> QED
  BY <1>1, Inductive, PTL
=============================================================================
