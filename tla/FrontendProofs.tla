--------------------------- MODULE FrontendProofs ---------------------------
(***************************************************************************)
(* Theorems about Frontend, for any networks, packages, registries and     *)
(* page size, and however often the user changes network or page.          *)
(*                                                                         *)
(* The list: while the hook is busy there is one query of the current      *)
(* generation, and a page query under way starts where the loaded stretch  *)
(* ends, whatever the registry has grown by since it was counted.  The     *)
(* page: all that is under way for it was asked for its own package.       *)
(***************************************************************************)
EXTENDS Frontend, FiniteSetTheorems, TLAPS

Cids     == Network \X Package
Metadata == {Pending, Failed} \cup Cids
Items    == Seq([name : Package, cid : Cids])
Count    == [kind : {"count"}, generation : Nat, network : Network]
PageOfSize == [kind : {"page"}, generation : Nat, network : Network, start : Nat, size : Nat]

ListType ==
  [mounted : {TRUE}, source : Network, enabled : BOOLEAN, needle : BOOLEAN,
   generation : Nat, items : Items, loading : BOOLEAN, error : BOOLEAN,
   total : Nat, loaded : Nat, busy : BOOLEAN, flight : SUBSET (Count \cup PageOfSize),
   attempted : SUBSET Cids, lookups : SUBSET [key : Cids, cid : Cids],
   metadata : [Cids -> Metadata]]

NetType == [network : Network, status : {"connecting", "connected", "failed"}]
ChainType == [Network -> Seq(Package)]

\* What a query of the current generation asks for, when it is answered.
Asks(l, f) ==
  /\ l.busy /\ f.network = l.source
  /\ \A g \in l.flight : g.generation = l.generation => g = f
  /\ f.kind = "count" => l.total = 0
  /\ f.kind = "page" => f.size > 0 /\ f.start + f.size = l.total - l.loaded

\* The hooks of a list of this registry.
Newest(names, total, network) ==
  [name |-> names[total], cid |-> Cid(network, names[total])]
ListIsRight(l, names) ==
  /\ l \in ListType
  /\ \A f \in l.flight : /\ f.generation <= l.generation
                         /\ f.generation = l.generation => Asks(l, f)
  /\ l.loaded <= l.total /\ l.total <= Len(names)
  /\ Len(l.items) = l.loaded
  /\ \A i \in 1..l.loaded : l.items[i] = Newest(names, l.total + 1 - i, l.source)

Queries == [name : Package, network : Network]
PageType ==
  [name : Package, source : Network, enabled : BOOLEAN, tab : {"readme", "versions"},
   pkg : {NoPackage} \cup [query : Queries, metadata : Metadata],
   state : {"loading", "found", "notFound", "error"}, fetched : BOOLEAN,
   flight : SUBSET Queries, lookup : SUBSET Cids]
VersionsType ==
  [fetched : BOOLEAN, shown : {"nothing", "loading", "versions", "error"},
   of : SUBSET Queries, flight : SUBSET Queries]

\* What is shown of a package is its own.
Found(p) == /\ p.pkg \in [query : Queries, metadata : Metadata]
            /\ p.pkg.query = Query(p)
            /\ p.pkg.metadata \in {Pending, Failed, Cid(p.source, p.name)}
PageIsRight(p) ==
  /\ p \in PageType
  /\ p.flight \subseteq {Query(p)} /\ p.lookup \subseteq {Cid(p.source, p.name)}
  /\ p.state = "found" \/ p.lookup # {} => Found(p)
VersionsAreRight(v, p) ==
  /\ v \in VersionsType
  /\ v.of \subseteq {Query(p)} /\ v.flight \subseteq {Query(p)}

TypeOK ==
  /\ net \in NetType /\ chain \in ChainType
  /\ connections \in [Network -> {"none", "pending", "ready"}]
  /\ \A n \in Network : Distinct(chain[n])
ListOK == list # NoList => ListIsRight(list, chain[list.source]) /\ list.source = net.network
PageOK == page # NoPage => PageIsRight(page) /\ page.source = net.network
VersionsOK == versions # NoVersions => page # NoPage /\ VersionsAreRight(versions, page)
IInv == TypeOK /\ ListOK /\ PageOK /\ VersionsOK
-----------------------------------------------------------------------------
(* The effects of the list's hooks. *)

Idle(l) == \A f \in l.flight : f.generation < l.generation
Alike(l, m) ==
  /\ m.source = l.source /\ m.generation = l.generation /\ m.items = l.items
  /\ m.total = l.total /\ m.loaded = l.loaded /\ m.busy = l.busy /\ m.flight = l.flight

LEMMA IdleMeans ==
  ASSUME NEW l \in ListType, Idle(l)
  PROVE  \A f \in l.flight : f.generation <= l.generation /\ f.generation # l.generation
BY DEF Idle, ListType, Count, PageOfSize

\* What the promise does not mention may change.
LEMMA AlikeIsRight ==
  ASSUME NEW names, NEW l, ListIsRight(l, names), NEW m \in ListType, Alike(l, m)
  PROVE  ListIsRight(m, names)
BY DEF ListIsRight, Alike, Asks

\* No query is current when the hook is not busy.
LEMMA NotBusy == ASSUME NEW names, NEW l, ListIsRight(l, names), ~l.busy PROVE Idle(l)
BY DEF ListIsRight, Asks, Idle, ListType, Count, PageOfSize

LEMMA EnabledIsRight ==
  ASSUME NEW names, NEW l, ListIsRight(l, names), NEW b \in BOOLEAN
  PROVE  LET m == [l EXCEPT !.enabled = b]
         IN  ListIsRight(m, names) /\ m.source = l.source /\ m.busy = l.busy
<1>1. l \in ListType BY DEF ListIsRight
<1>2. PICK m : m = [l EXCEPT !.enabled = b] OBVIOUS
<1>3. m \in ListType /\ Alike(l, m) BY <1>1, <1>2 DEF ListType, Alike
<1> QED BY <1>2, <1>3, AlikeIsRight DEF Alike

LEMMA ResetIsRight ==
  ASSUME NEW l \in ListType, \A f \in l.flight : f.generation <= l.generation,
         NEW network \in Network, NEW names \in Seq(Package)
  PROVE  ListIsRight(Reset(l, network), names) /\ Reset(l, network).source = network
<1>1. PICK m : m = Reset(l, network) OBVIOUS
<1>2. m \in ListType
  <2>1. <<>> \in Items /\ l.generation + 1 \in Nat BY DEF Items, ListType
  <2> QED BY <1>1, <2>1 DEF Reset, ListType
<1>3. /\ m.source = network /\ m.generation = l.generation + 1 /\ m.items = <<>>
      /\ m.total = 0 /\ m.loaded = 0 /\ m.flight = l.flight
  BY <1>1 DEF Reset, ListType
<1>4. \A f \in m.flight : f.generation <= m.generation /\ f.generation # m.generation
  BY <1>3 DEF ListType, Count, PageOfSize
<1> QED BY <1>1, <1>2, <1>3, <1>4 DEF ListIsRight

LEMMA FinishedIsRight ==
  ASSUME NEW names, NEW l, ListIsRight(l, names), Idle(l)
  PROVE  ListIsRight(Finished(l), names) /\ Finished(l).source = l.source
<1>1. l \in ListType BY DEF ListIsRight
<1>2. PICK m : m = Finished(l) OBVIOUS
<1>3. m \in ListType /\ m.source = l.source /\ m.generation = l.generation /\ m.items = l.items
      /\ m.total = l.total /\ m.loaded = l.loaded /\ m.flight = l.flight
  BY <1>1, <1>2 DEF Finished, ListType
<1>4. \A f \in m.flight : f.generation <= m.generation /\ f.generation # m.generation
  BY <1>1, <1>3 DEF Idle, ListType, Count, PageOfSize
<1> QED BY <1>2, <1>3, <1>4 DEF ListIsRight

\* A query of the current generation is added to the hook's flight.
LEMMA AskedIsRight ==
  ASSUME NEW names, NEW l, ListIsRight(l, names), Idle(l), NEW m \in ListType,
         NEW f \in Count \cup PageOfSize, f.generation = l.generation, f.network = l.source,
         m.source = l.source, m.generation = l.generation, m.items = l.items,
         m.total = l.total, m.loaded = l.loaded, m.busy, m.flight = l.flight \cup {f},
         f.kind = "count" => l.total = 0,
         f.kind = "page" => f.size > 0 /\ f.start + f.size = l.total - l.loaded
  PROVE  ListIsRight(m, names)
<1>1. l \in ListType BY DEF ListIsRight
<1>2. \A g \in l.flight : g.generation < m.generation BY DEF Idle
<1>3. \A g \in m.flight : g.generation <= m.generation
  BY <1>1, <1>2 DEF ListType, Count, PageOfSize
<1>4. \A g \in m.flight : g.generation = m.generation => g = f
  BY <1>1, <1>2 DEF ListType, Count, PageOfSize
<1>5. Asks(m, f) BY <1>4 DEF Asks
<1> QED BY <1>3, <1>4, <1>5 DEF ListIsRight

LEMMA FetchPageIsRight ==
  ASSUME NEW names, NEW l, ListIsRight(l, names), Idle(l), l.busy
  PROVE  ListIsRight(FetchPage(l), names) /\ FetchPage(l).source = l.source
<1>1. l \in ListType /\ l.loaded <= l.total /\ l.loaded \in Nat /\ l.total \in Nat
  BY DEF ListIsRight, ListType
<1>2. PICK remaining : remaining = l.total - l.loaded OBVIOUS
<1>3. PICK size : size = IF remaining < PageSize THEN remaining ELSE PageSize OBVIOUS
<1>4. size \in Nat /\ remaining - size \in Nat BY <1>1, <1>2, <1>3, ListAssumption
<1>5. CASE size <= 0
  <2>1. FetchPage(l) = Finished(l) BY <1>2, <1>3, <1>5 DEF FetchPage
  <2> QED BY <2>1, FinishedIsRight
<1>6. CASE ~(size <= 0)
  <2>1. PICK f : f = [kind |-> "page", generation |-> l.generation,
              network |-> l.source, start |-> remaining - size, size |-> size]
    OBVIOUS
  <2>2. FetchPage(l) = [l EXCEPT !.flight = @ \cup {f}] BY <1>2, <1>3, <1>6, <2>1 DEF FetchPage
  <2>3. f \in PageOfSize BY <1>1, <1>4, <2>1 DEF ListType, PageOfSize
  <2>4. PICK m : m = FetchPage(l) OBVIOUS
  <2>5. m \in ListType
    <3>1. l.flight \cup {f} \in SUBSET (Count \cup PageOfSize) BY <1>1, <2>3 DEF ListType
    <3>2. m = [l EXCEPT !.flight = l.flight \cup {f}] BY <1>1, <2>2, <2>4 DEF ListType
    <3> QED BY <1>1, <3>1, <3>2 DEF ListType
  <2>6. /\ m.source = l.source /\ m.generation = l.generation /\ m.items = l.items
        /\ m.total = l.total /\ m.loaded = l.loaded /\ m.busy = l.busy
        /\ m.flight = l.flight \cup {f}
    BY <1>1, <2>2, <2>4 DEF ListType
  <2>7. /\ f.generation = l.generation /\ f.network = l.source /\ f.kind # "count"
        /\ f.size > 0 /\ f.start + f.size = l.total - l.loaded
    BY <1>1, <1>2, <1>4, <1>6, <2>1
  <2> QED BY <2>3, <2>4, <2>5, <2>6, <2>7, AskedIsRight
<1> QED BY <1>5, <1>6

LEMMA LoadBatchIsRight ==
  ASSUME NEW names, NEW l, ListIsRight(l, names)
  PROVE  ListIsRight(LoadBatch(l), names) /\ LoadBatch(l).source = l.source
<1>1. l \in ListType BY DEF ListIsRight
<1>2. CASE ~l.enabled \/ l.busy BY <1>2 DEF LoadBatch
<1>3. CASE l.enabled /\ ~l.busy
  <2>1. PICK begun : begun = [l EXCEPT !.busy = TRUE, !.loading = TRUE, !.error = FALSE]
    OBVIOUS
  <2>2. /\ begun \in ListType /\ begun.busy /\ begun.source = l.source
        /\ begun.generation = l.generation /\ begun.items = l.items
        /\ begun.total = l.total /\ begun.loaded = l.loaded /\ begun.flight = l.flight
    BY <1>1, <2>1 DEF ListType
  <2>3. Idle(l) BY <1>3, NotBusy
  <2>4. Idle(begun) BY <2>2, <2>3 DEF Idle
  <2>5. ListIsRight(begun, names)
    <3>1. \A f \in begun.flight : f.generation <= begun.generation
                                  /\ f.generation # begun.generation
      BY <1>1, <2>2, <2>4 DEF Idle, ListType, Count, PageOfSize
    <3> QED BY <2>2, <3>1 DEF ListIsRight
  <2>6. CASE l.total # 0
    <3>1. LoadBatch(l) = FetchPage(begun) BY <1>3, <2>1, <2>6 DEF LoadBatch
    <3> QED BY <2>2, <2>4, <2>5, <3>1, FetchPageIsRight
  <2>7. CASE l.total = 0
    <3>1. PICK f : f = [kind |-> "count", generation |-> l.generation, network |-> l.source]
      OBVIOUS
    <3>2. PICK m : m = [begun EXCEPT !.flight = @ \cup {f}] OBVIOUS
    <3>3. LoadBatch(l) = m BY <1>3, <2>1, <2>7, <3>1, <3>2 DEF LoadBatch
    <3>4. f \in Count BY <1>1, <3>1 DEF ListType, Count
    <3>5. m \in ListType
      <4>1. begun.flight \cup {f} \in SUBSET (Count \cup PageOfSize)
        BY <2>2, <3>4 DEF ListType
      <4>2. m = [begun EXCEPT !.flight = begun.flight \cup {f}] BY <2>2, <3>2 DEF ListType
      <4> QED BY <2>2, <4>1, <4>2 DEF ListType
    <3>6. /\ m.source = begun.source /\ m.generation = begun.generation
          /\ m.items = begun.items /\ m.total = begun.total /\ m.loaded = begun.loaded
          /\ m.busy = begun.busy /\ m.flight = begun.flight \cup {f}
      BY <2>2, <3>2 DEF ListType
    <3>7. /\ f.generation = begun.generation /\ f.network = begun.source
          /\ f.kind # "page" /\ begun.total = 0
      BY <2>2, <2>7, <3>1
    <3> QED BY <2>2, <2>4, <2>5, <3>3, <3>4, <3>5, <3>6, <3>7, AskedIsRight
  <2> QED BY <2>6, <2>7
<1> QED BY <1>1, <1>2, <1>3 DEF ListType

LEMMA LoadedIsRight ==
  ASSUME NEW names, NEW l, ListIsRight(l, names), NEW n
  PROVE  ListIsRight(Loaded(l, n), names) /\ Loaded(l, n).source = l.source
BY LoadBatchIsRight DEF Loaded

LEMMA EnrichedIsRight ==
  ASSUME NEW names, NEW l, ListIsRight(l, names), NEW network \in Network,
         NEW shown, shown.items \in Items
  PROVE  LET m == Enriched(l, shown.items, network)
         IN  ListIsRight(m, names) /\ m.source = l.source
<1>1. l \in ListType BY DEF ListIsRight
<1>2. PICK toFetch :
        toFetch = {p \in ToSet(shown.items) : <<network, p.name>> \notin l.attempted}
  OBVIOUS
<1>3. \A p \in toFetch : p.name \in Package /\ p.cid \in Cids
  <2>1. PICK Item : Item = [name : Package, cid : Cids] OBVIOUS
  <2>2. shown.items \in Seq(Item) BY <2>1 DEF Items
  <2>3. ToSet(shown.items) \subseteq Item BY <2>2 DEF ToSet
  <2> QED BY <1>2, <2>1, <2>3
<1>4. PICK tried, asked :
        /\ tried = {<<network, p.name>> : p \in toFetch}
        /\ asked = {[key |-> <<network, p.name>>, cid |-> p.cid] : p \in toFetch}
  OBVIOUS
<1>5. tried \subseteq Cids /\ asked \subseteq [key : Cids, cid : Cids]
  BY <1>3, <1>4 DEF Cids
<1>6. PICK m : m = [l EXCEPT !.attempted = @ \cup tried, !.lookups = @ \cup asked] OBVIOUS
<1>7. m = Enriched(l, shown.items, network) BY <1>2, <1>4, <1>6 DEF Enriched
<1>8. m \in ListType BY <1>1, <1>5, <1>6 DEF ListType
<1>9. Alike(l, m) BY <1>1, <1>6 DEF Alike, ListType
<1> QED BY <1>7, <1>8, <1>9, AlikeIsRight DEF Alike

\* Rendering a right list leaves a right list of the selected network.
LEMMA RenderedIsRight ==
  ASSUME NEW chains \in ChainType, NEW l, ListIsRight(l, chains[l.source]), NEW n \in NetType
  PROVE  LET m == ListRendered(l, n)
         IN  ListIsRight(m, chains[n.network]) /\ m.source = n.network
<1>1. l \in ListType BY DEF ListIsRight
<1>2. n.network \in Network /\ Connected(n) \in BOOLEAN BY DEF NetType, Connected
<1>3. PICK names \in Seq(Package) : names = chains[n.network] BY <1>2 DEF ChainType
<1>4. PICK reset : reset = IF l.source # n.network THEN Reset(l, n.network) ELSE l OBVIOUS
<1>5. ListIsRight(reset, names) /\ reset.source = n.network
  <2>1. \A f \in l.flight : f.generation <= l.generation BY DEF ListIsRight
  <2> QED BY <1>1, <1>2, <1>3, <1>4, <2>1, ResetIsRight
<1>6. PICK current : current = [reset EXCEPT !.enabled = Connected(n)] OBVIOUS
<1>7. ListIsRight(current, names) /\ current.source = n.network
  BY <1>2, <1>5, <1>6, EnabledIsRight
<1>8. PICK loaded : loaded = IF l.source # n.network \/ l.enabled # Connected(n)
                               THEN Loaded(current, n) ELSE current
  OBVIOUS
<1>9. ListIsRight(loaded, names) /\ loaded.source = n.network
  BY <1>7, <1>8, LoadedIsRight
<1>10. PICK enriched : enriched = Enriched(loaded, l.items, n.network) OBVIOUS
<1>11. ListIsRight(enriched, names) /\ enriched.source = n.network
  <2>1. l.items \in Items BY <1>1 DEF ListType
  <2> QED BY <1>2, <1>9, <1>10, <2>1, EnrichedIsRight
<1>12. ListRendered(l, n) = Drained(enriched, l, n)
  BY <1>4, <1>6, <1>8, <1>10 DEF ListRendered
<1>13. ListIsRight(Drained(enriched, l, n), names) /\ Drained(enriched, l, n).source = n.network
  BY <1>11, LoadBatchIsRight DEF Drained
<1> QED BY <1>3, <1>12, <1>13

LEMMA MountedIsRight ==
  ASSUME NEW chains \in ChainType, NEW n \in NetType
  PROVE  LET m == ListMounted(n)
         IN  ListIsRight(m, chains[n.network]) /\ m.source = n.network
<1>1. n.network \in Network /\ Connected(n) \in BOOLEAN BY DEF NetType, Connected
<1>2. PICK names \in Seq(Package) : names = chains[n.network] BY <1>1 DEF ChainType
<1>3. PICK fresh : fresh = FreshList(n.network) OBVIOUS
<1>4. fresh \in ListType /\ fresh.flight = {}
  BY <1>1, <1>3 DEF FreshList, ListType, Items, Metadata, Cids
<1>5. PICK reset : reset = Reset(fresh, n.network) OBVIOUS
<1>6. ListIsRight(reset, names) /\ reset.source = n.network
  BY <1>1, <1>4, <1>5, ResetIsRight
<1>7. PICK enabled : enabled = [reset EXCEPT !.enabled = Connected(n)] OBVIOUS
<1>8. ListIsRight(enabled, names) /\ enabled.source = n.network
  BY <1>1, <1>6, <1>7, EnabledIsRight
<1>9. ListMounted(n) = Loaded(enabled, n) BY <1>3, <1>5, <1>7 DEF ListMounted
<1> QED BY <1>2, <1>8, <1>9, LoadedIsRight
-----------------------------------------------------------------------------
(* Answers to the list's queries. *)

\* A page none of which is listed is appended as it is.
LEMMA AllUnlisted ==
  ASSUME NEW S, NEW fresh \in Seq(S), NEW items,
         \A i \in DOMAIN fresh, p \in ToSet(items) : p.name # fresh[i].name
  PROVE  Unlisted(fresh, items) = fresh
<1>1. PICK kept : kept = {i \in DOMAIN fresh : \A p \in ToSet(items) : p.name # fresh[i].name}
  OBVIOUS
<1>2. PICK size \in Nat : size = Len(fresh) /\ DOMAIN fresh = 1..size OBVIOUS
<1>3. kept = 1..size BY <1>1, <1>2
<1>4. ASSUME NEW i \in 1..size PROVE Cardinality({j \in kept : j <= i}) = i
  <2>1. {j \in kept : j <= i} = 1..i BY <1>2, <1>3
  <2>2. i \in Int /\ 1 \in Int /\ ~(1 > i) /\ i - 1 + 1 = i OBVIOUS
  <2>3. Cardinality(1..i) = i BY <2>2, FS_Interval
  <2> QED BY <2>1, <2>3
<1>5. Cardinality(kept) = size
  <2>1. size = 0 => 1..size = {} OBVIOUS
  <2>2. Cardinality(1..size) = IF 1 > size THEN 0 ELSE size - 1 + 1 BY FS_Interval
  <2> QED BY <1>3, <2>2
<1>6. PICK Place : Place = [i \in 1..size |-> Cardinality({j \in kept : j <= i})] OBVIOUS
<1>7. \A k \in 1..size : (CHOOSE i \in kept : Cardinality({j \in kept : j <= i}) = k) = k
  <2> SUFFICES ASSUME NEW k \in 1..size
               PROVE  (CHOOSE i \in kept : Cardinality({j \in kept : j <= i}) = k) = k
    OBVIOUS
  <2>1. k \in kept /\ Cardinality({j \in kept : j <= k}) = k BY <1>3, <1>4
  <2>2. \A i \in kept : Cardinality({j \in kept : j <= i}) = k => i = k BY <1>3, <1>4
  <2> QED BY <2>1, <2>2
<1>8. Unlisted(fresh, items)
        = [k \in 1..size |-> fresh[CHOOSE i \in kept : Cardinality({j \in kept : j <= i}) = k]]
  BY <1>1, <1>5 DEF Unlisted
<1>9. Unlisted(fresh, items) = [k \in 1..size |-> fresh[k]] BY <1>7, <1>8
<1> QED BY <1>2, <1>9

\* What is answered is no longer under way; the current generation has no
\* other query, so the hook is idle then.
LEMMA AnsweredIsRight ==
  ASSUME NEW names, NEW l, ListIsRight(l, names), NEW f \in l.flight
  PROVE  LET m == [l EXCEPT !.flight = @ \ {f}]
         IN  /\ ListIsRight(m, names) /\ m \in ListType
             /\ m.source = l.source /\ m.total = l.total /\ m.loaded = l.loaded
             /\ m.items = l.items /\ m.busy = l.busy
             /\ f.generation = l.generation => Idle(m)
<1>1. l \in ListType BY DEF ListIsRight
<1>2. PICK m : m = [l EXCEPT !.flight = l.flight \ {f}] OBVIOUS
<1>3. m = [l EXCEPT !.flight = @ \ {f}] BY <1>1, <1>2 DEF ListType
<1>4. l.flight \ {f} \in SUBSET (Count \cup PageOfSize) BY <1>1 DEF ListType
<1>5. m \in ListType BY <1>1, <1>2, <1>4 DEF ListType
<1>6. /\ m.source = l.source /\ m.generation = l.generation /\ m.items = l.items
      /\ m.total = l.total /\ m.loaded = l.loaded /\ m.busy = l.busy
      /\ m.flight = l.flight \ {f}
  BY <1>1, <1>2 DEF ListType
<1>7. ListIsRight(m, names)
  <2>1. \A g \in m.flight : /\ g.generation <= m.generation
                            /\ g.generation = m.generation => Asks(m, g)
    BY <1>6 DEF ListIsRight, Asks
  <2> QED BY <1>5, <1>6, <2>1 DEF ListIsRight
<1>8. ASSUME f.generation = l.generation PROVE Idle(m)
  <2>1. \A g \in l.flight : g.generation = l.generation => g = f
    BY <1>8 DEF ListIsRight, Asks
  <2>2. \A g \in l.flight : g.generation \in Nat /\ g.generation <= l.generation /\ l.generation \in Nat
    BY <1>1 DEF ListIsRight, ListType, Count, PageOfSize
  <2> QED BY <1>6, <2>1, <2>2 DEF Idle
<1> QED BY <1>3, <1>5, <1>6, <1>7, <1>8

\* A stretch of the registry, newest first.
LEMMA NewestFirst ==
  ASSUME NEW names \in Seq(Package), NEW start \in Nat, NEW size \in Nat,
         start + size <= Len(names)
  PROVE  LET back == Reverse(SubSeq(names, start + 1, start + size))
         IN  /\ back \in Seq(Package) /\ Len(back) = size
             /\ \A i \in 1..size : back[i] = names[start + size + 1 - i]
<1>1. PICK here : here = SubSeq(names, start + 1, start + size) OBVIOUS
<1>2. /\ here \in Seq(Package) /\ Len(here) = size
      /\ \A i \in 1..size : here[i] = names[start + i]
  BY <1>1
<1>3. PICK back : back = Reverse(here) OBVIOUS
<1>4. back = [i \in 1..size |-> here[(size - i) + 1]] BY <1>2, <1>3 DEF Reverse
<1>5. \A i \in 1..size : (size - i) + 1 \in 1..size /\ start + ((size - i) + 1) = start + size + 1 - i
  OBVIOUS
<1>6. \A i \in 1..size : back[i] \in Package /\ back[i] = names[start + size + 1 - i]
  <2> SUFFICES ASSUME NEW i \in 1..size
               PROVE  back[i] \in Package /\ back[i] = names[start + size + 1 - i]
    OBVIOUS
  <2>1. PICK j \in 1..size : j = (size - i) + 1 /\ start + j = start + size + 1 - i BY <1>5
  <2>2. back[i] = here[j] BY <1>4, <2>1
  <2>3. here[j] = names[start + j] /\ here[j] \in Package BY <1>2
  <2> QED BY <2>1, <2>2, <2>3
<1>7. back \in Seq(Package) /\ Len(back) = size
  <2>1. back \in [1..size -> Package] BY <1>4, <1>6
  <2> QED BY <2>1
<1> QED BY <1>1, <1>3, <1>6, <1>7

\* What an answered page query was asked for, in terms of the list.
LEMMA Asked ==
  ASSUME NEW names \in Seq(Package), NEW l, ListIsRight(l, names), NEW f \in l.flight,
         f.generation = l.generation, f.kind = "page"
  PROVE  \E total, loaded, start, size \in Nat :
           /\ total = l.total /\ loaded = l.loaded /\ start = f.start /\ size = f.size
           /\ total <= Len(names) /\ start + size = total - loaded /\ f.network = l.source
           /\ Len(l.items) = loaded /\ l.items \in Items /\ l.source \in Network
           /\ \A i \in 1..loaded : l.items[i] = Newest(names, total + 1 - i, l.source)
<1>1. /\ l.total \in Nat /\ l.loaded \in Nat /\ l.source \in Network /\ l.items \in Items
      /\ f \in Count \cup PageOfSize
  BY DEF ListIsRight, ListType
<1>2. f.start \in Nat /\ f.size \in Nat BY <1>1 DEF Count, PageOfSize
<1>3. f.network = l.source /\ f.start + f.size = l.total - l.loaded /\ l.total <= Len(names)
  BY DEF ListIsRight, Asks
<1>4. /\ Len(l.items) = l.loaded
      /\ \A i \in 1..l.loaded : l.items[i] = Newest(names, l.total + 1 - i, l.source)
  BY DEF ListIsRight
<1> QED BY <1>1, <1>2, <1>3, <1>4

\* The packages that a page query was asked for, newest first.
LEMMA PageIsNewest ==
  ASSUME NEW names \in Seq(Package), NEW l, ListIsRight(l, names), NEW f \in l.flight,
         f.generation = l.generation, f.kind = "page", chain[f.network] = names
  PROVE  LET fresh == PageOf(f)
         IN  /\ fresh \in Items /\ Len(fresh) = f.size
             /\ \A i \in 1..f.size :
                  fresh[i] = Newest(names, l.total + 1 - (l.loaded + i), l.source)
<1>1. PICK total, loaded, start, size \in Nat :
        /\ total = l.total /\ loaded = l.loaded /\ start = f.start /\ size = f.size
        /\ total <= Len(names) /\ start + size = total - loaded /\ f.network = l.source
        /\ l.source \in Network
  BY Asked
<1>0. total <= Len(names) /\ start + size = total - loaded BY <1>1
<1>2. PICK back : back = Reverse(SubSeq(names, start + 1, start + size)) OBVIOUS
<1>3. /\ back \in Seq(Package) /\ Len(back) = size
      /\ \A i \in 1..size : back[i] = names[start + size + 1 - i]
  <2>1. start + size <= Len(names) BY <1>0
  <2> QED BY <1>2, <2>1, NewestFirst
<1>4. \A i \in 1..size : start + size + 1 - i = total + 1 - (loaded + i) BY <1>0
<1>5. PICK fresh : fresh = PageOf(f) OBVIOUS
<1>6. fresh = [i \in 1..size |-> [name |-> back[i], cid |-> Cid(l.source, back[i])]]
  <2>1. DOMAIN back = 1..size BY <1>3
  <2> QED BY <1>1, <1>2, <1>5, <2>1 DEF PageOf
<1>7. \A i \in 1..size : [name |-> back[i], cid |-> Cid(l.source, back[i])]
                           \in [name : Package, cid : Cids]
  <2>1. \A i \in 1..size : back[i] \in Package BY <1>3
  <2>2. l.source \in Network BY <1>1
  <2> QED BY <2>1, <2>2 DEF Cid, Cids
<1>8. fresh \in Items /\ Len(fresh) = size
  <2>1. PICK Item : Item = [name : Package, cid : Cids] OBVIOUS
  <2>2. fresh \in [1..size -> Item] BY <1>6, <1>7, <2>1
  <2>3. fresh \in Seq(Item) /\ Len(fresh) = size BY <2>2
  <2> QED BY <2>1, <2>3 DEF Items
<1>9. ASSUME NEW i \in 1..size PROVE fresh[i] = Newest(names, total + 1 - (loaded + i), l.source)
  <2>1. back[i] = names[total + 1 - (loaded + i)] BY <1>3, <1>4
  <2> QED BY <1>6, <2>1 DEF Newest
<1> QED BY <1>1, <1>5, <1>8, <1>9

\* A page is not listed before it arrives, since a registry lists a name once.
LEMMA PageIsUnlisted ==
  ASSUME NEW names \in Seq(Package), Distinct(names), NEW l, ListIsRight(l, names),
         NEW f \in l.flight, f.generation = l.generation, f.kind = "page",
         chain[f.network] = names
  PROVE  Unlisted(PageOf(f), l.items) = PageOf(f)
<1>1. PICK fresh : fresh = PageOf(f) OBVIOUS
<1>2. PICK total, loaded, start, size \in Nat :
        /\ total = l.total /\ loaded = l.loaded /\ start = f.start /\ size = f.size
        /\ total <= Len(names) /\ start + size = total - loaded
        /\ Len(l.items) = loaded /\ l.items \in Items
        /\ \A i \in 1..loaded : l.items[i] = Newest(names, total + 1 - i, l.source)
  BY Asked
<1>3. /\ fresh \in Items /\ Len(fresh) = size
      /\ \A i \in 1..size : fresh[i] = Newest(names, total + 1 - (loaded + i), l.source)
  BY <1>1, <1>2, PageIsNewest
<1>4. fresh \in Seq([name : Package, cid : Cids]) /\ l.items \in Seq([name : Package, cid : Cids])
  BY <1>2, <1>3 DEF Items
<1>5. DOMAIN fresh = 1..size /\ DOMAIN l.items = 1..loaded BY <1>2, <1>3, <1>4
<1>6. \A i \in DOMAIN fresh, p \in ToSet(l.items) : p.name # fresh[i].name
  <2> SUFFICES ASSUME NEW i \in 1..size, NEW p \in ToSet(l.items)
               PROVE  p.name # fresh[i].name
    BY <1>5
  <2>1. PICK j \in 1..loaded : p = l.items[j] BY <1>5 DEF ToSet
  <2>0. /\ total <= Len(names) /\ start + size = total - loaded
        /\ \A q \in 1..loaded : l.items[q] = Newest(names, total + 1 - q, l.source)
    BY <1>2
  <2>2. PICK m, n \in Int : m = total + 1 - j /\ n = total + 1 - (loaded + i) OBVIOUS
  <2>3. p.name = names[m]
    <3>1. l.items[j] = Newest(names, m, l.source) BY <2>0, <2>2
    <3> QED BY <2>1, <3>1 DEF Newest
  <2>4. fresh[i].name = names[n]
    <3>1. fresh[i] = Newest(names, n, l.source) BY <1>3, <2>2
    <3> QED BY <3>1 DEF Newest
  <2>5. m \in 1..Len(names) /\ n \in 1..Len(names) /\ m # n BY <2>0, <2>2
  <2> QED BY <2>3, <2>4, <2>5 DEF Distinct
<1> QED BY <1>1, <1>4, <1>6, AllUnlisted
-----------------------------------------------------------------------------
(* Steps of the list. *)

Right(l) == ListIsRight(l, chain[l.source]) /\ l.source = net.network

LEMMA ListKept ==
  ASSUME IInv, list.mounted
  PROVE  /\ Right(list) /\ list \in ListType /\ list.source \in Network
         /\ chain[list.source] \in Seq(Package) /\ Distinct(chain[list.source])
<1>1. list # NoList BY DEF NoList
<1>2. Right(list) /\ list \in ListType BY <1>1 DEF IInv, ListOK, Right, ListIsRight
<1>3. list.source \in Network BY <1>2 DEF ListType
<1> QED BY <1>2, <1>3 DEF IInv, TypeOK, ChainType

\* What a render makes of a right list is right, and a step that changes
\* nothing else keeps the promise.
LEMMA RenderStep ==
  ASSUME IInv, NEW l, Right(l), list' = ListRendered(l, net), net' = net, chain' = chain
  PROVE  ListOK'
<1>1. PICK m : m = ListRendered(l, net) OBVIOUS
<1>2. chain \in ChainType /\ net \in NetType BY DEF IInv, TypeOK
<1>3. ListIsRight(m, chain[net.network]) /\ m.source = net.network
  BY <1>1, <1>2, RenderedIsRight DEF Right
<1> QED BY <1>1, <1>3 DEF ListOK

LEMMA CountStep ==
  ASSUME IInv, list.mounted, NEW f \in list.flight, CountArrives(f), net' = net, chain' = chain
  PROVE  ListOK'
<1>1. PICK m : m = Answered(f) OBVIOUS
<1>2. PICK names \in Seq(Package) : names = chain[list.source] BY ListKept
<1>3. list \in ListType /\ ListIsRight(list, names) /\ list.source = net.network
  BY <1>2, ListKept DEF Right
<1>4. /\ ListIsRight(m, names) /\ m \in ListType
      /\ m.source = list.source /\ m.total = list.total /\ m.loaded = list.loaded
      /\ m.items = list.items /\ m.busy = list.busy
      /\ f.generation = list.generation => Idle(m)
  BY <1>1, <1>3, AnsweredIsRight DEF Answered
<1>5. CASE ~Current(f)
  <2>1. list' = m BY <1>1, <1>5 DEF CountArrives
  <2> QED BY <1>2, <1>3, <1>4, <2>1 DEF ListOK
<1>6. CASE Current(f)
  <2>1. /\ Idle(m) /\ list.busy /\ list.total = 0 /\ f.network = list.source
    BY <1>3, <1>4, <1>6 DEF Current, ListIsRight, Asks, CountArrives
  <2>2. list.loaded = 0 BY <1>3, <2>1 DEF ListIsRight, ListType
  <2>3. PICK counted : counted = [m EXCEPT !.total = Len(names)] OBVIOUS
  <2>a. PICK total \in Nat : total = Len(names) OBVIOUS
  <2>b. counted = [m EXCEPT !.total = total] BY <2>3, <2>a
  <2>c. counted \in ListType BY <1>4, <2>b DEF ListType
  <2>4. /\ counted \in ListType /\ counted.source = m.source /\ counted.busy
        /\ counted.generation = m.generation /\ counted.flight = m.flight
        /\ counted.total = Len(names) /\ counted.loaded = 0 /\ counted.items = m.items
    BY <1>4, <2>1, <2>2, <2>3, <2>c DEF ListType
  <2>5. Idle(counted) BY <2>1, <2>4 DEF Idle
  <2>6. ListIsRight(counted, names)
    <3>1. \A g \in counted.flight : /\ g.generation <= counted.generation
                                    /\ g.generation # counted.generation
      BY <2>4, <2>5 DEF Idle, ListType, Count, PageOfSize
    <3>2. Len(counted.items) = 0 /\ Len(names) \in Nat
      BY <1>3, <1>4, <2>2, <2>4 DEF ListIsRight
    <3> QED BY <2>4, <3>1, <3>2 DEF ListIsRight
  <2>7. ListIsRight(FetchPage(counted), names) /\ FetchPage(counted).source = counted.source
    BY <2>4, <2>5, <2>6, FetchPageIsRight
  <2>8. list' = ListRendered(FetchPage(counted), net)
    BY <1>1, <1>2, <1>6, <2>1, <2>3 DEF CountArrives
  <2>9. Right(FetchPage(counted)) BY <1>2, <1>3, <1>4, <2>4, <2>7 DEF Right
  <2> QED BY <2>8, <2>9, RenderStep
<1> QED BY <1>5, <1>6

LEMMA Concatenated ==
  ASSUME NEW S, NEW first \in Seq(S), NEW more \in Seq(S),
         NEW m \in Nat, m = Len(first), NEW n \in Nat, n = Len(more)
  PROVE  LET all == first \o more
         IN  /\ all \in Seq(S) /\ Len(all) = m + n
             /\ \A i \in 1..(m + n) :
                  \/ i \in 1..m /\ all[i] = first[i]
                  \/ i - m \in 1..n /\ all[i] = more[i - m]
OBVIOUS

\* A page goes to the end of the list.
LEMMA AppendedIsRight ==
  ASSUME NEW names \in Seq(Package), NEW l, ListIsRight(l, names), Idle(l),
         NEW size \in Nat, size <= l.total - l.loaded, NEW fresh \in Items, Len(fresh) = size,
         \A i \in 1..size : fresh[i] = Newest(names, l.total + 1 - (l.loaded + i), l.source),
         NEW m, m = [l EXCEPT !.loaded = @ + size, !.items = @ \o fresh]
  PROVE  ListIsRight(m, names) /\ Idle(m) /\ m.source = l.source
<1>1. l \in ListType BY DEF ListIsRight
<1>2. PICK total, loaded \in Nat : total = l.total /\ loaded = l.loaded BY <1>1 DEF ListType
<1>3. PICK items \in Items : items = l.items BY <1>1 DEF ListType
<1>4. /\ total <= Len(names) /\ size <= total - loaded /\ loaded + size \in Nat
  BY <1>2 DEF ListIsRight
<1>5. /\ Len(items) = loaded
      /\ \A i \in 1..loaded : items[i] = Newest(names, total + 1 - i, l.source)
  BY <1>2, <1>3 DEF ListIsRight
<1>6. \A i \in 1..size : fresh[i] = Newest(names, total + 1 - (loaded + i), l.source) BY <1>2
<1>7. PICK all : all = items \o fresh OBVIOUS
<1>8. /\ all \in Items /\ Len(all) = loaded + size
      /\ \A i \in 1..(loaded + size) :
           \/ i \in 1..loaded /\ all[i] = items[i]
           \/ i - loaded \in 1..size /\ all[i] = fresh[i - loaded]
  <2>1. PICK Item : Item = [name : Package, cid : Cids] OBVIOUS
  <2>2. items \in Seq(Item) /\ fresh \in Seq(Item) BY <2>1 DEF Items
  <2>3. /\ all \in Seq(Item) /\ Len(all) = loaded + size
        /\ \A i \in 1..(loaded + size) :
             \/ i \in 1..loaded /\ all[i] = items[i]
             \/ i - loaded \in 1..size /\ all[i] = fresh[i - loaded]
    BY <1>5, <1>7, <2>2, Concatenated
  <2> QED BY <2>1, <2>3 DEF Items
<1>9. ASSUME NEW i \in 1..(loaded + size) PROVE all[i] = Newest(names, total + 1 - i, l.source)
  <2>1. CASE i \in 1..loaded /\ all[i] = items[i] BY <1>5, <2>1
  <2>2. CASE i - loaded \in 1..size /\ all[i] = fresh[i - loaded]
    <3>1. PICK j \in 1..size : j = i - loaded BY <2>2
    <3>2. loaded + j = i BY <3>1
    <3>3. all[i] = Newest(names, total + 1 - (loaded + j), l.source) BY <1>6, <2>2, <3>1
    <3> QED BY <3>2, <3>3
  <2> QED BY <1>8, <2>1, <2>2
<1>10. m = [l EXCEPT !.loaded = loaded + size, !.items = all]
  BY <1>1, <1>2, <1>3, <1>7 DEF ListType
<1>12. m \in ListType BY <1>1, <1>4, <1>8, <1>10 DEF ListType
<1>13. /\ m.source = l.source /\ m.generation = l.generation /\ m.flight = l.flight
       /\ m.total = total /\ m.loaded = loaded + size /\ m.items = all
  BY <1>1, <1>2, <1>10 DEF ListType
<1>14. Idle(m) BY <1>13 DEF Idle
<1>15. \A g \in m.flight : g.generation <= m.generation /\ g.generation # m.generation
  BY <1>12, <1>14, IdleMeans
<1>16. loaded + size <= total BY <1>4
<1> QED BY <1>4, <1>8, <1>9, <1>12, <1>13, <1>14, <1>15, <1>16 DEF ListIsRight

LEMMA PageStep ==
  ASSUME IInv, list.mounted, NEW f \in list.flight, PageArrives(f), net' = net, chain' = chain
  PROVE  ListOK'
<1>1. PICK m : m = Answered(f) OBVIOUS
<1>2. PICK names \in Seq(Package) : names = chain[list.source] BY ListKept
<1>3. /\ list \in ListType /\ ListIsRight(list, names) /\ list.source = net.network
      /\ Distinct(names)
  BY <1>2, ListKept DEF Right
<1>4. /\ ListIsRight(m, names) /\ m \in ListType
      /\ m.source = list.source /\ m.total = list.total /\ m.loaded = list.loaded
      /\ m.items = list.items /\ m.busy = list.busy
      /\ f.generation = list.generation => Idle(m)
  BY <1>1, <1>3, AnsweredIsRight DEF Answered
<1>5. CASE ~Current(f)
  <2>1. list' = m BY <1>1, <1>5 DEF PageArrives
  <2> QED BY <1>2, <1>3, <1>4, <2>1 DEF ListOK
<1>6. CASE Current(f)
  <2>1. f.generation = list.generation /\ f.kind = "page" BY <1>6 DEF Current, PageArrives
  <2>2. PICK total, loaded, start, size \in Nat :
          /\ total = list.total /\ loaded = list.loaded /\ start = f.start /\ size = f.size
          /\ start + size = total - loaded /\ f.network = list.source
    BY <1>3, <2>1, Asked
  <2>3. start + size = total - loaded BY <2>2
  <2>4. PICK fresh : fresh = PageOf(f) OBVIOUS
  <2>5. chain[f.network] = names BY <1>2, <2>2
  <2>6. /\ fresh \in Items /\ Len(fresh) = size
        /\ \A i \in 1..size :
             fresh[i] = Newest(names, m.total + 1 - (m.loaded + i), m.source)
    BY <1>3, <1>4, <2>1, <2>2, <2>4, <2>5, PageIsNewest
  <2>7. Unlisted(fresh, list.items) = fresh BY <1>3, <2>1, <2>4, <2>5, PageIsUnlisted
  <2>8. size <= m.total - m.loaded
    <3>1. size <= total - loaded BY <2>3
    <3> QED BY <1>4, <2>2, <3>1
  <2>d. Idle(m) BY <1>4, <2>1
  <2>9. PICK longer : longer = [m EXCEPT !.loaded = @ + size, !.items = @ \o fresh] OBVIOUS
  <2>10. ListIsRight(longer, names) /\ Idle(longer) /\ longer.source = m.source
    BY <1>4, <2>6, <2>8, <2>9, <2>d, AppendedIsRight
  <2>11. ListIsRight(Finished(longer), names) /\ Finished(longer).source = longer.source
    BY <2>10, FinishedIsRight
  <2>12. list' = ListRendered(Finished(longer), net)
    BY <1>1, <1>6, <2>2, <2>4, <2>7, <2>9 DEF PageArrives
  <2>13. Right(Finished(longer)) BY <1>2, <1>3, <1>4, <2>10, <2>11 DEF Right
  <2> QED BY <2>12, <2>13, RenderStep
<1> QED BY <1>5, <1>6

LEMMA FailStep ==
  ASSUME IInv, list.mounted, NEW f \in list.flight, FetchFails(f), net' = net, chain' = chain
  PROVE  ListOK'
<1>1. PICK m : m = Answered(f) OBVIOUS
<1>2. PICK names \in Seq(Package) : names = chain[list.source] BY ListKept
<1>3. list \in ListType /\ ListIsRight(list, names) /\ list.source = net.network
  BY <1>2, ListKept DEF Right
<1>4. /\ ListIsRight(m, names) /\ m \in ListType /\ m.source = list.source
      /\ f.generation = list.generation => Idle(m)
  BY <1>1, <1>3, AnsweredIsRight DEF Answered
<1>5. CASE ~Current(f)
  <2>1. list' = m BY <1>1, <1>5 DEF FetchFails
  <2> QED BY <1>2, <1>3, <1>4, <2>1 DEF ListOK
<1>6. CASE Current(f)
  <2>1. PICK e : e = [m EXCEPT !.error = TRUE] OBVIOUS
  <2>2. e \in ListType /\ Alike(m, e) /\ e.source = m.source BY <1>4, <2>1 DEF ListType, Alike
  <2>3. ListIsRight(e, names) /\ Idle(e)
    BY <1>4, <1>6, <2>2, AlikeIsRight DEF Idle, Alike, Current
  <2>4. ListIsRight(Finished(e), names) /\ Finished(e).source = e.source
    BY <2>3, FinishedIsRight
  <2>5. list' = ListRendered(Finished(e), net) BY <1>1, <1>6, <2>1 DEF FetchFails
  <2>6. Right(Finished(e)) BY <1>2, <1>3, <1>4, <2>2, <2>4 DEF Right
  <2> QED BY <2>5, <2>6, RenderStep
<1> QED BY <1>5, <1>6

LEMMA LookupStep ==
  ASSUME IInv, list.mounted, NEW k \in list.lookups, LookupEnds(k), net' = net, chain' = chain
  PROVE  ListOK'
<1>1. list \in ListType /\ Right(list) BY ListKept
<1>2. PICK value \in {k.cid, Failed} :
        list' = [list EXCEPT !.lookups = @ \ {k}, !.metadata[k.key] = value]
  BY DEF LookupEnds
<1>3. k.key \in Cids /\ value \in Metadata BY <1>1 DEF ListType, Metadata
<1>4. PICK rest, known :
        rest = list.lookups \ {k} /\ known = [list.metadata EXCEPT ![k.key] = value]
  OBVIOUS
<1>5. list' = [list EXCEPT !.lookups = rest, !.metadata = known]
  BY <1>1, <1>2, <1>4 DEF ListType
<1>6. rest \subseteq [key : Cids, cid : Cids] /\ known \in [Cids -> Metadata]
  BY <1>1, <1>3, <1>4 DEF ListType
<1>7. PICK m : m = list' OBVIOUS
<1>8. m \in ListType BY <1>1, <1>5, <1>6, <1>7 DEF ListType
<1>9. Alike(list, m) BY <1>1, <1>5, <1>7 DEF Alike, ListType
<1>10. ListIsRight(m, chain[list.source]) /\ m.source = list.source
  BY <1>1, <1>8, <1>9, AlikeIsRight DEF Right, Alike
<1> QED BY <1>1, <1>7, <1>10 DEF ListOK, Right

\* Each answer, and what the user does with the list.
LEMMA ListStep ==
  ASSUME IInv, ListAnswer \/ LoadMore \/ Search, net' = net, chain' = chain
  PROVE  ListOK'
<1>1. CASE ListAnswer
  <2>1. list.mounted BY <1>1 DEF ListAnswer
  <2> QED BY <1>1, <2>1, CountStep, PageStep, FailStep, LookupStep DEF ListAnswer
<1>2. CASE LoadMore
  <2>1. list.mounted /\ list' = ListRendered(LoadBatch(list), net)
    BY <1>2 DEF LoadMore, GridShown
  <2>2. Right(list) BY <2>1, ListKept
  <2>3. Right(LoadBatch(list)) BY <2>2, LoadBatchIsRight DEF Right
  <2> QED BY <2>1, <2>3, RenderStep
<1>3. CASE Search
  <2>1. list.mounted /\ list' = ListRendered([list EXCEPT !.needle = TRUE], net)
    BY <1>3 DEF Search
  <2>2. Right(list) /\ list \in ListType BY <2>1, ListKept
  <2>3. PICK m : m = [list EXCEPT !.needle = TRUE] OBVIOUS
  <2>4. m \in ListType /\ Alike(list, m) BY <2>2, <2>3 DEF ListType, Alike
  <2>5. Right(m) BY <2>2, <2>4, AlikeIsRight DEF Right, Alike
  <2> QED BY <2>1, <2>3, <2>5, RenderStep
<1> QED BY <1>1, <1>2, <1>3
-----------------------------------------------------------------------------
(* The page of a package. *)

LEMMA FetchedIsRight ==
  ASSUME NEW p, PageIsRight(p)
  PROVE  LET m == Fetched(p)
         IN  PageIsRight(m) /\ m.name = p.name /\ m.source = p.source /\ m.state = p.state
<1>1. p \in PageType BY DEF PageIsRight
<1>2. CASE p.enabled /\ ~p.fetched
  <2>1. PICK q, m : q = Query(p) /\ m = [p EXCEPT !.fetched = TRUE, !.flight = p.flight \cup {q}]
    OBVIOUS
  <2>2. m = Fetched(p) BY <1>1, <1>2, <2>1 DEF Fetched, PageType
  <2>3. q \in Queries BY <1>1, <2>1 DEF Query, PageType, Queries
  <2>4. p.flight \cup {q} \in SUBSET Queries /\ p.flight \cup {q} \subseteq {q}
    BY <1>1, <2>1, <2>3 DEF PageType, PageIsRight
  <2>5. m \in PageType BY <1>1, <2>1, <2>4 DEF PageType
  <2>6. /\ m.name = p.name /\ m.source = p.source /\ m.state = p.state /\ m.pkg = p.pkg
        /\ m.lookup = p.lookup /\ m.flight = p.flight \cup {q}
    BY <1>1, <2>1 DEF PageType
  <2>7. Query(m) = q BY <2>1, <2>6 DEF Query
  <2>8. Found(p) => Found(m) BY <2>1, <2>6, <2>7 DEF Found
  <2> QED BY <2>2, <2>4, <2>5, <2>6, <2>7, <2>8 DEF PageIsRight
<1>3. CASE ~(p.enabled /\ ~p.fetched) BY <1>3 DEF Fetched
<1> QED BY <1>2, <1>3

\* A page of another name or network starts anew; what was under way for the
\* one before is cancelled.
LEMMA PageRenderedIsRight ==
  ASSUME NEW p, PageIsRight(p), NEW name \in Package, NEW n \in NetType
  PROVE  LET m == PageRendered(p, name, n)
         IN  /\ PageIsRight(m) /\ m.name = name /\ m.source = n.network
             /\ (p.name # name \/ p.source # n.network) => m.state = "loading"
<1>1. p \in PageType /\ n.network \in Network /\ Connected(n) \in BOOLEAN
  BY DEF PageIsRight, NetType, Connected
<1>2. CASE p.name # name \/ p.source # n.network
  <2>1. PICK c : c = Cancelled([Cleared(p) EXCEPT !.name = name, !.source = n.network,
                                                  !.enabled = Connected(n)])
    OBVIOUS
  <2>2. /\ c \in PageType /\ c.name = name /\ c.source = n.network /\ c.state = "loading"
        /\ c.flight = {} /\ c.lookup = {}
    BY <1>1, <2>1 DEF Cancelled, Cleared, PageType
  <2>3. PageIsRight(c) BY <2>2 DEF PageIsRight
  <2>4. PageRendered(p, name, n) = Fetched(c) BY <1>2, <2>1 DEF PageRendered
  <2> QED BY <1>2, <2>2, <2>3, <2>4, FetchedIsRight
<1>3. CASE ~(p.name # name \/ p.source # n.network) /\ p.enabled # Connected(n)
  <2>1. PICK c : c = Cancelled([p EXCEPT !.name = name, !.source = n.network,
                                         !.enabled = Connected(n)])
    OBVIOUS
  <2>2. /\ c \in PageType /\ c.name = name /\ c.source = n.network /\ c.state = p.state
        /\ c.flight = {} /\ c.lookup = p.lookup /\ c.pkg = p.pkg
    BY <1>1, <2>1 DEF Cancelled, PageType
  <2>3. Query(c) = Query(p) BY <1>3, <2>2 DEF Query
  <2>4. Found(p) => Found(c) BY <1>3, <2>2, <2>3 DEF Found
  <2>5. PageIsRight(c) BY <1>3, <2>2, <2>4 DEF PageIsRight
  <2>6. PageRendered(p, name, n) = Fetched(c) BY <1>3, <2>1 DEF PageRendered
  <2> QED BY <1>3, <2>2, <2>5, <2>6, FetchedIsRight
<1>4. CASE ~(p.name # name \/ p.source # n.network) /\ p.enabled = Connected(n)
  BY <1>4 DEF PageRendered
<1> QED BY <1>2, <1>3, <1>4

LEMMA PageMountedIsRight ==
  ASSUME NEW name \in Package, NEW n \in NetType
  PROVE  LET m == PageMounted(name, n) IN PageIsRight(m) /\ m.source = n.network
<1>1. n.network \in Network /\ Connected(n) \in BOOLEAN BY DEF NetType, Connected
<1>2. PICK fresh : fresh =
        [name |-> name, source |-> n.network, enabled |-> Connected(n), tab |-> "readme",
         pkg |-> NoPackage, state |-> "loading", fetched |-> FALSE, flight |-> {},
         lookup |-> {}]
  OBVIOUS
<1>3. fresh \in PageType BY <1>1, <1>2 DEF PageType
<1>4. PageIsRight(fresh) /\ fresh.source = n.network BY <1>2, <1>3 DEF PageIsRight
<1>5. PageMounted(name, n) = Fetched(fresh) BY <1>2 DEF PageMounted
<1> QED BY <1>4, <1>5, FetchedIsRight

LEMMA FetchedVersionsAreRight ==
  ASSUME NEW p \in PageType, NEW v, VersionsAreRight(v, p), NEW isOpen \in BOOLEAN
  PROVE  VersionsAreRight(FetchedVersions(v, p, isOpen), p)
<1>1. v \in VersionsType BY DEF VersionsAreRight
<1>2. Query(p) \in Queries BY DEF Query, PageType, Queries
<1>3. CASE isOpen /\ ~v.fetched
  <2>1. PICK m : m = [v EXCEPT !.fetched = TRUE, !.shown = "loading", !.flight = {Query(p)}]
    OBVIOUS
  <2>2. m \in VersionsType /\ m.of = v.of /\ m.flight = {Query(p)}
    BY <1>1, <1>2, <2>1 DEF VersionsType
  <2> QED BY <1>3, <2>1, <2>2 DEF FetchedVersions, VersionsAreRight
<1>4. CASE ~(isOpen /\ ~v.fetched) BY <1>4 DEF FetchedVersions
<1> QED BY <1>3, <1>4

VersionsFit(v, p) == v # NoVersions => VersionsAreRight(v, p)

LEMMA VersionsRenderedAreRight ==
  ASSUME NEW p, PageIsRight(p), NEW v, VersionsFit(v, p), NEW n \in NetType
  PROVE  LET m == VersionsRendered(v, p, n)
         IN  m # NoVersions => p # NoPage /\ VersionsAreRight(m, p)
<1>1. CASE ~BodyShown(p, n) BY <1>1 DEF VersionsRendered
<1>2. CASE BodyShown(p, n) /\ v # NoVersions
  BY <1>2 DEF VersionsRendered, BodyShown, VersionsFit
<1>3. CASE BodyShown(p, n) /\ v = NoVersions
  <2>1. PICK fresh : fresh = [fetched |-> FALSE, shown |-> "nothing", of |-> {}, flight |-> {}]
    OBVIOUS
  <2>2. VersionsAreRight(fresh, p) BY <2>1 DEF VersionsAreRight, VersionsType
  <2>3. (p.tab = "versions") \in BOOLEAN /\ p \in PageType BY DEF PageIsRight
  <2>4. VersionsRendered(v, p, n) = FetchedVersions(fresh, p, p.tab = "versions")
    BY <1>3, <2>1 DEF VersionsRendered, VersionsMounted
  <2>5. VersionsAreRight(FetchedVersions(fresh, p, p.tab = "versions"), p)
    BY <2>2, <2>3, FetchedVersionsAreRight
  <2> QED BY <1>3, <2>4, <2>5 DEF BodyShown
<1> QED BY <1>1, <1>2, <1>3

-----------------------------------------------------------------------------
(* Steps of the page. *)

LEMMA PageKept ==
  ASSUME IInv, page # NoPage
  PROVE  /\ PageIsRight(page) /\ page \in PageType /\ page.source = net.network
         /\ VersionsFit(versions, page)
BY DEF IInv, PageOK, VersionsOK, PageIsRight, VersionsFit

\* What changes neither the name nor the network of the page.
LEMMA BecomesStep ==
  ASSUME IInv, page # NoPage, NEW p, PageIsRight(p), p.name = page.name, p.source = page.source,
         PageBecomes(p), net' = net
  PROVE  PageOK' /\ VersionsOK'
<1>1. page' = p /\ versions' = VersionsRendered(versions, p, net) /\ net \in NetType
  BY DEF PageBecomes, IInv, TypeOK
<1>2. VersionsFit(versions, p)
  <2>1. Query(p) = Query(page) BY DEF Query
  <2> QED BY <2>1, PageKept DEF VersionsFit, VersionsAreRight
<1>3. versions' # NoVersions => p # NoPage /\ VersionsAreRight(versions', p)
  BY <1>1, <1>2, VersionsRenderedAreRight
<1> QED BY <1>1, <1>3, PageKept DEF PageOK, VersionsOK

LEMMA PackageStep ==
  ASSUME IInv, page # NoPage, NEW q \in page.flight, PackageArrives(q) \/ PackageFails(q),
         net' = net
  PROVE  PageOK' /\ VersionsOK'
<1>1. PageIsRight(page) /\ page \in PageType BY PageKept
<1>2. q = Query(page) /\ q \in Queries BY <1>1 DEF PageIsRight, PageType
<1>3. q.name = page.name /\ q.network = page.source BY <1>2 DEF Query
<1>4. PICK rest : rest = page.flight \ {q} OBVIOUS
<1>5. rest = {} BY <1>1, <1>2, <1>4 DEF PageIsRight
<1>6. CASE PackageArrives(q) /\ q.name \in ToSet(chain[q.network])
  <2>1. PICK p : p = [page EXCEPT !.flight = rest, !.state = "found",
                        !.pkg = [query |-> q, metadata |-> Pending],
                        !.lookup = {Cid(q.network, q.name)}]
    OBVIOUS
  <2>2. PageBecomes(p) BY <1>1, <1>4, <1>6, <2>1 DEF PackageArrives, PageType
  <2>3. PICK pkg : pkg = [query |-> q, metadata |-> Pending] OBVIOUS
  <2>4. pkg \in [query : Queries, metadata : Metadata] /\ pkg.query = q
        /\ pkg.metadata = Pending
    BY <1>2, <2>3 DEF Metadata
  <2>5. PICK cid : cid = Cid(page.source, page.name) OBVIOUS
  <2>6. cid \in Cids BY <1>1, <2>5 DEF Cid, Cids, PageType
  <2>7. p = [page EXCEPT !.flight = {}, !.state = "found", !.pkg = pkg, !.lookup = {cid}]
    BY <1>3, <1>5, <2>1, <2>3, <2>5
  <2>8. /\ p \in PageType /\ p.name = page.name /\ p.source = page.source /\ p.pkg = pkg
        /\ p.flight = {} /\ p.lookup = {cid}
    BY <1>1, <2>4, <2>6, <2>7 DEF PageType
  <2>9. Query(p) = q BY <1>2, <2>8 DEF Query
  <2>10. Found(p) BY <2>4, <2>8, <2>9 DEF Found
  <2>11. PageIsRight(p) BY <2>5, <2>8, <2>10 DEF PageIsRight
  <2> QED BY <2>2, <2>8, <2>11, BecomesStep
<1>7. ASSUME NEW state \in {"notFound", "error"},
             PageBecomes([page EXCEPT !.flight = rest, !.state = state])
      PROVE  PageOK' /\ VersionsOK'
  <2>1. PICK p : p = [page EXCEPT !.flight = {}, !.state = state] OBVIOUS
  <2>2. /\ p \in PageType /\ p.name = page.name /\ p.source = page.source /\ p.pkg = page.pkg
        /\ p.flight = {} /\ p.lookup = page.lookup /\ p.state # "found"
    BY <1>1, <1>7, <2>1 DEF PageType
  <2>3. Query(p) = Query(page) BY <2>2 DEF Query
  <2>4. Found(page) => Found(p) BY <2>2, <2>3 DEF Found
  <2>5. PageIsRight(p) BY <1>1, <2>2, <2>4 DEF PageIsRight
  <2> QED BY <1>5, <1>7, <2>1, <2>2, <2>5, BecomesStep
<1>8. CASE PackageArrives(q) /\ q.name \notin ToSet(chain[q.network])
  <2>1. PageBecomes([page EXCEPT !.flight = rest, !.state = "notFound"])
    BY <1>1, <1>4, <1>8 DEF PackageArrives, PageType
  <2> QED BY <1>7, <2>1
<1>9. CASE PackageFails(q)
  <2>1. PageBecomes([page EXCEPT !.flight = rest, !.state = "error"])
    BY <1>1, <1>4, <1>9 DEF PackageFails, PageType
  <2> QED BY <1>7, <2>1
<1> QED BY <1>6, <1>8, <1>9

LEMMA MetadataStep ==
  ASSUME IInv, page # NoPage, NEW cid \in page.lookup, MetadataEnds(cid), net' = net
  PROVE  PageOK' /\ VersionsOK'
<1>1. PageIsRight(page) /\ page \in PageType BY PageKept
<1>2. Found(page) /\ cid = Cid(page.source, page.name) /\ cid \in Cids
  BY <1>1 DEF PageIsRight, PageType
<1>3. PICK value \in {cid, Failed} :
        PageBecomes([page EXCEPT !.lookup = {}, !.pkg.metadata = value])
  BY DEF MetadataEnds
<1>4. PICK old, pkg : old = page.pkg /\ pkg = [old EXCEPT !.metadata = value] OBVIOUS
<1>5. old \in [query : Queries, metadata : Metadata] BY <1>2, <1>4 DEF Found
<1>6. /\ pkg \in [query : Queries, metadata : Metadata] /\ pkg.query = old.query
      /\ pkg.metadata = value
  BY <1>2, <1>4, <1>5 DEF Metadata
<1>7. PICK p : p = [page EXCEPT !.lookup = {}, !.pkg = pkg] OBVIOUS
<1>8. PageBecomes(p) BY <1>1, <1>3, <1>4, <1>7 DEF PageType
<1>9. /\ p \in PageType /\ p.name = page.name /\ p.source = page.source /\ p.pkg = pkg
      /\ p.flight = page.flight /\ p.lookup = {}
  BY <1>1, <1>6, <1>7 DEF PageType
<1>10. Query(p) = Query(page) BY <1>9 DEF Query
<1>11. Found(p) BY <1>2, <1>4, <1>6, <1>9, <1>10 DEF Found
<1>12. PageIsRight(p) BY <1>1, <1>9, <1>10, <1>11 DEF PageIsRight
<1> QED BY <1>8, <1>9, <1>12, BecomesStep

LEMMA VersionsStep ==
  ASSUME IInv, page # NoPage, versions # NoVersions, NEW q \in versions.flight,
         VersionsArrive(q) \/ VersionsFail, net' = net
  PROVE  PageOK' /\ VersionsOK'
<1>1. VersionsAreRight(versions, page) /\ versions \in VersionsType
  BY PageKept DEF VersionsFit, VersionsAreRight
<1>2. q = Query(page) /\ q \in Queries BY <1>1 DEF VersionsAreRight, VersionsType
<1>3. page' = page BY DEF VersionsArrive, VersionsFail
<1>4. VersionsAreRight(versions', page)
  <2>1. PICK m : m = versions' OBVIOUS
  <2>2. CASE VersionsArrive(q)
    <3>1. m = [versions EXCEPT !.flight = {}, !.shown = "versions", !.of = {q}]
      BY <2>1, <2>2 DEF VersionsArrive
    <3>2. m \in VersionsType /\ m.flight = {} /\ m.of = {q} BY <1>1, <1>2, <3>1 DEF VersionsType
    <3> QED BY <1>2, <2>1, <3>2 DEF VersionsAreRight
  <2>3. CASE VersionsFail
    <3>1. m = [versions EXCEPT !.flight = {}, !.shown = "error"] BY <2>1, <2>3 DEF VersionsFail
    <3>2. m \in VersionsType /\ m.flight = {} /\ m.of = versions.of BY <1>1, <3>1 DEF VersionsType
    <3> QED BY <1>1, <2>1, <3>2 DEF VersionsAreRight
  <2> QED BY <2>2, <2>3
<1> QED BY <1>3, <1>4, PageKept DEF PageOK, VersionsOK

LEMMA TabStep ==
  ASSUME IInv, NEW tab \in {"readme", "versions"}, SelectTab(tab), net' = net
  PROVE  PageOK' /\ VersionsOK'
<1>1. versions # NoVersions /\ page # NoPage BY DEF SelectTab, IInv, VersionsOK
<1>2. PageIsRight(page) /\ page \in PageType BY <1>1, PageKept
<1>3. VersionsAreRight(versions, page) /\ versions \in VersionsType
  BY <1>1, PageKept DEF VersionsFit, VersionsAreRight
<1>4. PICK p : p = [page EXCEPT !.tab = tab] OBVIOUS
<1>5. page' = p BY <1>4 DEF SelectTab
<1>6. /\ p \in PageType /\ p.name = page.name /\ p.source = page.source /\ p.pkg = page.pkg
      /\ p.flight = page.flight /\ p.lookup = page.lookup /\ p.state = page.state
  BY <1>2, <1>4 DEF PageType
<1>7. Query(p) = Query(page) BY <1>6 DEF Query
<1>8. PageIsRight(p)
  <2>1. Found(page) => Found(p) BY <1>6, <1>7 DEF Found
  <2> QED BY <1>2, <1>6, <1>7, <2>1 DEF PageIsRight
<1>9. PICK v : v = [versions EXCEPT !.flight = {}] OBVIOUS
<1>10. VersionsAreRight(v, p)
  <2>1. v \in VersionsType /\ v.of = versions.of /\ v.flight = {}
    BY <1>3, <1>9 DEF VersionsType
  <2> QED BY <1>3, <1>7, <2>1 DEF VersionsAreRight
<1>11. versions' = FetchedVersions(v, p, p.tab = "versions") BY <1>5, <1>9 DEF SelectTab, TabChanged
<1>12. VersionsAreRight(versions', p)
  <2>1. (p.tab = "versions") \in BOOLEAN OBVIOUS
  <2> QED BY <1>6, <1>10, <1>11, <2>1, FetchedVersionsAreRight
<1>13. p # NoPage BY <1>6 DEF PageType, NoPage
<1> QED BY <1>1, <1>2, <1>5, <1>6, <1>8, <1>12, <1>13, PageKept DEF PageOK, VersionsOK
-----------------------------------------------------------------------------
(* Steps of the tab as a whole. *)

LEMMA NetworkSteps ==
  ASSUME IInv, NetworkStep, chain' = chain
  PROVE  TypeOK' /\ net' \in NetType
<1> USE DEF IInv, TypeOK, NetType
<1>1. CASE Connect BY <1>1 DEF Connect
<1>2. CASE ConnectTimesOut BY <1>2 DEF ConnectTimesOut
<1>3. ASSUME NEW n \in Network, ConnectionOpens(n) PROVE TypeOK' /\ net' \in NetType
  BY <1>3 DEF ConnectionOpens
<1>4. ASSUME NEW n \in Network, ConnectionFails(n) PROVE TypeOK' /\ net' \in NetType
  BY <1>4 DEF ConnectionFails
<1>5. ASSUME NEW n \in Network, SetNetwork(n) PROVE TypeOK' /\ net' \in NetType
  BY <1>5 DEF SetNetwork
<1> QED BY <1>1, <1>2, <1>3, <1>4, <1>5 DEF NetworkStep, ConnectionStep

\* The network changes, and everything mounted is rendered with it.
LEMMA RenderAllStep ==
  ASSUME IInv, NetworkStep, Rendered(list, page), chain' = chain
  PROVE  IInv'
<1>1. TypeOK' BY NetworkSteps
<1>2. PICK n \in NetType : n = net' BY NetworkSteps
<1>3. chain \in ChainType /\ net \in NetType BY DEF IInv, TypeOK
<1>4. ListOK'
  <2>1. CASE list = NoList BY <2>1 DEF Rendered, ListOK
  <2>2. CASE list # NoList
    <3>1. ListIsRight(list, chain[list.source]) BY <2>2 DEF IInv, ListOK
    <3>2. PICK m : m = ListRendered(list, n) OBVIOUS
    <3>3. ListIsRight(m, chain[n.network]) /\ m.source = n.network
      BY <1>3, <3>1, <3>2, RenderedIsRight
    <3>4. list' = m BY <1>2, <2>2, <3>2 DEF Rendered
    <3> QED BY <1>2, <3>3, <3>4 DEF ListOK
  <2> QED BY <2>1, <2>2
<1>5. PageOK' /\ VersionsOK'
  <2>1. CASE page = NoPage
    <3>1. page' = NoPage /\ versions' = NoVersions
      BY <2>1 DEF Rendered, VersionsRendered, BodyShown
    <3> QED BY <3>1 DEF PageOK, VersionsOK
  <2>2. CASE page # NoPage
    <3>1. PageIsRight(page) /\ page.name \in Package /\ VersionsFit(versions, page)
      BY <2>2, PageKept DEF PageType
    <3>2. PICK m : m = PageRendered(page, page.name, n) OBVIOUS
    <3>3. /\ PageIsRight(m) /\ m.name = page.name /\ m.source = n.network
          /\ page.source # n.network => m.state = "loading"
      BY <3>1, <3>2, PageRenderedIsRight
    <3>4. page' = m /\ versions' = VersionsRendered(versions, m, n)
      BY <1>2, <2>2, <3>2 DEF Rendered
    <3>5. versions' # NoVersions => m # NoPage /\ VersionsAreRight(versions', m)
      <4>1. CASE page.source # n.network
        <5>1. ~BodyShown(m, n) BY <3>3, <4>1 DEF BodyShown
        <5> QED BY <3>4, <5>1 DEF VersionsRendered
      <4>2. CASE page.source = n.network
        <5>1. Query(m) = Query(page) BY <3>3, <4>2 DEF Query
        <5>2. VersionsFit(versions, m) BY <3>1, <5>1 DEF VersionsFit, VersionsAreRight
        <5> QED BY <3>3, <3>4, <5>2, VersionsRenderedAreRight
      <4> QED BY <4>1, <4>2
    <3> QED BY <1>2, <3>3, <3>4, <3>5 DEF PageOK, VersionsOK
  <2> QED BY <2>1, <2>2
<1> QED BY <1>1, <1>4, <1>5 DEF IInv

\* A registry that grows keeps every list right.
LEMMA RegisterStep ==
  ASSUME IInv, Others
  PROVE  IInv'
<1>1. PICK n \in Network, p \in Package :
        /\ p \notin ToSet(chain[n])
        /\ chain' = [chain EXCEPT ![n] = Append(chain[n], p)]
  BY DEF Others, Register
<1>2. /\ net' = net /\ connections' = connections /\ list' = list /\ page' = page
      /\ versions' = versions
  BY DEF Others, networkVars
<1>3. chain \in ChainType /\ \A k \in Network : Distinct(chain[k]) BY DEF IInv, TypeOK
<1>4. PICK old \in Seq(Package) : old = chain[n] BY <1>3 DEF ChainType
<1>5. PICK new : new = Append(old, p) OBVIOUS
<1>6. /\ new \in Seq(Package) /\ Len(new) = Len(old) + 1
      /\ \A i \in 1..Len(old) : new[i] = old[i] /\ new[i] # p
      /\ new[Len(old) + 1] = p
  BY <1>1, <1>4, <1>5 DEF ToSet
<1>7. Distinct(new) BY <1>3, <1>4, <1>6 DEF Distinct
<1>8. /\ chain' \in ChainType /\ chain'[n] = new
      /\ \A k \in Network : k # n => chain'[k] = chain[k]
  BY <1>1, <1>3, <1>4, <1>5, <1>6 DEF ChainType
<1>9. TypeOK' BY <1>2, <1>3, <1>7, <1>8 DEF IInv, TypeOK
<1>10. ListOK'
  <2> SUFFICES ASSUME list # NoList
               PROVE  ListIsRight(list, chain'[list.source]) /\ list.source = net.network
    BY <1>2 DEF ListOK
  <2>1. ListIsRight(list, chain[list.source]) /\ list.source = net.network
    BY DEF IInv, ListOK
  <2>2. list.source \in Network BY <2>1 DEF ListIsRight, ListType
  <2>3. CASE list.source # n BY <1>8, <2>1, <2>2, <2>3
  <2>4. CASE list.source = n
    <3>1. ListIsRight(list, old) BY <1>4, <2>1, <2>4
    <3>2. list.total \in Nat /\ list.loaded \in Nat /\ list.loaded <= list.total
          /\ list.total <= Len(old)
      BY <3>1 DEF ListIsRight, ListType
    <3>3. \A i \in 1..list.loaded : list.total + 1 - i \in 1..Len(old) BY <3>2
    <3>4. \A i \in 1..list.loaded :
            Newest(new, list.total + 1 - i, list.source)
              = Newest(old, list.total + 1 - i, list.source)
      BY <1>6, <3>3 DEF Newest
    <3>5. list.total <= Len(new) BY <1>6, <3>2
    <3> QED BY <1>8, <2>1, <2>4, <3>1, <3>4, <3>5 DEF ListIsRight
  <2> QED BY <2>3, <2>4
<1> QED BY <1>2, <1>9, <1>10 DEF IInv, PageOK, VersionsOK

LEMMA VisitStep ==
  ASSUME IInv, ToList \/ \E p \in Package : ToPackage(p)
  PROVE  IInv'
<1>0. net' = net /\ connections' = connections /\ chain' = chain
  BY DEF ToList, ToPackage, networkVars
<1>1. TypeOK' BY <1>0 DEF IInv, TypeOK
<1>2. chain \in ChainType /\ net \in NetType BY DEF IInv, TypeOK
<1>3. CASE ToList
  <2>1. PICK m : m = ListMounted(net) OBVIOUS
  <2>2. ListIsRight(m, chain[net.network]) /\ m.source = net.network
    BY <1>2, <2>1, MountedIsRight
  <2>3. list' = m /\ page' = NoPage /\ versions' = NoVersions BY <1>3, <2>1 DEF ToList
  <2> QED BY <1>0, <1>1, <2>2, <2>3 DEF IInv, ListOK, PageOK, VersionsOK
<1>4. ASSUME NEW p \in Package, ToPackage(p) PROVE IInv'
  <2>1. list' = NoList /\ versions' = NoVersions BY <1>4 DEF ToPackage
  <2>2. PageOK'
    <3>1. CASE page = NoPage
      <4>1. page' = PageMounted(p, net) BY <1>4, <3>1 DEF ToPackage
      <4>2. PICK m : m = PageMounted(p, net) OBVIOUS
      <4>3. PageIsRight(m) /\ m.source = net.network BY <1>2, <4>2, PageMountedIsRight
      <4> QED BY <1>0, <4>1, <4>2, <4>3 DEF PageOK
    <3>2. CASE page # NoPage
      <4>1. page' = PageRendered(page, p, net) BY <1>4, <3>2 DEF ToPackage
      <4>2. PICK m : m = PageRendered(page, p, net) OBVIOUS
      <4>3. PageIsRight(m) /\ m.source = net.network
        BY <1>2, <3>2, <4>2, PageKept, PageRenderedIsRight
      <4> QED BY <1>0, <4>1, <4>2, <4>3 DEF PageOK
    <3> QED BY <3>1, <3>2
  <2> QED BY <1>1, <2>1, <2>2 DEF IInv, ListOK, VersionsOK
<1> QED BY <1>3, <1>4

LEMMA Initial == FrontendInit => IInv
<1> SUFFICES ASSUME FrontendInit PROVE IInv OBVIOUS
<1>1. TypeOK
  BY NetworkAssumption, ListAssumption
  DEF FrontendInit, NetworkInit, TypeOK, NetType, ChainType
<1>2. chain \in ChainType /\ net \in NetType BY <1>1 DEF TypeOK
<1>3. ListOK
  <2> SUFFICES ASSUME list # NoList
               PROVE  ListIsRight(list, chain[list.source]) /\ list.source = net.network
    BY DEF ListOK
  <2>1. list = ListMounted(net) BY DEF FrontendInit
  <2>2. PICK m : m = ListMounted(net) OBVIOUS
  <2>3. ListIsRight(m, chain[net.network]) /\ m.source = net.network
    BY <1>2, <2>2, MountedIsRight
  <2> QED BY <2>1, <2>2, <2>3
<1>4. PageOK
  <2> SUFFICES ASSUME page # NoPage PROVE PageIsRight(page) /\ page.source = net.network
    BY DEF PageOK
  <2>1. PICK p \in Package : page = PageMounted(p, net) BY DEF FrontendInit
  <2>2. PICK m : m = PageMounted(p, net) OBVIOUS
  <2>3. PageIsRight(m) /\ m.source = net.network BY <1>2, <2>2, PageMountedIsRight
  <2> QED BY <2>1, <2>2, <2>3
<1>5. VersionsOK BY DEF FrontendInit, VersionsOK
<1> QED BY <1>1, <1>3, <1>4, <1>5 DEF IInv

LEMMA Inductive == IInv /\ [FrontendNext]_frontendVars => IInv'
<1> SUFFICES ASSUME IInv, [FrontendNext]_frontendVars PROVE IInv' OBVIOUS
<1>2. CASE Waiting \/ OfNetwork(\E n \in Network : SetNetwork(n))
  <2>1. NetworkStep /\ Rendered(list, page) /\ chain' = chain
    BY <1>2 DEF Waiting, OfNetwork, NetworkStep
  <2> QED BY <2>1, RenderAllStep
<1>3. CASE OfList(ListAnswer) \/ OfList(LoadMore) \/ OfList(Search)
  <2>1. /\ ListAnswer \/ LoadMore \/ Search
        /\ net' = net /\ connections' = connections /\ chain' = chain
        /\ page' = page /\ versions' = versions
    BY <1>3 DEF OfList, networkVars
  <2>2. ListOK' BY <2>1, ListStep
  <2> QED BY <2>1, <2>2 DEF IInv, TypeOK, PageOK, VersionsOK
<1>4. CASE \/ OfPage(PageAnswer)
           \/ OfPage(\E tab \in {"readme", "versions"} : SelectTab(tab))
  <2>1. /\ net' = net /\ connections' = connections /\ chain' = chain /\ list' = list
        /\ PageAnswer \/ \E tab \in {"readme", "versions"} : SelectTab(tab)
    BY <1>4 DEF OfPage, networkVars
  <2>2. PageOK' /\ VersionsOK'
    BY <2>1, PackageStep, MetadataStep, VersionsStep, TabStep DEF PageAnswer
  <2> QED BY <2>1, <2>2 DEF IInv, TypeOK, ListOK
<1>5. CASE ToList \/ \E p \in Package : ToPackage(p) BY <1>5, VisitStep
<1>6. CASE Others BY <1>6, RegisterStep
<1>7. CASE UNCHANGED frontendVars
  BY <1>7 DEF frontendVars, IInv, TypeOK, ListOK, PageOK, VersionsOK
<1> QED BY <1>2, <1>3, <1>4, <1>5, <1>6, <1>7 DEF FrontendNext, Answer, User

-----------------------------------------------------------------------------
(* The theorems. *)

\* Every state the frontend reaches keeps the promises of its hooks.
THEOREM Invariant == FrontendSpec => []IInv
BY Initial, Inductive, PTL DEF FrontendSpec

\* The list of packages is a stretch of the selected registry, newest first
\* and without gaps or repetitions (useInfiniteLoad over getContracts).
THEOREM ListAlwaysRecent == FrontendSpec => []ListIsRecent
<1>1. IInv => ListIsRecent
  <2> SUFFICES ASSUME IInv, list.mounted
               PROVE  /\ list.loaded <= list.total
                      /\ list.items = [i \in 1..list.loaded |->
                           Newest(chain[net.network], list.total + 1 - i, net.network)]
    BY DEF ListIsRecent, Newest
  <2>1. Right(list) /\ list \in ListType BY ListKept
  <2>2. PICK items, loaded, total, names :
          /\ items = list.items /\ loaded = list.loaded /\ total = list.total
          /\ names = chain[net.network]
    OBVIOUS
  <2>3. /\ loaded <= total /\ Len(items) = loaded /\ items \in Items
        /\ \A i \in 1..loaded : items[i] = Newest(names, total + 1 - i, net.network)
    BY <2>1, <2>2 DEF Right, ListIsRight, ListType
  <2>4. items = [i \in 1..loaded |-> Newest(names, total + 1 - i, net.network)]
    BY <2>3 DEF Items
  <2> QED BY <2>2, <2>3, <2>4
<1> QED BY <1>1, Invariant, PTL

\* A package page never shows what was asked for another name or network
\* (usePackage, usePackageVersions and the cancellation of their effects).
THEOREM PageAlwaysItsPackage == FrontendSpec => []PageShowsItsPackage
<1>1. IInv => PageShowsItsPackage
  <2> SUFFICES ASSUME IInv, page # NoPage
               PROVE  /\ page.source = net.network
                      /\ page.state = "found" => /\ page.pkg.query = Query(page)
                                                 /\ page.pkg.metadata \in
                                                      {Pending, Failed, Cid(page.source, page.name)}
                      /\ versions # NoVersions => versions.of \subseteq {Query(page)}
    BY DEF PageShowsItsPackage
  <2> QED BY PageKept DEF PageIsRight, Found, VersionsFit, VersionsAreRight
<1> QED BY <1>1, Invariant, PTL
=============================================================================
