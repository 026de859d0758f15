---------------------------- MODULE PackageList ----------------------------
(***************************************************************************)
(* The list of packages of the home and search pages: the hook             *)
(* useInfiniteLoad over the paging queries of a registry, newest first,    *)
(* with useRegistry's metadata lookups and useRegistrySearch's eager       *)
(* loading on top of it.  A registry goes on growing while it is listed.   *)
(*                                                                         *)
(* list holds the state and the refs of the hooks.  ListRendered is what   *)
(* their effects make of it after a render; the queries under way are its  *)
(* flight and lookups, and answers arrive in any order.                    *)
(*                                                                         *)
(* A definition named D_Fault is a faulty variant of D that no             *)
(* specification uses: put in the place of D, it shows which property      *)
(* would notice the fault.                                                 *)
(***************************************************************************)
EXTENDS NetworkContext, SequencesExt

CONSTANTS
  Package,      \* package names
  InitialChain, \* network -> the packages registered at first
  PageSize,
  Pending, Failed  \* metadata not yet, or never, found

\* A registry lists a name once.
Distinct(names) == \A i, j \in DOMAIN names : names[i] = names[j] => i = j

ASSUME ListAssumption ==
  /\ PageSize \in Nat \ {0} /\ InitialChain \in [Network -> Seq(Package)]
  /\ \A n \in Network : Distinct(InitialChain[n])

VARIABLES
  chain,  \* network -> its packages in the order of their registration
  list    \* the hooks of the mounted page, NoList if none is mounted

\* Metadata is immutable under its CID, and differs from network to network.
Cid(network, package) == <<network, package>>
NoList  == [mounted |-> FALSE]

FreshList(network) ==
  [mounted |-> TRUE, source |-> network, enabled |-> FALSE, needle |-> FALSE,
   generation |-> 0, items |-> <<>>, loading |-> FALSE, error |-> FALSE,
   total |-> 0, loaded |-> 0, busy |-> FALSE, flight |-> {},
   attempted |-> {}, lookups |-> {},
   metadata |-> [key \in Network \X Package |-> Pending]]

HasMore(l) == l.loaded < l.total

-----------------------------------------------------------------------------
(* useInfiniteLoad. *)

\* The reset effect, when fetchCount and fetchPage are those of another
\* network.  loading is left as it is.
Reset_StaysBusy(l, network) ==
  [l EXCEPT !.source = network, !.generation = @ + 1, !.items = <<>>, !.error = FALSE,
            !.total = 0, !.loaded = 0]
Reset(l, network) ==
  [l EXCEPT !.source = network, !.generation = @ + 1, !.items = <<>>, !.error = FALSE,
            !.total = 0, !.loaded = 0, !.busy = FALSE]

\* The finally of loadBatch.
Finished(l) == [l EXCEPT !.busy = FALSE, !.loading = FALSE]

\* loadBatch from where the count is known.
FetchPage(l) ==
  LET remaining == l.total - l.loaded
      size      == IF remaining < PageSize THEN remaining ELSE PageSize
  IN  IF size <= 0 THEN Finished(l)
      ELSE [l EXCEPT !.flight = @ \cup {[kind |-> "page", generation |-> l.generation,
              network |-> l.source, start |-> remaining - size, size |-> size]}]

LoadBatch(l) ==
  LET begun == [l EXCEPT !.busy = TRUE, !.loading = TRUE, !.error = FALSE]
  IN  IF ~l.enabled \/ l.busy THEN l
      ELSE IF l.total # 0 THEN FetchPage(begun)
      ELSE [begun EXCEPT !.flight = @ \cup {[kind |-> "count", generation |-> l.generation,
                                             network |-> l.source]}]

Loaded(l, n) == IF Connected(n) /\ l.loaded = 0 THEN LoadBatch(l) ELSE l

-----------------------------------------------------------------------------
(* useRegistry and useRegistrySearch. *)

\* The metadata effect looks up what was not attempted under its key.
Enriched_OncePerName(l, shown, network) ==
  LET toFetch == {p \in ToSet(shown) : \A n \in Network : <<n, p.name>> \notin l.attempted}
  IN  [l EXCEPT !.attempted = @ \cup {<<network, p.name>> : p \in toFetch},
                !.lookups = @ \cup {[key |-> <<network, p.name>>, cid |-> p.cid] : p \in toFetch}]
Enriched(l, shown, network) ==
  LET toFetch == {p \in ToSet(shown) : <<network, p.name>> \notin l.attempted}
  IN  [l EXCEPT !.attempted = @ \cup {<<network, p.name>> : p \in toFetch},
                !.lookups = @ \cup {[key |-> <<network, p.name>>, cid |-> p.cid] : p \in toFetch}]

\* While a query is active, pages are loaded one after another.
Drained(l, shown, n) ==
  IF shown.needle /\ HasMore(shown) /\ ~shown.loading /\ n.status = "connected" /\ ~shown.error
    THEN LoadBatch(l) ELSE l

\* The effects after a render that shows l.  Each sees what was rendered: the
\* metadata effect, the items from before the reset.
ListRendered(l, n) ==
  LET changed == l.source # n.network
      current == [(IF changed THEN Reset(l, n.network) ELSE l) EXCEPT !.enabled = Connected(n)]
      loaded  == IF changed \/ l.enabled # Connected(n) THEN Loaded(current, n) ELSE current
  IN  Drained(Enriched(loaded, l.items, n.network), l, n)

\* Mounting runs all effects.
ListMounted(n) ==
  Loaded([Reset(FreshList(n.network), n.network) EXCEPT !.enabled = Connected(n)], n)

-----------------------------------------------------------------------------
(* What the user does, and answers to queries. *)

\* ContractGrid shows its packages, or else a message or a skeleton; below the
\* packages, the sentinel of InfiniteScroll comes into view.
GridShown == list.mounted /\ Connected(net) /\ ~list.error /\ list.items # <<>>
LoadMore ==
  /\ GridShown /\ HasMore(list) /\ ~list.loading
  /\ list' = ListRendered(LoadBatch(list), net)

Search ==
  /\ list.mounted /\ ~list.needle
  /\ list' = ListRendered([list EXCEPT !.needle = TRUE], net)

Current_Always(f) == TRUE
Current(f) == f.generation = list.generation

Answered(f) == [list EXCEPT !.flight = @ \ {f}]

CountArrives(f) ==
  /\ f.kind = "count"
  /\ list' = IF ~Current(f) THEN Answered(f)
             ELSE ListRendered(FetchPage([Answered(f) EXCEPT
                                           !.total = Len(chain[f.network])]), net)

\* Array.filter: what of a page is not listed already, in its order.
Unlisted(page, items) ==
  LET kept     == {i \in DOMAIN page : \A p \in ToSet(items) : p.name # page[i].name}
      Place(i) == Cardinality({j \in kept : j <= i})
  IN  [k \in 1..Cardinality(kept) |-> page[CHOOSE i \in kept : Place(i) = k]]

\* The page of getContracts, newest first.
PageOf(f) ==
  LET names == Reverse(SubSeq(chain[f.network], f.start + 1, f.start + f.size))
  IN  [i \in DOMAIN names |-> [name |-> names[i], cid |-> Cid(f.network, names[i])]]

PageArrives(f) ==
  /\ f.kind = "page"
  /\ \E fresh \in {Unlisted(PageOf(f), list.items)} :
       list' = IF ~Current(f) THEN Answered(f)
               ELSE ListRendered(Finished([Answered(f) EXCEPT
                      !.loaded = @ + f.size, !.items = @ \o fresh]), net)

FetchFails(f) ==
  list' = IF ~Current(f) THEN Answered(f)
          ELSE ListRendered(Finished([Answered(f) EXCEPT !.error = TRUE]), net)

LookupEnds(lookup) ==
  \E value \in {lookup.cid, Failed} :
    list' = [list EXCEPT !.lookups = @ \ {lookup}, !.metadata[lookup.key] = value]

Register(network, package) ==
  /\ package \notin ToSet(chain[network])
  /\ chain' = [chain EXCEPT ![network] = Append(@, package)]

ListAnswer ==
  /\ list.mounted
  /\ \/ \E f \in list.flight : CountArrives(f) \/ PageArrives(f) \/ FetchFails(f)
     \/ \E lookup \in list.lookups : LookupEnds(lookup)

-----------------------------------------------------------------------------
(* Properties. *)

\* However answers, network switches, growing registries and failures fall
\* together, the list is a stretch of the selected network's registry, newest
\* first, without gaps, repetitions or packages of another network.
ListIsRecent ==
  list.mounted =>
    /\ list.loaded <= list.total
    /\ list.items = [i \in 1..list.loaded |->
         LET name == chain[net.network][list.total + 1 - i]
         IN  [name |-> name, cid |-> Cid(net.network, name)]]

\* A search shows its skeleton or goes on loading only for so long: it ends
\* with the whole registry searched or with an error.
Searching ==
  /\ list.mounted /\ list.needle /\ ~list.error /\ net.status # "failed"
  /\ list.loading \/ HasMore(list) \/ net.status = "connecting"
SearchEnds == Searching ~> ~Searching

\* The card of a package stops waiting for metadata.
Spinning(p) ==
  list.mounted /\ \E i \in DOMAIN list.items :
    list.items[i].name = p /\ list.metadata[<<net.network, p>>] = Pending
SpinnersStop == \A p \in Package : Spinning(p) ~> ~Spinning(p)

\* Claimed by the documentation, not kept by the code: a listed package is
\* shown with the metadata its registry entry refers to.
MetadataIsOfThePackage ==
  list.mounted =>
    \A p \in ToSet(list.items) :
      list.metadata[<<net.network, p.name>>] \in {Pending, Failed, p.cid}
=============================================================================
