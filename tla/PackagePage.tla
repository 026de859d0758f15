---------------------------- MODULE PackagePage ----------------------------
(***************************************************************************)
(* The page of one package: usePackage, which looks the package up on      *)
(* chain and then its metadata, and the Versions tab of the page's body    *)
(* with usePackageVersions.                                                *)
(*                                                                         *)
(* An effect that starts a query cancels it when it runs again or its      *)
(* component is unmounted; fetchedRef keeps it from starting the same      *)
(* query twice.  page holds the page's and usePackage's state, versions    *)
(* that of usePackageVersions, which only exists while the body is shown.  *)
(*                                                                         *)
(* A definition named D_Fault is a faulty variant of D that no             *)
(* specification uses: put in the place of D, it shows which property      *)
(* would notice the fault.                                                 *)
(***************************************************************************)
EXTENDS PackageList

VARIABLES
  page,     \* NoPage if another page is shown
  versions  \* NoVersions while the body is not mounted

NoPage     == [name |-> "none"]
NoVersions == [shown |-> "none"]
NoPackage  == [metadata |-> Pending]

Query(p) == [name |-> p.name, network |-> p.source]

\* The reset effect and the lookup effect of usePackage.
Cleared_StaysFetched(p) == [p EXCEPT !.pkg = NoPackage, !.state = "loading", !.lookup = {}]
Cleared(p) ==
  [p EXCEPT !.pkg = NoPackage, !.state = "loading", !.fetched = FALSE, !.lookup = {}]
Cancelled_Not(p) == p
Cancelled(p) == [p EXCEPT !.flight = {}]
Fetched(p) ==
  IF p.enabled /\ ~p.fetched
    THEN [p EXCEPT !.fetched = TRUE, !.flight = @ \cup {Query(p)}] ELSE p
PageRendered(p, name, n) ==
  LET changed == p.name # name \/ p.source # n.network
      current == [(IF changed THEN Cleared(p) ELSE p)
                    EXCEPT !.name = name, !.source = n.network, !.enabled = Connected(n)]
  IN  IF changed \/ p.enabled # Connected(n) THEN Fetched(Cancelled(current)) ELSE p

PageMounted(name, n) ==
  Fetched([name |-> name, source |-> n.network, enabled |-> Connected(n), tab |-> "readme",
           pkg |-> NoPackage, state |-> "loading", fetched |-> FALSE, flight |-> {},
           lookup |-> {}])

\* PackageBody is mounted while there is a package to show.
BodyShown(p, n) == p # NoPage /\ p.state = "found" /\ Connected(n)

\* usePackageVersions: its effect runs when the tab is opened or closed.
FetchedVersions(v, p, isOpen) ==
  IF isOpen /\ ~v.fetched
    THEN [v EXCEPT !.fetched = TRUE, !.shown = "loading", !.flight = {Query(p)}] ELSE v
VersionsMounted(p) ==
  FetchedVersions([fetched |-> FALSE, shown |-> "nothing", of |-> {}, flight |-> {}], p, p.tab = "versions")
\* A query under way is cancelled when the tab is closed, and nothing clears
\* fetchedRef or loading then.
TabChanged(v, p) ==
  FetchedVersions([v EXCEPT !.flight = {}], p, p.tab = "versions")
VersionsRendered(v, p, n) ==
  IF ~BodyShown(p, n) THEN NoVersions ELSE IF v = NoVersions THEN VersionsMounted(p) ELSE v

PageBecomes(p) ==
  /\ page' = p
  /\ versions' = VersionsRendered(versions, p, net)

-----------------------------------------------------------------------------
(* Answers. *)

\* queryContractByName: not found without a version, else found, with a lookup
\* of the metadata if its URI is a CID.
PackageArrives(q) ==
  LET answered == [page EXCEPT !.flight = @ \ {q}]
  IN  IF q.name \in ToSet(chain[q.network])
        THEN PageBecomes([answered EXCEPT
               !.state = "found", !.pkg = [query |-> q, metadata |-> Pending],
               !.lookup = {Cid(q.network, q.name)}])
        ELSE PageBecomes([answered EXCEPT !.state = "notFound"])

PackageFails(q) == PageBecomes([page EXCEPT !.flight = @ \ {q}, !.state = "error"])

MetadataEnds(cid) ==
  \E value \in {cid, Failed} :
    PageBecomes([page EXCEPT !.lookup = {}, !.pkg.metadata = value])

VersionsArrive(q) ==
  /\ versions' = [versions EXCEPT !.flight = {}, !.shown = "versions", !.of = {q}]
  /\ UNCHANGED page
VersionsFail ==
  /\ versions' = [versions EXCEPT !.flight = {}, !.shown = "error"]
  /\ UNCHANGED page

PageAnswer ==
  /\ page # NoPage
  /\ \/ \E q \in page.flight : PackageArrives(q) \/ PackageFails(q)
     \/ \E cid \in page.lookup : MetadataEnds(cid)
     \/ versions # NoVersions /\ \E q \in versions.flight : VersionsArrive(q) \/ VersionsFail

\* A click on a tab.
SelectTab(tab) ==
  /\ versions # NoVersions /\ tab # page.tab
  /\ page' = [page EXCEPT !.tab = tab]
  /\ versions' = TabChanged(versions, page')

-----------------------------------------------------------------------------
(* Properties. *)

\* Whatever was asked before on other pages, of other packages or networks,
\* the page only shows the package, the metadata and the versions of the name
\* and network that are selected now.
PageShowsItsPackage ==
  page # NoPage =>
    /\ page.source = net.network
    /\ page.state = "found" => /\ page.pkg.query = Query(page)
                               /\ page.pkg.metadata \in {Pending, Failed,
                                                         Cid(page.source, page.name)}
    /\ versions # NoVersions => versions.of \subseteq {Query(page)}

\* The page's skeleton gives way to the package, to "not found" or to an error,
\* and the metadata's placeholders to what was found.  Pages whose connection has
\* failed are not meant: usePackage keeps loading there, and the skeleton stays.
PageLoading == page # NoPage /\ net.status # "failed" /\
  (page.state = "loading" \/ net.status = "connecting" \/
   (page.state = "found" /\ page.pkg.metadata = Pending))
PageSettles == PageLoading ~> ~PageLoading
=============================================================================
