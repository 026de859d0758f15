------------------------------ MODULE Frontend ------------------------------
(***************************************************************************)
(* The frontend as a whole: one browser tab whose router mounts either a   *)
(* page with the package list or the page of a package, below the network  *)
(* provider, and the registries it reads, where packages are registered.   *)
(***************************************************************************)
EXTENDS PackagePage

CONSTANT MaxVisits  \* bounds how often the user goes to another page
VARIABLE visits

frontendVars == <<net, connections, switches, chain, list, page, versions, visits>>

Rendered(l, p) ==
  /\ list' = IF l = NoList THEN NoList ELSE ListRendered(l, net')
  /\ page' = IF p = NoPage THEN NoPage ELSE PageRendered(p, p.name, net')
  /\ versions' = VersionsRendered(versions, page', net')

\* What is under way for a page that is unmounted ends without effect.
ToPackage(name) ==
  /\ visits < MaxVisits /\ visits' = visits + 1
  /\ list' = NoList
  /\ IF page = NoPage
       THEN page' = PageMounted(name, net) /\ versions' = NoVersions
       ELSE \* a link among the dependencies: the same component, another name
            /\ name # page.name /\ BodyShown(page, net)
            /\ page' = PageRendered(page, name, net) /\ versions' = NoVersions
  /\ UNCHANGED <<networkVars, chain>>

ToList ==
  /\ page # NoPage /\ visits < MaxVisits /\ visits' = visits + 1
  /\ list' = ListMounted(net) /\ page' = NoPage /\ versions' = NoVersions
  /\ UNCHANGED <<networkVars, chain>>

FrontendInit ==
  /\ NetworkInit /\ chain = InitialChain
  /\ \/ list = ListMounted(net) /\ page = NoPage
     \/ list = NoList /\ \E p \in Package : page = PageMounted(p, net)
  /\ versions = NoVersions /\ visits = 0

OfNetwork(step) == step /\ Rendered(list, page) /\ UNCHANGED <<chain, visits>>
OfList(step) == step /\ UNCHANGED <<networkVars, chain, page, versions, visits>>
OfPage(step) == step /\ UNCHANGED <<networkVars, chain, list, visits>>

Waiting == OfNetwork(ConnectionStep)
Answer  == OfList(ListAnswer) \/ OfPage(PageAnswer)
User ==
  \/ OfNetwork(\E n \in Network : SetNetwork(n))
  \/ OfList(LoadMore) \/ OfList(Search)
  \/ OfPage(\E tab \in {"readme", "versions"} : SelectTab(tab))
  \/ ToList \/ \E p \in Package : ToPackage(p)
Others ==
  /\ \E n \in Network, p \in Package : Register(n, p)
  /\ UNCHANGED <<networkVars, list, page, versions, visits>>

FrontendNext == Waiting \/ Answer \/ User \/ Others

\* Every query is answered or times out, and so is every connection attempt.
FrontendSpec ==
  /\ FrontendInit /\ [][FrontendNext]_frontendVars
  /\ WF_frontendVars(Waiting) /\ WF_frontendVars(Answer)
=============================================================================
