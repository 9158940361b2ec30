------------------------------ MODULE Overview -------------------------------
(***************************************************************************)
(* The overview pages of the two dashboards and consoles: how their lists   *)
(* arrive while the cluster changes, and what the entity topology and the   *)
(* network views draw of them.  A page is of one of four modes:             *)
(*   dashboard  the admin dashboard: one request, answered by its server    *)
(*              with every kind it could list                               *)
(*   raw        the admin console: the Entities first, then a list for      *)
(*              every kind and namespace, shown together                    *)
(*   tenant     a tenant's topology: a list for each kind, each on its own  *)
(*   network    a tenant's network overview: the same, for its kinds        *)
(***************************************************************************)
EXTENDS NetworkViews

CONSTANTS
  Catalogue,        \* the resources there may be
  Given,            \* those there are at first
  Volatile,         \* those that come and go while a page loads
  Scope,            \* the namespace of the tenant's pages
  RetryAttempts,    \* RETRY_ATTEMPTS
  MaxChanges,       \* bound on the changes of the cluster
  MaxLost,          \* bound on the lists of one load that fail for good
  MaxRefreshes      \* bound on the presses of Refresh

Drawing == INSTANCE LayeredDrawing

ASSUME OverviewAssumption ==
  /\ Given \subseteq Catalogue /\ Volatile \subseteq Catalogue
  /\ Scope \in TenantNamespaces
  /\ RetryAttempts \in Nat \ {0}
  /\ MaxChanges \in Nat /\ MaxLost \in Nat /\ MaxRefreshes \in Nat

\* What the API server guarantees of the resources: one of each kind, namespace and
\* name.  What the CRDs require: a placement names one backend, and a gateway, by its
\* spec or, from before that was required, by its status, a site.  What the playbooks
\* report: status.entity is that of the namespace a tenant's resource is in.
ASSUME CatalogueAssumption ==
  /\ IsFiniteSet(Catalogue)
  /\ \A r \in Catalogue :
       /\ r.ns \in {Platform} \cup TenantNamespaces
       /\ r.refs \subseteq STRING \X STRING /\ IsFiniteSet(r.refs)
       /\ r.kind \in TenantKinds /\ r.entity # "" => r.ns = <<"entity", r.entity>>
       /\ r.kind = "NetworkPlacement" => Cardinality(BackendsOf(r)) = 1
       /\ r.kind = "CloudGateway" => GatewaySites(r) # {}
  /\ \A r, s \in Catalogue : Node(r) = Node(s) => r = s

VARIABLES
  mode,        \* the page's mode; it never changes
  cluster,     \* the resources there are
  changes,     \* how often the cluster has changed
  seen,        \* the versions of the cluster since the load began
  load,        \* what the page has loaded, and what it waits for
  refreshes    \* how often Refresh was pressed

overviewVars == <<mode, cluster, changes, seen, load, refreshes>>

Modes == {"dashboard", "raw", "tenant", "network"}

-----------------------------------------------------------------------------
(* The lists *)

\* What the admin server lists, each kind over all namespaces.
HsKinds == {"Entity", "CloudInfrastructure", "HybridFabric", "CloudGateway", "TransportLink",
            "HybridNetwork", "NetworkPlacement"} \cup TenantKinds

PlatformKinds == {"CloudInfrastructure", "HybridFabric", "CloudGateway", "TransportLink"}
EntityKinds == TenantKinds \cup {"HybridNetwork", "NetworkPlacement"}

\* The lists of a tenant's two pages; those of the platform's namespace are
\* context the tenant may not be allowed to read.
TopologyLists == TenantKinds \cup {"CloudInfrastructure"}
NetworkLists == PlatformKinds \cup CloudKinds \cup {"HybridNetwork", "NetworkPlacement"}

Lists(m) == CASE m = "tenant" -> TopologyLists
              [] m = "network" -> NetworkLists
              [] OTHER -> {"aggregate"}

\* The namespace of an entity: what its status says, else what its name makes.
NamespaceOf(e) == <<"entity", IF e.entity # "" THEN e.entity ELSE e.name>>

In(c, kind, ns) == {r \in c : r.kind = kind /\ r.ns = ns}

\* A tenant's list of a kind, read from one version of the cluster.
Listed(c, kind) == In(c, kind, IF kind \in PlatformKinds THEN Platform ELSE Scope)

\* The lists behind an aggregate: a kind over all namespaces (<< >>), or in one.
Behinds(entities) ==
  IF mode = "dashboard" THEN HsKinds \X {Everything}
  ELSE PlatformKinds \X {Platform} \cup EntityKinds \X {NamespaceOf(e) : e \in entities}

Answer(c, l) == {r \in c : r.kind = l[1] /\ l[2] \in {Everything, r.ns}}

\* The lists that may answer differently: a resource of theirs came or went since
\* the load began.
Moving(lists) ==
  LET lasting == {r \in cluster : \A c \in seen : r \in c}
  IN {l \in lists : Answer(UNION seen \ lasting, l) # {}}

\* What lists hold together when each of them answers from the version at gives it,
\* and the others from any.
Joined(lists, at) ==
  UNION {Answer(IF l \in DOMAIN at THEN at[l] ELSE cluster, l) : l \in lists}

-----------------------------------------------------------------------------
(* The page *)

Waiting == load.waiting # {}

\* The page says it loads; a tenant's topology does not wait for the sites.
Loading == load.waiting \ (IF mode = "tenant" THEN {"CloudInfrastructure"} ELSE {}) # {}

FirstPhase(m) == IF m = "raw" THEN "entities" ELSE "lists"

OverviewInit ==
  /\ mode \in Modes
  /\ cluster = Given
  /\ changes = 0
  /\ seen = {cluster}
  /\ load = [phase |-> FirstPhase(mode), tries |-> 0, entities |-> {}, waiting |-> Lists(mode),
             got |-> [l \in Lists(mode) |-> {}], failed |-> {}]
  /\ refreshes = 0

\* Someone creates or deletes a resource of a kind the page lists.
Change(r) ==
  /\ changes < MaxChanges
  /\ mode = "network" => r.kind \in NetworkLists
  /\ changes' = changes + 1
  /\ cluster' = IF r \in cluster THEN cluster \ {r} ELSE cluster \cup {r}
  /\ seen' = IF Waiting THEN seen \cup {cluster'} ELSE {cluster'}
  /\ UNCHANGED <<mode, load, refreshes>>

\* The load is over for a list: what it holds, and whether it failed.
Settled(l, items, failing) ==
  [load EXCEPT !.waiting = @ \ {l},
               !.got[l] = items,
               !.failed = IF failing THEN @ \cup {l} ELSE @ \ {l},
               !.tries = 0, !.entities = {}]

Step == /\ Waiting
        /\ UNCHANGED <<mode, cluster, changes, refreshes, seen>>

\* A list of a tenant's page answers.
Arrive(l) ==
  /\ Step
  /\ mode \in {"tenant", "network"}
  /\ l \in load.waiting
  /\ \E c \in seen : load' = Settled(l, Listed(c, l), FALSE)

\* A list of a tenant's page fails: what it showed before stays.
Fail(l) ==
  /\ Step
  /\ mode \in {"tenant", "network"}
  /\ l \in load.waiting
  /\ Cardinality(load.failed \cup {l}) <= MaxLost
  /\ load' = Settled(l, load.got[l], TRUE)

\* The Entities of the raw aggregate answer.
GetEntities ==
  /\ Step
  /\ load.phase = "entities"
  /\ \E c \in seen : load' = [load EXCEPT !.phase = "lists", !.tries = 0,
                                          !.entities = In(c, "Entity", Platform)]

\* The aggregate is complete: each of its lists answered from some version since
\* the load began, and those that failed for good count as empty.
GetAggregate ==
  /\ Step
  /\ mode \in {"dashboard", "raw"}
  /\ load.phase = "lists"
  /\ LET lists == Behinds(load.entities)
     IN \E at \in [Moving(lists) -> seen], lost \in UNION {[1 .. k -> lists] : k \in 0 .. MaxLost} :
          load' = Settled("aggregate",
                          load.entities \cup Joined(lists \ Range(lost), at), FALSE)

\* Mutant: the request is made again for as long as it fails.
RetryForEver ==
  /\ Step
  /\ \/ mode = "dashboard"
     \/ load.phase = "entities"
  /\ load' = [load EXCEPT !.tries = (@ + 1) % RetryAttempts]

\* An attempt at the request that must succeed fails: it is made again, a few
\* times, and then the page keeps what it showed and reports the error.
Retry ==
  /\ Step
  /\ \/ mode = "dashboard"
     \/ load.phase = "entities"
  /\ load' = IF load.tries + 1 < RetryAttempts THEN [load EXCEPT !.tries = @ + 1]
             ELSE Settled("aggregate", load.got["aggregate"], TRUE)

\* Refresh is pressed: every list is asked for again, and the answers still on
\* their way are dropped.  A network overview disables the button while it loads,
\* and nothing reloads a tenant's topology: the button of its page refreshes the
\* counts above it.
PressRefresh ==
  /\ refreshes < MaxRefreshes
  /\ mode # "tenant"
  /\ mode = "network" => ~Loading
  /\ refreshes' = refreshes + 1
  /\ seen' = {cluster}
  /\ load' = [load EXCEPT !.phase = FirstPhase(mode), !.tries = 0, !.entities = {},
                          !.waiting = Lists(mode)]
  /\ UNCHANGED <<mode, cluster, changes>>

Answers == \/ \E l \in Lists(mode) : Arrive(l) \/ Fail(l)
           \/ GetEntities
           \/ GetAggregate
           \/ Retry

OverviewNext ==
  \/ Answers
  \/ \E r \in Volatile : Change(r)
  \/ PressRefresh

\* A request is answered or fails in the end: the servers and the browser bound it.
OverviewSpec == OverviewInit /\ [][OverviewNext]_overviewVars /\ WF_overviewVars(Answers)

-----------------------------------------------------------------------------
(* What the page shows *)

\* The resources the topology is drawn of: a site list that failed counts as
\* empty on a tenant's page.
TopologyItems ==
  UNION {load.got[l] : l \in Lists(mode) \ (load.failed \cap {"CloudInfrastructure"})}

TopologyScope == IF mode = "tenant" THEN Scope ELSE Everything

\* What the network views are drawn of.
NetworkItems == UNION {load.got[l] : l \in Lists(mode)}

NetworkScope == IF mode = "network" THEN Scope ELSE Everything

\* Mutant: any list that fails is an error of the page.
NetworkErrorOfAny == load.failed # {}

\* A tenant's page reports the failures of its own networks and placements; the
\* platform's lists are best effort.
NetworkError ==
  IF mode = "network" THEN load.failed \cap {"HybridNetwork", "NetworkPlacement"} # {}
  ELSE load.failed # {}

NetworkScreen ==
  LET fabrics == OfKind(NetworkItems, {"HybridFabric"})
      networks == Networks(NetworkItems, NetworkScope)
  IN CASE Loading /\ fabrics = {} /\ networks = {} -> "spinner"
       [] NetworkError /\ fabrics = {} /\ ~(Loading /\ networks = {}) -> "alert"
       [] fabrics = {} /\ networks = {} /\ ~Loading /\ ~NetworkError -> "nothing"
       [] OTHER -> "views"

-----------------------------------------------------------------------------
(* Properties *)

\* The page is well-formed: what it shows was listed in the catalogue, and it
\* waits for nothing it did not ask for.
OverviewTypeOK ==
  /\ mode \in Modes /\ cluster \subseteq Catalogue
  /\ load.phase \in {"entities", "lists"} /\ load.tries \in 0 .. RetryAttempts - 1
  /\ load.waiting \subseteq Lists(mode) /\ load.failed \subseteq Lists(mode)
  /\ load.entities \subseteq Catalogue
  /\ load.got \in [Lists(mode) -> SUBSET Catalogue]

\* However the lists of a load are torn by changes and failures, the topology
\* draws each resource once, only edges between drawn nodes and downward, and no
\* edge from one tenant's resource to another's (names are not unique across
\* tenants): nodeKey, resolve and ownerNode of EntityTopology.tsx.
GraphIsFaithful ==
  mode \in {"dashboard", "raw", "tenant"} =>
    LET layers == Layers(TopologyItems, TopologyScope)
        edges == LiveEdges(TopologyItems, TopologyScope, layers)
    IN /\ \A i, k \in DOMAIN layers : \A j \in DOMAIN layers[i], l \in DOMAIN layers[k] :
            layers[i][j] = layers[k][l] => i = k /\ j = l
       /\ \A e \in edges :
            /\ Drawing!LayerOf(layers, e[1]) < Drawing!LayerOf(layers, e[2])
            /\ e[1][1] \in TenantKinds => e[1][2] = e[2][2]
            /\ e[1][1] = "Entity" => e[2][2] = <<"entity", e[1][3]>>

\* On a tenant's page every team, cloud project, cluster and Assignment of the
\* tenant that was listed hangs below something drawn, whichever of the other
\* lists are still missing; on the platform's page every cloud project and cluster
\* of a listed entity does (EntityTopology.tsx, the edges of ownership).
NothingIsLost ==
  mode \in {"dashboard", "raw", "tenant"} =>
    LET layers == Layers(TopologyItems, TopologyScope)
        edges == LiveEdges(TopologyItems, TopologyScope, layers)
        hanging == IF mode = "tenant" THEN TenantKinds \ {"Project"}
                   ELSE CloudKinds \cup {"PlatformOpenshift"}
    IN \A r \in OfKind(TopologyItems, hanging) :
         Owner(TopologyItems, TopologyScope, r) # {} => \E e \in edges : e[2] = Node(r)

\* Routing and crossing reduction change the order of a layer and nothing else:
\* every edge becomes a chain of hops between adjacent layers, no node is lost or
\* doubled, the drawing never crosses more than the order it started from, and no
\* two nodes of a row overlap
\* (insertVirtualNodes and reduceCrossings of EntityTopology.tsx).
DrawingKeepsGraph ==
  mode \in {"dashboard", "raw", "tenant"} =>
    LET layers == Layers(TopologyItems, TopologyScope)
        edges == LiveEdges(TopologyItems, TopologyScope, layers)
        lanes == Drawing!WithLanes(layers, edges)
        hops == Drawing!Segments(layers, edges)
        drawn == Drawing!ReduceCrossings(lanes, hops)
        left == Drawing!LeftEdges(drawn)
    IN /\ \A h \in hops : Drawing!LayerOf(lanes, h[2]) = Drawing!LayerOf(lanes, h[1]) + 1
       /\ DOMAIN drawn = DOMAIN lanes
       /\ \A i \in DOMAIN lanes : /\ Range(drawn[i]) = Range(lanes[i])
                                  /\ Len(drawn[i]) = Cardinality(Range(lanes[i]))
       /\ Drawing!TotalCrossings(drawn, hops) <= Drawing!TotalCrossings(lanes, hops)
       /\ \A i \in DOMAIN drawn : \A k \in 1 .. Len(drawn[i]) - 1 :
            left[drawn[i][k]] + 2 * Drawing!WidthOf(drawn[i][k]) < left[drawn[i][k + 1]]
       /\ \A n \in Drawn(layers), end \in {1, 2} :
            Range(Drawing!PortsAt(n, end, edges, left)) = {e \in edges : e[end] = n}

\* Two cloud projects of one kind and name are on different sites: the head of
\* their column, which has no namespace, shows the site of the first.
Ambiguous(items, b) ==
  \E r, s \in Named(items, b) : Refs(r, "cloudRef") # Refs(s, "cloudRef")

\* An untunnelled gateway whose transport is not reported up: ready in the diagram,
\* pending in the matrix.
DrawnReady(items, g) == State(g) = "ready" /\ ~g.up /\ ~Tunnelled(items, g)

\* The diagram and the matrix of the network overview, two translations of the
\* same lists, agree: a placement's chip has its cell and a cell its chip; the
\* diagram's connector leads to the site of the placement's own cloud project
\* wherever that is listed, though another tenant has one of the same name, and to
\* the site in the head of the matrix's column unless the name is ambiguous; the
\* tables list the same, but for what only the status of a network still says; a
\* network is in one group, and flagged when it shares its number; and a gateway is
\* at a site and, but for the untunnelled ones above, in the same state in both
\* (buildTopologyModel of HybridTopology.tsx, the model of NetworkOverview.tsx).
ViewsAgree ==
  mode \in {"dashboard", "raw", "network"} =>
    LET items == NetworkItems
        networks == Networks(items, NetworkScope)
        rows == TopologyRows(items, NetworkScope)
    IN /\ \A n \in networks : \A p \in Chips(items, n) : \A b \in BackendsOf(p) :
            /\ Cell(items, n, b) # "absent" /\ b \in Columns(items, NetworkScope)
            /\ \A own \in SitedIn(items, n.ns, b) : SiteOf(items, p) = Refs(own, "cloudRef")
            /\ ~Ambiguous(items, b) => ColumnSite(items, b) = SiteOf(items, p)
       /\ TableRows(items, NetworkScope) =
            {<<row[1], row[3]>> : row \in {x \in rows : x[3] # << >>}}
            \cup UNION {{<<n, b>> : b \in BackendsOf(n)} : n \in networks}
       /\ \A n \in networks :
            /\ NetworkState(items, n) = "absent" <=> <<n, "none", << >>>> \in rows
            /\ Cardinality({e \in {EntityOf(m) : m \in networks} : n \in Group(items, NetworkScope, e)}) = 1
            /\ \A m \in networks \ {n} :
                 n.vni = m.vni /\ n.vni # 0 => n.vni \in DuplicateVnis(items, NetworkScope)
       /\ \A c \in Connectors(items, NetworkScope) : c[2] \in SiteNames(items)
       /\ \A g \in OfKind(items, {"CloudGateway"}) :
            /\ ~DrawnReady(items, g) => GatewayState(items, g) = SpokeState(g)
            /\ \E site \in SiteNames(items) : g \in GatewaysAt(items, site)

\* "A 403 on sovereign-cloud must not blank the page for a tenant": once a
\* tenant's own networks and placements are listed its networks are shown,
\* whatever became of the other lists (networkOverviewCrs.ts, NetworkOverview.tsx).
PlatformListsAreOptional ==
  /\ mode = "network"
  /\ {"HybridNetwork", "NetworkPlacement"} \cap (load.waiting \cup load.failed) = {}
  /\ load.got["HybridNetwork"] # {}
  => NetworkScreen = "views"

\* A page that loads stops loading, whatever fails (withRetry, Promise.all and the
\* finally of useOverviewCRs; the lists of a tenant's page one by one).
OverviewSettles == Loading ~> ~Loading
==============================================================================
