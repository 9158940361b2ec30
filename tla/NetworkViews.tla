---------------------------- MODULE NetworkViews -----------------------------
(***************************************************************************)
(* What the network overview shows of the resources it has listed: the      *)
(* diagram of HybridTopology.tsx (sites, gateways, networks with a chip     *)
(* for each placement, and the connector of a chip to its site) and the     *)
(* matrix of NetworkOverview.tsx (a row for each network, a column for      *)
(* each cloud project).  Resources are those of EntityGraph, with the       *)
(* health and the VNI of their status ("" and 0 for none) and, for a        *)
(* gateway, whether its transport is up.                                    *)
(***************************************************************************)
EXTENDS EntityGraph

BackendKinds == {"CloudVirt", "CloudOSO", "CloudAWS"}

Networks(items, scope) ==
  {n \in OfKind(items, {"HybridNetwork"}) : scope # Everything => n.ns = scope}

Placements(items) == OfKind(items, {"NetworkPlacement"})

\* The cloud project a placement names, or those a network's status still lists as
\* its placements', as <<kind, name>>.
BackendsOf(r) == {q \in r.refs : q[1] \in BackendKinds}

\* The first listed of several.
FirstOf(rs) == CHOOSE r \in rs : TRUE

-----------------------------------------------------------------------------
(* The diagram *)

\* A gateway's site is the one its spec names, else the one its status does.
GatewaySites(g) == IF Refs(g, "cloudRef") # {} THEN Refs(g, "cloudRef") ELSE Refs(g, "observedSite")

\* A TransportLink says what its gateway is tunnelled by when the gateway's own
\* spec does not.
Tunnelled(items, g) ==
  \/ Refs(g, "transport") \ {"none"} # {}
  \/ /\ Refs(g, "transport") = {}
     /\ \E l \in OfKind(items, {"TransportLink"}) :
          g.name \in Refs(l, "cloudGatewayRef") /\ Refs(l, "tunnelType") \ {"none"} # {}

State(r) == IF r.health \in {"ready", "failed"} THEN r.health ELSE "pending"

\* A tunnelled gateway is up once its tunnel is up too.
GatewayState(items, g) ==
  IF State(g) = "ready" /\ Tunnelled(items, g) /\ ~g.up THEN "pending" ELSE State(g)

SiteNames(items) ==
  {r.name : r \in OfKind(items, {"CloudInfrastructure"})}
  \cup UNION {GatewaySites(g) : g \in OfKind(items, {"CloudGateway"})}

GatewaysAt(items, site) == {g \in OfKind(items, {"CloudGateway"}) : site \in GatewaySites(g)}

\* The cloud projects of one kind and name, and those whose site is known: in
\* every namespace, or in one.
Named(items, b) == {r \in OfKind(items, {b[1]}) : r.name = b[2]}
Sited(items, b) == {r \in Named(items, b) : Refs(r, "cloudRef") # {}}
SitedIn(items, ns, b) == {r \in Sited(items, b) : r.ns = ns}

\* Mutant: the cloud project is looked up by kind and name alone.
SiteOfName(items, p) ==
  UNION {IF Sited(items, b) = {} THEN {}
         ELSE Refs(FirstOf(Sited(items, b)), "cloudRef") : b \in BackendsOf(p)}

\* The site of a placement's cloud project: of the one in its own namespace,
\* else of the first one listed with that kind and name; none when there is none.
SiteOf(items, p) ==
  UNION {LET own == SitedIn(items, p.ns, b)
             any == Sited(items, b)
         IN IF own # {} THEN Refs(FirstOf(own), "cloudRef")
            ELSE IF any # {} THEN Refs(FirstOf(any), "cloudRef")
            ELSE {} : b \in BackendsOf(p)}

\* The placements drawn under a network: those of its namespace that name it.
Chips(items, n) == {p \in Placements(items) : p.ns = n.ns /\ n.name \in Refs(p, "network")}

\* A network without a placement is called out, whatever its own status.
NetworkState(items, n) == IF Chips(items, n) = {} THEN "absent" ELSE State(n)

DuplicateVnis(items, scope) ==
  {v \in {n.vni : n \in Networks(items, scope)} \ {0} :
     Cardinality({n \in Networks(items, scope) : n.vni = v}) > 1}

\* The networks drawn in an entity's group.
Group(items, scope, entity) == {n \in Networks(items, scope) : EntityOf(n) = entity}

\* The connectors: from every chip to its site, when that site is drawn.
Connectors(items, scope) ==
  UNION {{<<Node(p), s>> : s \in SiteOf(items, p) \cap SiteNames(items)} :
           p \in UNION {Chips(items, n) : n \in Networks(items, scope)}}

\* The rows of the diagram's own table: a network with each of its placements and
\* its cloud project, or on its own ("none").
TopologyRows(items, scope) ==
  UNION {IF Chips(items, n) = {} THEN {<<n, "none", << >>>>}
         ELSE UNION {{<<n, p.name, b>> : b \in BackendsOf(p)} : p \in Chips(items, n)} :
           n \in Networks(items, scope)}

-----------------------------------------------------------------------------
(* The matrix *)

\* A spoke is ready when its gateway and its transport are.
SpokeState(g) == IF State(g) = "ready" /\ ~g.up THEN "pending" ELSE State(g)

\* Every cloud project some listed placement names, in any namespace, or some
\* network's status.
Columns(items, scope) == UNION {BackendsOf(r) : r \in Placements(items) \cup Networks(items, scope)}

\* The site in a column's head is that of the first cloud project of its kind and
\* name, whose namespace the column does not have.
ColumnSite(items, b) ==
  IF Named(items, b) = {} THEN {} ELSE Refs(FirstOf(Named(items, b)), "cloudRef")

\* The placements behind a cell; the last one listed gives its state.
Behind(items, n, b) ==
  {p \in Placements(items) : p.ns = n.ns /\ n.name \in Refs(p, "network") /\ b \in BackendsOf(p)}

\* The cloud projects of a kind that a network's status says it is ready on.
ReadyRef == [CloudVirt |-> "readyVirt", CloudOSO |-> "readyOSO", CloudAWS |-> "readyAWS"]

\* A cell without a placement falls back on what the network's status says.
Cell(items, n, b) ==
  IF Behind(items, n, b) # {} THEN State(FirstOf(Behind(items, n, b)))
  ELSE IF b \notin BackendsOf(n) THEN "absent"
  ELSE IF b[2] \in Refs(n, ReadyRef[b[1]]) THEN "ready" ELSE "pending"

\* The rows of the table view: the cells that are not absent.
TableRows(items, scope) ==
  {x \in Networks(items, scope) \X Columns(items, scope) : Cell(items, x[1], x[2]) # "absent"}
==============================================================================
