----------------------------- MODULE EntityGraph -----------------------------
(***************************************************************************)
(* The graph EntityTopology.tsx builds from the resources the overview      *)
(* lists: its nodes, the edges their references make, and the layers they   *)
(* are drawn in.  A namespace is <<"sovereign-cloud">> or                   *)
(* <<"entity", e>> for the entity e; a resource is a record of its kind,    *)
(* namespace, name, the entity its status names ("" for none) and its       *)
(* references, pairs of a field of the spec and a name.  The scope is the   *)
(* namespace of a tenant's page, and << >> for the platform's page.         *)
(***************************************************************************)
EXTENDS Integers, FiniteSets, SequencesExt

Platform == <<"sovereign-cloud">>
Everything == << >>
TenantNamespaces == {"entity"} \X STRING

Node(r) == <<r.kind, r.ns, r.name>>

OfKind(items, kinds) == {r \in items : r.kind \in kinds}

\* The names a field of the resource's spec holds.
Refs(r, field) == {p[2] : p \in {q \in r.refs : q[1] = field}}

IsTenant(ns) == Len(ns) = 2

\* The entity that owns a resource: its status.entity, else its namespace.
EntityOf(r) == IF r.entity # "" THEN r.entity ELSE IF IsTenant(r.ns) THEN r.ns[2] ELSE ""

PlatformScopedKinds == {"HybridFabric", "CloudInfrastructure"}
CloudKinds == {"CloudOSO", "CloudAWS", "CloudVirt"}

\* PlatformOpenshift's type, and the kind of cloud project its environment names.
PlatformEnvKind == [hosted |-> "CloudVirt", openstack |-> "CloudOSO", aws |-> "CloudAWS"]

\* The fields of an Assignment that name something drawn above it.
AssignmentRefKind ==
  [team |-> "Team", projects |-> "Project", openshift |-> "PlatformOpenshift",
   aws |-> "CloudAWS", cloudoso |-> "CloudOSO"]

TenantKinds == {"Team", "Project", "Assignment", "PlatformOpenshift"} \cup CloudKinds

-----------------------------------------------------------------------------
(* Nodes *)

\* A tenant's page draws its own entity without listing it.
EntityNodes(items, scope) ==
  IF scope # Everything THEN {<<"Entity", scope, scope[2]>>}
  ELSE {Node(r) : r \in OfKind(items, {"Entity"})}

\* Sites are the CloudInfrastructures listed, and those only a reference names.
SiteNodes(items, scope) ==
  LET listed == OfKind(items, {"CloudInfrastructure"})
      pointing == OfKind(items, CloudKinds \cup (IF scope = Everything THEN {"CloudGateway"} ELSE {}))
      named == UNION {Refs(r, "cloudRef") : r \in pointing}
  IN {Node(r) : r \in listed}
     \cup {<<"CloudInfrastructure", Platform, x>> : x \in named \ {r.name : r \in listed}}

FabricNodes(items, scope) ==
  IF scope = Everything THEN {Node(r) : r \in OfKind(items, {"HybridFabric"})} ELSE {}

AllNodes(items, scope) ==
  EntityNodes(items, scope) \cup SiteNodes(items, scope) \cup FabricNodes(items, scope)
  \cup {Node(r) : r \in OfKind(items, TenantKinds)}

-----------------------------------------------------------------------------
(* Edges *)

\* Mutant: a reference is resolved by its bare name.
ResolveByName(nodes, kind, ns, name) == {n \in nodes : n[1] = kind /\ n[3] = name}

\* The node a reference names: in the referring namespace, or for the two
\* platform kinds in the shared one; none when it is not among the nodes.
Resolve(nodes, kind, ns, name) ==
  LET local == <<kind, ns, name>>
      shared == <<kind, Platform, name>>
  IN IF local \in nodes THEN {local}
     ELSE IF kind \in PlatformScopedKinds /\ shared \in nodes THEN {shared}
     ELSE {}

\* Team, Project, cluster or cloud project -> Assignment.
AssignmentEdges(items, nodes) ==
  LET Named(a, f) == UNION {Resolve(nodes, AssignmentRefKind[f], a.ns, x) : x \in Refs(a, f)}
      Above(a) == UNION {Named(a, f) : f \in DOMAIN AssignmentRefKind}
  IN UNION {Above(a) \X {Node(a)} : a \in OfKind(items, {"Assignment"})}

\* HybridFabric -> CloudInfrastructure through each CloudGateway.
FabricEdges(items, scope, nodes) ==
  IF scope # Everything THEN {}
  ELSE UNION {UNION {Resolve(nodes, "HybridFabric", g.ns, p[1])
                       \X Resolve(nodes, "CloudInfrastructure", g.ns, p[2]) :
                       p \in Refs(g, "fabricRef") \X Refs(g, "cloudRef")} :
                g \in OfKind(items, {"CloudGateway"})}

\* CloudInfrastructure -> cloud project.
CloudEdges(items, nodes) ==
  UNION {UNION {Resolve(nodes, "CloudInfrastructure", c.ns, x) \X {Node(c)} : x \in Refs(c, "cloudRef")} :
           c \in OfKind(items, CloudKinds)}

\* Cloud project -> cluster, by the environment its type names.
ClusterEdges(items, nodes) ==
  LET Named(p, f) == UNION {Resolve(nodes, PlatformEnvKind[f], p.ns, x) : x \in Refs(p, f)}
      Above(p) == UNION {Named(p, f) : f \in DOMAIN PlatformEnvKind}
  IN UNION {Above(p) \X {Node(p)} : p \in OfKind(items, {"PlatformOpenshift"})}

\* The entity node that owns a resource, if it is drawn.
Owner(items, scope, r) ==
  {e \in EntityNodes(items, scope) : /\ EntityOf(r) # ""
                                     /\ e[3] = EntityOf(r)
                                     /\ scope # Everything => r.ns = scope}

\* Mutant: whatever names a cloud project or a cluster is taken as claimed by it,
\* though the reference resolves to nothing.
OwnerEdgesUnlessNamed(items, scope, upstream) ==
  LET owned == {r \in OfKind(items, {"PlatformOpenshift", "Assignment"}) : r.refs = {}}
               \cup OfKind(items, CloudKinds \cup {"Team"})
  IN UNION {Owner(items, scope, r) \X {Node(r)} : r \in owned}

\* Entity -> what it owns: its cloud projects and teams always, a cluster
\* without a cloud project, an Assignment nothing upstream claimed.
OwnerEdges(items, scope, upstream) ==
  LET claimed == {e[2] : e \in upstream}
      owned == {r \in OfKind(items, {"PlatformOpenshift", "Assignment"}) : Node(r) \notin claimed}
               \cup OfKind(items, CloudKinds \cup {"Team"})
  IN UNION {Owner(items, scope, r) \X {Node(r)} : r \in owned}

EdgePairs(items, scope) ==
  LET nodes == AllNodes(items, scope)
      upstream == AssignmentEdges(items, nodes) \cup FabricEdges(items, scope, nodes)
                  \cup CloudEdges(items, nodes) \cup ClusterEdges(items, nodes)
  IN upstream \cup OwnerEdges(items, scope, upstream)

-----------------------------------------------------------------------------
(* Pruning, ordering and layers *)

\* Entities are always drawn, fabrics and sites on the platform's page; the rest
\* when some edge touches it.
Keep(nodes, edges, scope) ==
  {n \in nodes : \/ n[1] = "Entity"
                 \/ scope = Everything /\ n[1] \in PlatformScopedKinds
                 \/ \E e \in edges : n \in {e[1], e[2]}}

LayerKinds(scope) ==
  IF scope # Everything
  THEN << {"Entity"}, {"Team"}, {"Project"}, {"CloudInfrastructure"}, CloudKinds,
          {"PlatformOpenshift"}, {"Assignment"} >>
  ELSE << {"HybridFabric"}, {"CloudInfrastructure"}, {"Entity"}, CloudKinds,
          {"PlatformOpenshift"}, {"Assignment"} >>

\* Some order of a set.
Numbering(S) == CHOOSE f \in [S -> 1 .. Cardinality(S)] : IsInjective(f)

\* A set as a sequence, by the distinct numbers of its elements.
Ranked(S, number) ==
  [i \in 1 .. Cardinality(S) |->
     CHOOSE x \in S : Cardinality({y \in S : number[y] < number[x]}) = i - 1]

\* The place of a node's entity in the order of the entities; a node of no drawn
\* entity comes after all of them.
OwnerRank(n, entities) ==
  LET owners == {e \in entities : n = e \/ n[2] = <<"entity", e[3]>>}
  IN IF owners = {} THEN Cardinality(entities) + 1
     ELSE Numbering(entities)[CHOOSE e \in owners : TRUE]

\* A layer in the order that seeds the drawing: the nodes of each entity together,
\* and within an entity in a fixed order (by kind and name).
Sorted(nodes, entities) ==
  LET byName == Numbering(nodes)
  IN Ranked(nodes, [n \in nodes |->
                      OwnerRank(n, entities) * (Cardinality(nodes) + 1) + byName[n]])

\* The nodes of each layer's kinds in their order: the layers that have a node, top down.
Layered(nodes, kinds, entities) ==
  LET all == [i \in DOMAIN kinds |-> {n \in nodes : n[1] \in kinds[i]}]
      used == {i \in DOMAIN kinds : all[i] # {}}
      shown == Ranked(used, [i \in used |-> i])
  IN [k \in DOMAIN shown |-> Sorted(all[shown[k]], entities)]

Layers(items, scope) ==
  Layered(Keep(AllNodes(items, scope), EdgePairs(items, scope), scope), LayerKinds(scope),
          EntityNodes(items, scope))

Drawn(layers) == UNION {Range(layers[i]) : i \in DOMAIN layers}

\* The edges between two nodes that have a layer.
LiveEdges(items, scope, layers) ==
  {e \in EdgePairs(items, scope) : {e[1], e[2]} \subseteq Drawn(layers)}
==============================================================================
