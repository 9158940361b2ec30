----------------------------- MODULE MCOverview ------------------------------
(***************************************************************************)
(* Two tenants that use the same names, two sites of which one is only      *)
(* named by a gateway and a cloud project, and one network each; the status  *)
(* of the first network still lists a placement that is gone.               *)
(***************************************************************************)
EXTENDS Overview

R(kind, ns, name, refs) ==
  [kind |-> kind, ns |-> ns, name |-> name, entity |-> "", refs |-> refs,
   vni |-> 0, health |-> "ready", up |-> FALSE]

Acme == <<"entity", "acme">>
Chad == <<"entity", "chad">>

Team == R("Team", Acme, "dev", {})
AcmeCloud == R("CloudVirt", Acme, "virt", {<<"cloudRef", "north">>})
ChadCloud == R("CloudVirt", Chad, "virt", {<<"cloudRef", "south">>})

MCCatalogue ==
  {R("Entity", Platform, "acme", {}), R("Entity", Platform, "chad", {}),
   R("CloudInfrastructure", Platform, "north", {}),
   R("HybridFabric", Platform, "fabric", {}),
   [R("CloudGateway", Platform, "gn",
      {<<"fabricRef", "fabric">>, <<"cloudRef", "north">>, <<"transport", "wireguard">>}) EXCEPT !.up = TRUE],
   R("CloudGateway", Platform, "gs", {<<"fabricRef", "fabric">>, <<"observedSite", "south">>}),
   R("CloudGateway", Platform, "gl", {<<"fabricRef", "fabric">>, <<"cloudRef", "north">>}),
   R("TransportLink", Platform, "link", {<<"cloudGatewayRef", "gl">>, <<"tunnelType", "ipsec">>}),
   Team, R("Project", Acme, "app", {}),
   AcmeCloud, ChadCloud,
   [R("CloudAWS", Acme, "aws", {<<"cloudRef", "north">>}) EXCEPT !.entity = "acme"],
   R("PlatformOpenshift", Acme, "ocp", {<<"hosted", "virt">>}),
   R("PlatformOpenshift", Chad, "ocp", {<<"aws", "gone">>}),
   R("Assignment", Acme, "a", {<<"team", "dev">>, <<"projects", "app">>, <<"openshift", "ocp">>, <<"aws", "aws">>}),
   R("Assignment", Chad, "a", {<<"openshift", "ocp">>}),
   [R("HybridNetwork", Acme, "net",
      {<<"CloudVirt", "virt">>, <<"CloudAWS", "aws">>, <<"readyAWS", "aws">>}) EXCEPT !.vni = 1],
   [R("HybridNetwork", Chad, "net", {}) EXCEPT !.vni = 1, !.health = "failed"],
   R("NetworkPlacement", Acme, "p", {<<"network", "net">>, <<"CloudVirt", "virt">>}),
   R("NetworkPlacement", Chad, "p", {<<"network", "net">>, <<"CloudVirt", "virt">>})}

\* The team is created, the cloud project deleted, while a page loads.
MCGiven == MCCatalogue \ {Team}
MCVolatile == {Team, AcmeCloud}
==============================================================================
