---------------------------- MODULE PlatformSpecs ----------------------------
(***************************************************************************)
(* The create forms of the network and platform kinds, for which the       *)
(* dashboards' servers have no handlers: what the form offers              *)
(* (ui/packages/shared/src/components/CreateResourceForm.tsx), which       *)
(* inputs its button lets through, the spec it builds, and the rules by    *)
(* which the API server checks that spec (the CustomResourceDefinitions    *)
(* under gitops/custom-operators/crds).                                    *)
(*                                                                         *)
(* A form keeps what was typed for a choice that was taken back: the       *)
(* inputs of all choices exist together, and the spec takes those of the   *)
(* choice made.  Values are those of ServerSpecs; t is what has been typed *)
(* and switched, main and other are the references chosen from the form's  *)
(* lists.  Of several inputs under rules alike one stands for all.         *)
(***************************************************************************)
PlatformFields == [
    HybridNetwork |-> {"fabricRef", "overlayMtu", "description"},
    NetworkPlacement |-> {"network", "backend", "backendKind", "prefixes", "vmNamespaces"},
    HybridFabric |-> {"domainAsn", "vniPool", "underlay", "underlayType", "hubVtepBlock",
                      "gatewayAddress", "bounded"},
    CloudInfrastructure |-> {"type", "displayName", "credentialsRef", "openstack",
                             "openshift", "aws"},
    CloudGateway |-> {"cloudRef", "transport", "wireguard", "siteUnderlay"},
    TransportLink |-> {"cloudGatewayRef", "tunnelType"},
    UIHealthChecker |-> {"url", "displayName", "group"}]

PlatformKinds == DOMAIN PlatformFields

Text == {"none", "v1"}
Address == {"none", "bad", "v1"}
SiteTypes == {"openstack", "openshift", "aws"}

-----------------------------------------------------------------------------
(* What the forms offer. *)

\* several: more than one fabric is tagged with the entity.  An MTU within the
\* bounds that is a fraction, and a description that is too long, are "odd".
HybridNetworkInputs ==
    [several : BOOLEAN, overlayMtu : {"none", "bad", "odd", "v1"},
     description : {"none", "odd", "v1"}]

\* Prefixes that are only separators are "blank", those that are not CIDRs or
\* too many "bad"; a namespace given "twice".
NetworkPlacementInputs ==
    [backendKind : {"CloudOSO", "CloudVirt"}, prefixes : {"none", "blank", "bad", "v1"},
     vmNamespaces : {"none", "bad", "twice", "v1"}]

\* domainAsn and vniPool: v1 fits two bytes, v2 does not; an ASN that is not a
\* number is "bad", one out of bounds "odd"; a pool is "bad" if it is out of
\* bounds or ends before it starts.  An address is "bad" if it is not one, or
\* for localnet not in the underlay.  underlay: its CIDR and the gateway's
\* loopback.  bounded: the MTUs, the tunnel's address and port, the number of
\* entities, "bad" if one is out of its bounds.
HybridFabricInputs ==
    [domainAsn : {"none", "bad", "odd", "v1", "v2"}, vniPool : {"bad", "v1", "v2"},
     entityRefs : Text, underlay : Address, underlayType : {"localnet", "ovn-layer2"},
     hubVtepBlock : Address, gatewayAddress : Address, bounded : {"bad", "v1"}]

\* displayName stands for the texts with a greatest length, "odd" if longer.
\* pools: the two pools of addresses and the lengths of their blocks.
CloudInfrastructureInputs ==
    [type : SiteTypes, mode : {"vault", "secret"}, vaultPath : Text, secret : Text,
     account : {"none", "bad", "v1"}, region : Text, displayName : {"odd", "v1"},
     nodeSets : {"twice", "v1"}, pools : {"bad", "v1"}]

\* siteType is the type of the site last picked: picking one forgets the old.
CloudGatewayInputs ==
    [transport : {"none", "plain", "wireguard"}, address : Address,
     siteType : {"openstack", "openshift"}, siteUnderlay : Address]

\* Another fabric clears the gateway; transport is the chosen gateway's.
TransportLinkInputs == [transport : {"none", "plain", "wireguard", "v1"}]

UIHealthCheckerInputs == [url : {"none", "bad", "v1"}, group : Text]

PlatformInputs(kind) ==
    CASE kind = "HybridNetwork" -> HybridNetworkInputs
      [] kind = "NetworkPlacement" -> NetworkPlacementInputs
      [] kind = "HybridFabric" -> HybridFabricInputs
      [] kind = "CloudInfrastructure" -> CloudInfrastructureInputs
      [] kind = "CloudGateway" -> CloudGatewayInputs
      [] kind = "TransportLink" -> TransportLinkInputs
      [] kind = "UIHealthChecker" -> UIHealthCheckerInputs

-----------------------------------------------------------------------------
(* What the button lets through. *)

vmNamespacesValid(t) == t.vmNamespaces # "bad"
overlayMtuValid(t) == t.overlayMtu # "bad"
cinfraCredsSet(t) == (IF t.mode = "vault" THEN t.vaultPath ELSE t.secret) # "none"
cloudInfrastructureNeedsCredentials(type) == type \in {"openstack", "aws"}

\* A fabric has to be named once the list shows that there are several.
HybridNetworkComplete(t, main, listed) ==
    overlayMtuValid(t) /\ (listed /\ t.several => main # "none")

NetworkPlacementComplete(t, main, other) ==
    /\ main # "none" /\ other # "none" /\ t.prefixes # "none"
    /\ t.backendKind = "CloudVirt" => vmNamespacesValid(t)

HybridFabricComplete(t) ==
    \A x \in {"domainAsn", "entityRefs", "underlay"} : t[x] # "none"

CloudInfrastructureComplete(t) ==
    /\ cloudInfrastructureNeedsCredentials(t.type) => cinfraCredsSet(t)
    /\ t.type = "aws" => t.account = "v1" /\ t.region # "none"

PlatformComplete(kind, t, main, other, listed) ==
    CASE kind = "HybridNetwork" -> HybridNetworkComplete(t, main, listed)
      [] kind = "NetworkPlacement" -> NetworkPlacementComplete(t, main, other)
      [] kind = "HybridFabric" -> HybridFabricComplete(t)
      [] kind = "CloudInfrastructure" -> CloudInfrastructureComplete(t)
      [] kind \in {"CloudGateway", "TransportLink"} -> main # "none"
      [] kind = "UIHealthChecker" -> t.url = "v1"

-----------------------------------------------------------------------------
(* The spec the form builds. *)

HybridNetworkSpec(t, main) ==
    [fabricRef |-> main, overlayMtu |-> t.overlayMtu, description |-> t.description]

NetworkPlacementSpec(t, main, other) ==
    [network |-> main, backend |-> other, backendKind |-> t.backendKind,
     prefixes |-> t.prefixes,
     vmNamespaces |-> IF t.backendKind = "CloudVirt" THEN t.vmNamespaces ELSE "none"]

\* An ASN that is not a number is silently the default one.
HybridFabricSpec(t) ==
    LET localnet == t.underlayType = "localnet"
    IN  [domainAsn |-> IF t.domainAsn \in {"none", "bad"} THEN "v1" ELSE t.domainAsn,
         vniPool |-> t.vniPool,
         underlay |-> t.underlay,
         underlayType |-> t.underlayType,
         hubVtepBlock |-> IF localnet THEN t.hubVtepBlock ELSE "none",
         gatewayAddress |-> IF localnet THEN "none" ELSE t.gatewayAddress,
         bounded |-> t.bounded]

CloudInfrastructureSpec(t) ==
    LET Section(type, section) == IF t.type = type THEN section ELSE "none"
        credentials == IF t.mode = "vault" THEN t.vaultPath ELSE t.secret
    IN  [type |-> t.type,
         displayName |-> t.displayName,
         credentialsRef |->
             IF cloudInfrastructureNeedsCredentials(t.type) THEN credentials ELSE "none",
         openstack |-> Section("openstack", t.nodeSets),
         openshift |-> Section("openshift", t.pools),
         aws |-> Section("aws", IF t.region = "none" THEN "bad" ELSE t.account)]

CloudGatewaySpec(t, main) ==
    [cloudRef |-> main,
     transport |-> t.transport,
     wireguard |-> IF t.transport = "wireguard" THEN t.address ELSE "none",
     siteUnderlay |-> IF t.siteType = "openshift" THEN "none" ELSE t.siteUnderlay]

\* Only the two transports that are offered go into the link.
TransportLinkSpec(t, main) ==
    [cloudGatewayRef |-> main,
     tunnelType |-> IF t.transport \in {"plain", "wireguard"} THEN t.transport ELSE "none"]

\* The resource's name stands in for a description.
UIHealthCheckerSpec(t) == [url |-> t.url, displayName |-> "v1", group |-> t.group]

PlatformSpec(kind, t, main, other) ==
    CASE kind = "HybridNetwork" -> HybridNetworkSpec(t, main)
      [] kind = "NetworkPlacement" -> NetworkPlacementSpec(t, main, other)
      [] kind = "HybridFabric" -> HybridFabricSpec(t)
      [] kind = "CloudInfrastructure" -> CloudInfrastructureSpec(t)
      [] kind = "CloudGateway" -> CloudGatewaySpec(t, main)
      [] kind = "TransportLink" -> TransportLinkSpec(t, main)
      [] kind = "UIHealthChecker" -> UIHealthCheckerSpec(t)

-----------------------------------------------------------------------------
(* The rules of the API server. *)

\* Every value is of its type, within its bounds, and an address is one.
InBounds(f) == \A x \in DOMAIN f : f[x] \notin {"bad", "odd"}

\* vmNamespaces is a set, and only for the hub's backends.
NetworkPlacementSchema(f) ==
    \/ f.vmNamespaces = "none"
    \/ f.backendKind = "CloudVirt" /\ f.vmNamespaces = "v1"

\* A number of a fabric and its ASN share the eight bytes of a route target.
vniPoolSchema(f) == f.domainAsn = "v2" => f.vniPool # "v2"

HybridFabricSchema(f) ==
    /\ vniPoolSchema(f)
    /\ f.hubVtepBlock # "none" => f.underlayType = "localnet"

CloudInfrastructureSchema(f) ==
    /\ \A type \in SiteTypes : (f[type] # "none") <=> (f.type = type)
    /\ f.openstack # "twice"

TransportLinkSchema(f) == f.tunnelType \in {"none", "plain", "wireguard"}

PlatformSchema(kind, f) ==
    /\ InBounds(f)
    /\ kind = "NetworkPlacement" => NetworkPlacementSchema(f)
    /\ kind = "HybridFabric" => HybridFabricSchema(f)
    /\ kind = "CloudInfrastructure" => CloudInfrastructureSchema(f)
    /\ kind = "TransportLink" => TransportLinkSchema(f)

\* What these rules ask for and the button does not: lengths, bounds, the form
\* of addresses, and that nothing is given twice, of what the spec takes.
UncheckedByButton(kind, t) ==
    CASE kind = "HybridNetwork" -> "odd" \in {t.overlayMtu, t.description}
      [] kind = "NetworkPlacement" ->
            t.prefixes = "bad" \/ (t.backendKind = "CloudVirt" /\ t.vmNamespaces = "twice")
      [] kind = "HybridFabric" ->
            \/ t.domainAsn = "odd" \/ <<t.domainAsn, t.vniPool>> = <<"v2", "v2">>
            \/ "bad" \in {t.vniPool, t.underlay, t.bounded}
            \/ t.underlayType = "localnet" /\ t.hubVtepBlock = "bad"
            \/ t.underlayType = "ovn-layer2" /\ t.gatewayAddress = "bad"
      [] kind = "CloudInfrastructure" ->
            \/ t.displayName = "odd"
            \/ t.type = "openstack" /\ t.nodeSets = "twice"
            \/ t.type = "openshift" /\ t.pools = "bad"
      [] kind = "CloudGateway" ->
            \/ t.transport = "wireguard" /\ t.address = "bad"
            \/ t.siteType # "openshift" /\ t.siteUnderlay = "bad"
      [] OTHER -> FALSE
=============================================================================
