---------------------------- MODULE MCClusterCidrs ----------------------------
(* Two clusters; pools whose first blocks are reserved, the hub's or shared.    *)
EXTENDS ClusterCidrs

MCClusterPool == << {1}, {2}, {3}, {4} >>
MCServicePool == << {2}, {5}, {6}, {7} >>
MCReserved == {{1}}
MCHub == {{5}}
MCExplicit == {[pods |-> {2}, services |-> {6, 7}], [pods |-> {5}, services |-> {6}],
               [pods |-> {3}, services |-> {3, 4}]}
MCLegacyNetwork == [pods |-> {8}, services |-> {9}]
===============================================================================
