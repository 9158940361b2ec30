SPECIFICATION Spec
CONSTANTS
  Clusters = {"c1", "c2"}
  ClusterPool <- MCClusterPool
  ServicePool <- MCServicePool
  Reserved <- MCReserved
  Hub <- MCHub
  Explicit <- MCExplicit
  LegacyNetwork <- MCLegacyNetwork
  MaxCreated = 3
  MaxFailedReads = 1
PROPERTY
  KeptAsIs
CHECK_DEADLOCK FALSE
