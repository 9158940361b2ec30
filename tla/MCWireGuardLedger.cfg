SPECIFICATION Spec
CONSTANTS
  Gateways = {1, 2, 3}
  Jobs = {"j1", "j2"}
  Hosts = {10, 11, 12}
  OwnAddresses = {11}
  Reserved = {10}
  MaxAttempts = 2
  MaxChanges = 3
INVARIANTS
  LedgerDistinct
PROPERTIES
  EntriesAreKept
  ListIsServed
