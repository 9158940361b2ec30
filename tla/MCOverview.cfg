SPECIFICATION OverviewSpec
CONSTANTS
  Catalogue <- MCCatalogue
  Given <- MCGiven
  Volatile <- MCVolatile
  Scope <- Acme
  RetryAttempts = 4
  MaxChanges = 1
  MaxLost = 1
  MaxRefreshes = 1
INVARIANTS
  GraphIsFaithful
  NothingIsLost
  DrawingKeepsGraph
  ViewsAgree
PROPERTY OverviewSettles
CHECK_DEADLOCK FALSE
