SPECIFICATION Spec
CONSTANTS
  None = None
  Clients <- MCClients
  Colors <- MCColors
  CostCategories <- MCCategories
  MaxCostShares = 3
  MaxPageSize = 3
  DefaultPageSize = 2
  MaxActivityStops = 2
  Scenes <- MCScenes
INVARIANTS
  LedgerAddsUp
  PackingInOrder
  PagesMissNothing
