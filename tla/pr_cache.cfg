SPECIFICATION Spec
CONSTANTS
  p1 = p1
  c1 = c1
  c2 = c2
  Projects = {p1}
  Screens = {c1}
  Conveyors = {c2}
  NoPr = NoPr
  PrStates <- MCPrStates
  MaxHistory = 2
  MaxWant = 2
INVARIANTS
  MergesOnlyOnFreshGreen
  ScreensAreTold
PROPERTIES
  EveryQuestionIsAnswered
  ImplementsFreshReads
CHECK_DEADLOCK FALSE
