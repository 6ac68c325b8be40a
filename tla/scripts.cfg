SPECIFICATION Spec
CONSTANTS
  w1 = w1
  w2 = w2
  c1 = c1
  c2 = c2
  Checkouts = {w1, w2}
  Callers = {c1, c2}
  Phases <- MCPhases
  Ports <- MCPorts
  Serves <- MCServes
  Fragile = {w1}
  MaxScripts = 2
INVARIANTS
  LiveScriptsHoldTheirBlock
  NoPortOfTheDead
PROPERTIES
  BlocksAreForGood
  EveryCallEnds
CHECK_DEADLOCK FALSE
