SPECIFICATION Spec
CONSTANTS
  s1 = s1
  s2 = s2
  s3 = s3
  c1 = c1
  c2 = c2
  Sessions <- MCSessions
  First = s1
  Typed = {s1}
  Refusable = {s1}
  Callers = {c1, c2}
  Crashes = 1
INVARIANTS
  TypeOK
  SentOnce
  NothingForgotten
  TextIsKept
PROPERTIES
  DecisionsStand
  EveryTextIsDecided
