SPECIFICATION Spec
CONSTANTS
  s1 = s1
  s2 = s2
  t1 = t1
  t2 = t2
  r1 = r1
  c1 = c1
  None = None
  Sessions = {s1, s2}
  Turns = {t1, t2}
  Requests = {r1}
  Changes = {c1}
INVARIANTS
  StoryOfATurn
  MarkTellsOfATurn
  NothingUnderATurn
  NoDeadButtons
  MemoryGoesOnce
PROPERTIES
  EverybodyIsLetGo
CHECK_DEADLOCK FALSE
