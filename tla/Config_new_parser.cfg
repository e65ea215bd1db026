SPECIFICATION Spec
CONSTANTS
  Things = {t1, t2}
  Projects = {p1, p2}
  Schemas = {s1, s2}
  Sections = {"mqtt", "sftp"}
  ParserNames = {a, b}
  QcNames = {n1, n2}
  Contents = {x, y}
  None = None
  t1 = t1
  t2 = t2
  p1 = p1
  p2 = p2
  s1 = s1
  s2 = s2
  a = a
  b = b
  n1 = n1
  n2 = n2
  x = x
  y = y
  ThingMsgs <- Parsing
  QcMsgs <- NoQc
  ParserUuidUnique = FALSE
  CommitMayFail = FALSE
  MaxMsgs = 3
  MaxCrashes = 0
INVARIANT NewThingIsStored
\* A behaviour ends when MaxMsgs messages are handled.
CHECK_DEADLOCK FALSE
