SPECIFICATION Spec
CONSTANTS
  p1 = p1
  p2 = p2
  log = log
  logold = logold
  both = both
  first = first
  huge = huge
  Files = {log, logold}
  Matching = {log}
  StartsWith <- Prefixes
  Contents = {both, first, huge}
  Parsers = {p1, p2}
  ReadableBy <- Readers
  TooLarge = {huge}
  NoParser = NoParser
  NoFile = NoFile
  NoTag = NoTag
  MaxObjects = 3
  MaxChanges = 1
  MaxReparsings = 1
  MaxFaults = 1
INVARIANT TagsTellTheTruth
INVARIANT LatestIsIngested
\* All files are at rest in the end.
CHECK_DEADLOCK FALSE
