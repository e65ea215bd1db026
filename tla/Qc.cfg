SPECIFICATION Spec
CONSTANTS
  temp = temp
  level = level
  found = found
  Streams = {temp, level}
  Names = {temp, level}
  StreamOf <- OwnNames
  Tests <- ThreeTests
  Discovered <- NoneDiscovered
  Uploads <- SomeUploads
  Spans <- SomeSpans
  Windows <- SomeWindows
  MaxTime = 4
  MaxArrivals = 2
  MaxTriggers = 1
  MaxFaults = 1
INVARIANT CacheHasNoHoles
INVARIANT LabelsComeTogether
INVARIANT NothingIsOverlooked
PROPERTY ContextIsAlmostFull
PROPERTY OnlyItsRange
\* No more messages come.
CHECK_DEADLOCK FALSE
