SPECIFICATION Spec
CONSTANTS
  temp = temp
  level = level
  found = found
  Streams = {temp}
  Names = {temp, found}
  StreamOf <- SharedNames
  Tests <- TwoTests
  Discovered <- OneDiscovered
  Uploads <- TempUploads
  Spans <- NoSpan
  Windows <- NoWindow
  MaxTime = 2
  MaxArrivals = 2
  MaxTriggers = 1
  MaxFaults = 1
INVARIANT AppliedToAll
CHECK_DEADLOCK FALSE
