SPECIFICATION FairSpec
CONSTANTS
  QoS = 2
  NumMsgs = 4
  Outcomes <- Fragile
  MaxInflight = 2
  MaxQueued = 2
  MaxAttempts = 2
  RestartPolicy = "always"
  MaxKills = 1
  MaxDrops = 1
INVARIANT AtMostOnce
INVARIANT LossBounded
PROPERTY InOrder
PROPERTY ImplementsDelivery
PROPERTY AcceptedIsSettled
\* Messages and faults are bounded: a behaviour ends when they are used up.
CHECK_DEADLOCK FALSE
