SPECIFICATION FairSpec
CONSTANTS
  QoS = 1
  NumMsgs = 4
  Outcomes <- Good
  MaxInflight = 2
  MaxQueued = 2
  MaxAttempts = 2
  RestartPolicy = "on-failure"
  MaxKills = 1
  MaxDrops = 2
INVARIANT NoSilentLoss
PROPERTY ImplementsDelivery
PROPERTY AcceptedIsHandled
\* Messages and faults are bounded: a behaviour ends when they are used up.
CHECK_DEADLOCK FALSE
