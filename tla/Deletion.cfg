CONSTANTS
  t1 = t1
  t2 = t2
  NoThing = NoThing
  Things <- MCThings
  Existing <- MCExisting
  Doomed <- MCDoomed
  SectionSets <- MCSectionSets
  MaxEvents = 2
SPECIFICATION FairSpec

INVARIANTS
  GoneForGood
PROPERTY JobsOfOthersStay
PROPERTY DeletionCompletes
PROPERTY LastSaveWins
