SPECIFICATION FairSpec
CONSTANTS
  t1 = t1
  t2 = t2
  p1 = p1
  Things = {t1, t2}
  Projects = {p1}
  ProjectOf <- SameProject
  HasStorage = {t1}
  HasSync = {t2}
  NoThing = NoThing
  MaxFaults = 2
INVARIANT SuccessIsProvisioned
INVARIANT Repeatable
PROPERTY EventuallyProvisioned
