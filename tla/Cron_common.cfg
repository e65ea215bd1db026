SPECIFICATION Spec
CONSTANTS
  Things = {t1}
  Intervals <- Common
  Samples = {7}
  None = None
INVARIANT RunsEvenly
INVARIANT JobAsConfigured
INVARIANT NeverRaises
PROPERTY StableSchedule
