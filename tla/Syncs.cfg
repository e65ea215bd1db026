CONSTANTS
  SectionSets = {{"ext_sftp"}, {"ext_api", "ext_sftp"}}
  f1 = f1
  f2 = f2
  Files <- MCFiles
  Order <- MCOrder
  UnreadableSets <- MCUnreadableSets
  MaxSize = 2
  Mtimes = {0, 1}
  MaxClock = 1
  MaxChanges = 3
  MaxDue = 1
  MaxFaults = 1
  Apis = {"tsystems", "bosch", "uba", "dwd", "ttn", "nm", "custom"}
  HoursPerDay = 3
  Period = 2
  Zeros = {5}
  Horizon = 6
  MaxLate = 1
  MaxWaiting = 2
  MaxApiFaults = 1
  Tables <- MCTables
  Views <- MCViews
  Foreign = {"sms_cv_license"}
  Fragile = {"sms_site"}
  Ids = {1, 2}
  MaxEdits = 2
  MaxSmsFaults = 1
SPECIFICATION FairSpec
CHECK_DEADLOCK FALSE

INVARIANTS
  HiddenOnlyDuringUpload
  GapsHaveACause
PROPERTY EveryUploadIsNews
PROPERTY BucketCatchesUp
PROPERTY RunsAreSettled
PROPERTY SmsJobCatchesUp
