SPECIFICATION Spec
CONSTANTS
  NoDefault = NoDefault
  Fields <- MCFields
  Validators <- MCValidators
  Driver <- MCDriver
  Status <- MCStatus
  WellFormed <- MCWellFormed
  ToDriver <- MCToDriver
  ToStatus <- MCToStatus
  PublishedVersion = "publishedVersion"
  Others <- MCOthers
  Snapshots = {1, 2}
  Configs <- MCConfigs
  Harvestable <- MCHarvestable
  MaxRecords <- MCMaxRecords
  MaxFailures = 1
  MaxCleanings = 1
INVARIANTS
  TypeOK
  SizesAddUp
  RowsAreJudgedAsPublished
  LastGoodSurvives
  MarkedMeansEmptied
  StatisticsAccumulate
  LRRepairs
CHECK_DEADLOCK FALSE
