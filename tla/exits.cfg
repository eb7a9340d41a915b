SPECIFICATION FairSpec
CONSTANTS
  Hedge = "SH"
  Sleeves <- MCSleeves
  Stocks = {"a"}
  Lots = 2
  InitialAccounts <- MCAccounts
  MaxAttempts = 2
  MaxDisturbances = 1
PROPERTIES ClosesFit BuysAfterMigration MigrationEnds
