SPECIFICATION FairSpec
CONSTANTS
  SH = SH
  SZ = SZ
  BJ = BJ
  NoMarket = NoMarket
  Requests <- RichRequests
  Markets = {SH}
  Rank <- OneRank
  RequiredMarkets <- MCRequired
  TpsLimit <- NoLimit
  DailyWarning <- NoLimit
  DailyLimit <- NoLimit
  RequestTimeout = 0
  Multiple = 10
  Window = 3
  Second = 2
  MinDowntime = 4
  RunsOvernight = FALSE
  MaxTime = 2
  LastSubmit = 0
  MaxDay = 0
  MaxStarts = 1
PROPERTIES PriorityRespected
