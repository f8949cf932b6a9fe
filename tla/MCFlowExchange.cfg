SPECIFICATION ExchangeSpec
CONSTANTS
  SH = SH
  SZ = SZ
  BJ = BJ
  NoMarket = NoMarket
  Requests <- MCRequests
  Markets = {SH}
  Rank <- MCRank
  RequiredMarkets <- MCRequired
  TpsLimit <- MCTps
  DailyWarning <- MCWarning
  DailyLimit <- MCLimit
  RequestTimeout = 0
  Multiple = 10
  Window = 3
  Second = 2
  MinDowntime = 4
  RunsOvernight = FALSE
  MaxTime = 8
  LastSubmit = 5
  MaxDay = 1
  MaxStarts = 2
  Cushion = 1
INVARIANTS TypeOK TpsRespected DailyRespected CountSurvivesRestart RejectionRaisesAlarm
PROPERTIES ImplementsExchangeRule
