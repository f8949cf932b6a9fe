SPECIFICATION FairSpec
CONSTANTS
  SH = SH
  SZ = SZ
  BJ = BJ
  NoMarket = NoMarket
  Requests <- RouteRequests
  Markets <- MCMarkets
  Rank <- MCRank
  RequiredMarkets <- MCRequired
  TpsLimit <- RouteTps
  DailyWarning <- RouteNone
  DailyLimit <- RouteLimit
  RequestTimeout = 5
  Multiple = 10
  Window = 3
  Second = 2
  MinDowntime = 4
  RunsOvernight = FALSE
  MaxTime = 5
  LastSubmit = 0
  MaxDay = 1
  MaxStarts = 2
INVARIANTS AnsweredOnce CmdSizeAccurate
PROPERTIES PriorityRespected EveryRequestAnswered
