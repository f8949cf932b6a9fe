SPECIFICATION Spec
CONSTANTS
  Mine = Mine
  Other = Other
  ETF = ETF
  Share = Share
  Messages <- ForeignMessages
  Funds = {Mine, Other}
  Codes = {ETF, Share}
  Exempt <- SharesExempt
  Auction <- Never
  OrderTimeout = 0
  OwnFund = Mine
  Overtaking <- None
  LateReplies = FALSE
  WithdrawsHonoured = TRUE
  Duplicates = FALSE
  MaxLag = 1
  MaxTime = 2
PROPERTIES ForeignRespected
CHECK_DEADLOCK FALSE
