SPECIFICATION Spec
CONSTANTS
  o1 = o1  o2 = o2  o3 = o3  w1 = w1  w2 = w2
  k1 = k1  k2 = k2  k3 = k3  f1 = f1  c1 = c1  c2 = c2
  SH = SH  SZ = SZ  NoMarket = NoMarket
  Requests = {o1, o2, o3, w1, w2}
  Body <- MCBody
  Spot = FALSE
  Configured <- MCConfigured
  Knocks = {k1, k2, k3}
  OthersKnocks = {f1}
  MatchNo <- SelfMatchNo
  DateOf <- MCDate
  PageSize = 2
  Codes = {c1, c2}
  Plans <- SelfTradePlans
PROPERTIES PushedIsRecorded
