SPECIFICATION PhoneFairSpec
CONSTANTS
  p1 = p1
  p2 = p2
  p3 = p3
  Payments = {p1, p2, p3}
  NoPayment = none
  Copies = 2
  BroadcastOnVerify = TRUE
  DemoScriptOnly = TRUE
  MaxRestarts = 1
  Phones = {a}
  PhonePayments = {p1}
  Pays <- ThreePays
  Price = 100
  MaxSats = 1000
INVARIANT LightsOncePerRun
INVARIANT LitsAreBacked
INVARIANT PaidBeforeLit
PROPERTY EveryPollEnds
CHECK_DEADLOCK FALSE
