CONSTANTS
  o1 = o1
  o2 = o2
  s1 = s1
  s2 = s2
  k1 = k1
  Op <- Ops
  Server <- Servers
  Key <- Keys
  Amount = 2
  MaxUpsets = 1
SPECIFICATION FairSpec
INVARIANTS TypeOK LedgerBacked AnsweredIsApplied OneCheckout
PROPERTIES PaidIsCredited
CHECK_DEADLOCK FALSE
