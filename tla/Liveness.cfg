SPECIFICATION MCFairSpec
CONSTANTS
  MaxAmount = 2
  OrderTotal = 2
  UnitAmount = 1
  Quantity = 2
  Payments = {p1, p2}
  Events = {e1, e2}
  Refunds = {r1}
  Workers = {w1}
  RefundNotices <- PricedNotices
  MaxFaults = 2
  Synthetic = Synthetic
  NoEvent = NoEvent
  NoRefund = NoRefund
  First = c1
  Second = c2
  Last = c3
CHECK_DEADLOCK FALSE
PROPERTIES
  SalesSettle
  CrashBeforeFanoutHeals
  DeliveryHeals
  DueBucketsExpire
  PendingSettles
