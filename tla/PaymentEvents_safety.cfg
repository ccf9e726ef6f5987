SPECIFICATION Spec
CONSTANTS
  MaxAmount = 2
  OrderTotal = 2
  UnitAmount = 1
  Quantity = 2
  Payments = {p1}
  Events = {e1, e2, e3}
  Refunds = {r1, r2}
  Workers = {w1, w2}
  RefundNotices <- AnyNotice
  MaxFaults = 1
  Synthetic = Synthetic
  NoEvent = NoEvent
  NoRefund = NoRefund
SYMMETRY IdSymmetry
CHECK_DEADLOCK FALSE
INVARIANTS
  TypeOK
  AccessHasPayment
  RefundsAddUp
  DeliveryOrderIsIrrelevant
  ReportsAgree
PROPERTIES
  RefundedIsFinal
