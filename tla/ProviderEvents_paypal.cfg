SPECIFICATION MCSpec
CONSTANTS
  Components = {"cycles"}
  Events = {e1, e2, e3}
  Workers = {w1}
  MaxTime = 3
  Notices <- MCNotices
  CancelAnswers <- MCAnswers
  MaxFaults = 0
  MaxHeld = 0
  NoEvent = NoEvent
  NotTold = NotTold
  Providers = {"paypal"}
  MaxCycle = 2
  Sessions = {"own", "other"}
  Owners = {"own"}
  MaxAttempts = 2
SYMMETRY Perms
CHECK_DEADLOCK FALSE
INVARIANTS
  PaidCycleDelivers
