SPECIFICATION MCSpec
CONSTANTS
  Components = {"events", "credits", "cycles", "cancellations"}
  Events = {e1, e2}
  Workers = {w1, w2}
  MaxTime = 3
  Notices <- MCNotices
  CancelAnswers <- MCAnswers
  MaxFaults = 1
  MaxHeld = 2
  NoEvent = NoEvent
  NotTold = NotTold
  Providers = {"creem", "paypal", "waffo"}
  MaxCycle = 2
  Sessions = {"own", "other"}
  Owners = {"own"}
  MaxAttempts = 2
SYMMETRY Perms
CHECK_DEADLOCK FALSE
INVARIANTS
  SubscriptionTypeOK
  EndedLeavesOnlyHeld
  RenewalDelivers
  CyclesMatchPayments
  CancelledIsAudited
