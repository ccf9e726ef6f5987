SPECIFICATION MCSpec
CONSTANTS
  MaxAmount = 2
  OrderTotal = 2
  Payments = {p1}
  Events = {e1, e2}
  Refunds = {r1}
  Workers = {w1}
  RefundNotices <- FullNotices
  MaxFaults = 0
  Clerks = {c1, c2}
  MaxAttempts = 2
  Replies <- AnyReply
  Synthetic = Synthetic
  NoEvent = NoEvent
  NoRefund = NoRefund
  NoAnswer = NoAnswer
  Members = {b1, b2}
  Invitations = {"invitation"}
  Roles = {"owner", "admin"}
  Apps = {"app"}
  Accesses <- OwnerAccess
  Changes <- RoleChanges
  MaxHashes = 3
  Keep = Keep
SYMMETRY Symmetry
CHECK_DEADLOCK FALSE
INVARIANTS
  AnOwnerRemains
