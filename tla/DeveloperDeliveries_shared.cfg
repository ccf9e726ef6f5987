SPECIFICATION MCSpec
CONSTANTS
  Endpoints = {n1}
  Events = {v1}
  t1 = t1
  t2 = t2
  Types = {t1, t2}
  Subscriptions <- AnySubscription
  TypeOf <- OneType
  Publishers = {p1}
  Sweepers = {s1, s2}
  Operators = {o1}
  MaxAttempts = 2
  BatchSize = 1
  MaxManual = 1
  MaxFaults = 0
  Nothing = Nothing
  Racers = {s1, s2}
  Later = {s3}
  MadeIds = {"p1", "p2"}
  AskedParams = {"m1", "m2"}
  Places = {"test", "live"}
  Prices = {"p1", "p2"}
  ProductIds = {"x1"}
  Matching <- MCMatching
  Connections = {"c1", "c2"}
  SoldProducts = {"a"}
  ProviderOf <- MCProviderOf
  ModeOf <- MCModeOf
  ProductOf <- MCProductOf
  TermsOf <- MCTermsOf
  Baskets <- MCBaskets
  Limit = 2
  MaxWindows = 1
  Window = 2
  MaxTime = 4
  Weekly = {"c1"}
  ProjectOf <- MCProjectOf
  ProductTypes = {"subscription", "credit_pack"}
  Intervals = {"week", "month"}
  Grants = {"none", "blank", "good"}
  Units <- MCUnits
  Meters <- MCMeters
  Periods = {1, 2}
  Length = 1
  KeyOperators = {"a", "b"}
  MaxKeys = 3
  Tokens = {"t"}
  Customers = {"a", "b"}
  Ttls = {0, 1, 3}
  MinTtl = 1
  MaxTtl = 2
  MaxClock = 2
SYMMETRY Symmetry
CHECK_DEADLOCK FALSE
INVARIANTS
  SweepersShareNothing
