SPECIFICATION FairSpec
CONSTANTS
  Requests = {r1, r2}
  Products = {p1}
  Params = {m1}
  NoProduct = NoProduct
  NoRequest = NoRequest
  NoParams = NoParams
PROPERTIES StaleIsParked
CHECK_DEADLOCK FALSE
