SPECIFICATION MCSpec
CONSTANTS
  r1 = r1
  r2 = r2
  r3 = r3
  r4 = r4
  x1 = x1
  x2 = x2
  onLoop = onLoop
  Writers = {r1, r2, r3, r4}
  FeatureCalls = {r1, r2, r3, r4}
  Entities = {"e1"}
  Values = {"v", "w"}
  Ttl = 0
  MaxTick = 2
  Pushes = {x1, x2, onLoop}
  OnLoop = {onLoop}
  Events = {"e"}
  Members = {"ana", "bo"}
  Submitter = "bo"
  RoleHolders <- MCRoleHolders
  Sockets = {x1, x2}
  Owner <- MCOwner
  Window = 3
  MaxNow = 6
  Uploads = {r1, r2, r3}
  Sizes = {2, 3, 4}
  AttachmentMax = 3
  DbMax = 2
  Promotions <- MCPromotions
  Carts <- MCCarts
  UnitPrice <- MCUnitPrice
  Aggregations = {x1, x2}
  Sales = {x1, x2}
  Days = {1, 2}
  MaxDisputes = 1
  RateUnit = 2
SYMMETRY MCSymmetry
CHECK_DEADLOCK FALSE
INVARIANT ThrottledTenMinutes
