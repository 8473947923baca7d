SPECIFICATION Spec
CONSTANTS
  Orders <- MCOrderIds
  r1 = r1
  r2 = r2
  r3 = r3
  r4 = r4
  cashier = cashier
  manager = manager
  admin = admin
  Requests = {r1, r2, r3, r4}
  Loop = loop
  Users = {cashier, manager, admin}
  Admins = {admin}
  CallerOf <- MCCallers
  FinalAmount <- MCAmounts
  Methods <- MCMethods
  Tenders <- MCTenders
  AutoVoidMinutes = 1
  Faults = {"request", "loop"}
  MaxTime = 3
  MaxRestarts = 0
INVARIANTS
  TypeOK
  SettlementAllOrNothing
  SettledOnceUnlessRaced
  VoidOnlyAfterLimit
  NoLockCycle
  ReceiptsAreOfSales
PROPERTY OutcomeFlipsOnlyRaced
SYMMETRY Symmetry
CHECK_DEADLOCK FALSE
