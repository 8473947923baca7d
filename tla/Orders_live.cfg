SPECIFICATION FairSpec
CONSTANTS
  Orders <- MCOneOrder
  r1 = r1
  r2 = r2
  r3 = r3
  r4 = r4
  cashier = cashier
  manager = manager
  admin = admin
  Requests = {r1, r2, r3}
  Loop = loop
  Users = {cashier, manager, admin}
  Admins = {admin}
  CallerOf <- MCCallers
  FinalAmount <- MCAmounts
  Methods <- MCMethods
  Tenders <- MCOneTender
  AutoVoidMinutes = 1
  Faults = {"request", "restart"}
  MaxTime = 3
  MaxRestarts = 1
CHECK_DEADLOCK FALSE
PROPERTY DraftCloses
