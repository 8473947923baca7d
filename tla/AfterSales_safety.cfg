SPECIFICATION MCSpec
CONSTANTS
  c1 = c1
  c2 = c2
  c3 = c3
  cashier = cashier
  admin = admin
  Calls = {c1, c2, c3}
  Bodies <- MCBodies
  Orders <- MCOrders
  Owner <- MCOwner
  Admins = {admin}
  FinalAmount <- MCFinal
  LineOf <- MCLines
  Settlements <- MCSettlements
  ReturnWindow = 0
  Faults = {"call", "void", "overlap"}
  MaxTime = 1
  None = None
INVARIANTS
  TypeOK
  AnswersAgree
  BooksBalance
  RefundsCappedUnlessRaced
PROPERTY LedgerSpec
SYMMETRY Symmetry
CHECK_DEADLOCK FALSE
