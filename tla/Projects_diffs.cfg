SPECIFICATION MCSpec
CONSTANTS
  r1 = r1
  r2 = r2
  r3 = r3
  r4 = r4
  p1 = p1
  c1 = c1
  c2 = c2
  ana = ana
  rev = rev
  adm = adm
  Requests = {r1, r2, r3, r4}
  Projects = {p1}
  Contents = {c1, c2}
  Users = {ana, rev, adm}
  Applicant <- MCApplicant
  CallerOf <- MCCallerOf
  Override = FALSE
  Bindings = {}
  Faults = {}
  s1 = s1
  s2 = s2
  s3 = s3
  s4 = s4
  t1 = t1
  Attempts = {}
  Accounts = {"ana"}
  Passwords = {"p", "q"}
  FailedLoginLimit = 2
  AccountLockMinutes = 2
  MaxMinute = 4
  Changes = {}
  Staff = {"ana", "bo"}
  Roles = {"op_admin", "cashier"}
  ShiftCalls = {}
  ShiftIds = {t1}
  Times = {1, 2, 3}
CHECK_DEADLOCK FALSE
INVARIANT DiffsAgainstPrevious
