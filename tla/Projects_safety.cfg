SPECIFICATION MCSpec
CONSTANTS
  r1 = r1
  r2 = r2
  r3 = r3
  r4 = r4
  p1 = p1
  c1 = c1
  c2 = c2
  ana = ana
  rev = rev
  adm = adm
  Requests = {r1, r2, r4}
  Projects = {p1}
  Contents = {c1, c2}
  Users = {ana, rev, adm}
  Applicant <- MCApplicant
  CallerOf <- MCCallerOf
  Override = TRUE
  Bindings <- MCBindings
  Faults = {"request", "revoke"}
  s1 = s1
  s2 = s2
  s3 = s3
  s4 = s4
  t1 = t1
  Attempts = {s1, s2, s3, s4}
  Accounts = {"ana"}
  Passwords = {"p", "q"}
  FailedLoginLimit = 2
  AccountLockMinutes = 2
  MaxMinute = 4
  Changes = {s1, s2, s3, s4}
  Staff = {"ana", "bo"}
  Roles = {"op_admin", "cashier"}
  ShiftCalls = {s1, s2, s3}
  ShiftIds = {t1}
  Times = {1, 2, 3}
CHECK_DEADLOCK FALSE
INVARIANTS TypeOK VersionNumbers ReviewedIsSubmitted DiffsChain
INVARIANTS StaffTypeOK CountsConsecutive LogReplays RolesAreGranted StartBeforeEnd
INVARIANTS NotesAreOfSubmissions ApproversTold
PROPERTIES EntriesAreEarned BootstrapsOnlyWithoutAdmin ShiftLifecycle
PROPERTIES LifecycleUnlessRaced SubmissionsAreVersions
