SPECIFICATION FairSpec
CONSTANTS
  c1 = c1
  c2 = c2
  alice = alice
  pass1 = pass1
  pass2 = pass2
  cap1 = cap1
  cap2 = cap2
  Calls = {c1, c2}
  Requests <- MCRequests
  Users = {alice}
  Passwords = {pass1, pass2}
  Captchas = {cap1, cap2}
  None = None
  MaxCrashes = 1
INVARIANTS TypeOK CaptchaSpentOnce SessionIsOwners RegisteredHasRecord LiveSpared
PROPERTY ExpiredCookieGoes
CHECK_DEADLOCK FALSE
