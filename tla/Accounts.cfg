CONSTANTS
  Slugs = {work}
  MaxAccounts = 2
  MaxLogins = 2
  MaxRestarts = 1
  Keychain = FALSE
  None = None
SPECIFICATION Spec
INVARIANTS OldLoginNeverSurfaces NoStrayLogin
PROPERTIES LoginSettles DismissedStaysAway
CHECK_DEADLOCK FALSE
