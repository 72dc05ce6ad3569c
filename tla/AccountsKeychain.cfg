CONSTANTS
  Slugs = {work}
  MaxAccounts = 2
  MaxLogins = 2
  MaxRestarts = 1
  Keychain = TRUE
  None = None
SPECIFICATION Spec
INVARIANT OldLoginNeverSurfaces
CHECK_DEADLOCK FALSE
