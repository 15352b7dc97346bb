SPECIFICATION Spec
CONSTANTS
  Drafts = {"token", "result"}
  MaxCommands = 4
  MaxEdits = 2
  MaxStops = 1
INVARIANTS PasswordIsRecorded SharedKeysAgree IdentityIsUsable GatewayCredentialsMatch
PROPERTY ChoicesStay
CHECK_DEADLOCK FALSE
