\* Two requests at once, five identifiers of each table at most.
SPECIFICATION Spec
CONSTANTS
  a = a
  b = b
  c = c
  trip = trip
  None = None
  Gone = Gone
  p1 = p1
  p2 = p2
  Addresses <- AllAddresses
  UserIds <- AllUserIds
  SessionIds <- AllSessionIds
  TokenIds <- AllTokenIds
  Trips <- AllTrips
  Requests <- AllRequests
  Scenarios <- AllScenarios
  MaxVerificationAttempts = 2
SYMMETRY RequestSymmetry
CHECK_DEADLOCK FALSE
INVARIANTS
  AnAdministratorRemains
  LiveSessionsAreCurrent
  CredentialsWorkOnce
  BrowserKeepsItsSession
PROPERTIES
  ConfirmedAccountsStay
