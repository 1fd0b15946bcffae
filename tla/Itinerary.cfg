SPECIFICATION Spec
CONSTANTS
  None = None
  Refused = Refused
  MaxTripDays = 5
  MaxLegs = 2
  Clients <- MCClients
  Scenarios <- MCScenarios
INVARIANTS
  DaysFollowTheTrip
  RoutesFitTheDay
PROPERTIES
  PlacesSurvive
