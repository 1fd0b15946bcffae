SPECIFICATION Spec
CONSTANTS
  None = None
  Clients <- MCClients
  Countries = {"no", "se"}
  TravelModes <- MCModes
  MaxIdeaDays = 9
  MaxIdeaPlaces = 2
  MaxIdeaCountries = 2
  MaxIdeaTransports = 3
  MaxMixedModes = 2
  MaxTransportMinutes = 9
  TagColors <- MCColors
  MaxTripTags = 2
  MinHomeRadiusM = 1
  MaxHomeRadiusM = 4
  invitationLifetime = 1
  downloadLifetime = 1
  MaxNow = 3
  Scenes <- MCScenes
INVARIANTS
  FiguresAreTrue
  HistoryTellsTheIdea
  InvitationsAreSpentOnce
PROPERTIES
  AnswersKeepSecrets
