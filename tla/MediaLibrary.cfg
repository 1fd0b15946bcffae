SPECIFICATION Spec
CONSTANTS
  None = None
  Clients <- MCClients
  Limit = 13
  MaxPhotos = 2
  MaxAttachments = 2
  FavoriteLimit = 2
  Scenes <- MCScenes
INVARIANTS
  StoredPicturesHaveBytes
  GalleryIsAsAsked
PROPERTIES
  SweepTakesOnlyLeftovers
  AllowancesKept
