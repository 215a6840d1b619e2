SPECIFICATION FairPhotoSpec
CONSTANTS
  Uploads = {r1}
  Spots = {s1}
  Photos = {p1, p2}
  Doubtful = {p1}
  MaxFiles = 2
  MaxRequests = 2
  NoSpot = NoSpot
  NoUpload = NoUpload
\* A service nobody calls rests: the photospots and photos run out.
CHECK_DEADLOCK FALSE
PROPERTIES
  UnsafeIsRemoved
  DeletionIsCarriedOut
  LabelsArrive
