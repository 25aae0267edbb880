SPECIFICATION Spec
CONSTANTS
  Flows <- AllFlows
  From = 1
  Releases <- ThreeReleases
INVARIANTS
  TypeOK
  PicturesShowIntended
  BeforeIsPrevious
  PicturesShowLatest
CHECK_DEADLOCK FALSE
