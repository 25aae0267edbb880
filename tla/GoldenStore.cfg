SPECIFICATION Spec
CONSTANTS
  ra = ra
  rb = rb
  b1 = b1
  b2 = b2
  run1 = run1
  NoLink = NoLink
  Recipes <- TwoRecipes
  Builders <- TwoBuilders
  Runners <- OneRun
  Iso = TRUE
  MaxBuilds = 2
  MaxEdits = 1
  MaxStops = 1
  MaxPrunes = 1
SYMMETRY Symmetry
INVARIANTS
  TypeOK
  GoldenNotLost
  BootsProvisionedImage
  QuietFilesAgree
PROPERTIES
  ImplementsRegistry
CHECK_DEADLOCK FALSE
