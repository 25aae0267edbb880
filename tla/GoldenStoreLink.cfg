SPECIFICATION Spec
CONSTANTS
  ra = ra
  rb = rb
  b1 = b1
  b2 = b2
  run1 = run1
  NoLink = NoLink
  Recipes <- TwoRecipes
  Builders <- OneBuilder
  Runners <- OneRun
  Iso = TRUE
  MaxBuilds = 2
  MaxEdits = 2
  MaxStops = 0
  MaxPrunes = 0
INVARIANT LinkIsCurrent
CHECK_DEADLOCK FALSE
