SPECIFICATION Spec
CONSTANTS
  p1 = p1
  p2 = p2
  None = None
  OldBlob = OldBlob
  OldPartial = OldPartial
  Earlier = Earlier
  Commands <- TwoCommands
  Kinds <- FourKinds
  t1 = t1
  t2 = t2
  NoStamp = NoStamp
  Stamps <- TwoStamps
  MaxInterrupts = 1
  MaxPrunes = 1
SYMMETRY Symmetry
INVARIANTS
  TypeOK
  GoldenTakesTheKey
  GoldenIsPinned
  GoldenAtRest
  OwnDisk
PROPERTIES
  OldGoldenSurvives
CHECK_DEADLOCK FALSE
