SPECIFICATION FairSpec
CONSTANTS
  Commands <- AllCommands
  MaxPortRetries = 5
  MaxInterrupts = 2
INVARIANTS
  TypeOK
  NoOrphan
  ExitTellsTheRun
  InteractiveRunDir
PROPERTIES
  DisksOutliveQemu
  RunTestEnds
  InteractiveEnds
CHECK_DEADLOCK FALSE
