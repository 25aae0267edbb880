SPECIFICATION FairSpec
CONSTANTS
  r1 = r1
  r2 = r2
  Launchers <- TwoRuns
  InheritStdio <- Second
  Graphical <- Second
  Ephemeral <- Kernel
  SshFallback <- SshRange
  VncFallback <- VncRange
  VncBase = 3
  MaxPort = 6
  MaxPortRetries = 2
  MaxOthers = 1
INVARIANTS
  TypeOK
  DisplayInRange
  BlamesPortsWithReason
PROPERTIES
  SpawnEnds
CHECK_DEADLOCK FALSE
