SPECIFICATION Spec
CONSTANTS
  r1 = r1
  r2 = r2
  Launchers <- OneRun
  InheritStdio <- OneRun
  Graphical <- Nobody
  Ephemeral <- Kernel
  SshFallback <- SshRange
  VncFallback <- VncRange
  VncBase = 3
  MaxPort = 6
  MaxPortRetries = 2
  MaxOthers = 1
INVARIANT LostPortIsRetried
CHECK_DEADLOCK FALSE
