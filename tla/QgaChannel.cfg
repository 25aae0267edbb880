\* qemu-ga over a port that outlives its clients, with late replies.
SPECIFICATION FairSpec

CONSTANTS
  MaxPings <- MCMaxPings
  Chunks <- MCChunks
  MaxPolls <- MCMaxPolls

\* The kick returns or raises and the agent falls silent.
CHECK_DEADLOCK FALSE

INVARIANTS
  TypeOK
  ShortScriptIsExcused
  JudgedAfterExit
  ReportIsNotLost

PROPERTIES
  KickEnds
  KickUsesItUp
