SPECIFICATION Spec
CONSTANTS
  Kinds <- JustSsh
  Timeout = 9
  Sleep = 2
  MaxNap = 2
  MaxProbe = 1
  Grace = 3
  RejectMax = 3
INVARIANT AbortIsConsecutive
CHECK_DEADLOCK FALSE
