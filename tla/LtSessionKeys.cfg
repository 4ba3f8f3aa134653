\* The application ends a session before it starts the next one; the chip may
\* keep responses that were not read, or ignore requests.
SPECIFICATION Spec
CONSTANTS
  UINT32_MAX = 2
  MaxCalls = 4
  MaxStarts = 2
  MayRestart = FALSE
  DropsUnread = FALSE
INVARIANTS
  NonceUsedOnce
  OnMeansEstablished
