\* The application calls lt_session_start while a session is ON.
SPECIFICATION Spec
CONSTANTS
  UINT32_MAX = 2
  MaxCalls = 3
  MaxStarts = 2
  MayRestart = TRUE
  DropsUnread = TRUE
INVARIANT NonceUsedOnce
