\* The application may restart a live session; the chip discards a response
\* that was not read when the next request arrives.
SPECIFICATION Spec
CONSTANTS
  UINT32_MAX = 2
  MaxCalls = 3
  MaxStarts = 2
  MayRestart = TRUE
  DropsUnread = TRUE
INVARIANTS
  TypeOK
  ResultAnswersCommand
  StartsInStep
  AnsweredInStep
  AbortErases
PROPERTY ImplementsChannel
