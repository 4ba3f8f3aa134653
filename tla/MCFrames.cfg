\* Layer 1: a port without a test of its own, and every kind of length that the
\* check of lt_l1_read must tell apart, but for the one of the run l1_length.
SPECIFICATION FramesSpec
CONSTANTS
  MaxTries = 3
  LenMax = 257
  PortChecks = FALSE
  WriteLens = {4, 256}
  RspLens = {0, 252, 254, 255}
\* Layer 2: a chip that drops unread responses and can resend error responses, too.
  MaxReqs = 3
  DropsUnread = TRUE
  KeepsErrors = TRUE
INVARIANTS
  CsnReleased
  BusyMeansPolled
  TransferInBuffer
  OwnResponse
  RetriedBeforeError
PROPERTIES
  CallReturns
  ImplementsChannel
  ReceiveReturns
