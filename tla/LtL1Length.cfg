\* A port without a test of its own, and a response of 253 bytes.
SPECIFICATION L1Spec
CONSTANTS
  MaxTries = 3
  LenMax = 257
  PortChecks = FALSE
  WriteLens = {4, 256}
  RspLens = {252, 253}
INVARIANT TransferInBuffer
