\* Commands: parameters and results at and beyond their limits; the default L3
\* buffer and the 1000 bytes of the build option.
SPECIFICATION PacketsSpec
CONSTANTS
  MaxCalls = 3
  Args = {0, 4, 16, 32, 128, 512}
  Lens = {0, 1, 31, 32, 255, 256, 444, 445, 4096, 4097}
  ResSizes = {1, 4, 8, 36, 48, 80, 259, 448, 449, 4097}
  ConfAddrs = {0, 4}
  MCOUNTER_VALUE_MAX = 4096
  BuffSizes = {0, 1000}
\* Chunks: the sizes of the code.
  CmdSizes <- AllCmdSizes
  MaxLens = {1000, 4143, 4144}
  ResultSizes <- AllResSizes
  ChipChunks = {99, 128, 252}
  RspLenMax = 253
  MaxUnseen = 1
INVARIANTS
  OutputExact
  CommandCoversFields
  RefusedKeepsNonce
  CommandInBuffer
  AnswersKeepSession
  ChunkFits
  PacketWhole
  CopyInBuffer
  EnoughLoops
\* The bounded calls are used up; a transfer of chunks is one call.
CHECK_DEADLOCK FALSE
