\* Store: lengths around one block (128), around the end of a block behind the
\* header (246 = 118 + 128) and up to a full store (958 + 958 + 957 + 957 = 3830).
SPECIFICATION CertificatesSpec
CONSTANTS
  Parts = {"store", "parser"}
  CertLens = {128, 129, 246, 957, 958}
  CertBufLens = {246, 958}
\* Parser: streams that end within, at and behind small objects, and a long one.
  StreamLens = {0, 1, 2, 14, 15, 280}
  BufLens = {2}
  Lengths <- SomeLengths
  MaxObjects = 4
INVARIANTS
  CopiesFit
  CertsWhole
  OnlyNeededBlocks
  FoundObject
  WellNested
\* Parsing ends.
CHECK_DEADLOCK FALSE
