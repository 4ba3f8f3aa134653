\* An object of 258 bytes behind the identifier, inside the stream: its length is
\* cut to a uint8_t.
SPECIFICATION CertificatesSpec
CONSTANTS
  Parts = {"parser"}
  CertLens = {128}
  CertBufLens = {246}
  StreamLens = {280}
  BufLens = {2}
  Lengths <- SomeLengths
  MaxObjects = 4
INVARIANT
  FoundAnyLength
\* Parsing ends.
CHECK_DEADLOCK FALSE
