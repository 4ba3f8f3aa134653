\* Three rounds (the code has twelve): a first, a middle and a last slot.
SPECIFICATION ExamplesSpec
CONSTANTS
  MACANDD_ROUNDS = 3
  PINs = {p, q}
  ExPin = p
  ExWrong = q
  MaxSets = 2
  MaxChecks = 6
  MaxFaults = 2
\* A run of the provisioning, and two more after interruptions.
  MaxRuns = 3
  MaxFailures = 2
INVARIANTS
  CheckVerdict
  TriesBounded
  SlotsReady
  ExampleSucceeds
  WalletSucceeds
  KeyZeroGoesLast
  ConfigIsPrefix
\* The bounded calls and runs are used up.
CHECK_DEADLOCK FALSE
