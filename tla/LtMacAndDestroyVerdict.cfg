\* Nothing fails; more checks than rounds.
SPECIFICATION Spec
CONSTANTS
  MACANDD_ROUNDS = 3
  PINs = {p, q}
  ExPin = p
  ExWrong = q
  MaxSets = 1
  MaxChecks = 5
  MaxFaults = 0
INVARIANT OkMeansCorrect
\* The bounded calls are used up.
CHECK_DEADLOCK FALSE
