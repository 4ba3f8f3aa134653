\* Nothing fails; checks go on after the first success.
SPECIFICATION Spec
CONSTANTS
  MACANDD_ROUNDS = 3
  PINs = {p, q}
  ExPin = p
  ExWrong = q
  MaxSets = 1
  MaxChecks = 5
  MaxFaults = 0
INVARIANT SlotsReinitialized
\* The bounded calls are used up.
CHECK_DEADLOCK FALSE
