\* Every set of due slots of a schedule of five, with gaps, and every rule.
\* One question, one answer: no deadlock check.
CONSTANTS
  Slots = {1, 2, 4, 5, 7}
  Instants = {0, 2, 3, 4, 5, 6, 7, 8}
  OnTime = 1
  Cap = 2
CHECK_DEADLOCK FALSE
SPECIFICATION CheckSpec
INVARIANT
  AgreesWithTheList
