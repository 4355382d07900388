\* One restore, a stop after it is staged and one in the middle of its swaps:
\* what the header of siteRestore.ts says of a start that stops half-way.
CONSTANTS
  a = a
  b = b
  Part = {a, b}
  NoPart = NoPart
  Optional = {}
  Width = 2
  MaxRestores = 1
  MaxStops = 2
SPECIFICATION Spec
CHECK_DEADLOCK FALSE
INVARIANTS
  PicksUp
