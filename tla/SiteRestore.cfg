\* Two parts of two paths, one of them of an add-on that may be taken out.
\* After the last stop and the last restore nothing is left to do: no deadlock check.
CONSTANTS
  a = a
  b = b
  Part = {a, b}
  NoPart = NoPart
  Optional = {b}
  Width = 2
  MaxRestores = 2
  MaxStops = 2
SPECIFICATION Spec
CHECK_DEADLOCK FALSE
INVARIANTS
  RestoreTypeOK
  AllOrNothing
  OnlyCommitted
  StartDecides
  KeptBeside
PROPERTIES
  RefusedIsFinal
