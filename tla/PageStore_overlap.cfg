\* One page, a uuid for a second, two titles, three calls and no fault.
\* When every call was answered nothing may be left to do: no deadlock check.
CONSTANTS
  c1 = c1
  c2 = c2
  c3 = c3
  p1 = p1
  p2 = p2
  t1 = t1
  t2 = t2
  Call = {c1, c2, c3}
  Page = {p1, p2}
  Title = {t1, t2}
  Main = p1
  Home = t1
  First = First
  NoPage = NoPage
  NoTitle = NoTitle
  MaxFaults = 0
CHECK_DEADLOCK FALSE
SPECIFICATION Spec
INVARIANT OneWriteAtATime
