SPECIFICATION Spec
CONSTANTS
  a = a
  b = b
  c = c
  Paths = {a, b, c}
  TextsOf <- TextsAlias
  FirstText <- FirstAlias
  Absent = Absent
  None = None
  Racy = 2
  Granularity = 2
  MaxTime = 0
  MaxEdits = 1
INVARIANT EquivalentToFull
