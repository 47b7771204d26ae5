SPECIFICATION Spec
CONSTANTS
  T0 = T0
  a = a
  b = b
  Slots = {T0}
  External = External
  Spools = {a, b}
  WithId = {a}
  Known = {b}
  None = None
  MaxFuss = 3
INVARIANTS TypeOK 
PROPERTIES ProfileOfSpool
