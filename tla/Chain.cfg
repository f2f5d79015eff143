\* Three blocks of which at most two are enabled at once.
CONSTANTS
  Blocks = {b1, b2, b3}
  Inputs = {i1, i2}
  MaxEnabled = 2
SPECIFICATION Spec
INVARIANTS
  TypeOK
  InSeries
  StartedIfEnabled
