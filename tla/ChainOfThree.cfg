\* Three blocks that may all be enabled at once.
CONSTANTS
  Blocks = {b1, b2, b3}
  Inputs = {i1, i2}
  MaxEnabled = 3
SPECIFICATION Spec
INVARIANTS
  InSeries
