\* The same ring with one shape and two samples, for a stop that does not return.
CONSTANTS
  Size = 3
  Shapes <- MCOneShape
  MaxFrame = 2
  MaxSamples = 2
  MaxStops = 1
SPECIFICATION Spec
PROPERTIES
  StopReturns
CHECK_DEADLOCK FALSE
