\* Two VFOs; three frames are enough to skip one and to repeat one, and with two
\* places the device can overrun the ring.  The user interface may hang for good
\* in the one case OperationsReturn names, so a deadlock is not an error.
CONSTANTS
  Vfos = {v1, v2}
  RingSize = 2
  MaxFrames = 3
SPECIFICATION Spec
INVARIANTS
  TypeOK
  NothingDangles
PROPERTIES
  ListStable
  FramesInOrder
  OperationsReturn
CHECK_DEADLOCK FALSE
