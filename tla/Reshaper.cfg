\* A ring of five cells, two sizes of frame (one overlapping, one skipping),
\* so that the ring wraps, fills up and is asked for less latency.
CONSTANTS
  Size = 5
  Shapes <- MCShapes
  MaxFrame = 3
  MaxSamples = 7
  MaxStops = 1
SPECIFICATION Spec
INVARIANTS
  TypeOK
  ReadsWhatWasWritten
PROPERTIES
  LatencyBounded
  NobodySleepsOnWork
\* A worker that has missed the notification of a stop leaves everybody waiting.
CHECK_DEADLOCK FALSE
