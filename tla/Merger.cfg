\* The radio's stream and a player's, three samples and one, in batches of two.
CONSTANTS
  radio = radio
  player = player
  None = None
  Streams = {radio, player}
  Default = radio
  Priority <- MCPriority
  Batch = 2
  MaxSamples <- MCMaxSamples
  MaxStarts = 1
SPECIFICATION Spec
INVARIANTS
  TypeOK
PROPERTIES
  InOrder
  NoQuickFallback
  StopReturns
\* The input ends, and a stop may wait for a worker that missed it.
CHECK_DEADLOCK FALSE
