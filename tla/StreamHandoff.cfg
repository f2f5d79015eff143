\* Two payloads tell a frame from the one before it.
CONSTANTS
  Frames = {f1, f2}
  NoFrame = NoFrame
SPECIFICATION Spec
INVARIANTS
  TypeOK
  BufferExclusion
  FlagsExclude
  NoReaderInside
PROPERTIES
  StopReturns
  FramesFlow
  ImplementsChannel
