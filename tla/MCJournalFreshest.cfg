\* Two handlers meet at a full queue of one place.
CONSTANTS
  Handlers = {h1, h2}
  NoEvent = NoEvent
  MaxEvents = 2
  QueueSize = 1
  BatchSize = 2
  DrainMax = 1
  MaxAttempts = 1
SPECIFICATION Spec
CHECK_DEADLOCK FALSE
INVARIANT FreshestIsPushed
