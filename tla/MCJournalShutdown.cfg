\* One handler with room for all its events, so that only the cancellation can lose one.
CONSTANTS
  Handlers = {h1}
  NoEvent = NoEvent
  MaxEvents = 3
  QueueSize = 4
  BatchSize = 8
  DrainMax = 4
  MaxAttempts = 3
SPECIFICATION Spec
CHECK_DEADLOCK FALSE
INVARIANT DrainedIsStored
