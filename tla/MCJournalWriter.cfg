\* One handler with four events, under the fairness of the writer.
\* The system stops for good once the events are through and the run is cancelled.
CONSTANTS
  Handlers = {h1}
  NoEvent = NoEvent
  MaxEvents = 4
  QueueSize = 2
  BatchSize = 3
  DrainMax = 2
  MaxAttempts = 2
SPECIFICATION FairSpec
CHECK_DEADLOCK FALSE
INVARIANTS
  FreshestIsPushed
PROPERTIES
  QueuedGetsStored
  WriterEnds
