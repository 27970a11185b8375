\* Two handlers with two events each share a queue of two places; batches of two;
\* every save may fail once more than it is retried.
\* The system stops for good once the events are through and the run is cancelled.
CONSTANTS
  Handlers = {h1, h2}
  NoEvent = NoEvent
  MaxEvents = 2
  QueueSize = 2
  BatchSize = 2
  DrainMax = 2
  MaxAttempts = 2
SPECIFICATION Spec
SYMMETRY HandlerSymmetry
CHECK_DEADLOCK FALSE
INVARIANTS
  TypeOK
  StoredOnceInOrder
  LossNeedsCause
  ShownIsKept
  StoredIsShown
PROPERTIES
  ImplementsLog
