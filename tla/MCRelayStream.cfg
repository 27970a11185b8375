\* One panel with two frames of every kind and a queue of two places, under the
\* fairness of the scheduler and the timers: refused events stay queued.
\* The system stops for good after a cancellation.
CONSTANTS
  Conns = {c1}
  Classes = {alarm}
  NoJob = NoJob
  ControlSent = {"heartbeat", "invalid", "overlong"}
  MaxFrames = 2
  QueueSize = 2
  MaxRuleChanges = 0
SPECIFICATION FairSpec
CHECK_DEADLOCK FALSE
INVARIANTS
  VerdictIsOwn
  RelayNeverBlocks
  ForwardedOnceInOrder
PROPERTIES
  EveryFrameAnswered
  QueueDrains
  ShutdownCompletes
