\* Two panels with an event each: their handlers meet in a queue of one place
\* while the rule changes once and the run is cancelled.
\* The system stops for good after a cancellation.
CONSTANTS
  Conns = {c1, c2}
  Classes = {alarm}
  NoJob = NoJob
  ControlSent = {}
  MaxFrames = 1
  QueueSize = 1
  MaxRuleChanges = 1
SPECIFICATION Spec
SYMMETRY ConnSymmetry
CHECK_DEADLOCK FALSE
INVARIANTS
  TypeOK
  AckMeansHandled
  BlockedNeverSent
  AcceptedCountHonest
  NoReaderLeft
PROPERTIES
  ImplementsContract
