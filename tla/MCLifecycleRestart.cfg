\* Two overlapping SaveConfig calls and the exit of the user interface.
\* The system stops for good once all have returned.
CONSTANTS
  Savers = {s1, s2}
  Ui = Ui
  NoOne = NoOne
  FirstConfig = FirstConfig
SPECIFICATION FairSpec
CHECK_DEADLOCK FALSE
INVARIANTS
  TypeOK
  OneGeneration
  RepoWhileWorking
  SavedMeansRunning
PROPERTIES
  UiExits
