\* Two overlapping SaveConfig calls.
CONSTANTS
  Savers = {s1, s2}
  Ui = Ui
  NoOne = NoOne
  FirstConfig = FirstConfig
SPECIFICATION FairSpec
CHECK_DEADLOCK FALSE
PROPERTY SaveFinishes
