\* Two overlapping SaveConfig calls; their symmetry is sound for an invariant.
CONSTANTS
  Savers = {s1, s2}
  Ui = Ui
  NoOne = NoOne
  FirstConfig = FirstConfig
SPECIFICATION Spec
CHECK_DEADLOCK FALSE
INVARIANT RunningIsStored
SYMMETRY SaverSymmetry
