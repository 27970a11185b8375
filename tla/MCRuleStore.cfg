\* Every interface in turn, two calls at once, a device 0 and a device 1.
\* Nobody has to do anything: the system may rest.
CONSTANTS
  Objects = {0, 1}
  Groups = {1}
  Zones = {1}
  Codes <- MCCodes
  Everyone = Everyone
  Editors = {"terminal", "fyne", "windows"}
  Seeds <- MCSeeds
  Calls = {p, q}
  MaxEdits = 1
  MaxCalls = 2
  MaxFaults = 1
SPECIFICATION Spec
SYMMETRY Symm
CHECK_DEADLOCK FALSE
INVARIANTS
  TypeOK
  RunningRuleIsStored
  LossBlocksMore
PROPERTIES
  UneditedSaveChangesNothing
  WindowsEditsWhatIsTicked
