SPECIFICATION Spec
CONSTANTS
  Atom <- MCAtom
  Label <- MCLabel
  Window <- MCWindow
  NoWindow <- MCNoWindow
  NoLabel <- MCNoLabel
  LitBefore <- MCLitBefore
  LabelBefore <- MCLabelBefore
  Theories <- MCTheory
  Pools <- PermissionPools
  MaxPairs = 3
INVARIANTS
  OpposedNeverBoth
CHECK_DEADLOCK FALSE
