SPECIFICATION Spec
CONSTANTS
  Atom <- MCAtom
  Label <- MCLabel
  Window <- MCWindow
  NoWindow <- MCNoWindow
  NoLabel <- MCNoLabel
  LitBefore <- MCLitBefore
  LabelBefore <- MCLabelBefore
  Theories <- MCTheory
  Pools <- ConflictPools
  MaxPairs = 2
INVARIANTS
  Coherent
  Saturated
  Reported
  Consistent
  Exclusive
PROPERTIES
  Implements
CHECK_DEADLOCK FALSE
