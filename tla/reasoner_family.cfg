SPECIFICATION Spec
CONSTANTS
  Atom <- MCAtom
  Label <- MCLabel
  Window <- MCWindow
  NoWindow <- MCNoWindow
  NoLabel <- MCNoLabel
  LitBefore <- MCLitBefore
  LabelBefore <- MCLabelBefore
  Theories <- MCTheory
  Pools <- FamilyPools
  MaxPairs = 2
INVARIANTS
  TypeOK
  Consistent
  CountsSlots
  FlagsSound
  FlagsComplete
  Saturated
PROPERTIES
  ApplicableForever
  Terminates
CHECK_DEADLOCK FALSE
