SPECIFICATION Spec
CONSTANTS
  Atom <- MCAtom
  Label <- MCLabel
  Window <- MCWindow
  NoWindow <- MCNoWindow
  Theories <- MCTheory
  Pools <- ReferencePools
  MaxPairs = 2
INVARIANTS
  CoherentTags
  OneWay
  ConsistentTags
PROPERTIES
  Persistent
CHECK_DEADLOCK FALSE
