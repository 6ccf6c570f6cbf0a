SPECIFICATION Spec
CONSTANTS
  Chans = {a, b, c}
  Locks = {m, n}
  MaxCount = 2
  MaxTaken = 2
  MaxMasqs = 2
  CountMod = 3
  Nobody = Nobody
  NoLock = NoLock
CHECK_DEADLOCK FALSE
SYMMETRY Symmetry
INVARIANTS Exclusive Available
