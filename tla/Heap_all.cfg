SPECIFICATION Spec
CONSTANTS
  Elms = {e1, e2, e3, e4, e5, e6}
  Keys = {1, 2, 3}
  InitLen = 1
  MaxLen = 7
  MayFail = TRUE
  NoElm = NoElm
SYMMETRY Symmetry
VIEW View
INVARIANTS
  HeapVerified
  IndexExact
PROPERTIES
  IsPriorityQueue
