SPECIFICATION Spec
CONSTANTS
  n1 = n1
  n2 = n2
  n3 = n3
  NoNode = NoNode
  Node = {n1, n2}
  Stoppable = {n1, n2}
SYMMETRY NodeSymmetry
CHECK_DEADLOCK FALSE
INVARIANTS OneMaintainer
