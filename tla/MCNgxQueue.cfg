CONSTANTS
  Root = Root
  Nodes = {n1, n2, n3, n4, n5}
  Nil = Nil
SPECIFICATION Spec
INVARIANTS Linked EmptyIsAccurate
PROPERTIES ImplementsFifo
CHECK_DEADLOCK FALSE
