CONSTANTS
  Mems = {m1,m2}
  Bufs = {b1,b2,b3}
  Nodes = {n1}
  Ops = {o1}
  Nil = Nil
  IntHalf = 9
  Sizes = {8,10,19}
  MaxTotal = 3
  Args <- MCArgs
  Suggested = 2
  Byte = 4
  CharSigned = TRUE
SPECIFICATION MCSpec
SYMMETRY Symmetry
INVARIANTS TypeOK RefCountsExact NothingDangles AccessInside IntegersRoundTrip WireOrder
PROPERTIES ImplementsSharedMemory
CHECK_DEADLOCK FALSE
