CONSTANTS
  Coros = {c1}
  Main = Main
  Reqs = {r1}
  Nil = Nil
  Ops <- AllOps
  Strays = FALSE
SPECIFICATION Spec
INVARIANTS TypeOK ReturnsOutcome
CHECK_DEADLOCK FALSE
