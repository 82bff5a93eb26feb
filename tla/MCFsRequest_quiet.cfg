CONSTANTS
  Coros = {c1,c2}
  Main = Main
  Reqs = {r1,r2}
  Nil = Nil
  Ops = {"read", "close"}
  Strays = FALSE
SPECIFICATION FairSpec
INVARIANTS BufferHeld
PROPERTIES OwnAnswer KeepsPromise KeepsPromiseFairly
CHECK_DEADLOCK FALSE
