CONSTANTS
  Coros = {c1,c2}
  Main = Main
  Reqs = {r1,r2}
  Nil = Nil
  Ops = {"open", "exists"}
  Strays = TRUE
SPECIFICATION FairSpec
INVARIANTS SlotsMatchRequests NoOrphanAwait
PROPERTIES RequestsFreed KeepsLoosePromise
CHECK_DEADLOCK FALSE
