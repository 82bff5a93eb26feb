CONSTANTS
  Coros = {c1,c2}
  Main = Main
  Tcps = {}
  Pipes = {h1}
  Udps = {}
  Ttys = {}
  Handles <- MCHandles
  Type <- MCType
  Reqs = {r1,r2}
  Nil = Nil
  Silent = {}
  Inputs = 2
  MaxInput <- MCMaxInput
  Discipline = "quiet"
SPECIFICATION FairSpec
INVARIANTS BufsStayReferenced
PROPERTIES OwnAnswer KeepsPromise KeepsPromiseFairly
CHECK_DEADLOCK FALSE
