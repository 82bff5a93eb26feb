CONSTANTS
  Coros = {c1,c2}
  Main = Main
  Tcps = {}
  Pipes = {}
  Udps = {h1}
  Ttys = {h2}
  Handles <- MCHandles
  Type <- MCType
  Reqs = {r1}
  Nil = Nil
  Silent = {}
  Inputs = 1
  MaxInput <- MCMaxInput
  Discipline = "own"
SPECIFICATION FairSpec
INVARIANTS NoOrphanAwait CallbackTargetsAnchored
PROPERTIES AwaitReturns KeepsLoosePromise
CHECK_DEADLOCK FALSE
