CONSTANTS
  Coros = {c1}
  Main = Main
  Timers = {}
  Processes = {h1}
  Tcps = {}
  Handles <- MCHandles
  Type <- MCType
  Nil = Nil
  Keeps = "nothing"
SPECIFICATION Spec
INVARIANTS ExitFindsItsThread
CHECK_DEADLOCK FALSE
