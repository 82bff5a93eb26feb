CONSTANTS
  Coros = {c1,c2}
  Main = Main
  Timers = {h1}
  Processes = {h2}
  Tcps = {h3}
  Handles <- MCHandles
  Type <- MCType
  Nil = Nil
  Keeps = "threads"
SPECIFICATION Spec
SYMMETRY Symmetry
INVARIANTS TypeOK CallbackReady TargetsAlive Released
CHECK_DEADLOCK FALSE
