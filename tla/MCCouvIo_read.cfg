CONSTANTS
  Coros = {c1}
  Main = Main
  Tcps = {h1}
  Pipes = {}
  Udps = {}
  Ttys = {}
  Handles <- MCHandles
  Type <- MCType
  Reqs = {r1}
  Nil = Nil
  Silent = {}
  Inputs = 2
  MaxInput <- MCMaxInput
  Discipline = "own"
SPECIFICATION Spec
PROPERTIES ReadReturnsInput
CHECK_DEADLOCK FALSE
