CONSTANTS
  Coros = {c1,c2}
  Main = Main
  Tcps = {h1}
  Pipes = {}
  Udps = {}
  Ttys = {}
  Handles <- MCHandles
  Type <- MCType
  Reqs = {r1}
  Nil = Nil
  Silent = {}
  Inputs = 1
  MaxInput <- MCMaxInput
  Discipline = "any"
SPECIFICATION Spec
PROPERTIES ForeignCloseFindsOwnerAwake
CHECK_DEADLOCK FALSE
