CONSTANTS
  Coros = {c1,c2}
  Main = Main
  Tcps = {h1}
  Pipes = {}
  Udps = {h2}
  Ttys = {}
  Handles <- MCHandles
  Type <- MCType
  Reqs = {r1}
  Nil = Nil
  Silent = {h2}
  Inputs = 2
  MaxInput <- MCMaxInput
  Discipline = "any"
SPECIFICATION Spec
SYMMETRY Symmetry
INVARIANTS TypeOK ReadFifo NoLostWakeup RegistryReleased AnchoredUnlessOpened
CHECK_DEADLOCK FALSE
