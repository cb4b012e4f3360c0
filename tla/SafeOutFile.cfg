SPECIFICATION Spec
CONSTANTS
  w1 = w1
  w2 = w2
  w3 = w3
  w4 = w4
  p1 = p1
  p2 = p2
  result = result
  report = report
  Nobody = Nobody
  Writers = {w1, w2, w3, w4}
  Processes = {p1, p2}
  Paths = {result, report}
  Process <- MCProcess
  Target <- MCTarget
  Overwrite <- MCOverwrite
  Size = 2
INVARIANTS NoStrayTemporaries
PROPERTIES ImplementsAtomicFile
CHECK_DEADLOCK FALSE
