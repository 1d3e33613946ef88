SPECIFICATION Spec
CONSTANTS
  Consumers = {c1, c2, c3}
  Producer = p0
  NoThread = none
  LOOPS_PER_THREAD = 3
  BUFFER_SIZE = 2
  TCSNum = 3
PROPERTIES
  Refinement Termination
