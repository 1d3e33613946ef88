SPECIFICATION Spec
CONSTANTS
  Consumers = {c1, c2, c3, c4}
  Producer = p0
  NoThread = none
  LOOPS_PER_THREAD = 2
  BUFFER_SIZE = 2
  TCSNum = 5
SYMMETRY Symmetry
INVARIANTS
  TypeOK MutexInv IndexInv SlotInv Conservation NoLostWakeup NoDeadlock
