SPECIFICATION ASpec
CONSTANTS
  Adders = {a1, a2, a3}
  NoThread = none
  LOOPS_PER_THREAD = 3
  TCSNum = 2
INVARIANTS
  ATypeOK NoLostUpdate OneWriter CounterComplete
PROPERTIES
  ATermination
