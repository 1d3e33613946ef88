SPECIFICATION BSpec
CONSTANTS
  AnyValue = AnyValue
  Junk = Junk
INVARIANTS
  AssertsHold PrivateGate PrintedOwn
PROPERTIES
  BTermination
