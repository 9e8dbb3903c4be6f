CONSTANTS
  Pairs <- MCPairs
  Probes <- MCProbes
SPECIFICATION Spec
INVARIANTS FindsCriticalBit DirectionIsBit InBounds
PROPERTY Terminates
CHECK_DEADLOCK FALSE
