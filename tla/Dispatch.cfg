SPECIFICATION FairSpec
CONSTANTS
  Pins <- MCPins
  CounterBits = 2
  PrescalerBits = 1
  Programs <- MCPrograms
  CLKSEL = 2
  Period = 3
  MaxPresses = 2
  MaxIdle = 1
INVARIANTS LoggedPair WeakHandler
PROPERTIES ServedOnce Served
