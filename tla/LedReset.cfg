SPECIFICATION FairSpec
CONSTANTS
  Pins <- MCPins
  CounterBits = 4
  PrescalerBits = 2
  CLKSEL = 3
  CLK_TICKS_PER_100MS = 3
  MaxIdle = 2
  MaxResets = 1
PROPERTIES PacedAlways WalksAlways
