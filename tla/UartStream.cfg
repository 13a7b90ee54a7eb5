SPECIFICATION Spec
CONSTANTS
  DataBits = 2
  CounterBits = 4
  PrescalerBits = 1
  Links <- NoPause
  CLKSEL = 2
  CLK_TICKS_PER_SECOND = 2
  Hello <- Message
  MaxFlight = 4
INVARIANT GetsNext
