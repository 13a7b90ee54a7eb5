SPECIFICATION FairSpec
CONSTANTS
  DataBits = 2
  CounterBits = 4
  PrescalerBits = 1
  Links <- MCLinks
  CLKSEL = 2
  CLK_TICKS_PER_SECOND = 2
  Hello <- Message
  MaxFlight = 2
INVARIANTS GetsNext PutcAccepted NoFalseParityError NoSpuriousIrq
PROPERTY KeepsTalking
