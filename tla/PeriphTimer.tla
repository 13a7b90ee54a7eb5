---------------------------- MODULE PeriphTimer -----------------------------
(***************************************************************************)
(* tinymcu_periph_timer: prescaler, counter, compare flag.                 *)
(***************************************************************************)
EXTENDS Mmio

CONSTANTS CounterBits,   \* width of COUNTER, 32 in the code
          PrescalerBits  \* width of the free-running counter, 10 in the code

ASSUME TimerAssumption == CounterBits \in Nat \ {0} /\ PrescalerBits \in Nat \ {0}

TimerPowerOn == [config |-> 0, counter |-> 0, compare |-> 0, intConfig |-> {},
                 intStatus |-> {}, freeRun |-> 0, tap |-> FALSE,
                 tick |-> FALSE, match |-> FALSE]

\* rst_i: INT_CONFIG keeps its value.
TimerReset(t) == [TimerPowerOn EXCEPT !.intConfig = t.intConfig]

\* The bit of the free-running counter that CLKSEL 2..7 taps.
TapBit == <<0, 1, 2, 5, 7, 9>>
Bit(n, i) == (n \div 2^i) % 2 = 1

\* Clock prescaler: a tick every clock (1), on each rise of the tapped bit
\* (2..7), or none.
Prescaled(t) ==
  LET count  == (t.freeRun + 1) % 2^PrescalerBits
      clksel == t.config % 16
      bit    == Bit(count, TapBit[clksel - 1])
  IN [t EXCEPT !.freeRun = count,
        !.tap  = clksel \in 2..7 /\ bit,
        !.tick = clksel = 1 \/ (clksel \in 2..7 /\ bit /\ ~t.tap)]

Counted(t, req) ==
  IF Writes(req, "timer", "COUNTER") THEN req.data
  ELSE IF t.tick THEN (t.counter + 1) % 2^CounterBits ELSE t.counter

\* A write of INT_STATUS wins over a match in the same clock.
Flagged(t, req) ==
  IF Writes(req, "timer", "INT_STATUS") THEN req.data
  ELSE IF t.counter = t.compare /\ ~t.match /\ 0 \in t.intConfig
       THEN t.intStatus \cup {0}
  ELSE t.intStatus

\* One rising clock edge.
TimerClock(t, req) ==
  [Prescaled(t) EXCEPT
     !.config    = IF Writes(req, "timer", "CONFIG") THEN req.data ELSE @,
     !.compare   = IF Writes(req, "timer", "COMPARE") THEN req.data ELSE @,
     !.intConfig = IF Writes(req, "timer", "INT_CONFIG") THEN req.data ELSE @,
     !.counter   = Counted(t, req),
     !.intStatus = Flagged(t, req),
     !.match     = t.counter = t.compare]

TimerRead(t, reg) == CASE reg = "CONFIG" -> t.config
                       [] reg = "COUNTER" -> t.counter
                       [] reg = "COMPARE" -> t.compare
                       [] reg = "INT_CONFIG" -> t.intConfig
                       [] reg = "INT_STATUS" -> t.intStatus
                       [] OTHER -> {}

TimerIrq(t) == 0 \in t.intStatus
=============================================================================
