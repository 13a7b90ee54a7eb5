------------------------------ MODULE LedBlink ------------------------------
(***************************************************************************)
(* sw/led_blink on the microcontroller: main and the timer's interrupt     *)
(* handler, the timer and the GPIO port, clock by clock, with resets of    *)
(* the running board.                                                      *)
(***************************************************************************)
EXTENDS Hart, PeriphTimer, PeriphGpio

CONSTANTS
  CLKSEL,              \* prescaler setting, TINYMCU_TIMER_CLKSEL_DIV256 in the code
  CLK_TICKS_PER_100MS, \* ticks per LED step, 6250 in the code
  MaxIdle,             \* bound: clocks between two accesses of the program
  MaxResets            \* bound: resets of the running board

VARIABLES hart, timer, gpio, pos, resets
vars == <<hart, timer, gpio, pos, resets>>

LED_BASE_PIN == 0
LED_COUNT    == 4
LedPins      == LED_BASE_PIN..(LED_BASE_PIN + LED_COUNT - 1)
NextPos(p)   == (p + 1) % LED_COUNT

ASSUME LedAssumption == LedPins \subseteq Pins

\* Mutants: the flag is not cleared; the position advances too early.
Mut_NoClear(p) ==
  tinymcu_timer_reset
  \o tinymcu_gpio_clear(LED_BASE_PIN + p) \o <<Local("advance")>>
  \o tinymcu_gpio_set(LED_BASE_PIN + NextPos(p))
Mut_EarlyAdvance(p) ==
  tinymcu_timer_irq_clear \o tinymcu_timer_reset \o <<Local("advance")>>
  \o tinymcu_gpio_set(LED_BASE_PIN + NextPos(p)) \o tinymcu_gpio_clear(LED_BASE_PIN + p)

tinymcu_trap_handler(p) ==
  tinymcu_timer_irq_clear \o tinymcu_timer_reset
  \o tinymcu_gpio_clear(LED_BASE_PIN + p) \o <<Local("advance")>>
  \o tinymcu_gpio_set(LED_BASE_PIN + NextPos(p))

prepare_pin(pin) == tinymcu_gpio_set_output(pin) \o tinymcu_gpio_clear(pin)

\* Mutant: the timer and its interrupt are on before the pins are set up.
Mut_EarlyEnable ==
  tinymcu_timer_reset \o tinymcu_timer_set_compare(CLK_TICKS_PER_100MS)
  \o tinymcu_timer_irq_enable \o tinymcu_timer_set_clksel(CLKSEL)
  \o tinymcu_csr_set_mie(TINYMCU_MIE.MTIE) \o tinymcu_trap_init
  \o prepare_pin(0) \o prepare_pin(1) \o prepare_pin(2) \o prepare_pin(3)
  \o tinymcu_gpio_set(LED_BASE_PIN) \o <<Spin>>

main ==
  prepare_pin(0) \o prepare_pin(1) \o prepare_pin(2) \o prepare_pin(3)
  \o tinymcu_gpio_set(LED_BASE_PIN)
  \o tinymcu_timer_reset \o tinymcu_timer_set_compare(CLK_TICKS_PER_100MS)
  \o tinymcu_timer_irq_enable \o tinymcu_timer_set_clksel(CLKSEL)
  \o tinymcu_csr_set_mie(TINYMCU_MIE.MTIE) \o tinymcu_trap_init
  \o <<Spin>>

-----------------------------------------------------------------------------
mip == IF TimerIrq(timer) THEN TINYMCU_MIE.MTIE ELSE {}

\* An LED and its resistor hold a pin low that nobody drives.
Board == [p \in Pins |-> "0"]

Devices(req) ==
  /\ timer' = TimerClock(timer, req)
  /\ \E raw \in PadLevels(gpio, Board) : gpio' = GpioClock(gpio, req, raw)

Word(req) == IF req.dev = "timer" THEN TimerRead(timer, req.reg)
             ELSE IF req.dev = "gpio" THEN GpioRead(gpio, req.reg, High(gpio, Board))
             ELSE {}

Init == /\ hart = HartReset(main) /\ pos = 0 /\ resets = 0
        /\ timer = TimerPowerOn /\ gpio = GpioPowerOn

Idle == /\ Idles(hart, hart', MaxIdle) /\ Devices(NoReq)
        /\ UNCHANGED <<pos, resets>>

Execute ==
  LET req == HartReq(hart, mip) IN
  /\ CanExecute(hart, mip) /\ hart' = Executed(hart, Word(req))
  /\ Devices(req)
  /\ pos' = IF At(Running(hart), Local("advance")) THEN NextPos(pos) ELSE pos
  /\ UNCHANGED resets

Trap == /\ Traps(hart, hart', mip, tinymcu_trap_handler(pos)) /\ Devices(NoReq)
        /\ UNCHANGED <<pos, resets>>

Mret == Mrets(hart, hart') /\ Devices(NoReq) /\ UNCHANGED <<pos, resets>>

\* rst_i: main starts again with pos in its initial state.
Reset == /\ resets < MaxResets /\ resets' = resets + 1
         /\ hart' = HartReset(main) /\ pos' = 0
         /\ timer' = TimerReset(timer) /\ gpio' = GpioReset(gpio)

Clock == Idle \/ Execute \/ Trap \/ Mret
Next == Clock \/ Reset
Spec == Init /\ [][Next]_vars
\* The oscillator runs.
FairSpec == Spec /\ WF_vars(Clock)

-----------------------------------------------------------------------------
Lit == gpio.OUT \cap gpio.DDR

\* No interrupt is taken before its handler is installed: what
\* tinymcu_trap_init's order and main's order of calls are for.
VectorInstalled == Interrupted(hart, mip) /\ ~hart.torn => hart.mtvec = "trap_entry"

\* Handler and main are never both inside a read-modify-write of OUT, so
\* that neither can undo the other's update.
ExclusiveUpdate ==
  ~(/\ hart.trapped /\ ~hart.torn
    /\ hart.main.acc # <<>> /\ Head(hart.main.code).reg = "OUT")

\* From power-on until the board is reset the LED moves only when the timer
\* has counted a full period since the last move.
OnTime == timer.counter >= CLK_TICKS_PER_100MS
Paced == [][resets = 0 /\ ~hart.torn /\ hart'.trapped /\ ~hart.trapped => OnTime]_vars

\* led_blink/main.c:4: "one step every 100 ms".  The first step after a
\* reset comes at once: INT_CONFIG outlives it, counter and compare do not.
PacedAlways == [][~hart.torn /\ hart'.trapped /\ ~hart.trapped => OnTime]_vars

\* The demo shows the chase, resets included: clear, advance, set.  Behind a
\* torn trap it is no longer known what runs.
advancing == \E i \in DOMAIN hart.isr.code : hart.isr.code[i] = Local("advance")
C == INSTANCE Chase WITH Leds <- LED_COUNT, lit <- Lit,
       at <- IF hart.trapped /\ Lit = {} /\ advancing THEN NextPos(pos) ELSE pos
ShowsChase == C!Init /\ [][C!Next \/ hart.torn \/ hart'.torn]_(C!chase)

\* The chase never stops: handler, timer and prescaler keep each other
\* going although the handler restarts the counter it is paced by.  It stops
\* for a trap that is lost, main does not enable interrupts again.
KeepsWalking ==
  <>[]~hart.torn /\ []<>~hart.lost => \A p \in LedPins : []<>(Lit = {p})

\* led_blink/main.c:4: "Walks a single lit LED across 4 GPIO pins".  Not
\* behind a trap that was lost.
WalksAlways == <>[]~hart.torn => \A p \in LedPins : []<>(Lit = {p})
=============================================================================
