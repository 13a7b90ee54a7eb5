------------------------------ MODULE Dispatch ------------------------------
(***************************************************************************)
(* Two interrupt sources, one trap vector: a program whose handler tells   *)
(* the timer from a push button by the mcause it is given, the use         *)
(* tinymcu_csr.h and tinymcu_trap.h describe.  Main serves the button      *)
(* itself while its line is masked, and reads the trap CSRs outside the    *)
(* handler.  Or a program that defines no handler at all.                  *)
(***************************************************************************)
EXTENDS Hart, PeriphTimer, PeriphGpio

CONSTANTS
  Programs,   \* records: does the program leave tinymcu_trap_handler undefined
              \* (weak), and the mie bits its main enables (sources)
  CLKSEL, Period,
  MaxPresses, \* bound: level changes of the button
  MaxIdle     \* bound: clocks between two accesses of the program

ASSUME DispatchAssumption ==
  /\ Programs \subseteq [weak : BOOLEAN, sources : SUBSET {3, 7, 11}] /\ Pins = {0}
  /\ CLKSEL \in 1..7 /\ Period \in 0..(2^CounterBits - 1)

VARIABLES
  program, hart, timer, gpio,
  level, presses,  \* of the button
  mcause, mepc,    \* a place of main is the number of its statements left
  cause, epc       \* what main has read of them
vars == <<program, hart, timer, gpio, level, presses, mcause, mepc, cause, epc>>

button == 0
timer_cause  == TINYMCU_MCAUSE_INTERRUPT \cup ToField(TINYMCU_MCAUSE.MTI, 0, 5)
button_cause == TINYMCU_MCAUSE_INTERRUPT \cup ToField(TINYMCU_MCAUSE.MEI, 0, 5)

Weak    == program.weak
Sources == program.sources

setup ==
  tinymcu_gpio_set_input(button) \o tinymcu_gpio_irq_enable(button)
  \o tinymcu_gpio_irq_global_enable
  \o tinymcu_timer_set_compare(Period) \o tinymcu_timer_irq_enable
  \o tinymcu_timer_set_clksel(CLKSEL)
  \o tinymcu_csr_set_mie(Sources) \o tinymcu_trap_init

log == tinymcu_disable_global_interrupts
       \o tinymcu_csr_read_mcause \o <<Local("cause")>>
       \o tinymcu_csr_read_mepc \o <<Local("epc"), Local("logged")>>
       \o tinymcu_enable_global_interrupts

poll == tinymcu_csr_clear_mie(TINYMCU_MIE.MEIE)
        \o tinymcu_gpio_irq_pending(button) \o <<Local("test")>>
poll_end == tinymcu_csr_set_mie(TINYMCU_MIE.MEIE)
poll_hit == tinymcu_gpio_irq_clear(button) \o poll_end

tinymcu_trap_handler(cause_arg, epc_arg) ==
  IF Weak THEN weak_trap_handler(cause_arg, epc_arg)
  ELSE IF cause_arg = button_cause THEN tinymcu_gpio_irq_clear_all
  ELSE IF cause_arg = timer_cause THEN tinymcu_timer_irq_clear
  ELSE <<>>

-----------------------------------------------------------------------------
mip == (IF TimerIrq(timer) THEN TINYMCU_MIE.MTIE ELSE {})
       \cup (IF GpioIrq(gpio) THEN TINYMCU_MIE.MEIE ELSE {})

\* Mutant: the priority ignores which of the pending lines is enabled.
Mut_Cause(pending) == IF TINYMCU_MIE.MEIE \subseteq mip THEN button_cause ELSE timer_cause

\* The CSR file's choice among the lines that are pending and enabled.
Cause(pending) ==
  TINYMCU_MCAUSE_INTERRUPT \cup
    (IF TINYMCU_MIE.MEIE \subseteq pending THEN ToField(TINYMCU_MCAUSE.MEI, 0, 5)
     ELSE IF TINYMCU_MIE.MSIE \subseteq pending THEN ToField(TINYMCU_MCAUSE.MSI, 0, 5)
     ELSE ToField(TINYMCU_MCAUSE.MTI, 0, 5))

Devices(req) ==
  /\ timer' = TimerClock(timer, req) /\ gpio' = GpioClock(gpio, req, level)
  /\ \/ level' = level /\ presses' = presses
     \/ presses < MaxPresses /\ presses' = presses + 1 /\ level' = {button} \ level

Word(req) ==
  CASE req.dev = "timer" -> TimerRead(timer, req.reg)
    [] req.dev = "gpio"  -> GpioRead(gpio, req.reg, level)
    [] At(Running(hart), CsrGet("mcause")) -> mcause
    [] At(Running(hart), CsrGet("mepc"))   -> mepc
    [] OTHER -> {}

Init == /\ program \in Programs /\ hart = HartReset(setup) /\ timer = TimerPowerOn /\ gpio = GpioPowerOn
        /\ level \in SUBSET {button} /\ presses = 0
        /\ mcause = {} /\ mepc = {} /\ cause = {} /\ epc = {}

Idle == Idles(hart, hart', MaxIdle) /\ Devices(NoReq)
        /\ UNCHANGED <<program, mcause, mepc, cause, epc>>

\* Main never stops: it logs the last trap or serves the button.
Continued(h) ==
  IF h.trapped \/ ~Done(h.main) THEN {h}
  ELSE {[h EXCEPT !.main = Call(h.main, code)] : code \in
          IF At(hart.main, Local("test"))
          THEN {IF h.main.ret # {} THEN poll_hit ELSE poll_end}
          ELSE IF Weak THEN {log} ELSE {log, poll}}

Execute ==
  LET req == HartReq(hart, mip) IN
  /\ CanExecute(hart, mip) /\ hart' \in Continued(Executed(hart, Word(req)))
  /\ Devices(req)
  /\ cause' = IF At(Running(hart), Local("cause")) THEN hart.main.ret ELSE cause
  /\ epc' = IF At(Running(hart), Local("epc")) THEN hart.main.ret ELSE epc
  /\ UNCHANGED <<program, mcause, mepc>>

\* The CSR file takes cause and place, whatever becomes of the trap; the
\* place of a torn one is anywhere.  The stub hands both on.
Place == ToField(Len(hart.main.code), 0, 5)
Trap == /\ mcause' = Cause(mip \cap hart.mie) /\ mepc' \in {Place, {}}
        /\ Traps(hart, hart', mip, tinymcu_trap_handler(mcause', mepc'))
        /\ mepc' = IF hart'.torn THEN {} ELSE Place
        /\ Devices(NoReq) /\ UNCHANGED <<program, cause, epc>>

Mret == Mrets(hart, hart') /\ Devices(NoReq) /\ UNCHANGED <<program, mcause, mepc, cause, epc>>

Next == Idle \/ Execute \/ Trap \/ Mret
Spec == Init /\ [][Next]_vars
\* The oscillator runs.
FairSpec == Spec /\ WF_vars(Next)

-----------------------------------------------------------------------------
\* No event is served twice or in the name of the other source: who clears a
\* flag, handler or main, finds it up, although both serve the button and the
\* lines rise and are masked at any moment, and traps get lost.
ServedOnce ==
  [][LET req == HartReq(hart, mip) IN
     hart' # hart /\ ~hart.torn =>
       /\ Writes(req, "gpio", "INT_STATUS")  => button \in gpio.INT_STATUS
       /\ Writes(req, "timer", "INT_STATUS") => TimerIrq(timer)]_vars

\* What main logs outside the handler are cause and place of one and the
\* same trap, the last one (tinymcu_csr_read_mcause, tinymcu_csr_read_mepc),
\* whether the handler was entered or not.
LoggedPair ==
  ~hart.torn /\ At(hart.main, Local("logged")) => cause = mcause /\ epc = mepc

\* Every event of an enabled source is served in the end, the timer's
\* although the button has priority and is served by two, if no trap is torn
\* and not every one lost: a lost trap leaves the flag up, and main enables
\* interrupts again behind its log.  A program that enables no source goes on
\* whatever the peripherals raise.
Served ==
  /\ ~Weak /\ <>[]~hart.torn /\ []<>~hart.lost =>
       (GpioIrq(gpio) ~> ~GpioIrq(gpio)) /\ (TimerIrq(timer) ~> ~TimerIrq(timer))
  /\ Sources = {} => []<>At(hart.main, Local("logged"))

\* Without a handler of its own (the default tinymcu_trap_handler) a program
\* that enables a source stands still once a trap has entered the handler,
\* until one is lost: nobody clears the flag, so that outside the handler the
\* next trap is due at every clock, wherever MRET has led.
WeakHandler ==
  Weak /\ Sources # {} /\ mcause # {} /\ ~hart.lost
    => hart.trapped \/ Interrupted(hart, mip)
=============================================================================
