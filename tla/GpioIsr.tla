------------------------------ MODULE GpioIsr -------------------------------
(***************************************************************************)
(* A program that watches two inputs through the GPIO interrupt (or one by *)
(* polling its flag) and drives two outputs, one from main and one from    *)
(* the handler: the use the driver headers describe for                    *)
(* tinymcu_gpio_irq_*, the pulls and the debounce filter.  Pin 0 is a push *)
(* button, pin 1 a signal; both change at any clock.                       *)
(***************************************************************************)
EXTENDS Hart, PeriphGpio

CONSTANTS
  Programs,  \* poll: does main poll pin 0 instead of taking interrupts;
             \* debounce: the threshold it sets; clearAll: does the handler
             \* clear all flags at once
  MaxIdle    \* bound: clocks between two accesses

ASSUME GpioIsrAssumption ==
  /\ Programs \subseteq [poll : BOOLEAN, debounce : Nat, clearAll : BOOLEAN]
  /\ Pins = 0..3

VARIABLES hart, gpio,
  program, \* the one of Programs that runs
  ext,    \* what the board drives
  raw,    \* the level of the pads
  seen,   \* the program's copy of the inputs
  mine,   \* outputs that are high as their owners have driven them
  held    \* for each input, clocks for which its level has not changed,
          \* counted up to the threshold
vars == <<hart, gpio, program, ext, raw, seen, mine, held>>

Poll     == program.poll
Debounce == program.debounce
ClearAll == program.clearAll

Inputs  == {0, 1}
MainPin == 2
IsrPin  == 3

Watched == IF Poll THEN {0} ELSE Inputs

\* The button closes to the supply when it is polled, else to ground.
setup ==
  tinymcu_gpio_set_input(0)
  \o (IF Poll THEN tinymcu_gpio_pull_down(0) ELSE tinymcu_gpio_pull_up(0))
  \o tinymcu_gpio_set_input(1) \o tinymcu_gpio_pull_disable(1)
  \o tinymcu_gpio_set_output(MainPin) \o tinymcu_gpio_set_output(IsrPin)
  \o (IF Debounce = 0 THEN tinymcu_gpio_debounce_disable
                      ELSE tinymcu_gpio_debounce_set(Debounce))
  \o tinymcu_gpio_irq_enable(0) \o tinymcu_gpio_irq_enable(1)
  \o tinymcu_gpio_irq_global_enable
  \o tinymcu_gpio_read_port \o <<Local("seen")>>
  \o (IF Poll THEN tinymcu_gpio_irq_disable(1)
              ELSE tinymcu_csr_set_mie(TINYMCU_MIE.MEIE) \o tinymcu_trap_init)

\* while (1) if (tinymcu_gpio_irq_pending(0)) { clear the flag; read the pin }
poll == tinymcu_gpio_irq_pending(0) \o <<Local("test")>>
poll_hit == tinymcu_gpio_irq_clear(0) \o tinymcu_gpio_get(0) \o <<Local("seen")>>

\* Main keeps the handler out while it updates OUT.
update == tinymcu_disable_global_interrupts \o tinymcu_gpio_toggle(MainPin)
          \o tinymcu_enable_global_interrupts

\* Mutant: the inputs are read before the flags are cleared.
Mut_ReadFirst == tinymcu_gpio_read_port \o tinymcu_gpio_irq_clear_all \o <<Local("seen")>>
handler == (IF ClearAll THEN tinymcu_gpio_irq_clear_all
                        ELSE tinymcu_gpio_irq_status
                             \o tinymcu_gpio_irq_clear(0) \o tinymcu_gpio_irq_clear(1))
           \o tinymcu_gpio_read_port \o <<Local("seen")>>

-----------------------------------------------------------------------------
mip == IF GpioIrq(gpio) THEN TINYMCU_MIE.MEIE ELSE {}

\* The signal rests in the program whose filter is on: its counters are
\* the button's over again.
BoardDrives == {e \in [Pins -> {"0", "1", "Z"}] :
                  /\ e[0] \in {IF Poll THEN "1" ELSE "0", "Z"}
                  /\ e[1] \in (IF Debounce = 0 THEN {"0", "1"} ELSE {"0"})
                  /\ e[2] = "Z" /\ e[3] = "Z"}

\* One clock of the port, after which the board may drive something else.
Port(req) ==
  /\ gpio' = GpioClock(gpio, req, raw) /\ UNCHANGED program
  /\ ext' \in BoardDrives
  /\ raw' \in PadLevels(gpio', ext')
  /\ held' = [p \in Inputs |->
       IF (p \in raw) # (p \in raw') THEN 0
       ELSE IF held[p] >= Threshold(gpio) THEN held[p] ELSE held[p] + 1]

Init == /\ program \in Programs
        /\ hart = HartReset(setup) /\ gpio = GpioPowerOn
        /\ ext \in BoardDrives /\ raw \in PadLevels(gpio, ext)
        /\ seen = {} /\ mine = {} /\ held = [p \in Inputs |-> 0]

Idle == Idles(hart, hart', MaxIdle) /\ Port(NoReq) /\ UNCHANGED <<seen, mine>>

\* Behind its copy the handler shows the button on its output; main updates
\* its own, or polls, for ever.
Continued(h) ==
  IF h.trapped
  THEN IF At(hart.isr, Local("seen"))
       THEN [h EXCEPT !.isr = Call(h.isr, tinymcu_gpio_write(IsrPin,
                                Cardinality(h.isr.ret \cap {0})))]
       ELSE h
  ELSE IF ~Done(h.main) THEN h
  ELSE [h EXCEPT !.main = Call(h.main,
          IF ~Poll THEN update
          ELSE IF At(hart.main, Local("test")) /\ h.main.ret # {} THEN poll_hit
          ELSE poll)]

Driven(req) ==
  IF ~Writes(req, "gpio", "OUT") THEN mine
  ELSE LET own == IF hart.trapped THEN IsrPin ELSE MainPin
       IN  (mine \ {own}) \cup (req.data \cap {own})

Execute ==
  LET req == HartReq(hart, mip) IN
  /\ CanExecute(hart, mip)
  /\ hart' = Continued(Executed(hart, IF req.dev = "gpio" THEN GpioRead(gpio, req.reg, raw)
                                      ELSE {}))
  /\ Port(req)
  /\ seen' = IF At(Running(hart), Local("seen")) THEN Running(hart).ret \cap Watched ELSE seen
  /\ mine' = Driven(req)

Trap == Traps(hart, hart', mip, handler) /\ Port(NoReq) /\ UNCHANGED <<seen, mine>>
Mret == Mrets(hart, hart') /\ Port(NoReq) /\ UNCHANGED <<seen, mine>>

Next == Idle \/ Execute \/ Trap \/ Mret
Spec == Init /\ [][Next]_vars
FairSpec == Spec /\ WF_vars(Next)

-----------------------------------------------------------------------------
\* Every change is noticed: once no flag is up, no edge is on its way and no
\* handler runs, the program's copy is the level of the inputs.
Settled == /\ IF Poll THEN At(hart.main, poll[1]) ELSE hart.MIE /\ ~hart.trapped
           /\ gpio.INT_STATUS \cap Watched = {}
           /\ gpio.prev \cap Watched = raw \cap Watched
SeenCurrent == Debounce = 0 /\ ~hart.torn /\ Settled => seen = raw \cap Watched

\* Each output is as its owner last drove it: neither thread's
\* read-modify-write of OUT undoes the other's.
OnlyOwnPin == ~hart.torn => (gpio.OUT \cap {MainPin, IsrPin}) = mine

\* The filter lets a new level pass only when the pad has held it for the
\* threshold (tinymcu_gpio_debounce_set).
HeldLongEnough ==
  [][\A p \in Inputs : (p \in gpio.debounced) # (p \in gpio'.debounced)
                       => held[p] >= Threshold(gpio)]_vars

\* A level that stays is seen in the end: a trap that is lost delays it to
\* the end of main's next critical section, unless no other trap ever is
\* taken, and none is torn.
EventuallySeen == Debounce = 0 /\ <>[]~hart.torn /\ []<>~hart.lost =>
  /\ <>[](0 \in raw) => <>[](0 \in seen)
  /\ <>[](0 \notin raw) => <>[](0 \notin seen)

\* tinymcu_gpio_irq_clear(0) leaves the flag of pin 1 alone.
FlagsKept ==
  [][~hart.torn /\ At(hart.isr, tinymcu_gpio_irq_clear(0)[1]) /\ 1 \in gpio.INT_STATUS
     => 1 \in gpio'.INT_STATUS]_vars
=============================================================================
