----------------------------- MODULE PeriphGpio -----------------------------
(***************************************************************************)
(* tinymcu_periph_gpio: pads with pulls, debounce filter, edge flags.      *)
(* A word is the set of the pins whose bit is one.                         *)
(***************************************************************************)
EXTENDS TinymcuDrivers

CONSTANT Pins   \* 0..31 in the code

ASSUME GpioAssumption == Pins \subseteq Word32

GpioPowerOn == [CONFIG |-> {}, DDR |-> {}, PULL_SEL |-> {}, PULL_EN |-> {},
                OUT |-> {}, INT_CONFIG |-> {}, INT_STATUS |-> {},
                count |-> [p \in Pins |-> 0], debounced |-> {}, prev |-> {}]

\* rst_i: INT_CONFIG keeps its value.
GpioReset(g) == [GpioPowerOn EXCEPT !.INT_CONFIG = g.INT_CONFIG]

\* The levels the pads can have; `ext` says what the board drives ("0", "1")
\* or leaves alone ("Z").  A pin nobody drives reads as either level.
High(g, ext) == {p \in Pins : IF p \in g.DDR THEN p \in g.OUT
                              ELSE \/ ext[p] = "1"
                                   \/ ext[p] = "Z" /\ p \in g.PULL_EN \cap g.PULL_SEL}
Floating(g, ext) == {p \in Pins \ (g.DDR \cup g.PULL_EN) : ext[p] = "Z"}
PadLevels(g, ext) == {High(g, ext) \cup f : f \in SUBSET Floating(g, ext)}

\* Debounce filter: a pin that disagreed for `Threshold` clocks is accepted
\* at the next one.
Threshold(g) == Field(g.CONFIG, TINYMCU_GPIO_CONFIG_DEBOUNCE_LSB,
                      TINYMCU_GPIO_CONFIG_DEBOUNCE_WIDTH)
Differs(g, raw) == (raw \ g.debounced) \cup (g.debounced \ raw)
\* Mutant: a disagreement counts although the pin came back in between.
Mut_Counts(g, raw) == [p \in Pins |->
  IF p \notin Differs(g, raw) THEN g.count[p]
  ELSE IF g.count[p] >= Threshold(g) THEN 0 ELSE g.count[p] + 1]
Counts(g, raw) == [p \in Pins |->
  IF p \notin Differs(g, raw) \/ g.count[p] >= Threshold(g) THEN 0
  ELSE g.count[p] + 1]
Debounced(g, raw) == {p \in Pins :
  IF p \in Differs(g, raw) /\ g.count[p] >= Threshold(g) THEN p \in raw
  ELSE p \in g.debounced}
Filtered(g, raw) == IF Threshold(g) # 0 THEN g.debounced ELSE raw

\* Mutant: only rising edges raise the flag.
Mut_Edges(g, raw) ==
  IF TINYMCU_GPIO_CONFIG_GLOBAL_INT_EN \subseteq g.CONFIG
  THEN g.INT_CONFIG \cap (Filtered(g, raw) \ g.prev) ELSE {}

\* Edge flags; a write of INT_STATUS wins over an edge in the same clock.
Edges(g, raw) ==
  IF TINYMCU_GPIO_CONFIG_GLOBAL_INT_EN \subseteq g.CONFIG
  THEN g.INT_CONFIG \cap ((Filtered(g, raw) \ g.prev) \cup (g.prev \ Filtered(g, raw)))
  ELSE {}

GpioRegister(g, req, reg) == IF Writes(req, "gpio", reg) THEN req.data ELSE g[reg]

\* One rising clock edge, `raw` being the level of the pads.
GpioClock(g, req, raw) ==
  [CONFIG     |-> GpioRegister(g, req, "CONFIG"),
   DDR        |-> GpioRegister(g, req, "DDR"),
   PULL_SEL   |-> GpioRegister(g, req, "PULL_SEL"),
   PULL_EN    |-> GpioRegister(g, req, "PULL_EN"),
   OUT        |-> GpioRegister(g, req, "OUT"),
   INT_CONFIG |-> GpioRegister(g, req, "INT_CONFIG"),
   INT_STATUS |-> IF Writes(req, "gpio", "INT_STATUS") THEN req.data
                  ELSE g.INT_STATUS \cup Edges(g, raw),
   count      |-> Counts(g, raw),
   debounced  |-> Debounced(g, raw),
   prev       |-> Filtered(g, raw)]

GpioRead(g, reg, raw) == IF reg = "IN" THEN raw ELSE g[reg]

GpioIrq(g) == g.INT_STATUS # {}
=============================================================================
