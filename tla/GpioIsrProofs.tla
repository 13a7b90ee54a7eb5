--------------------------- MODULE GpioIsrProofs ---------------------------
(***************************************************************************)
(* Three results on GpioIsr, for every program of the module, filter       *)
(* setting and distance between two accesses: main and the handler share   *)
(* the OUT register without undoing each other; the filter lets a level    *)
(* pass only when the pad has held it; and the program misses no change of *)
(* its inputs.                                                             *)
(*                                                                         *)
(* For the first, only those statements matter that touch OUT.  All others *)
(* are Quiet; wherever main stands, it has quiet statements left or is     *)
(* inside `update`, with interrupts off from its first statement on.  The  *)
(* programs are followed until a trap is torn (IsTorn), over lost ones too.*)
(***************************************************************************)
EXTENDS GpioIsr, HartProofs

\* The statements the program is made of, but for those on OUT.
Registers == {"CONFIG", "DDR", "PULL_SEL", "PULL_EN", "IN", "INT_CONFIG", "INT_STATUS"}
Bits == SUBSET Nat
Quiet ==
  {Modify("gpio", r, c, s, f) : r \in Registers, c \in Bits, s \in Bits, f \in Bits}
  \cup {Assign("gpio", r, v) : r \in Registers, v \in Bits}
  \cup {Get("gpio", r, m) : r \in Registers, m \in Bits}
  \cup {CsrSet(c, m) : c \in {"mie", "mstatus"}, m \in Bits}
  \cup {CsrClear("mstatus", m) : m \in Bits}
  \cup {CsrPut("mtvec", "trap_entry")}
  \cup {Local(n) : n \in {"seen", "test"}}

\* `update` from its second statement on.
Toggle == ToggleBits("gpio", "OUT", {MainPin})
Updating == <<Toggle, CsrSet("mstatus", TINYMCU_MSTATUS_MIE)>>
\* What the handler does to its pin.
Shows == {SetBits("gpio", "OUT", {IsrPin}), ClearBits("gpio", "OUT", {IsrPin})}

\* A register is loaded when what is in the thread's acc is its content.
Loaded(th, w) == th.acc = <<>> \/ th.acc = <<w>>

MainOwns ==
  \/ hart.main.code \in Seq(Quiet)
  \/ hart.main.code = update /\ hart.main.acc = <<>>
  \/ /\ hart.main.code = Updating
     /\ ~hart.trapped /\ hart.MIE = FALSE /\ Loaded(hart.main, gpio.OUT)
IsrOwns ==
  hart.trapped =>
    \/ hart.isr.code \in Seq(Quiet)
    \/ \E s \in Shows : hart.isr.code = <<s>> /\ Loaded(hart.isr, gpio.OUT)

\* Each output is as its owner last drove it.
Apart == (gpio.OUT \cap {MainPin, IsrPin}) = mine

\* The inductive invariant, unless a trap was torn.
OwnInv == HartShape(hart) /\ MainOwns /\ IsrOwns /\ Apart
-----------------------------------------------------------------------------
(* The calls the program makes. *)

LEMMA ToFieldBits ==
  ASSUME NEW n, NEW lsb \in Nat, NEW width \in Nat
  PROVE  ToField(n, lsb, width) \in Bits
  BY DEF ToField, Bits

\* A statement on a register that is not OUT is quiet.
LEMMA QuietCalls ==
  ASSUME NEW pin \in Nat, NEW cycles
  PROVE  /\ tinymcu_gpio_set_input(pin) \in Seq(Quiet)
         /\ tinymcu_gpio_set_output(pin) \in Seq(Quiet)
         /\ tinymcu_gpio_pull_up(pin) \in Seq(Quiet)
         /\ tinymcu_gpio_pull_down(pin) \in Seq(Quiet)
         /\ tinymcu_gpio_pull_disable(pin) \in Seq(Quiet)
         /\ tinymcu_gpio_irq_enable(pin) \in Seq(Quiet)
         /\ tinymcu_gpio_irq_disable(pin) \in Seq(Quiet)
         /\ tinymcu_gpio_irq_clear(pin) \in Seq(Quiet)
         /\ tinymcu_gpio_irq_pending(pin) \in Seq(Quiet)
         /\ tinymcu_gpio_get(pin) \in Seq(Quiet)
         /\ tinymcu_gpio_debounce_set(cycles) \in Seq(Quiet)
<1>1. {} \in Bits /\ {pin} \in Bits
  BY DEF Bits
<1>2. /\ TINYMCU_GPIO_CONFIG_DEBOUNCE_MASK \in Bits
      /\ ToField(cycles, TINYMCU_GPIO_CONFIG_DEBOUNCE_LSB, TINYMCU_GPIO_CONFIG_DEBOUNCE_WIDTH) \in Bits
  BY ToFieldBits DEF Bits, TINYMCU_GPIO_CONFIG_DEBOUNCE_MASK, TINYMCU_GPIO_CONFIG_DEBOUNCE_LSB,
                     TINYMCU_GPIO_CONFIG_DEBOUNCE_WIDTH
<1>3. ASSUME NEW r \in Registers, NEW c \in Bits, NEW s \in Bits, NEW f \in Bits
      PROVE  /\ Modify("gpio", r, c, s, f) \in Quiet /\ Get("gpio", r, c) \in Quiet
  BY DEF Quiet
<1>4. ASSUME NEW s \in Quiet, NEW t \in Quiet
      PROVE  <<s>> \in Seq(Quiet) /\ <<s, t>> \in Seq(Quiet)
  OBVIOUS
<1>5. ASSUME NEW r \in Registers
      PROVE  /\ SetBits("gpio", r, {pin}) \in Quiet /\ ClearBits("gpio", r, {pin}) \in Quiet
             /\ Get("gpio", r, {pin}) \in Quiet
  BY <1>1, <1>3 DEF SetBits, ClearBits
<1>6. Modify("gpio", "CONFIG", TINYMCU_GPIO_CONFIG_DEBOUNCE_MASK,
        ToField(cycles, TINYMCU_GPIO_CONFIG_DEBOUNCE_LSB, TINYMCU_GPIO_CONFIG_DEBOUNCE_WIDTH), {}) \in Quiet
  BY <1>1, <1>2, <1>3 DEF Registers
<1>7. {"DDR", "PULL_SEL", "PULL_EN", "INT_CONFIG", "INT_STATUS", "IN"} \subseteq Registers
  BY DEF Registers
<1>8. QED
  BY <1>4, <1>5, <1>6, <1>7 DEF tinymcu_gpio_set_input, tinymcu_gpio_set_output,
    tinymcu_gpio_pull_up, tinymcu_gpio_pull_down, tinymcu_gpio_pull_disable,
    tinymcu_gpio_irq_enable, tinymcu_gpio_irq_disable, tinymcu_gpio_irq_clear,
    tinymcu_gpio_irq_pending, tinymcu_gpio_get, tinymcu_gpio_debounce_set

LEMMA MoreQuietCalls ==
  /\ tinymcu_gpio_irq_global_enable \in Seq(Quiet) /\ tinymcu_gpio_irq_clear_all \in Seq(Quiet)
  /\ tinymcu_gpio_irq_status \in Seq(Quiet) /\ tinymcu_gpio_read_port \in Seq(Quiet)
  /\ tinymcu_gpio_debounce_disable \in Seq(Quiet)
  /\ tinymcu_csr_set_mie(TINYMCU_MIE.MEIE) \in Seq(Quiet) /\ tinymcu_trap_init \in Seq(Quiet)
  /\ <<Local("seen")>> \in Seq(Quiet) /\ <<Local("test")>> \in Seq(Quiet)
<1>1. {} \in Bits /\ {0} \in Bits /\ {3} \in Bits /\ {11} \in Bits /\ Word32 \in Bits
  BY DEF Bits, Word32
<1>2. ASSUME NEW s \in Quiet PROVE <<s>> \in Seq(Quiet)
  OBVIOUS
<1>3. /\ SetBits("gpio", "CONFIG", {0}) \in Quiet
      /\ Assign("gpio", "INT_STATUS", {}) \in Quiet
      /\ Get("gpio", "INT_STATUS", Word32) \in Quiet /\ Get("gpio", "IN", Word32) \in Quiet
  BY <1>1 DEF Quiet, SetBits, Registers
<1>4. /\ CsrSet("mie", {11}) \in Quiet /\ CsrSet("mstatus", {3}) \in Quiet
      /\ CsrPut("mtvec", "trap_entry") \in Quiet
      /\ Local("seen") \in Quiet /\ Local("test") \in Quiet
  BY <1>1 DEF Quiet
<1>5. TINYMCU_MIE.MEIE = {11} /\ TINYMCU_MSTATUS_MIE = {3} /\ TINYMCU_GPIO_CONFIG_GLOBAL_INT_EN = {0}
  BY DEF TINYMCU_MIE, TINYMCU_MSTATUS_MIE, TINYMCU_GPIO_CONFIG_GLOBAL_INT_EN
<1>6. tinymcu_trap_init \in Seq(Quiet)
  <2>1. <<CsrPut("mtvec", "trap_entry")>> \in Seq(Quiet) /\ <<CsrSet("mstatus", {3})>> \in Seq(Quiet)
    BY <1>2, <1>4
  <2>2. QED
    BY <1>5, <2>1, ConcatProperties DEF tinymcu_trap_init, tinymcu_csr_write_mtvec,
       tinymcu_enable_global_interrupts
<1>7. tinymcu_gpio_debounce_disable \in Seq(Quiet)
  <2>1. tinymcu_gpio_debounce_set(0) \in Seq(Quiet)
    BY QuietCalls
  <2>2. QED
    BY <2>1 DEF tinymcu_gpio_debounce_disable
<1>8. QED
  BY <1>2, <1>3, <1>4, <1>5, <1>6, <1>7 DEF tinymcu_gpio_irq_global_enable,
    tinymcu_gpio_irq_clear_all, tinymcu_gpio_irq_status, tinymcu_gpio_read_port, tinymcu_csr_set_mie

\* But for `update` and the last call of the handler, the program is quiet.
LEMMA QuietProgram ==
  /\ setup \in Seq(Quiet) /\ handler \in Seq(Quiet)
  /\ poll \in Seq(Quiet) /\ poll_hit \in Seq(Quiet)
<1> DEFINE Q == Seq(Quiet)
<1>1. ASSUME NEW s \in Q, NEW t \in Q PROVE s \o t \in Q
  BY ConcatProperties
<1>2. /\ tinymcu_gpio_set_input(0) \in Q /\ tinymcu_gpio_set_input(1) \in Q
      /\ tinymcu_gpio_pull_down(0) \in Q /\ tinymcu_gpio_pull_up(0) \in Q
      /\ tinymcu_gpio_pull_disable(1) \in Q
      /\ tinymcu_gpio_set_output(MainPin) \in Q /\ tinymcu_gpio_set_output(IsrPin) \in Q
      /\ tinymcu_gpio_debounce_set(Debounce) \in Q
      /\ tinymcu_gpio_irq_enable(0) \in Q /\ tinymcu_gpio_irq_enable(1) \in Q
      /\ tinymcu_gpio_irq_disable(1) \in Q
      /\ tinymcu_gpio_irq_clear(0) \in Q /\ tinymcu_gpio_irq_clear(1) \in Q
      /\ tinymcu_gpio_irq_pending(0) \in Q /\ tinymcu_gpio_get(0) \in Q
  <2>1. 0 \in Nat /\ 1 \in Nat /\ MainPin \in Nat /\ IsrPin \in Nat
    BY DEF MainPin, IsrPin
  <2>2. QED
    BY <2>1, QuietCalls
<1>3. /\ tinymcu_gpio_irq_global_enable \in Q /\ tinymcu_gpio_irq_clear_all \in Q
      /\ tinymcu_gpio_irq_status \in Q /\ tinymcu_gpio_read_port \in Q
      /\ tinymcu_gpio_debounce_disable \in Q
      /\ tinymcu_csr_set_mie(TINYMCU_MIE.MEIE) \in Q /\ tinymcu_trap_init \in Q
      /\ <<Local("seen")>> \in Q /\ <<Local("test")>> \in Q
  BY MoreQuietCalls
<1>4. /\ (IF Poll THEN tinymcu_gpio_pull_down(0) ELSE tinymcu_gpio_pull_up(0)) \in Q
      /\ (IF Debounce = 0 THEN tinymcu_gpio_debounce_disable
                          ELSE tinymcu_gpio_debounce_set(Debounce)) \in Q
  BY <1>2, <1>3
<1>5. tinymcu_csr_set_mie(TINYMCU_MIE.MEIE) \o tinymcu_trap_init \in Q
  BY <1>1, <1>3
<1>6. (IF Poll THEN tinymcu_gpio_irq_disable(1)
               ELSE tinymcu_csr_set_mie(TINYMCU_MIE.MEIE) \o tinymcu_trap_init) \in Q
  BY <1>2, <1>5
<1>7. tinymcu_gpio_irq_clear(0) \o tinymcu_gpio_irq_clear(1) \in Q
  BY <1>1, <1>2
<1>8. tinymcu_gpio_irq_status \o tinymcu_gpio_irq_clear(0) \o tinymcu_gpio_irq_clear(1) \in Q
  <2>1. tinymcu_gpio_irq_status \o tinymcu_gpio_irq_clear(0) \in Q
    BY <1>1, <1>2, <1>3
  <2>2. QED
    BY <1>1, <1>2, <2>1
<1>9. (IF ClearAll THEN tinymcu_gpio_irq_clear_all
       ELSE tinymcu_gpio_irq_status \o tinymcu_gpio_irq_clear(0) \o tinymcu_gpio_irq_clear(1)) \in Q
  BY <1>3, <1>8
<1> HIDE DEF Q
<1>10. handler \in Q
  BY <1>1, <1>3, <1>9 DEF handler
<1>11. poll \in Q
  BY <1>1, <1>2, <1>3 DEF poll
<1>12. poll_hit \in Q
  BY <1>1, <1>2, <1>3 DEF poll_hit
<1>13. setup \in Q
  BY <1>1, <1>2, <1>3, <1>4, <1>6, ZenonT(60) DEF setup
<1>14. QED
  BY <1>10, <1>11, <1>12, <1>13 DEF Q
-----------------------------------------------------------------------------
(* A clock. *)

LEMMA PortStep ==
  ASSUME NEW req, Port(req)
  PROVE  gpio'.OUT = IF Writes(req, "gpio", "OUT") THEN req.data ELSE gpio.OUT
BY DEF Port, GpioClock, GpioRegister

\* The word a statement reads, and the processor behind the statement.
ReadWord == IF HartReq(hart, mip).dev = "gpio"
            THEN GpioRead(gpio, HartReq(hart, mip).reg, raw) ELSE {}
After == Executed(hart, ReadWord)

\* Statements and their remains are what their sequences say.
LEMMA QuietHead ==
  ASSUME NEW s \in Quiet
  PROVE  /\ s.op \in {"modify", "assign", "get", "local", "csrs", "csrc", "csrw"}
         /\ s.op \in {"modify", "assign"} => s.reg \in Registers
BY DEF Quiet, Modify, Assign, Get, CsrSet, CsrClear, CsrPut, Local

\* A quiet statement leaves OUT alone and what is left of its thread quiet.
LEMMA QuietStep ==
  ASSUME HartShape(hart), Execute, Running(hart).code \in Seq(Quiet)
  PROVE  LET th == Stepped(Running(hart), ReadWord) IN
         /\ ThreadShape(th) /\ th.code \in Seq(Quiet) /\ (th.code = <<>> => th.acc = <<>>)
         /\ At(Running(hart), Local("seen")) => th.acc = <<>>
         /\ gpio'.OUT = gpio.OUT /\ mine' = mine
<1> DEFINE th  == Running(hart)
           n   == Stepped(th, ReadWord)
           req == HartReq(hart, mip)
           s   == Head(th.code)
<1>1. th.code # <<>> /\ ~Interrupted(hart, mip) /\ Port(req) /\ mine' = Driven(req)
  BY DEF Execute, CanExecute, Done
<1>2. s \in Quiet /\ th.code \in Seq(Quiet) /\ Tail(th.code) \in Seq(Quiet)
  BY <1>1, HeadTailProperties
<1>3. ThreadShape(th)
  BY RunningShape
<1> HIDE DEF th, s
<1>4. /\ s.op \in {"modify", "assign", "get", "local", "csrs", "csrc", "csrw"}
      /\ s.op \in {"modify", "assign"} => s.reg \in Registers
  BY <1>2, QuietHead
<1>5. /\ ThreadShape(n)
      /\ n.code = th.code \/ (n.code = Tail(th.code) /\ n.acc = <<>>)
  BY <1>3, <1>4, SteppedShape DEF s
<1>6. ~Writes(req, "gpio", "OUT")
  <2>1. req = Request(th)
    BY <1>1 DEF HartReq, th
  <2>2. Request(th).we => s.op \in {"modify", "assign"} /\ Request(th).reg = s.reg
    BY <1>4 DEF Request, NoReq, ReadReq, WriteReq, BusOps, s
  <2>3. QED
    BY <1>4, <2>1, <2>2 DEF Writes, Registers
<1>7. gpio'.OUT = gpio.OUT /\ mine' = mine
  <2> HIDE DEF req
  <2>1. QED
    BY <1>1, <1>6, PortStep DEF Driven
<1>8. At(th, Local("seen")) => n.acc = <<>>
  <2>1. SUFFICES ASSUME At(th, Local("seen")) PROVE n.acc = <<>>
    OBVIOUS
  <2>2. s.op = "local"
    BY <2>1 DEF At, Local, s
  <2>3. QED
    BY <1>3, <2>2, SteppedOn DEF s, Behind
<1>9. n.code \in Seq(Quiet) /\ (n.code = <<>> => n.acc = <<>>)
  <2> DEFINE c == th.code
  <2>1. c # <<>> /\ c \in Seq(Quiet) /\ Tail(c) \in Seq(Quiet)
    BY <1>1, <1>2
  <2>2. n.code = c \/ (n.code = Tail(c) /\ n.acc = <<>>)
    BY <1>5
  <2> HIDE DEF n, c
  <2>3. QED
    BY <2>1, <2>2
<1>10. QED
  BY <1>5, <1>7, <1>8, <1>9 DEF th

\* The load and the store of a read-modify-write of OUT.
LEMMA OutStep ==
  ASSUME HartShape(hart), Execute, NEW clr, NEW set, NEW flip, Running(hart).code # <<>>,
         Head(Running(hart).code) = Modify("gpio", "OUT", clr, set, flip),
         Loaded(Running(hart), gpio.OUT)
  PROVE  LET th == Stepped(Running(hart), ReadWord)
             w  == (gpio.OUT \ clr) \cup set
             v  == (w \ flip) \cup (flip \ w)
             own == IF hart.trapped THEN IsrPin ELSE MainPin
         IN /\ ThreadShape(th)
            /\ \/ /\ th.code = Running(hart).code /\ Loaded(th, gpio'.OUT)
                  /\ gpio'.OUT = gpio.OUT /\ mine' = mine
               \/ /\ th.code = Tail(Running(hart).code) /\ th.acc = <<>>
                  /\ gpio'.OUT = v /\ mine' = (mine \ {own}) \cup (v \cap {own})
<1> DEFINE th  == Running(hart)
           s   == Modify("gpio", "OUT", clr, set, flip)
           req == HartReq(hart, mip)
           w   == (gpio.OUT \ clr) \cup set
           v   == (w \ flip) \cup (flip \ w)
           out == gpio.OUT
<1>1. ~Interrupted(hart, mip) /\ Port(req) /\ mine' = Driven(req)
  BY DEF Execute, CanExecute
<1>2. s.op = "modify" /\ s.dev = "gpio" /\ s.reg = "OUT" /\ s.clr = clr /\ s.set = set /\ s.flip = flip
  BY DEF Modify
<1>3. ThreadShape(th)
  BY RunningShape
<1>4. Head(th.code) = s /\ th.code # <<>>
  OBVIOUS
<1>5. req = IF th.acc = <<>> THEN ReadReq("gpio", "OUT")
            ELSE WriteReq("gpio", "OUT", Stored(s, th.acc[1]))
  BY <1>1, <1>2, <1>4 DEF HartReq, Request, Done, BusOps
<1>6. CASE th.acc = <<>>
  <2>1. req = ReadReq("gpio", "OUT")
    BY <1>5, <1>6
  <2>2. ReadWord = out /\ ~Writes(req, "gpio", "OUT")
    BY <2>1 DEF ReadWord, ReadReq, GpioRead, Writes
  <2>3. Stepped(th, ReadWord) = [code |-> th.code, acc |-> <<ReadWord>>, ret |-> th.ret]
    BY <1>2, <1>3, <1>4, <1>6, SteppedLoad
  <2>4. gpio'.OUT = out /\ mine' = mine
    <3> HIDE DEF req
    <3>1. QED
      BY <1>1, <2>2, PortStep DEF Driven
  <2> HIDE DEF th
  <2>5. /\ ThreadShape(Stepped(th, ReadWord)) /\ Stepped(th, ReadWord).code = th.code
        /\ Stepped(th, ReadWord).acc = <<out>>
    BY <2>2, <2>3 DEF ThreadShape
  <2>6. QED
    BY <2>4, <2>5 DEF th, Loaded
<1>7. CASE th.acc # <<>>
  <2>1. th.acc = <<out>>
    BY <1>7 DEF Loaded
  <2>2. th.acc[1] = out
    BY <2>1
  <2>3. Stored(s, th.acc[1]) = v
    BY <1>2, <2>2 DEF Stored
  <2>4. req = WriteReq("gpio", "OUT", v)
    BY <1>5, <1>7, <2>3
  <2>5. Writes(req, "gpio", "OUT") /\ req.data = v
    BY <2>4 DEF Writes, WriteReq
  <2>6. Stepped(th, ReadWord) = Behind(th, th.ret)
    BY <1>2, <1>3, <1>4, <1>7, SteppedOn
  <2>7. gpio'.OUT = v /\ mine' = LET own == IF hart.trapped THEN IsrPin ELSE MainPin
                                 IN (mine \ {own}) \cup (v \cap {own})
    <3> HIDE DEF req, v
    <3>1. QED
      BY <1>1, <2>5, PortStep DEF Driven
  <2> HIDE DEF th, v
  <2>8. /\ ThreadShape(Stepped(th, ReadWord)) /\ Stepped(th, ReadWord).code = Tail(th.code)
        /\ Stepped(th, ReadWord).acc = <<>>
    BY <2>6 DEF ThreadShape, Behind
  <2>9. QED
    BY <2>7, <2>8 DEF th, v
<1>8. QED
  BY <1>6, <1>7

\* What main does next, for ever.
Loop == IF Poll THEN {poll, poll_hit} ELSE {update}

\* The processor behind a statement, a new call included.
LEMMA ExecuteIs ==
  ASSUME HartShape(hart), Execute, ThreadShape(Stepped(Running(hart), ReadWord))
  PROVE  LET th == Stepped(Running(hart), ReadWord)
             s  == Head(Running(hart).code)
         IN /\ HartShape(hart') /\ hart'.trapped = hart.trapped
            /\ s.op = "csrc" /\ s.reg = "mstatus" => hart'.MIE = FALSE
            /\ ~(s.op \in {"csrs", "csrc"} /\ s.reg = "mstatus") => hart'.MIE = hart.MIE
            /\ hart.trapped =>
                 /\ hart'.main = hart.main
                 /\ hart'.isr.acc = th.acc /\ hart'.isr.ret = th.ret
                 /\ IF At(hart.isr, Local("seen"))
                    THEN \E n : hart'.isr.code = tinymcu_gpio_write(IsrPin, n)
                    ELSE hart'.isr.code = th.code
            /\ ~hart.trapped =>
                 /\ hart'.main.acc = th.acc /\ hart'.main.ret = th.ret
                 /\ IF th.code # <<>> THEN hart'.main.code = th.code
                    ELSE hart'.main.code \in Loop
<1> DEFINE th == Stepped(Running(hart), ReadWord)
           s  == Head(Running(hart).code)
           h  == After
           word == ReadWord
<1>1. hart' = Continued(h)
  BY DEF Execute, After, ReadWord
<1> HIDE DEF word
<1>2. /\ HartShape(h) /\ h.trapped = hart.trapped
      /\ h.main = IF hart.trapped THEN hart.main ELSE th
      /\ h.isr = IF hart.trapped THEN th ELSE hart.isr
      /\ s.op = "csrc" /\ s.reg = "mstatus" => h.MIE = FALSE
      /\ ~(s.op \in {"csrs", "csrc"} /\ s.reg = "mstatus") => h.MIE = hart.MIE
  <2> DEFINE hh == hart
  <2> HIDE DEF hh
  <2>1. HartShape(hh) /\ ThreadShape(Stepped(Running(hh), word))
    BY DEF hh, word
  <2>2. LET e == Executed(hh, word)
             q == Head(Running(hh).code)
         IN /\ HartShape(e) /\ e.trapped = hh.trapped /\ e.MPIE = hh.MPIE
            /\ e.lost = hh.lost /\ e.torn = hh.torn
            /\ e.main = IF hh.trapped THEN hh.main ELSE Stepped(Running(hh), word)
            /\ e.isr = IF hh.trapped THEN Stepped(Running(hh), word) ELSE hh.isr
            /\ q.op \in {"csrs", "csrc"} /\ q.reg = "mstatus" => e.MIE = (q.op = "csrs")
            /\ (q.op \in {"csrs", "csrc"} /\ q.reg = "mstatus") \/ e.MIE = hh.MIE
    BY <2>1, ExecutedIs, Zenon
  <2>3. QED
    BY <2>2 DEF After, hh, word
<1> HIDE DEF h, th, s
<1>3. ASSUME NEW m, ThreadShape(m), hart' = [h EXCEPT !.main = m]
      PROVE  /\ HartShape(hart') /\ hart'.trapped = h.trapped /\ hart'.MIE = h.MIE
             /\ hart'.main = m /\ hart'.isr = h.isr
  BY <1>2, <1>3 DEF HartShape
<1>4. ASSUME NEW m, ThreadShape(m), hart' = [h EXCEPT !.isr = m]
      PROVE  /\ HartShape(hart') /\ hart'.trapped = h.trapped /\ hart'.MIE = h.MIE
             /\ hart'.main = h.main /\ hart'.isr = m
  BY <1>2, <1>4 DEF HartShape
<1>5. ThreadShape(h.main) /\ ThreadShape(h.isr)
  BY <1>2 DEF HartShape
<1>6. CASE hart.trapped /\ At(hart.isr, Local("seen"))
  <2>1. PICK n : hart' = [h EXCEPT !.isr = Call(h.isr, tinymcu_gpio_write(IsrPin, n))]
    BY <1>1, <1>2, <1>6 DEF Continued
  <2> DEFINE code == tinymcu_gpio_write(IsrPin, n)
             m == Call(h.isr, code)
  <2> HIDE DEF code
  <2>2. ThreadShape(m) /\ m.code = code /\ m.acc = h.isr.acc /\ m.ret = h.isr.ret
    BY <1>5, CalledShape
  <2>3. hart' = [h EXCEPT !.isr = m]
    BY <2>1 DEF code
  <2> HIDE DEF m
  <2>4. /\ HartShape(hart') /\ hart'.trapped = h.trapped /\ hart'.MIE = h.MIE
        /\ hart'.main = h.main /\ hart'.isr = m
    BY <1>4, <2>2, <2>3
  <2>5. QED
    BY <1>2, <1>6, <2>2, <2>4 DEF code, th, s
<1>7. CASE hart.trapped /\ ~At(hart.isr, Local("seen"))
  <2>1. hart' = h
    BY <1>1, <1>2, <1>7 DEF Continued
  <2>2. QED
    BY <1>2, <1>7, <2>1 DEF th, s
<1>8. CASE ~hart.trapped /\ th.code # <<>>
  <2>1. hart' = h
    BY <1>1, <1>2, <1>8 DEF Continued, Done
  <2>2. QED
    BY <1>2, <1>8, <2>1 DEF th, s
<1>9. CASE ~hart.trapped /\ th.code = <<>>
  <2>1. PICK code \in Loop : hart' = [h EXCEPT !.main = Call(h.main, code)]
    BY <1>1, <1>2, <1>9 DEF Continued, Done, Loop
  <2> DEFINE m == Call(h.main, code)
  <2>2. ThreadShape(m) /\ m.code = code /\ m.acc = h.main.acc /\ m.ret = h.main.ret
    BY <1>5, CalledShape
  <2>3. hart' = [h EXCEPT !.main = m]
    BY <2>1
  <2> HIDE DEF m
  <2>4. /\ HartShape(hart') /\ hart'.trapped = h.trapped /\ hart'.MIE = h.MIE
        /\ hart'.main = m /\ hart'.isr = h.isr
    BY <1>3, <2>2, <2>3
  <2>5. QED
    BY <1>2, <1>9, <2>1, <2>2, <2>4 DEF th, s
<1>10. QED
  BY <1>6, <1>7, <1>8, <1>9

LEMMA UpdateIs ==
  /\ update # <<>> /\ Head(update) = CsrClear("mstatus", TINYMCU_MSTATUS_MIE)
  /\ Tail(update) = Updating
<1> DEFINE a == CsrClear("mstatus", TINYMCU_MSTATUS_MIE)
           b == Toggle
           c == CsrSet("mstatus", TINYMCU_MSTATUS_MIE)
<1>1. update = <<a>> \o <<b>> \o <<c>>
  BY DEF update, tinymcu_disable_global_interrupts, tinymcu_gpio_toggle,
         tinymcu_enable_global_interrupts, Toggle
<1> HIDE DEF a, b, c
<1>2. update = <<a>> \o <<b, c>>
  <2> DEFINE S == {a, b, c}
  <2>1. <<a>> \in Seq(S) /\ <<b>> \in Seq(S) /\ <<c>> \in Seq(S)
    OBVIOUS
  <2> DEFINE A == <<a>>
             B == <<b>>
             C == <<c>>
  <2>2. B \o C = <<b, c>>
    BY PairIs
  <2>3. A \in Seq(S) /\ B \in Seq(S) /\ C \in Seq(S) /\ update = (A \o B) \o C
    BY <1>1, <2>1
  <2> HIDE DEF S, A, B, C
  <2>4. update = A \o (B \o C)
    BY <2>3, ConcatAssociative
  <2>5. QED
    BY <2>2, <2>4 DEF A
<1>3. update # <<>> /\ Head(update) = a /\ Tail(update) = <<b, c>>
  <2> DEFINE S == {a, b, c}
             s == <<b, c>>
  <2>1. a \in S /\ s \in Seq(S)
    OBVIOUS
  <2> HIDE DEF S, s
  <2>2. <<a>> \o s # <<>> /\ Head(<<a>> \o s) = a /\ Tail(<<a>> \o s) = s
    BY <2>1, FirstStatement
  <2>3. QED
    BY <1>2, <2>2 DEF s
<1>4. Updating = <<b, c>>
  BY DEF b, c, Updating
<1>5. QED
  BY <1>3, <1>4 DEF a

\* Each thread keeps to its own: the statements of `update` run with
\* interrupts off, and those of the handler while main stands still.
LEMMA ExecuteStep ==
  ASSUME OwnInv, Execute
  PROVE  OwnInv'
<1> DEFINE th == Stepped(Running(hart), ReadWord)
           s  == Head(Running(hart).code)
<1>1. HartShape(hart) /\ MainOwns /\ IsrOwns /\ Apart /\ Running(hart).code # <<>>
  BY DEF OwnInv, Execute, CanExecute, Done
<1>2. SUFFICES ASSUME ThreadShape(th) => HartShape(hart') /\ hart'.trapped = hart.trapped
               PROVE  ThreadShape(th) /\ (MainOwns /\ IsrOwns /\ Apart)'
  BY <1>1, ExecuteIs DEF OwnInv
<1>3. CASE hart.trapped
  <2>1. Running(hart) = hart.isr
    BY <1>3 DEF Running
  <2>2. ASSUME ThreadShape(th) PROVE hart'.trapped /\ MainOwns'
    <3>1. hart'.main = hart.main /\ hart'.trapped
      BY <1>1, <1>3, <2>2, ExecuteIs
    <3>2. UNCHANGED program
      BY DEF Execute, Port
    <3>3. update' = update
      BY DEF update
    <3>4. QED
      BY <1>1, <1>3, <3>1, <3>3 DEF MainOwns
  <2>3. CASE hart.isr.code \in Seq(Quiet)
    <3>1. /\ ThreadShape(th) /\ th.code \in Seq(Quiet)
          /\ At(hart.isr, Local("seen")) => th.acc = <<>>
          /\ gpio'.OUT = gpio.OUT /\ mine' = mine
      BY <1>1, <2>1, <2>3, QuietStep
    <3>2. Apart'
      BY <1>1, <3>1 DEF Apart
    <3>3. /\ hart'.isr.acc = th.acc
          /\ IF At(hart.isr, Local("seen"))
             THEN \E n : hart'.isr.code = tinymcu_gpio_write(IsrPin, n)
             ELSE hart'.isr.code = th.code
      BY <1>1, <1>3, <3>1, ExecuteIs
    <3> HIDE DEF th
    <3>4. IsrOwns'
      <4>1. CASE At(hart.isr, Local("seen"))
        <5>1. PICK n : hart'.isr.code = tinymcu_gpio_write(IsrPin, n)
          BY <3>3, <4>1
        <5>2. \E q \in Shows : hart'.isr.code = <<q>>
          BY <5>1 DEF tinymcu_gpio_write, tinymcu_gpio_set, tinymcu_gpio_clear, Shows
        <5>3. hart'.isr.acc = <<>>
          BY <3>1, <3>3, <4>1
        <5>4. QED
          BY <5>2, <5>3 DEF IsrOwns, Loaded
      <4>2. CASE ~At(hart.isr, Local("seen"))
        BY <3>1, <3>3, <4>2 DEF IsrOwns
      <4>3. QED
        BY <4>1, <4>2
    <3>5. QED
      BY <2>2, <3>1, <3>2, <3>4
  <2>4. CASE \E q \in Shows : hart.isr.code = <<q>> /\ Loaded(hart.isr, gpio.OUT)
    <3>1. PICK q \in Shows : hart.isr.code = <<q>> /\ Loaded(hart.isr, gpio.OUT)
      BY <2>4
    <3>2. PICK clr \in {{}, {IsrPin}}, set \in {{}, {IsrPin}} :
            q = Modify("gpio", "OUT", clr, set, {})
      BY DEF Shows, SetBits, ClearBits
    <3>3. Head(hart.isr.code) = q /\ Tail(hart.isr.code) = <<>>
      BY <3>1
    <3> DEFINE w == (gpio.OUT \ clr) \cup set
               v == (w \ {}) \cup ({} \ w)
    <3>4. /\ ThreadShape(th)
          /\ \/ /\ th.code = hart.isr.code /\ Loaded(th, gpio'.OUT)
                /\ gpio'.OUT = gpio.OUT /\ mine' = mine
             \/ /\ th.code = <<>> /\ th.acc = <<>>
                /\ gpio'.OUT = v /\ mine' = (mine \ {IsrPin}) \cup (v \cap {IsrPin})
      <4>1. Head(Running(hart).code) = Modify("gpio", "OUT", clr, set, {})
        BY <2>1, <3>2, <3>3
      <4>2. Loaded(Running(hart), gpio.OUT)
        BY <2>1, <3>1
      <4>3. LET own == IF hart.trapped THEN IsrPin ELSE MainPin
            IN /\ ThreadShape(th)
               /\ \/ /\ th.code = Running(hart).code /\ Loaded(th, gpio'.OUT)
                     /\ gpio'.OUT = gpio.OUT /\ mine' = mine
                  \/ /\ th.code = Tail(Running(hart).code) /\ th.acc = <<>>
                     /\ gpio'.OUT = v /\ mine' = (mine \ {own}) \cup (v \cap {own})
        BY <1>1, <4>1, <4>2, OutStep
      <4> HIDE DEF th, v
      <4>4. QED
        BY <1>3, <2>1, <3>3, <4>3
    <3>5. ~At(hart.isr, Local("seen"))
      BY <3>2, <3>3 DEF At, Local, Modify
    <3>6. hart'.isr.acc = th.acc /\ hart'.isr.code = th.code
      BY <1>1, <1>3, <3>4, <3>5, ExecuteIs
    <3>7. Apart'
      BY <1>1, <3>4 DEF Apart, MainPin, IsrPin
    <3> HIDE DEF th, v
    <3>8. IsrOwns'
      <4>1. CASE th.code = hart.isr.code /\ Loaded(th, gpio'.OUT)
        BY <3>1, <3>6, <4>1 DEF IsrOwns, Loaded
      <4>2. CASE th.code = <<>>
        BY <3>6, <4>2 DEF IsrOwns
      <4>3. QED
        BY <3>4, <4>1, <4>2
    <3>9. QED
      BY <2>2, <3>4, <3>7, <3>8
  <2>5. QED
    BY <1>1, <1>3, <2>3, <2>4 DEF IsrOwns
<1>4. CASE ~hart.trapped
  <2>1. Running(hart) = hart.main
    BY <1>4 DEF Running
  <2>2. ASSUME ThreadShape(th)
        PROVE  /\ IsrOwns' /\ hart'.trapped = FALSE /\ hart'.main.acc = th.acc
               /\ th.code # <<>> => hart'.main.code = th.code
               /\ th.code = <<>> => hart'.main.code \in {update, poll, poll_hit}
    <3>1. /\ hart'.trapped = hart.trapped /\ hart'.main.acc = th.acc
          /\ IF th.code # <<>> THEN hart'.main.code = th.code
             ELSE hart'.main.code \in {update, poll, poll_hit}
      BY <1>1, <1>4, <2>2, ExecuteIs DEF Loop
    <3>2. hart.trapped = FALSE
      BY <1>1, <1>4 DEF HartShape
    <3>3. QED
      BY <3>1, <3>2 DEF IsrOwns
  <2>3. CASE hart.main.code \in Seq(Quiet)
    <3>1. /\ ThreadShape(th) /\ th.code \in Seq(Quiet) /\ (th.code = <<>> => th.acc = <<>>)
          /\ gpio'.OUT = gpio.OUT /\ mine' = mine
      BY <1>1, <2>1, <2>3, QuietStep
    <3>2. Apart'
      BY <1>1, <3>1 DEF Apart
    <3> HIDE DEF th
    <3>3. MainOwns'
      <4>1. update' = update
        BY DEF update
      <4>2. QED
        BY <2>2, <3>1, <4>1, QuietProgram DEF MainOwns
    <3>4. QED
      BY <2>2, <3>1, <3>2, <3>3
  <2>4. CASE hart.main.code = update /\ hart.main.acc = <<>>
    <3>1. s = CsrClear("mstatus", TINYMCU_MSTATUS_MIE) /\ Tail(hart.main.code) = Updating
      BY <2>1, <2>4, UpdateIs
    <3>2. s.op = "csrc" /\ s.reg = "mstatus"
      BY <3>1 DEF CsrClear
    <3>3. /\ ThreadShape(th) /\ th.code = Updating /\ th.acc = <<>>
          /\ gpio'.OUT = gpio.OUT /\ mine' = mine
      <4>1. th = Behind(hart.main, hart.main.ret)
        BY <1>1, <2>1, <3>2, RunningShape, SteppedOn
      <4>2. HartReq(hart, mip) = NoReq
        BY <2>1, <3>2 DEF HartReq, Request, BusOps
      <4>3. Port(NoReq) /\ mine' = Driven(NoReq)
        BY <4>2 DEF Execute
      <4>4. gpio'.OUT = gpio.OUT /\ mine' = mine
        BY <4>3, PortStep DEF Driven, NoReq, Writes
      <4> HIDE DEF th
      <4>5. QED
        BY <3>1, <4>1, <4>4 DEF Behind, ThreadShape
    <3>4. hart'.MIE = FALSE
      BY <1>1, <3>2, <3>3, ExecuteIs
    <3>5. Apart'
      BY <1>1, <3>3 DEF Apart
    <3> HIDE DEF th
    <3>6. MainOwns'
      <4>1. Updating # <<>>
        BY DEF Updating
      <4>2. hart'.main.code = Updating /\ hart'.main.acc = <<>> /\ hart'.trapped = FALSE
        BY <2>2, <3>3, <4>1
      <4>3. QED
        BY <3>4, <4>2 DEF MainOwns, Loaded
    <3>7. QED
      BY <2>2, <3>3, <3>5, <3>6
  <2>5. CASE /\ hart.main.code = Updating
             /\ hart.MIE = FALSE /\ Loaded(hart.main, gpio.OUT)
    <3>1. /\ s = Toggle /\ Updating # <<>>
          /\ Tail(hart.main.code) = <<CsrSet("mstatus", TINYMCU_MSTATUS_MIE)>>
      BY <2>1, <2>5 DEF Updating
    <3>2. Head(Running(hart).code) = Modify("gpio", "OUT", {}, {}, {MainPin})
      BY <3>1 DEF Toggle, ToggleBits
    <3> DEFINE w == (gpio.OUT \ {}) \cup {}
               v == (w \ {MainPin}) \cup ({MainPin} \ w)
    <3>3. /\ ThreadShape(th)
          /\ \/ /\ th.code = Updating /\ Loaded(th, gpio'.OUT)
                /\ gpio'.OUT = gpio.OUT /\ mine' = mine
             \/ /\ th.code = <<CsrSet("mstatus", TINYMCU_MSTATUS_MIE)>> /\ th.acc = <<>>
                /\ gpio'.OUT = v /\ mine' = (mine \ {MainPin}) \cup (v \cap {MainPin})
      <4>1. Loaded(Running(hart), gpio.OUT)
        BY <2>1, <2>5
      <4>2. LET own == IF hart.trapped THEN IsrPin ELSE MainPin
            IN /\ ThreadShape(th)
               /\ \/ /\ th.code = Running(hart).code /\ Loaded(th, gpio'.OUT)
                     /\ gpio'.OUT = gpio.OUT /\ mine' = mine
                  \/ /\ th.code = Tail(Running(hart).code) /\ th.acc = <<>>
                     /\ gpio'.OUT = v /\ mine' = (mine \ {own}) \cup (v \cap {own})
        BY <1>1, <3>2, <4>1, OutStep
      <4> HIDE DEF th, v
      <4>3. QED
        BY <1>4, <2>1, <2>5, <3>1, <4>2
    <3>4. hart'.MIE = FALSE
      <4>1. s.op = "modify"
        BY <3>2 DEF Modify
      <4>2. hart'.MIE = hart.MIE
        BY <1>1, <3>3, <4>1, ExecuteIs
      <4>3. QED
        BY <2>5, <4>2
    <3>5. Apart'
      BY <1>1, <3>3 DEF Apart, MainPin, IsrPin
    <3> HIDE DEF th, v
    <3>6. MainOwns'
      <4>1. CASE th.code = Updating /\ Loaded(th, gpio'.OUT)
        BY <2>2, <3>1, <3>3, <3>4, <4>1 DEF MainOwns, Loaded
      <4>2. CASE th.code = <<CsrSet("mstatus", TINYMCU_MSTATUS_MIE)>>
        <5>1. CsrSet("mstatus", TINYMCU_MSTATUS_MIE) \in Quiet
          BY DEF Quiet, Bits, TINYMCU_MSTATUS_MIE
        <5>2. th.code \in Seq(Quiet) /\ th.code # <<>>
          BY <4>2, <5>1
        <5>3. QED
          BY <2>2, <3>3, <5>2 DEF MainOwns
      <4>3. QED
        BY <3>3, <4>1, <4>2
    <3>7. QED
      BY <2>2, <3>3, <3>5, <3>6
  <2>6. QED
    BY <1>1, <2>3, <2>4, <2>5 DEF MainOwns
<1>5. QED
  BY <1>3, <1>4

\* The other clocks leave OUT and what is left of main alone.
LEMMA QuietClock ==
  ASSUME OwnInv, HartShape(hart'), Port(NoReq), UNCHANGED <<seen, mine>>,
         hart'.main = hart.main,
         (hart'.trapped = hart.trapped /\ hart'.MIE = hart.MIE) \/ hart.trapped \/ hart.MIE = TRUE,
         hart'.trapped => /\ hart'.isr = hart.isr /\ hart.trapped
                          \/ hart'.isr = Thread(handler)
  PROVE  OwnInv'
<1>1. gpio'.OUT = gpio.OUT
  BY PortStep DEF NoReq, Writes
<1>2. Apart'
  BY <1>1 DEF OwnInv, Apart
<1>3. MainOwns'
  <2>1. update' = update
    BY DEF update
  <2>2. QED
    BY <1>1, <2>1 DEF OwnInv, MainOwns
<1>4. IsrOwns'
  <2>1. Thread(handler).code \in Seq(Quiet)
    BY QuietProgram DEF Thread
  <2>2. QED
    BY <1>1, <2>1 DEF OwnInv, IsrOwns
<1>5. QED
  BY <1>2, <1>3, <1>4 DEF OwnInv

\* What a trap may do to the processor: precise or lost it leaves main alone.
LEMMA TrapIs ==
  ASSUME HartShape(hart), Trap
  PROVE  /\ UNCHANGED <<seen, mine>> /\ Port(NoReq) /\ HartShape(hart') /\ hart.MIE = TRUE
         /\ \/ IsTorn(hart')
            \/ /\ hart'.main = hart.main
               /\ \/ hart'.isr = Thread(handler) /\ hart'.trapped = TRUE
                  \/ hart'.isr = hart.isr /\ hart'.trapped = hart.trapped
<1>1. UNCHANGED <<seen, mine>> /\ Port(NoReq) /\ Traps(hart, hart', mip, handler)
  BY DEF Trap
<1>2. HartShape(hart') /\ hart.MIE = TRUE
  BY <1>1, TrapsIs
<1>3. \/ hart'.torn = TRUE
      \/ /\ hart'.main = hart.main
         /\ \/ hart'.isr = Thread(handler) /\ hart'.trapped = TRUE
            \/ hart'.isr = hart.isr /\ hart'.trapped = hart.trapped
  BY <1>1, TrapsIs
<1>4. "torn" \in DOMAIN hart'
  BY <1>2 DEF HartShape
<1>5. QED
  BY <1>1, <1>2, <1>3, <1>4 DEF IsTorn

\* Behind a torn trap nothing is claimed any more.
LEMMA TornStep ==
  ASSUME IsTorn(hart), [Next]_vars
  PROVE  IsTorn(hart')
<1>1. CASE Execute
  <2>1. IsTorn(After) /\ hart' = Continued(After)
    BY <1>1, TornStays DEF Execute, After, ReadWord
  <2> HIDE DEF After
  <2>2. QED
    BY <2>1 DEF Continued, IsTorn
<1>2. CASE UNCHANGED vars
  BY <1>2 DEF vars, IsTorn
<1>3. QED
  BY <1>1, <1>2, TornStays DEF Next, Idle, Trap, Mret

LEMMA OwnStep ==
  ASSUME OwnInv, [Next]_vars
  PROVE  IsTorn(hart') \/ OwnInv'
<1>0. HartShape(hart)
  BY DEF OwnInv
<1>1. CASE Idle
  BY <1>0, <1>1, IdlesIs, QuietClock DEF Idle
<1>2. CASE Execute
  BY <1>2, ExecuteStep
<1>3. CASE Trap
  BY <1>0, <1>3, TrapIs, QuietClock
<1>4. CASE Mret
  BY <1>0, <1>4, MretsIs, QuietClock DEF Mret
<1>5. CASE UNCHANGED vars
  <2>1. update' = update
    BY DEF update
  <2>2. QED
    BY <1>5, <2>1 DEF vars, OwnInv, MainOwns, IsrOwns, Apart
<1>6. QED
  BY <1>1, <1>2, <1>3, <1>4, <1>5 DEF Next

LEMMA OwnInit == ASSUME Init PROVE OwnInv
<1>1. /\ HartShape(hart) /\ hart.main.code = setup /\ hart.trapped = FALSE
  BY ResetShape DEF Init
<1>2. Apart
  BY DEF Init, GpioPowerOn, Apart
<1>3. QED
  BY <1>1, <1>2, QuietProgram DEF OwnInv, MainOwns, IsrOwns

\* Each output is as its owner last drove it (tinymcu_gpio.c: set, clear and
\* toggle read and write OUT): whatever clock the interrupt comes in, neither
\* thread's read-modify-write undoes the other's.
THEOREM PinsAreOwned == Spec => []OnlyOwnPin
<1>1. Init => OwnInv
  BY OwnInit
<1>2. (IsTorn(hart) \/ OwnInv) /\ [Next]_vars => (IsTorn(hart) \/ OwnInv)'
  BY OwnStep, TornStep DEF IsTorn
<1>3. IsTorn(hart) \/ OwnInv => OnlyOwnPin
  BY DEF IsTorn, OwnInv, OnlyOwnPin, Apart
<1>4. QED
  BY <1>1, <1>2, <1>3, PTL DEF Spec
-----------------------------------------------------------------------------
(* The debounce filter. *)

\* While the filter disagrees with a pad it counts the clocks the pad has
\* held its level: a disagreement begins with a change of the pad, and no
\* change of the pad goes by without an end of it.
HeldInv == \A p \in Inputs : p \in Differs(gpio, raw) => gpio.count[p] = held[p]

LEMMA HeldClock ==
  ASSUME HeldInv, NEW req, Port(req)
  PROVE  /\ HeldInv'
         /\ \A p \in Inputs : (p \in gpio.debounced) # (p \in gpio'.debounced)
                              => held[p] >= Threshold(gpio)
<1> DEFINE T == Threshold(gpio)
<1>1. /\ gpio'.count = Counts(gpio, raw) /\ gpio'.debounced = Debounced(gpio, raw)
      /\ held' = [p \in Inputs |-> IF (p \in raw) # (p \in raw') THEN 0
                                   ELSE IF held[p] >= T THEN held[p] ELSE held[p] + 1]
  BY DEF Port, GpioClock
<1> HIDE DEF T
<1>2. ASSUME NEW p \in Inputs
      PROVE  /\ p \in Differs(gpio', raw') => gpio'.count[p] = held'[p]
             /\ (p \in gpio.debounced) # (p \in gpio'.debounced) => held[p] >= T
  <2>1. p \in Pins
    BY GpioIsrAssumption DEF Inputs
  <2>2. /\ gpio'.count[p] = IF p \notin Differs(gpio, raw) \/ gpio.count[p] >= T THEN 0
                            ELSE gpio.count[p] + 1
        /\ p \in gpio'.debounced <=> IF p \in Differs(gpio, raw) /\ gpio.count[p] >= T THEN p \in raw
                                     ELSE p \in gpio.debounced
        /\ held'[p] = IF (p \in raw) # (p \in raw') THEN 0
                      ELSE IF held[p] >= T THEN held[p] ELSE held[p] + 1
    BY <1>1, <2>1 DEF Counts, Debounced, T
  <2>3. p \in Differs(gpio, raw) => gpio.count[p] = held[p]
    BY DEF HeldInv
  <2>4. /\ p \in Differs(gpio, raw) <=> ((p \in raw) # (p \in gpio.debounced))
        /\ p \in Differs(gpio', raw') <=> ((p \in raw') # (p \in gpio'.debounced))
    BY DEF Differs
  <2>5. QED
    BY <2>2, <2>3, <2>4
<1>3. QED
  BY <1>2 DEF HeldInv, T

LEMMA HeldStep ==
  ASSUME HeldInv, [Next]_vars
  PROVE  /\ HeldInv'
         /\ [\A p \in Inputs : (p \in gpio.debounced) # (p \in gpio'.debounced)
                               => held[p] >= Threshold(gpio)]_vars
<1>1. CASE UNCHANGED vars
  BY <1>1 DEF vars, HeldInv
<1>2. CASE Next
  <2>1. PICK req : Port(req)
    BY <1>2 DEF Next, Idle, Execute, Trap, Mret
  <2>2. QED
    BY <2>1, HeldClock
<1>3. QED
  BY <1>1, <1>2

LEMMA HeldInit == ASSUME Init PROVE HeldInv
<1>1. ASSUME NEW p \in Inputs PROVE gpio.count[p] = 0 /\ held[p] = 0
  BY GpioIsrAssumption DEF Init, GpioPowerOn, Inputs
<1>2. QED
  BY <1>1 DEF HeldInv

\* The filter accepts a level when the pad has held it for the threshold
\* (tinymcu_periph_gpio.vhd: the counter restarts with every bounce), also
\* while the program moves the threshold under a running count.
THEOREM LevelsAreHeld == Spec => HeldLongEnough
<1>1. Init => HeldInv
  BY HeldInit
<1>2. HeldInv /\ [Next]_vars => HeldInv'
  BY HeldStep
<1>3. HeldInv /\ [Next]_vars
      => [\A p \in Inputs : (p \in gpio.debounced) # (p \in gpio'.debounced)
                               => held[p] >= Threshold(gpio)]_vars
  BY HeldStep
<1>4. QED
  BY <1>1, <1>2, <1>3, PTL DEF Spec, HeldLongEnough

-----------------------------------------------------------------------------
(* The program, as it arms the port, reads it and remembers what it read. *)

Mask == TINYMCU_GPIO_CONFIG_DEBOUNCE_MASK
Filter == Modify("gpio", "CONFIG", Mask,
            ToField(Debounce, TINYMCU_GPIO_CONFIG_DEBOUNCE_LSB,
                    TINYMCU_GPIO_CONFIG_DEBOUNCE_WIDTH), {})

\* A threshold of zero is a field of zeros, and the other way round.
LEMMA ZeroIsEmpty ==
  ToField(0, TINYMCU_GPIO_CONFIG_DEBOUNCE_LSB, TINYMCU_GPIO_CONFIG_DEBOUNCE_WIDTH) = {}
<1> DEFINE Bit(j) == (0 \div 2^j) % 2
<1>1. /\ Bit(0) = 0 /\ Bit(1) = 0 /\ Bit(2) = 0 /\ Bit(3) = 0 /\ Bit(4) = 0
      /\ Bit(5) = 0 /\ Bit(6) = 0 /\ Bit(7) = 0 /\ Bit(8) = 0 /\ Bit(9) = 0
      /\ Bit(10) = 0 /\ Bit(11) = 0 /\ Bit(12) = 0 /\ Bit(13) = 0 /\ Bit(14) = 0
  OBVIOUS
<1>2. ToField(0, TINYMCU_GPIO_CONFIG_DEBOUNCE_LSB, TINYMCU_GPIO_CONFIG_DEBOUNCE_WIDTH)
        = {1 + i : i \in {j \in 0..(15 - 1) : Bit(j) = 1}}
  BY DEF ToField, TINYMCU_GPIO_CONFIG_DEBOUNCE_WIDTH, TINYMCU_GPIO_CONFIG_DEBOUNCE_LSB
<1> HIDE DEF Bit
<1>3. \A j \in 0..(15 - 1) : Bit(j) = 0
  <2>1. \A j \in 0..(15 - 1) :
          \/ j = 0 \/ j = 1 \/ j = 2 \/ j = 3 \/ j = 4 \/ j = 5 \/ j = 6 \/ j = 7
          \/ j = 8 \/ j = 9 \/ j = 10 \/ j = 11 \/ j = 12 \/ j = 13 \/ j = 14
    OBVIOUS
  <2>2. QED
    BY <1>1, <2>1
<1>4. QED
  BY <1>2, <1>3

LEMMA EmptyIsZero ==
  ASSUME NEW g, g.CONFIG \cap Mask = {}
  PROVE  Threshold(g) = 0
<1>1. g.CONFIG \cap (1..(1 + 15 - 1)) = {}
  BY DEF Mask, TINYMCU_GPIO_CONFIG_DEBOUNCE_MASK, TINYMCU_GPIO_CONFIG_DEBOUNCE_LSB,
    TINYMCU_GPIO_CONFIG_DEBOUNCE_WIDTH
<1>2. Field(g.CONFIG, 1, 15) = 0
  BY <1>1 DEF Field, MapThenSumSet, MapThenFoldSet
<1>3. QED
  BY <1>2 DEF Threshold, TINYMCU_GPIO_CONFIG_DEBOUNCE_LSB, TINYMCU_GPIO_CONFIG_DEBOUNCE_WIDTH

ReadsPort == Get("gpio", "IN", Word32)
Keeps     == Local("seen")

\* Main as it sets up, from the call on that gives its name.
Rest     == IF Poll THEN tinymcu_gpio_irq_disable(1)
                    ELSE tinymcu_csr_set_mie(TINYMCU_MIE.MEIE) \o tinymcu_trap_init
FromKeep == <<Keeps>> \o Rest
FromRead == <<ReadsPort>> \o FromKeep
FromGlobal == tinymcu_gpio_irq_global_enable \o FromRead
FromPin1 == tinymcu_gpio_irq_enable(1) \o FromGlobal
FromPin0 == tinymcu_gpio_irq_enable(0) \o FromPin1

\* What main does before, and the handler before it reads the port.
Prepares == {Modify("gpio", r, c, s, {}) : r \in {"DDR", "PULL_SEL", "PULL_EN"}, c \in Bits, s \in Bits}
            \cup {Filter}
Flags == {Modify("gpio", "INT_STATUS", c, {}, {}) : c \in Bits}
         \cup {Assign("gpio", "INT_STATUS", {}), Get("gpio", "INT_STATUS", Word32)}

LEMMA HandlerIs == EndsIn(handler, <<ReadsPort, Keeps>>, Flags)
<1> DEFINE Q == Quiet
           F == Seq(Flags)
           clear == IF ClearAll THEN tinymcu_gpio_irq_clear_all
                    ELSE tinymcu_gpio_irq_status \o tinymcu_gpio_irq_clear(0) \o tinymcu_gpio_irq_clear(1)
<1>1. /\ tinymcu_gpio_irq_clear_all \in F /\ tinymcu_gpio_irq_status \in F
      /\ tinymcu_gpio_irq_clear(0) \in F /\ tinymcu_gpio_irq_clear(1) \in F
  <2>1. {0} \in Bits /\ {1} \in Bits
    BY DEF Bits
  <2>2. /\ Assign("gpio", "INT_STATUS", {}) \in Flags /\ Get("gpio", "INT_STATUS", Word32) \in Flags
        /\ ClearBits("gpio", "INT_STATUS", {0}) \in Flags /\ ClearBits("gpio", "INT_STATUS", {1}) \in Flags
    BY <2>1 DEF Flags, ClearBits
  <2>3. ASSUME NEW x \in Flags PROVE <<x>> \in F
    OBVIOUS
  <2>4. QED
    BY <2>2, <2>3 DEF tinymcu_gpio_irq_clear_all, tinymcu_gpio_irq_status, tinymcu_gpio_irq_clear
<1>2. ASSUME NEW s \in F, NEW t \in F PROVE s \o t \in F
  BY ConcatProperties
<1>3. clear \in F
  <2> HIDE DEF F
  <2>1. tinymcu_gpio_irq_status \o tinymcu_gpio_irq_clear(0) \in F
    BY <1>1, <1>2
  <2>2. tinymcu_gpio_irq_status \o tinymcu_gpio_irq_clear(0) \o tinymcu_gpio_irq_clear(1) \in F
    BY <1>1, <1>2, <2>1
  <2>3. QED
    BY <1>1, <2>2
<1>4. Flags \subseteq Q
  BY DEF Flags, Quiet, Registers, Bits, Word32
<1>5. /\ clear \in Seq(Q) /\ <<ReadsPort>> \in Seq(Q) /\ <<Keeps>> \in Seq(Q)
  <2>1. ReadsPort \in Q /\ Keeps \in Q
    BY DEF Quiet, Registers, Bits, Word32, ReadsPort, Keeps
  <2>2. clear \in Seq(Q)
    <3> HIDE DEF clear, Q
    <3>1. QED
      BY <1>3, <1>4
  <2>3. QED
    BY <2>1, <2>2
<1>6. handler = (clear \o <<ReadsPort>>) \o <<Keeps>>
  BY DEF handler, ReadsPort, Keeps, tinymcu_gpio_read_port
<1> DEFINE A == <<ReadsPort>>
           B == <<Keeps>>
<1>7. A \o B = <<ReadsPort, Keeps>>
  BY PairIs
<1> HIDE DEF A, B, clear, Q
<1>8. handler = clear \o (A \o B)
  BY <1>5, <1>6, ConcatAssociative DEF A, B
<1>9. QED
  BY <1>3, <1>7, <1>8 DEF EndsIn

LEMMA SetupCode ==
  /\ FromPin0 # <<>> /\ Head(FromPin0) = SetBits("gpio", "INT_CONFIG", {0}) /\ Tail(FromPin0) = FromPin1
  /\ FromPin1 # <<>> /\ Head(FromPin1) = SetBits("gpio", "INT_CONFIG", {1}) /\ Tail(FromPin1) = FromGlobal
  /\ FromGlobal # <<>> /\ Tail(FromGlobal) = FromRead
  /\ Head(FromGlobal) = SetBits("gpio", "CONFIG", TINYMCU_GPIO_CONFIG_GLOBAL_INT_EN)
  /\ FromRead # <<>> /\ Head(FromRead) = ReadsPort /\ Tail(FromRead) = FromKeep
  /\ FromKeep # <<>> /\ Head(FromKeep) = Keeps /\ Tail(FromKeep) = Rest
  /\ Rest \in Seq(Quiet) /\ FromKeep \in Seq(Quiet) /\ FromRead \in Seq(Quiet)
  /\ FromGlobal \in Seq(Quiet) /\ FromPin1 \in Seq(Quiet) /\ FromPin0 \in Seq(Quiet)
<1> DEFINE Q == Quiet
           e0 == SetBits("gpio", "INT_CONFIG", {0})
           e1 == SetBits("gpio", "INT_CONFIG", {1})
           g  == SetBits("gpio", "CONFIG", TINYMCU_GPIO_CONFIG_GLOBAL_INT_EN)
<1>1. e0 \in Q /\ e1 \in Q /\ g \in Q /\ ReadsPort \in Q /\ Keeps \in Q
  BY DEF Quiet, Registers, Bits, Word32, SetBits, ReadsPort, Keeps, TINYMCU_GPIO_CONFIG_GLOBAL_INT_EN
<1>2. Rest \in Seq(Q)
  <2>1. tinymcu_gpio_irq_disable(1) \in Seq(Q)
    BY QuietCalls
  <2>2. tinymcu_csr_set_mie(TINYMCU_MIE.MEIE) \o tinymcu_trap_init \in Seq(Q)
    BY MoreQuietCalls, ConcatProperties
  <2>3. QED
    BY <2>1, <2>2 DEF Rest
<1>3. /\ FromPin0 = <<e0>> \o FromPin1 /\ FromPin1 = <<e1>> \o FromGlobal
      /\ FromGlobal = <<g>> \o FromRead
  BY DEF FromPin0, FromPin1, FromGlobal, tinymcu_gpio_irq_enable, tinymcu_gpio_irq_global_enable
<1> HIDE DEF Q, e0, e1, g
<1>4. ASSUME NEW a \in Q, NEW s \in Seq(Q)
      PROVE  /\ <<a>> \o s \in Seq(Q) /\ <<a>> \o s # <<>>
             /\ Head(<<a>> \o s) = a /\ Tail(<<a>> \o s) = s
  BY FirstStatement
<1>5. FromKeep \in Seq(Q) /\ FromKeep # <<>> /\ Head(FromKeep) = Keeps /\ Tail(FromKeep) = Rest
  BY <1>1, <1>2, <1>4 DEF FromKeep
<1>6. FromRead \in Seq(Q) /\ FromRead # <<>> /\ Head(FromRead) = ReadsPort /\ Tail(FromRead) = FromKeep
  BY <1>1, <1>4, <1>5 DEF FromRead
<1>7. FromGlobal \in Seq(Q) /\ FromGlobal # <<>> /\ Head(FromGlobal) = g /\ Tail(FromGlobal) = FromRead
  BY <1>1, <1>3, <1>4, <1>6
<1>8. FromPin1 \in Seq(Q) /\ FromPin1 # <<>> /\ Head(FromPin1) = e1 /\ Tail(FromPin1) = FromGlobal
  BY <1>1, <1>3, <1>4, <1>7
<1>9. FromPin0 \in Seq(Q) /\ FromPin0 # <<>> /\ Head(FromPin0) = e0 /\ Tail(FromPin0) = FromPin1
  BY <1>1, <1>3, <1>4, <1>8
<1>10. QED
  BY <1>2, <1>5, <1>6, <1>7, <1>8, <1>9 DEF Q, e0, e1, g

LEMMA SetupIs == EndsIn(setup, FromPin0, Prepares)
<1> DEFINE Q == Quiet
           P == Seq(Prepares)
           a == tinymcu_gpio_set_input(0)
           b == IF Poll THEN tinymcu_gpio_pull_down(0) ELSE tinymcu_gpio_pull_up(0)
           c == tinymcu_gpio_set_input(1)
           d == tinymcu_gpio_pull_disable(1)
           e == tinymcu_gpio_set_output(MainPin)
           f == tinymcu_gpio_set_output(IsrPin)
           g == IF Debounce = 0 THEN tinymcu_gpio_debounce_disable
                                ELSE tinymcu_gpio_debounce_set(Debounce)
           p == a \o b \o c \o d \o e \o f \o g
<1>1. a \in P /\ b \in P /\ c \in P /\ d \in P /\ e \in P /\ f \in P /\ g \in P
  <2>1. {} \in Bits /\ {0} \in Bits /\ {1} \in Bits /\ {MainPin} \in Bits /\ {IsrPin} \in Bits
    BY DEF Bits, MainPin, IsrPin
  <2>2. ASSUME NEW r \in {"DDR", "PULL_SEL", "PULL_EN"}, NEW m \in Bits
        PROVE  SetBits("gpio", r, m) \in Prepares /\ ClearBits("gpio", r, m) \in Prepares
    BY <2>1 DEF Prepares, SetBits, ClearBits
  <2>3. ASSUME NEW x \in Prepares, NEW y \in Prepares PROVE <<x>> \in P /\ <<x, y>> \in P
    OBVIOUS
  <2>4. g = <<Filter>>
    BY DEF tinymcu_gpio_debounce_disable, tinymcu_gpio_debounce_set, Filter, Mask
  <2>5. Filter \in Prepares
    BY DEF Prepares
  <2> HIDE DEF g, P
  <2>6. QED
    BY <2>1, <2>2, <2>3, <2>4, <2>5 DEF tinymcu_gpio_set_input, tinymcu_gpio_pull_down,
      tinymcu_gpio_pull_up, tinymcu_gpio_pull_disable, tinymcu_gpio_set_output
<1>2. ASSUME NEW s \in P, NEW t \in P PROVE s \o t \in P
  BY ConcatProperties
<1>3. p \in P
  <2> HIDE DEF P, a, b, c, d, e, f, g
  <2>1. a \o b \in P
    BY <1>1, <1>2
  <2>2. a \o b \o c \in P
    BY <1>1, <1>2, <2>1
  <2>3. a \o b \o c \o d \in P
    BY <1>1, <1>2, <2>2
  <2>4. a \o b \o c \o d \o e \in P
    BY <1>1, <1>2, <2>3
  <2>5. a \o b \o c \o d \o e \o f \in P
    BY <1>1, <1>2, <2>4
  <2>6. QED
    BY <1>1, <1>2, <2>5
<1> DEFINE u == tinymcu_gpio_irq_enable(0)
           v == tinymcu_gpio_irq_enable(1)
           w == tinymcu_gpio_irq_global_enable
           x == <<ReadsPort>>
           y == <<Keeps>>
           z == Rest
<1>4. setup = p \o u \o v \o w \o x \o y \o z
  BY DEF setup, tinymcu_gpio_read_port, ReadsPort, Keeps, Rest
<1>5. /\ p \in Seq(Q) /\ u \in Seq(Q) /\ v \in Seq(Q) /\ w \in Seq(Q) /\ x \in Seq(Q)
      /\ y \in Seq(Q) /\ z \in Seq(Q)
  <2>1. u \in Seq(Q) /\ v \in Seq(Q) /\ w \in Seq(Q)
    BY QuietCalls, MoreQuietCalls
  <2>2. z \in Seq(Q)
    BY SetupCode
  <2>3. x \in Seq(Q) /\ y \in Seq(Q)
    BY DEF Quiet, Registers, Bits, Word32, ReadsPort, Keeps
  <2>4. Prepares \subseteq Q
    BY ToFieldBits DEF Prepares, Quiet, Registers, Bits, Filter, Mask, TINYMCU_GPIO_CONFIG_DEBOUNCE_MASK,
       TINYMCU_GPIO_CONFIG_DEBOUNCE_LSB, TINYMCU_GPIO_CONFIG_DEBOUNCE_WIDTH
  <2>5. p \in Seq(Q)
    <3> HIDE DEF p, Q
    <3>1. QED
      BY <1>3, <2>4
  <2>6. QED
    BY <2>1, <2>2, <2>3, <2>5
<1>6. FromPin0 = u \o (v \o (w \o (x \o (y \o z))))
  BY DEF FromPin0, FromPin1, FromGlobal, FromRead, FromKeep
<1> HIDE DEF p, u, v, w, x, y, z, Q
<1> DEFINE pu == p \o u
           pv == pu \o v
           pw == pv \o w
           px == pw \o x
           yz == y \o z
           xz == x \o yz
           wz == w \o xz
           vz == v \o wz
<1>7. pu \in Seq(Q) /\ yz \in Seq(Q)
  BY <1>5, ConcatProperties
<1>8. pv \in Seq(Q) /\ xz \in Seq(Q)
  <2> HIDE DEF pu, yz
  <2>1. QED
    BY <1>5, <1>7, ConcatProperties
<1>9. pw \in Seq(Q) /\ wz \in Seq(Q)
  <2> HIDE DEF pv, xz
  <2>1. QED
    BY <1>5, <1>8, ConcatProperties
<1>10. px \in Seq(Q) /\ vz \in Seq(Q)
  <2> HIDE DEF pw, wz
  <2>1. QED
    BY <1>5, <1>9, ConcatProperties
<1>11. setup = px \o y \o z /\ FromPin0 = u \o vz
  BY <1>4, <1>6
<1>12. setup = px \o yz
  <2>1. px \in Seq(Q) /\ y \in Seq(Q) /\ z \in Seq(Q)
    BY <1>5, <1>10
  <2> HIDE DEF px
  <2>2. (px \o y) \o z = px \o (y \o z)
    BY <2>1, ConcatAssociative
  <2>3. QED
    BY <2>2, <1>11 DEF px
<1>13. setup = pw \o xz
  <2>1. pw \in Seq(Q) /\ x \in Seq(Q) /\ yz \in Seq(Q)
    BY <1>5, <1>7, <1>9
  <2> HIDE DEF pw, yz
  <2>2. (pw \o x) \o yz = pw \o (x \o yz)
    BY <2>1, ConcatAssociative
  <2>3. QED
    BY <2>2, <1>12 DEF pw, yz
<1>14. setup = pv \o wz
  <2>1. pv \in Seq(Q) /\ w \in Seq(Q) /\ xz \in Seq(Q)
    BY <1>5, <1>8
  <2> HIDE DEF pv, xz
  <2>2. (pv \o w) \o xz = pv \o (w \o xz)
    BY <2>1, ConcatAssociative
  <2>3. QED
    BY <2>2, <1>13 DEF pv, xz
<1>15. setup = pu \o vz
  <2>1. pu \in Seq(Q) /\ v \in Seq(Q) /\ wz \in Seq(Q)
    BY <1>5, <1>7, <1>9
  <2> HIDE DEF pu, wz
  <2>2. (pu \o v) \o wz = pu \o (v \o wz)
    BY <2>1, ConcatAssociative
  <2>3. QED
    BY <2>2, <1>14 DEF pu, wz
<1>16. setup = p \o FromPin0
  <2>1. p \in Seq(Q) /\ u \in Seq(Q) /\ vz \in Seq(Q)
    BY <1>5, <1>10
  <2> HIDE DEF vz
  <2>2. (p \o u) \o vz = p \o (u \o vz)
    BY <2>1, ConcatAssociative
  <2>3. QED
    BY <2>2, <1>15, <1>11 DEF vz
<1>17. QED
  BY <1>3, <1>16 DEF EndsIn

LEMMA PollCode ==
  /\ poll # <<>> /\ Head(poll) = Get("gpio", "INT_STATUS", {0}) /\ Tail(poll) = <<Local("test")>>
  /\ poll_hit # <<>> /\ Head(poll_hit) = ClearBits("gpio", "INT_STATUS", {0})
  /\ Tail(poll_hit) = <<Get("gpio", "IN", {0}), Keeps>>
<1> DEFINE a == ClearBits("gpio", "INT_STATUS", {0})
           b == Get("gpio", "IN", {0})
           c == Get("gpio", "INT_STATUS", {0})
           d == Local("test")
           S == {a, b, c, d, Keeps}
<1>1. poll = <<c>> \o <<d>> /\ poll_hit = (<<a>> \o <<b>>) \o <<Keeps>>
  BY DEF poll, poll_hit, tinymcu_gpio_irq_pending, tinymcu_gpio_irq_clear, tinymcu_gpio_get, Keeps
<1>2. /\ a \in S /\ c \in S /\ <<a>> \in Seq(S) /\ <<b>> \in Seq(S) /\ <<d>> \in Seq(S)
      /\ <<Keeps>> \in Seq(S) /\ <<b, Keeps>> \in Seq(S)
  OBVIOUS
<1> HIDE DEF a, b, c, d, S
<1>3. poll # <<>> /\ Head(poll) = c /\ Tail(poll) = <<d>>
  BY <1>1, <1>2, FirstStatement
<1>4. <<b>> \o <<Keeps>> = <<b, Keeps>>
  BY PairIs
<1>5. poll_hit = <<a>> \o <<b, Keeps>>
  <2> DEFINE A == <<a>>
             B == <<b>>
             C == <<Keeps>>
  <2>1. A \in Seq(S) /\ B \in Seq(S) /\ C \in Seq(S)
    BY <1>2
  <2> HIDE DEF A, B, C
  <2>2. (A \o B) \o C = A \o (B \o C)
    BY <2>1, ConcatAssociative
  <2>3. QED
    BY <1>1, <1>4, <2>2 DEF A, B, C
<1>6. poll_hit # <<>> /\ Head(poll_hit) = a /\ Tail(poll_hit) = <<b, Keeps>>
  BY <1>2, <1>5, FirstStatement
<1>7. QED
  BY <1>3, <1>6 DEF a, b, c, d

-----------------------------------------------------------------------------
(* A statement. *)

LEMMA StatementIs ==
  ASSUME HartShape(hart), Execute
  PROVE  LET th  == Running(hart)
             s   == Head(th.code)
             n   == Stepped(th, ReadWord)
             req == HartReq(hart, mip)
         IN /\ th.code # <<>> /\ Port(req)
            /\ s.op = "modify" /\ s.dev = "gpio" /\ s.reg # "IN" =>
                 \/ /\ th.acc = <<>> /\ ~req.we
                    /\ n = [code |-> th.code, acc |-> <<gpio[s.reg]>>, ret |-> th.ret]
                 \/ /\ th.acc # <<>> /\ req = WriteReq("gpio", s.reg, Stored(s, th.acc[1]))
                    /\ n = Behind(th, th.ret)
            /\ s.op = "get" => ~req.we /\ n = Behind(th, ReadWord \cap s.mask)
            /\ s.op = "get" /\ s.dev = "gpio" /\ s.reg = "IN" => ReadWord = raw
            /\ s.op = "assign" => req = WriteReq(s.dev, s.reg, s.val) /\ n = Behind(th, th.ret)
            /\ s.op \in {"local", "csrs", "csrc", "csrw"} => ~req.we /\ n = Behind(th, th.ret)
<1> DEFINE th  == Running(hart)
           s   == Head(th.code)
           n   == Stepped(th, ReadWord)
           req == HartReq(hart, mip)
<1>1. th.code # <<>> /\ Port(req) /\ req = Request(th)
  BY DEF Execute, CanExecute, Done, HartReq
<1>2. ThreadShape(th)
  BY RunningShape
<1>3. ReadWord = IF req.dev = "gpio" THEN GpioRead(gpio, req.reg, raw) ELSE {}
  BY DEF ReadWord
<1> HIDE DEF req
<1> DEFINE word == ReadWord
<1>4. req = IF s.op \notin BusOps THEN NoReq
            ELSE CASE s.op = "assign" -> WriteReq(s.dev, s.reg, s.val)
                   [] s.op = "modify" /\ th.acc # <<>> ->
                        WriteReq(s.dev, s.reg, Stored(s, th.acc[1]))
                   [] OTHER -> ReadReq(s.dev, s.reg)
  BY <1>1 DEF Request, Done
<1> HIDE DEF th, word
<1>5. ASSUME s.op = "modify", s.dev = "gpio", s.reg # "IN"
      PROVE  \/ /\ th.acc = <<>> /\ ~req.we
                /\ n = [code |-> th.code, acc |-> <<gpio[s.reg]>>, ret |-> th.ret]
             \/ /\ th.acc # <<>> /\ req = WriteReq("gpio", s.reg, Stored(s, th.acc[1]))
                /\ n = Behind(th, th.ret)
  <2>1. CASE th.acc = <<>>
    <3>1. req = ReadReq("gpio", s.reg)
      BY <1>4, <1>5, <2>1 DEF BusOps
    <3>2. ReadWord = gpio[s.reg] /\ ~req.we
      BY <1>3, <1>5, <3>1 DEF ReadReq, GpioRead
    <3>3. QED
      BY <1>2, <1>5, <2>1, <3>2, SteppedLoad DEF word
  <2>2. CASE th.acc # <<>>
    BY <1>2, <1>4, <1>5, <2>2, SteppedOn DEF BusOps, word
  <2>3. QED
    BY <2>1, <2>2
<1>6. ASSUME s.op = "get" PROVE ~req.we /\ n = Behind(th, word \cap s.mask)
  BY <1>2, <1>4, <1>6, SteppedGet DEF BusOps, ReadReq, word
<1>7. ASSUME s.op = "get", s.dev = "gpio", s.reg = "IN" PROVE ReadWord = raw
  BY <1>3, <1>4, <1>7 DEF BusOps, ReadReq, GpioRead
<1>8. ASSUME s.op = "assign"
      PROVE  req = WriteReq(s.dev, s.reg, s.val) /\ n = Behind(th, th.ret)
  BY <1>2, <1>4, <1>8, SteppedOn DEF BusOps, word
<1>9. ASSUME s.op \in {"local", "csrs", "csrc", "csrw"}
      PROVE  ~req.we /\ n = Behind(th, th.ret)
  BY <1>2, <1>4, <1>9, SteppedOn DEF BusOps, NoReq, word
<1>10. QED
  BY <1>1, <1>5, <1>6, <1>7, <1>8, <1>9 DEF th, req, word

-----------------------------------------------------------------------------
(* The port under the program. *)

\* A copy w of the inputs that differs from the last sample of the port only
\* where the port has raised a flag.
Fresh(w, g) == Debounce = 0 => (w \cap Watched) \ g.INT_STATUS = (g.prev \cap Watched) \ g.INT_STATUS
\* Edges of the watched pins raise their flags.
Armed(g) == TINYMCU_GPIO_CONFIG_GLOBAL_INT_EN \subseteq g.CONFIG /\ Watched \subseteq g.INT_CONFIG
NoFilter(g) == Debounce = 0 => g.CONFIG \cap Mask = {}

LEMMA PortIs ==
  ASSUME NEW req, Port(req)
  PROVE  /\ UNCHANGED <<program, Debounce, Poll, Watched>>
         /\ gpio'.CONFIG = IF Writes(req, "gpio", "CONFIG") THEN req.data ELSE gpio.CONFIG
         /\ gpio'.INT_CONFIG = IF Writes(req, "gpio", "INT_CONFIG") THEN req.data ELSE gpio.INT_CONFIG
         /\ gpio'.INT_STATUS = IF Writes(req, "gpio", "INT_STATUS") THEN req.data
                               ELSE gpio.INT_STATUS \cup Edges(gpio, raw)
         /\ gpio'.prev = Filtered(gpio, raw)
  BY DEF Port, GpioClock, GpioRegister, Debounce, Poll, Watched

LEMMA PortKeepsFresh ==
  ASSUME NEW req, Port(req), ~Writes(req, "gpio", "INT_STATUS"), Armed(gpio),
         NEW w, Fresh(w, gpio)
  PROVE  Fresh(w, gpio')
<1> DEFINE F == Filtered(gpio, raw)
<1>1. gpio'.INT_STATUS = gpio.INT_STATUS \cup Edges(gpio, raw) /\ gpio'.prev = F
  BY PortIs
<1>2. Edges(gpio, raw) = gpio.INT_CONFIG \cap ((F \ gpio.prev) \cup (gpio.prev \ F))
  BY DEF Edges, Armed
<1>3. Watched \subseteq gpio.INT_CONFIG
  BY DEF Armed
<1> HIDE DEF F
<1>4. QED
  BY <1>1, <1>2, <1>3 DEF Fresh

\* What is read from the port is the next sample.
LEMMA PortRead ==
  ASSUME NEW req, Port(req), NoFilter(gpio), NEW m, Watched \subseteq m
  PROVE  Fresh(raw \cap m, gpio')
<1>1. CASE Debounce = 0
  <2>1. Threshold(gpio) = 0
    BY <1>1, EmptyIsZero DEF NoFilter
  <2>2. gpio'.prev = raw
    BY <2>1, PortIs DEF Filtered
  <2>3. QED
    BY <2>2 DEF Fresh
<1>2. QED
  BY <1>1 DEF Fresh

-----------------------------------------------------------------------------
(* The inductive invariant. *)

\* Main is about to store a register of which only it is the writer.
MainLoaded == \/ hart.main.acc = <<>>
              \/ Head(hart.main.code).reg \notin {"CONFIG", "INT_CONFIG"}
              \/ hart.main.acc = <<gpio[Head(hart.main.code).reg]>>
Alone == ~hart.trapped /\ hart.MIE = FALSE /\ MainLoaded

\* Until the edges are armed and the port is read, nothing is promised.
SetsUp ==
  /\ Alone
  /\ \/ EndsIn(hart.main.code, FromPin0, Prepares)
     \/ hart.main.code = FromPin1 /\ 0 \in gpio.INT_CONFIG
     \/ hart.main.code = FromGlobal /\ Inputs \subseteq gpio.INT_CONFIG
     \/ /\ hart.main.code \in {FromRead, FromKeep}
        /\ TINYMCU_GPIO_CONFIG_GLOBAL_INT_EN \subseteq gpio.CONFIG
        /\ Inputs \subseteq gpio.INT_CONFIG
        /\ hart.main.code = FromKeep => Fresh(hart.main.ret, gpio)

\* A program that polls gives the promise up when it clears the flag, and
\* renews it when it reads the pin.
Polls ==
  /\ Poll /\ Alone /\ Armed(gpio)
  /\ \/ hart.main.code \in {Rest, poll, <<Local("test")>>} /\ Fresh(seen, gpio)
     \/ hart.main.code \in {poll_hit, <<Get("gpio", "IN", {0}), Keeps>>}
     \/ hart.main.code = <<Keeps>> /\ Fresh(hart.main.ret, gpio)

\* With interrupts the handler does so; main leaves the flags alone.
Calm == {CsrSet(c, m) : c \in {"mie", "mstatus"}, m \in Bits}
        \cup {CsrClear("mstatus", m) : m \in Bits} \cup {CsrPut("mtvec", "trap_entry")}
        \cup {Toggle} \cup Shows
Answers ==
  /\ ~Poll /\ Armed(gpio) /\ hart.main.code \in Seq(Calm)
  /\ ~hart.trapped => Fresh(seen, gpio)
  /\ hart.trapped =>
       \/ EndsIn(hart.isr.code, <<ReadsPort, Keeps>>, Flags)
       \/ hart.isr.code = <<Keeps>> /\ Fresh(hart.isr.ret, gpio)
       \/ hart.isr.code \in Seq(Calm) /\ Fresh(seen, gpio)

SeenInv == /\ HartShape(hart) /\ seen \subseteq Watched /\ NoFilter(gpio)
           /\ (SetsUp \/ Polls \/ Answers)

-----------------------------------------------------------------------------

LEMMA MainIs ==
  ASSUME HartShape(hart), ~hart.trapped, Execute
  PROVE  LET s == Head(hart.main.code)
             n == Stepped(hart.main, ReadWord)
         IN ThreadShape(n) =>
              /\ HartShape(hart') /\ ~hart'.trapped
              /\ ~(s.op \in {"csrs", "csrc"} /\ s.reg = "mstatus") => hart'.MIE = hart.MIE
              /\ hart'.main.acc = n.acc /\ hart'.main.ret = n.ret
              /\ n.code # <<>> => hart'.main.code = n.code
              /\ n.code = <<>> => hart'.main.code \in Loop
<1>1. Running(hart) = hart.main
  BY DEF Running
<1>2. QED
  BY <1>1, ExecuteIs

\* A read-modify-write of main.
LEMMA ModifyMain ==
  ASSUME HartShape(hart), Alone, Execute, NoFilter(gpio),
         NEW s, s = Head(hart.main.code), s.op = "modify", s.dev = "gpio", s.reg # "IN", s.flip = {},
         s.reg = "CONFIG" /\ Debounce = 0 => s.set \cap Mask = {}
  PROVE  /\ HartShape(hart') /\ Alone' /\ NoFilter(gpio)' /\ seen' = seen
         /\ hart'.main.ret = hart.main.ret
         /\ Port(HartReq(hart, mip))
         /\ Writes(HartReq(hart, mip), "gpio", "INT_STATUS") => s.reg = "INT_STATUS"
         /\ \/ /\ hart'.main.code = hart.main.code
               /\ gpio'.CONFIG = gpio.CONFIG /\ gpio'.INT_CONFIG = gpio.INT_CONFIG
            \/ /\ Tail(hart.main.code) # <<>> => hart'.main.code = Tail(hart.main.code)
               /\ Tail(hart.main.code) = <<>> => hart'.main.code \in Loop
               /\ gpio'.CONFIG = IF s.reg = "CONFIG" THEN (gpio.CONFIG \ s.clr) \cup s.set ELSE gpio.CONFIG
               /\ gpio'.INT_CONFIG = IF s.reg = "INT_CONFIG" THEN (gpio.INT_CONFIG \ s.clr) \cup s.set
                                     ELSE gpio.INT_CONFIG
<1> DEFINE m   == hart.main
           n   == Stepped(m, ReadWord)
           req == HartReq(hart, mip)
<1>1. Running(hart) = m /\ ~hart.trapped /\ hart.MIE = FALSE
  BY DEF Alone, Running
<1>2. /\ m.code # <<>> /\ Port(req)
      /\ \/ m.acc = <<>> /\ ~req.we /\ n = [code |-> m.code, acc |-> <<gpio[s.reg]>>, ret |-> m.ret]
         \/ /\ m.acc # <<>> /\ req = WriteReq("gpio", s.reg, Stored(s, m.acc[1]))
            /\ n = Behind(m, m.ret)
  BY <1>1, StatementIs
<1>3. ThreadShape(n)
  BY <1>2 DEF ThreadShape, Behind
<1>4. /\ HartShape(hart') /\ ~hart'.trapped /\ hart'.MIE = FALSE
      /\ hart'.main.acc = n.acc /\ hart'.main.ret = n.ret
      /\ n.code # <<>> => hart'.main.code = n.code
      /\ n.code = <<>> => hart'.main.code \in Loop
  BY <1>1, <1>3, MainIs
<1>5. seen' = seen
  BY <1>1 DEF Execute, At, Local
<1>6. /\ gpio'.CONFIG = IF Writes(req, "gpio", "CONFIG") THEN req.data ELSE gpio.CONFIG
      /\ gpio'.INT_CONFIG = IF Writes(req, "gpio", "INT_CONFIG") THEN req.data ELSE gpio.INT_CONFIG
      /\ Debounce' = Debounce
  BY <1>2, PortIs
<1>7. MainLoaded
  BY DEF Alone
<1> HIDE DEF n, req
<1>8. CASE ~req.we /\ n = [code |-> m.code, acc |-> <<gpio[s.reg]>>, ret |-> m.ret]
  <2>1. gpio'.CONFIG = gpio.CONFIG /\ gpio'.INT_CONFIG = gpio.INT_CONFIG /\ ~Writes(req, "gpio", "INT_STATUS")
    BY <1>6, <1>8 DEF Writes
  <2>2. hart'.main.code = m.code /\ hart'.main.acc = <<gpio[s.reg]>> /\ hart'.main.ret = m.ret
    BY <1>2, <1>4, <1>8
  <2>3. MainLoaded'
    <3>1. CASE s.reg = "CONFIG"
      BY <2>1, <2>2, <3>1 DEF MainLoaded
    <3>2. CASE s.reg = "INT_CONFIG"
      BY <2>1, <2>2, <3>2 DEF MainLoaded
    <3>3. CASE s.reg \notin {"CONFIG", "INT_CONFIG"}
      BY <2>2, <3>3 DEF MainLoaded
    <3>4. QED
      BY <3>1, <3>2, <3>3
  <2>4. NoFilter(gpio)'
    BY <1>6, <2>1 DEF NoFilter
  <2>5. QED
    BY <1>2, <1>4, <1>5, <2>1, <2>2, <2>3, <2>4 DEF Alone, req
<1>9. CASE m.acc # <<>> /\ req = WriteReq("gpio", s.reg, Stored(s, m.acc[1])) /\ n = Behind(m, m.ret)
  <2>1. n.code = Tail(m.code) /\ n.acc = <<>> /\ n.ret = m.ret
    BY <1>9 DEF Behind
  <2>2. /\ req.reg = s.reg /\ req.dev = "gpio" /\ req.we /\ req.data = (m.acc[1] \ s.clr) \cup s.set
    BY <1>9 DEF WriteReq, Stored
  <2>3. s.reg \in {"CONFIG", "INT_CONFIG"} => m.acc[1] = gpio[s.reg]
    BY <1>7, <1>9 DEF MainLoaded
  <2>4. /\ gpio'.CONFIG = IF s.reg = "CONFIG" THEN (gpio.CONFIG \ s.clr) \cup s.set ELSE gpio.CONFIG
        /\ gpio'.INT_CONFIG = IF s.reg = "INT_CONFIG" THEN (gpio.INT_CONFIG \ s.clr) \cup s.set
                              ELSE gpio.INT_CONFIG
    <3>1. CASE s.reg = "CONFIG"
      BY <1>6, <2>2, <2>3, <3>1 DEF Writes
    <3>2. CASE s.reg = "INT_CONFIG"
      BY <1>6, <2>2, <2>3, <3>2 DEF Writes
    <3>3. CASE s.reg \notin {"CONFIG", "INT_CONFIG"}
      BY <1>6, <2>2, <3>3 DEF Writes
    <3>4. QED
      BY <3>1, <3>2, <3>3
  <2>5. NoFilter(gpio)'
    BY <1>6, <2>4 DEF NoFilter
  <2>6. MainLoaded'
    BY <1>4, <2>1 DEF MainLoaded
  <2>7. QED
    BY <1>2, <1>4, <1>5, <2>1, <2>2, <2>4, <2>5, <2>6 DEF Alone, req, Writes
<1>10. QED
  BY <1>2, <1>8, <1>9

\* Any other statement of main.
LEMMA OtherMain ==
  ASSUME HartShape(hart), ~hart.trapped, Execute, NoFilter(gpio),
         NEW s, s = Head(hart.main.code), s.op \in {"get", "local", "csrs", "csrc", "csrw"}
  PROVE  /\ HartShape(hart') /\ ~hart'.trapped /\ MainLoaded' /\ NoFilter(gpio)'
         /\ s.op \in {"get", "local"} => hart'.MIE = hart.MIE
         /\ seen' = IF s = Keeps THEN hart.main.ret \cap Watched ELSE seen
         /\ hart'.main.ret = IF s.op = "get" THEN ReadWord \cap s.mask ELSE hart.main.ret
         /\ Port(HartReq(hart, mip)) /\ ~HartReq(hart, mip).we
         /\ gpio'.CONFIG = gpio.CONFIG /\ gpio'.INT_CONFIG = gpio.INT_CONFIG
         /\ Tail(hart.main.code) # <<>> => hart'.main.code = Tail(hart.main.code)
         /\ Tail(hart.main.code) = <<>> => hart'.main.code \in Loop
         /\ s.op = "get" /\ s.dev = "gpio" /\ s.reg = "IN" => ReadWord = raw
<1> DEFINE m   == hart.main
           n   == Stepped(m, ReadWord)
           req == HartReq(hart, mip)
           word == ReadWord
           v   == IF s.op = "get" THEN word \cap s.mask ELSE m.ret
<1>1. Running(hart) = m
  BY DEF Running
<1>2. /\ m.code # <<>> /\ Port(req) /\ ~req.we
      /\ n = Behind(m, v)
      /\ s.op = "get" /\ s.dev = "gpio" /\ s.reg = "IN" => word = raw
  BY <1>1, StatementIs
<1>3. seen' = IF s = Keeps THEN hart.main.ret \cap Watched ELSE seen
  BY <1>1, <1>2 DEF Execute, At, Keeps, Done
<1> HIDE DEF word
<1>4. n.code = Tail(m.code) /\ n.acc = <<>> /\ n.ret = v /\ ThreadShape(n)
  BY <1>2 DEF ThreadShape, Behind
<1>5. /\ HartShape(hart') /\ ~hart'.trapped
      /\ ~(s.op \in {"csrs", "csrc"} /\ s.reg = "mstatus") => hart'.MIE = hart.MIE
      /\ hart'.main.acc = n.acc /\ hart'.main.ret = n.ret
      /\ n.code # <<>> => hart'.main.code = n.code
      /\ n.code = <<>> => hart'.main.code \in Loop
  BY <1>4, MainIs
<1> HIDE DEF n, req, v
<1>6. gpio'.CONFIG = gpio.CONFIG /\ gpio'.INT_CONFIG = gpio.INT_CONFIG /\ Debounce' = Debounce
  BY <1>2, PortIs DEF Writes
<1>7. MainLoaded' /\ NoFilter(gpio)'
  BY <1>4, <1>5, <1>6 DEF MainLoaded, NoFilter
<1>8. s.op \in {"get", "local"} => hart'.MIE = hart.MIE
  BY <1>5
<1>9. QED
  BY <1>2, <1>3, <1>4, <1>5, <1>6, <1>7, <1>8 DEF req, v, word

LEMMA RestIs ==
  /\ Poll => Rest = <<ClearBits("gpio", "INT_CONFIG", {1})>>
  /\ ~Poll => Rest \in Seq(Calm)
<1>1. ~Poll => Rest \in Seq(Calm)
  <2>1. {11} \in Bits /\ {3} \in Bits
    BY DEF Bits
  <2> DEFINE a == CsrSet("mie", {11})
             b == CsrPut("mtvec", "trap_entry")
             c == CsrSet("mstatus", {3})
             C == Calm
  <2>2. a \in C /\ b \in C /\ c \in C
    BY <2>1 DEF Calm
  <2>3. ~Poll => Rest = <<a>> \o (<<b>> \o <<c>>)
    BY DEF Rest, tinymcu_csr_set_mie, tinymcu_trap_init, tinymcu_csr_write_mtvec,
       tinymcu_enable_global_interrupts, TINYMCU_MIE, TINYMCU_MSTATUS_MIE
  <2> HIDE DEF a, b, c, C
  <2>4. <<a>> \in Seq(C) /\ <<b>> \in Seq(C) /\ <<c>> \in Seq(C)
    BY <2>2
  <2>5. <<b>> \o <<c>> \in Seq(C)
    BY <2>4, ConcatProperties
  <2>6. <<a>> \o (<<b>> \o <<c>>) \in Seq(C)
    BY <2>4, <2>5, ConcatProperties
  <2>7. QED
    BY <2>3, <2>6 DEF C
<1>2. QED
  BY <1>1 DEF Rest, tinymcu_gpio_irq_disable

LEMMA UpdateCalm == update \in Seq(Calm)
<1> DEFINE a == CsrClear("mstatus", TINYMCU_MSTATUS_MIE)
           b == Toggle
           c == CsrSet("mstatus", TINYMCU_MSTATUS_MIE)
           C == Calm
<1>1. update = (<<a>> \o <<b>>) \o <<c>>
  BY DEF update, tinymcu_disable_global_interrupts, tinymcu_gpio_toggle,
         tinymcu_enable_global_interrupts, Toggle
<1>2. a \in C /\ b \in C /\ c \in C
  BY DEF Calm, Bits, TINYMCU_MSTATUS_MIE
<1> HIDE DEF a, b, c, C
<1>3. <<a>> \in Seq(C) /\ <<b>> \in Seq(C) /\ <<c>> \in Seq(C)
  BY <1>2
<1>4. <<a>> \o <<b>> \in Seq(C)
  BY <1>3, ConcatProperties
<1>5. (<<a>> \o <<b>>) \o <<c>> \in Seq(C)
  BY <1>3, <1>4, ConcatProperties
<1>6. QED
  BY <1>1, <1>5 DEF C

\* A copy cut to the watched inputs is as fresh as the word it was cut from.
LEMMA FreshCopy ==
  ASSUME NEW w, NEW g
  PROVE  Fresh(w \cap Watched, g) <=> Fresh(w, g)
BY DEF Fresh

LEMMA SetsUpPrepares ==
  ASSUME HartShape(hart), NoFilter(gpio), seen \subseteq Watched, Execute,
         Alone, EndsIn(hart.main.code, FromPin0, Prepares)
  PROVE  SeenInv'
<1> DEFINE c == hart.main.code
           s == Head(c)
<1>0. FromPin0 \in Seq(Quiet) /\ FromPin0 # <<>>
  BY SetupCode
<1>1. Prepares \subseteq Quiet
  BY ToFieldBits DEF Prepares, Quiet, Registers, Bits, Filter, Mask,
     TINYMCU_GPIO_CONFIG_DEBOUNCE_MASK, TINYMCU_GPIO_CONFIG_DEBOUNCE_LSB,
     TINYMCU_GPIO_CONFIG_DEBOUNCE_WIDTH
<1>2. \/ c = FromPin0
      \/ c # <<>> /\ s \in Prepares /\ EndsIn(Tail(c), FromPin0, Prepares)
  BY <1>0, <1>1, Ending
<1>3. UNCHANGED <<Poll, Debounce, Watched>>
  BY PortIs DEF Execute
<1>4. UNCHANGED <<FromPin0, Prepares, FromPin1>>
  BY <1>3 DEF FromPin0, FromPin1, FromGlobal, FromRead, FromKeep, Rest, Prepares, Filter
<1>5. CASE c = FromPin0
  <2>1. /\ s = SetBits("gpio", "INT_CONFIG", {0}) /\ Tail(c) = FromPin1 /\ FromPin1 # <<>>
    BY <1>5, SetupCode
  <2>2. /\ s.op = "modify" /\ s.dev = "gpio" /\ s.reg = "INT_CONFIG" /\ s.flip = {}
        /\ s.clr = {} /\ s.set = {0}
    BY <2>1 DEF SetBits, Modify
  <2>3. /\ HartShape(hart') /\ Alone' /\ NoFilter(gpio)' /\ seen' = seen
        /\ \/ hart'.main.code = c
           \/ hart'.main.code = FromPin1 /\ 0 \in gpio'.INT_CONFIG
    BY <2>1, <2>2, ModifyMain
  <2>4. SetsUp'
    <3>1. CASE hart'.main.code = c
      <4>1. EndsIn(c, FromPin0, Prepares)'
        BY <1>4, <3>1 DEF EndsIn
      <4>2. QED
        BY <2>3, <3>1, <4>1 DEF SetsUp
    <3>2. CASE hart'.main.code = FromPin1 /\ 0 \in gpio'.INT_CONFIG
      BY <1>4, <2>3, <3>2 DEF SetsUp
    <3>3. QED
      BY <2>3, <3>1, <3>2
  <2>5. QED
    BY <1>3, <2>3, <2>4 DEF SeenInv
<1>6. CASE c # <<>> /\ s \in Prepares /\ EndsIn(Tail(c), FromPin0, Prepares)
  <2>1. /\ s.op = "modify" /\ s.dev = "gpio" /\ s.reg \in {"DDR", "PULL_SEL", "PULL_EN", "CONFIG"}
        /\ s.flip = {} /\ (s.reg = "CONFIG" /\ Debounce = 0 => s.set \cap Mask = {})
    BY <1>6, ZeroIsEmpty DEF Prepares, Filter, Modify
  <2>2. Tail(c) # <<>>
    <3> DEFINE d == Tail(c)
    <3>1. EndsIn(d, FromPin0, Prepares)
      BY <1>6
    <3> HIDE DEF d
    <3>2. d = FromPin0 \/ d # <<>>
      BY <1>0, <1>1, <3>1, Ending
    <3>3. QED
      BY <1>0, <3>2 DEF d
  <2>3. /\ HartShape(hart') /\ Alone' /\ NoFilter(gpio)' /\ seen' = seen
        /\ hart'.main.code = c \/ hart'.main.code = Tail(c)
    BY <2>1, <2>2, ModifyMain
  <2>4. EndsIn(hart'.main.code, FromPin0, Prepares)
    BY <1>6, <2>3
  <2>5. SetsUp'
    BY <1>4, <2>3, <2>4 DEF SetsUp, EndsIn
  <2>6. QED
    BY <1>3, <2>3, <2>5 DEF SeenInv
<1>7. QED
  BY <1>2, <1>5, <1>6

LEMMA SetsUpStep ==
  ASSUME SeenInv, SetsUp, Execute
  PROVE  SeenInv'
<1> DEFINE c == hart.main.code
           s == Head(c)
           req == HartReq(hart, mip)
<1>1. /\ HartShape(hart) /\ NoFilter(gpio) /\ seen \subseteq Watched /\ Alone
      /\ ~hart.trapped /\ hart.MIE = FALSE
  BY DEF SeenInv, SetsUp, Alone
<1>2. /\ UNCHANGED <<Poll, Debounce, Watched>>
      /\ Watched \subseteq Inputs
  BY PortIs DEF Execute, Watched, Inputs
<1>3. UNCHANGED <<FromPin1, FromGlobal, FromRead, FromKeep, Rest>>
  BY <1>2 DEF FromPin0, FromPin1, FromGlobal, FromRead, FromKeep, Rest
<1>4. CASE EndsIn(hart.main.code, FromPin0, Prepares)
  BY <1>1, <1>4, SetsUpPrepares
<1>5. CASE c = FromPin1 /\ 0 \in gpio.INT_CONFIG
  <2>1. /\ s = SetBits("gpio", "INT_CONFIG", {1}) /\ Tail(c) = FromGlobal /\ FromGlobal # <<>>
    BY <1>5, SetupCode
  <2>2. /\ s.op = "modify" /\ s.dev = "gpio" /\ s.reg = "INT_CONFIG" /\ s.flip = {}
        /\ s.clr = {} /\ s.set = {1}
    BY <2>1 DEF SetBits, Modify
  <2>3. /\ HartShape(hart') /\ Alone' /\ NoFilter(gpio)' /\ seen' = seen
        /\ \/ hart'.main.code = FromPin1 /\ 0 \in gpio'.INT_CONFIG
           \/ hart'.main.code = FromGlobal /\ Inputs \subseteq gpio'.INT_CONFIG
    BY <1>1, <1>5, <2>1, <2>2, ModifyMain DEF Inputs
  <2>4. SetsUp'
    BY <1>3, <2>3 DEF SetsUp
  <2>5. QED
    BY <1>1, <1>2, <2>3, <2>4 DEF SeenInv
<1>6. CASE c = FromGlobal /\ Inputs \subseteq gpio.INT_CONFIG
  <2>1. /\ s = SetBits("gpio", "CONFIG", {0}) /\ Tail(c) = FromRead /\ FromRead # <<>>
    BY <1>6, SetupCode DEF TINYMCU_GPIO_CONFIG_GLOBAL_INT_EN
  <2>2. /\ s.op = "modify" /\ s.dev = "gpio" /\ s.reg = "CONFIG" /\ s.flip = {}
        /\ s.clr = {} /\ s.set = {0}
    BY <2>1 DEF SetBits, Modify
  <2>3. s.set \cap Mask = {}
    BY <2>2 DEF Mask, TINYMCU_GPIO_CONFIG_DEBOUNCE_MASK, TINYMCU_GPIO_CONFIG_DEBOUNCE_LSB,
       TINYMCU_GPIO_CONFIG_DEBOUNCE_WIDTH
  <2>4. /\ HartShape(hart') /\ Alone' /\ NoFilter(gpio)' /\ seen' = seen
        /\ \/ hart'.main.code = FromGlobal /\ Inputs \subseteq gpio'.INT_CONFIG
           \/ /\ hart'.main.code = FromRead /\ Inputs \subseteq gpio'.INT_CONFIG
              /\ {0} \subseteq gpio'.CONFIG
    BY <1>1, <1>6, <2>1, <2>2, <2>3, ModifyMain
  <2>5. FromRead # FromKeep
    <3>1. ReadsPort # Keeps
      BY DEF ReadsPort, Keeps, Get, Local
    <3>2. QED
      BY <3>1, SetupCode
  <2>6. SetsUp'
    BY <1>3, <2>4, <2>5 DEF SetsUp, TINYMCU_GPIO_CONFIG_GLOBAL_INT_EN
  <2>7. QED
    BY <1>1, <1>2, <2>4, <2>6 DEF SeenInv
<1>7. CASE /\ c = FromRead /\ Inputs \subseteq gpio.INT_CONFIG
           /\ TINYMCU_GPIO_CONFIG_GLOBAL_INT_EN \subseteq gpio.CONFIG
  <2>1. s = ReadsPort /\ Tail(c) = FromKeep /\ FromKeep # <<>>
    BY <1>7, SetupCode
  <2>2. s.op = "get" /\ s.dev = "gpio" /\ s.reg = "IN" /\ s.mask = Word32 /\ s # Keeps
    BY <2>1 DEF ReadsPort, Get, Keeps, Local
  <2>3. /\ HartShape(hart') /\ ~hart'.trapped /\ MainLoaded' /\ NoFilter(gpio)' /\ seen' = seen
        /\ hart'.MIE = hart.MIE /\ hart'.main.ret = ReadWord \cap Word32 /\ ReadWord = raw
        /\ Port(req) /\ gpio'.CONFIG = gpio.CONFIG /\ gpio'.INT_CONFIG = gpio.INT_CONFIG
        /\ hart'.main.code = FromKeep
    BY <1>1, <2>1, <2>2, OtherMain
  <2>4. Watched \subseteq Word32
    BY DEF Watched, Inputs, Word32
  <2> HIDE DEF req
  <2>5. Fresh(raw \cap Word32, gpio')
    BY <1>1, <2>3, <2>4, PortRead
  <2>6. Fresh(hart.main.ret, gpio)'
    BY <1>2, <2>3, <2>5 DEF Fresh
  <2>7. SetsUp'
    BY <1>1, <1>3, <1>7, <2>3, <2>6 DEF SetsUp, Alone
  <2>8. QED
    BY <1>1, <1>2, <2>3, <2>7 DEF SeenInv
<1>8. CASE /\ c = FromKeep /\ Inputs \subseteq gpio.INT_CONFIG
           /\ TINYMCU_GPIO_CONFIG_GLOBAL_INT_EN \subseteq gpio.CONFIG
           /\ Fresh(hart.main.ret, gpio)
  <2>1. s = Keeps /\ Tail(c) = Rest
    BY <1>8, SetupCode
  <2>2. s.op = "local"
    BY <2>1 DEF Keeps, Local
  <2>3. /\ HartShape(hart') /\ ~hart'.trapped /\ MainLoaded' /\ NoFilter(gpio)'
        /\ hart'.MIE = hart.MIE /\ seen' = hart.main.ret \cap Watched
        /\ Port(req) /\ ~req.we /\ gpio'.CONFIG = gpio.CONFIG /\ gpio'.INT_CONFIG = gpio.INT_CONFIG
        /\ Rest # <<>> => hart'.main.code = Rest
        /\ Rest = <<>> => hart'.main.code \in Loop
    BY <1>1, <2>1, <2>2, OtherMain
  <2>4. Armed(gpio)
    BY <1>2, <1>8 DEF Armed
  <2>5. Armed(gpio)'
    BY <1>2, <2>3, <2>4 DEF Armed
  <2> HIDE DEF req
  <2>6. Fresh(hart.main.ret, gpio')
    BY <1>8, <2>3, <2>4, PortKeepsFresh DEF Writes
  <2>7. Fresh(seen, gpio)'
    BY <1>2, <2>3, <2>6, FreshCopy DEF Fresh
  <2>8. CASE Poll
    <3>1. Rest # <<>>
      BY <2>8, RestIs
    <3>2. Polls'
      BY <1>1, <1>2, <1>3, <2>3, <2>5, <2>7, <2>8, <3>1 DEF Polls, Alone
    <3>3. QED
      BY <1>2, <2>3, <3>2 DEF SeenInv
  <2>9. CASE ~Poll
    <3>1. hart'.main.code \in Seq(Calm)
      BY <2>3, <2>9, RestIs, UpdateCalm DEF Loop
    <3>2. Answers'
      BY <1>2, <2>3, <2>5, <2>7, <2>9, <3>1 DEF Answers
    <3>3. QED
      BY <1>2, <2>3, <3>2 DEF SeenInv
  <2>10. QED
    BY <2>8, <2>9
<1>9. QED
  BY <1>4, <1>5, <1>6, <1>7, <1>8 DEF SetsUp

LEMMA PollsStep ==
  ASSUME SeenInv, Polls, Execute
  PROVE  SeenInv'
<1> DEFINE c == hart.main.code
           s == Head(c)
           req == HartReq(hart, mip)
           test == <<Local("test")>>
           hit == <<Get("gpio", "IN", {0}), Keeps>>
<1>1. /\ HartShape(hart) /\ NoFilter(gpio) /\ seen \subseteq Watched /\ Alone
      /\ ~hart.trapped /\ hart.MIE = FALSE /\ Poll /\ Armed(gpio)
  BY DEF SeenInv, Polls, Alone
<1>2. UNCHANGED <<Poll, Debounce, Watched, Rest, poll>> /\ Watched = {0} /\ Loop = {poll, poll_hit}
  BY <1>1, PortIs DEF Execute, Watched, Rest, Loop, poll
<1> HIDE DEF req
<1>3. ASSUME HartShape(hart'), Alone', NoFilter(gpio)', Port(req),
             gpio'.CONFIG = gpio.CONFIG,
             gpio'.INT_CONFIG = gpio.INT_CONFIG \/ gpio'.INT_CONFIG = gpio.INT_CONFIG \ {1},
             seen' \subseteq Watched,
             \/ hart'.main.code \in {Rest, poll, test} /\ Fresh(seen', gpio')
             \/ hart'.main.code \in {poll_hit, hit}
             \/ hart'.main.code = <<Keeps>> /\ Fresh(hart'.main.ret, gpio')
      PROVE  SeenInv'
  <2>1. Armed(gpio)'
    BY <1>1, <1>2, <1>3 DEF Armed
  <2>2. (Fresh(seen', gpio') => Fresh(seen, gpio)') /\ (Fresh(hart'.main.ret, gpio') => Fresh(hart.main.ret, gpio)')
    BY <1>2 DEF Fresh
  <2>3. Polls'
    <3>1. Poll' /\ Alone' /\ Armed(gpio)'
      BY <1>1, <1>2, <1>3, <2>1
    <3>2. CASE hart'.main.code \in {Rest, poll, test} /\ Fresh(seen', gpio')
      BY <1>2, <2>2, <3>1, <3>2 DEF Polls
    <3>3. CASE hart'.main.code \in {poll_hit, hit}
      BY <3>1, <3>3 DEF Polls, poll_hit
    <3>4. CASE hart'.main.code = <<Keeps>> /\ Fresh(hart'.main.ret, gpio')
      BY <2>2, <3>1, <3>4 DEF Polls
    <3>5. QED
      BY <1>3, <3>2, <3>3, <3>4
  <2>4. QED
    BY <1>2, <1>3, <2>3 DEF SeenInv
<1>4. ASSUME NEW w, Fresh(w, gpio), Port(req), ~Writes(req, "gpio", "INT_STATUS")
      PROVE  Fresh(w, gpio')
  BY <1>1, <1>4, PortKeepsFresh
<1>5. CASE c = Rest /\ Fresh(seen, gpio)
  <2>1. s = ClearBits("gpio", "INT_CONFIG", {1}) /\ Tail(c) = <<>>
    <3> DEFINE x == ClearBits("gpio", "INT_CONFIG", {1})
    <3>1. c = <<x>>
      BY <1>1, <1>5, RestIs
    <3> HIDE DEF x, c
    <3>2. Head(c) = x /\ Tail(c) = <<>>
      BY <3>1
    <3>3. QED
      BY <3>2 DEF x
  <2>2. /\ s.op = "modify" /\ s.dev = "gpio" /\ s.reg = "INT_CONFIG" /\ s.flip = {}
        /\ s.clr = {1} /\ s.set = {}
    BY <2>1 DEF ClearBits, Modify
  <2>3. /\ HartShape(hart') /\ Alone' /\ NoFilter(gpio)' /\ seen' = seen
        /\ Port(req) /\ ~Writes(req, "gpio", "INT_STATUS") /\ gpio'.CONFIG = gpio.CONFIG
        /\ \/ hart'.main.code = c /\ gpio'.INT_CONFIG = gpio.INT_CONFIG
           \/ hart'.main.code \in Loop /\ gpio'.INT_CONFIG = gpio.INT_CONFIG \ {1}
    BY <1>1, <2>1, <2>2, ModifyMain DEF req
  <2>4. Fresh(seen', gpio')
    BY <1>4, <1>5, <2>3
  <2>5. QED
    BY <1>1, <1>2, <1>3, <1>5, <2>3, <2>4
<1>6. CASE c = poll /\ Fresh(seen, gpio)
  <2>1. s = Get("gpio", "INT_STATUS", {0}) /\ Tail(c) = test /\ test # <<>>
    BY <1>6, PollCode
  <2>2. s.op = "get" /\ s # Keeps
    BY <2>1 DEF Get, Keeps, Local
  <2>3. /\ HartShape(hart') /\ ~hart'.trapped /\ MainLoaded' /\ NoFilter(gpio)'
        /\ hart'.MIE = hart.MIE /\ seen' = seen /\ Port(req) /\ ~req.we
        /\ gpio'.CONFIG = gpio.CONFIG /\ gpio'.INT_CONFIG = gpio.INT_CONFIG
        /\ hart'.main.code = test
    BY <1>1, <2>1, <2>2, OtherMain DEF req
  <2>4. Fresh(seen', gpio') /\ Alone'
    BY <1>1, <1>4, <1>6, <2>3 DEF Writes, Alone
  <2>5. QED
    BY <1>1, <1>3, <2>3, <2>4
<1>7. CASE c = test /\ Fresh(seen, gpio)
  <2>1. s = Local("test") /\ Tail(c) = <<>>
    BY <1>7
  <2>2. s.op = "local" /\ s # Keeps
    BY <2>1 DEF Keeps, Local
  <2>3. /\ HartShape(hart') /\ ~hart'.trapped /\ MainLoaded' /\ NoFilter(gpio)'
        /\ hart'.MIE = hart.MIE /\ seen' = seen /\ Port(req) /\ ~req.we
        /\ gpio'.CONFIG = gpio.CONFIG /\ gpio'.INT_CONFIG = gpio.INT_CONFIG
        /\ hart'.main.code \in Loop
    BY <1>1, <2>1, <2>2, OtherMain DEF req
  <2>4. Fresh(seen', gpio') /\ Alone'
    BY <1>1, <1>4, <1>7, <2>3 DEF Writes, Alone
  <2>5. QED
    BY <1>1, <1>2, <1>3, <2>3, <2>4
<1>8. CASE c = poll_hit
  <2>1. s = ClearBits("gpio", "INT_STATUS", {0}) /\ Tail(c) = hit /\ hit # <<>>
    BY <1>8, PollCode
  <2>2. /\ s.op = "modify" /\ s.dev = "gpio" /\ s.reg = "INT_STATUS" /\ s.flip = {}
    BY <2>1 DEF ClearBits, Modify
  <2>3. /\ HartShape(hart') /\ Alone' /\ NoFilter(gpio)' /\ seen' = seen
        /\ Port(req) /\ gpio'.CONFIG = gpio.CONFIG
        /\ hart'.main.code \in {poll_hit, hit} /\ gpio'.INT_CONFIG = gpio.INT_CONFIG
    BY <1>1, <1>8, <2>1, <2>2, ModifyMain DEF req
  <2>4. QED
    BY <1>1, <1>3, <2>3
<1>9. CASE c = hit
  <2>1. s = Get("gpio", "IN", {0}) /\ Tail(c) = <<Keeps>> /\ <<Keeps>> # <<>>
    BY <1>9
  <2>2. s.op = "get" /\ s.dev = "gpio" /\ s.reg = "IN" /\ s.mask = {0} /\ s # Keeps
    BY <2>1 DEF Get, Keeps, Local
  <2>3. /\ HartShape(hart') /\ ~hart'.trapped /\ MainLoaded' /\ NoFilter(gpio)'
        /\ hart'.MIE = hart.MIE /\ seen' = seen /\ Port(req)
        /\ hart'.main.ret = ReadWord \cap {0} /\ ReadWord = raw
        /\ gpio'.CONFIG = gpio.CONFIG /\ gpio'.INT_CONFIG = gpio.INT_CONFIG
        /\ hart'.main.code = <<Keeps>>
    BY <1>1, <2>1, <2>2, OtherMain DEF req
  <2>4. Fresh(hart'.main.ret, gpio') /\ Alone'
    BY <1>1, <1>2, <2>3, PortRead DEF Alone
  <2>5. QED
    BY <1>1, <1>3, <2>3, <2>4
<1>10. CASE c = <<Keeps>> /\ Fresh(hart.main.ret, gpio)
  <2>1. s = Keeps /\ Tail(c) = <<>>
    BY <1>10
  <2>2. s.op = "local"
    BY <2>1 DEF Keeps, Local
  <2>3. /\ HartShape(hart') /\ ~hart'.trapped /\ MainLoaded' /\ NoFilter(gpio)'
        /\ hart'.MIE = hart.MIE /\ seen' = hart.main.ret \cap Watched /\ Port(req) /\ ~req.we
        /\ gpio'.CONFIG = gpio.CONFIG /\ gpio'.INT_CONFIG = gpio.INT_CONFIG
        /\ hart'.main.code \in Loop
    BY <1>1, <2>1, <2>2, OtherMain DEF req
  <2>4. Fresh(hart.main.ret, gpio') /\ Alone'
    BY <1>1, <1>4, <1>10, <2>3 DEF Writes, Alone
  <2>5. Fresh(seen', gpio')
    BY <2>3, <2>4, FreshCopy
  <2>6. QED
    BY <1>1, <1>2, <1>3, <2>3, <2>4, <2>5
<1>11. QED
  BY <1>5, <1>6, <1>7, <1>8, <1>9, <1>10 DEF Polls

-----------------------------------------------------------------------------
(* Interrupts on. *)

LEMMA CalmHead ==
  ASSUME NEW s \in Calm
  PROVE  /\ \/ s.op \in {"csrs", "csrc", "csrw"}
            \/ s.op = "modify" /\ s.dev = "gpio" /\ s.reg = "OUT"
         /\ s # Keeps
<1>1. CASE s \in {Toggle} \cup Shows
  BY <1>1 DEF Toggle, Shows, ToggleBits, SetBits, ClearBits, Modify, Keeps, Local
<1>2. CASE s \notin {Toggle} \cup Shows
  BY <1>2 DEF Calm, CsrSet, CsrClear, CsrPut, Keeps, Local
<1>3. QED
  BY <1>1, <1>2

LEMMA FlagHead ==
  ASSUME NEW s \in Flags
  PROVE  /\ s.op \in {"modify", "assign", "get"} /\ s.dev = "gpio" /\ s.reg = "INT_STATUS"
         /\ s # Keeps
BY DEF Flags, Modify, Assign, Get, Keeps, Local

\* A statement of the running thread that leaves CONFIG and INT_CONFIG alone.
LEMMA OtherStep ==
  ASSUME HartShape(hart), Execute, NoFilter(gpio),
         NEW s, s = Head(Running(hart).code),
         \/ s.op \in {"get", "local", "csrs", "csrc", "csrw"}
         \/ s.op \in {"modify", "assign"} /\ s.dev = "gpio" /\ s.reg \in {"OUT", "INT_STATUS"}
  PROVE  LET th  == Running(hart)
             n   == Stepped(Running(hart), ReadWord)
             req == HartReq(hart, mip)
         IN /\ th.code # <<>> /\ ThreadShape(n) /\ HartShape(hart') /\ NoFilter(gpio)'
            /\ n.code = th.code \/ n.code = Tail(th.code)
            /\ s.op # "modify" => n.code = Tail(th.code)
            /\ Port(req) /\ (~Writes(req, "gpio", "INT_STATUS") \/ s.reg = "INT_STATUS")
            /\ gpio'.CONFIG = gpio.CONFIG /\ gpio'.INT_CONFIG = gpio.INT_CONFIG
            /\ Armed(gpio) => Armed(gpio)'
            /\ seen' = IF s = Keeps THEN th.ret \cap Watched ELSE seen
            /\ s.op = "get" => n.ret = ReadWord \cap s.mask
            /\ s.op = "get" /\ s.dev = "gpio" /\ s.reg = "IN" => ReadWord = raw
<1> DEFINE th  == Running(hart)
           n   == Stepped(th, ReadWord)
           req == HartReq(hart, mip)
           word == ReadWord
<1>1. /\ th.code # <<>> /\ Port(req)
      /\ s.op = "modify" /\ s.dev = "gpio" /\ s.reg # "IN" =>
           \/ /\ th.acc = <<>> /\ ~req.we
              /\ n = [code |-> th.code, acc |-> <<gpio[s.reg]>>, ret |-> th.ret]
           \/ /\ th.acc # <<>> /\ req = WriteReq("gpio", s.reg, Stored(s, th.acc[1]))
              /\ n = Behind(th, th.ret)
      /\ s.op = "get" => ~req.we /\ n = Behind(th, word \cap s.mask)
      /\ s.op = "get" /\ s.dev = "gpio" /\ s.reg = "IN" => word = raw
      /\ s.op = "assign" => req = WriteReq(s.dev, s.reg, s.val) /\ n = Behind(th, th.ret)
      /\ s.op \in {"local", "csrs", "csrc", "csrw"} => ~req.we /\ n = Behind(th, th.ret)
  BY StatementIs
<1>2. seen' = IF s = Keeps THEN th.ret \cap Watched ELSE seen
  BY <1>1 DEF Execute, At, Keeps, Done
<1> HIDE DEF n, req, word, th
<1>3. /\ ~req.we \/ (req.dev = "gpio" /\ req.reg = s.reg /\ s.reg \in {"OUT", "INT_STATUS"})
  BY <1>1 DEF WriteReq
<1>4. /\ ~Writes(req, "gpio", "CONFIG") /\ ~Writes(req, "gpio", "INT_CONFIG")
      /\ ~Writes(req, "gpio", "INT_STATUS") \/ s.reg = "INT_STATUS"
  BY <1>3 DEF Writes
<1>5. UNCHANGED <<Debounce, Watched>> /\ gpio'.CONFIG = gpio.CONFIG /\ gpio'.INT_CONFIG = gpio.INT_CONFIG
  BY <1>1, <1>4, PortIs
<1>6. NoFilter(gpio)' /\ (Armed(gpio) => Armed(gpio)')
  BY <1>5 DEF NoFilter, Armed
<1>7. /\ n.code = th.code \/ n.code = Tail(th.code)
      /\ s.op # "modify" => n.code = Tail(th.code)
      /\ s.op = "get" => n.ret = word \cap s.mask
      /\ n = [code |-> n.code, acc |-> n.acc, ret |-> n.ret]
  <2>1. \/ n = Behind(th, th.ret)
        \/ n = Behind(th, word \cap s.mask) /\ s.op = "get"
        \/ s.op = "modify" /\ n = [code |-> th.code, acc |-> <<gpio[s.reg]>>, ret |-> th.ret]
    BY <1>1
  <2>2. s.op = "get" => n = Behind(th, word \cap s.mask)
    BY <1>1
  <2>3. CASE n = Behind(th, th.ret)
    <3>1. n.code = Tail(th.code) /\ n = [code |-> n.code, acc |-> n.acc, ret |-> n.ret]
      BY <2>3 DEF Behind
    <3>2. s.op = "get" => n.ret = word \cap s.mask
      BY <2>2 DEF Behind
    <3>3. QED
      BY <3>1, <3>2
  <2>4. CASE n = Behind(th, word \cap s.mask) /\ s.op = "get"
    BY <2>4 DEF Behind
  <2>5. CASE s.op = "modify" /\ n = [code |-> th.code, acc |-> <<gpio[s.reg]>>, ret |-> th.ret]
    BY <2>5
  <2>6. QED
    BY <2>1, <2>3, <2>4, <2>5
<1>8. ThreadShape(n)
  BY <1>7 DEF ThreadShape
<1>9. HartShape(hart')
  BY <1>8, ExecuteIs DEF n, th
<1>10. QED
  BY <1>1, <1>2, <1>4, <1>5, <1>6, <1>7, <1>8, <1>9 DEF n, req, word, th

\* What is left of calm code is calm.
LEMMA CalmStep ==
  ASSUME NEW c \in Seq(Calm), c # <<>>
  PROVE  Head(c) \in Calm /\ Tail(c) \in Seq(Calm)
<1> DEFINE C == Calm
<1> HIDE DEF C
<1>1. c \in Seq(C)
  BY DEF C
<1>2. Head(c) \in C /\ Tail(c) \in Seq(C)
  BY <1>1, HeadTailProperties
<1>3. QED
  BY <1>2 DEF C

LEMMA AnswersMain ==
  ASSUME SeenInv, Answers, Execute, ~hart.trapped
  PROVE  SeenInv'
<1> DEFINE c == hart.main.code
           s == Head(c)
           n == Stepped(hart.main, ReadWord)
           req == HartReq(hart, mip)
<1>1. /\ HartShape(hart) /\ NoFilter(gpio) /\ seen \subseteq Watched
      /\ ~Poll /\ Armed(gpio) /\ c \in Seq(Calm) /\ Fresh(seen, gpio) /\ Running(hart) = hart.main
  BY DEF SeenInv, Answers, Running
<1>2. UNCHANGED <<Poll, Debounce, Watched>> /\ Loop = {update} /\ c # <<>>
  BY <1>1, PortIs DEF Execute, Loop, CanExecute, Done
<1>3. s \in Calm /\ Tail(c) \in Seq(Calm)
  BY <1>1, <1>2, CalmStep
<1>4. /\ s.op \in {"csrs", "csrc", "csrw"} \/ (s.op = "modify" /\ s.dev = "gpio" /\ s.reg = "OUT")
      /\ s # Keeps
  BY <1>3, CalmHead
<1> HIDE DEF req
<1>5. /\ ThreadShape(n) /\ HartShape(hart') /\ NoFilter(gpio)'
      /\ n.code = c \/ n.code = Tail(c)
      /\ Port(req) /\ (~Writes(req, "gpio", "INT_STATUS") \/ s.reg = "INT_STATUS")
      /\ Armed(gpio)' /\ seen' = seen
  BY <1>1, <1>4, OtherStep DEF req
<1>6. /\ ~hart'.trapped
      /\ n.code # <<>> => hart'.main.code = n.code
      /\ n.code = <<>> => hart'.main.code \in Loop
  BY <1>1, <1>5, MainIs
<1> HIDE DEF n
<1>7. hart'.main.code \in Seq(Calm)
  BY <1>1, <1>2, <1>3, <1>5, <1>6, UpdateCalm
<1>8. ~Writes(req, "gpio", "INT_STATUS")
  <2>1. CASE s.op = "modify"
    BY <1>4, <1>5, <2>1
  <2>2. CASE s.op \in {"csrs", "csrc", "csrw"}
    <3>1. ~req.we
      BY <1>1, <2>2, StatementIs DEF req
    <3>2. QED
      BY <3>1 DEF Writes
  <2>3. QED
    BY <1>4, <2>1, <2>2
<1>9. Fresh(seen, gpio')
  BY <1>1, <1>5, <1>8, PortKeepsFresh
<1>10. Answers'
  BY <1>1, <1>2, <1>5, <1>6, <1>7, <1>9 DEF Answers, Fresh
<1>11. QED
  BY <1>1, <1>2, <1>5, <1>10 DEF SeenInv

LEMMA AnswersIsr ==
  ASSUME SeenInv, Answers, Execute, hart.trapped
  PROVE  SeenInv'
<1> DEFINE c == hart.isr.code
           s == Head(c)
           n == Stepped(hart.isr, ReadWord)
           req == HartReq(hart, mip)
           end == <<ReadsPort, Keeps>>
<1>1. /\ HartShape(hart) /\ NoFilter(gpio) /\ seen \subseteq Watched
      /\ ~Poll /\ Armed(gpio) /\ hart.main.code \in Seq(Calm) /\ Running(hart) = hart.isr
  BY DEF SeenInv, Answers, Running
<1>2. UNCHANGED <<Poll, Debounce, Watched>> /\ c # <<>>
  BY <1>1, PortIs DEF Execute, CanExecute, Done
<1> HIDE DEF req
<1>3. ASSUME ThreadShape(n), Port(req), NoFilter(gpio)', Armed(gpio)', seen' \subseteq Watched,
             ASSUME HartShape(hart'), hart'.trapped,
                    IF s = Keeps THEN \E i : hart'.isr.code = tinymcu_gpio_write(IsrPin, i)
                                 ELSE hart'.isr.code = n.code,
                    hart'.isr.ret = n.ret
             PROVE  \/ EndsIn(hart'.isr.code, end, Flags)
                    \/ hart'.isr.code = <<Keeps>> /\ Fresh(hart'.isr.ret, gpio')
                    \/ hart'.isr.code \in Seq(Calm) /\ Fresh(seen', gpio')
      PROVE  SeenInv'
  <2>1. /\ HartShape(hart') /\ hart'.trapped /\ hart'.main = hart.main /\ hart'.isr.ret = n.ret
        /\ IF s = Keeps THEN \E i : hart'.isr.code = tinymcu_gpio_write(IsrPin, i)
                        ELSE hart'.isr.code = n.code
    BY <1>1, <1>2, <1>3, ExecuteIs DEF At, Keeps, Done
  <2>2. \/ EndsIn(hart'.isr.code, end, Flags)
        \/ hart'.isr.code = <<Keeps>> /\ Fresh(hart'.isr.ret, gpio')
        \/ hart'.isr.code \in Seq(Calm) /\ Fresh(seen', gpio')
    BY <1>3, <2>1
  <2>3. \/ EndsIn(hart.isr.code, end, Flags)'
        \/ hart'.isr.code = <<Keeps>> /\ Fresh(hart.isr.ret, gpio)'
        \/ hart'.isr.code \in Seq(Calm) /\ Fresh(seen, gpio)'
    BY <1>2, <2>2 DEF EndsIn, Fresh
  <2>4. Answers'
    BY <1>1, <1>2, <1>3, <2>1, <2>3 DEF Answers
  <2>5. QED
    BY <1>2, <1>3, <2>1, <2>4 DEF SeenInv
<1>4. CASE EndsIn(c, end, Flags)
  <2>1. \/ c = end
        \/ s \in Flags /\ EndsIn(Tail(c), end, Flags)
    <3> DEFINE Q == Flags \cup {ReadsPort, Keeps}
    <3>1. Flags \subseteq Q /\ end \in Seq(Q)
      OBVIOUS
    <3> HIDE DEF Q, end
    <3>2. QED
      BY <1>4, <3>1, Ending
  <2>2. CASE c = end
    <3>1. s = ReadsPort /\ Tail(c) = <<Keeps>>
      BY <2>2
    <3>2. s.op = "get" /\ s.dev = "gpio" /\ s.reg = "IN" /\ s.mask = Word32 /\ s # Keeps
      BY <3>1 DEF ReadsPort, Get, Keeps, Local
    <3>3. /\ ThreadShape(n) /\ NoFilter(gpio)' /\ n.code = <<Keeps>> /\ Port(req)
          /\ Armed(gpio)' /\ seen' = seen /\ n.ret = ReadWord \cap Word32 /\ ReadWord = raw
      BY <1>1, <3>1, <3>2, OtherStep DEF req
    <3>4. Watched \subseteq Word32
      BY DEF Watched, Inputs, Word32
    <3>5. Fresh(raw \cap Word32, gpio')
      BY <1>1, <3>3, <3>4, PortRead
    <3> HIDE DEF n
    <3>6. QED
      BY <1>1, <1>3, <3>2, <3>3, <3>5
  <2>3. CASE s \in Flags /\ EndsIn(Tail(c), end, Flags)
    <3>1. /\ s.op \in {"modify", "assign", "get"} /\ s.dev = "gpio" /\ s.reg = "INT_STATUS"
          /\ s # Keeps
      BY <2>3, FlagHead
    <3>2. /\ ThreadShape(n) /\ NoFilter(gpio)' /\ Port(req) /\ Armed(gpio)' /\ seen' = seen
          /\ n.code = c \/ n.code = Tail(c)
      BY <1>1, <3>1, OtherStep DEF req
    <3> HIDE DEF n
    <3>3. EndsIn(n.code, end, Flags)
      BY <1>4, <2>3, <3>2
    <3>4. QED
      BY <1>1, <1>3, <3>1, <3>2, <3>3
  <2>4. QED
    BY <2>1, <2>2, <2>3
<1>5. CASE c = <<Keeps>> /\ Fresh(hart.isr.ret, gpio)
  <2>1. s = Keeps /\ s.op = "local"
    BY <1>5 DEF Keeps, Local
  <2>2. /\ ThreadShape(n) /\ NoFilter(gpio)' /\ Port(req) /\ Armed(gpio)'
        /\ seen' = hart.isr.ret \cap Watched
    BY <1>1, <2>1, OtherStep DEF req
  <2>3. ~req.we
    BY <1>1, <2>1, StatementIs DEF req
  <2>4. Fresh(hart.isr.ret, gpio')
    BY <1>1, <1>5, <2>2, <2>3, PortKeepsFresh DEF Writes
  <2>5. Fresh(seen', gpio')
    BY <2>2, <2>4, FreshCopy
  <2>6. ASSUME NEW i PROVE tinymcu_gpio_write(IsrPin, i) \in Seq(Calm)
    <3>1. \E q \in Shows : tinymcu_gpio_write(IsrPin, i) = <<q>>
      BY DEF tinymcu_gpio_write, tinymcu_gpio_set, tinymcu_gpio_clear, Shows
    <3>2. Shows \subseteq Calm
      BY DEF Calm
    <3>3. QED
      BY <3>1, <3>2
  <2> HIDE DEF n
  <2>7. QED
    BY <1>3, <2>1, <2>2, <2>5, <2>6
<1>6. CASE c \in Seq(Calm) /\ Fresh(seen, gpio)
  <2>1. s \in Calm /\ Tail(c) \in Seq(Calm)
    BY <1>2, <1>6, CalmStep
  <2>2. /\ s.op \in {"csrs", "csrc", "csrw"} \/ (s.op = "modify" /\ s.dev = "gpio" /\ s.reg = "OUT")
        /\ s # Keeps
    BY <2>1, CalmHead
  <2>3. /\ ThreadShape(n) /\ NoFilter(gpio)' /\ Armed(gpio)' /\ seen' = seen
        /\ n.code = c \/ n.code = Tail(c)
        /\ Port(req) /\ (~Writes(req, "gpio", "INT_STATUS") \/ s.reg = "INT_STATUS")
    BY <1>1, <2>2, OtherStep DEF req
  <2>4. ~Writes(req, "gpio", "INT_STATUS")
    <3>1. CASE s.op = "modify"
      BY <2>2, <2>3, <3>1
    <3>2. CASE s.op \in {"csrs", "csrc", "csrw"}
      <4>1. ~req.we
        BY <1>1, <3>2, StatementIs DEF req
      <4>2. QED
        BY <4>1 DEF Writes
    <3>3. QED
      BY <2>2, <3>1, <3>2
  <2>5. Fresh(seen', gpio')
    BY <1>1, <1>6, <2>3, <2>4, PortKeepsFresh
  <2> HIDE DEF n
  <2>6. QED
    BY <1>1, <1>3, <1>6, <2>1, <2>2, <2>3, <2>5
<1>7. QED
  BY <1>4, <1>5, <1>6 DEF Answers

\* A clock without a statement.
LEMMA ClockStep ==
  ASSUME SeenInv, HartShape(hart'), Port(NoReq), UNCHANGED seen, hart'.main = hart.main,
         \/ /\ hart'.trapped = hart.trapped /\ hart'.isr = hart.isr
            /\ hart'.MIE = hart.MIE \/ hart.MIE = TRUE
         \/ /\ hart.MIE = TRUE \/ hart.trapped
            /\ hart.trapped /\ ~hart'.trapped => hart.isr.code = <<>>
            /\ hart'.trapped => hart'.isr = Thread(handler)
  PROVE  SeenInv'
<1> DEFINE end == <<ReadsPort, Keeps>>
<1>1. /\ UNCHANGED <<Poll, Debounce, Watched, program>>
      /\ gpio'.CONFIG = gpio.CONFIG /\ gpio'.INT_CONFIG = gpio.INT_CONFIG
      /\ ~Writes(NoReq, "gpio", "INT_STATUS")
  BY PortIs DEF NoReq, Writes
<1>2. UNCHANGED <<FromPin0, FromPin1, FromGlobal, FromRead, FromKeep, Rest, Prepares, poll>>
  BY <1>1 DEF FromPin0, FromPin1, FromGlobal, FromRead, FromKeep, Rest, Prepares, Filter, poll
<1>3. NoFilter(gpio)' /\ (Armed(gpio) => Armed(gpio)')
  BY <1>1 DEF SeenInv, NoFilter, Armed
<1>4. ASSUME NEW w, Fresh(w, gpio), Armed(gpio) PROVE Fresh(w, gpio')
  BY <1>1, <1>4, PortKeepsFresh
<1>5. /\ Armed(gpio) /\ Fresh(seen, gpio) => Fresh(seen, gpio)'
      /\ Armed(gpio) /\ Fresh(hart.main.ret, gpio) => Fresh(hart.main.ret, gpio)'
      /\ Armed(gpio) /\ Fresh(hart.isr.ret, gpio) /\ hart'.isr = hart.isr => Fresh(hart.isr.ret, gpio)'
  BY <1>1, <1>4 DEF Fresh
<1>6. Alone => Alone'
  BY <1>1 DEF Alone, MainLoaded
<1>7. CASE SetsUp
  <2>1. EndsIn(hart.main.code, FromPin0, Prepares) => EndsIn(hart.main.code, FromPin0, Prepares)'
    BY <1>2 DEF EndsIn
  <2>2. Inputs \subseteq gpio.INT_CONFIG /\ TINYMCU_GPIO_CONFIG_GLOBAL_INT_EN \subseteq gpio.CONFIG
        => Armed(gpio)
    BY DEF Armed, Watched, Inputs
  <2>3. SetsUp'
    BY <1>1, <1>2, <1>5, <1>6, <1>7, <2>1, <2>2 DEF SetsUp
  <2>4. QED
    BY <1>1, <1>3, <2>3 DEF SeenInv
<1>8. CASE Polls
  <2>1. Polls'
    BY <1>1, <1>2, <1>3, <1>5, <1>6, <1>8 DEF Polls, poll_hit
  <2>2. QED
    BY <1>1, <1>3, <2>1 DEF SeenInv
<1>9. CASE Answers
  <2>1. CASE hart'.trapped = hart.trapped /\ hart'.isr = hart.isr
    <3>1. EndsIn(hart.isr.code, end, Flags) => EndsIn(hart.isr.code, end, Flags)'
      BY <2>1 DEF EndsIn
    <3>2. Answers'
      BY <1>1, <1>3, <1>5, <1>9, <2>1, <3>1 DEF Answers
    <3>3. QED
      BY <1>1, <1>3, <3>2 DEF SeenInv
  <2>2. CASE hart'.trapped /\ hart'.isr = Thread(handler)
    <3>1. EndsIn(hart'.isr.code, end, Flags)
      BY <2>2, HandlerIs DEF Thread
    <3>2. EndsIn(hart.isr.code, end, Flags)'
      BY <3>1 DEF EndsIn
    <3>3. Answers'
      BY <1>1, <1>3, <1>9, <2>2, <3>2 DEF Answers
    <3>4. QED
      BY <1>1, <1>3, <3>3 DEF SeenInv
  <2>3. CASE ~hart.trapped /\ ~hart'.trapped
    <3>1. Answers'
      BY <1>1, <1>3, <1>5, <1>9, <2>3 DEF Answers
    <3>2. QED
      BY <1>1, <1>3, <3>1 DEF SeenInv
  <2>4. CASE hart.trapped /\ ~hart'.trapped /\ hart.isr.code = <<>>
    <3>1. ~EndsIn(hart.isr.code, end, Flags)
      <4> DEFINE Q == Flags \cup {ReadsPort, Keeps}
      <4>1. Flags \subseteq Q /\ end \in Seq(Q) /\ end # <<>>
        OBVIOUS
      <4> HIDE DEF Q, end
      <4>2. QED
        BY <2>4, <4>1, Ending
    <3>2. Fresh(seen, gpio)
      BY <1>9, <2>4, <3>1 DEF Answers
    <3>3. Answers'
      BY <1>1, <1>3, <1>5, <1>9, <2>4, <3>2 DEF Answers
    <3>4. QED
      BY <1>1, <1>3, <3>3 DEF SeenInv
  <2>5. QED
    BY <2>1, <2>2, <2>3, <2>4
<1>10. QED
  BY <1>7, <1>8, <1>9 DEF SeenInv

LEMMA SeenStep ==
  ASSUME SeenInv, [Next]_vars
  PROVE  IsTorn(hart') \/ SeenInv'
<1>1. HartShape(hart)
  BY DEF SeenInv
<1>2. CASE Idle
  <2>1. UNCHANGED seen /\ Port(NoReq) /\ Idles(hart, hart', MaxIdle)
    BY <1>2 DEF Idle
  <2>2. QED
    BY <1>1, <2>1, IdlesIs, ClockStep
<1>3. CASE Execute
  BY <1>3, SetsUpStep, PollsStep, AnswersMain, AnswersIsr DEF SeenInv
<1>4. CASE Trap
  <2>1. /\ UNCHANGED seen /\ Port(NoReq) /\ HartShape(hart') /\ hart.MIE = TRUE
        /\ \/ IsTorn(hart')
           \/ /\ hart'.main = hart.main
              /\ \/ hart'.isr = Thread(handler) /\ hart'.trapped = TRUE
                 \/ hart'.isr = hart.isr /\ hart'.trapped = hart.trapped
    BY <1>1, <1>4, TrapIs
  <2>2. QED
    BY <2>1, ClockStep
<1>5. CASE Mret
  <2>1. /\ UNCHANGED seen /\ Port(NoReq) /\ HartShape(hart') /\ hart'.main = hart.main
        /\ ~hart'.trapped /\ hart.trapped /\ hart.isr.code = <<>>
    BY <1>1, <1>5, MretsIs DEF Mret
  <2>2. QED
    BY <2>1, ClockStep
<1>6. CASE UNCHANGED vars
  <2>1. UNCHANGED <<hart, gpio, seen, Poll, Debounce, Watched>>
    BY <1>6 DEF vars, Poll, Debounce, Watched
  <2>2. UNCHANGED <<FromPin0, FromPin1, FromGlobal, FromRead, FromKeep, Rest, Prepares, poll, poll_hit>>
    BY <2>1 DEF FromPin0, FromPin1, FromGlobal, FromRead, FromKeep, Rest, Prepares, Filter, poll, poll_hit
  <2>3. (SetsUp => SetsUp') /\ (Polls => Polls') /\ (Answers => Answers')
    BY <2>1, <2>2 DEF SetsUp, Polls, Answers, EndsIn, Alone, MainLoaded, Fresh, Armed
  <2>4. QED
    BY <2>1, <2>3 DEF SeenInv, NoFilter
<1>7. QED
  BY <1>2, <1>3, <1>4, <1>5, <1>6 DEF Next

LEMMA SeenInit == ASSUME Init PROVE SeenInv
<1>1. /\ HartShape(hart) /\ hart.main.code = setup /\ hart.main.acc = <<>>
      /\ hart.trapped = FALSE /\ hart.MIE = FALSE
  BY ResetShape DEF Init
<1>2. seen = {} /\ gpio.CONFIG = {}
  BY DEF Init, GpioPowerOn
<1>3. SetsUp
  BY <1>1, SetupIs DEF SetsUp, Alone, MainLoaded
<1>4. QED
  BY <1>1, <1>2, <1>3 DEF SeenInv, NoFilter

LEMMA SeenIsCurrent == ASSUME SeenInv PROVE SeenCurrent
<1> SUFFICES ASSUME Debounce = 0, Settled PROVE seen = raw \cap Watched
  BY DEF SeenCurrent
<1>1. Fresh(seen, gpio) => seen = raw \cap Watched
  BY DEF SeenInv, Fresh, Settled
<1>2. CASE ~Poll
  <2>1. ~SetsUp /\ ~Polls /\ ~hart.trapped
    BY <1>2 DEF Settled, SetsUp, Polls, Alone
  <2>2. QED
    BY <1>1, <2>1 DEF SeenInv, Answers
<1>3. CASE Poll
  <2> DEFINE c == hart.main.code
  <2>1. c # <<>> /\ Head(c) = Get("gpio", "INT_STATUS", {0})
    <3>1. At(hart.main, poll[1]) /\ poll[1] = Head(poll)
      BY <1>3, PollCode DEF Settled
    <3>2. QED
      BY <3>1, PollCode DEF At, Done
  <2>2. Head(c).op = "get" /\ Head(c).reg = "INT_STATUS"
    BY <2>1 DEF Get
  <2>3. ~SetsUp
    <3>1. c # FromPin0 /\ c # FromPin1 /\ c # FromGlobal
      BY <2>2, SetupCode DEF SetBits, Modify
    <3>2. c # FromRead /\ c # FromKeep
      <4>1. ReadsPort.reg = "IN" /\ Keeps.op = "local"
        BY DEF ReadsPort, Keeps, Get, Local
      <4>2. QED
        BY <2>2, <4>1, SetupCode
    <3>3. ~EndsIn(c, FromPin0, Prepares)
      <4> DEFINE Q == Prepares \cup Quiet
      <4>1. \A s \in Prepares : s.op = "modify"
        BY DEF Prepares, Filter, Modify
      <4>2. Head(c) \notin Prepares
        BY <2>2, <4>1
      <4>3. Prepares \subseteq Q /\ FromPin0 \in Seq(Q)
        <5>1. FromPin0 \in Seq(Quiet) /\ Quiet \subseteq Q
          BY SetupCode
        <5> HIDE DEF Q
        <5>2. FromPin0 \in Seq(Q)
          BY <5>1
        <5>3. QED
          BY <5>2 DEF Q
      <4> HIDE DEF Q
      <4>4. QED
        BY <3>1, <4>2, <4>3, Ending
    <3>4. QED
      BY <3>1, <3>2, <3>3 DEF SetsUp
  <2>4. c # poll_hit /\ c # <<Local("test")>> /\ c # <<Keeps>> /\ c # Rest
        /\ c # <<Get("gpio", "IN", {0}), Keeps>>
    <3>1. c # poll_hit
      BY <2>2, PollCode DEF ClearBits, Modify
    <3>2. c # <<Local("test")>> /\ c # <<Keeps>>
      BY <2>2 DEF Local, Keeps
    <3>3. c # <<Get("gpio", "IN", {0}), Keeps>>
      BY <2>2 DEF Get
    <3>4. c # Rest
      BY <1>3, <2>2, RestIs DEF ClearBits, Modify
    <3>5. QED
      BY <3>1, <3>2, <3>3, <3>4
  <2>5. Fresh(seen, gpio)
    BY <1>3, <2>3, <2>4 DEF SeenInv, Polls, Answers
  <2>6. QED
    BY <1>1, <2>5
<1>4. QED
  BY <1>2, <1>3

\* Once no flag is up, no edge is on its way and no handler runs, the
\* program's copy is the level of its inputs (tinymcu_gpio.c: the flag is
\* cleared before the pin is read, tinymcu_gpio_irq_clear and _read_port):
\* wherever between two statements of main or of the handler a pad changes,
\* the change is read or its flag stays up.
THEOREM NoChangeIsMissed == Spec => []SeenCurrent
<1>1. Init => SeenInv
  BY SeenInit
<1>2. (IsTorn(hart) \/ SeenInv) /\ [Next]_vars => (IsTorn(hart) \/ SeenInv)'
  BY SeenStep, TornStep DEF IsTorn
<1>3. IsTorn(hart) \/ SeenInv => SeenCurrent
  <2>1. IsTorn(hart) => SeenCurrent
    BY DEF IsTorn, SeenCurrent
  <2>2. QED
    BY <2>1, SeenIsCurrent
<1>4. QED
  BY <1>1, <1>2, <1>3, PTL DEF Spec
=============================================================================
