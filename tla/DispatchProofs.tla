--------------------------- MODULE DispatchProofs ---------------------------
(***************************************************************************)
(* What main logs of the traps behind its back belongs together, no event  *)
(* is served twice, and the default handler stops main until a trap is     *)
(* lost: for every program of Dispatch, period and distance between two    *)
(* accesses.                                                               *)
(*                                                                         *)
(* Only the statements of `log` read the trap CSRs or keep what was read:  *)
(* all others are Calm.  From the first read to the last the interrupts    *)
(* are off, so that cause, place and copies stay those of one trap.        *)
(***************************************************************************)
EXTENDS Dispatch, HartProofs

\* The statements the program is made of, but for those of `log`.
Registers == {"CONFIG", "DDR", "INT_CONFIG", "INT_STATUS", "COMPARE"}
Bits == SUBSET Nat
Calm ==
  {Modify("gpio", r, c, s, f) : r \in Registers, c \in Bits, s \in Bits, f \in Bits}
  \cup {Assign(d, r, v) : d \in {"gpio", "timer"}, r \in Registers, v \in Bits \cup {CLKSEL, Period}}
  \cup {Get("gpio", r, m) : r \in Registers, m \in Bits}
  \cup {CsrSet(c, m) : c \in {"mie", "mstatus"}, m \in Bits}
  \cup {CsrClear("mie", m) : m \in Bits}
  \cup {CsrPut("mtvec", "trap_entry")}
  \cup {Local(n) : n \in {"test", "return"}}

Test == Local("test")

\* What `log` has left when its next statement is the one named.
ToEnable == tinymcu_enable_global_interrupts
ToLogged == <<Local("logged")>> \o ToEnable
ToEpc    == <<Local("epc")>> \o ToLogged
ToMepc   == <<CsrGet("mepc")>> \o ToEpc
ToCause  == <<Local("cause")>> \o ToMepc
ToMcause == <<CsrGet("mcause")>> \o ToCause

Logging ==
  /\ ~hart.trapped /\ hart.MIE = FALSE
  /\ \/ hart.main.code = ToMcause
     \/ hart.main.code = ToCause /\ hart.main.ret = mcause
     \/ hart.main.code = ToMepc /\ cause = mcause
     \/ hart.main.code = ToEpc /\ cause = mcause /\ hart.main.ret = mepc
     \/ hart.main.code = ToLogged /\ cause = mcause /\ epc = mepc

\* The inductive invariant.
LogInv ==
  /\ HartShape(hart)
  /\ hart.main.code \in Seq(Calm) \/ hart.main.code = log \/ Logging
  /\ hart.trapped => hart.isr.code \in Seq(Calm)
-----------------------------------------------------------------------------
(* The calls the program makes. *)

LEMMA CalmStatements ==
  /\ \A d \in {"gpio", "timer"}, r \in Registers, v \in Bits \cup {CLKSEL, Period} :
       <<Assign(d, r, v)>> \in Seq(Calm)
  /\ \A r \in Registers, m \in Bits :
       /\ <<SetBits("gpio", r, m)>> \in Seq(Calm) /\ <<ClearBits("gpio", r, m)>> \in Seq(Calm)
       /\ <<Get("gpio", r, m)>> \in Seq(Calm)
  /\ \A m \in Bits : /\ <<CsrSet("mie", m)>> \in Seq(Calm) /\ <<CsrSet("mstatus", m)>> \in Seq(Calm)
                     /\ <<CsrClear("mie", m)>> \in Seq(Calm)
  /\ <<CsrPut("mtvec", "trap_entry")>> \in Seq(Calm)
  /\ <<Local("test")>> \in Seq(Calm) /\ <<Local("return")>> \in Seq(Calm) /\ <<>> \in Seq(Calm)
<1>1. ASSUME NEW s \in Calm PROVE <<s>> \in Seq(Calm)
  OBVIOUS
<1>2. {} \in Bits
  BY DEF Bits
<1>3. /\ \A d \in {"gpio", "timer"}, r \in Registers, v \in Bits \cup {CLKSEL, Period} :
           Assign(d, r, v) \in Calm
      /\ \A r \in Registers, m \in Bits : Get("gpio", r, m) \in Calm
      /\ CsrPut("mtvec", "trap_entry") \in Calm
      /\ Local("test") \in Calm /\ Local("return") \in Calm
  BY DEF Calm
<1>4. \A m \in Bits : /\ CsrSet("mie", m) \in Calm /\ CsrSet("mstatus", m) \in Calm
                      /\ CsrClear("mie", m) \in Calm
  BY DEF Calm
<1>5. \A r \in Registers, m \in Bits :
        SetBits("gpio", r, m) \in Calm /\ ClearBits("gpio", r, m) \in Calm
  <2>1. \A r \in Registers, c \in Bits, s \in Bits, f \in Bits : Modify("gpio", r, c, s, f) \in Calm
    BY DEF Calm
  <2>2. QED
    BY <1>2, <2>1 DEF SetBits, ClearBits
<1>6. <<>> \in Seq(Calm)
  OBVIOUS
<1>7. QED
  BY <1>1, <1>3, <1>4, <1>5, <1>6

\* The handler a program defines, and the one it is given if it defines none.
LEMMA CalmHandler ==
  ASSUME NEW c, NEW e
  PROVE  tinymcu_trap_handler(c, e) \in Seq(Calm)
<1>1. /\ {} \in Bits \cup {CLKSEL, Period} /\ "INT_STATUS" \in Registers
  BY DEF Bits, Registers
<1>2. QED
  BY <1>1, CalmStatements DEF tinymcu_trap_handler, weak_trap_handler, Return,
     tinymcu_gpio_irq_clear_all, tinymcu_timer_irq_clear

\* But for `log` the program is calm.
LEMMA CalmProgram ==
  /\ Sources \in Bits => setup \in Seq(Calm)
  /\ poll \in Seq(Calm) /\ poll_end \in Seq(Calm) /\ poll_hit \in Seq(Calm)
  /\ ToEnable \in Seq(Calm)
<1> DEFINE Q == Seq(Calm)
<1>1. ASSUME NEW s \in Q, NEW t \in Q PROVE s \o t \in Q
  BY ConcatProperties
<1>2. /\ {button} \in Bits /\ {0} \in Bits /\ {3} \in Bits /\ {11} \in Bits
      /\ {"CONFIG", "DDR", "INT_CONFIG", "INT_STATUS", "COMPARE"} = Registers
      /\ Bits \cup {CLKSEL, Period} = Bits \cup {CLKSEL} \cup {Period}
  BY DEF Bits, button, Registers
<1>3. TINYMCU_MIE.MEIE = {11} /\ TINYMCU_MSTATUS_MIE = {3}
      /\ TINYMCU_GPIO_CONFIG_GLOBAL_INT_EN = {0} /\ TINYMCU_TIMER_INT_COMPARE = {0}
  BY DEF TINYMCU_MIE, TINYMCU_MSTATUS_MIE, TINYMCU_GPIO_CONFIG_GLOBAL_INT_EN,
         TINYMCU_TIMER_INT_COMPARE
<1>4. /\ tinymcu_gpio_set_input(button) \in Q /\ tinymcu_gpio_irq_enable(button) \in Q
      /\ tinymcu_gpio_irq_global_enable \in Q /\ tinymcu_gpio_irq_pending(button) \in Q
      /\ tinymcu_gpio_irq_clear(button) \in Q
  BY <1>2, <1>3, CalmStatements DEF tinymcu_gpio_set_input, tinymcu_gpio_irq_enable,
     tinymcu_gpio_irq_global_enable, tinymcu_gpio_irq_pending, tinymcu_gpio_irq_clear
<1>5. /\ tinymcu_timer_set_compare(Period) \in Q /\ tinymcu_timer_irq_enable \in Q
      /\ tinymcu_timer_set_clksel(CLKSEL) \in Q
  BY <1>2, <1>3, CalmStatements DEF tinymcu_timer_set_compare, tinymcu_timer_irq_enable,
     tinymcu_timer_set_clksel
<1>6. /\ tinymcu_csr_set_mie(TINYMCU_MIE.MEIE) \in Q /\ tinymcu_csr_clear_mie(TINYMCU_MIE.MEIE) \in Q
      /\ tinymcu_csr_write_mtvec("trap_entry") \in Q /\ ToEnable \in Q /\ <<Local("test")>> \in Q
      /\ Sources \in Bits => tinymcu_csr_set_mie(Sources) \in Q
  BY <1>2, <1>3, CalmStatements DEF tinymcu_csr_set_mie, tinymcu_csr_clear_mie,
     tinymcu_csr_write_mtvec, tinymcu_enable_global_interrupts, ToEnable
<1> HIDE DEF Q
<1>7. tinymcu_trap_init \in Q
  BY <1>1, <1>6 DEF tinymcu_trap_init, ToEnable
<1>8. poll \in Q /\ poll_end \in Q
  BY <1>1, <1>4, <1>6 DEF poll, poll_end
<1>9. poll_hit \in Q
  BY <1>1, <1>4, <1>8 DEF poll_hit
<1>10. Sources \in Bits => setup \in Q
  BY <1>1, <1>4, <1>5, <1>6, <1>7, ZenonT(60) DEF setup
<1>11. QED
  BY <1>6, <1>8, <1>9, <1>10 DEF Q

\* `log`, statement by statement.
LEMMA LogIs ==
  /\ log # <<>> /\ Head(log) = CsrClear("mstatus", TINYMCU_MSTATUS_MIE) /\ Tail(log) = ToMcause
  /\ ToMcause # <<>> /\ Head(ToMcause) = CsrGet("mcause") /\ Tail(ToMcause) = ToCause
  /\ ToCause # <<>> /\ Head(ToCause) = Local("cause") /\ Tail(ToCause) = ToMepc
  /\ ToMepc # <<>> /\ Head(ToMepc) = CsrGet("mepc") /\ Tail(ToMepc) = ToEpc
  /\ ToEpc # <<>> /\ Head(ToEpc) = Local("epc") /\ Tail(ToEpc) = ToLogged
  /\ ToLogged # <<>> /\ Head(ToLogged) = Local("logged") /\ Tail(ToLogged) = ToEnable
  /\ ToEnable # <<>>
<1> DEFINE a == CsrClear("mstatus", TINYMCU_MSTATUS_MIE)
           b == CsrGet("mcause")
           c == Local("cause")
           d == CsrGet("mepc")
           e == Local("epc")
           f == Local("logged")
           g == CsrSet("mstatus", TINYMCU_MSTATUS_MIE)
           S == {a, b, c, d, e, f, g}
<1>1. ToEnable = <<g>>
  BY DEF ToEnable, tinymcu_enable_global_interrupts
<1>2. /\ ToLogged = <<f>> \o ToEnable /\ ToEpc = <<e>> \o ToLogged /\ ToMepc = <<d>> \o ToEpc
      /\ ToCause = <<c>> \o ToMepc /\ ToMcause = <<b>> \o ToCause
  BY DEF ToLogged, ToEpc, ToMepc, ToCause, ToMcause
<1>3. log = ((((<<a>> \o <<b>>) \o <<c>>) \o <<d>>) \o <<e, f>>) \o ToEnable
  BY DEF log, tinymcu_disable_global_interrupts, tinymcu_csr_read_mcause,
         tinymcu_csr_read_mepc, ToEnable
<1>4. /\ a \in S /\ b \in S /\ c \in S /\ d \in S /\ e \in S /\ f \in S /\ g \in S
  OBVIOUS
<1>5. \A s \in S : <<s>> \in Seq(S)
  OBVIOUS
<1> HIDE DEF a, b, c, d, e, f, g, S
<1>6. ToEnable \in Seq(S) /\ ToEnable # <<>>
  BY <1>1, <1>4, <1>5
<1>7. \A s \in S, t \in Seq(S) :
        /\ <<s>> \o t \in Seq(S) /\ <<s>> \o t # <<>>
        /\ Head(<<s>> \o t) = s /\ Tail(<<s>> \o t) = t
  BY FirstStatement
<1>8. ToLogged \in Seq(S) /\ ToLogged # <<>> /\ Head(ToLogged) = f /\ Tail(ToLogged) = ToEnable
  BY <1>2, <1>4, <1>6, <1>7
<1>9. ToEpc \in Seq(S) /\ ToEpc # <<>> /\ Head(ToEpc) = e /\ Tail(ToEpc) = ToLogged
  BY <1>2, <1>4, <1>7, <1>8
<1>10. ToMepc \in Seq(S) /\ ToMepc # <<>> /\ Head(ToMepc) = d /\ Tail(ToMepc) = ToEpc
  BY <1>2, <1>4, <1>7, <1>9
<1>11. ToCause \in Seq(S) /\ ToCause # <<>> /\ Head(ToCause) = c /\ Tail(ToCause) = ToMepc
  BY <1>2, <1>4, <1>7, <1>10
<1>12. ToMcause \in Seq(S) /\ ToMcause # <<>> /\ Head(ToMcause) = b /\ Tail(ToMcause) = ToCause
  BY <1>2, <1>4, <1>7, <1>11
<1>13. log = <<a>> \o ToMcause
  <2> DEFINE A == <<a>>
             B == <<b>>
             C == <<c>>
             D == <<d>>
             E == <<e>>
             F == <<f>>
  <2>1. /\ A \in Seq(S) /\ B \in Seq(S) /\ C \in Seq(S)
        /\ D \in Seq(S) /\ E \in Seq(S) /\ F \in Seq(S)
    BY <1>4, <1>5
  <2>2. <<e, f>> = E \o F
    BY PairIs
  <2>3. log = ((((A \o B) \o C) \o D) \o (E \o F)) \o ToEnable
    BY <1>3, <2>2
  <2>4. ToMcause = B \o (C \o (D \o (E \o (F \o ToEnable))))
    BY <1>2
  <2> HIDE DEF A, B, C, D, E, F
  <2> DEFINE P  == A \o B
             X  == P \o C
             Y  == X \o D
             G3 == F \o ToEnable
             G2 == E \o G3
             G1 == D \o G2
             G0 == C \o G1
             EF == E \o F
  <2>7. /\ P \in Seq(S) /\ X \in Seq(S) /\ Y \in Seq(S)
        /\ G3 \in Seq(S) /\ G2 \in Seq(S) /\ G1 \in Seq(S) /\ G0 \in Seq(S)
        /\ EF \in Seq(S)
    <3>1. P \in Seq(S) /\ G3 \in Seq(S) /\ EF \in Seq(S)
      BY <1>6, <2>1, ConcatProperties
    <3> HIDE DEF P, G3, EF
    <3>2. X \in Seq(S) /\ G2 \in Seq(S)
      BY <2>1, ConcatProperties, <3>1
    <3> HIDE DEF X, G2
    <3>3. Y \in Seq(S) /\ G1 \in Seq(S)
      BY <2>1, ConcatProperties, <3>2
    <3> HIDE DEF G1
    <3>4. G0 \in Seq(S)
      BY <2>1, ConcatProperties, <3>3
    <3>5. QED
      BY <3>1, <3>2, <3>3, <3>4
  <2>8. (E \o F) \o ToEnable = G2
    <3> HIDE DEF P, X, Y, G1, G0
    <3>1. E \in Seq(S) /\ F \in Seq(S) /\ ToEnable \in Seq(S)
      BY <1>6, <2>1
    <3>2. QED
      BY <3>1, ConcatAssociative
  <2>9. (Y \o EF) \o ToEnable = Y \o (EF \o ToEnable)
    <3> HIDE DEF P, X, Y, G3, G2, G1, G0, EF
    <3>1. Y \in Seq(S) /\ EF \in Seq(S) /\ ToEnable \in Seq(S)
      BY <1>6, <2>7
    <3>2. QED
      BY <3>1, ConcatAssociative
  <2>10. Y \o G2 = X \o G1
    <3> HIDE DEF P, X, G3, G2, G0, EF
    <3>1. X \in Seq(S) /\ D \in Seq(S) /\ G2 \in Seq(S)
      BY <2>1, <2>7
    <3>2. QED
      BY <3>1, ConcatAssociative
  <2>11. X \o G1 = P \o G0
    <3> HIDE DEF P, Y, G3, G2, G1, EF
    <3>1. P \in Seq(S) /\ C \in Seq(S) /\ G1 \in Seq(S)
      BY <2>1, <2>7
    <3>2. QED
      BY <3>1, ConcatAssociative
  <2>12. P \o G0 = A \o (B \o G0)
    <3> HIDE DEF X, Y, G3, G2, G1, G0, EF
    <3>1. A \in Seq(S) /\ B \in Seq(S) /\ G0 \in Seq(S)
      BY <2>1, <2>7
    <3>2. QED
      BY <3>1, ConcatAssociative
  <2>13. QED
    BY <2>3, <2>4, <2>8, <2>9, <2>10, <2>11, <2>12 DEF A
<1>14. log # <<>> /\ Head(log) = a /\ Tail(log) = ToMcause
  BY <1>4, <1>7, <1>12, <1>13
<1>15. QED
  BY <1>6, <1>8, <1>9, <1>10, <1>11, <1>12, <1>14 DEF a, b, c, d, e, f
-----------------------------------------------------------------------------
(* A clock. *)

\* The word a statement reads, and the processor behind the statement.
ReadWord == Word(HartReq(hart, mip))
After == Executed(hart, ReadWord)

\* A calm statement leaves a calm thread, and what main has logged alone.
LEMMA CalmStep ==
  ASSUME HartShape(hart), Execute, Running(hart).code \in Seq(Calm)
  PROVE  /\ ThreadShape(Stepped(Running(hart), ReadWord))
         /\ Stepped(Running(hart), ReadWord).code \in Seq(Calm)
         /\ cause' = cause /\ epc' = epc
<1> DEFINE th == Running(hart)
           n  == Stepped(th, ReadWord)
           s  == Head(th.code)
<1>1. th.code # <<>>
  BY DEF Execute, CanExecute, Done
<1>2. s \in Calm /\ th.code \in Seq(Calm) /\ Tail(th.code) \in Seq(Calm)
  BY <1>1, HeadTailProperties
<1>3. ThreadShape(th)
  BY RunningShape
<1>4. /\ cause' = IF At(th, Local("cause")) THEN hart.main.ret ELSE cause
      /\ epc' = IF At(th, Local("epc")) THEN hart.main.ret ELSE epc
  BY DEF Execute
<1> HIDE DEF th
<1>5. /\ s.op \in {"modify", "assign", "get", "local", "csrs", "csrc", "csrw"}
      /\ s # Local("cause") /\ s # Local("epc")
  <2> DEFINE q == s
  <2>1. q \in Calm
    BY <1>2
  <2> HIDE DEF q
  <2>2. /\ q.op \in {"modify", "assign", "get", "local", "csrs", "csrc", "csrw"}
        /\ q # Local("cause") /\ q # Local("epc")
    BY <2>1 DEF Calm, Modify, Assign, Get, CsrSet, CsrClear, CsrPut, Local
  <2>3. QED
    BY <2>2 DEF q
<1>6. ThreadShape(n) /\ (n.code = th.code \/ n.code = Tail(th.code))
  BY <1>3, <1>5, SteppedShape
<1>7. cause' = cause /\ epc' = epc
  BY <1>4, <1>5 DEF At
<1> HIDE DEF n
<1>8. n.code \in Seq(Calm)
  BY <1>2, <1>6
<1>9. QED
  BY <1>6, <1>7, <1>8 DEF n, th

\* The processor behind a statement, a new call included.
LEMMA ExecuteIs ==
  ASSUME HartShape(hart), Execute, ThreadShape(Stepped(Running(hart), ReadWord))
  PROVE  LET th == Stepped(Running(hart), ReadWord)
             s  == Head(Running(hart).code)
         IN /\ HartShape(hart') /\ hart'.trapped = hart.trapped
            /\ s.op = "csrc" /\ s.reg = "mstatus" => hart'.MIE = FALSE
            /\ ~(s.op \in {"csrs", "csrc"} /\ s.reg = "mstatus") => hart'.MIE = hart.MIE
            /\ hart'.mie = After.mie /\ hart'.MPIE = hart.MPIE /\ hart'.lost = hart.lost
            /\ hart.trapped => hart'.main = hart.main /\ hart'.isr = th
            /\ ~hart.trapped =>
                 IF th.code # <<>> THEN hart'.main = th
                 ELSE /\ hart'.main.code \in {log, poll, poll_hit, poll_end}
                      /\ hart'.main.code \in
                           IF At(hart.main, Test)
                           THEN {IF th.ret # {} THEN poll_hit ELSE poll_end} ELSE {log, poll}
                      /\ hart'.main.acc = th.acc
<1> DEFINE th == Stepped(Running(hart), ReadWord)
           s  == Head(Running(hart).code)
           h  == After
           word == ReadWord
<1>1. hart' \in Continued(h)
  BY DEF Execute, After, ReadWord
<1> HIDE DEF word
<1>2. /\ HartShape(h) /\ h.trapped = hart.trapped /\ h.MPIE = hart.MPIE /\ h.lost = hart.lost
      /\ h.main = IF hart.trapped THEN hart.main ELSE th
      /\ h.isr = IF hart.trapped THEN th ELSE hart.isr
      /\ s.op = "csrc" /\ s.reg = "mstatus" => h.MIE = FALSE
      /\ ~(s.op \in {"csrs", "csrc"} /\ s.reg = "mstatus") => h.MIE = hart.MIE
  <2> DEFINE hh == hart
  <2> HIDE DEF hh
  <2>1. HartShape(hh) /\ ThreadShape(Stepped(Running(hh), word))
    BY DEF hh, word
  <2>2. LET e == Executed(hh, word)
            q == Head(Running(hh).code)
        IN /\ HartShape(e) /\ e.trapped = hh.trapped /\ e.MPIE = hh.MPIE
           /\ e.lost = hh.lost /\ e.torn = hh.torn
           /\ e.main = IF hh.trapped THEN hh.main ELSE Stepped(Running(hh), word)
           /\ e.isr = IF hh.trapped THEN Stepped(Running(hh), word) ELSE hh.isr
           /\ q.op \in {"csrs", "csrc"} /\ q.reg = "mstatus" => e.MIE = (q.op = "csrs")
           /\ (q.op \in {"csrs", "csrc"} /\ q.reg = "mstatus") \/ e.MIE = hh.MIE
    BY <2>1, ExecutedIs, Zenon
  <2>3. QED
    BY <2>2 DEF After, hh, word
<1>6. h = After
  OBVIOUS
<1> HIDE DEF h, th, s
<1>3. CASE hart.trapped \/ th.code # <<>>
  <2>1. hart' = h
    BY <1>1, <1>2, <1>3 DEF Continued, Done
  <2>2. QED
    BY <1>2, <1>3, <1>6, <2>1 DEF th, s
<1>4. CASE ~hart.trapped /\ th.code = <<>>
  <2>1. PICK code \in {log, poll, poll_hit, poll_end} :
          /\ hart' = [h EXCEPT !.main = Call(h.main, code)]
          /\ code \in IF At(hart.main, Test) THEN {IF th.ret # {} THEN poll_hit ELSE poll_end}
                      ELSE {log, poll}
    BY <1>1, <1>2, <1>4 DEF Continued, Done, Test
  <2> DEFINE m == Call(h.main, code)
  <2>2. ThreadShape(m) /\ m.code = code /\ m.acc = th.acc
    BY <1>2, <1>4, CalledShape DEF HartShape
  <2>3. hart' = [h EXCEPT !.main = m]
    BY <2>1
  <2> HIDE DEF m
  <2>4. /\ HartShape(hart') /\ hart'.trapped = h.trapped /\ hart'.MIE = h.MIE
        /\ hart'.main = m /\ hart'.mie = h.mie /\ hart'.MPIE = h.MPIE /\ hart'.lost = h.lost
    BY <1>2, <2>2, <2>3 DEF HartShape
  <2>5. QED
    BY <1>2, <1>4, <1>6, <2>1, <2>2, <2>4 DEF th, s
<1>5. QED
  BY <1>3, <1>4

\* A statement that is neither an access nor a loop leaves its thread behind it.
LEMMA LogStep ==
  ASSUME HartShape(hart), Execute, ~hart.trapped,
         Head(hart.main.code).op \in {"local", "csrc", "csrr"},
         Tail(hart.main.code) # <<>>
  PROVE  LET s == Head(hart.main.code) IN
         /\ HartShape(hart') /\ ~hart'.trapped
         /\ hart'.main.code = Tail(hart.main.code)
         /\ hart'.main.ret = IF s = CsrGet("mcause") THEN mcause
                             ELSE IF s = CsrGet("mepc") THEN mepc
                             ELSE IF s.op = "csrr" THEN ReadWord ELSE hart.main.ret
         /\ s.op = "csrc" /\ s.reg = "mstatus" => hart'.MIE = FALSE
         /\ s.op \in {"local", "csrr"} => hart'.MIE = hart.MIE
<1> DEFINE th == hart.main
           s  == Head(th.code)
           n  == Stepped(th, ReadWord)
<1>1. Running(hart) = th /\ ThreadShape(th) /\ th.code # <<>>
  BY RunningShape DEF Running, Execute, CanExecute, Done
<1>2. HartReq(hart, mip) = NoReq
  BY <1>1 DEF HartReq, Request, BusOps
<1>3. ReadWord = IF s = CsrGet("mcause") THEN mcause
                 ELSE IF s = CsrGet("mepc") THEN mepc ELSE {}
  BY <1>1, <1>2 DEF ReadWord, Word, NoReq, At, Done, CsrGet
<1>4. n = Behind(th, IF s.op = "csrr" THEN ReadWord ELSE th.ret)
  <2> DEFINE word == ReadWord
  <2> HIDE DEF th, word
  <2>1. ThreadShape(th)
    BY <1>1
  <2>2. CASE s.op \in {"local", "csrc"}
    <3>1. Stepped(th, word) = Behind(th, th.ret)
      BY <2>1, <2>2, SteppedOn
    <3>2. QED
      BY <2>2, <3>1 DEF word
  <2>3. CASE s.op = "csrr"
    <3>1. Stepped(th, word) = Behind(th, word)
      BY <2>1, <2>3, SteppedGet
    <3>2. QED
      BY <2>3, <3>1 DEF word
  <2>4. QED
    BY <2>2, <2>3 DEF th
<1>5. ThreadShape(n) /\ n.code = Tail(th.code) /\ n.ret = IF s.op = "csrr" THEN ReadWord ELSE th.ret
  BY <1>4 DEF ThreadShape, Behind
<1>6. s = CsrGet("mcause") \/ s = CsrGet("mepc") => s.op = "csrr"
  BY DEF CsrGet
<1>7. /\ HartShape(hart') /\ hart'.trapped = hart.trapped /\ hart'.main = n
      /\ s.op = "csrc" /\ s.reg = "mstatus" => hart'.MIE = FALSE
      /\ s.op \in {"local", "csrr"} => hart'.MIE = hart.MIE
  BY <1>1, <1>5, ExecuteIs
<1> HIDE DEF n
<1>8. QED
  BY <1>3, <1>5, <1>6, <1>7

\* Main goes through `log` undisturbed: the last trap lies before its first
\* read, the next one behind what it has logged.
LEMMA MainStep ==
  ASSUME LogInv, Execute, ~hart.trapped
  PROVE  LogInv'
<1> DEFINE code == hart.main.code
<1>1. /\ HartShape(hart) /\ Running(hart) = hart.main
      /\ UNCHANGED <<mcause, mepc>>
      /\ cause' = IF At(hart.main, Local("cause")) THEN hart.main.ret ELSE cause
      /\ epc' = IF At(hart.main, Local("epc")) THEN hart.main.ret ELSE epc
      /\ code # <<>>
  BY DEF LogInv, Running, Execute, CanExecute, Done
<1>2. CASE code \in Seq(Calm)
  <2> DEFINE th == Stepped(hart.main, ReadWord)
  <2>1. ThreadShape(th) /\ th.code \in Seq(Calm)
    BY <1>1, <1>2, CalmStep
  <2>2. /\ HartShape(hart') /\ ~hart'.trapped
        /\ IF th.code # <<>> THEN hart'.main = th
           ELSE hart'.main.code \in {log, poll, poll_hit, poll_end}
    BY <1>1, <2>1, ExecuteIs
  <2> HIDE DEF th
  <2>3. hart'.main.code \in Seq(Calm) \/ hart'.main.code = log
    BY <2>1, <2>2, CalmProgram
  <2>4. log' = log
    BY DEF log
  <2>5. QED
    BY <2>2, <2>3, <2>4 DEF LogInv
<1>3. ASSUME Head(code) = CsrClear("mstatus", TINYMCU_MSTATUS_MIE), Tail(code) = ToMcause
      PROVE  LogInv'
  <2>1. Head(code).op = "csrc" /\ Head(code).reg = "mstatus"
    BY <1>3 DEF CsrClear
  <2>2. HartShape(hart') /\ ~hart'.trapped /\ hart'.main.code = ToMcause /\ hart'.MIE = FALSE
    BY <1>1, <1>3, <2>1, LogStep, LogIs
  <2>3. QED
    BY <2>2 DEF LogInv, Logging
<1>4. CASE hart.MIE = FALSE /\ code = ToMcause
  <2>1. Head(code) = CsrGet("mcause") /\ Tail(code) = ToCause /\ Tail(code) # <<>>
    BY <1>4, LogIs
  <2>2. Head(code).op = "csrr"
    BY <2>1 DEF CsrGet
  <2>3. HartShape(hart') /\ ~hart'.trapped /\ hart'.main.code = ToCause /\ hart'.MIE = FALSE
    BY <1>1, <1>4, <2>1, <2>2, LogStep
  <2>4. hart'.main.ret = mcause
    BY <1>1, <1>4, <2>1, <2>2, LogStep DEF At, Done, CsrGet, Local
  <2>5. QED
    BY <1>1, <2>3, <2>4 DEF LogInv, Logging
<1>5. CASE hart.MIE = FALSE /\ code = ToCause /\ hart.main.ret = mcause
  <2>1. Head(code) = Local("cause") /\ Tail(code) = ToMepc /\ Tail(code) # <<>>
    BY <1>5, LogIs
  <2>2. Head(code).op = "local"
    BY <2>1 DEF Local
  <2>3. HartShape(hart') /\ ~hart'.trapped /\ hart'.main.code = ToMepc /\ hart'.MIE = FALSE
    BY <1>1, <1>5, <2>1, <2>2, LogStep
  <2>4. cause' = mcause
    BY <1>1, <1>5, <2>1, <2>2, LogStep DEF At, Done, CsrGet, Local
  <2>5. QED
    BY <1>1, <2>3, <2>4 DEF LogInv, Logging
<1>6. CASE hart.MIE = FALSE /\ code = ToMepc /\ cause = mcause
  <2>1. Head(code) = CsrGet("mepc") /\ Tail(code) = ToEpc /\ Tail(code) # <<>>
    BY <1>6, LogIs
  <2>2. Head(code).op = "csrr"
    BY <2>1 DEF CsrGet
  <2>3. HartShape(hart') /\ ~hart'.trapped /\ hart'.main.code = ToEpc /\ hart'.MIE = FALSE
    BY <1>1, <1>6, <2>1, <2>2, LogStep
  <2>4. cause' = mcause
    BY <1>1, <1>6, <2>1 DEF At, CsrGet, Local
  <2>5. hart'.main.ret = mepc
    <3>1. CsrGet("mepc") # CsrGet("mcause")
      BY DEF CsrGet
    <3>2. QED
      BY <1>1, <1>6, <2>1, <2>2, <3>1, LogStep
  <2>6. QED
    BY <1>1, <2>3, <2>4, <2>5 DEF LogInv, Logging
<1>7. CASE hart.MIE = FALSE /\ code = ToEpc /\ cause = mcause /\ hart.main.ret = mepc
  <2>1. Head(code) = Local("epc") /\ Tail(code) = ToLogged /\ Tail(code) # <<>>
    BY <1>7, LogIs
  <2>2. Head(code).op = "local"
    BY <2>1 DEF Local
  <2>3. HartShape(hart') /\ ~hart'.trapped /\ hart'.main.code = ToLogged /\ hart'.MIE = FALSE
    BY <1>1, <1>7, <2>1, <2>2, LogStep
  <2>4. cause' = mcause /\ epc' = mepc
    BY <1>1, <1>7, <2>1, <2>2, LogStep DEF At, Done, CsrGet, Local
  <2>5. QED
    BY <1>1, <2>3, <2>4 DEF LogInv, Logging
<1>8. CASE hart.MIE = FALSE /\ code = ToLogged
  <2>1. Head(code) = Local("logged") /\ Tail(code) = ToEnable /\ Tail(code) # <<>>
    BY <1>8, LogIs
  <2>2. Head(code).op = "local"
    BY <2>1 DEF Local
  <2>3. HartShape(hart') /\ ~hart'.trapped /\ hart'.main.code = ToEnable /\ hart'.MIE = FALSE
    BY <1>1, <1>8, <2>1, <2>2, LogStep
  <2>4. QED
    BY <2>3, CalmProgram DEF LogInv
<1>9. QED
  BY <1>2, <1>3, <1>4, <1>5, <1>6, <1>7, <1>8, LogIs DEF LogInv, Logging

\* The handler leaves main and what it has logged alone.
LEMMA HandlerStep ==
  ASSUME LogInv, Execute, hart.trapped
  PROVE  LogInv'
<1> DEFINE th == Stepped(hart.isr, ReadWord)
<1>1. /\ HartShape(hart) /\ Running(hart) = hart.isr /\ hart.isr.code \in Seq(Calm)
      /\ hart.main.code \in Seq(Calm) \/ hart.main.code = log
  BY DEF LogInv, Running, Logging
<1>2. ThreadShape(th) /\ th.code \in Seq(Calm)
  BY <1>1, CalmStep
<1>3. HartShape(hart') /\ hart'.main = hart.main /\ hart'.isr = th
  BY <1>1, <1>2, ExecuteIs
<1>4. log' = log
  BY DEF log
<1> HIDE DEF th
<1>5. QED
  BY <1>1, <1>2, <1>3, <1>4 DEF LogInv

\* A trap finds main outside the reads of `log`, where interrupts are on;
\* one that is lost leaves it there, one that is torn leaves nothing of it.
LEMMA TrapStep ==
  ASSUME LogInv, Trap
  PROVE  LogInv'
<1> DEFINE handler == tinymcu_trap_handler(mcause', mepc')
<1>1. Traps(hart, hart', mip, handler) /\ HartShape(hart)
  BY DEF Trap, LogInv
<1>2. handler \in Seq(Calm)
  BY CalmHandler
<1> HIDE DEF handler
<1>3. /\ HartShape(hart') /\ hart.MIE = TRUE
      /\ hart'.main = hart.main \/ hart'.main = Thread(<<>>)
      /\ \/ hart'.isr = Thread(handler)
         \/ hart'.isr = hart.isr /\ hart'.trapped = hart.trapped
  BY <1>1, TrapsIs
<1>4. hart.main.code \in Seq(Calm) \/ hart.main.code = log
  BY <1>3 DEF LogInv, Logging
<1>5. hart'.main.code \in Seq(Calm) \/ hart'.main.code = log
  <2>1. Thread(<<>>).code = <<>>
    BY DEF Thread
  <2>2. <<>> \in Seq(Calm)
    OBVIOUS
  <2>3. QED
    BY <1>3, <1>4, <2>1, <2>2
<1>6. hart'.trapped => hart'.isr.code \in Seq(Calm)
  <2>1. CASE hart'.isr = Thread(handler)
    <3>1. hart'.isr.code = handler
      BY <2>1 DEF Thread
    <3>2. QED
      BY <1>2, <3>1
  <2>2. CASE hart'.isr = hart.isr /\ hart'.trapped = hart.trapped
    <3>1. hart.trapped => hart.isr.code \in Seq(Calm)
      BY DEF LogInv
    <3>2. QED
      BY <2>2, <3>1
  <2>3. QED
    BY <1>3, <2>1, <2>2
<1>7. log' = log
  BY DEF log
<1>8. QED
  BY <1>3, <1>5, <1>6, <1>7 DEF LogInv

LEMMA LogNext ==
  ASSUME LogInv, [Next]_vars
  PROVE  LogInv'
<1>0. log' = log /\ ToMcause' = ToMcause /\ ToCause' = ToCause /\ ToMepc' = ToMepc
      /\ ToEpc' = ToEpc /\ ToLogged' = ToLogged
  BY DEF log, ToMcause, ToCause, ToMepc, ToEpc, ToLogged, ToEnable
<1>1. CASE Idle
  <2>1. /\ HartShape(hart') /\ hart'.main = hart.main /\ hart'.isr = hart.isr
        /\ hart'.trapped = hart.trapped /\ hart'.MIE = hart.MIE
        /\ UNCHANGED <<mcause, mepc, cause, epc>>
    BY <1>1, IdlesIs DEF Idle, LogInv
  <2>2. QED
    BY <1>0, <2>1 DEF LogInv, Logging
<1>2. CASE Execute
  BY <1>2, MainStep, HandlerStep
<1>3. CASE Trap
  BY <1>3, TrapStep
<1>4. CASE Mret
  <2>1. HartShape(hart') /\ hart'.main = hart.main /\ ~hart'.trapped /\ hart.trapped
    BY <1>4, MretsIs DEF Mret, LogInv
  <2>2. QED
    BY <1>0, <2>1 DEF LogInv, Logging
<1>5. CASE UNCHANGED vars
  BY <1>0, <1>5 DEF vars, LogInv, Logging
<1>6. QED
  BY <1>1, <1>2, <1>3, <1>4, <1>5 DEF Next

LEMMA LogInit == ASSUME Init PROVE LogInv
<1>1. HartShape(hart) /\ hart.main.code = setup /\ hart.trapped = FALSE
  BY ResetShape DEF Init
<1>2. Sources \in Bits
  BY DispatchAssumption DEF Init, Sources, Bits
<1>3. QED
  BY <1>1, <1>2, CalmProgram DEF LogInv

\* What main logs outside the handler are cause and place of one and the same
\* trap, the last one (tinymcu_csr_read_mcause, tinymcu_csr_read_mepc): no
\* interrupt comes between the two reads, or between a read and its use,
\* whichever source raises it and in whatever clock.
THEOREM LogIsOfOneTrap == Spec => []LoggedPair
<1>1. Init => LogInv
  BY LogInit
<1>2. LogInv /\ [Next]_vars => LogInv'
  BY LogNext
<1>3. LogInv => LoggedPair
  <2>1. SUFFICES ASSUME LogInv, At(hart.main, Local("logged")) PROVE cause = mcause /\ epc = mepc
    BY DEF LoggedPair
  <2>2. hart.main.code \notin Seq(Calm)
    <3>1. SUFFICES ASSUME hart.main.code \in Seq(Calm) PROVE FALSE
      OBVIOUS
    <3>2. Head(hart.main.code) \in Calm
      BY <2>1, <3>1, HeadTailProperties DEF At, Done
    <3>3. Local("logged") \notin Calm
      <4>1. ASSUME NEW q \in Calm PROVE q # Local("logged")
        BY DEF Calm, Modify, Assign, Get, CsrSet, CsrClear, CsrPut, Local
      <4>2. QED
        BY <4>1
    <3>4. QED
      BY <2>1, <3>2, <3>3 DEF At
  <2>3. hart.main.code = ToLogged /\ cause = mcause /\ epc = mepc
    <3>1. /\ CsrClear("mstatus", TINYMCU_MSTATUS_MIE) # Local("logged")
          /\ CsrGet("mcause") # Local("logged") /\ CsrGet("mepc") # Local("logged")
          /\ Local("cause") # Local("logged") /\ Local("epc") # Local("logged")
      BY DEF CsrClear, CsrGet, Local
    <3>2. QED
      BY <2>1, <2>2, <3>1, LogIs DEF LogInv, Logging, At
  <2>4. QED
    BY <2>3
<1>4. QED
  BY <1>1, <1>2, <1>3, PTL DEF Spec
-----------------------------------------------------------------------------
(* Who clears a flag. *)

ClearOne   == ClearBits("gpio", "INT_STATUS", {button})
ClearAll   == Assign("gpio", "INT_STATUS", {})
ClearTimer == Assign("timer", "INT_STATUS", {})

\* The statements that neither clear a flag nor decide to.
Others == Registers \ {"INT_STATUS"}
Plain ==
  {Modify("gpio", r, c, s, f) : r \in Others, c \in Bits, s \in Bits, f \in Bits}
  \cup {Assign(d, r, v) : d \in {"gpio", "timer"}, r \in Others, v \in Bits \cup {CLKSEL, Period}}
  \cup {CsrSet(c, m) : c \in {"mie", "mstatus"}, m \in Bits}
  \cup {CsrClear(c, m) : c \in {"mie", "mstatus"}, m \in Bits}
  \cup {CsrPut("mtvec", "trap_entry")}
  \cup {CsrGet(c) : c \in {"mcause", "mepc"}}
  \cup {Local(n) : n \in {"return", "cause", "epc", "logged"}}

LEMMA PlainIs ==
  ASSUME NEW s \in Plain
  PROVE  /\ s.op \in {"modify", "assign", "csrs", "csrc", "csrw", "csrr", "local"}
         /\ s.op \in {"modify", "assign"} => s.reg # "INT_STATUS"
         /\ s # Test
<1>1. CASE s \in {Modify("gpio", r, c, e, f) : r \in Others, c \in Bits, e \in Bits, f \in Bits}
  BY <1>1 DEF Modify, Others, Test, Local
<1>2. CASE s \in {Assign(d, r, v) : d \in {"gpio", "timer"}, r \in Others, v \in Bits \cup {CLKSEL, Period}}
  BY <1>2 DEF Assign, Others, Test, Local
<1>3. CASE s \in {CsrSet(c, m) : c \in {"mie", "mstatus"}, m \in Bits}
                 \cup {CsrClear(c, m) : c \in {"mie", "mstatus"}, m \in Bits}
                 \cup {CsrPut("mtvec", "trap_entry")} \cup {CsrGet(c) : c \in {"mcause", "mepc"}}
  BY <1>3 DEF CsrSet, CsrClear, CsrPut, CsrGet, Test, Local
<1>4. CASE s \in {Local(n) : n \in {"return", "cause", "epc", "logged"}}
  BY <1>4 DEF Test, Local
<1>5. QED
  BY <1>1, <1>2, <1>3, <1>4 DEF Plain

LEMMA PlainStatements ==
  /\ \A r \in Others, m \in Bits :
       <<SetBits("gpio", r, m)>> \in Seq(Plain) /\ <<ClearBits("gpio", r, m)>> \in Seq(Plain)
  /\ \A r \in Others, v \in Bits \cup {CLKSEL, Period} : <<Assign("timer", r, v)>> \in Seq(Plain)
  /\ \A c \in {"mie", "mstatus"}, m \in Bits :
       <<CsrSet(c, m)>> \in Seq(Plain) /\ <<CsrClear(c, m)>> \in Seq(Plain)
  /\ <<CsrPut("mtvec", "trap_entry")>> \in Seq(Plain)
  /\ \A c \in {"mcause", "mepc"} : <<CsrGet(c)>> \in Seq(Plain)
  /\ \A n \in {"return", "cause", "epc", "logged"} : <<Local(n)>> \in Seq(Plain)
  /\ <<>> \in Seq(Plain)
<1>1. ASSUME NEW s \in Plain PROVE <<s>> \in Seq(Plain)
  OBVIOUS
<1>2. \A r \in Others, m \in Bits :
        SetBits("gpio", r, m) \in Plain /\ ClearBits("gpio", r, m) \in Plain
  <2>1. \A r \in Others, c \in Bits, s \in Bits, f \in Bits : Modify("gpio", r, c, s, f) \in Plain
    BY DEF Plain
  <2>2. {} \in Bits
    BY DEF Bits
  <2>3. QED
    BY <2>1, <2>2 DEF SetBits, ClearBits
<1>3. \A r \in Others, v \in Bits \cup {CLKSEL, Period} : Assign("timer", r, v) \in Plain
  BY DEF Plain
<1>4. \A c \in {"mie", "mstatus"}, m \in Bits : CsrSet(c, m) \in Plain /\ CsrClear(c, m) \in Plain
  BY DEF Plain
<1>5. /\ CsrPut("mtvec", "trap_entry") \in Plain
      /\ \A c \in {"mcause", "mepc"} : CsrGet(c) \in Plain
      /\ \A n \in {"return", "cause", "epc", "logged"} : Local(n) \in Plain
  BY DEF Plain
<1>6. <<>> \in Seq(Plain)
  OBVIOUS
<1>7. QED
  BY <1>1, <1>2, <1>3, <1>4, <1>5, <1>6

\* What main runs, but for its service of the button, is plain.
LEMMA PlainProgram ==
  /\ Sources \in Bits => setup \in Seq(Plain)
  /\ log \in Seq(Plain) /\ poll_end \in Seq(Plain)
<1> DEFINE Q == Seq(Plain)
<1>1. ASSUME NEW s \in Q, NEW t \in Q PROVE s \o t \in Q
  BY ConcatProperties
<1>2. /\ {button} \in Bits /\ {0} \in Bits /\ {3} \in Bits /\ {11} \in Bits
      /\ "CONFIG" \in Others /\ "DDR" \in Others /\ "INT_CONFIG" \in Others /\ "COMPARE" \in Others
      /\ {CLKSEL, Period} \subseteq Bits \cup {CLKSEL, Period}
  BY DEF Bits, button, Registers, Others
<1>3. TINYMCU_MIE.MEIE = {11} /\ TINYMCU_MSTATUS_MIE = {3}
      /\ TINYMCU_GPIO_CONFIG_GLOBAL_INT_EN = {0} /\ TINYMCU_TIMER_INT_COMPARE = {0}
  BY DEF TINYMCU_MIE, TINYMCU_MSTATUS_MIE, TINYMCU_GPIO_CONFIG_GLOBAL_INT_EN,
         TINYMCU_TIMER_INT_COMPARE
<1>4. /\ tinymcu_gpio_set_input(button) \in Q /\ tinymcu_gpio_irq_enable(button) \in Q
      /\ tinymcu_gpio_irq_global_enable \in Q
  BY <1>2, <1>3, PlainStatements DEF tinymcu_gpio_set_input, tinymcu_gpio_irq_enable,
     tinymcu_gpio_irq_global_enable
<1>5. /\ tinymcu_timer_set_compare(Period) \in Q /\ tinymcu_timer_irq_enable \in Q
      /\ tinymcu_timer_set_clksel(CLKSEL) \in Q
  BY <1>2, <1>3, PlainStatements DEF tinymcu_timer_set_compare, tinymcu_timer_irq_enable,
     tinymcu_timer_set_clksel
<1>6. /\ tinymcu_csr_set_mie(TINYMCU_MIE.MEIE) \in Q /\ tinymcu_csr_write_mtvec("trap_entry") \in Q
      /\ tinymcu_enable_global_interrupts \in Q /\ tinymcu_disable_global_interrupts \in Q
      /\ tinymcu_csr_read_mcause \in Q /\ tinymcu_csr_read_mepc \in Q
      /\ Sources \in Bits => tinymcu_csr_set_mie(Sources) \in Q
  BY <1>2, <1>3, PlainStatements DEF tinymcu_csr_set_mie, tinymcu_csr_write_mtvec,
     tinymcu_enable_global_interrupts, tinymcu_disable_global_interrupts,
     tinymcu_csr_read_mcause, tinymcu_csr_read_mepc
<1>7. /\ <<Local("cause")>> \in Q /\ <<Local("epc"), Local("logged")>> \in Q
  <2>1. /\ <<Local("cause")>> \in Q /\ <<Local("epc")>> \in Q /\ <<Local("logged")>> \in Q
    BY PlainStatements
  <2>2. <<Local("epc"), Local("logged")>> = <<Local("epc")>> \o <<Local("logged")>>
    BY PairIs
  <2> HIDE DEF Q
  <2>3. QED
    BY <1>1, <2>1, <2>2
<1> HIDE DEF Q
<1>8. tinymcu_trap_init \in Q
  BY <1>1, <1>6 DEF tinymcu_trap_init
<1>9. poll_end \in Q /\ log \in Q
  BY <1>1, <1>6, <1>7, ZenonT(60) DEF poll_end, log
<1>10. Sources \in Bits => setup \in Q
  BY <1>1, <1>4, <1>5, <1>6, <1>8, ZenonT(60) DEF setup
<1>11. QED
  BY <1>9, <1>10 DEF Q

\* Main's service of the button, statement by statement.
ToGet == tinymcu_gpio_irq_pending(button) \o <<Test>>

LEMMA PollIs ==
  /\ poll # <<>> /\ Head(poll) = CsrClear("mie", {11}) /\ Tail(poll) = ToGet
  /\ ToGet # <<>> /\ Head(ToGet) = Get("gpio", "INT_STATUS", {button}) /\ Tail(ToGet) = <<Test>>
  /\ poll_hit # <<>> /\ Head(poll_hit) = ClearOne /\ Tail(poll_hit) = poll_end
<1> DEFINE a == CsrClear("mie", {11})
           b == Get("gpio", "INT_STATUS", {button})
           S == {a, b, Test, ClearOne, CsrSet("mie", {11})}
           A == <<a>>
           B == <<b>>
           T == <<Test>>
<1>1. TINYMCU_MIE.MEIE = {11}
  BY DEF TINYMCU_MIE
<1>2. poll = (A \o B) \o T /\ ToGet = B \o T
  BY <1>1 DEF poll, ToGet, Test, tinymcu_csr_clear_mie, tinymcu_gpio_irq_pending
<1>3. poll_end = <<CsrSet("mie", {11})>> /\ poll_hit = <<ClearOne>> \o poll_end
  BY <1>1 DEF poll_end, poll_hit, tinymcu_csr_set_mie, tinymcu_gpio_irq_clear, ClearOne
<1>4. /\ A \in Seq(S) /\ B \in Seq(S) /\ T \in Seq(S) /\ poll_end \in Seq(S)
      /\ a \in S /\ b \in S /\ ClearOne \in S
  BY <1>3
<1>5. \A s \in S, t \in Seq(S) :
        /\ <<s>> \o t \in Seq(S) /\ <<s>> \o t # <<>>
        /\ Head(<<s>> \o t) = s /\ Tail(<<s>> \o t) = t
  <2> HIDE DEF S
  <2>1. QED
    BY FirstStatement
<1> HIDE DEF a, b, S
<1>6. ToGet \in Seq(S) /\ ToGet # <<>> /\ Head(ToGet) = b /\ Tail(ToGet) = T
  BY <1>2, <1>4, <1>5
<1>7. poll = A \o ToGet
  <2> HIDE DEF A, B, T
  <2>1. QED
    BY <1>2, <1>4, ConcatAssociative
<1>8. poll # <<>> /\ Head(poll) = a /\ Tail(poll) = ToGet
  BY <1>4, <1>5, <1>6, <1>7
<1>9. poll_hit # <<>> /\ Head(poll_hit) = ClearOne /\ Tail(poll_hit) = poll_end
  BY <1>3, <1>4, <1>5
<1>10. QED
  BY <1>6, <1>8, <1>9 DEF a, b

-----------------------------------------------------------------------------
Masked == 11 \notin hart.mie
Flag   == button \in gpio.INT_STATUS

\* Main may clear the button's flag where it has masked the line and seen it.
Polling ==
  \/ hart.main.code = poll
  \/ Masked /\ hart.main.code = ToGet
  \/ Masked /\ hart.main.code = <<Test>> /\ (hart.main.ret # {} => Flag)
  \/ /\ Masked /\ hart.main.code = poll_hit /\ Flag
     /\ hart.main.acc # <<>> => hart.main.acc[1] \subseteq {button}

\* The handler, where the line that raised it was enabled.
Handling ==
  \/ hart.isr.code = <<>> \/ hart.isr.code = <<Return>>
  \/ ~Weak /\ hart.isr.code = <<ClearAll>> /\ ~Masked /\ Flag
  \/ ~Weak /\ hart.isr.code = <<ClearTimer>> /\ TimerIrq(timer)

\* No other pin and no other line.
PortInv ==
  /\ level \subseteq {button} /\ gpio.debounced \subseteq {button} /\ gpio.prev \subseteq {button}
  /\ gpio.INT_STATUS \subseteq {button} /\ "intStatus" \in DOMAIN timer

\* Behind a trap of a program without a handler its line stays up and enabled,
\* and interrupts are on outside the handler unless the trap was lost.
Pending == mip \cap hart.mie # {}
StandInv ==
  Weak /\ mcause # {} /\ ~hart.lost =>
    Pending /\ IF hart.trapped THEN hart.MPIE = TRUE ELSE hart.MIE = TRUE

\* The inductive invariant.
ServedInv ==
  /\ HartShape(hart)
  /\ hart.main.code \in Seq(Plain) \/ Polling
  /\ hart.trapped => Handling
  /\ PortInv /\ StandInv

\* A flag falls only to a write of its register.
FlagsKept ==
  /\ Flag => Flag'
  /\ TimerIrq(timer) => TimerIrq(timer)'
  /\ mip \subseteq mip'

LEMMA DevicesStep ==
  ASSUME PortInv, NEW req, Devices(req)
  PROVE  /\ Writes(req, "gpio", "INT_STATUS") /\ req.data \subseteq {button} => PortInv'
         /\ ~Writes(req, "gpio", "INT_STATUS") => PortInv' /\ (Flag => Flag')
         /\ ~Writes(req, "timer", "INT_STATUS") => (TimerIrq(timer) => TimerIrq(timer)')
         /\ ~Writes(req, "gpio", "INT_STATUS") /\ ~Writes(req, "timer", "INT_STATUS") => FlagsKept
<1>1. timer' = TimerClock(timer, req) /\ gpio' = GpioClock(gpio, req, level)
      /\ level' \subseteq {button} /\ level \subseteq {button} /\ Pins = {button}
  BY DispatchAssumption DEF Devices, PortInv, button
<1>2. /\ gpio'.prev = Filtered(gpio, level) /\ gpio'.debounced = Debounced(gpio, level)
      /\ gpio'.INT_STATUS = IF Writes(req, "gpio", "INT_STATUS") THEN req.data
                            ELSE gpio.INT_STATUS \cup Edges(gpio, level)
  BY <1>1 DEF GpioClock
<1>3. gpio'.prev \subseteq {button} /\ gpio'.debounced \subseteq {button}
  BY <1>1, <1>2 DEF Filtered, Debounced, PortInv
<1>4. Edges(gpio, level) \subseteq {button}
  BY <1>1, <1>2, <1>3 DEF Edges, PortInv
<1>5. /\ "intStatus" \in DOMAIN timer'
      /\ ~Writes(req, "timer", "INT_STATUS") => (TimerIrq(timer) => 0 \in timer'.intStatus)
  <2> DEFINE p == Prescaled(timer)
             f == Flagged(timer, req)
  <2>1. "intStatus" \in DOMAIN p
    BY DEF PortInv, Prescaled
  <2>2. ~Writes(req, "timer", "INT_STATUS") => (TimerIrq(timer) => 0 \in f)
    BY DEF Flagged, TimerIrq
  <2>3. \E c, m, i, n, x : timer' = [p EXCEPT !.config = c, !.compare = m, !.intConfig = i,
                                     !.counter = n, !.intStatus = f, !.match = x]
    BY <1>1 DEF TimerClock
  <2> HIDE DEF p, f
  <2>4. "intStatus" \in DOMAIN timer' /\ timer'.intStatus = f
    BY <2>1, <2>3
  <2>5. QED
    BY <2>2, <2>4
<1>6. PortInv' = (/\ level' \subseteq {button} /\ gpio'.debounced \subseteq {button}
                  /\ gpio'.prev \subseteq {button} /\ gpio'.INT_STATUS \subseteq {button}
                  /\ "intStatus" \in DOMAIN timer')
  BY DEF PortInv, button
<1>7. ~Writes(req, "gpio", "INT_STATUS") => PortInv' /\ gpio.INT_STATUS \subseteq gpio'.INT_STATUS
  BY <1>1, <1>2, <1>3, <1>4, <1>5, <1>6 DEF PortInv
<1>8. Writes(req, "gpio", "INT_STATUS") /\ req.data \subseteq {button} => PortInv'
  BY <1>1, <1>2, <1>3, <1>5, <1>6
<1>9. ~Writes(req, "gpio", "INT_STATUS") => (Flag => Flag')
  BY <1>7 DEF Flag, button
<1>10. ~Writes(req, "timer", "INT_STATUS") => (TimerIrq(timer) => TimerIrq(timer)')
  BY <1>5 DEF TimerIrq
<1>11. ~Writes(req, "gpio", "INT_STATUS") /\ ~Writes(req, "timer", "INT_STATUS") => mip \subseteq mip'
  <2>1. ~Writes(req, "gpio", "INT_STATUS") => (GpioIrq(gpio) => GpioIrq(gpio)')
    BY <1>7 DEF GpioIrq
  <2>2. QED
    BY <1>10, <2>1 DEF mip
<1>12. QED
  BY <1>7, <1>8, <1>9, <1>10, <1>11 DEF FlagsKept

\* What a statement does to mie.
LEMMA EnabledIs ==
  ASSUME NEW h, HartShape(h), NEW word, ThreadShape(Stepped(Running(h), word))
  PROVE  LET e == Executed(h, word)
             s == Head(Running(h).code)
         IN /\ s.op \notin {"csrs", "csrc"} => e.mie = h.mie
            /\ s.op = "csrc" /\ s.reg = "mie" => e.mie = h.mie \ s.mask
<1> DEFINE g == WithThread(h, Stepped(Running(h), word))
           e == Executed(h, word)
           s == Head(Running(h).code)
<1>1. HartShape(g) /\ g.mie = h.mie
  BY WithThreadIs
<1>2. e = CASE s.op = "csrw" -> [g EXCEPT !.mtvec = s.val]
            [] s.op = "csrs" /\ s.reg = "mie" -> [g EXCEPT !.mie = @ \cup s.mask]
            [] s.op = "csrc" /\ s.reg = "mie" -> [g EXCEPT !.mie = @ \ s.mask]
            [] s.op = "csrs" /\ s.reg = "mstatus" -> [g EXCEPT !.MIE = TRUE]
            [] s.op = "csrc" /\ s.reg = "mstatus" -> [g EXCEPT !.MIE = FALSE]
            [] OTHER -> g
  BY DEF Executed
<1> HIDE DEF g, e, s
<1>3. ASSUME s.op \notin {"csrs", "csrc"} PROVE e.mie = h.mie
  <2>1. CASE s.op = "csrw"
    BY <1>1, <1>2, <2>1 DEF HartShape
  <2>2. CASE s.op # "csrw"
    BY <1>1, <1>2, <1>3, <2>2
  <2>3. QED
    BY <2>1, <2>2
<1>4. ASSUME s.op = "csrc" /\ s.reg = "mie" PROVE e.mie = h.mie \ s.mask
  <2>1. e = [g EXCEPT !.mie = @ \ s.mask]
    BY <1>2, <1>4
  <2>2. QED
    BY <1>1, <2>1 DEF HartShape
<1>5. QED
  BY <1>3, <1>4 DEF e, s

\* A plain statement, or none, writes no flags.
LEMMA PlainRequest ==
  ASSUME NEW th, th.code # <<>> => Head(th.code) \in Plain \cup {Test}
  PROVE  \A d : ~Writes(Request(th), d, "INT_STATUS")
<1>1. CASE th.code = <<>>
  BY <1>1 DEF Request, Done, Writes, NoReq
<1>2. CASE th.code # <<>>
  <2> DEFINE s == Head(th.code)
  <2>1. s.op \in {"modify", "assign"} => s.reg # "INT_STATUS"
    BY <1>2, PlainIs DEF Test, Local
  <2> HIDE DEF s
  <2>2. Request(th) = IF s.op \notin BusOps THEN NoReq
                      ELSE CASE s.op = "assign" -> WriteReq(s.dev, s.reg, s.val)
                             [] s.op = "modify" /\ th.acc # <<>>
                                  -> WriteReq(s.dev, s.reg, Stored(s, th.acc[1]))
                             [] OTHER -> ReadReq(s.dev, s.reg)
    BY <1>2 DEF Request, Done, s
  <2>3. CASE s.op \notin BusOps
    BY <2>2, <2>3 DEF Writes, NoReq
  <2>4. CASE s.op = "assign" /\ s.op \in BusOps
    BY <2>1, <2>2, <2>4 DEF Writes, WriteReq
  <2>5. CASE s.op = "modify" /\ th.acc # <<>> /\ s.op \in BusOps
    BY <2>1, <2>2, <2>5 DEF Writes, WriteReq
  <2>6. CASE s.op \in BusOps /\ s.op # "assign" /\ ~(s.op = "modify" /\ th.acc # <<>>)
    BY <2>2, <2>6 DEF Writes, ReadReq
  <2>7. QED
    BY <2>3, <2>4, <2>5, <2>6
<1>3. QED
  BY <1>1, <1>2

LEMMA PollingKept ==
  ASSUME Polling, hart'.main = hart.main, hart'.mie = hart.mie, Flag => Flag'
  PROVE  Polling'
<1>1. poll' = poll /\ ToGet' = ToGet /\ poll_hit' = poll_hit /\ Test' = Test
  BY DEF poll, ToGet, poll_hit, Test
<1>2. QED
  BY <1>1 DEF Polling, Masked, button

\* A clock in which nobody reaches a peripheral.
LEMMA NoAccess ==
  ASSUME ServedInv, Devices(NoReq), hart'.main = hart.main, hart'.mie = hart.mie
  PROVE  /\ hart'.main.code \in Seq(Plain) \/ Polling'
         /\ PortInv' /\ FlagsKept /\ (Pending => Pending')
<1>1. PortInv' /\ FlagsKept
  BY DevicesStep DEF ServedInv, Writes, NoReq
<1>2. Pending => Pending'
  BY <1>1 DEF Pending, FlagsKept
<1>3. QED
  BY <1>1, <1>2, PollingKept DEF ServedInv, FlagsKept

\* What main does when it runs.
LEMMA ServedMain ==
  ASSUME ServedInv, Execute, ~hart.trapped
  PROVE  ServedInv'
<1> DEFINE main == hart.main
           s    == Head(main.code)
           th   == Stepped(main, ReadWord)
           req  == HartReq(hart, mip)
<1>1. /\ HartShape(hart) /\ ThreadShape(main) /\ Running(hart) = main /\ main.code # <<>>
      /\ ~Interrupted(hart, mip) /\ Devices(req) /\ req = Request(main) /\ PortInv
      /\ UNCHANGED <<program, mcause>>
  BY RunningShape DEF ServedInv, Running, Execute, CanExecute, Done, HartReq
<1>2. StandInv'
  <2>1. ~(Weak /\ mcause # {} /\ ~hart.lost)
    BY <1>1 DEF ServedInv, StandInv, Pending, Interrupted
  <2>2. s.op \in {"modify", "assign", "get", "local", "csrs", "csrc", "csrw", "csrr"}
    <3>1. CASE main.code \in Seq(Plain)
      <4>1. s \in Plain
        BY <1>1, <3>1, HeadTailProperties
      <4>2. QED
        BY <4>1, PlainIs
    <3>2. CASE Polling
      <4>1. \/ s = CsrClear("mie", {11}) \/ s = Get("gpio", "INT_STATUS", {button})
            \/ s = Test \/ s = ClearOne
        BY <3>2, PollIs DEF Polling
      <4>2. QED
        BY <4>1 DEF CsrClear, Get, Test, Local, ClearOne, ClearBits, Modify
    <3>3. QED
      BY <3>1, <3>2 DEF ServedInv
  <2>3. ThreadShape(th)
    BY <1>1, <2>2, SteppedShape
  <2>4. hart'.lost = hart.lost
    BY <1>1, <2>3, ExecuteIs
  <2>5. QED
    BY <1>1, <2>1, <2>4 DEF StandInv, Weak
<1>3. ASSUME ThreadShape(th)
      PROVE  /\ HartShape(hart') /\ ~hart'.trapped
             /\ s.op \notin {"csrs", "csrc"} => hart'.mie = hart.mie
             /\ s.op = "csrc" /\ s.reg = "mie" => hart'.mie = hart.mie \ s.mask
             /\ IF th.code # <<>> THEN hart'.main = th
                ELSE /\ hart'.main.code \in
                          IF At(main, Test) THEN {IF th.ret # {} THEN poll_hit ELSE poll_end}
                          ELSE {log, poll}
                     /\ hart'.main.acc = th.acc
  BY <1>1, <1>3, ExecuteIs, EnabledIs DEF After
<1>4. ASSUME s \in Plain \cup {Test}
      PROVE  PortInv' /\ FlagsKept
  BY <1>1, <1>4, PlainRequest, DevicesStep
<1>5. ASSUME s.op \in BusOps, s.op # "assign", s.op = "modify" => main.acc = <<>>
      PROVE  req = ReadReq(s.dev, s.reg)
  BY <1>1, <1>5 DEF Request, Done
<1>6. ASSUME s.op \in BusOps, s.op # "assign", s.op = "modify" => main.acc = <<>>,
             s.dev = "gpio", s.reg = "INT_STATUS"
      PROVE  ReadWord = gpio.INT_STATUS /\ PortInv' /\ FlagsKept
  <2>1. req.dev = "gpio" /\ req.reg = "INT_STATUS" /\ req.we = FALSE
    BY <1>5, <1>6 DEF ReadReq
  <2>2. ReadWord = GpioRead(gpio, "INT_STATUS", level)
    <3> HIDE DEF req
    <3>1. ReadWord = Word(req)
      BY DEF ReadWord, req
    <3>2. ~At(Running(hart), CsrGet("mcause")) /\ ~At(Running(hart), CsrGet("mepc"))
      BY <1>1, <1>6 DEF At, CsrGet, BusOps
    <3>3. Word(req) = CASE req.dev = "timer" -> TimerRead(timer, req.reg)
                        [] req.dev = "gpio"  -> GpioRead(gpio, req.reg, level)
                        [] At(Running(hart), CsrGet("mcause")) -> mcause
                        [] At(Running(hart), CsrGet("mepc"))   -> mepc
                        [] OTHER -> {}
      BY DEF Word
    <3>4. QED
      BY <2>1, <3>1, <3>2, <3>3
  <2>3. ~Writes(req, "gpio", "INT_STATUS") /\ ~Writes(req, "timer", "INT_STATUS")
    BY <2>1 DEF Writes
  <2>4. QED
    BY <1>1, <2>2, <2>3, DevicesStep DEF GpioRead
<1> HIDE DEF th, req
<1>7. ASSUME HartShape(hart'), ~hart'.trapped, PortInv', hart'.main.code \in Seq(Plain) \/ Polling'
      PROVE  ServedInv'
  BY <1>2, <1>7 DEF ServedInv
<1>8. CASE main.code \in Seq(Plain)
  <2>1. s \in Plain /\ Tail(main.code) \in Seq(Plain)
    BY <1>1, <1>8, HeadTailProperties
  <2>2. s.op \in {"modify", "assign", "csrs", "csrc", "csrw", "csrr", "local"} /\ s # Test
    BY <2>1, PlainIs
  <2>3. ThreadShape(th) /\ (th.code = main.code \/ th.code = Tail(main.code))
    BY <1>1, <2>2, SteppedShape DEF th
  <2>4. ~At(main, Test)
    BY <2>2 DEF At
  <2>5. hart'.main.code \in Seq(Plain) \/ hart'.main.code = poll
    BY <1>3, <1>8, <2>1, <2>3, <2>4, PlainProgram
  <2>6. poll' = poll
    BY DEF poll
  <2>7. QED
    BY <1>3, <1>4, <1>7, <2>1, <2>3, <2>5, <2>6 DEF Polling
<1>9. CASE main.code = poll
  <2>1. s = CsrClear("mie", {11}) /\ Tail(main.code) = ToGet /\ ToGet # <<>>
    BY <1>9, PollIs
  <2>2. s.op = "csrc" /\ s.reg = "mie" /\ s.mask = {11}
    BY <2>1 DEF CsrClear
  <2>3. th = Behind(main, main.ret)
    BY <1>1, <2>2, SteppedOn DEF th
  <2>4. ThreadShape(th) /\ th.code = ToGet
    BY <2>1, <2>3 DEF Behind, ThreadShape
  <2>5. HartShape(hart') /\ ~hart'.trapped /\ hart'.main.code = ToGet /\ Masked'
    BY <1>3, <2>1, <2>2, <2>4 DEF Masked
  <2>6. PortInv'
    <3>1. req = NoReq
      BY <1>1, <2>2 DEF Request, BusOps
    <3>2. QED
      BY <1>1, <3>1, DevicesStep DEF Writes, NoReq
  <2>7. ToGet' = ToGet
    BY DEF ToGet, Test
  <2>8. QED
    BY <1>7, <2>5, <2>6, <2>7 DEF Polling
<1>10. CASE Masked /\ main.code = ToGet
  <2>1. s = Get("gpio", "INT_STATUS", {button}) /\ Tail(main.code) = <<Test>>
    BY <1>10, PollIs
  <2>2. s.op = "get" /\ s.dev = "gpio" /\ s.reg = "INT_STATUS" /\ s.mask = {button}
    BY <2>1 DEF Get
  <2>3. ReadWord = gpio.INT_STATUS /\ PortInv' /\ FlagsKept
    BY <1>6, <2>2 DEF BusOps
  <2>4. th = Behind(main, ReadWord \cap {button})
    BY <1>1, <2>2, SteppedGet DEF th
  <2>5. ThreadShape(th) /\ th.code = <<Test>> /\ th.ret = gpio.INT_STATUS \cap {button}
    BY <2>1, <2>3, <2>4 DEF Behind, ThreadShape
  <2>6. /\ HartShape(hart') /\ ~hart'.trapped /\ hart'.mie = hart.mie
        /\ hart'.main.code = <<Test>> /\ hart'.main.ret = gpio.INT_STATUS \cap {button}
    BY <1>3, <2>2, <2>5
  <2>7. Masked' /\ (hart'.main.ret # {} => Flag')
    BY <1>10, <2>3, <2>6 DEF Masked, Flag, FlagsKept
  <2>8. Test' = Test
    BY DEF Test
  <2>9. QED
    BY <1>7, <2>3, <2>6, <2>7, <2>8 DEF Polling
<1>11. CASE Masked /\ main.code = <<Test>> /\ (main.ret # {} => Flag)
  <2>1. s = Test /\ Tail(main.code) = <<>> /\ s.op = "local" /\ At(main, Test)
    BY <1>1, <1>11 DEF Test, Local, At, Done
  <2>2. th = Behind(main, main.ret)
    BY <1>1, <2>1, SteppedOn DEF th
  <2>3. ThreadShape(th) /\ th.code = <<>> /\ th.acc = <<>> /\ th.ret = main.ret
    BY <2>1, <2>2 DEF Behind, ThreadShape
  <2>4. /\ HartShape(hart') /\ ~hart'.trapped /\ hart'.mie = hart.mie /\ hart'.main.acc = <<>>
        /\ hart'.main.code = IF main.ret # {} THEN poll_hit ELSE poll_end
    BY <1>3, <2>1, <2>3
  <2>5. PortInv' /\ FlagsKept
    BY <1>4, <2>1
  <2>6. Masked' /\ poll_hit' = poll_hit
    BY <1>11, <2>4 DEF Masked, poll_hit
  <2>7. CASE main.ret # {}
    BY <1>7, <1>11, <2>4, <2>5, <2>6, <2>7 DEF Polling, FlagsKept
  <2>8. CASE main.ret = {}
    BY <1>7, <2>4, <2>5, <2>8, PlainProgram
  <2>9. QED
    BY <2>7, <2>8
<1>12. CASE /\ Masked /\ main.code = poll_hit /\ Flag
            /\ main.acc # <<>> => main.acc[1] \subseteq {button}
  <2>1. s = ClearOne /\ Tail(main.code) = poll_end
    BY <1>12, PollIs
  <2>2. /\ s.op = "modify" /\ s.dev = "gpio" /\ s.reg = "INT_STATUS"
        /\ s.set = {} /\ s.flip = {}
    BY <2>1 DEF ClearOne, ClearBits, Modify
  <2>3. CASE main.acc = <<>>
    <3>1. ReadWord = gpio.INT_STATUS /\ PortInv' /\ FlagsKept
      BY <1>6, <2>2, <2>3 DEF BusOps
    <3>2. th = [code |-> main.code, acc |-> <<ReadWord>>, ret |-> main.ret]
      BY <1>1, <2>2, <2>3, SteppedLoad DEF th
    <3>3. ThreadShape(th) /\ th.code = poll_hit /\ th.acc[1] \subseteq {button}
      BY <1>1, <1>12, <3>1, <3>2 DEF ThreadShape, PortInv
    <3>4. /\ HartShape(hart') /\ ~hart'.trapped /\ hart'.mie = hart.mie
          /\ hart'.main.code = poll_hit /\ hart'.main.acc[1] \subseteq {button}
      BY <1>3, <2>2, <3>3, PollIs
    <3>5. Masked' /\ Flag' /\ poll_hit' = poll_hit /\ button' = button
      BY <1>12, <3>1, <3>4 DEF Masked, FlagsKept, poll_hit, button
    <3>6. QED
      BY <1>7, <3>1, <3>4, <3>5 DEF Polling
  <2>4. CASE main.acc # <<>>
    <3>1. th = Behind(main, main.ret)
      BY <1>1, <2>2, <2>4, SteppedOn DEF th
    <3>2. ThreadShape(th) /\ th.code = poll_end
      BY <2>1, <3>1 DEF Behind, ThreadShape
    <3>3. poll_end # <<>>
      BY DEF poll_end, tinymcu_csr_set_mie
    <3>4. HartShape(hart') /\ ~hart'.trapped /\ hart'.main.code \in Seq(Plain)
      BY <1>3, <3>2, <3>3, PlainProgram
    <3>5. req = WriteReq("gpio", "INT_STATUS", Stored(s, main.acc[1]))
      BY <1>1, <2>2, <2>4 DEF Request, Done, BusOps
    <3>6. Stored(s, main.acc[1]) \subseteq {button}
      BY <1>12, <2>2, <2>4 DEF Stored
    <3>7. PortInv'
      BY <1>1, <3>5, <3>6, DevicesStep DEF WriteReq, Writes
    <3>8. QED
      BY <1>7, <3>4, <3>7
  <2>5. QED
    BY <2>3, <2>4
<1>13. QED
  BY <1>8, <1>9, <1>10, <1>11, <1>12 DEF ServedInv, Polling

\* The two calls the handler makes of the drivers.
LEMMA HandlerStatements ==
  /\ ClearAll.op = "assign" /\ ClearTimer.op = "assign" /\ Return.op = "local"
  /\ Return \in Plain
  /\ \A th : th.code = <<ClearAll>> => Request(th) = WriteReq("gpio", "INT_STATUS", {})
  /\ \A th : th.code = <<ClearTimer>> => Request(th) = WriteReq("timer", "INT_STATUS", {})
<1>1. ClearAll.op = "assign" /\ ClearTimer.op = "assign" /\ Return.op = "local"
  BY DEF ClearAll, ClearTimer, Return, Assign, Local
<1>2. Return \in Plain
  BY DEF Return, Plain
<1>3. \A th : th.code = <<ClearAll>> => Request(th) = WriteReq("gpio", "INT_STATUS", {})
  <2> SUFFICES ASSUME NEW th, th.code = <<ClearAll>>
               PROVE  Request(th) = WriteReq("gpio", "INT_STATUS", {})
    OBVIOUS
  <2>1. th.code # <<>> /\ Head(th.code) = ClearAll
    OBVIOUS
  <2>2. ClearAll.op = "assign" /\ ClearAll.dev = "gpio" /\ ClearAll.reg = "INT_STATUS" /\ ClearAll.val = {}
    BY DEF ClearAll, Assign
  <2>3. QED
    BY <2>1, <2>2 DEF Request, Done, BusOps
<1>4. \A th : th.code = <<ClearTimer>> => Request(th) = WriteReq("timer", "INT_STATUS", {})
  <2> SUFFICES ASSUME NEW th, th.code = <<ClearTimer>>
               PROVE  Request(th) = WriteReq("timer", "INT_STATUS", {})
    OBVIOUS
  <2>1. th.code # <<>> /\ Head(th.code) = ClearTimer
    OBVIOUS
  <2>2. ClearTimer.op = "assign" /\ ClearTimer.dev = "timer" /\ ClearTimer.reg = "INT_STATUS" /\ ClearTimer.val = {}
    BY DEF ClearTimer, Assign
  <2>3. QED
    BY <2>1, <2>2 DEF Request, Done, BusOps
<1>5. QED
  BY <1>1, <1>2, <1>3, <1>4

\* What the handler does: one statement, which clears the flag that called it.
LEMMA ServedHandler ==
  ASSUME ServedInv, Execute, hart.trapped
  PROVE  ServedInv'
<1> DEFINE isr == hart.isr
           s   == Head(isr.code)
           th  == Stepped(isr, ReadWord)
           req == HartReq(hart, mip)
<1>1. /\ HartShape(hart) /\ ThreadShape(isr) /\ Running(hart) = isr /\ isr.code # <<>>
      /\ Devices(req) /\ req = Request(isr) /\ PortInv
      /\ UNCHANGED <<program, mcause>>
  BY RunningShape DEF ServedInv, Running, Execute, CanExecute, Done, HartReq
<1>2. isr.code \in {<<Return>>, <<ClearAll>>, <<ClearTimer>>}
  BY <1>1 DEF ServedInv, Handling
<1>3. s.op \in {"assign", "local"} /\ Tail(isr.code) = <<>>
  <2>1. \A x : Head(<<x>>) = x /\ Tail(<<x>>) = <<>>
    OBVIOUS
  <2>2. QED
    BY <1>2, <2>1, HandlerStatements
<1>4. th = Behind(isr, isr.ret)
  BY <1>1, <1>3, SteppedOn DEF th
<1>5. ThreadShape(th) /\ th.code = <<>>
  BY <1>3, <1>4 DEF Behind, ThreadShape
<1>6. /\ HartShape(hart') /\ hart'.trapped = hart.trapped /\ hart'.main = hart.main
      /\ hart'.isr.code = <<>> /\ hart'.mie = hart.mie /\ hart'.MPIE = hart.MPIE
      /\ hart'.lost = hart.lost
  BY <1>1, <1>3, <1>5, ExecuteIs, EnabledIs DEF After
<1> HIDE DEF th, req
<1>7. Handling'
  BY <1>6 DEF Handling
<1>8. CASE isr.code = <<Return>>
  <2>1. PortInv' /\ FlagsKept
    BY <1>1, <1>8, HandlerStatements, PlainRequest, DevicesStep
  <2>2. hart'.main.code \in Seq(Plain) \/ Polling'
    BY <1>6, <2>1, PollingKept DEF ServedInv, FlagsKept
  <2>3. StandInv'
    BY <1>1, <1>6, <2>1 DEF ServedInv, StandInv, Pending, FlagsKept, Weak
  <2>4. QED
    BY <1>6, <1>7, <2>1, <2>2, <2>3 DEF ServedInv
<1>9. CASE isr.code = <<ClearAll>>
  <2>1. ~Weak /\ ~Masked
    BY <1>9, HandlerStatements DEF ServedInv, Handling, ClearAll, ClearTimer, Assign, Return, Local
  <2>2. PortInv'
    BY <1>1, <1>9, HandlerStatements, DevicesStep DEF WriteReq, Writes
  <2>3. hart.main.code \in Seq(Plain) \/ hart.main.code = poll
    BY <2>1 DEF ServedInv, Polling
  <2>4. poll' = poll
    BY DEF poll
  <2>5. StandInv'
    BY <1>1, <2>1 DEF StandInv, Weak
  <2>6. QED
    BY <1>6, <1>7, <2>2, <2>3, <2>4, <2>5 DEF ServedInv, Polling
<1>10. CASE isr.code = <<ClearTimer>>
  <2>1. ~Weak
    BY <1>10, HandlerStatements DEF ServedInv, Handling, ClearAll, ClearTimer, Assign, Return, Local
  <2>2. PortInv' /\ (Flag => Flag')
    BY <1>1, <1>10, HandlerStatements, DevicesStep DEF WriteReq, Writes
  <2>3. hart'.main.code \in Seq(Plain) \/ Polling'
    BY <1>6, <2>2, PollingKept DEF ServedInv
  <2>4. StandInv'
    BY <1>1, <2>1 DEF StandInv, Weak
  <2>5. QED
    BY <1>6, <1>7, <2>2, <2>3, <2>4 DEF ServedInv
<1>11. QED
  BY <1>2, <1>8, <1>9, <1>10

\* The handler tells the two causes apart.
LEMMA CausesDiffer == button_cause # timer_cause
<1>1. 2^3 = 8
  OBVIOUS
<1>2. 3 \in ToField(11, 0, 5) /\ 3 \notin ToField(7, 0, 5)
  <2>1. (11 \div 8) % 2 = 1 /\ (7 \div 8) % 2 = 0
    OBVIOUS
  <2>2. \A n \in Nat : 3 \in ToField(n, 0, 5) <=> (n \div 8) % 2 = 1
    <3> SUFFICES ASSUME NEW n \in Nat
                 PROVE  3 \in ToField(n, 0, 5) <=> (n \div 8) % 2 = 1
      OBVIOUS
    <3> DEFINE Digit(j) == (n \div 2^j) % 2
    <3>1. Digit(3) = (n \div 8) % 2
      BY <1>1
    <3>2. ToField(n, 0, 5) = {0 + i : i \in {j \in 0..(5 - 1) : Digit(j) = 1}}
      BY DEF ToField
    <3> HIDE DEF Digit
    <3>3. QED
      BY <3>1, <3>2
  <2>3. QED
    BY <2>1, <2>2
<1>3. button_cause = {31} \cup ToField(11, 0, 5) /\ timer_cause = {31} \cup ToField(7, 0, 5)
  BY DEF button_cause, timer_cause, TINYMCU_MCAUSE_INTERRUPT, TINYMCU_MCAUSE
<1>4. QED
  BY <1>2, <1>3

\* The trap calls the branch of a line that is up and enabled, torn or not;
\* one that is lost calls none.
LEMMA ServedTrap ==
  ASSUME ServedInv, Trap
  PROVE  ServedInv'
<1> DEFINE pending == mip \cap hart.mie
           handler == tinymcu_trap_handler(mcause', mepc')
<1>0. /\ HartShape(hart) /\ Devices(NoReq) /\ mcause' = Cause(pending) /\ program' = program
      /\ Traps(hart, hart', mip, handler)
  BY DEF Trap, ServedInv
<1>1. /\ HartShape(hart') /\ pending # {} /\ hart'.mie = hart.mie /\ hart'.MPIE = TRUE
      /\ \/ hart'.main = hart.main
         \/ hart'.main = Thread(<<>>)
      /\ \/ hart'.trapped = TRUE /\ hart'.isr = Thread(handler)
         \/ hart'.trapped = hart.trapped /\ hart'.isr = hart.isr /\ hart'.lost = TRUE
  <2> HIDE DEF handler
  <2>1. QED
    BY <1>0, TrapsIs
<1>2. PortInv' /\ FlagsKept /\ Pending'
  <2>1. PortInv' /\ FlagsKept
    BY <1>0, DevicesStep DEF ServedInv, Writes, NoReq
  <2>2. QED
    BY <1>1, <2>1 DEF Pending, FlagsKept
<1>3. hart'.main.code \in Seq(Plain) \/ Polling'
  <2>1. CASE hart'.main = hart.main
    BY <1>0, <1>1, <2>1, NoAccess
  <2>2. CASE hart'.main = Thread(<<>>)
    BY <2>2 DEF Thread
  <2>3. QED
    BY <1>1, <2>1, <2>2
<1>4. StandInv'
  BY <1>1, <1>2 DEF StandInv
<1>5. hart'.isr = Thread(handler) => hart'.isr.code = handler
  BY DEF Thread
<1>6. pending \subseteq {7, 11} /\ (11 \in pending => GpioIrq(gpio)) /\ (7 \in pending => TimerIrq(timer))
  BY DEF mip, TINYMCU_MIE
<1>7. mcause' = IF 11 \in pending THEN button_cause ELSE timer_cause
  BY <1>0, <1>1, <1>6 DEF Cause, button_cause, timer_cause, TINYMCU_MIE
<1> HIDE DEF handler, pending
<1>8. ASSUME ~Weak, 11 \in pending, hart'.isr = Thread(handler) PROVE Handling'
  <2>1. handler = <<ClearAll>>
    BY <1>7, <1>8 DEF handler, tinymcu_trap_handler, tinymcu_gpio_irq_clear_all, ClearAll
  <2>2. Flag
    BY <1>6, <1>8 DEF GpioIrq, Flag, ServedInv, PortInv
  <2>3. ~Masked' /\ Flag' /\ ~Weak'
    BY <1>0, <1>1, <1>2, <1>8, <2>2 DEF pending, Masked, FlagsKept, Weak
  <2>4. ClearAll' = ClearAll
    BY DEF ClearAll
  <2>5. QED
    BY <1>5, <1>8, <2>1, <2>3, <2>4 DEF Handling
<1>9. ASSUME ~Weak, 11 \notin pending, hart'.isr = Thread(handler) PROVE Handling'
  <2>1. handler = <<ClearTimer>>
    BY <1>7, <1>9, CausesDiffer DEF handler, tinymcu_trap_handler, tinymcu_timer_irq_clear, ClearTimer
  <2>2. TimerIrq(timer)' /\ ~Weak'
    BY <1>0, <1>1, <1>2, <1>6, <1>9 DEF FlagsKept, Weak
  <2>3. ClearTimer' = ClearTimer
    BY DEF ClearTimer
  <2>4. QED
    BY <1>5, <1>9, <2>1, <2>2, <2>3 DEF Handling
<1>10. ASSUME hart'.isr = Thread(handler) PROVE Handling'
  <2>1. CASE Weak
    BY <1>5, <1>10, <2>1 DEF handler, Handling, tinymcu_trap_handler, weak_trap_handler
  <2>2. QED
    BY <1>8, <1>9, <1>10, <2>1
<1>11. ASSUME hart'.isr = hart.isr, hart'.trapped = hart.trapped, hart'.trapped PROVE Handling'
  <2>1. ClearAll' = ClearAll /\ ClearTimer' = ClearTimer
    BY DEF ClearAll, ClearTimer
  <2>2. QED
    BY <1>0, <1>1, <1>2, <1>11, <2>1 DEF ServedInv, Handling, Masked, FlagsKept, Weak
<1>12. QED
  BY <1>1, <1>2, <1>3, <1>4, <1>10, <1>11 DEF ServedInv

LEMMA ServedNext ==
  ASSUME ServedInv, [Next]_vars
  PROVE  ServedInv'
<1>0. HartShape(hart)
  BY DEF ServedInv
<1>1. CASE Idle
  <2>1. /\ HartShape(hart') /\ hart'.main = hart.main /\ hart'.isr = hart.isr /\ hart'.MPIE = hart.MPIE
        /\ hart'.trapped = hart.trapped /\ hart'.MIE = hart.MIE /\ hart'.lost = hart.lost
        /\ Devices(NoReq) /\ program' = program /\ mcause' = mcause
    BY <1>0, <1>1, IdlesIs DEF Idle
  <2>2. hart'.mie = hart.mie
    BY <1>0, <1>1, IdlesIs DEF Idle
  <2>3. (hart'.main.code \in Seq(Plain) \/ Polling') /\ PortInv' /\ FlagsKept /\ (Pending => Pending')
    BY <2>1, <2>2, NoAccess
  <2>4. StandInv'
    BY <2>1, <2>3 DEF ServedInv, StandInv, Weak
  <2>5. hart'.trapped => Handling'
    <3>1. ClearAll' = ClearAll /\ ClearTimer' = ClearTimer
      BY DEF ClearAll, ClearTimer
    <3>2. QED
      BY <2>1, <2>2, <2>3, <3>1 DEF ServedInv, Handling, Masked, FlagsKept, Weak
  <2>6. QED
    BY <2>1, <2>3, <2>4, <2>5 DEF ServedInv
<1>2. CASE Execute
  BY <1>2, ServedMain, ServedHandler
<1>3. CASE Trap
  BY <1>3, ServedTrap
<1>4. CASE Mret
  <2>1. /\ HartShape(hart') /\ hart'.main = hart.main /\ hart'.trapped = FALSE /\ hart.trapped
        /\ hart'.MIE = hart.MPIE /\ Devices(NoReq) /\ program' = program /\ mcause' = mcause
        /\ hart'.lost = hart.lost
    BY <1>0, <1>4, MretsIs DEF Mret
  <2>2. hart'.mie = hart.mie
    BY <1>0, <1>4, MretsIs DEF Mret
  <2>3. (hart'.main.code \in Seq(Plain) \/ Polling') /\ PortInv' /\ (Pending => Pending')
    BY <2>1, <2>2, NoAccess
  <2>4. StandInv'
    BY <2>1, <2>3 DEF ServedInv, StandInv, Weak
  <2>5. QED
    BY <2>1, <2>3, <2>4 DEF ServedInv
<1>5. CASE UNCHANGED vars
  <2>1. poll' = poll /\ ToGet' = ToGet /\ poll_hit' = poll_hit /\ Test' = Test
        /\ ClearAll' = ClearAll /\ ClearTimer' = ClearTimer /\ mip' = mip
    BY <1>5 DEF poll, ToGet, poll_hit, Test, ClearAll, ClearTimer, mip, vars
  <2>2. QED
    BY <1>5, <2>1 DEF vars, ServedInv, Polling, Handling, PortInv, StandInv, Pending, Masked, Flag,
                      Weak, button
<1>6. QED
  BY <1>1, <1>2, <1>3, <1>4, <1>5 DEF Next

LEMMA ServedInit == ASSUME Init PROVE ServedInv
<1>1. HartShape(hart) /\ hart.main.code = setup /\ hart.trapped = FALSE
  BY ResetShape DEF Init
<1>2. Sources \in Bits
  BY DispatchAssumption DEF Init, Sources, Bits
<1>3. PortInv
  BY DEF Init, PortInv, GpioPowerOn, TimerPowerOn
<1>4. StandInv
  BY DEF Init, StandInv
<1>5. QED
  BY <1>1, <1>2, <1>3, <1>4, PlainProgram DEF ServedInv

\* The invariant of the service of timer and button, by handler and by main.
THEOREM Serving == Spec => []ServedInv
<1>1. Init => ServedInv
  BY ServedInit
<1>2. ServedInv /\ [Next]_vars => ServedInv'
  BY ServedNext
<1>3. QED
  BY <1>1, <1>2, PTL DEF Spec

\* No event is served twice or in the name of the other source: whoever
\* writes INT_STATUS, the branch of the handler or main behind its poll,
\* finds the flag up, in whatever order the lines rise and are masked.
THEOREM EventsServedOnce == Spec => ServedOnce
<1> DEFINE req == HartReq(hart, mip)
<1>1. ServedInv => /\ Writes(req, "gpio", "INT_STATUS")  => button \in gpio.INT_STATUS
                   /\ Writes(req, "timer", "INT_STATUS") => TimerIrq(timer)
  <2> SUFFICES ASSUME ServedInv, NEW d, Writes(req, d, "INT_STATUS")
               PROVE  /\ d = "gpio" => button \in gpio.INT_STATUS
                      /\ d = "timer" => TimerIrq(timer)
    OBVIOUS
  <2>1. req = Request(Running(hart)) /\ HartShape(hart)
    BY DEF HartReq, Writes, NoReq, ServedInv
  <2>2. CASE hart.trapped
    <3>1. Running(hart) = hart.isr
      BY <2>2 DEF Running
    <3>2. CASE hart.isr.code = <<ClearAll>> /\ Flag
      BY <2>1, <3>1, <3>2, HandlerStatements DEF Writes, WriteReq, Flag
    <3>3. CASE hart.isr.code = <<ClearTimer>> /\ TimerIrq(timer)
      BY <2>1, <3>1, <3>3, HandlerStatements DEF Writes, WriteReq
    <3>4. CASE hart.isr.code = <<>> \/ hart.isr.code = <<Return>>
      BY <2>1, <3>1, <3>4, HandlerStatements, PlainRequest
    <3>5. QED
      BY <2>2, <3>2, <3>3, <3>4 DEF ServedInv, Handling
  <2>3. CASE ~hart.trapped
    <3> DEFINE main == hart.main
               s    == Head(main.code)
    <3>1. Running(hart) = main
      BY <2>3 DEF Running
    <3>2. ASSUME main.code # <<>>, s.op \in {"csrc", "get"} PROVE FALSE
      BY <2>1, <3>1, <3>2 DEF Request, Done, BusOps, NoReq, ReadReq, Writes
    <3>3. CASE main.code \in Seq(Plain)
      <4>1. main.code # <<>> => s \in Plain
        BY <3>3, HeadTailProperties
      <4>2. QED
        BY <2>1, <3>1, <4>1, PlainRequest
    <3>4. CASE main.code = poll \/ main.code = ToGet
      BY <3>2, <3>4, PollIs DEF CsrClear, Get
    <3>5. CASE main.code = <<Test>>
      BY <2>1, <3>1, <3>5, PlainRequest
    <3>6. CASE main.code = poll_hit /\ Flag
      <4>1. main.code # <<>> /\ s.op = "modify" /\ s.dev = "gpio"
        BY <3>6, PollIs DEF ClearOne, ClearBits, Modify
      <4>2. req.dev = "gpio"
        BY <2>1, <3>1, <4>1 DEF Request, Done, BusOps, WriteReq, ReadReq
      <4>3. QED
        BY <3>6, <4>2 DEF Writes, Flag
    <3>7. QED
      BY <3>3, <3>4, <3>5, <3>6 DEF ServedInv, Polling
  <2>4. QED
    BY <2>2, <2>3
<1> HIDE DEF req
<1>2. ServedInv => [hart' # hart /\ ~hart.torn =>
        /\ Writes(req, "gpio", "INT_STATUS")  => button \in gpio.INT_STATUS
        /\ Writes(req, "timer", "INT_STATUS") => TimerIrq(timer)]_vars
  BY <1>1
<1>3. QED
  BY <1>2, Serving, PTL DEF ServedOnce, req

\* A program without a handler of its own stands still behind a trap that has
\* reached the default one, until a trap is lost: it clears no flag, so that
\* outside the handler the next trap is due at every clock.
THEOREM StandsStill == Spec => []WeakHandler
<1>1. ServedInv => WeakHandler
  <2> SUFFICES ASSUME ServedInv, Weak, mcause # {}, ~hart.lost, ~hart.trapped
               PROVE  Interrupted(hart, mip)
    BY DEF WeakHandler
  <2>1. hart.MIE = TRUE /\ mip \cap hart.mie # {}
    BY DEF ServedInv, StandInv, Pending
  <2>2. QED
    BY <2>1 DEF Interrupted
<1>2. QED
  BY <1>1, Serving, PTL
=============================================================================
