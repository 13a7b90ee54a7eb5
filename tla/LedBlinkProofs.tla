--------------------------- MODULE LedBlinkProofs ---------------------------
(***************************************************************************)
(* What LedBlink promises, for every prescaler setting, period, set of     *)
(* pins, distance between two accesses and number of resets: no interrupt  *)
(* without a handler, no two read-modify-writes of OUT at once, and        *)
(* between them the LED chase of module Chase.                             *)
(*                                                                         *)
(* LedInv says where the program is.  main and the handler are sequences   *)
(* of statements, so `where` is a suffix of one of them, and the ports     *)
(* follow from it.  Behind a torn trap, which mepc does not lead back      *)
(* from, nothing is said: the inductive invariant is LedSound.             *)
(***************************************************************************)
EXTENDS LedBlink, HartProofs

\* main, and the handler with the LED at p, with the calls written out.

MainCode == <<
  SetBits("gpio", "DDR", {0}), ClearBits("gpio", "OUT", {0}),
  SetBits("gpio", "DDR", {1}), ClearBits("gpio", "OUT", {1}),
  SetBits("gpio", "DDR", {2}), ClearBits("gpio", "OUT", {2}),
  SetBits("gpio", "DDR", {3}), ClearBits("gpio", "OUT", {3}),
  SetBits("gpio", "OUT", {0}), Assign("timer", "COUNTER", 0),
  Assign("timer", "COMPARE", CLK_TICKS_PER_100MS),
  Assign("timer", "INT_CONFIG", TINYMCU_TIMER_INT_COMPARE),
  Assign("timer", "CONFIG", CLKSEL), CsrSet("mie", TINYMCU_MIE.MTIE),
  CsrPut("mtvec", "trap_entry"), CsrSet("mstatus", TINYMCU_MSTATUS_MIE), Spin>>

HandlerCode(p) == <<
  Assign("timer", "INT_STATUS", {}), Assign("timer", "COUNTER", 0),
  ClearBits("gpio", "OUT", {p}), Local("advance"), SetBits("gpio", "OUT", {NextPos(p)})>>

\* A prefix of a sequence and the next element are the next prefix.
LEMMA Grow ==
  ASSUME NEW S, NEW s \in Seq(S), NEW n \in 0..Len(s) - 1
  PROVE  SubSeq(s, 1, n) \o <<s[n + 1]>> = SubSeq(s, 1, n + 1)
  <1>1. Len(s) \in Nat /\ 1 \in 1..Len(s) /\ n + 1 \in 1..Len(s) /\ n + 1 - 1 = n
    BY LenProperties
  <1> QED  BY <1>1, SubSeqRecursiveSecond

\* The same for two elements, which is how prepare_pin and
\* tinymcu_trap_init append theirs.
LEMMA GrowTwo ==
  ASSUME NEW S, NEW s \in Seq(S), NEW n \in 0..Len(s) - 2
  PROVE  SubSeq(s, 1, n) \o (<<s[n + 1]>> \o <<s[n + 2]>>) = SubSeq(s, 1, n + 2)
  <1>1. /\ Len(s) \in Nat /\ n + 1 + 1 = n + 2
        /\ n \in 0..Len(s) - 1 /\ n + 1 \in 0..Len(s) - 1
        /\ n + 1 \in 1..Len(s) /\ n + 2 \in 1..Len(s)
    BY LenProperties
  <1>2. <<s[n + 1]>> \in Seq(S) /\ <<s[n + 2]>> \in Seq(S)
    BY <1>1, ElementOfSeq
  <1>3. SubSeq(s, 1, n) \in Seq(S)
    BY <1>1, ElementOfSeq, SubSeqProperties
  <1>4. SubSeq(s, 1, n) \o (<<s[n + 1]>> \o <<s[n + 2]>>)
        = (SubSeq(s, 1, n) \o <<s[n + 1]>>) \o <<s[n + 2]>>
    BY <1>2, <1>3, ConcatAssociative
  <1>5. SubSeq(s, 1, n) \o <<s[n + 1]>> = SubSeq(s, 1, n + 1)
    BY <1>1, Grow
  <1>6. SubSeq(s, 1, n + 1) \o <<s[n + 2]>> = SubSeq(s, 1, n + 2)
    BY <1>1, Grow
  <1> QED  BY <1>4, <1>5, <1>6

\* main's statements are a sequence of seventeen.
LEMMA MainSeq == MainCode \in Seq({MainCode[i] : i \in 1..17}) /\ Len(MainCode) = 17
  BY DEF MainCode
\* The handler's are a sequence of five.
LEMMA HandlerSeq ==
  ASSUME NEW p
  PROVE  HandlerCode(p) \in Seq({HandlerCode(p)[i] : i \in 1..5}) /\ Len(HandlerCode(p)) = 5
  BY DEF HandlerCode
\* Which statement is where in main.
LEMMA MainStatement ==
  /\ \A p \in LedPins : /\ MainCode[2*p + 1] = SetBits("gpio", "DDR", {p})
                        /\ MainCode[2*p + 2] = ClearBits("gpio", "OUT", {p})
  /\ MainCode[9] = SetBits("gpio", "OUT", {0})
  /\ \A k \in 10..13 : \E reg, v : MainCode[k] = Assign("timer", reg, v)
  /\ MainCode[14] = CsrSet("mie", TINYMCU_MIE.MTIE)
  /\ MainCode[15] = CsrPut("mtvec", "trap_entry")
  /\ MainCode[16] = CsrSet("mstatus", TINYMCU_MSTATUS_MIE)
  /\ MainCode[17] = Spin
  <1>1. LedPins = {0, 1, 2, 3}
    BY DEF LedPins, LED_BASE_PIN, LED_COUNT
  <1> QED  BY <1>1 DEF MainCode

\* The calls of main, one behind the other, are MainCode.
LEMMA MainIs == main = MainCode
  <1> DEFINE M == MainCode
             S == {MainCode[i] : i \in 1..17}
             First(n) == SubSeq(M, 1, n)
  <1>1. M \in Seq(S) /\ Len(M) = 17
    BY MainSeq
  <1>2. /\ prepare_pin(0) = <<M[1]>> \o <<M[2]>> /\ prepare_pin(1) = <<M[3]>> \o <<M[4]>>
        /\ prepare_pin(2) = <<M[5]>> \o <<M[6]>> /\ prepare_pin(3) = <<M[7]>> \o <<M[8]>>
        /\ tinymcu_gpio_set(LED_BASE_PIN) = <<M[9]>>
        /\ tinymcu_timer_reset = <<M[10]>>
        /\ tinymcu_timer_set_compare(CLK_TICKS_PER_100MS) = <<M[11]>>
        /\ tinymcu_timer_irq_enable = <<M[12]>>
        /\ tinymcu_timer_set_clksel(CLKSEL) = <<M[13]>>
        /\ tinymcu_csr_set_mie(TINYMCU_MIE.MTIE) = <<M[14]>>
        /\ tinymcu_trap_init = <<M[15]>> \o <<M[16]>>
        /\ <<Spin>> = <<M[17]>>
    BY DEF MainCode, prepare_pin, tinymcu_gpio_set_output, tinymcu_gpio_clear, tinymcu_gpio_set,
      LED_BASE_PIN, tinymcu_timer_reset, tinymcu_timer_set_compare, tinymcu_timer_irq_enable,
      tinymcu_timer_set_clksel, tinymcu_csr_set_mie, tinymcu_trap_init,
      tinymcu_csr_write_mtvec, tinymcu_enable_global_interrupts
  <1> HIDE DEF M, S
  <1>3. ASSUME NEW n \in 0..15
        PROVE  First(n) \o (<<M[n + 1]>> \o <<M[n + 2]>>) = First(n + 2)
    BY <1>1, GrowTwo
  <1>4. ASSUME NEW n \in 0..16
        PROVE  First(n) \o <<M[n + 1]>> = First(n + 1)
    BY <1>1, Grow
  <1>5. <<M[1]>> \o <<M[2]>> = First(2)
    <2>1. First(0) = <<>>
      BY SubSeqEmpty
    <2>2. <<M[1]>> \o <<M[2]>> \in Seq(S)
      <3>1. <<M[1]>> \in Seq(S) /\ <<M[2]>> \in Seq(S)
        <4>1. 1 \in 1..Len(M) /\ 2 \in 1..Len(M)
          BY <1>1
        <4>2. M[1] \in S /\ M[2] \in S
          BY <1>1, <4>1, ElementOfSeq
        <4> QED  BY <4>2
      <3> QED  BY <3>1, ConcatProperties
    <2>3. First(0) \o (<<M[1]>> \o <<M[2]>>) = First(2)
      BY <1>3
    <2> QED  BY <2>1, <2>2, <2>3, ConcatEmptySeq
  <1>6. First(17) = M
    BY <1>1, SubSeqFull
  <1>7. /\ First(2) \o (<<M[3]>> \o <<M[4]>>) = First(4)
        /\ First(4) \o (<<M[5]>> \o <<M[6]>>) = First(6)
        /\ First(6) \o (<<M[7]>> \o <<M[8]>>) = First(8)
        /\ First(14) \o (<<M[15]>> \o <<M[16]>>) = First(16)
    BY <1>3
  <1>8. /\ First(8) \o <<M[9]>> = First(9)    /\ First(9) \o <<M[10]>> = First(10)
        /\ First(10) \o <<M[11]>> = First(11) /\ First(11) \o <<M[12]>> = First(12)
        /\ First(12) \o <<M[13]>> = First(13) /\ First(13) \o <<M[14]>> = First(14)
        /\ First(16) \o <<M[17]>> = First(17)
    BY <1>4
  <1> HIDE DEF First
  <1> QED  BY <1>2, <1>5, <1>6, <1>7, <1>8, ZenonT(60) DEF main, M

\* The calls of the handler are HandlerCode.
LEMMA HandlerIs ==
  ASSUME NEW p \in LedPins
  PROVE  tinymcu_trap_handler(p) = HandlerCode(p)
  <1> DEFINE H == HandlerCode(p)
             S == {HandlerCode(p)[i] : i \in 1..5}
             First(n) == SubSeq(H, 1, n)
  <1>1. H \in Seq(S) /\ Len(H) = 5
    BY HandlerSeq
  <1>2. /\ p \in Nat /\ LED_BASE_PIN + p = p
        /\ NextPos(p) \in Nat /\ LED_BASE_PIN + NextPos(p) = NextPos(p)
    BY DEF LedPins, LED_BASE_PIN, LED_COUNT, NextPos
  <1>3. /\ tinymcu_timer_irq_clear = <<H[1]>> /\ tinymcu_timer_reset = <<H[2]>>
        /\ tinymcu_gpio_clear(LED_BASE_PIN + p) = <<H[3]>>
        /\ <<Local("advance")>> = <<H[4]>>
        /\ tinymcu_gpio_set(LED_BASE_PIN + NextPos(p)) = <<H[5]>>
    BY <1>2 DEF HandlerCode, tinymcu_timer_irq_clear, tinymcu_timer_reset, tinymcu_gpio_clear,
      tinymcu_gpio_set
  <1> HIDE DEF H, S
  <1>4. ASSUME NEW n \in 0..4
        PROVE  First(n) \o <<H[n + 1]>> = First(n + 1)
    BY <1>1, Grow
  <1>5. <<H[1]>> = First(1)
    <2>1. First(0) = <<>>
      BY SubSeqEmpty
    <2>2. <<H[1]>> \in Seq(S)
      BY <1>1, ElementOfSeq
    <2>3. First(0) \o <<H[1]>> = First(1)
      BY <1>4
    <2> QED  BY <2>1, <2>2, <2>3, ConcatEmptySeq
  <1>6. First(5) = H
    BY <1>1, SubSeqFull
  <1>7. /\ First(1) \o <<H[2]>> = First(2) /\ First(2) \o <<H[3]>> = First(3)
        /\ First(3) \o <<H[4]>> = First(4) /\ First(4) \o <<H[5]>> = First(5)
    BY <1>4
  <1> HIDE DEF First
  <1> QED  BY <1>3, <1>5, <1>6, <1>7 DEF tinymcu_trap_handler, H

\* What is left of main from statement k on, and of the handler from j on.
Rest(k)     == SubSeq(MainCode, k, 17)
HRest(p, j) == SubSeq(HandlerCode(p), j, 5)

\* The head of what is left of main, and what is left behind it.
LEMMA MainRest ==
  /\ Rest(1) = MainCode
  /\ \A k \in 1..17 : /\ Rest(k) # <<>> /\ Head(Rest(k)) = MainCode[k]
                      /\ Tail(Rest(k)) = Rest(k + 1)
  <1> DEFINE S == {MainCode[i] : i \in 1..17}
  <1>1. MainCode \in Seq(S) /\ Len(MainCode) = 17
    BY MainSeq
  <1>0. \A i \in 1..17 : MainCode[i] \in S
    OBVIOUS
  <1> HIDE DEF S
  <1>2. Rest(1) = MainCode
    BY <1>1, SubSeqFull DEF Rest
  <1>3. ASSUME NEW k \in 1..17
        PROVE  /\ Rest(k) # <<>> /\ Head(Rest(k)) = MainCode[k]
               /\ Tail(Rest(k)) = Rest(k + 1)
    <2>1. k \in 1..Len(MainCode) /\ 17 \in k..Len(MainCode)
      BY <1>1
    <2>2. Head(Rest(k)) = MainCode[k] /\ Tail(Rest(k)) = Rest(k + 1)
      BY <1>1, <2>1, HeadTailOfSubSeq DEF Rest
    <2>3. Len(Rest(k)) = 17 - k + 1
      <3>1. \A i \in k..17 : MainCode[i] \in S
        BY <1>0
      <3> QED  BY <3>1, SubSeqProperties DEF Rest
    <2>4. Len(Rest(k)) # 0
      BY <2>3
    <2> QED  BY <2>2, <2>4
  <1> QED  BY <1>2, <1>3

\* The same for the handler, and until when it is yet to advance the LED.
LEMMA HandlerRest ==
  ASSUME NEW p \in LedPins
  PROVE  /\ HRest(p, 1) = HandlerCode(p) /\ HRest(p, 6) = <<>>
         /\ \A j \in 1..5 : /\ HRest(p, j) # <<>> /\ Head(HRest(p, j)) = HandlerCode(p)[j]
                            /\ Tail(HRest(p, j)) = HRest(p, j + 1)
         /\ \A j \in 1..6 : (\E i \in DOMAIN HRest(p, j) : HRest(p, j)[i] = Local("advance"))
                            <=> j <= 4
  <1> DEFINE S == {HandlerCode(p)[i] : i \in 1..5}
  <1>1. HandlerCode(p) \in Seq(S) /\ Len(HandlerCode(p)) = 5
    BY HandlerSeq
  <1>0. \A i \in 1..5 : HandlerCode(p)[i] \in S
    OBVIOUS
  <1> HIDE DEF S
  <1>2. HRest(p, 1) = HandlerCode(p) /\ HRest(p, 6) = <<>>
    BY <1>1, SubSeqFull, SubSeqEmpty DEF HRest
  <1>3. ASSUME NEW j \in 1..6
        PROVE  /\ HRest(p, j) \in Seq(S) /\ Len(HRest(p, j)) = 6 - j
               /\ \A i \in 1..6 - j : HRest(p, j)[i] = HandlerCode(p)[j + i - 1]
    <2>1. \A i \in j..5 : HandlerCode(p)[i] \in S
      BY <1>0
    <2> QED  BY <2>1, SubSeqProperties DEF HRest
  <1>4. ASSUME NEW j \in 1..5
        PROVE  /\ HRest(p, j) # <<>> /\ Head(HRest(p, j)) = HandlerCode(p)[j]
               /\ Tail(HRest(p, j)) = HRest(p, j + 1)
    <2>1. j \in 1..Len(HandlerCode(p)) /\ 5 \in j..Len(HandlerCode(p))
      BY <1>1
    <2>2. Head(HRest(p, j)) = HandlerCode(p)[j] /\ Tail(HRest(p, j)) = HRest(p, j + 1)
      BY <1>1, <2>1, HeadTailOfSubSeq DEF HRest
    <2>3. Len(HRest(p, j)) # 0
      <3>1. j \in 1..6 /\ 6 - j # 0
        OBVIOUS
      <3> QED  BY <1>3, <3>1
    <2> QED  BY <2>2, <2>3
  <1>5. ASSUME NEW j \in 1..6
        PROVE  (\E i \in DOMAIN HRest(p, j) : HRest(p, j)[i] = Local("advance")) <=> j <= 4
    <2>1. DOMAIN HRest(p, j) = 1..6 - j
      BY <1>3, LenProperties
    <2>2. HandlerCode(p)[4] = Local("advance") /\ HandlerCode(p)[5] # Local("advance")
      BY DEF HandlerCode, Local, SetBits, Modify
    <2>3. CASE j <= 4
      <3>1. 5 - j \in 1..6 - j /\ j + (5 - j) - 1 = 4
        BY <2>3
      <3>2. HRest(p, j)[5 - j] = HandlerCode(p)[4]
        BY <1>3, <3>1
      <3> QED  BY <3>1, <3>2, <2>1, <2>2, <2>3
    <2>4. CASE j > 4
      <3>1. ASSUME NEW i \in 1..6 - j  PROVE HRest(p, j)[i] # Local("advance")
        <4>1. j + i - 1 = 5
          BY <2>4
        <4> QED  BY <4>1, <1>3, <2>2
      <3> QED  BY <3>1, <2>1, <2>4
    <2> QED  BY <2>3, <2>4
  <1> QED  BY <1>2, <1>4, <1>5

-----------------------------------------------------------------------------
\* The processor and its threads are the records Hart makes them.
BoardShape ==
  /\ hart = [main |-> hart.main, isr |-> hart.isr, trapped |-> hart.trapped,
             MIE |-> hart.MIE, MPIE |-> hart.MPIE, mie |-> hart.mie,
             mtvec |-> hart.mtvec, idle |-> hart.idle,
             lost |-> hart.lost, torn |-> hart.torn]
  /\ hart.main = [code |-> hart.main.code, acc |-> hart.main.acc, ret |-> hart.main.ret]
  /\ hart.isr = [code |-> hart.isr.code, acc |-> hart.isr.acc, ret |-> hart.isr.ret]

\* main is at statement k and sets the board up: interrupts are off, the pins
\* up to its own are outputs, and a loaded word is what the register still holds.
MainReg(k) == IF k \in {1, 3, 5, 7} THEN "DDR" ELSE "OUT"
Starting(k) ==
  /\ hart.main.code = Rest(k)
  /\ \/ hart.main.acc = <<>>
     \/ k <= 9 /\ hart.main.acc = <<gpio[MainReg(k)]>>
  /\ hart.trapped = FALSE /\ hart.MIE = FALSE /\ pos = 0
  /\ \A p \in LedPins : 2*p + 1 < k => p \in gpio.DDR
  /\ gpio.OUT = IF k <= 9 THEN {} ELSE {0}
  /\ k = 16 => hart.mtvec = "trap_entry"

\* main has done so, the handler is installed, and main only spins.
Ready == /\ hart.main.code = Rest(17) /\ hart.main.acc = <<>>
         /\ hart.mtvec = "trap_entry" /\ LedPins \subseteq gpio.DDR
\* ... and the LED at pos is lit, or the handler that took it over at p is at
\* its statement j.  Behind a lost trap main spins with interrupts off.
Spinning ==
  /\ Ready /\ hart.trapped = FALSE /\ hart.MIE \in BOOLEAN
  /\ gpio.OUT = {pos} /\ pos \in LedPins
Handling(p, j) ==
  /\ Ready /\ hart.trapped = TRUE /\ hart.MIE = FALSE /\ hart.MPIE = TRUE
  /\ hart.isr.code = HRest(p, j)
  /\ \/ hart.isr.acc = <<>>
     \/ j \in {3, 5} /\ hart.isr.acc = <<gpio.OUT>>
  /\ pos = IF j <= 4 THEN p ELSE NextPos(p)
  /\ gpio.OUT = IF j <= 3 THEN {p} ELSE IF j <= 5 THEN {} ELSE {NextPos(p)}

\* Where the program is.
LedInv == /\ BoardShape
          /\ \/ \E k \in 1..16 : Starting(k)
             \/ Spinning
             \/ \E p \in LedPins, j \in 1..6 : Handling(p, j)

\* The inductive invariant: it is there unless a trap was torn.
LedSound == IsTorn(hart) \/ LedInv

-----------------------------------------------------------------------------
\* What a clock edge does to the ports DDR and OUT.
LEMMA Ports ==
  ASSUME NEW req, Devices(req)
  PROVE  /\ gpio'.DDR = IF Writes(req, "gpio", "DDR") THEN req.data ELSE gpio.DDR
         /\ gpio'.OUT = IF Writes(req, "gpio", "OUT") THEN req.data ELSE gpio.OUT
  BY DEF Devices, GpioClock, GpioRegister

\* They stay as they are when nobody writes them.
LEMMA QuietPorts ==
  ASSUME Devices(NoReq)
  PROVE  gpio'.DDR = gpio.DDR /\ gpio'.OUT = gpio.OUT
  BY Ports DEF NoReq, Writes

\* The running thread, moved on to `th`.
Moved(th) ==
  hart' = [main |-> IF hart.trapped THEN hart.main ELSE th,
           isr |-> IF hart.trapped THEN th ELSE hart.isr,
           trapped |-> hart.trapped, MIE |-> hart.MIE, MPIE |-> hart.MPIE,
           mie |-> hart.mie, mtvec |-> hart.mtvec, idle |-> 0,
           lost |-> hart.lost, torn |-> hart.torn]

\* WithThread changes the running thread and nothing else.
LEMMA MovedIs ==
  ASSUME BoardShape, NEW th, hart.trapped \in BOOLEAN, hart' = WithThread(hart, th)
  PROVE  Moved(th)
  BY DEF BoardShape, WithThread, Moved

\* The running thread has `c` left and holds `a`; nothing else of the
\* processor has changed.
RunsTo(c, a) ==
  /\ BoardShape' /\ hart'.trapped = hart.trapped /\ hart'.MIE = hart.MIE
  /\ hart'.MPIE = hart.MPIE /\ hart'.mtvec = hart.mtvec
  /\ hart.trapped = FALSE => /\ hart'.main.code = c /\ hart'.main.acc = a
                             /\ hart'.isr = hart.isr
  /\ hart.trapped = TRUE => /\ hart'.isr.code = c /\ hart'.isr.acc = a
                            /\ hart'.main = hart.main

\* ... so that the other thread and the CSRs stay.
LEMMA MovedKeeps ==
  ASSUME BoardShape, NEW c, NEW a, NEW r, Moved([code |-> c, acc |-> a, ret |-> r])
  PROVE  RunsTo(c, a)
  BY DEF Moved, BoardShape, RunsTo

\* The running thread is a record of the three fields of Thread.
LEMMA RunningThread ==
  ASSUME BoardShape, hart.trapped \in BOOLEAN
  PROVE  ThreadShape(Running(hart))
  BY DEF BoardShape, Running, ThreadShape

\* A step that completes a statement other than a CSR instruction or a loop.
LEMMA Onward ==
  ASSUME BoardShape, Execute, hart.trapped \in BOOLEAN,
         \/ Head(Running(hart).code).op \in {"assign", "local"}
         \/ Head(Running(hart).code).op = "modify" /\ Running(hart).acc # <<>>
  PROVE  RunsTo(Tail(Running(hart).code), <<>>)
  <1> DEFINE th   == Running(hart)
             word == Word(HartReq(hart, mip))
             next == [code |-> Tail(th.code), acc |-> <<>>, ret |-> th.ret]
  <1>1. hart' = Executed(hart, word)
    BY DEF Execute
  <1>2. Executed(hart, word) = WithThread(hart, Stepped(th, word))
    BY DEF Executed
  <1>3. ThreadShape(th)
    BY RunningThread
  <1> HIDE DEF th, word
  <1>4. Stepped(th, word) = next
    BY <1>3, SteppedOn DEF Behind, th
  <1> HIDE DEF next
  <1>5. Moved(next)
    BY <1>1, <1>2, <1>4, MovedIs
  <1> QED  BY <1>5, MovedKeeps DEF next, th

\* The load of a read-modify-write takes the register's word and changes nothing.
LEMMA LoadStep ==
  ASSUME BoardShape, Execute, hart.trapped \in BOOLEAN,
         NEW reg \in {"DDR", "OUT"}, NEW clr, NEW set,
         Running(hart).acc = <<>>, Running(hart).code # <<>>,
         Head(Running(hart).code) = Modify("gpio", reg, clr, set, {})
  PROVE  /\ RunsTo(Running(hart).code, <<gpio[reg]>>)
         /\ gpio'.DDR = gpio.DDR /\ gpio'.OUT = gpio.OUT /\ pos' = pos
  <1> DEFINE th   == Running(hart)
             req  == HartReq(hart, mip)
             word == gpio[reg]
             next == [code |-> th.code, acc |-> <<word>>, ret |-> th.ret]
  <1>1. ~Interrupted(hart, mip) /\ Devices(req) /\ hart' = Executed(hart, Word(req))
    BY DEF Execute, CanExecute
  <1>2. req = ReadReq("gpio", reg)
    BY <1>1 DEF HartReq, Request, Done, Modify, BusOps
  <1>3. Word(req) = word
    BY <1>2 DEF Word, ReadReq, GpioRead
  <1>4. Executed(hart, word) = WithThread(hart, Stepped(th, word))
    BY DEF Executed, Modify
  <1>5. ~At(th, Local("advance"))
    BY DEF At, Local, Modify
  <1>6. gpio'.DDR = gpio.DDR /\ gpio'.OUT = gpio.OUT
    BY <1>1, <1>2, Ports DEF ReadReq, Writes
  <1>7. Stepped(th, word) = next
    <2> DEFINE n == Stepped(th, word)
    <2>1. n = [th EXCEPT !.acc = <<word>>]
      BY DEF Stepped, Modify
    <2>2. ThreadShape(th)
      BY RunningThread
    <2> HIDE DEF n, th
    <2>3. n = next
      BY <2>1, <2>2 DEF ThreadShape
    <2> QED  BY <2>3 DEF n
  <1>8. pos' = pos
    BY <1>5 DEF Execute
  <1> HIDE DEF next, req, word, th
  <1>9. Moved(next)
    BY <1>1, <1>3, <1>4, <1>7, MovedIs
  <1> QED  BY <1>6, <1>8, <1>9, MovedKeeps DEF next, th, word

\* Its store writes that word back, with the bits cleared and set.
LEMMA StoreStep ==
  ASSUME BoardShape, Execute, hart.trapped \in BOOLEAN,
         NEW reg \in {"DDR", "OUT"}, NEW clr, NEW set,
         Running(hart).acc = <<gpio[reg]>>, Running(hart).code # <<>>,
         Head(Running(hart).code) = Modify("gpio", reg, clr, set, {})
  PROVE  /\ RunsTo(Tail(Running(hart).code), <<>>)
         /\ gpio'.DDR = IF reg = "DDR" THEN (gpio.DDR \ clr) \cup set ELSE gpio.DDR
         /\ gpio'.OUT = IF reg = "OUT" THEN (gpio.OUT \ clr) \cup set ELSE gpio.OUT
         /\ pos' = pos
  <1> DEFINE req == HartReq(hart, mip)
             w   == gpio[reg]
  <1>1. ~Interrupted(hart, mip) /\ Devices(req)
    BY DEF Execute, CanExecute
  <1>2. <<w>> # <<>> /\ <<w>>[1] = w /\ Running(hart).acc = <<w>>
    OBVIOUS
  <1>3. reg = "DDR" => w = gpio.DDR
    OBVIOUS
  <1>4. reg = "OUT" => w = gpio.OUT
    OBVIOUS
  <1> HIDE DEF w
  <1>5. Stored(Head(Running(hart).code), w) = (w \ clr) \cup set
    BY DEF Stored, Modify
  <1>6. req = WriteReq("gpio", reg, Stored(Head(Running(hart).code), w))
    BY <1>1, <1>2 DEF HartReq, Request, Done, Modify, BusOps
  <1>7. /\ Writes(req, "gpio", "DDR") <=> reg = "DDR"
        /\ Writes(req, "gpio", "OUT") <=> reg = "OUT"
        /\ req.data = (w \ clr) \cup set
    BY <1>5, <1>6 DEF WriteReq, Writes
  <1>8. ~At(Running(hart), Local("advance"))
    BY DEF At, Local, Modify
  <1>9. Head(Running(hart).code).op = "modify" /\ Running(hart).acc # <<>>
    BY <1>2 DEF Modify
  <1>10. pos' = pos
    BY <1>8 DEF Execute
  <1>11. /\ gpio'.DDR = IF reg = "DDR" THEN (w \ clr) \cup set ELSE gpio.DDR
         /\ gpio'.OUT = IF reg = "OUT" THEN (w \ clr) \cup set ELSE gpio.OUT
    <2> HIDE DEF req
    <2> QED  BY <1>1, <1>7, Ports
  <1>12. RunsTo(Tail(Running(hart).code), <<>>)
    BY <1>9, Onward
  <1> QED  BY <1>3, <1>4, <1>10, <1>11, <1>12

\* The same for OUT.
LEMMA StoreOut ==
  ASSUME BoardShape, Execute, hart.trapped \in BOOLEAN, NEW clr, NEW set,
         Running(hart).acc = <<gpio.OUT>>, Running(hart).code # <<>>,
         Head(Running(hart).code) = Modify("gpio", "OUT", clr, set, {})
  PROVE  /\ RunsTo(Tail(Running(hart).code), <<>>) /\ gpio'.DDR = gpio.DDR
         /\ gpio'.OUT = (gpio.OUT \ clr) \cup set /\ pos' = pos
  BY StoreStep

\* A store to the timer leaves the port alone.
LEMMA TimerStep ==
  ASSUME BoardShape, Execute, hart.trapped \in BOOLEAN, NEW reg, NEW v,
         Running(hart).code # <<>>, Head(Running(hart).code) = Assign("timer", reg, v)
  PROVE  /\ RunsTo(Tail(Running(hart).code), <<>>)
         /\ gpio'.DDR = gpio.DDR /\ gpio'.OUT = gpio.OUT /\ pos' = pos
  <1> DEFINE req == HartReq(hart, mip)
  <1>1. ~Interrupted(hart, mip) /\ Devices(req)
    BY DEF Execute, CanExecute
  <1>2. req = WriteReq("timer", reg, v)
    BY <1>1 DEF HartReq, Request, Done, Assign, BusOps
  <1>3. Head(Running(hart).code).op = "assign"
    BY DEF Assign
  <1>4. ~At(Running(hart), Local("advance"))
    BY DEF At, Local, Assign
  <1>5. pos' = pos
    BY <1>4 DEF Execute
  <1>6. gpio'.DDR = gpio.DDR /\ gpio'.OUT = gpio.OUT
    BY <1>1, <1>2, Ports DEF WriteReq, Writes
  <1> QED  BY <1>3, <1>5, <1>6, Onward

\* The handler moves pos on.
LEMMA AdvanceStep ==
  ASSUME BoardShape, Execute, hart.trapped \in BOOLEAN,
         Running(hart).code # <<>>, Head(Running(hart).code) = Local("advance")
  PROVE  /\ RunsTo(Tail(Running(hart).code), <<>>)
         /\ gpio'.DDR = gpio.DDR /\ gpio'.OUT = gpio.OUT /\ pos' = NextPos(pos)
  <1>1. Devices(HartReq(hart, mip))
    BY DEF Execute
  <1>2. HartReq(hart, mip) = NoReq
    BY DEF HartReq, Request, Done, Local, BusOps
  <1>3. Head(Running(hart).code).op = "local"
    BY DEF Local
  <1>4. At(Running(hart), Local("advance"))
    BY DEF At, Done
  <1>5. pos' = NextPos(pos)
    BY <1>4 DEF Execute
  <1> QED  BY <1>1, <1>2, <1>3, <1>5, Onward, QuietPorts

\* main's three CSR instructions.
LEMMA CsrStep ==
  ASSUME BoardShape, Execute, hart.trapped = FALSE, hart.main.code # <<>>,
         NEW s, s = Head(hart.main.code),
         \/ s = CsrSet("mie", TINYMCU_MIE.MTIE)
         \/ s = CsrPut("mtvec", "trap_entry")
         \/ s = CsrSet("mstatus", TINYMCU_MSTATUS_MIE)
  PROVE  /\ BoardShape' /\ hart'.main.code = Tail(hart.main.code) /\ hart'.main.acc = <<>>
         /\ hart'.trapped = FALSE
         /\ hart'.MIE = hart.MIE \/ s = CsrSet("mstatus", TINYMCU_MSTATUS_MIE)
         /\ hart'.mtvec = hart.mtvec \/ hart'.mtvec = "trap_entry"
         /\ s = CsrPut("mtvec", "trap_entry") => hart'.mtvec = "trap_entry"
         /\ s = CsrSet("mstatus", TINYMCU_MSTATUS_MIE) => hart'.MIE = TRUE
         /\ gpio'.DDR = gpio.DDR /\ gpio'.OUT = gpio.OUT /\ pos' = pos
  <1> DEFINE req == HartReq(hart, mip)
             th == [code |-> Tail(hart.main.code), acc |-> <<>>, ret |-> hart.main.ret]
             g == WithThread(hart, th)
  <1>1. ~Interrupted(hart, mip) /\ Devices(req) /\ hart' = Executed(hart, Word(req))
    BY DEF Execute, CanExecute
  <1>2. Running(hart) = hart.main
    BY DEF Running
  <1>3. s.op \in {"csrs", "csrw"}
    BY DEF CsrSet, CsrPut
  <1>4. req = NoReq
    BY <1>1, <1>2, <1>3 DEF HartReq, Request, Done, BusOps
  <1>5. Stepped(Running(hart), Word(req)) = th
    <2> HIDE DEF req
    <2>1. ThreadShape(Running(hart))
      BY RunningThread
    <2> QED  BY <1>2, <1>3, <2>1, SteppedOn DEF Behind
  <1>6. ~At(Running(hart), Local("advance"))
    BY <1>2, <1>3 DEF At, Local
  <1>7. gpio'.DDR = gpio.DDR /\ gpio'.OUT = gpio.OUT /\ pos' = pos
    BY <1>1, <1>4, <1>6, QuietPorts DEF Execute
  <1>8. g = [main |-> th, isr |-> hart.isr, trapped |-> FALSE, MIE |-> hart.MIE,
             MPIE |-> hart.MPIE, mie |-> hart.mie, mtvec |-> hart.mtvec, idle |-> 0,
             lost |-> hart.lost, torn |-> hart.torn]
    <2>1. g = [hart EXCEPT !.main = th, !.idle = 0]
      BY DEF WithThread
    <2> HIDE DEF g, th
    <2> QED  BY <2>1 DEF BoardShape
  <1>9. Running(hart).code = hart.main.code
    BY <1>2
  <1> HIDE DEF th, g, req
  <1> DEFINE Becomes(M, m, V) ==
               hart' = [main |-> th, isr |-> hart.isr, trapped |-> FALSE, MIE |-> M,
                        MPIE |-> hart.MPIE, mie |-> m, mtvec |-> V, idle |-> 0,
                        lost |-> hart.lost, torn |-> hart.torn]
  <1>a. ASSUME NEW M, NEW m, NEW V, Becomes(M, m, V)
        PROVE  /\ BoardShape' /\ hart'.main = th /\ hart'.trapped = FALSE
               /\ hart'.MIE = M /\ hart'.mtvec = V
    <2>1. /\ hart'.main = th /\ hart'.isr = hart.isr /\ hart'.trapped = FALSE /\ hart'.MIE = M
          /\ hart'.MPIE = hart.MPIE /\ hart'.mie = m /\ hart'.mtvec = V /\ hart'.idle = 0
          /\ hart'.lost = hart.lost /\ hart'.torn = hart.torn
      BY <1>a
    <2>2. th = [code |-> th.code, acc |-> th.acc, ret |-> th.ret]
      BY DEF th
    <2> QED  BY <1>a, <2>1, <2>2 DEF BoardShape
  <1>10. CASE s = CsrSet("mie", TINYMCU_MIE.MTIE)
    <2>1. \E m : Becomes(hart.MIE, m, hart.mtvec)
      <3>1. s.op = "csrs" /\ s.reg = "mie" /\ s.mask = TINYMCU_MIE.MTIE
        BY <1>10 DEF CsrSet
      <3>2. hart' = [g EXCEPT !.mie = @ \cup TINYMCU_MIE.MTIE]
        BY <1>1, <1>5, <1>9, <3>1 DEF Executed, g
      <3> QED  BY <3>2, <1>8
    <2>2. BoardShape' /\ hart'.main = th /\ hart'.trapped = FALSE
          /\ hart'.MIE = hart.MIE /\ hart'.mtvec = hart.mtvec
      BY <1>a, <2>1
    <2>3. /\ s # CsrPut("mtvec", "trap_entry")
          /\ s # CsrSet("mstatus", TINYMCU_MSTATUS_MIE)
      BY <1>10 DEF CsrSet, CsrPut
    <2> QED  BY <2>2, <2>3, <1>7 DEF th
  <1>11. CASE s = CsrPut("mtvec", "trap_entry")
    <2>1. Becomes(hart.MIE, hart.mie, "trap_entry")
      <3>1. s.op = "csrw" /\ s.val = "trap_entry"
        BY <1>11 DEF CsrPut
      <3>2. hart' = [g EXCEPT !.mtvec = "trap_entry"]
        BY <1>1, <1>5, <1>9, <3>1 DEF Executed, g
      <3> QED  BY <3>2, <1>8
    <2>2. BoardShape' /\ hart'.main = th /\ hart'.trapped = FALSE
          /\ hart'.MIE = hart.MIE /\ hart'.mtvec = "trap_entry"
      BY <1>a, <2>1
    <2>3. s # CsrSet("mstatus", TINYMCU_MSTATUS_MIE)
      BY <1>11 DEF CsrSet, CsrPut
    <2> QED  BY <2>2, <2>3, <1>7 DEF th
  <1>12. CASE s = CsrSet("mstatus", TINYMCU_MSTATUS_MIE)
    <2>1. Becomes(TRUE, hart.mie, hart.mtvec)
      <3>1. s.op = "csrs" /\ s.reg = "mstatus"
        BY <1>12 DEF CsrSet
      <3>2. hart' = [g EXCEPT !.MIE = TRUE]
        BY <1>1, <1>5, <1>9, <3>1 DEF Executed, g
      <3> QED  BY <3>2, <1>8
    <2>2. BoardShape' /\ hart'.main = th /\ hart'.trapped = FALSE
          /\ hart'.MIE = TRUE /\ hart'.mtvec = hart.mtvec
      BY <1>a, <2>1
    <2>3. s # CsrPut("mtvec", "trap_entry")
      BY <1>12 DEF CsrSet, CsrPut
    <2> QED  BY <2>2, <2>3, <1>7, <1>12 DEF th
  <1> QED  BY <1>10, <1>11, <1>12

\* main's endless loop.
LEMMA SpinStep ==
  ASSUME BoardShape, Execute, hart.trapped = FALSE,
         hart.main.code # <<>>, Head(hart.main.code) = Spin
  PROVE  /\ RunsTo(hart.main.code, hart.main.acc)
         /\ gpio'.DDR = gpio.DDR /\ gpio'.OUT = gpio.OUT /\ pos' = pos
  <1> DEFINE req == HartReq(hart, mip)
  <1>1. ~Interrupted(hart, mip) /\ Devices(req) /\ hart' = Executed(hart, Word(req))
    BY DEF Execute, CanExecute
  <1>2. Running(hart) = hart.main
    BY DEF Running
  <1>3. req = NoReq
    <2>1. Head(hart.main.code).op \notin BusOps
      BY DEF Spin, BusOps
    <2> QED  BY <1>1, <1>2, <2>1 DEF HartReq, Request
  <1>4. Stepped(Running(hart), Word(req)) = hart.main
    BY <1>2 DEF Stepped, Spin
  <1>5. ~At(Running(hart), Local("advance"))
    BY <1>2 DEF At, Local, Spin
  <1>6. Executed(hart, Word(req)) = WithThread(hart, Stepped(Running(hart), Word(req)))
    BY <1>2 DEF Executed, Spin
  <1>7. gpio'.DDR = gpio.DDR /\ gpio'.OUT = gpio.OUT /\ pos' = pos
    BY <1>1, <1>3, <1>5, QuietPorts DEF Execute
  <1>8. hart' = WithThread(hart, hart.main)
    BY <1>1, <1>4, <1>6
  <1>9. hart.trapped \in BOOLEAN
    OBVIOUS
  <1>10. Moved(hart.main)
    BY <1>8, <1>9, MovedIs
  <1> QED  BY <1>7, <1>10, MovedKeeps DEF BoardShape
-----------------------------------------------------------------------------
\* The refinement's `at`, with a name.
AtLed == IF hart.trapped /\ Lit = {} /\ advancing THEN NextPos(pos) ELSE pos

\* The next LED is another one of the four.
LEMMA NextLed ==
  ASSUME NEW p \in LedPins
  PROVE  NextPos(p) \in LedPins /\ NextPos(p) # p /\ NextPos(p) = (p + 1) % LED_COUNT
  BY DEF LedPins, NextPos, LED_BASE_PIN, LED_COUNT

\* The first LED is pin 0, the last pin 3.
LEMMA Led0 == 0 \in LedPins /\ \A p \in LedPins : p \in 0..3
  BY DEF LedPins, LED_BASE_PIN, LED_COUNT

\* What the invariant's cases show of the chase.
ChaseView ==
  /\ \A k \in 1..16 : Starting(k) => Lit = gpio.OUT /\ AtLed = 0
  /\ Spinning => Lit = {pos} /\ AtLed = pos
  /\ \A p \in LedPins, j \in 1..6 : Handling(p, j) =>
        /\ Lit = gpio.OUT
        /\ AtLed = IF j <= 3 THEN p ELSE NextPos(p)

\* They do, in every state.
LEMMA ChaseViewHolds == ChaseView
  <1>1. ASSUME NEW k \in 1..16, Starting(k)
        PROVE  Lit = gpio.OUT /\ AtLed = 0
    <2>1. AtLed = 0
      BY <1>1 DEF Starting, AtLed
    <2>2. gpio.OUT \subseteq gpio.DDR
      <3>1. CASE k <= 9
        BY <3>1, <1>1 DEF Starting
      <3>2. CASE k > 9
        BY <3>2, <1>1, Led0 DEF Starting
      <3> QED  BY <3>1, <3>2
    <2> QED  BY <2>1, <2>2 DEF Lit
  <1>2. ASSUME Spinning
        PROVE  Lit = {pos} /\ AtLed = pos
    BY <1>2 DEF Spinning, Ready, Lit, AtLed
  <1>3. ASSUME NEW p \in LedPins, NEW j \in 1..6, Handling(p, j)
        PROVE  /\ Lit = gpio.OUT
               /\ AtLed = IF j <= 3 THEN p ELSE NextPos(p)
    <2>1. Lit = gpio.OUT
      BY <1>3, NextLed DEF Handling, Ready, Lit
    <2>2. advancing <=> j <= 4
      BY <1>3, HandlerRest DEF advancing, Handling
    <2>3. Lit = {} <=> j \in {4, 5}
      BY <1>3, <2>1 DEF Handling
    <2>4. hart.trapped
      BY <1>3 DEF Handling
    <2>5. pos = IF j <= 4 THEN p ELSE NextPos(p)
      BY <1>3 DEF Handling
    <2> QED  BY <2>1, <2>2, <2>3, <2>4, <2>5 DEF AtLed
  <1> QED  BY <1>1, <1>2, <1>3 DEF ChaseView

\* ... and in the next one.
LEMMA ChaseViewNext == ChaseView'
  BY ChaseViewHolds, PTL

\* A step of the chase, or none.
ViewStep ==
  \/ Lit' = Lit /\ AtLed' = AtLed
  \/ Lit = {} /\ Lit' = {AtLed} /\ AtLed' = AtLed
  \/ Lit = {AtLed} /\ Lit' = {} /\ AtLed' = (AtLed + 1) % LED_COUNT
  \/ Lit' = {} /\ AtLed' = 0

\* A step that changes nothing the invariant speaks of.
LEMMA StillStep ==
  ASSUME LedInv, BoardShape',
         hart'.main.code = hart.main.code, hart'.main.acc = hart.main.acc,
         hart'.isr.code = hart.isr.code, hart'.isr.acc = hart.isr.acc,
         hart'.trapped = hart.trapped, hart'.MIE = hart.MIE, hart'.MPIE = hart.MPIE,
         hart'.mtvec = hart.mtvec,
         gpio'.DDR = gpio.DDR, gpio'.OUT = gpio.OUT, pos' = pos
  PROVE  LedInv' /\ ViewStep
  <1>1. ASSUME NEW k \in 1..16, Starting(k)
        PROVE  LedInv' /\ ViewStep
    <2>1. Starting(k)'
      BY <1>1 DEF Starting, MainReg
    <2> QED  BY <1>1, <2>1, ChaseViewHolds, ChaseViewNext DEF ChaseView, LedInv, ViewStep
  <1>2. ASSUME Spinning
        PROVE  LedInv' /\ ViewStep
    <2>1. Spinning'
      BY <1>2 DEF Spinning, Ready
    <2> QED  BY <1>2, <2>1, ChaseViewHolds, ChaseViewNext DEF ChaseView, LedInv, ViewStep
  <1>3. ASSUME NEW p \in LedPins, NEW j \in 1..6, Handling(p, j)
        PROVE  LedInv' /\ ViewStep
    <2>1. Handling(p, j)'
      BY <1>3 DEF Handling, Ready
    <2> QED  BY <1>3, <2>1, ChaseViewHolds, ChaseViewNext DEF ChaseView, LedInv, ViewStep
  <1> QED  BY <1>1, <1>2, <1>3 DEF LedInv

\* A clock spent inside the processor.
LEMMA IdleStep ==
  ASSUME LedInv, Idle
  PROVE  LedInv' /\ ViewStep
  <1>1. /\ hart' = [hart EXCEPT !.idle = @ + 1] \/ hart' = hart
        /\ Devices(NoReq) /\ pos' = pos
    BY DEF Idle, Idles
  <1>2. /\ BoardShape' /\ hart'.main = hart.main /\ hart'.isr = hart.isr
        /\ hart'.trapped = hart.trapped /\ hart'.MIE = hart.MIE /\ hart'.MPIE = hart.MPIE
        /\ hart'.mtvec = hart.mtvec
    BY <1>1 DEF LedInv, BoardShape
  <1> QED  BY <1>1, <1>2, QuietPorts, StillStep

\* The statement a position of main is at, by its kind.
LEMMA MainKinds ==
  ASSUME NEW k \in 1..16
  PROVE  \/ \E p \in LedPins : /\ k = 2*p + 1 /\ k \in {1, 3, 5, 7}
                                /\ MainCode[k] = SetBits("gpio", "DDR", {p})
         \/ \E p \in LedPins : /\ k = 2*p + 2 /\ k \in {2, 4, 6, 8}
                                /\ MainCode[k] = ClearBits("gpio", "OUT", {p})
         \/ k = 9 /\ MainCode[k] = SetBits("gpio", "OUT", {0})
         \/ k \in 10..13 /\ \E reg, v : MainCode[k] = Assign("timer", reg, v)
         \/ k = 14 /\ MainCode[k] = CsrSet("mie", TINYMCU_MIE.MTIE)
         \/ k = 15 /\ MainCode[k] = CsrPut("mtvec", "trap_entry")
         \/ k = 16 /\ MainCode[k] = CsrSet("mstatus", TINYMCU_MSTATUS_MIE)
  <1>1. 0 \in LedPins /\ 1 \in LedPins /\ 2 \in LedPins /\ 3 \in LedPins
    BY DEF LedPins, LED_BASE_PIN, LED_COUNT
  <1>2. k \in {1, 3, 5, 7} \/ k \in {2, 4, 6, 8} \/ k \in 9..16
    OBVIOUS
  <1>3. CASE k \in {1, 3, 5, 7}
    BY <1>1, <1>3, MainStatement
  <1>4. CASE k \in {2, 4, 6, 8}
    <2>1. \E p \in LedPins : k = 2*p + 2
      <3>1. k = 2*0 + 2 \/ k = 2*1 + 2 \/ k = 2*2 + 2 \/ k = 2*3 + 2
        BY <1>4
      <3> QED  BY <1>1, <3>1
    <2>2. PICK p \in LedPins : k = 2*p + 2
      BY <2>1
    <2>3. MainCode[2*p + 2] = ClearBits("gpio", "OUT", {p})
      BY MainStatement
    <2> QED  BY <1>4, <2>2, <2>3
  <1>5. CASE k \in 9..16
    BY <1>5, MainStatement
  <1> QED  BY <1>2, <1>3, <1>4, <1>5


\* A step of main that is no change of OUT: the display stays as it is.
LEMMA StartOn ==
  ASSUME NEW k \in 1..15, Starting(k), BoardShape',
         Starting(k)' \/ Starting(k + 1)', gpio'.OUT = gpio.OUT
  PROVE  LedInv' /\ ViewStep
  <1>1. k \in 1..16 /\ k + 1 \in 1..16
    OBVIOUS
  <1>2. Lit = gpio.OUT /\ AtLed = 0
    BY <1>1, ChaseViewHolds DEF ChaseView
  <1>3. Lit' = gpio'.OUT /\ AtLed' = 0
    BY <1>1, ChaseViewNext DEF ChaseView
  <1> QED  BY <1>1, <1>2, <1>3 DEF LedInv, ViewStep

\* How main goes on behind statement k.
LEMMA StartNext ==
  ASSUME NEW k \in 1..15, Starting(k), RunsTo(Rest(k + 1), <<>>), pos' = pos,
         \A p \in LedPins : 2*p + 1 < k + 1 => p \in gpio'.DDR,
         gpio'.OUT = IF k <= 8 THEN {} ELSE {0},
         k # 15
  PROVE  Starting(k + 1)' /\ BoardShape'
  <1>1. hart'.main.code = Rest(k + 1) /\ hart'.main.acc = <<>> /\ BoardShape'
        /\ hart'.trapped = FALSE /\ hart'.MIE = FALSE /\ pos' = 0
    BY DEF Starting, RunsTo
  <1>2. k + 1 <= 9 <=> k <= 8
    OBVIOUS
  <1> QED  BY <1>1, <1>2 DEF Starting

\* Every statement of main's set-up keeps the invariant; the last of OUT lights
\* the first LED.
LEMMA StartStep ==
  ASSUME BoardShape, NEW k \in 1..16, Starting(k), Execute
  PROVE  LedInv' /\ ViewStep
  <1>1. /\ hart.trapped = FALSE /\ hart.trapped \in BOOLEAN
        /\ Running(hart) = hart.main /\ hart.main.code # <<>>
        /\ Head(hart.main.code) = MainCode[k] /\ Tail(hart.main.code) = Rest(k + 1)
    <2>1. hart.trapped = FALSE /\ Running(hart) = hart.main /\ hart.main.code = Rest(k)
      BY DEF Starting, Running
    <2>2. k \in 1..17
      OBVIOUS
    <2> QED  BY <2>1, <2>2, MainRest
  <1>2. ASSUME NEW reg \in {"DDR", "OUT"}, NEW clr, NEW set,
               k <= 9, reg = MainReg(k), MainCode[k] = Modify("gpio", reg, clr, set, {}),
               hart.main.acc = <<>>
        PROVE  LedInv' /\ ViewStep
    <2>1. /\ RunsTo(hart.main.code, <<gpio[reg]>>)
          /\ gpio'.DDR = gpio.DDR /\ gpio'.OUT = gpio.OUT /\ pos' = pos
      BY <1>1, <1>2, LoadStep
    <2>2. gpio'[reg] = gpio[reg]
      BY <2>1
    <2>3. /\ hart'.main.code = Rest(k) /\ hart'.main.acc = <<gpio'[MainReg(k)]>>
          /\ hart'.trapped = FALSE /\ hart'.MIE = FALSE /\ BoardShape'
      BY <1>1, <1>2, <2>1, <2>2 DEF RunsTo, Starting
    <2>4. Starting(k)'
      BY <1>2, <2>1, <2>3 DEF Starting, MainReg
    <2> QED  BY <1>2, <2>1, <2>3, <2>4, StartOn
  <1>3. ASSUME NEW p \in LedPins, k = 2*p + 1, k \in {1, 3, 5, 7},
               MainCode[k] = SetBits("gpio", "DDR", {p}), hart.main.acc = <<gpio.DDR>>
        PROVE  LedInv' /\ ViewStep
    <2>1. /\ RunsTo(Rest(k + 1), <<>>)
          /\ gpio'.DDR = (gpio.DDR \ {}) \cup {p} /\ gpio'.OUT = gpio.OUT /\ pos' = pos
      <3>1. Head(Running(hart).code) = Modify("gpio", "DDR", {}, {p}, {})
        BY <1>1, <1>3 DEF SetBits
      <3> QED  BY <1>1, <1>3, <3>1, StoreStep
    <2>2. \A q \in LedPins : 2*q + 1 < k + 1 => q \in gpio'.DDR
      BY <1>3, <2>1, Led0 DEF Starting
    <2>3. gpio'.OUT = {} /\ k <= 8 /\ k \in 1..15
      BY <1>3, <2>1 DEF Starting
    <2>4. Starting(k + 1)' /\ BoardShape'
      BY <2>1, <2>2, <2>3, <1>3, StartNext
    <2> QED  BY <2>1, <2>3, <2>4, StartOn
  <1>4. ASSUME NEW p \in LedPins, k = 2*p + 2, k \in {2, 4, 6, 8},
               MainCode[k] = ClearBits("gpio", "OUT", {p}), hart.main.acc = <<gpio.OUT>>
        PROVE  LedInv' /\ ViewStep
    <2>1. /\ RunsTo(Rest(k + 1), <<>>)
          /\ gpio'.DDR = gpio.DDR /\ gpio'.OUT = (gpio.OUT \ {p}) \cup {} /\ pos' = pos
      <3>1. Head(Running(hart).code) = Modify("gpio", "OUT", {p}, {}, {})
        BY <1>1, <1>4 DEF ClearBits
      <3> QED  BY <1>1, <1>4, <3>1, StoreOut
    <2>2. gpio.OUT = {} /\ gpio'.OUT = {} /\ k <= 8 /\ k \in 1..15
      BY <1>4, <2>1 DEF Starting
    <2>3. \A q \in LedPins : 2*q + 1 < k + 1 => q \in gpio'.DDR
      BY <1>4, <2>1, Led0 DEF Starting
    <2>4. Starting(k + 1)' /\ BoardShape'
      BY <2>1, <2>2, <2>3, <1>4, StartNext
    <2> QED  BY <2>2, <2>4, StartOn
  <1>5. ASSUME k = 9, MainCode[k] = SetBits("gpio", "OUT", {0}), hart.main.acc = <<gpio.OUT>>
        PROVE  LedInv' /\ ViewStep
    <2>1. /\ RunsTo(Rest(k + 1), <<>>)
          /\ gpio'.DDR = gpio.DDR /\ gpio'.OUT = (gpio.OUT \ {}) \cup {0} /\ pos' = pos
      <3>1. Head(Running(hart).code) = Modify("gpio", "OUT", {}, {0}, {})
        BY <1>1, <1>5 DEF SetBits
      <3>2. Running(hart).acc = <<gpio.OUT>>
        BY <1>1, <1>5
      <3> QED  BY <1>1, <3>1, <3>2, StoreOut
    <2>2. gpio.OUT = {} /\ gpio'.OUT = {0}
      BY <1>5, <2>1 DEF Starting
    <2>3. \A q \in LedPins : q \in gpio'.DDR
      BY <1>5, <2>1, Led0 DEF Starting
    <2>4. Starting(k + 1)' /\ BoardShape'
      BY <2>1, <2>2, <2>3, <1>5, StartNext
    <2>5. Lit = {} /\ AtLed = 0 /\ Lit' = {0} /\ AtLed' = 0
      <3>1. k \in 1..16 /\ k + 1 \in 1..16
        BY <1>5
      <3> QED  BY <2>2, <2>4, <3>1, ChaseViewHolds, ChaseViewNext DEF ChaseView
    <2> QED  BY <1>5, <2>4, <2>5 DEF LedInv, ViewStep
  <1>6. ASSUME k \in 10..13, NEW reg, NEW v, MainCode[k] = Assign("timer", reg, v)
        PROVE  LedInv' /\ ViewStep
    <2>1. /\ RunsTo(Rest(k + 1), <<>>)
          /\ gpio'.DDR = gpio.DDR /\ gpio'.OUT = gpio.OUT /\ pos' = pos
      BY <1>1, <1>6, TimerStep
    <2>2. \A q \in LedPins : q \in gpio'.DDR
      BY <1>6, <2>1, Led0 DEF Starting
    <2>3. gpio'.OUT = {0} /\ ~(k <= 8) /\ k \in 1..15
      BY <1>6, <2>1 DEF Starting
    <2>4. Starting(k + 1)' /\ BoardShape'
      BY <2>1, <2>2, <2>3, <1>6, StartNext
    <2> QED  BY <2>1, <2>3, <2>4, StartOn
  <1>7. ASSUME \/ k = 14 /\ MainCode[k] = CsrSet("mie", TINYMCU_MIE.MTIE)
               \/ k = 15 /\ MainCode[k] = CsrPut("mtvec", "trap_entry")
               \/ k = 16 /\ MainCode[k] = CsrSet("mstatus", TINYMCU_MSTATUS_MIE)
        PROVE  LedInv' /\ ViewStep
    <2> DEFINE st == MainCode[k]
    <2>1. /\ BoardShape' /\ hart'.main.code = Rest(k + 1) /\ hart'.main.acc = <<>>
          /\ hart'.trapped = FALSE
          /\ hart'.MIE = hart.MIE \/ st = CsrSet("mstatus", TINYMCU_MSTATUS_MIE)
          /\ hart'.mtvec = hart.mtvec \/ hart'.mtvec = "trap_entry"
          /\ st = CsrPut("mtvec", "trap_entry") => hart'.mtvec = "trap_entry"
          /\ st = CsrSet("mstatus", TINYMCU_MSTATUS_MIE) => hart'.MIE = TRUE
          /\ gpio'.DDR = gpio.DDR /\ gpio'.OUT = gpio.OUT /\ pos' = pos
      BY <1>1, <1>7, CsrStep
    <2>2. \A q \in LedPins : q \in gpio'.DDR
      BY <1>7, <2>1, Led0 DEF Starting
    <2>3. CASE k # 16
      <3>1. st # CsrSet("mstatus", TINYMCU_MSTATUS_MIE)
        BY <1>7, <2>3 DEF CsrSet, CsrPut
      <3>2. k + 1 = 16 => hart'.mtvec = "trap_entry"
        BY <1>7, <2>1, <2>3
      <3>3. Starting(k + 1)'
        BY <1>7, <2>1, <2>2, <2>3, <3>1, <3>2 DEF Starting
      <3> QED  BY <1>7, <2>1, <2>3, <3>3, StartOn
    <2>4. CASE k = 16
      <3>1. st = CsrSet("mstatus", TINYMCU_MSTATUS_MIE)
        BY <1>7, <2>4
      <3>2. hart'.mtvec = "trap_entry" /\ pos' = 0 /\ gpio'.OUT = {0} /\ hart'.MIE = TRUE
        BY <2>1, <2>4, <3>1 DEF Starting
      <3>3. Spinning'
        <4>1. hart'.MIE \in BOOLEAN
          BY <3>2
        <4> QED  BY <2>1, <2>2, <2>4, <3>2, <4>1, Led0 DEF Spinning, Ready
      <3>4. Lit = {0} /\ AtLed = 0 /\ Lit' = {0} /\ AtLed' = 0
        BY <2>4, <3>2, <3>3, ChaseViewHolds, ChaseViewNext DEF ChaseView, Starting
      <3> QED  BY <2>1, <3>3, <3>4 DEF LedInv, ViewStep
    <2> QED  BY <2>3, <2>4
  <1>8. hart.main.acc = <<>> \/ hart.main.acc = <<gpio[MainReg(k)]>>
    BY DEF Starting
  <1>9. ASSUME NEW p \in LedPins, k = 2*p + 1, k \in {1, 3, 5, 7},
               MainCode[k] = SetBits("gpio", "DDR", {p})
        PROVE  LedInv' /\ ViewStep
    <2>1. MainReg(k) = "DDR" /\ k <= 9 /\ MainCode[k] = Modify("gpio", "DDR", {}, {p}, {})
      BY <1>9 DEF MainReg, SetBits
    <2> QED  BY <1>2, <1>3, <1>8, <1>9, <2>1
  <1>10. ASSUME NEW p \in LedPins, k = 2*p + 2, k \in {2, 4, 6, 8},
                MainCode[k] = ClearBits("gpio", "OUT", {p})
         PROVE  LedInv' /\ ViewStep
    <2>1. MainReg(k) = "OUT" /\ k <= 9 /\ MainCode[k] = Modify("gpio", "OUT", {p}, {}, {})
      BY <1>10 DEF MainReg, ClearBits
    <2> QED  BY <1>2, <1>4, <1>8, <1>10, <2>1
  <1>11. ASSUME k = 9, MainCode[k] = SetBits("gpio", "OUT", {0})
         PROVE  LedInv' /\ ViewStep
    <2>1. MainReg(k) = "OUT" /\ k <= 9 /\ MainCode[k] = Modify("gpio", "OUT", {}, {0}, {})
      BY <1>11 DEF MainReg, SetBits
    <2> QED  BY <1>2, <1>5, <1>8, <1>11, <2>1
  <1> QED  BY <1>6, <1>7, <1>9, <1>10, <1>11, MainKinds

\* main's loop changes nothing.
LEMMA SpinningStep ==
  ASSUME LedInv, Spinning, Execute
  PROVE  LedInv' /\ ViewStep
  <1>1. /\ hart.trapped = FALSE /\ hart.main.code # <<>> /\ Head(hart.main.code) = Spin
        /\ BoardShape
    <2>1. 17 \in 1..17
      OBVIOUS
    <2> QED  BY <2>1, MainRest, MainStatement DEF Spinning, Ready, LedInv
  <1>2. /\ RunsTo(hart.main.code, hart.main.acc)
        /\ gpio'.DDR = gpio.DDR /\ gpio'.OUT = gpio.OUT /\ pos' = pos
    BY <1>1, SpinStep
  <1> QED  BY <1>1, <1>2, StillStep DEF RunsTo

\* The handler is entered while main spins, with the lit LED at pos.
LEMMA EnterStep ==
  ASSUME LedInv, Spinning, hart.MIE = TRUE, hart' = Trapped(hart, tinymcu_trap_handler(pos)),
         gpio'.DDR = gpio.DDR, gpio'.OUT = gpio.OUT, pos' = pos
  PROVE  LedInv' /\ ViewStep
  <1>1. HRest(pos, 1) = tinymcu_trap_handler(pos)
    BY HandlerRest, HandlerIs DEF Spinning
  <1>2. hart' = [main |-> hart.main, isr |-> Thread(HRest(pos, 1)), trapped |-> TRUE,
                 MIE |-> FALSE, MPIE |-> hart.MIE, mie |-> hart.mie,
                 mtvec |-> hart.mtvec, idle |-> 0, lost |-> FALSE, torn |-> hart.torn]
    BY <1>1 DEF Trapped, LedInv, BoardShape
  <1>3. /\ hart'.main = hart.main /\ hart'.trapped = TRUE /\ hart'.MIE = FALSE
        /\ hart'.MPIE = TRUE /\ hart'.mtvec = hart.mtvec
        /\ hart'.isr.code = HRest(pos, 1) /\ hart'.isr.acc = <<>>
    BY <1>2 DEF Thread
  <1>4. BoardShape'
    <2>1. /\ hart'.mie = hart.mie /\ hart'.idle = 0 /\ hart'.lost = FALSE
          /\ hart'.torn = hart.torn /\ hart'.isr = Thread(HRest(pos, 1))
      BY <1>2
    <2>2. hart'.isr = [code |-> hart'.isr.code, acc |-> hart'.isr.acc, ret |-> hart'.isr.ret]
      BY <2>1 DEF Thread
    <2>3. hart' = [main |-> hart'.main, isr |-> hart'.isr, trapped |-> hart'.trapped,
                   MIE |-> hart'.MIE, MPIE |-> hart'.MPIE, mie |-> hart'.mie,
                   mtvec |-> hart'.mtvec, idle |-> hart'.idle,
                   lost |-> hart'.lost, torn |-> hart'.torn]
      BY <1>2, <1>3, <2>1
    <2> QED  BY <1>3, <2>2, <2>3 DEF LedInv, BoardShape
  <1>5. ASSUME NEW p \in LedPins, pos = p
        PROVE  LedInv' /\ ViewStep
    <2>1. Handling(p, 1)'
      BY <1>3, <1>5 DEF Spinning, Ready, Handling
    <2>2. Lit = {p} /\ AtLed = p
      BY <1>5, ChaseViewHolds DEF ChaseView
    <2>3. Lit' = {p} /\ AtLed' = p
      <3>1. gpio'.OUT = {p}
        BY <1>5 DEF Spinning
      <3>2. 1 \in 1..6 /\ 1 <= 3
        OBVIOUS
      <3> QED  BY <2>1, <3>1, <3>2, ChaseViewNext DEF ChaseView
    <2> QED  BY <1>4, <2>1, <2>2, <2>3 DEF LedInv, ViewStep
  <1> QED  BY <1>5 DEF Spinning

\* A lost trap leaves main spinning, with interrupts off.
LEMMA LostStep ==
  ASSUME LedInv, Spinning, hart' = Lost(hart),
         gpio'.DDR = gpio.DDR, gpio'.OUT = gpio.OUT, pos' = pos
  PROVE  LedInv' /\ ViewStep
  <1>1. hart' = [main |-> hart.main, isr |-> hart.isr, trapped |-> hart.trapped,
                 MIE |-> FALSE, MPIE |-> hart.MIE, mie |-> hart.mie,
                 mtvec |-> hart.mtvec, idle |-> 0, lost |-> TRUE, torn |-> hart.torn]
    BY DEF Lost, LedInv, BoardShape
  <1>2. /\ BoardShape' /\ hart'.main = hart.main /\ hart'.trapped = hart.trapped
        /\ hart'.MIE = FALSE /\ hart'.mtvec = hart.mtvec
    BY <1>1 DEF LedInv, BoardShape
  <1>3. Spinning'
    BY <1>2 DEF Spinning, Ready
  <1> QED  BY <1>2, <1>3, ChaseViewHolds, ChaseViewNext DEF ChaseView, LedInv, ViewStep

\* An interrupt is taken only while main spins.
LEMMA TrapStep ==
  ASSUME LedInv, Trap
  PROVE  IsTorn(hart') \/ (LedInv' /\ ViewStep)
  <1>1. /\ hart.MIE /\ gpio'.DDR = gpio.DDR /\ gpio'.OUT = gpio.OUT /\ pos' = pos
        /\ hart' \in TrapOutcomes(hart, tinymcu_trap_handler(pos))
    BY QuietPorts DEF Trap, Traps, Interrupted
  <1>2. Spinning
    BY <1>1 DEF LedInv, Starting, Handling
  <1>3. \/ hart' = Trapped(hart, tinymcu_trap_handler(pos))
        \/ hart' = Torn(hart, tinymcu_trap_handler(pos))
        \/ hart' = Lost(hart)
    BY <1>1 DEF TrapOutcomes
  <1>4. ASSUME hart' = Torn(hart, tinymcu_trap_handler(pos))
        PROVE  IsTorn(hart')
    BY <1>4 DEF Torn, Trapped, IsTorn, LedInv, BoardShape
  <1>5. hart.MIE = TRUE
    BY <1>1, <1>2 DEF Spinning
  <1> QED  BY <1>1, <1>2, <1>3, <1>4, <1>5, EnterStep, LostStep

\* How the handler goes on behind statement j.
LEMMA HandlerNext ==
  ASSUME NEW p \in LedPins, NEW j \in 1..5, Handling(p, j), RunsTo(HRest(p, j + 1), <<>>),
         gpio'.DDR = gpio.DDR,
         gpio'.OUT = IF j + 1 <= 3 THEN {p} ELSE IF j + 1 <= 5 THEN {} ELSE {NextPos(p)},
         pos' = IF j + 1 <= 4 THEN p ELSE NextPos(p)
  PROVE  /\ LedInv'
         /\ Lit' = gpio'.OUT /\ AtLed' = IF j + 1 <= 3 THEN p ELSE NextPos(p)
         /\ Lit = gpio.OUT   /\ AtLed  = IF j <= 3 THEN p ELSE NextPos(p)
  <1>1. j \in 1..6 /\ j + 1 \in 1..6
    OBVIOUS
  <1>2. /\ hart'.main = hart.main /\ hart'.trapped = TRUE /\ hart'.MIE = FALSE
        /\ hart'.MPIE = TRUE /\ hart'.mtvec = hart.mtvec
        /\ hart'.isr.code = HRest(p, j + 1) /\ hart'.isr.acc = <<>> /\ BoardShape'
    BY DEF RunsTo, Handling
  <1>3. Handling(p, j + 1)'
    BY <1>2 DEF Handling, Ready
  <1> QED  BY <1>1, <1>2, <1>3, ChaseViewHolds, ChaseViewNext DEF ChaseView, LedInv

\* Clear, advance, set: the handler's five statements are an Off and an On.
LEMMA HandlerStep ==
  ASSUME LedInv, NEW p \in LedPins, NEW j \in 1..6, Handling(p, j), Execute
  PROVE  LedInv' /\ ViewStep
  <1>1. /\ hart.trapped = TRUE /\ hart.trapped \in BOOLEAN /\ Running(hart) = hart.isr
        /\ BoardShape /\ hart.isr.code = HRest(p, j)
    BY DEF Handling, Running, LedInv
  <1>2. j \in 1..5
    <2>1. hart.isr.code # <<>>
      BY <1>1 DEF Execute, CanExecute, Done
    <2>2. j # 6
      BY <1>1, <2>1, HandlerRest
    <2> QED  BY <2>2
  <1>3. /\ hart.isr.code # <<>> /\ Head(hart.isr.code) = HandlerCode(p)[j]
        /\ Tail(hart.isr.code) = HRest(p, j + 1)
    <2>1. /\ HRest(p, j) # <<>> /\ Head(HRest(p, j)) = HandlerCode(p)[j]
          /\ Tail(HRest(p, j)) = HRest(p, j + 1)
      BY <1>2, HandlerRest
    <2> QED  BY <1>1, <2>1
  <1>4. NextPos(p) \in LedPins /\ NextPos(p) # p /\ NextPos(p) = (p + 1) % LED_COUNT
    BY NextLed
  <1>5. CASE j \in {1, 2}
    <2>1. \E reg, v : HandlerCode(p)[j] = Assign("timer", reg, v)
      BY <1>5 DEF HandlerCode
    <2>2. /\ RunsTo(HRest(p, j + 1), <<>>)
          /\ gpio'.DDR = gpio.DDR /\ gpio'.OUT = gpio.OUT /\ pos' = pos
      BY <1>1, <1>3, <2>1, TimerStep
    <2>3. gpio.OUT = {p} /\ pos = p
      BY <1>5 DEF Handling
    <2>4. /\ LedInv' /\ Lit' = gpio'.OUT /\ AtLed' = IF j + 1 <= 3 THEN p ELSE NextPos(p)
          /\ Lit = gpio.OUT /\ AtLed = IF j <= 3 THEN p ELSE NextPos(p)
      BY <1>2, <1>5, <2>2, <2>3, HandlerNext
    <2>5. Lit' = Lit /\ AtLed' = AtLed
      BY <1>5, <2>2, <2>4
    <2> QED  BY <2>4, <2>5 DEF ViewStep
  <1>6. ASSUME j = 3 \/ j = 5, hart.isr.acc = <<>>
        PROVE  LedInv' /\ ViewStep
    <2>1. \E clr, set : HandlerCode(p)[j] = Modify("gpio", "OUT", clr, set, {})
      BY <1>6 DEF HandlerCode, ClearBits, SetBits
    <2>2. /\ RunsTo(HRest(p, j), <<gpio.OUT>>)
          /\ gpio'.DDR = gpio.DDR /\ gpio'.OUT = gpio.OUT /\ pos' = pos
      BY <1>1, <1>3, <1>6, <2>1, LoadStep
    <2>3. /\ hart'.main = hart.main /\ hart'.trapped = TRUE /\ hart'.MIE = FALSE
          /\ hart'.MPIE = TRUE /\ hart'.mtvec = hart.mtvec
          /\ hart'.isr.code = HRest(p, j) /\ hart'.isr.acc = <<gpio'.OUT>> /\ BoardShape'
      BY <1>1, <2>2 DEF RunsTo, Handling
    <2>4. Handling(p, j)'
      BY <1>6, <2>2, <2>3 DEF Handling, Ready
    <2>5. Lit' = Lit /\ AtLed' = AtLed
      BY <2>2, <2>4, ChaseViewHolds, ChaseViewNext DEF ChaseView
    <2> QED  BY <2>3, <2>4, <2>5 DEF LedInv, ViewStep
  <1>7. ASSUME j = 3, hart.isr.acc = <<gpio.OUT>>
        PROVE  LedInv' /\ ViewStep
    <2>1. HandlerCode(p)[j] = Modify("gpio", "OUT", {p}, {}, {})
      BY <1>7 DEF HandlerCode, ClearBits
    <2>2. /\ RunsTo(HRest(p, j + 1), <<>>) /\ gpio'.DDR = gpio.DDR
          /\ gpio'.OUT = (gpio.OUT \ {p}) \cup {} /\ pos' = pos
      BY <1>1, <1>3, <1>7, <2>1, StoreOut
    <2>3. gpio.OUT = {p} /\ gpio'.OUT = {} /\ pos' = p
      BY <1>7, <2>2 DEF Handling
    <2>4. /\ LedInv' /\ Lit' = {} /\ AtLed' = NextPos(p) /\ Lit = {p} /\ AtLed = p
      BY <1>2, <1>7, <2>2, <2>3, HandlerNext
    <2> QED  BY <1>4, <2>4 DEF ViewStep
  <1>8. CASE j = 4
    <2>1. HandlerCode(p)[j] = Local("advance")
      BY <1>8 DEF HandlerCode
    <2>2. /\ RunsTo(HRest(p, j + 1), <<>>)
          /\ gpio'.DDR = gpio.DDR /\ gpio'.OUT = gpio.OUT /\ pos' = NextPos(pos)
      BY <1>1, <1>3, <2>1, AdvanceStep
    <2>3. gpio.OUT = {} /\ gpio'.OUT = {} /\ pos' = NextPos(p)
      BY <1>8, <2>2 DEF Handling
    <2>4. LedInv' /\ Lit' = {} /\ AtLed' = NextPos(p) /\ Lit = {} /\ AtLed = NextPos(p)
      BY <1>2, <1>8, <2>2, <2>3, HandlerNext
    <2> QED  BY <2>4 DEF ViewStep
  <1>9. ASSUME j = 5, hart.isr.acc = <<gpio.OUT>>
        PROVE  LedInv' /\ ViewStep
    <2>1. HandlerCode(p)[j] = Modify("gpio", "OUT", {}, {NextPos(p)}, {})
      BY <1>9 DEF HandlerCode, SetBits
    <2>2. /\ RunsTo(HRest(p, j + 1), <<>>) /\ gpio'.DDR = gpio.DDR
          /\ gpio'.OUT = (gpio.OUT \ {}) \cup {NextPos(p)} /\ pos' = pos
      BY <1>1, <1>3, <1>9, <2>1, StoreOut
    <2>3. gpio.OUT = {} /\ gpio'.OUT = {NextPos(p)} /\ pos' = NextPos(p)
      BY <1>9, <2>2 DEF Handling
    <2>4. /\ LedInv' /\ Lit' = {NextPos(p)} /\ AtLed' = NextPos(p)
          /\ Lit = {} /\ AtLed = NextPos(p)
      BY <1>2, <1>9, <2>2, <2>3, HandlerNext
    <2> QED  BY <2>4 DEF ViewStep
  <1>10. hart.isr.acc = <<>> \/ hart.isr.acc = <<gpio.OUT>>
    BY DEF Handling
  <1> QED  BY <1>2, <1>5, <1>6, <1>7, <1>8, <1>9, <1>10

\* The handler returns with the next LED lit and interrupts on.
LEMMA MretStep ==
  ASSUME LedInv, Mret
  PROVE  LedInv' /\ ViewStep
  <1>1. /\ hart.trapped /\ hart.isr.code = <<>> /\ hart' = Mretted(hart)
        /\ gpio'.DDR = gpio.DDR /\ gpio'.OUT = gpio.OUT /\ pos' = pos
    BY QuietPorts DEF Mret, Mrets, Done
  <1>2. PICK p \in LedPins : \E j \in 1..6 : Handling(p, j)
    BY <1>1 DEF LedInv, Starting, Spinning
  <1>3. Handling(p, 6)
    <2>1. PICK j \in 1..6 : Handling(p, j)
      BY <1>2
    <2>2. j \notin 1..5
      BY <1>1, <2>1, HandlerRest DEF Handling
    <2>3. j = 6
      BY <2>2
    <2> QED  BY <2>1, <2>3
  <1>4. hart' = [main |-> hart.main, isr |-> hart.isr, trapped |-> FALSE,
                 MIE |-> hart.MPIE, MPIE |-> hart.MPIE, mie |-> hart.mie,
                 mtvec |-> hart.mtvec, idle |-> 0, lost |-> hart.lost, torn |-> hart.torn]
    BY <1>1 DEF Mretted, LedInv, BoardShape
  <1>5. /\ hart'.main = hart.main /\ hart'.trapped = FALSE /\ hart'.MIE = TRUE
        /\ hart'.mtvec = hart.mtvec
    BY <1>3, <1>4 DEF Handling
  <1>6. BoardShape'
    BY <1>4 DEF LedInv, BoardShape
  <1>7. gpio.OUT = {NextPos(p)} /\ pos = NextPos(p) /\ NextPos(p) \in LedPins
    BY <1>3, NextLed DEF Handling
  <1>8. Spinning'
    BY <1>1, <1>3, <1>5, <1>7 DEF Spinning, Handling, Ready
  <1>9. Lit = {NextPos(p)} /\ AtLed = NextPos(p)
    <2>1. 6 \in 1..6 /\ ~(6 <= 3)
      OBVIOUS
    <2> QED  BY <2>1, <1>3, <1>7, ChaseViewHolds DEF ChaseView
  <1>10. Lit' = {NextPos(p)} /\ AtLed' = NextPos(p)
    BY <1>1, <1>7, <1>8, ChaseViewNext DEF ChaseView
  <1> QED  BY <1>6, <1>8, <1>9, <1>10 DEF LedInv, ViewStep

\* main starts with every pin an input and OUT clear.
Fresh(h, g, p) ==
  h = HartReset(main) /\ g.DDR = {} /\ g.OUT = {} /\ p = 0

\* Power-on and reset put main at its first statement.
LEMMA FreshStarts ==
  Fresh(hart, gpio, pos) => BoardShape /\ Starting(1)
  <1> SUFFICES ASSUME Fresh(hart, gpio, pos)
               PROVE  BoardShape /\ Starting(1)
    OBVIOUS
  <1>1. hart = [main |-> Thread(Rest(1)), isr |-> Thread(<<>>), trapped |-> FALSE,
                MIE |-> FALSE, MPIE |-> FALSE, mie |-> {}, mtvec |-> "none", idle |-> 0,
                lost |-> FALSE, torn |-> FALSE]
    BY MainIs, MainRest DEF Fresh, HartReset
  <1>2. /\ hart.main.code = Rest(1) /\ hart.main.acc = <<>>
        /\ hart.trapped = FALSE /\ hart.MIE = FALSE
    BY <1>1 DEF Thread
  <1>3. BoardShape
    BY <1>1 DEF BoardShape, Thread
  <1> QED  BY <1>2, <1>3, Led0 DEF Fresh, Starting

\* ... in the next state too.
LEMMA FreshStartsNext ==
  Fresh(hart', gpio', pos') => (BoardShape /\ Starting(1))'
  <1>1. (Fresh(hart, gpio, pos) => BoardShape /\ Starting(1))'
    BY FreshStarts, PTL
  <1> QED  BY <1>1

\* A reset, from wherever the program is, a torn trap behind it or not.
LEMMA ResetStep ==
  ASSUME Reset
  PROVE  LedInv' /\ ViewStep
  <1>1. Fresh(hart', gpio', pos')
    BY DEF Reset, GpioReset, GpioPowerOn, Fresh
  <1>2. BoardShape' /\ Starting(1)'
    BY <1>1, FreshStartsNext
  <1>3. Lit' = {} /\ AtLed' = 0
    <2>1. 1 \in 1..16 /\ 1 <= 9
      OBVIOUS
    <2> QED  BY <1>1, <1>2, <2>1, ChaseViewNext DEF ChaseView, Fresh
  <1> QED  BY <1>2, <1>3 DEF LedInv, ViewStep

\* Until a trap is torn every step keeps the program where it may be, and is a
\* step of the chase or none.
LEMMA LedStep == LedInv /\ [Next]_vars => IsTorn(hart') \/ (LedInv' /\ ViewStep)
  <1> SUFFICES ASSUME LedInv, [Next]_vars PROVE IsTorn(hart') \/ (LedInv' /\ ViewStep)
    OBVIOUS
  <1>1. CASE Execute
    BY <1>1, StartStep, SpinningStep, HandlerStep DEF LedInv
  <1>2. CASE UNCHANGED vars
    <2>1. BoardShape'
      BY <1>2 DEF LedInv, BoardShape, vars
    <2> QED  BY <1>2, <2>1, StillStep DEF vars
  <1> QED  BY <1>1, <1>2, IdleStep, TrapStep, MretStep, ResetStep DEF Next, Clock

\* Behind a torn trap only a reset starts it again.
LEMMA TornStep == IsTorn(hart) /\ [Next]_vars => IsTorn(hart') \/ LedInv'
  <1> SUFFICES ASSUME IsTorn(hart), [Next]_vars PROVE IsTorn(hart') \/ LedInv'
    OBVIOUS
  <1>1. CASE Idle
    BY <1>1, TornStays DEF Idle
  <1>2. CASE Execute
    <2>1. \E word : hart' = Executed(hart, word)
      BY <1>2 DEF Execute
    <2> QED  BY <2>1, TornStays
  <1>3. CASE Trap
    BY <1>3, TornStays DEF Trap
  <1>4. CASE Mret
    BY <1>4, TornStays DEF Mret
  <1>5. CASE UNCHANGED vars
    BY <1>5 DEF vars, IsTorn
  <1> QED  BY <1>1, <1>2, <1>3, <1>4, <1>5, ResetStep DEF Next, Clock

\* It holds at power-on, with the chase in its initial state.
LEMMA LedInit == Init => LedInv /\ C!Init
  <1> SUFFICES ASSUME Init PROVE LedInv /\ C!Init
    OBVIOUS
  <1>1. Fresh(hart, gpio, pos)
    BY DEF Init, GpioPowerOn, Fresh
  <1>2. BoardShape /\ Starting(1)
    BY <1>1, FreshStarts
  <1>3. Lit = {} /\ AtLed = 0
    BY <1>1, <1>2, ChaseViewHolds DEF ChaseView, Fresh
  <1> QED  BY <1>2, <1>3 DEF LedInv, C!Init, AtLed

\* The inductive invariant of the demo, up to a trap that is torn.
THEOREM ChaseInvariant == Spec => []LedSound
  <1>1. Init => LedSound
    BY LedInit DEF LedSound
  <1>2. LedSound /\ [Next]_vars => LedSound'
    BY LedStep, TornStep DEF LedSound
  <1> QED  BY <1>1, <1>2, PTL DEF Spec

\* No interrupt is taken before tinymcu_trap_init has installed the handler
\* (led_blink/main.c, tinymcu_trap.c): it enables interrupts last, and no reset
\* leaves them enabled.
THEOREM InterruptsFindHandler == Spec => []VectorInstalled
  <1>1. LedSound => VectorInstalled
    BY DEF LedSound, IsTorn, LedInv, VectorInstalled, Interrupted,
           Starting, Spinning, Handling, Ready
  <1> QED  BY <1>1, ChaseInvariant, PTL

\* Handler and main are never both inside a read-modify-write of OUT: main has
\* done its last one when the interrupt can first be taken.
THEOREM OneWriter == Spec => []ExclusiveUpdate
  <1>1. LedSound => ExclusiveUpdate
    BY DEF LedSound, IsTorn, LedInv, ExclusiveUpdate, Starting, Spinning, Handling, Ready
  <1> QED  BY <1>1, ChaseInvariant, PTL

\* led_blink implements the LED chase, resets and lost traps included, until a
\* trap is torn: one LED at a time, each followed by its neighbour.
THEOREM DemoShowsChase == Spec => ShowsChase
  <1>1. LedSound /\ [Next]_vars => [C!Next \/ hart.torn \/ hart'.torn]_(C!chase)
    <2> SUFFICES ASSUME LedSound, [Next]_vars, ~hart.torn, ~hart'.torn
                 PROVE  [C!Next]_C!chase
      OBVIOUS
    <2>1. ViewStep
      BY LedStep DEF LedSound, IsTorn
    <2> QED  BY <2>1 DEF ViewStep, AtLed, C!Next, C!On, C!Off, C!Restart, C!chase
  <1>2. Init => C!Init
    BY LedInit
  <1> QED  BY <1>1, <1>2, ChaseInvariant, PTL DEF Spec, ShowsChase
====
