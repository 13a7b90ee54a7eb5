------------------------------ MODULE UartPair ------------------------------
(***************************************************************************)
(* Two microcontrollers on one serial line, each with its UART, its driver *)
(* and a program; they share the clock frequency.  "a" runs the program    *)
(* that starts the traffic, "b" the one that answers.  The programs of sw/ *)
(* are uart_echo, basic_uart and printf_demo; the others are what stands   *)
(* at the far end of the cable.                                            *)
(***************************************************************************)
EXTENDS Hart, PeriphTimer, PeriphUart

CONSTANTS
  Links,             \* what may be connected: the program of each node,
                     \* clks per bit (1667 in the code), framing
                     \* <<databits, stopbits, parity>>, flow control bits,
                     \* the alphabet a terminal sends and, a bound, the
                     \* idle clocks between two accesses of a program
  CLKSEL,            \* DIV1024 in the code
  CLK_TICKS_PER_SECOND, \* 15625 in the code
  Hello,             \* the characters of the message
  MaxFlight          \* bound: bytes sent and not read that are remembered

Node  == {"a", "b"}
Other == [a |-> "b", b |-> "a"]

ASSUME PairAssumption ==
  /\ \A l \in Links :
       /\ l.a \in {"ping", "stream", "hello", "printf"}
       /\ l.b \in {"echo", "reader", "interrupt", "polled"}
       /\ l.clks \in Nat /\ l.idle \in Nat
       /\ l.framing[1] \in {TINYMCU_UART_DATABITS[d] : d \in {"b7", "b8", "b9"}}
       /\ l.framing[2] \in {TINYMCU_UART_STOPBITS[s] : s \in {"s1", "s2"}}
       /\ l.framing[3] \in {TINYMCU_UART_PARITY[p] : p \in {"none", "even", "odd"}}
       /\ l.flow \subseteq {UART_BIT_RTS_ENABLE, UART_BIT_CTS_ENABLE}
  /\ Hello \in Seq(SUBSET Nat) /\ Hello # <<>> /\ MaxFlight \in Nat \ {0}

VARIABLES
  link,        \* the one of Links that is connected
  hart, uart,  \* of each node
  timer,       \* of node a
  count,       \* printf_demo's counter
  flight       \* bytes given to each node's TX_DATA that the other has not
               \* read, if it reads at all
vars == <<link, hart, uart, timer, count, flight>>

Programs     == link
CLKS_PER_BIT == link.clks
framing      == link.framing
MaxIdle      == link.idle
\* putc takes a char: of a nine-bit frame the last bit is always zero.
Bytes(f) == {c \in link.alphabet : /\ c \subseteq 0..(databits_reg(f[1]) - 1)
                                   /\ c \subseteq 0..(DataBits - 1)}
Listens(n) == Programs[n] \notin {"stream", "hello", "printf"}

-----------------------------------------------------------------------------
(********************************** programs *******************************)
init(f) == tinymcu_uart_init(CLKS_PER_BIT, f[1], f[2], f[3] \cup link.flow)

\* uart_echo: read a byte, send it back.
echo_main(f) == init(f) \o tinymcu_uart_getc \o <<Local("echo")>>
echo_loop(c) == tinymcu_uart_putc(c) \o tinymcu_uart_getc \o <<Local("echo")>>

\* basic_uart and printf_demo: a message whenever the timer has counted a second.
timer_start == tinymcu_timer_reset \o tinymcu_timer_set_clksel(CLKSEL)
hello_main(f) == init(f) \o timer_start \o <<Local("loop")>>
hello_loop == tinymcu_timer_read_less(CLK_TICKS_PER_SECOND) \o tinymcu_timer_reset
              \o tinymcu_uart_puts(Hello) \o <<Local("loop")>>

\* printf("tick %u"): the text and the count, a digit standing for a number.
digit(n) == ToField(n % 2^DataBits, 0, DataBits)
printf(n) == stdout(Hello[1]) \o stdout(digit(n))
printf_loop(n) == tinymcu_timer_read_less(CLK_TICKS_PER_SECOND) \o tinymcu_timer_reset
                  \o printf(n) \o <<Local("count"), Local("loop")>>

\* Far ends: a terminal that sends and waits for the echo, one that sends
\* without end, one that only listens, one that listens by interrupt, one
\* that polls the flag.
ping_loop(c) == tinymcu_uart_putc(c) \o tinymcu_uart_getc
                \o tinymcu_uart_rx_parity_error \o <<Local("checked")>>
stream_loop(c) == tinymcu_uart_putc(c) \o <<Local("next")>>
read_loop == tinymcu_uart_getc \o <<Local("read")>>
interrupt_main(f) == init(f) \o tinymcu_uart_irq_enable
                     \o tinymcu_csr_set_mie(TINYMCU_MIE.MEIE) \o tinymcu_trap_init \o <<Spin>>
\* Mutant: the flag is cleared before the byte is read.
Mut_interrupt_handler == tinymcu_uart_irq_clear \o tinymcu_uart_getc
interrupt_handler == tinymcu_uart_getc \o tinymcu_uart_irq_clear

poll     == tinymcu_uart_irq_pending \o <<Local("poll")>>
poll_end == tinymcu_uart_irq_enable \o poll
polled_main(f) == init(f) \o tinymcu_uart_irq_enable \o poll
poll_hit == tinymcu_uart_irq_disable \o tinymcu_uart_rx_ready \o <<Local("test")>>
poll_read == tinymcu_uart_getc \o tinymcu_uart_irq_clear \o poll_end

Start(n, f) ==
  CASE Programs[n] \in {"ping", "stream"} -> init(f) \o <<Local("next")>>
    [] Programs[n] \in {"hello", "printf"} -> hello_main(f)
    [] Programs[n] = "echo" -> echo_main(f)
    [] Programs[n] = "reader" -> init(f) \o read_loop
    [] Programs[n] = "polled" -> polled_main(f)
    [] OTHER -> interrupt_main(f)

\* What main does behind its last statement, one continuation for each byte
\* a terminal may choose to send.
Continuations(n, ret) ==
  CASE Programs[n] = "ping"   -> {ping_loop(c) : c \in Bytes(framing)}
    [] Programs[n] = "stream" -> {stream_loop(c) : c \in Bytes(framing)}
    [] Programs[n] = "hello"  -> {hello_loop}
    [] Programs[n] = "printf" -> {printf_loop(count)}
    [] Programs[n] = "echo"   -> {echo_loop(ret)}
    [] Programs[n] = "polled" ->
         {IF At(hart[n].main, Local("poll")) THEN IF ret # {} THEN poll_hit ELSE poll
          ELSE IF ret # {} THEN poll_read ELSE poll_end}
    [] OTHER -> {read_loop}
Continued(n, h) ==
  IF h.trapped \/ ~Done(h.main) THEN {h}
  ELSE {[h EXCEPT !.main = Call(h.main, code)] : code \in Continuations(n, h.main.ret)}

-----------------------------------------------------------------------------
mip(n) == IF UartIrq(uart[n]) THEN TINYMCU_MIE.MEIE ELSE {}
Reading(n, req) == CASE req.dev = "uart"  -> UartRead(uart[n], req.reg)
                     [] req.dev = "timer" -> TimerRead(timer, req.reg)
                     [] OTHER -> {}

\* "a" is switched on when "b" has set its baud rate: until then a falling
\* line makes a receiver with BAUDRATE = 0 invent bytes.
Awake(n) == n = "b" \/ uart["b"].BAUDRATE # 0

\* What a node may do in one clock: its processor afterwards and the access
\* its peripherals see.
Moves(n) ==
  LET h == hart[n]
      quiet(hs) == {<<g, NoReq>> : g \in hs}
      req == HartReq(h, mip(n))
  IN  UNION {
        IF h.idle < MaxIdle THEN quiet({[h EXCEPT !.idle = @ + 1]}) ELSE {},
        IF ~Awake(n) \/ Astray(h) THEN quiet({h}) ELSE {},
        IF Awake(n) /\ CanExecute(h, mip(n))
        THEN {<<g, req>> : g \in Continued(n, Executed(h, Reading(n, req)))} ELSE {},
        IF Interrupted(h, mip(n)) THEN quiet(TrapOutcomes(h, interrupt_handler)) ELSE {},
        quiet({g \in {Mretted(h)} : h.trapped /\ Done(h.isr)})}

\* The cable delivers what is read, in order.
Sent(n, req) ==
  IF Writes(req, "uart", "TX_DATA") /\ Listens(Other[n]) /\ Len(flight[n]) < MaxFlight
  THEN Append(flight[n], req.data) ELSE flight[n]
Flies(n, req, peer) ==
  IF Reads(peer, "uart", "RX_DATA") /\ flight[n] # <<>> THEN Tail(Sent(n, req)) ELSE Sent(n, req)

Init ==
  /\ link \in Links
  /\ hart = [n \in Node |-> HartReset(Start(n, framing))]
  /\ uart = [n \in Node |-> UartReset]
  /\ timer = TimerPowerOn /\ count = 0 /\ flight = [n \in Node |-> <<>>]

Clock ==
  /\ \E a \in Moves("a"), b \in Moves("b") :
       LET req == [a |-> a[2], b |-> b[2]] IN
       /\ hart' = [a |-> a[1], b |-> b[1]]
       /\ uart' = [n \in Node |-> UartClock(uart[n], req[n], uart[Other[n]].tx_o,
                                            Rts(uart[Other[n]]))]
       /\ timer' = TimerClock(timer, req.a)
       /\ flight' = [n \in Node |-> Flies(n, req[n], req[Other[n]])]
       /\ count' = IF At(hart.a.main, Local("count")) /\ a[1].main.code # hart.a.main.code
                   THEN (count + 1) % 2^DataBits ELSE count
  /\ UNCHANGED link

Spec == Init /\ [][Clock]_vars
\* The oscillator runs.
FairSpec == Spec /\ WF_vars(Clock)

-----------------------------------------------------------------------------
About(n, stmt) == At(Running(hart[n]), stmt) /\ ~Interrupted(hart[n], mip(n))

\* What is said of a link is said while no trap of either program was torn.
Intact == \A n \in Node : ~hart[n].torn

\* putc never writes TX_DATA while the engine would drop the byte.
PutcAccepted ==
  \A n \in Node : Intact /\ Request(Running(hart[n])).we /\ Request(Running(hart[n])).reg = "TX_DATA"
                  => /\ uart[n].tx.state = "Idle"
                     /\ UART_BIT_CTS_ENABLE \in uart[n].CONFIG => Rts(uart[Other[n]])

\* What getc is about to return is the oldest byte the other side sent and
\* this side has not read: none lost, none twice, none garbled, none early.
GetsNext ==
  \A n \in Node : Intact /\ About(n, tinymcu_uart_getc[2])
    => /\ uart[n].rx_ready
       /\ flight[Other[n]] # <<>> /\ uart[n].RX_DATA = Head(flight[Other[n]])

\* Two nodes with the same framing never report a parity error.
NoFalseParityError ==
  \A n \in Node : Intact => TINYMCU_UART_STATUS_PARITY_ERROR \cap UartStatus(uart[n]) = {}

\* The handler runs only for a byte that is there, so its getc never waits.
NoSpuriousIrq ==
  Intact /\ hart.b.trapped /\ At(hart.b.isr, tinymcu_uart_getc[1]) => uart.b.rx_ready

\* Traffic never dries up: whoever listens reads a byte again and again.  A
\* trap that is lost is the last one of the listener by interrupt, for its
\* main does not enable interrupts again.
KeepsTalking ==
  <>[]Intact /\ (\A n \in Node : []<>~hart[n].lost) =>
    \A n \in Node : Listens(n) => []<>At(Running(hart[n]), tinymcu_uart_getc[2])
=============================================================================
