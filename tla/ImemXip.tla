------------------------------ MODULE ImemXip -------------------------------
(***************************************************************************)
(* tinymcu_imem_xip: the SPI clock both engines share, the write engine    *)
(* the driver talks to, and the fetch engine with its one-entry cache.     *)
(* Words, bytes, addresses and the shift register are sets of bit numbers. *)
(***************************************************************************)
EXTENDS TinymcuDrivers

CONSTANTS
  ByteBits,  \* 8 in the code
  AddrBytes, \* bytes of a flash address, 3 in the code
  WordBytes  \* bytes of a word, 4 in the code

ASSUME XipAssumption == /\ ByteBits \in Nat \ {0} /\ AddrBytes \in Nat \ {0}
                        /\ WordBytes \in Nat \ {0}

XIP_TOTAL_BITS  == ByteBits * (1 + AddrBytes + WordBytes)
XIP_OPCODE_READ == {0, 1}

XipReset ==
  [CONFIG |-> {}, RX_DATA |-> {},
   clk |-> [counter |-> 0, active |-> FALSE, bits |-> 0, sclk |-> FALSE,
            sample |-> FALSE, shift |-> FALSE],
   wr  |-> [state |-> "Disabled", bit |-> 0, lsb |-> FALSE, ss_n |-> TRUE,
            mosi |-> FALSE, start |-> FALSE, data |-> {}, sampled |-> FALSE],
   rd  |-> [state |-> "Disabled", bit |-> 0, ss_n |-> TRUE, start |-> FALSE,
            shift |-> {}, sampled |-> FALSE, addr |-> {}],
   last_valid |-> FALSE, last_addr |-> {}, last_data |-> {}]

cfg(x, bit) == TINYMCU_XIP_CONFIG[bit] \subseteq x.CONFIG
enable(x)   == cfg(x, "ENABLE")

\* The bits lo..lo+n-1 of a word, as a word of n bits; a byte mirrored.
Cut(w, lo, n) == {i \in 0..(n - 1) : lo + i \in w}
Put(w, lo)    == {lo + i : i \in w}
bit_reverse(b) == {i \in 0..(ByteBits - 1) : ByteBits - 1 - i \in b}
Ordered(x, b) == IF cfg(x, "LSB_FIRST") THEN bit_reverse(b) ELSE b

-----------------------------------------------------------------------------
\* SPI clock and edge generation, shared by both engines.
Leading(x) == x.clk.sclk = cfg(x, "CPOL")
Toggled(x) ==
  LET samples == Leading(x) # cfg(x, "CPHA")
      last    == x.clk.bits = 1
  IN [counter |-> 0, sclk |-> ~x.clk.sclk, sample |-> samples, shift |-> ~samples,
      active |-> samples \/ ~last,
      bits |-> IF samples \/ last THEN x.clk.bits ELSE x.clk.bits - 1]

\* Mutant: one bit too few.
Mut_Started(x, bits) == [counter |-> 0, active |-> TRUE, bits |-> bits - 1,
                         sclk |-> cfg(x, "CPOL"), sample |-> FALSE, shift |-> FALSE]
Started(x, bits) == [counter |-> 0, active |-> TRUE, bits |-> bits,
                     sclk |-> cfg(x, "CPOL"), sample |-> FALSE, shift |-> FALSE]

ClockGenerator(x) ==
  LET quiet == [x.clk EXCEPT !.sample = FALSE, !.shift = FALSE] IN
  CASE x.wr.start -> Started(x, ByteBits)
    [] x.rd.start /\ ~x.wr.start -> Started(x, XIP_TOTAL_BITS)
    [] OTHER ->
       IF ~x.clk.active THEN [quiet EXCEPT !.counter = 0, !.sclk = cfg(x, "CPOL")]
       ELSE IF x.clk.counter < Field(x.CONFIG, TINYMCU_XIP_CONFIG_CLKDIV_SHIFT, 8)
       THEN [quiet EXCEPT !.counter = @ + 1]
       ELSE Toggled(x)

-----------------------------------------------------------------------------
\* SPI write engine (ENABLE=0).
WriteStart(x, byte) ==
  [x.wr EXCEPT !.state = "Busy", !.start = TRUE, !.bit = 0,
     !.ss_n = ~cfg(x, "CS_ASSERT"), !.lsb = cfg(x, "LSB_FIRST"), !.data = byte,
     !.mosi = (IF cfg(x, "LSB_FIRST") THEN 0 ELSE ByteBits - 1) \in byte]

TakesByte(x, req) == /\ x.wr.state = "Idle" /\ ~enable(x) /\ cfg(x, "CS_ASSERT")
                     /\ Writes(req, "xip", "TX_DATA")

\* Mutant: the byte always moves towards bit 0.
Mut_WriteShift(w) ==
  LET moved == {i - 1 : i \in w.data \ {0}}
  IN [w EXCEPT !.data = moved,
        !.mosi  = (IF w.lsb THEN 0 ELSE ByteBits - 1) \in moved,
        !.state = IF w.bit = ByteBits - 1 THEN "Idle" ELSE "Busy",
        !.bit   = IF w.bit = ByteBits - 1 THEN @ ELSE @ + 1]
WriteShift(w) ==
  LET moved == IF w.lsb THEN {i - 1 : i \in w.data \ {0}}
               ELSE {i + 1 : i \in w.data \ {ByteBits - 1}}
  IN [w EXCEPT !.data = moved,
        !.mosi  = (IF w.lsb THEN 0 ELSE ByteBits - 1) \in moved,
        !.state = IF w.bit = ByteBits - 1 THEN "Idle" ELSE "Busy",
        !.bit   = IF w.bit = ByteBits - 1 THEN @ ELSE @ + 1]

WriteEngine(x, req, miso) ==
  LET w == [x.wr EXCEPT !.start = FALSE]
      held == [w EXCEPT !.ss_n = ~cfg(x, "CS_ASSERT")]
  IN CASE w.state = "Disabled" -> [w EXCEPT !.bit = 0, !.ss_n = TRUE,
                                     !.state = IF enable(x) THEN "Disabled" ELSE "Idle"]
       [] w.state = "Idle" -> IF enable(x) THEN [held EXCEPT !.state = "Disabled"]
                              ELSE IF TakesByte(x, req)
                              THEN WriteStart(x, Cut(req.data, 0, ByteBits))
                              ELSE held
       [] OTHER -> LET s == [held EXCEPT !.sampled = IF x.clk.sample THEN miso ELSE @]
                   IN  IF x.clk.shift THEN WriteShift(s) ELSE s

\* Mutant: a bit is taken from MISO one shift late.
Mut_Received(x) ==
  IF x.wr.state = "Busy" /\ x.clk.shift /\ x.wr.bit > 0
  THEN IF x.wr.sampled THEN x.RX_DATA \cup {x.wr.bit - 1} ELSE x.RX_DATA \ {x.wr.bit - 1}
  ELSE x.RX_DATA
\* The first bit that arrives goes to bit 0.
Received(x) ==
  IF x.wr.state = "Busy" /\ x.clk.shift
  THEN IF x.wr.sampled THEN x.RX_DATA \cup {x.wr.bit} ELSE x.RX_DATA \ {x.wr.bit}
  ELSE x.RX_DATA

-----------------------------------------------------------------------------
\* SPI fetch engine (ENABLE=1).
ReadCommand(x, addr) ==
  UNION {Put(Ordered(x, XIP_OPCODE_READ), XIP_TOTAL_BITS - ByteBits),
         UNION {Put(Ordered(x, Cut(addr, ByteBits * i, ByteBits)),
                    ByteBits * (WordBytes + i)) : i \in 0..(AddrBytes - 1)}}

\* Mutant: a cached word ends the search whatever its address is.
Mut_Misses(x, addr) == ~x.last_valid
Misses(x, addr) == ~x.last_valid \/ x.last_addr # addr

Shifted(x) == {i + 1 : i \in x.rd.shift \ {XIP_TOTAL_BITS - 1}}
              \cup (IF x.rd.sampled THEN {0} ELSE {})
LastBit(x) == x.rd.state = "Busy" /\ x.clk.shift /\ x.rd.bit = XIP_TOTAL_BITS - 1

FetchEngine(x, addr, miso) ==
  LET r == [x.rd EXCEPT !.start = FALSE] IN
  CASE r.state = "Disabled" -> [r EXCEPT !.ss_n = TRUE,
                                  !.state = IF enable(x) THEN "Idle" ELSE "Disabled"]
    [] r.state = "Idle" ->
         IF ~enable(x) THEN [r EXCEPT !.state = "Disabled"]
         ELSE IF Misses(x, addr)
         THEN [r EXCEPT !.state = "Busy", !.start = TRUE, !.ss_n = FALSE, !.bit = 0,
                        !.addr = addr, !.shift = ReadCommand(x, addr)]
         ELSE [r EXCEPT !.ss_n = TRUE]
    [] OTHER ->
         LET s == [r EXCEPT !.sampled = IF x.clk.sample THEN miso ELSE @] IN
         IF ~x.clk.shift THEN s
         ELSE IF LastBit(x) THEN [s EXCEPT !.shift = Shifted(x), !.ss_n = TRUE, !.state = "Idle"]
         ELSE [s EXCEPT !.shift = Shifted(x), !.bit = @ + 1]

\* The word of a finished read: its bytes in the order of their addresses.
\* Mutant: the last byte is the word's low byte.
Mut_ReadWord(x) ==
  UNION {Put(Ordered(x, Cut(Shifted(x), ByteBits * i, ByteBits)),
             ByteBits * i) : i \in 0..(WordBytes - 1)}
ReadWord(x) ==
  UNION {Put(Ordered(x, Cut(Shifted(x), ByteBits * (WordBytes - 1 - i), ByteBits)),
             ByteBits * i) : i \in 0..(WordBytes - 1)}

-----------------------------------------------------------------------------
\* One rising clock edge.
XipClock(x, req, addr, miso) ==
  [CONFIG |-> IF Writes(req, "xip", "CONFIG") THEN req.data ELSE x.CONFIG,
   RX_DATA |-> Received(x),
   clk |-> ClockGenerator(x),
   wr  |-> WriteEngine(x, req, miso),
   rd  |-> FetchEngine(x, addr, miso),
   last_valid |-> x.last_valid \/ LastBit(x),
   last_addr  |-> IF LastBit(x) THEN x.rd.addr ELSE x.last_addr,
   last_data  |-> IF LastBit(x) THEN ReadWord(x) ELSE x.last_data]

\* Mutant: only the write engine counts as busy.
Mut_XipRead(x, reg) ==
  CASE reg = "CONFIG"  -> x.CONFIG
    [] reg = "STATUS"  -> IF x.wr.state = "Busy" THEN TINYMCU_XIP_STATUS_BUSY ELSE {}
    [] reg = "RX_DATA" -> x.RX_DATA
    [] OTHER -> {}
XipRead(x, reg) ==
  CASE reg = "CONFIG"  -> x.CONFIG
    [] reg = "STATUS"  -> IF x.rd.state = "Busy" \/ x.wr.state = "Busy"
                          THEN TINYMCU_XIP_STATUS_BUSY ELSE {}
    [] reg = "RX_DATA" -> x.RX_DATA
    [] OTHER -> {}

\* The pins, and what the core sees of a fetch.
mosi(x) == IF enable(x) THEN XIP_TOTAL_BITS - 1 \in x.rd.shift ELSE x.wr.mosi
ss_n(x) == IF enable(x) THEN x.rd.ss_n ELSE x.wr.ss_n
fetch_ready(x, addr) == enable(x) /\ x.last_valid /\ x.last_addr = addr
=============================================================================
