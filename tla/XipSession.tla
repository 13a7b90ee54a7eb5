----------------------------- MODULE XipSession -----------------------------
(***************************************************************************)
(* The flash controller between the driver that programs the flash, the    *)
(* core that executes from it and the SPI flash itself.  The program       *)
(* writes words into the flash, switches the fetch engine on and, once it  *)
(* has run, may switch it off and write again.  The core's fetch address   *)
(* is what the PC makes of it: any address, changing at any clock.         *)
(***************************************************************************)
EXTENDS Hart, ImemXip

CONSTANTS
  Modes,     \* <<cpol, cpha, lsb_first, clkdiv>> given to tinymcu_xip_configure
  PCs,       \* fetch addresses of the core
  Rewrites,  \* bound: how often the flash is written again
  WaitBusy   \* does the program wait for the fetch engine before it writes

ASSUME SessionAssumption == Rewrites \in Nat /\ WaitBusy \in BOOLEAN

VARIABLES
  hart, xip,
  mode,     \* what the program has configured
  fetch,    \* fetch_addr_i
  flash,    \* the external device
  written,  \* what the program believes the flash to hold
  sent,     \* the byte tinymcu_xip_transfer_byte is about
  rewrites
vars == <<hart, xip, mode, fetch, flash, written, sent, rewrites>>

Byte  == SUBSET (0..(ByteBits - 1))
FlashAddr == SUBSET (0..(ByteBits * AddrBytes - 1))
Low(addr) == addr \cap (0..(ByteBits * AddrBytes - 1))
OPCODE_PROGRAM == {1}

-----------------------------------------------------------------------------
(***************************** the flash device ****************************)
\* A device in the controller's SPI mode and bit order.  It keeps the bytes
\* of the command it is receiving, and what it drives on MISO.
FlashIdle == [n |-> 0, partial |-> {}, bytes |-> <<>>, miso |-> FALSE]

\* The bit of a byte that is n-th on the wire.
OnWire(n) == IF mode[3] # 0 THEN n ELSE ByteBits - 1 - n

Sampled(d, bit) ==
  LET k    == d.n % ByteBits
      byte == IF bit THEN d.partial \cup {OnWire(k)} ELSE d.partial
  IN  IF k = ByteBits - 1
      THEN [d EXCEPT !.n = (@ + 1) % ByteBits, !.partial = {}, !.bytes = Append(@, byte)]
      ELSE [d EXCEPT !.n = @ + 1, !.partial = byte]

\* An address as the header of a command carries it, and that address + k.
HeaderAddr(bytes) == UNION {Put(bytes[2 + i], ByteBits * (AddrBytes - 1 - i)) :
                              i \in 0..(AddrBytes - 1)}
Plus(addr, k) == LET bits == ByteBits * AddrBytes
                 IN  ToField((Field(addr, 0, bits) + k) % 2^bits, 0, bits)

\* What the device answers: the memory behind a read header; to any other
\* command the complement of the byte before.
Answer(d, mem) ==
  LET k == Len(d.bytes) IN
  IF k > AddrBytes /\ d.bytes[1] = XIP_OPCODE_READ
  THEN mem[Plus(HeaderAddr(d.bytes), k - 1 - AddrBytes)]
  ELSE IF k = 0 THEN {} ELSE (0..(ByteBits - 1)) \ d.bytes[k]

\* The level of the pins after a clock, as the device sees it.
FlashSees(f, x) ==
  LET d == f.bus
      edge    == x.clk.sclk # f.sclk
      samples == (f.sclk = (mode[1] # 0)) # (mode[2] # 0)
      after   == IF ss_n(x) THEN FlashIdle
                 ELSE IF ~edge THEN d
                 ELSE IF samples THEN Sampled(d, mosi(x))
                 ELSE [d EXCEPT !.miso = OnWire(d.n) \in Answer(d, f.mem)]
      \* A program command takes effect when the device is released.
      programs == ss_n(x) /\ Len(d.bytes) = 1 + AddrBytes + WordBytes
                  /\ d.bytes[1] = OPCODE_PROGRAM
      base == HeaderAddr(d.bytes)
      Hit(a) == {i \in 0..(WordBytes - 1) : Plus(base, i) = a}
  IN [sclk |-> x.clk.sclk, bus |-> after,
      mem |-> IF programs
              THEN [a \in FlashAddr |-> IF Hit(a) = {} THEN f.mem[a]
                      ELSE d.bytes[2 + AddrBytes + CHOOSE i \in Hit(a) : TRUE]]
              ELSE f.mem]

FlashWord(mem, addr) ==
  UNION {Put(mem[Plus(Low(addr), i)], ByteBits * i) : i \in 0..(WordBytes - 1)}

-----------------------------------------------------------------------------
(********************************* the program *****************************)
Transfers(bytes) == ForEach(bytes, tinymcu_xip_transfer_byte)

AddrByte(addr, i) == Cut(addr, ByteBits * (AddrBytes - 1 - i), ByteBits)
WriteCommand(addr, word) ==
  <<OPCODE_PROGRAM>> \o [i \in 1..AddrBytes |-> AddrByte(addr, i - 1)]
  \o [i \in 1..WordBytes |-> Cut(word, ByteBits * (i - 1), ByteBits)]

session(addr, word) == tinymcu_xip_cs_assert \o Transfers(WriteCommand(addr, word))
                       \o tinymcu_xip_cs_release
boot(m, addr, word) ==
  tinymcu_xip_configure(m[1], m[2], m[3], m[4]) \o session(addr, word)
  \o tinymcu_xip_fetch_enable \o <<Local("running")>>
again(addr, word) ==
  tinymcu_xip_fetch_disable
  \o (IF WaitBusy THEN tinymcu_xip_while_busy ELSE <<>>)
  \o session(addr, word) \o tinymcu_xip_fetch_enable \o <<Local("running")>>

\* The words the program writes.
Addr0 == {}
Word1 == {0} \cup {ByteBits * WordBytes - 1}
Word2 == {1} \cup {ByteBits * WordBytes - 1}

-----------------------------------------------------------------------------
Pins(req) ==
  /\ xip' = XipClock(xip, req, fetch, flash.bus.miso)
  /\ flash' = FlashSees(flash, xip')
  /\ fetch' \in PCs
  /\ sent' = IF Writes(req, "xip", "TX_DATA") THEN req.data ELSE sent

EmptyFlash == [a \in FlashAddr |-> {}]
Init ==
  /\ mode \in Modes
  /\ hart = HartReset(boot(mode, Addr0, Word1)) /\ xip = XipReset /\ fetch \in PCs
  /\ flash = [sclk |-> FALSE, bus |-> FlashIdle, mem |-> EmptyFlash]
  /\ written = Word1 /\ sent = {} /\ rewrites = 0

\* The program runs; behind its last statement it executes from wherever
\* the fetch address points.
Execute ==
  LET req == Request(hart.main) IN
  /\ ~Done(hart.main)
  /\ hart' = Executed(hart, IF req.dev = "xip" THEN XipRead(xip, req.reg) ELSE {})
  /\ Pins(req) /\ UNCHANGED <<mode, written, rewrites>>

Run == Done(hart.main) /\ Pins(NoReq) /\ UNCHANGED <<hart, mode, written, rewrites>>

Rewrite ==
  /\ Done(hart.main) /\ rewrites < Rewrites /\ rewrites' = rewrites + 1
  /\ hart' = [hart EXCEPT !.main = Call(@, again(Addr0, Word2))] /\ written' = Word2
  /\ Pins(NoReq) /\ UNCHANGED mode

Clock == Execute \/ Run \/ Rewrite
Spec == Init /\ [][Clock]_vars
\* The oscillator runs.
FairSpec == Spec /\ WF_vars(Clock)
\* The same for a core whose address may stay where it is, which nothing
\* in FairSpec allows for ever.
WaitSpec == Spec /\ WF_vars(Clock /\ UNCHANGED fetch)

-----------------------------------------------------------------------------
\* A word is ready for the core only if it is what the flash holds at the
\* address being fetched, whenever the address changes.
AlwaysFresh == fetch_ready(xip, fetch) => xip.last_data = FlashWord(flash.mem, fetch)
\* The same until the program writes the flash again: the one-entry cache
\* of the fetch engine is not told.
FetchedIsFlash == rewrites = 0 => AlwaysFresh

\* When transfer_byte has seen the controller idle, the device has the byte:
\* every bit once, in order.
AtReturn == At(hart.main, Get("xip", "RX_DATA", Word32))
ByteArrives == AtReturn => /\ flash.bus.n = 0 /\ flash.bus.bytes # <<>>
                           /\ flash.bus.bytes[Len(flash.bus.bytes)] = sent

\* What the device has sent during the transfer: its answer to the byte
\* before.
Returned == LET b == flash.bus.bytes IN
            IF Len(b) < 2 THEN {} ELSE (0..(ByteBits - 1)) \ b[Len(b) - 1]
\* transfer_byte returns that byte ("the byte read from MISO").
ReturnsMiso == AtReturn => xip.RX_DATA = Returned
\* It does when bytes go least significant bit first, in every SPI mode the
\* device supports and after every earlier transfer or fetch.
ReturnsAnswer == mode[3] # 0 => ReturnsMiso

\* When the program runs the flash holds what it has written.
Programmed == At(hart.main, Local("running")) => FlashWord(flash.mem, Addr0) = written

\* Every call of the driver returns.
SessionEnds == <>[]Done(hart.main)

\* A core that waits for an address gets its word.
FetchServed == \A a \in PCs : <>[](fetch = a /\ Done(hart.main)) => <>[]fetch_ready(xip, a)
=============================================================================
