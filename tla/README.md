# TinyMCU in TLA+

TinyMCU is a 32-bit RISC-V microcontroller in VHDL: a three-stage pipeline
(fetch, fetched, execute) with multi-cycle multiply and divide, machine-mode
interrupts, a single-master bus with RAM, RAM disk, boot ROM and four
peripherals, an SPI flash it can execute from (XIP), and a C library with
startup code, trap stub, drivers and demo programs. This directory models it
as TLA+, checks small instances with TLC and proves theorems with TLAPS.

## Inventory

| component | state | operations | what makes it correct |
|---|---|---|---|
| pipeline `rtl/core/tinymcu_cpu.vhd` | `pc_reg`, `pc_if`, `pc_ex`, `instr_ex`, `redirect_d1`, `ex_stall_d1`, `dispatched` | hold, resume with a rewind, squash, advance, reset | it is the sequential machine of the ISA, whatever stalls and redirects it |
| decoder `tinymcu_cpu_control.vhd` | none | class and operands of an instruction | one class per word |
| ALU `tinymcu_cpu_alu.vhd` | none | 40 combinational operations | arithmetic, not modelled |
| register file `tinymcu_cpu_regfile.vhd` | 32 words | one gated write | each instruction writes once |
| multiplier, divider `tinymcu_cpu_{mult,div}.vhd` | state, start flag, step counter, operands, `valid_o` | start edge, step, finish | the result is there when EX lets go of the instruction |
| CSR file `tinymcu_cpu_csrfile.vhd` | mstatus, mie, mtvec, mscratch, mepc, mcause, mtval, mip | trap, MRET, CSR write, in this order | a trap saves where the program was and disables interrupts |
| instruction memory `tinymcu_imem*.vhd` | registered ports, acknowledge | fetch arbitration, data reads | EX gets the word memory holds at its address |
| SRAM, RAM disk `tinymcu_sram*.vhd` | words, registered ports, acknowledge | lane writes, reads | read and write hit the word the acknowledge speaks of |
| address decoders `tinymcu_addr_decoder.vhd`, `tinymcu_periph.vhd` | none | strobe one target, mask the others' answers | one answer per access |
| XIP controller `tinymcu_imem_xip.vhd` | fetch engine, write engine, SPI clock, one-entry cache, CONFIG | fetch a word by SPI, send a byte by SPI | the cached word is the flash's word of that address |
| timer `tinymcu_periph_timer.vhd` | prescaler, counter, compare, match edge, flag | register access, tick, match | each match is flagged once, a cleared flag stays cleared |
| GPIO `tinymcu_periph_gpio.vhd` | direction, output, pulls, debounce counters, last level, flags | register access, filter, edge detection | no change of an input is lost that software is told of |
| UART `tinymcu_periph_uart.vhd` | transmit and receive engine, status, flag | register access, send, receive | each byte arrives once, in order, unchanged |
| trap stub `sw/lib/core/trap/tinymcu_trap.S` | sixteen stack slots | save, call, restore | the interrupted program notices nothing |
| drivers `sw/lib/**` | none but `pos` and the like in programs | read, write, read-modify-write, spin on registers | atomicity against interrupts, hardware and each other |
| startup `sw/crt0.s`, `sw/linker.ld` | section bounds | zero `.bss`, copy `.data` | main finds its statics as C promises |
| demos `sw/*/main.c` | position of the LED, counters | led_blink, basic_c, basic_uart, uart_echo, printf_demo | they do what their comments say, for ever |

They interact through wires only. The pipeline is the one bus master; it
drives a strobe with address, data and byte lanes while a load or store is in
EX and waits for the acknowledge. RAM, RAM disk and ROM acknowledge one clock
later, peripherals at once. Fetching uses second ports of the same memories
and never arbitrates with data accesses; the flash is fetched through the XIP
controller, which stalls the whole pipeline until its cache holds the word.
Timer, GPIO, UART and an external pin raise level-sensitive interrupt lines
that the pipeline samples in EX. Software meets all of this as volatile
registers: a driver function is a short sequence of bus accesses, and an
interrupt may be taken between any two of them. Main, handler and hardware
share registers such as OUT and INT_STATUS without any lock but `mstatus.MIE`.

What is hard here: every fetch is two instructions ahead of EX, so branches,
traps and stalls have to cancel or repeat the right fetches; five kinds of
stall can overlap with each other, with an interrupt and with a reset; the
acknowledge and the units' results are registered and easily outlive what
they belong to; the devices change their flags in the same clock in which
software writes them; read-modify-write on shared registers races with the
hardware and with handlers; two SPI engines share one clock generator; and a
reset leaves RAM, the timer's INT_CONFIG and the counters' relation as they
happen to be.

## Modules

Processor:

| module | what it is |
|---|---|
| `TinyMachine` | constants (word, decoder, data path, memory map, CSR fields), their assumptions, and the CSR and ROM operators both machines use |
| `TinyISA` | abstract specification: one instruction, one precise trap, one reset or one wait per step |
| `TinyISAImprecise` | the same with the traps the pipeline really takes |
| `TinyCpu` | the pipeline with the units around it, one step per clock edge |
| `TinyCpuProps` | type invariant, inductive invariant, refinement mapping, fairness, promises of the documentation |
| `TinyCpuProofs` | the proofs: types, the inductive invariant, the refinement |
| `MCIsa` | an 18-word instance and the programs the runs execute |

Peripherals and software:

| module | what it is |
|---|---|
| `Mmio` | a C statement on a volatile register as one or two bus accesses; threads of such statements |
| `TinymcuDrivers` | every function of `sw/lib` and every bit of its headers, as statements of `Mmio` |
| `Hart` | the processor as software meets it: main, handler, MIE, MPIE, mie, mtvec, and what may become of a trap |
| `PeriphTimer`, `PeriphGpio`, `PeriphUart`, `ImemXip` | each peripheral: one operator per clocked process, and `...Clock`, one edge of all of them |
| `Chase`, `LedBlink`, `LedBlinkProofs` | what the LED demo promises, the demo on `Hart`, timer and GPIO, and the proof that it implements it |
| `GpioIsr`, `GpioIsrProofs` | inputs watched by interrupt, by polling and through the filter; the proofs that main and handler keep to their pins, that the filter filters and that no change is missed |
| `UartPair`, `UartPairProofs` | two boards on one serial line; the proofs that the handler finds its byte, that the transmitter takes every byte, that parity never fails and that `uart_echo` returns every byte |
| `Dispatch`, `DispatchProofs` | two interrupt sources through one vector; the default handler; the proof about the trap CSRs read outside the handler |
| `ImemXip`, `XipSession` | the flash controller between driver, core and flash device |
| `MemoryMap`, `StartUp`, `StartUpProofs` | both decoders and the headers' register blocks; from reset to main over that bus; the proofs of both |
| `TrapStub`, `TrapStubProofs` | `trap_entry` instruction by instruction, and its proof |
| `MC...` | the instances |

**How `TinyCpu` corresponds to the code.** Each VARIABLE is a register of the
design under its own name (`csr`, `mult`, `div`, `xip` are records of one
entity's registers). A combinational signal is an operator with its VHDL name
(`stall`, `redirect_target`, `cpu_ack`). A clocked process is an operator that
says what its registers are after the edge; `Tick` is their conjunction and
the PC process is split by what the edge does: `Hold` (stall), `Resume`
(resume_flush), `Squash` (redirect or redirect_d1) and `Advance`. `Reset` is
an edge with `rst_i` high and may come at any time; what has no reset in the
code (register file, memories, fetch ports, the ROM's acknowledge, the
divider's `valid_o`) keeps changing there. `Init` is the state after the
power-on reset.

**Abstractions.** Words are uninterpreted: `Alu`, `MulResult`, `LoadData`,
`Merge` and so on are operator constants, with assumptions that give their
ranges, that writing the same byte lanes twice is writing them once, and that
no word is its own successor (`Plus4(w) # w`). The
decoder is the function `Class` from words to ten classes. The peripherals
are an abstract state `dev` that accesses change (`DevAfterRead`,
`DevAfterWrite`) and that may change by itself on every edge (`DevMoves`).
`Bubble` stands for the `NOP_INSTR` a squash writes; a NOP of the program is
an ordinary word. A data port is tracked while its memory is strobed: the ROM's
follows the address also in other cycles, which nobody reads. The XIP fetch
engine keeps its three states and its cache; the number of cycles a read takes is open, which
covers every SPI clock divider. The words ROM is padded with are NOPs in the
code; `RomSeam` calls them `Zero`, which does as little.

**The refinement mapping.** The programmer's registers, memory, CSRs and
devices are those of the pipeline. The program counter, `ArchPC`, is that of
the instruction in EX if there is one, otherwise of the instruction that will
reach EX next: `pc_reg` right behind a redirect, `pc_if` behind the second
bubble. A store to RAM writes on its first edge and is acknowledged on a
later one, so from then on the program is behind it (`StoreDone`).

**How the peripherals and the software correspond.** A register word is the
set of the bit numbers that are one; counter, compare and baud rate are
numbers. A peripheral is a record of its entity's registers. `TimerClock`,
`GpioClock`, `UartClock` and `XipClock` map that record, the access of this
clock (`req`, or `NoReq`) and the pins to the record after the edge, so that
what happens in the clock of a write and what wins there is the code's. A
driver function is a sequence of statements under the function's name:
`REG |= m` is a load and a store with the loaded word in the thread's `acc`,
`while (REG & m)` a load that repeats. Peripherals answer in the same clock,
so an access is one edge; `Idle` steps stand for the instructions between two
accesses, up to a bound. `Hart` is what `TinyCpu` looks like from here: a trap
between two accesses, with the trap bookkeeping of the CSR file. In
`MemoryMap` a driver's access carries the register its statement names next to
the address its header's struct gives; the hardware's side is computed from the
address alone.

**What may become of a trap.** `TinyISAImprecise` has the traps of the
pipeline, `Hart` what a program meets of them (`TrapOutcomes`); which of the
three it is, is open in every clock.

- *Precise* (`Trapped`): EX holds an instruction that may run twice, or a
  bubble that stands for the next instruction. The handler is entered, and MRET
  leads back.
- *Lost* (`Lost`): the trap falls on the end of an EX stall. mepc and mcause are
  written and MIE is cleared, but the rewind wins over the redirect
  (`tinymcu_cpu.vhd:363`), so the handler is not entered and the program goes on
  with interrupts off. `lost` stays up until a trap enters the handler. It needs
  a stall, so at least one clock without an access (`idle > 0`). This is part
  of every system and of every safety property.
- *Torn* (`Torn`): mepc names a squashed fetch (`tinymcu_cpu.vhd:598`, 616), or
  the instruction in EX completes and MRET makes it run again although that
  makes a difference: a store to a register that counts or clears, an
  instruction that changes its own operand. The handler is entered; what runs
  behind its MRET is an arbitrary place of the memory, or main with one
  statement doubled. Nothing can be said of a program from there on, so `Hart`
  drops main (`Astray`) and keeps the handler, and `torn` stays up until a reset.

The properties of the systems are therefore about the time before a trap is
torn (`~hart.torn`, `Intact`), lost ones included. This is not what one would
want of the program: it is as much as this processor allows. The stray and the
repeated trap themselves are counterexamples of `TrapReturn` and `TrapEdge`.
Liveness needs more. An event whose trap is lost is served when main enables
interrupts again, if it ever does, and if that trap is not lost as well. So
`KeepsWalking`, `EventuallySeen`, `KeepsTalking` and `Served` have two
hypotheses: no trap is torn from some point on, and the last trap was again and
again not a lost one (`[]<>~hart.lost`). The program of `Dispatch` and the one
with a critical section in `GpioIsr` enable interrupts again and again, and a
single lost trap is in reach of `Served` and `EventuallySeen`. `led_blink` and
the interrupt-driven receiver enable them once: a lost trap is their last, and
the chase stands still (`LedReset`, see Findings).

Some programs are not in the repository: the far end of a serial line, the
SPI flash device, the program that writes it, an application with two
interrupt sources. They use the drivers as the headers describe and are
marked external in the map. Which program runs, with which framing, mode or
handler, is chosen in `Init` (`program`, `link`, `mode`, `layout`), so that one
run checks one question for all of them.

## Runs

Words are 0..17 and serve as addresses, instructions and data; there is one
register of two bits, so that every data value that makes a difference
(taken or not, zero divisor or not, odd or even) occurs. ROM has four to six
words, RAM one or two, the RAM disk one, the flash four. A program for the
flash begins as the code asks it to: ROM stores ENABLE to CONFIG, then jumps,
after every reset too, for a reset clears CONFIG. The instruction set has
each class at least once, with loads from ROM, RAM and a peripheral, stores to
scratch RAM, to the next code word and to a peripheral. Multiplication and
division take two steps: one is not enough to see an early end, more only
adds waiting. Programs have two or three free words; the pipeline holds at
most three instructions, so every overlap of neighbours is reached, and the
images are such that the program also runs on into RAM and back to 0.

| run | checks | shows |
|---|---|---|
| `Sequential` | `TypeOK`, `PipeInv`, `ImplementsISA` | without interrupts, the pipeline implements the sequential machine, self-modifying code and resets included |
| `Interrupts` | `ImplementsImpreciseISA`, `InterruptTaken` | with two free lines it implements the machine with imprecise traps; while a line stays pending and the program keeps enabling interrupts the pipeline is redirected to the vector again and again, unless lost traps never stop (without resets) |
| `Flash` | `ExecutesFetched`, `NoStaleAck`, `ImplementsISA`, `EveryStallEnds`, `KeepsExecuting` | from the flash too, resets included, as long as no multiply, divide, CSR or peripheral instruction executes there; nothing waits for ever in a program that enables fetching before it jumps |
| `LedBlink` | `VectorInstalled`, `ExclusiveUpdate`, `ShowsChase`, `KeepsWalking`, `Paced` | the demo implements the chase whatever clock the interrupt comes in, also after a reset, and at the timer's pace before one; it goes on while no trap is lost for good |
| `GpioIsr` | `SeenCurrent`, `OnlyOwnPin`, `HeldLongEnough`, `EventuallySeen` | no change is missed, no driver touches another's pin, the filter filters |
| `UartPair` | `GetsNext`, `PutcAccepted`, `NoFalseParityError`, `NoSpuriousIrq`, `KeepsTalking` | bytes arrive once, in order, unchanged, and for ever unless the traps of the listener by interrupt are lost |
| `XipSession` | `FetchedIsFlash`, `ByteArrives`, `Programmed`, `ReturnsAnswer`, `SessionEnds`, `FetchServed` | writing, executing and writing again work in both polarities and bit orders |
| `TrapStub` | `Transparent`, `ArgumentsRight` | the stub gives everything back |
| `Dispatch` | `LoggedPair`, `ServedOnce`, `Served`, `WeakHandler` | each event is served once, by the right branch, in the end, over lost traps; a program without a handler stands still once it has entered the default one |
| `StartUp` | `StaticsReady`, `DriversReach`, `AnsweredOnce`, `Completes` | statics are ready, every driver access lands where it is meant to, every address is answered by exactly one party |
| `TrapReturn` | `MepcIsNextInstruction` | refuted, see Findings |
| `GpioClearOne` | `FlagsKept` | refuted, see Findings |

**Bounds of the peripheral runs.** They are small because the code compares
for equality, detects edges and counts, and each of these needs a few values
only.

- `LedBlink`: a period of three ticks of a counter of sixteen values, behind a
  prescaler of two bits, so that ticks fall inside and outside the handler and
  the counter is reset some ticks behind the match. One reset, at any clock;
  at most two idle clocks between two accesses.
- `GpioIsr`: two inputs and two outputs; levels change at every clock, an
  unconnected pin floats. The threshold of two clocks has a bounce before, in
  and behind it. `SeenCurrent` and `EventuallySeen` are about programs without
  the filter: IN shows the raw pad (`tinymcu_periph_gpio.vhd:151`), so a
  program that reads it behind a filtered flag may read a bounce.
- `UartPair`: two data bits instead of five to nine (all numbers of data bits
  of the code map to one to three bits here, all parities and stop bits are
  there), four clocks per bit, which is the least with a middle, and ten for
  one echo and for the receiver that polls between other work: it is slower
  than a byte at four. `MaxFlight`, two, bounds the bytes remembered between sender and
  reader; a byte beyond it would be forgotten and `GetsNext` would fail at the
  next one. Which trap is torn or lost is free in the link by interrupt.
- `XipSession`: bytes of two bits, one address byte, words of two bytes, a
  flash of four bytes, clock divider 0 and 1, three fetch addresses of which
  two share a word. The fetch address changes at any clock. One rewrite.
- `Dispatch`: a counter of four values, two presses, one idle clock. More
  presses could keep the timer waiting, which the priority allows.
- `TrapStub`: the sixteen registers of the stub, two words of the program's
  stack, three points, two causes.
- `StartUp`: up to twelve bytes of `.data` and of `.bss` at every
  word-aligned place, 24 bytes of RAM, one reset. The bus keeps nothing
  between two accesses, so one access of each driver statement, every word of
  the peripherals' windows and the edges of the others are all there is.

**Fairness.** `FairSpec` of `TinyCpuProps` has weak fairness of `Tick` (the
clock runs) and of the end of a started flash read: the SPI clock generator
counts system clocks and always reaches its end (`XipSession` checks that it
does). Resets may come, and `KeepsExecuting` asks for progress only when they
stop. `RunSpec`, of `Interrupts`, has none. `InterruptTaken` asks nothing of a
program that disables interrupts for good, and of lost traps that they stop;
both are hypotheses of the property and not fairness of the code. A step that
takes an interrupt is told by its target, `TrapEntered`: pc_reg becomes the
vector of the line. Everywhere else the one assumption
is that the oscillator runs: weak fairness of a clock edge with the reset
released. The bound on idle clocks then lets the processor get on, as an
instruction does. `WaitSpec` of `XipSession` adds that the fetch address may
stay where it is. Nothing is assumed of pins or programs, and of traps only what
the liveness properties say.

**What the runs do not reach.** In `Flash` the free words leave out the
classes for which the flash cases of Findings show the sequential machine to
be broken, and no interrupts are connected. Interrupt nesting is not in
`Hart`: no program of the repository enables interrupts in a handler. `Hart`
does not follow a program behind a torn trap. `UartPair` has no link with CTS,
`XipSession` no rewritten word that is fetched again, no CPHA = 1, no answer
MSB first and no transfer under a running fetch, `StartUp` no unaligned
section: there the code breaks what the properties say, and each has a
configuration under Findings.

## Findings

Two runs refute a sentence of the documentation:

1. *mepc of an instruction that was never going to execute* (`TrapReturn`).
   With a bubble in EX `pc_ex` is the address of a squashed fetch, and MRET
   resumes there.
2. *Clearing one flag clears others* (`GpioClearOne`). `tinymcu_gpio_irq_clear`
   reads INT_STATUS and writes it back: a flag another pin raised in between is
   gone. The handler of `GpioIsr` that passes clears all flags at once and
   reads the port afterwards.

More counterexamples can be had from the configurations beside this file
(`tlc -config <name>.cfg <module>`, with `-continue` where several properties
are named); they are not part of the runs:

| cfg | module | what fails |
|---|---|---|
| `TrapEdge` | `MCIsa` | `TrapEntersHandler`: a trap in the cycle an EX stall ends is recorded but not entered, as `resume_flush` has precedence over `redirect`; `MepcNotExecutedYet`: the instruction in EX completes although mepc names it, and MRET executes it twice |
| `FullRom` | `MCIsa` | the last ROM word is executed as zero: the ROM's select looks at `pc_reg`, its port shows the word at `pc_if` |
| `FlashHold` | `MCIsa` | `MultiplyWritesProduct`: products and quotients are lost to a slow flash fetch; `CsrWritesWhenRdDoes`, `OneAccessPerInstruction`: CSR instructions and peripheral accesses are repeated under one |
| `LedReset` | `MCLedBlink` | `PacedAlways`: after a reset INT_CONFIG is still set while counter and compare are both zero, so the first step comes at once; `WalksAlways`: one trap lost at the end of a stall, and the chase of led_blink stands still |
| `UartStream` | `MCUartPair` | uart_echo loses a byte of a sender that does not wait: the echo falls behind, and the receive buffer holds one byte |
| `UartFlow` | `MCUartPair` | with CTS enabled, a byte written while CTS is down is dropped although the transmitter is idle |
| `XipFlash` | `MCXipSession` | `ReturnsMiso`: MSB first, `tinymcu_xip_transfer_byte` returns the byte bit-reversed; `ByteArrives`: with CPHA=1 the flash misses the first bit; `AlwaysFresh`: a word programmed after it was fetched is not the word fetched again, as the cache is not invalidated |
| `XipHang` | `MCXipSession` | a transfer started while a fetch is running leaves BUSY set for ever: both engines share the clock generator |
| `StartUpBytes` | `MCStartUp` | sections need not be word-aligned for the linker, but the copy and zero loops need it |

README.md:232 also says the timer's interrupt line is tied to '0'; the code
connects the timer (`tinymcu_cpu.vhd:595`), and so does the model.

## Proofs

`TinyCpuProofs`: `TypeCorrect == Spec => []TypeOK`, from the assumptions of
`TinyMachine` alone, one lemma per group of registers; and
`PipelineInvariant`, `Spec => []PipeInv` for every data path, memory map,
program, length of the units and set of interrupt lines, with and without
flash, through every reset. `ExecutesFetched` is what is wanted of
it and is far from inductive. The invariant adds where the three program
counters stand (`PcShape`), what the fetch port shows and when (`FetchShape`),
that `dispatched` and `ex_stall_d1` mark the first and the later cycles of EX
(`StallShape`), to whom acknowledges and results belong (`AckShape`,
`UnitsShape`), that a store's repeated write is idle (`StoreShape`), that only
some instructions stall EX (`WaitShape`), that the fetch address stays while
the engine reads the flash (`XipShape`) and that nothing writes ROM or flash
(`RomSeam`, `FlashSeam`). The proof follows the stall: an edge finds an
instruction waiting (`StallStep`), done waiting (`ResumeStep`), or nothing that
ever waited (`FlowStep`); in the last case the fetch port is in step with
`pc_if` or the flash answers for it, in the first nothing moves, and the second
ends in a bubble whose successor is squashed, which is also what a reset leaves
(`FreshState`). From it follow `FetchedExecutes` (`ExecutesFetched`) and
`AcksBelong` (`NoStaleAck`).

Their one hypothesis is `SeamsClear`, on the programs. `RomSeam`: none uses the
last ROM word, which the code executes as zero (`FullRom`). `FlashSeam`: the
last word of the flash is no load or store. Behind it the pipeline fetches from
a memory that is there at once, so an acknowledge that a held fetch has let
stand is taken for the next access: TLC finds `NoStaleAck` violated for a
program that ends its flash with a load. The runs' programs satisfy both.

The refinement: every edge of the pipeline is a step of `TinyISAImprecise`, or
a stutter. `RefinesImprecise` has the run hypothesis
`[]HarmlessHold`: what a late flash word alone holds in EX is no multiply,
divide, CSR instruction, MRET or peripheral access, for the code repeats those
(`FlashHold`). `RefinesSequential` is the same without interrupt lines, against
the sequential machine `TinyISA`; `RefinesWithoutFlash` has no condition on the
run, as `HarmlessHold` is true of every one. The simulation has one lemma per
kind of edge: EX holds its instruction (`HoldSimulates`: a wait, or the write of
a store to RAM), lets go of it after a wait (`ResumeSimulates`) or without one
(`FlowSimulates`), has none or one that has already acted (`IdleSimulates`), or
is reset (`ResetSimulates`). `AtInstruction` says that both machines look at
the same word and address, `Completed` that they end with the same registers
and memory, `TrapFacts` which of the abstract traps an edge takes.

`StartUpProofs`: `StaticsAreReady`, `Spec => []StaticsReady` for word-aligned
sections (`Align = 4`; `StartUpBytes` shows why) of any size and place, any RAM
and any number of resets. `StartInv` says which words the loop has passed: all
below the pointer are zero, or hold their initialiser, and what the copy may
overwrite of `.bss` is nothing. `AccessesAnswered`, `Spec => []AnsweredOnce`,
is about the bus alone: the windows of both decoders are disjoint (`OnePort`,
`OneSelected`), whatever the address, and no two registers of a block share a
word (`NumberedInjective`).

`LedBlinkProofs`: `DemoShowsChase`, `Spec => ShowsChase`, and with it
`InterruptsFindHandler` (`VectorInstalled`) and `OneWriter`
(`ExclusiveUpdate`), for every period, prescaler, counter width, set of pins,
number of idle clocks and of resets, over lost traps and until one is torn.
Main and handler are sequences of
statements; `MainIs` and `HandlerIs` show that the driver calls they are made
of are the seventeen and five statements of `MainCode` and `HandlerCode`, so
that where a thread stands is a number. `LedInv` says
for each place what DDR, OUT, `pos`, MIE and mtvec are and that a word a thread
has loaded is what the register still holds: this is the read-modify-write
hazard, and it holds because main touches OUT only with interrupts off. The
inductive invariant is `LedSound`, that is, `LedInv` unless a trap was torn: a
torn trap drops main, a lost one leaves every thread where it is (`LostStep`),
and no step but a reset undoes `torn` (`TornStays`). The
timer is not in it: whatever clock it matches in, the chase is kept. Only its
pace (`Paced`) and that it goes on (`KeepsWalking`) depend on the timer.

`HartProofs` holds what these proofs and the next two share: what one clock
does to the processor of `Hart` whatever runs on it (`ExecutedIs`, `TrapsIs`,
`MretsIs`, `IdlesIs`, `TornStays`), what one statement does to its thread
(`SteppedShape`, `SteppedOn`, `SteppedLoad`, `SteppedGet`, `SteppedLoop`), and
where a thread stands in a known sequence (`EndsIn`, `Ending`).

`GpioIsrProofs`: `PinsAreOwned`, `Spec => []OnlyOwnPin`, for every program of
the module, filter threshold and number of idle clocks. `OnlyOwnPin` alone is
not inductive: a thread that holds a stale word of OUT would break it with its
store. Nearly all statements are quiet, that is, not on OUT (`Quiet`; one lemma
per driver call). The inductive invariant `OwnInv` says that a thread has quiet
statements left, or is the handler at its last call, or is main inside
`update`, and then interrupts are off; and that a word a thread has loaded from
OUT is what OUT still holds. As in the other systems, what is inductive is
`IsTorn(hart) \/ OwnInv`, and `IsTorn(hart) \/ SeenInv` below.

`LevelsAreHeld`, `Spec => HeldLongEnough`: while the filter disagrees with a pad,
its counter is the number of clocks the pad has held its level (`HeldInv`). The
threshold is whatever CONFIG holds in that clock, so the proof needs nothing of
the program, which may move it under a running count.

`NoChangeIsMissed`, `Spec => []SeenCurrent`, for the programs that answer by
interrupt and those that poll. The property speaks of settled states only; the
inductive invariant `SeenInv` says at every statement which of seen, the value
just returned and `prev` may differ, and that they differ only in pins whose
flag is up (`Fresh`). It goes through the three phases of the program: `SetsUp`,
up to the first read of the port, where the edge detector may have missed
changes before it was armed; `Polls`; and `Answers`, where main is calm and the
handler has cleared a flag before it reads the port, or has flags left to
clear. `NoFilter` keeps the filter off in the programs that do not set it.
TLC had checked `SeenInv` on all programs of the run, and on those that clear
one flag, before it was proved.

`UartPairProofs`, for every pair of programs of the module, set of bytes,
framing, flow control, bit time, number of data bits and of idle clocks. What is
proved on the way is one invariant of each board (`PairHolds`) and one of the
line between them (`LinesInv`), each until a trap of either board is torn
(`AnyTorn`, `PairSound`; `TornPairStep`).

A board (`NodeInv`) is before its driver's init (`Unset`), inside it
(`HalfSet`: CONFIG written, BAUDRATE not yet), or in service (`Serves`). A
program in service is a sequence of whole calls (`Whole`, one lemma per driver
call): each write of TX_DATA stands behind a wait for TX_ACTIVE and before a
return. `TxSync` ties the transmit engine to the place where main stands: the
flag follows the engine by a clock, and in that clock main is at the return, so
that the next poll cannot be early. The handler reads nothing but RX_READY and
RX_DATA (`IsrInv`): the request is up only while there is a byte, or where the
handler is about to clear it, and main does not read RX_DATA in a program with
a handler. From this:

- `HandlerHasByte`, `Spec => []NoSpuriousIrq`.
- `EveryByteIsTaken`, `Spec => []PutcAccepted`, for links that do not enable
  CTS. With CTS enabled it is false: the peer may raise its line between the
  poll and the write (`UartFlow`, see Findings).

The line (`WireInv`, once for each direction): `TxInv` and `LineInv` say what
the pin shows in each state of the transmit engine, `LockInv` that the receiver
is in the same bit of the same frame, its bit times beginning five clocks (pin
register, synchronizer, start of the engine) and half a bit behind the transmitter's, `RxInv`
that it counts what the frame has, `BitsInv` that the bits and the parity it has
collected are those of the byte in the transmitter. `OrderInv` is about the
start: the board that begins is switched on when the other has run its init,
and that other sends nothing before it has read.

- `ParityHolds`, `Spec => []NoFalseParityError`, for at least ten clocks per
  bit (`tinymcu_uart_init` is called with 1667). Ten are what five clocks and
  half a bit take to fit into a bit: with fewer, `LockInv` does not describe the
  receiver. The runs' links with four clocks satisfy the property too, but no
  theorem says so.
- `EchoReturns`, `Spec => [](Chats => GetsNext)`. `Chats` is a link between a
  terminal and `uart_echo`, with ten clocks per bit and without CTS. Its
  inductive invariant is `TalkPair`: what main has left is one of the few code
  sequences of the two loops (`TalkInv`); the bytes sent and not read are what
  the far receiver has delivered, or the byte still on the line, or none
  (`Arrived`, which rests on `LinesInv`); and a board that is not waiting for
  its turn has nothing under way in either direction (`TurnInv`). So the
  transmitter never starts over a byte that is unread, and RX_READY is up only
  for the byte that was sent. TLC had checked `TalkPair` at ten clocks per bit
  before it was proved; the runs' echoes at four clocks, and the other
  programs, stay with TLC.

`DispatchProofs`: `LogIsOfOneTrap`, `Spec => []LoggedPair`, for every set of
enabled sources, timer setting, number of presses and of idle clocks, and for
the default handler too. All statements but those of main's `log` are calm:
they read no trap CSR and keep nothing. `LogInv` says that a thread has calm
statements left, or main is about to begin `log`, or is inside it: then
interrupts are off, and the CSRs still hold what has been read.

`EventsServedOnce`, `Spec => ServedOnce`, and `StandsStill`,
`Spec => []WeakHandler`, from one more invariant, `ServedInv`. Statements are
plain that neither clear a flag nor decide to (`Plain`). A thread has plain
statements left; or is main inside `poll`, and then the button's line is masked
and, behind the test, its flag up (`Polling`); or is the handler at its one
statement, and then the line that called it is up, and enabled if it is the
button's (`Handling`). Main behind its test and the handler's button branch thus
exclude each other by mie, and `CausesDiffer` keeps the two branches apart.
Without a handler, the line that was taken stays up and enabled and MRET turns
interrupts on again, until a trap is lost (`StandInv`): outside the handler the
next trap is due, so that main executes nothing, wherever MRET has led.

`TrapStubProofs`: `StubTransparent == Spec => []Transparent` and
`StubArguments == Spec => []ArgumentsRight`, for every list of distinct saved
registers that holds a0 and a1, every program, cause and depth of stack, from
`StubAssumption` alone. `Transparent` only speaks of the program between traps;
the inductive invariant `Inv` adds what holds inside the stub: at its ends
nothing is touched and there is room for the frame (`AtEnds`), with the frame
open the program's words lie above it and the slots stored so far hold their
registers (`Frame`), the registers are the program's until mcause is read
(`Storing`) and those loaded so far are again (`Loading`), a0 and a1 carry
cause and place (`Arguments`), and mepc is the place (`Place`). It is one
lemma per instruction of the stub; that two registers do not share a slot
(`Slots`) is what storing and loading rest on.

Model-checked only: liveness (`InterruptTaken`, `EveryStallEnds`,
`KeepsExecuting`, `KeepsWalking`, `EventuallySeen`, `KeepsTalking`,
`SessionEnds`, `FetchServed`, `Served`, `Completes`), which is
out of the prover's reach; `Paced`, which needs the period, the counter's width
and the idle clocks to fit together and is not true of all constants; the
flash controller bit by bit (`XipSession`), whose invariants relate shift
registers of both sides to the words of a session; of `UartPair`, `GetsNext`
for programs that send without waiting for an answer, which holds where the
reader has time between two bytes: that is a matter of the bound on idle clocks
and of the reader's loop against the bit time (`UartStream` shows a link
without it);
`DriversReach`, which compares the addresses of all driver statements with the
registers of the hardware: finitely many, and TLC evaluates every one.

## Not modelled

ALU, immediates, byte lanes as bits and the arithmetic of the units (pure
functions of 32-bit words; the pipeline takes them as parameters); printf's
formatting; the stack pointer's initial value and the sizes of the real
memories; simulation trace (`disassemble`), testbenches, scripts, FPGA project
files and the CP/M patch.

## Plan

Done: pipeline, traps, CSR file, memories, both decoders, all four
peripherals, all drivers, trap stub, startup, demos; the pipeline's invariant
and refinement, the bus, the startup, the trap stub, the LED chase, the
programs that share the GPIO port and the trap CSRs with a handler, and the
serial line up to the byte that the receiver has collected, proved.
Left, in this order:

1. `Interrupts` from the flash: MRET held by a flash fetch.
2. `XipSession` against the three-state engine of `TinyCpu`, as a refinement.
3. `Multiplier`, `Divider`: the shift-add and restoring algorithms at a
   parametric width against arithmetic, with their loop invariants proved.
