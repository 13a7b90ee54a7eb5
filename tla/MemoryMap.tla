----------------------------- MODULE MemoryMap ------------------------------
(***************************************************************************)
(* The memory map twice: as the driver headers lay their register blocks   *)
(* out, and as the address decoder, the peripheral bus and the peripherals *)
(* decode an address.  One step is one access of the data bus: any         *)
(* statement of any driver function, or any address of a program.  StartUp *)
(* composes the bus with a processor that comes out of reset.              *)
(***************************************************************************)
EXTENDS TinymcuDrivers

CONSTANT Strays  \* addresses a program may access besides the drivers'

VARIABLES
  XIP_ENABLE, RAMDISK_ENABLE,  \* the build's choices
  req, rsp     \* the access and its answer
bus_vars == <<XIP_ENABLE, RAMDISK_ENABLE, req, rsp>>

-----------------------------------------------------------------------------
(***************************** driver headers ******************************)
TINYMCU_GPIO_BASE  == \h04000000
TINYMCU_TIMER_BASE == \h04000100
TINYMCU_UART_BASE  == \h04000200
TINYMCU_XIP_BASE   == \h04000300

\* Mutant: two fields of the struct are swapped.
Mut_timer_t == <<"CONFIG", "INT_STATUS", "INT_CONFIG", "COUNTER", "COMPARE">>

\* The structs' fields in their order, a word each.
tinymcu_gpio_t == <<"CONFIG", "DDR", "PULL_SEL", "PULL_EN", "OUT", "IN",
                    "INT_CONFIG", "INT_STATUS">>
tinymcu_timer_t == <<"CONFIG", "INT_CONFIG", "INT_STATUS", "COUNTER", "COMPARE">>
tinymcu_uart_t == <<"CONFIG", "BAUDRATE", "STATUS", "TX_DATA", "RX_DATA",
                    "INT_CONFIG", "INT_STATUS">>
tinymcu_xip_t == <<"CONFIG", "STATUS", "TX_DATA", "RX_DATA">>

Block == [gpio  |-> [base |-> TINYMCU_GPIO_BASE,  fields |-> tinymcu_gpio_t],
          timer |-> [base |-> TINYMCU_TIMER_BASE, fields |-> tinymcu_timer_t],
          uart  |-> [base |-> TINYMCU_UART_BASE,  fields |-> tinymcu_uart_t],
          xip   |-> [base |-> TINYMCU_XIP_BASE,   fields |-> tinymcu_xip_t]]

FieldAddr(dev, reg) ==
  Block[dev].base + 4 * (CHOOSE i \in 1..Len(Block[dev].fields) : Block[dev].fields[i] = reg)
    - 4

\* Every driver function, called with some argument.
Calls == {
  tinymcu_gpio_set_output(1), tinymcu_gpio_set_input(1), tinymcu_gpio_pull_up(1),
  tinymcu_gpio_pull_down(1), tinymcu_gpio_pull_disable(1), tinymcu_gpio_set(1),
  tinymcu_gpio_clear(1), tinymcu_gpio_toggle(1), tinymcu_gpio_get(1), tinymcu_gpio_read_port,
  tinymcu_gpio_irq_global_enable, tinymcu_gpio_irq_global_disable,
  tinymcu_gpio_irq_enable(1), tinymcu_gpio_irq_disable(1), tinymcu_gpio_irq_pending(1),
  tinymcu_gpio_irq_status, tinymcu_gpio_irq_clear(1), tinymcu_gpio_irq_clear_all,
  tinymcu_gpio_debounce_set(1), tinymcu_timer_set_clksel(1), tinymcu_timer_read_less(1),
  tinymcu_timer_reset, tinymcu_timer_set_compare(1), tinymcu_timer_irq_enable,
  tinymcu_timer_irq_disable, tinymcu_timer_irq_pending, tinymcu_timer_irq_clear,
  tinymcu_uart_init(1, {}, {}, {}), tinymcu_uart_putc({}), tinymcu_uart_rx_ready,
  tinymcu_uart_rx_parity_error, tinymcu_uart_getc, tinymcu_uart_irq_enable,
  tinymcu_uart_irq_disable, tinymcu_uart_irq_pending, tinymcu_uart_irq_clear,
  tinymcu_xip_configure(0, 0, 0, 1), tinymcu_xip_while_busy, tinymcu_xip_fetch_enable,
  tinymcu_xip_fetch_disable, tinymcu_xip_cs_assert, tinymcu_xip_cs_release,
  tinymcu_xip_transfer_byte({})}

\* Their accesses: an assignment stores, `|=` and `&=` load and store.
Statements == {s \in UNION {{c[i] : i \in DOMAIN c} : c \in Calls} : s.op \in BusOps}
Access(s, w) == [addr |-> FieldAddr(s.dev, s.reg), we |-> w, dev |-> s.dev, reg |-> s.reg]
DriverAccesses == {Access(s, FALSE) : s \in {t \in Statements : t.op # "assign"}}
                  \cup {Access(s, TRUE) : s \in {t \in Statements : t.op \in {"assign", "modify"}}}

-----------------------------------------------------------------------------
(******************************** hardware *********************************)
ROM_BASE         == \h00000000
RAM_BASE         == \h02000000
RAMDISK_TOP_BYTE == \h03
PERIPHERALS_BASE == \h04000000
PERIPH_BASE == [gpio |-> \h04000000, timer |-> \h04000100,
                uart |-> \h04000200, xip |-> \h04000300]
TopByte(addr) == addr \div 2^24

\* The word offset of every register, and the registers a load returns or a
\* store changes (or starts something with).
Numbered(regs) == [r \in {regs[i] : i \in DOMAIN regs} |-> (CHOOSE i \in DOMAIN regs : regs[i] = r) - 1]
GPIO_REG  == Numbered(<<"CONFIG", "DDR", "PULL_SEL", "PULL_EN", "OUT", "IN",
                        "INT_CONFIG", "INT_STATUS">>)
TIMER_REG == Numbered(<<"CONFIG", "INT_CONFIG", "INT_STATUS", "COUNTER", "COMPARE">>)
UART_REG  == Numbered(<<"CONFIG", "BAUDRATE", "STATUS", "TX_DATA", "RX_DATA",
                        "INT_CONFIG", "INT_STATUS">>)
XIP_REG   == Numbered(<<"CONFIG", "STATUS", "TX_DATA", "RX_DATA">>)
REG == [gpio |-> GPIO_REG, timer |-> TIMER_REG, uart |-> UART_REG, xip |-> XIP_REG]
Readable == [gpio |-> DOMAIN GPIO_REG, timer |-> DOMAIN TIMER_REG,
             uart |-> DOMAIN UART_REG \ {"TX_DATA"}, xip |-> DOMAIN XIP_REG \ {"TX_DATA"}]
Writable == [gpio |-> DOMAIN GPIO_REG \ {"IN"}, timer |-> DOMAIN TIMER_REG,
             uart |-> DOMAIN UART_REG \ {"STATUS", "RX_DATA"}, xip |-> {"CONFIG", "TX_DATA"}]

\* tinymcu_addr_decoder: the memories and the peripheral bus.
Ports(addr) ==
  {p \in {"ram", "imem", "periph", "ramdisk"} :
     CASE p = "ram"    -> TopByte(addr) = TopByte(RAM_BASE)
       [] p = "imem"   -> TopByte(addr) = TopByte(ROM_BASE)
       [] p = "periph" -> TopByte(addr) = TopByte(PERIPHERALS_BASE)
       [] OTHER        -> RAMDISK_ENABLE /\ TopByte(addr) = RAMDISK_TOP_BYTE}

\* tinymcu_periph: who answers in its 256 bytes.
Selected(addr) ==
  {p \in DOMAIN PERIPH_BASE : /\ addr \div 256 = PERIPH_BASE[p] \div 256
                              /\ (p = "xip" => XIP_ENABLE)}

\* What the selected peripherals put on the bus together, or take from it.
Answering(p, addr, we) ==
  {r \in IF we THEN Writable[p] ELSE Readable[p] : REG[p][r] = (addr % 256) \div 4}
Reached(addr, we) ==
  IF Ports(addr) # {"periph"} THEN {}
  ELSE UNION {{p} \X Answering(p, addr, we) : p \in Selected(addr)}

\* Who acknowledges: a peripheral in the same clock, a memory on its own
\* time, and the decoders where nobody is selected.
\* Mutant: the peripheral bus leaves it to the peripherals.
Mut_Acks(addr) ==
  IF Ports(addr) = {} THEN {"decoder"}
  ELSE (Ports(addr) \ {"periph"}) \cup (IF "periph" \in Ports(addr) THEN Selected(addr) ELSE {})
Acks(addr) ==
  IF Ports(addr) = {} THEN {"decoder"}
  ELSE (Ports(addr) \ {"periph"})
       \cup (IF "periph" \notin Ports(addr) THEN {}
             ELSE IF Selected(addr) = {} THEN {"bus"} ELSE Selected(addr))

-----------------------------------------------------------------------------
None == [addr |-> 0, we |-> FALSE, dev |-> "none", reg |-> "none"]
NoAnswer == [regs |-> {}, acks |-> {}]

BusInit == /\ XIP_ENABLE \in BOOLEAN /\ RAMDISK_ENABLE \in BOOLEAN
           /\ req = None /\ rsp = NoAnswer

Perform(r) == req' = r /\ rsp' = [regs |-> Reached(r.addr, r.we), acks |-> Acks(r.addr)]
              /\ UNCHANGED <<XIP_ENABLE, RAMDISK_ENABLE>>
Plain(addr, w) == [addr |-> addr, we |-> w, dev |-> "none", reg |-> "none"]
Load(addr)  == Perform(Plain(addr, FALSE))
Store(addr) == Perform(Plain(addr, TRUE))
NoAccess    == req' = None /\ rsp' = NoAnswer /\ UNCHANGED <<XIP_ENABLE, RAMDISK_ENABLE>>

DriverStep == \E r \in DriverAccesses : Perform(r)
StrayStep  == \E addr \in Strays, w \in BOOLEAN : Perform(Plain(addr, w))

-----------------------------------------------------------------------------
\* Every access of every driver function reaches the register the function
\* names and no other, and that register acts on it: header and hardware
\* agree on every base, every field's place and every direction.
DriversReach ==
  req.dev # "none" /\ (req.dev = "xip" => XIP_ENABLE) => rsp.regs = {<<req.dev, req.reg>>}

\* Whatever is accessed, one party acknowledges, so that the processor never
\* stalls for ever, and at most one register is read or changed, so that the
\* ORed answers of the bus never mix.
AnsweredOnce == req # None => Cardinality(rsp.acks) = 1 /\ Cardinality(rsp.regs) <= 1
=============================================================================
