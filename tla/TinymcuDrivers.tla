--------------------------- MODULE TinymcuDrivers ---------------------------
(***************************************************************************)
(* The driver library sw/lib: every function under its C name, as the      *)
(* statements of its body.                                                 *)
(***************************************************************************)
EXTENDS Mmio, FiniteSets, FiniteSetsExt

\* A call of three statements for each element of a sequence.
ForEach(s, Body(_)) ==
  [i \in 1..3 * Len(s) |-> Body(s[1 + ((i - 1) \div 3)])[1 + ((i - 1) % 3)]]

\* A field of a word as a number, and a number cut to a field.
Field(word, lsb, width) ==
  MapThenSumSet(LAMBDA i : 2^(i - lsb), word \cap (lsb..(lsb + width - 1)))
ToField(n, lsb, width) == {lsb + i : i \in {j \in 0..(width - 1) : (n \div 2^j) % 2 = 1}}

Word32 == 0..31

-----------------------------------------------------------------------------
(********************************* GPIO ************************************)
TINYMCU_GPIO == {"CONFIG", "DDR", "PULL_SEL", "PULL_EN", "OUT", "IN",
                 "INT_CONFIG", "INT_STATUS"}
TINYMCU_GPIO_CONFIG_GLOBAL_INT_EN  == {0}
TINYMCU_GPIO_CONFIG_DEBOUNCE_LSB   == 1
TINYMCU_GPIO_CONFIG_DEBOUNCE_WIDTH == 15
TINYMCU_GPIO_CONFIG_DEBOUNCE_MASK ==
  TINYMCU_GPIO_CONFIG_DEBOUNCE_LSB..
    (TINYMCU_GPIO_CONFIG_DEBOUNCE_LSB + TINYMCU_GPIO_CONFIG_DEBOUNCE_WIDTH - 1)

tinymcu_gpio_set_output(pin) == <<SetBits("gpio", "DDR", {pin})>>
tinymcu_gpio_set_input(pin)  == <<ClearBits("gpio", "DDR", {pin})>>
tinymcu_gpio_pull_up(pin)    == <<SetBits("gpio", "PULL_SEL", {pin}),
                                  SetBits("gpio", "PULL_EN", {pin})>>
tinymcu_gpio_pull_down(pin)  == <<ClearBits("gpio", "PULL_SEL", {pin}),
                                  SetBits("gpio", "PULL_EN", {pin})>>
tinymcu_gpio_pull_disable(pin) == <<ClearBits("gpio", "PULL_EN", {pin})>>
tinymcu_gpio_set(pin)    == <<SetBits("gpio", "OUT", {pin})>>
tinymcu_gpio_clear(pin)  == <<ClearBits("gpio", "OUT", {pin})>>
tinymcu_gpio_toggle(pin) == <<ToggleBits("gpio", "OUT", {pin})>>
tinymcu_gpio_write(pin, level) == IF level # 0 THEN tinymcu_gpio_set(pin)
                                  ELSE tinymcu_gpio_clear(pin)
tinymcu_gpio_get(pin)   == <<Get("gpio", "IN", {pin})>>
tinymcu_gpio_read_port  == <<Get("gpio", "IN", Word32)>>
tinymcu_gpio_irq_global_enable  == <<SetBits("gpio", "CONFIG", TINYMCU_GPIO_CONFIG_GLOBAL_INT_EN)>>
tinymcu_gpio_irq_global_disable == <<ClearBits("gpio", "CONFIG", TINYMCU_GPIO_CONFIG_GLOBAL_INT_EN)>>
tinymcu_gpio_irq_enable(pin)  == <<SetBits("gpio", "INT_CONFIG", {pin})>>
tinymcu_gpio_irq_disable(pin) == <<ClearBits("gpio", "INT_CONFIG", {pin})>>
tinymcu_gpio_irq_pending(pin) == <<Get("gpio", "INT_STATUS", {pin})>>
tinymcu_gpio_irq_status       == <<Get("gpio", "INT_STATUS", Word32)>>
tinymcu_gpio_irq_clear(pin)   == <<ClearBits("gpio", "INT_STATUS", {pin})>>
tinymcu_gpio_irq_clear_all    == <<Assign("gpio", "INT_STATUS", {})>>
tinymcu_gpio_debounce_set(cycles) ==
  <<Modify("gpio", "CONFIG", TINYMCU_GPIO_CONFIG_DEBOUNCE_MASK,
           ToField(cycles, TINYMCU_GPIO_CONFIG_DEBOUNCE_LSB,
                   TINYMCU_GPIO_CONFIG_DEBOUNCE_WIDTH), {})>>
tinymcu_gpio_debounce_disable == tinymcu_gpio_debounce_set(0)

-----------------------------------------------------------------------------
(********************************* timer ***********************************)
TINYMCU_TIMER == {"CONFIG", "INT_CONFIG", "INT_STATUS", "COUNTER", "COMPARE"}
TINYMCU_TIMER_CLKSEL == [OFF |-> 0, DIV1 |-> 1, DIV2 |-> 2, DIV4 |-> 3, DIV8 |-> 4,
                         DIV64 |-> 5, DIV256 |-> 6, DIV1024 |-> 7]
TINYMCU_TIMER_INT_COMPARE == {0}

tinymcu_timer_set_clksel(clksel) == <<Assign("timer", "CONFIG", clksel)>>
tinymcu_timer_read_less(n)       == <<WhileLess("timer", "COUNTER", n)>>
tinymcu_timer_reset              == <<Assign("timer", "COUNTER", 0)>>
tinymcu_timer_set_compare(value) == <<Assign("timer", "COMPARE", value)>>
tinymcu_timer_irq_enable  == <<Assign("timer", "INT_CONFIG", TINYMCU_TIMER_INT_COMPARE)>>
tinymcu_timer_irq_disable == <<Assign("timer", "INT_CONFIG", {})>>
tinymcu_timer_irq_pending == <<Get("timer", "INT_STATUS", TINYMCU_TIMER_INT_COMPARE)>>
tinymcu_timer_irq_clear   == <<Assign("timer", "INT_STATUS", {})>>

-----------------------------------------------------------------------------
(********************************** UART ***********************************)
TINYMCU_UART == {"CONFIG", "BAUDRATE", "STATUS", "TX_DATA", "RX_DATA",
                 "INT_CONFIG", "INT_STATUS"}
TINYMCU_UART_STATUS_TX_ACTIVE    == {0}
TINYMCU_UART_STATUS_RX_READY     == {1}
TINYMCU_UART_STATUS_PARITY_ERROR == {2}
TINYMCU_UART_DATABITS == [b8 |-> {}, b7 |-> {0}, b9 |-> {1}]
TINYMCU_UART_STOPBITS == [s1 |-> {}, s2 |-> {2}]
TINYMCU_UART_PARITY   == [none |-> {}, even |-> {4}, odd |-> {5}]
TINYMCU_UART_CONFIG_8N1 == TINYMCU_UART_DATABITS.b8 \cup TINYMCU_UART_STOPBITS.s1
                           \cup TINYMCU_UART_PARITY.none
TINYMCU_UART_INT_RX_READY == {0}

tinymcu_uart_init(clks_per_bit, databits, stopbits, parity) ==
  <<Assign("uart", "CONFIG", databits \cup stopbits \cup parity),
    Assign("uart", "BAUDRATE", clks_per_bit)>>
\* Mutant: it waits behind the byte, too early for TX_ACTIVE.
Mut_putc(c) ==
  <<Assign("uart", "TX_DATA", c),
    WhileSet("uart", "STATUS", TINYMCU_UART_STATUS_TX_ACTIVE), Return>>
\* The return is the clock in which TX_ACTIVE rises.
tinymcu_uart_putc(c) ==
  <<WhileSet("uart", "STATUS", TINYMCU_UART_STATUS_TX_ACTIVE),
    Assign("uart", "TX_DATA", c), Return>>
tinymcu_uart_puts(s) == ForEach(s, tinymcu_uart_putc)
tinymcu_uart_rx_ready        == <<Get("uart", "STATUS", TINYMCU_UART_STATUS_RX_READY)>>
tinymcu_uart_rx_parity_error == <<Get("uart", "STATUS", TINYMCU_UART_STATUS_PARITY_ERROR)>>
tinymcu_uart_getc ==
  <<WhileClear("uart", "STATUS", TINYMCU_UART_STATUS_RX_READY),
    Get("uart", "RX_DATA", Word32)>>
tinymcu_uart_irq_enable  == <<SetBits("uart", "INT_CONFIG", TINYMCU_UART_INT_RX_READY)>>
tinymcu_uart_irq_disable == <<ClearBits("uart", "INT_CONFIG", TINYMCU_UART_INT_RX_READY)>>
tinymcu_uart_irq_pending == <<Get("uart", "INT_STATUS", TINYMCU_UART_INT_RX_READY)>>
tinymcu_uart_irq_clear   == <<ClearBits("uart", "INT_STATUS", TINYMCU_UART_INT_RX_READY)>>

\* stdio: what stdout does with each character printf has formatted.
uart_putc(c) == tinymcu_uart_putc(c)
stdout(c)    == uart_putc(c)

-----------------------------------------------------------------------------
(**************************** XIP controller *******************************)
TINYMCU_XIP == {"CONFIG", "STATUS", "TX_DATA", "RX_DATA"}
TINYMCU_XIP_CONFIG == [CPHA |-> {0}, CPOL |-> {1}, ENABLE |-> {2}, LSB_FIRST |-> {3},
                       CLKDIV_MASK |-> 4..11, CS_ASSERT |-> {12}]
TINYMCU_XIP_CONFIG_CLKDIV_SHIFT == 4
TINYMCU_XIP_STATUS_BUSY == {0}

tinymcu_xip_configure(cpol, cpha, lsb_first, clkdiv) ==
  <<Modify("xip", "CONFIG",
           UNION {TINYMCU_XIP_CONFIG[f] : f \in {"CPOL", "CPHA", "LSB_FIRST", "CLKDIV_MASK"}},
           UNION {IF cpol # 0 THEN TINYMCU_XIP_CONFIG.CPOL ELSE {},
                  IF cpha # 0 THEN TINYMCU_XIP_CONFIG.CPHA ELSE {},
                  IF lsb_first # 0 THEN TINYMCU_XIP_CONFIG.LSB_FIRST ELSE {},
                  ToField(clkdiv, TINYMCU_XIP_CONFIG_CLKDIV_SHIFT, 8)}, {})>>
\* while (tinymcu_xip_busy()) ;
tinymcu_xip_while_busy    == <<WhileSet("xip", "STATUS", TINYMCU_XIP_STATUS_BUSY)>>
tinymcu_xip_fetch_enable  == <<SetBits("xip", "CONFIG", TINYMCU_XIP_CONFIG.ENABLE)>>
tinymcu_xip_fetch_disable == <<ClearBits("xip", "CONFIG", TINYMCU_XIP_CONFIG.ENABLE)>>
tinymcu_xip_cs_assert     == <<SetBits("xip", "CONFIG", TINYMCU_XIP_CONFIG.CS_ASSERT)>>
tinymcu_xip_cs_release    == <<ClearBits("xip", "CONFIG", TINYMCU_XIP_CONFIG.CS_ASSERT)>>
tinymcu_xip_transfer_byte(tx_byte) ==
  <<Assign("xip", "TX_DATA", tx_byte), WhileSet("xip", "STATUS", TINYMCU_XIP_STATUS_BUSY),
    Get("xip", "RX_DATA", Word32)>>

-----------------------------------------------------------------------------
(***************************** CSRs and traps ******************************)
TINYMCU_MSTATUS_MIE == {3}
TINYMCU_MIE == [MSIE |-> {3}, MTIE |-> {7}, MEIE |-> {11}]
TINYMCU_MCAUSE_INTERRUPT == {31}
TINYMCU_MCAUSE == [MSI |-> 3, MTI |-> 7, MEI |-> 11]

tinymcu_csr_write_mtvec(addr) == <<CsrPut("mtvec", addr)>>
tinymcu_csr_set_mie(mask)     == <<CsrSet("mie", mask)>>
tinymcu_csr_clear_mie(mask)   == <<CsrClear("mie", mask)>>
tinymcu_csr_read_mcause == <<CsrGet("mcause")>>
tinymcu_csr_read_mepc   == <<CsrGet("mepc")>>
tinymcu_enable_global_interrupts  == <<CsrSet("mstatus", TINYMCU_MSTATUS_MIE)>>
\* Mutant: the bit is cleared in the wrong CSR.
Mut_disable_global_interrupts == <<CsrClear("mie", TINYMCU_MSTATUS_MIE)>>
tinymcu_disable_global_interrupts == <<CsrClear("mstatus", TINYMCU_MSTATUS_MIE)>>
\* Mutant: interrupts are enabled before there is a handler.
Mut_trap_init == tinymcu_enable_global_interrupts \o tinymcu_csr_write_mtvec("trap_entry")
tinymcu_trap_init == tinymcu_csr_write_mtvec("trap_entry") \o tinymcu_enable_global_interrupts

\* The handler of a program that does not define one.
weak_trap_handler(mcause, mepc) == <<Return>>
=============================================================================
