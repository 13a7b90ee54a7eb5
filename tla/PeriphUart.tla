----------------------------- MODULE PeriphUart -----------------------------
(***************************************************************************)
(* tinymcu_periph_uart: transmit engine, synchronizer, receive engine,     *)
(* status and interrupt flag.  A byte is the set of its one bits; the      *)
(* lines rx, tx, cts and rts are BOOLEANs, TRUE being '1'.                 *)
(***************************************************************************)
EXTENDS TinymcuDrivers

CONSTANT DataBits   \* bits of the default frame, 8 in the code

ASSUME UartAssumption == DataBits \in Nat /\ DataBits > 1

UART_BIT_RTS_ENABLE == 6
UART_BIT_CTS_ENABLE == 7

\* The decoded CONFIG and BAUDRATE an engine works with.
databits_reg(config) == CASE config \cap {0, 1} = {0} -> DataBits - 1
                          [] config \cap {0, 1} = {1} -> DataBits + 1
                          [] OTHER -> DataBits
stopbits_reg(config) == IF config \cap {2, 3} = {2} THEN 2 ELSE 1
parity_reg(config) == CASE config \cap {4, 5} = {4} -> "even"
                        [] config \cap {4, 5} = {5} -> "odd"
                        [] OTHER -> "none"
Frame(u) == [baud |-> u.BAUDRATE, width |-> databits_reg(u.CONFIG),
             stops |-> stopbits_reg(u.CONFIG), parity |-> parity_reg(u.CONFIG)]

Engine == [state |-> "Idle", n |-> 0, counter |-> 0,
           frame |-> [baud |-> 0, width |-> 0, stops |-> 0, parity |-> "none"]]

\* rst_i, with the line idle for as long as the synchronizer is deep.
UartReset ==
  [CONFIG |-> {}, BAUDRATE |-> 0, INT_CONFIG |-> {}, INT_STATUS |-> {},
   tx |-> Engine, tx_o |-> TRUE, tx_data |-> {}, tx_active |-> FALSE,
   sync |-> <<TRUE, TRUE>>,
   rx |-> Engine, rx_data |-> {}, RX_DATA |-> {}, rx_ready |-> FALSE,
   parity_error |-> FALSE]

-----------------------------------------------------------------------------
\* An engine stays in a state for one bit time, then goes on.
BitOver(e) == e.counter + 1 >= e.frame.baud
Goto(e, state, n) == [e EXCEPT !.state = state, !.n = n, !.counter = 0]
Timed(e, state, n) == IF BitOver(e) THEN Goto(e, state, n)
                      ELSE [e EXCEPT !.counter = @ + 1]

\* Where the data bits and the stop bits lead, one bit at a time.
BehindData(e, stop) ==
  IF e.n + 1 < e.frame.width THEN <<e.state, e.n + 1>>
  ELSE IF e.frame.parity = "none" THEN <<stop, 0>> ELSE <<"Parity", 0>>
BehindStop(e) == IF e.n + 1 < e.frame.stops THEN <<"Stop", e.n + 1>> ELSE <<"Complete", 0>>

\* The parity bit of a byte.
ParityBit(frame, byte) ==
  LET odd == Cardinality(byte \cap (0..(frame.width - 1))) % 2 = 1
  IN  IF frame.parity = "even" THEN odd ELSE ~odd

-----------------------------------------------------------------------------
(********************************* Tx engine *******************************)
\* A byte is taken when the engine is idle and the peer clear to send.
Accepts(u, req, cts) == /\ u.tx.state = "Idle" /\ Writes(req, "uart", "TX_DATA")
                        /\ (UART_BIT_CTS_ENABLE \notin u.CONFIG \/ cts)

TxNext(u, req, cts) ==
  LET e == u.tx IN
  CASE e.state = "Idle"   -> [state |-> IF Accepts(u, req, cts) THEN "Start" ELSE "Idle",
                              n |-> 0, counter |-> 0, frame |-> Frame(u)]
    [] e.state = "Start"  -> Timed(e, "Data", 0)
    [] e.state = "Data"   -> Timed(e, BehindData(e, "Stop")[1], BehindData(e, "Stop")[2])
    [] e.state = "Parity" -> Timed(e, "Stop", 0)
    [] e.state = "Stop"   -> Timed(e, BehindStop(e)[1], BehindStop(e)[2])
    [] OTHER -> Goto(e, "Idle", 0)

TxLine(u) == CASE u.tx.state = "Start" -> FALSE
               [] u.tx.state = "Data" -> u.tx.n \in u.tx_data
               [] u.tx.state = "Parity" -> ParityBit(u.tx.frame, u.tx_data)
               [] u.tx.state = "Complete" -> u.tx_o
               [] OTHER -> TRUE

\* Mutant: the flag stays set behind the stop bit.
Mut_TxActive(u) == u.tx.state = "Start" \/ u.tx_active
TxActive(u) == CASE u.tx.state = "Start" -> TRUE
                 [] u.tx.state = "Complete" -> FALSE
                 [] OTHER -> u.tx_active

-----------------------------------------------------------------------------
(********************************* Rx engine *******************************)
HalfBit(e) == IF e.frame.baud = 0 THEN 0 ELSE (e.frame.baud - 1) \div 2

RxNext(u) ==
  LET e == u.rx
      line == u.sync[2]
  IN CASE e.state = "Idle"   -> [state |-> IF line THEN "Idle" ELSE "Start",
                                 n |-> 0, counter |-> 0, frame |-> Frame(u)]
       [] e.state = "Start"  -> IF e.counter = HalfBit(e)
                                THEN Goto(e, IF line THEN "Idle" ELSE "Data", 0)
                                ELSE [e EXCEPT !.counter = @ + 1]
       [] e.state = "Data"   -> Timed(e, BehindData(e, "Stop")[1], BehindData(e, "Stop")[2])
       [] e.state = "Parity" -> Timed(e, "Stop", 0)
       [] e.state = "Stop"   -> Timed(e, BehindStop(e)[1], BehindStop(e)[2])
       [] OTHER -> Goto(e, "Idle", 0)

RxShifted(u) ==
  IF u.rx.state = "Data" /\ BitOver(u.rx)
  THEN IF u.sync[2] THEN u.rx_data \cup {u.rx.n} ELSE u.rx_data \ {u.rx.n}
  ELSE u.rx_data

\* The last stop bit hands the byte over, read or not.
RxDelivers(u) == u.rx.state = "Stop" /\ BitOver(u.rx) /\ BehindStop(u.rx)[1] = "Complete"

\* Mutant: reading another register clears RX_READY too.
Mut_RxReady(u, req) == RxDelivers(u) \/ (u.rx_ready /\ req.dev # "uart")
RxReady(u, req) == RxDelivers(u) \/ (u.rx_ready /\ ~Reads(req, "uart", "RX_DATA"))

\* Mutant: even and odd are swapped on the receiving side.
Mut_RxParity(u) ==
  IF u.rx.state = "Parity" /\ BitOver(u.rx)
  THEN u.sync[2] = ParityBit(u.rx.frame, u.rx_data)
  ELSE u.parity_error
RxParity(u) ==
  IF u.rx.state = "Parity" /\ BitOver(u.rx)
  THEN u.sync[2] # ParityBit(u.rx.frame, u.rx_data)
  ELSE u.parity_error

-----------------------------------------------------------------------------
UartRegister(u, req, reg) == IF Writes(req, "uart", reg) THEN req.data ELSE u[reg]

\* A write wins, then the flag follows RX_READY.
UartFlag(u, req) ==
  IF Writes(req, "uart", "INT_STATUS") THEN req.data
  ELSE IF u.rx_ready /\ 0 \in u.INT_CONFIG THEN u.INT_STATUS \cup {0} ELSE u.INT_STATUS

\* One rising clock edge.
UartClock(u, req, rx_i, cts_i) ==
  [CONFIG     |-> UartRegister(u, req, "CONFIG"),
   BAUDRATE   |-> UartRegister(u, req, "BAUDRATE"),
   INT_CONFIG |-> UartRegister(u, req, "INT_CONFIG"),
   INT_STATUS |-> UartFlag(u, req),
   tx         |-> TxNext(u, req, cts_i),
   tx_o       |-> TxLine(u),
   tx_data    |-> IF Accepts(u, req, cts_i) THEN req.data \cap (0..DataBits) ELSE u.tx_data,
   tx_active  |-> TxActive(u),
   sync       |-> <<rx_i, u.sync[1]>>,
   rx         |-> RxNext(u),
   rx_data    |-> RxShifted(u),
   RX_DATA    |-> IF RxDelivers(u) THEN u.rx_data ELSE u.RX_DATA,
   rx_ready   |-> RxReady(u, req),
   parity_error |-> RxParity(u)]

UartStatus(u) ==
  UNION {IF u.tx_active THEN TINYMCU_UART_STATUS_TX_ACTIVE ELSE {},
         IF u.rx_ready THEN TINYMCU_UART_STATUS_RX_READY ELSE {},
         IF u.parity_error THEN TINYMCU_UART_STATUS_PARITY_ERROR ELSE {}}
UartRead(u, reg) == CASE reg = "STATUS" -> UartStatus(u)
                      [] reg = "TX_DATA" -> {}
                      [] OTHER -> u[reg]
Rts(u) == UART_BIT_RTS_ENABLE \in u.CONFIG => ~u.rx_ready
UartIrq(u) == 0 \in u.INT_STATUS
=============================================================================
