----------------------------- MODULE MCUartPair -----------------------------
(* UartPair with two data bits and four clocks per bit, or ten.             *)
EXTENDS UartPair

Framing8N1  == <<TINYMCU_UART_CONFIG_8N1, {}, {}>>
AllFramings == {<<TINYMCU_UART_DATABITS[d], TINYMCU_UART_STOPBITS[s], TINYMCU_UART_PARITY[p]>> :
                  d \in {"b7", "b8", "b9"}, s \in {"s1", "s2"}, p \in {"none", "even", "odd"}}
AllBytes == SUBSET (0..1)
TwoBytes == {{0}, {1}}
\* No character of a C string is NUL.
Message == <<{0}, {1}, {0, 1}, {1}>>

Link(a, b, clks) ==
  [a |-> a, b |-> b, clks |-> clks, framing |-> Framing8N1, flow |-> {},
   alphabet |-> TwoBytes, idle |-> 1]

Echoes == {[Link("ping", "echo", 4) EXCEPT !.framing = f, !.alphabet = AllBytes, !.idle = 0] :
             f \in AllFramings}
MCLinks == Echoes \cup {Link("hello", "reader", 4), Link("printf", "reader", 4),
                        Link("stream", "interrupt", 4), Link("stream", "polled", 10), Link("ping", "echo", 10)}

\* Links whose runs end in a counterexample.
NoPause   == {Link("stream", "echo", 4)}
Handshake == {[Link("stream", "reader", 4) EXCEPT
                 !.flow = {UART_BIT_RTS_ENABLE, UART_BIT_CTS_ENABLE}]}
=============================================================================
