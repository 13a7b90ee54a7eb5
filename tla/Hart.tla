-------------------------------- MODULE Hart --------------------------------
(***************************************************************************)
(* The processor as a program of sw/ meets it: main, the trap handler that *)
(* interrupts it, and the CSRs that decide when.  TinyCpu is the detailed  *)
(* pipeline; here one step is one clock edge in which the processor either *)
(* works inside (an instruction without a bus access, a stall) or performs *)
(* one access of a driver function.                                        *)
(***************************************************************************)
EXTENDS Mmio

HartReset(code) ==
  [main |-> Thread(code), isr |-> Thread(<<>>), trapped |-> FALSE,
   MIE |-> FALSE, MPIE |-> FALSE, mie |-> {}, mtvec |-> "none", idle |-> 0,
   lost |-> FALSE,  \* the last trap did not reach the handler
   torn |-> FALSE]  \* a trap since the reset did not return where it came from

Running(h) == IF h.trapped THEN h.isr ELSE h.main
\* Mutant: a pending interrupt is taken whether it is enabled or not.
Mut_Interrupted(h, mip) == h.MIE /\ mip # {}
Interrupted(h, mip) == h.MIE /\ mip \cap h.mie # {}

\* What the bus sees in a clock in which the processor gets on.
HartReq(h, mip) == IF Interrupted(h, mip) THEN NoReq ELSE Request(Running(h))

\* Behind a torn trap handlers run as ever; what runs else is not known.
Astray(h) == h.torn /\ ~h.trapped

\* A clock spent inside the processor; `max` bounds how many follow each other.
Idles(h, h2, max) == \/ h.idle < max /\ h2 = [h EXCEPT !.idle = @ + 1]
                     \/ Astray(h) /\ h2 = h

\* The next statement of the running thread.
WithThread(h, th) == IF h.trapped THEN [h EXCEPT !.isr = th, !.idle = 0]
                     ELSE [h EXCEPT !.main = th, !.idle = 0]
CanExecute(h, mip) == ~Interrupted(h, mip) /\ ~Done(Running(h))
Executed(h, word) ==
  LET s == Head(Running(h).code)
      g == WithThread(h, Stepped(Running(h), word))
  IN  CASE s.op = "csrw" -> [g EXCEPT !.mtvec = s.val]
        [] s.op = "csrs" /\ s.reg = "mie" -> [g EXCEPT !.mie = @ \cup s.mask]
        [] s.op = "csrc" /\ s.reg = "mie" -> [g EXCEPT !.mie = @ \ s.mask]
        [] s.op = "csrs" /\ s.reg = "mstatus" -> [g EXCEPT !.MIE = TRUE]
        [] s.op = "csrc" /\ s.reg = "mstatus" -> [g EXCEPT !.MIE = FALSE]
        [] OTHER -> g

\* The handler is entered: the stub saves the registers and calls it.
Trapped(h, handler) ==
  [h EXCEPT !.trapped = TRUE, !.isr = Thread(handler),
            !.MPIE = h.MIE, !.MIE = FALSE, !.idle = 0, !.lost = FALSE]

\* A trap in the clock that ends a stall: interrupts are off, mepc and mcause
\* written, and the program goes on, for the rewind wins over the redirect.
Lost(h) == [h EXCEPT !.MPIE = h.MIE, !.MIE = FALSE, !.idle = 0, !.lost = TRUE]

\* A trap that does not return where it came from: mepc names a fetch that
\* was squashed, or an instruction that has made its access or changed its
\* own operands when it runs again.  What runs is no longer main.
Torn(h, handler) == [Trapped(h, handler) EXCEPT !.torn = TRUE, !.main = Thread(<<>>)]

\* What may become of a trap.  It is precise if EX holds an instruction that
\* may as well run twice, or a bubble that stands for the next one.
TrapOutcomes(h, handler) ==
  {Trapped(h, handler), Torn(h, handler)} \cup (IF h.idle > 0 THEN {Lost(h)} ELSE {})
Traps(h, h2, mip, handler) == Interrupted(h, mip) /\ h2 \in TrapOutcomes(h, handler)

\* Mutant: interrupts stay off behind the handler.
Mut_Mretted(h) == [h EXCEPT !.trapped = FALSE, !.idle = 0]

\* The stub's MRET: to where main was interrupted, or astray.
Mretted(h) == [h EXCEPT !.trapped = FALSE, !.MIE = h.MPIE, !.idle = 0]
Mrets(h, h2) == h.trapped /\ Done(h.isr) /\ h2 = Mretted(h)
=============================================================================
