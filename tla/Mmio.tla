-------------------------------- MODULE Mmio --------------------------------
(***************************************************************************)
(* How a C function of sw/lib reaches a peripheral.  A register word is a  *)
(* set of bit numbers (a counter or compare register is a number), and a   *)
(* driver function is a sequence of statements on volatile registers.      *)
(*                                                                         *)
(* One statement is one or more bus accesses: `REG |= m` is a load and a   *)
(* store with the processor's register in between, `while (REG & m)` is a  *)
(* load that repeats.  The peripherals answer and act in the same clock,   *)
(* so an access is one clock edge; any number of edges may lie between two *)
(* accesses, and an interrupt may be taken there.                          *)
(***************************************************************************)
EXTENDS Naturals, Sequences

\* REG = (REG & ~clr | set) ^ flip
Modify(dev, reg, clr, set, flip) ==
  [op |-> "modify", dev |-> dev, reg |-> reg, clr |-> clr, set |-> set, flip |-> flip]
SetBits(dev, reg, m)    == Modify(dev, reg, {}, m, {})
ClearBits(dev, reg, m)  == Modify(dev, reg, m, {}, {})
ToggleBits(dev, reg, m) == Modify(dev, reg, {}, {}, m)

\* REG = v
Assign(dev, reg, v) == [op |-> "assign", dev |-> dev, reg |-> reg, val |-> v]

\* return REG & m
Get(dev, reg, m) == [op |-> "get", dev |-> dev, reg |-> reg, mask |-> m]

\* while (REG & m) ; while (!(REG & m)) ; while (REG < n)
WhileSet(dev, reg, m)   == [op |-> "whileSet", dev |-> dev, reg |-> reg, mask |-> m]
WhileClear(dev, reg, m) == [op |-> "whileClear", dev |-> dev, reg |-> reg, mask |-> m]
WhileLess(dev, reg, n)  == [op |-> "whileLess", dev |-> dev, reg |-> reg, val |-> n]

\* One instruction on a CSR; one on the program's own memory; a return or a
\* branch; `while (1) ;`.
CsrSet(csr, m)   == [op |-> "csrs", reg |-> csr, mask |-> m]
CsrClear(csr, m) == [op |-> "csrc", reg |-> csr, mask |-> m]
CsrPut(csr, v)   == [op |-> "csrw", reg |-> csr, val |-> v]
CsrGet(csr)      == [op |-> "csrr", reg |-> csr]
Local(name)      == [op |-> "local", name |-> name]
Return           == Local("return")
Spin             == [op |-> "spin"]

BusOps == {"modify", "assign", "get", "whileSet", "whileClear", "whileLess"}

-----------------------------------------------------------------------------
\* The clock of a peripheral that nobody addresses.
NoReq == [dev |-> "none", reg |-> "none", we |-> FALSE, data |-> {}]
ReadReq(dev, reg)     == [dev |-> dev, reg |-> reg, we |-> FALSE, data |-> {}]
WriteReq(dev, reg, v) == [dev |-> dev, reg |-> reg, we |-> TRUE, data |-> v]
Writes(req, dev, reg) == req.dev = dev /\ req.reg = reg /\ req.we
Reads(req, dev, reg)  == req.dev = dev /\ req.reg = reg /\ ~req.we

\* A thread: the statements it has left, the word a read-modify-write has
\* loaded (as a one-element sequence), and the value the last call returned.
Thread(code) == [code |-> code, acc |-> <<>>, ret |-> {}]
Done(th)     == th.code = <<>>
At(th, stmt) == ~Done(th) /\ Head(th.code) = stmt
Call(th, code) == [th EXCEPT !.code = code]

Stored(s, w) == LET v == (w \ s.clr) \cup s.set
                IN  (v \ s.flip) \cup (s.flip \ v)

\* The access of the thread's next step.
Request(th) ==
  IF Done(th) \/ Head(th.code).op \notin BusOps THEN NoReq
  ELSE LET s == Head(th.code) IN
       CASE s.op = "assign" -> WriteReq(s.dev, s.reg, s.val)
         [] s.op = "modify" /\ th.acc # <<>> -> WriteReq(s.dev, s.reg, Stored(s, th.acc[1]))
         [] OTHER -> ReadReq(s.dev, s.reg)

\* The thread behind that step, `word` being what a read returned.
Stepped(th, word) ==
  LET s == Head(th.code)
      next == [th EXCEPT !.code = Tail(@), !.acc = <<>>]
  IN CASE s.op = "modify" /\ th.acc = <<>> -> [th EXCEPT !.acc = <<word>>]
       [] s.op = "spin"       -> th
       [] s.op = "get"        -> [next EXCEPT !.ret = word \cap s.mask]
       [] s.op = "csrr"       -> [next EXCEPT !.ret = word]
       [] s.op = "whileSet"   -> IF word \cap s.mask # {} THEN th ELSE next
       [] s.op = "whileClear" -> IF word \cap s.mask = {} THEN th ELSE next
       [] s.op = "whileLess"  -> IF word < s.val THEN th ELSE next
       [] OTHER -> next
=============================================================================
