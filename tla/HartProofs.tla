----------------------------- MODULE HartProofs -----------------------------
(***************************************************************************)
(* What one clock does to the processor of Hart, for any program: lemmas   *)
(* for the proofs about systems built on it.                               *)
(***************************************************************************)
EXTENDS Hart, SequenceTheorems, TLAPS

\* A thread and the processor are the records Mmio and Hart make them.
ThreadShape(th) == th = [code |-> th.code, acc |-> th.acc, ret |-> th.ret]
HartShape(h) ==
  /\ h = [main |-> h.main, isr |-> h.isr, trapped |-> h.trapped, MIE |-> h.MIE,
          MPIE |-> h.MPIE, mie |-> h.mie, mtvec |-> h.mtvec, idle |-> h.idle,
          lost |-> h.lost, torn |-> h.torn]
  /\ ThreadShape(h.main) /\ ThreadShape(h.isr)
  /\ h.trapped \in BOOLEAN /\ h.MIE \in BOOLEAN /\ h.MPIE \in BOOLEAN
  /\ h.lost \in BOOLEAN /\ h.torn \in BOOLEAN

LEMMA ResetShape ==
  ASSUME NEW code
  PROVE  /\ HartShape(HartReset(code)) /\ HartReset(code).main.code = code
         /\ HartReset(code).main.acc = <<>> /\ HartReset(code).trapped = FALSE
         /\ HartReset(code).MIE = FALSE /\ HartReset(code).torn = FALSE
  BY DEF HartReset, Thread, HartShape, ThreadShape

LEMMA RunningShape ==
  ASSUME NEW h, HartShape(h)
  PROVE  ThreadShape(Running(h))
  BY DEF HartShape, Running

LEMMA CalledShape ==
  ASSUME NEW th, ThreadShape(th), NEW code
  PROVE  /\ ThreadShape(Call(th, code))
         /\ Call(th, code) = [code |-> code, acc |-> th.acc, ret |-> th.ret]
<1> DEFINE c == Call(th, code)
<1>1. c = [th EXCEPT !.code = code]
  BY DEF Call
<1> HIDE DEF c
<1>2. c = [code |-> code, acc |-> th.acc, ret |-> th.ret]
  BY <1>1 DEF ThreadShape
<1>3. ThreadShape(c)
  BY <1>2 DEF ThreadShape
<1>4. QED
  BY <1>2, <1>3 DEF c

-----------------------------------------------------------------------------
(* Code. *)

\* The first of a sequence of statements, and what it leaves.
LEMMA FirstStatement ==
  ASSUME NEW S, NEW a \in S, NEW s \in Seq(S)
  PROVE  /\ <<a>> \o s \in Seq(S) /\ <<a>> \o s # <<>>
         /\ Head(<<a>> \o s) = a /\ Tail(<<a>> \o s) = s
<1> DEFINE c == <<a>> \o s
<1>1. <<a>> \in Seq(S) /\ Len(<<a>>) = 1 /\ <<a>>[1] = a
  OBVIOUS
<1>2. /\ c \in Seq(S) /\ Len(c) = 1 + Len(s)
      /\ \A i \in 1..(1 + Len(s)) : c[i] = IF i <= 1 THEN <<a>>[i] ELSE s[i - 1]
  BY <1>1, ConcatProperties
<1> HIDE DEF c
<1>3. Len(s) \in Nat
  BY LenProperties
<1>4. c # <<>>
  BY <1>2, <1>3
<1>5. Head(c) = a
  BY <1>1, <1>2, <1>3, <1>4
<1>6. Tail(c) = s
  <2> DEFINE t == Tail(c)
  <2>1. t \in Seq(S) /\ Len(t) = Len(c) - 1 /\ \A i \in 1..Len(t) : t[i] = c[i + 1]
    BY <1>2, <1>4, HeadTailProperties
  <2> HIDE DEF t
  <2>2. Len(t) = Len(s) /\ \A i \in 1..Len(t) : t[i] = s[i]
    BY <1>2, <1>3, <2>1
  <2>3. t = s
    BY <2>1, <2>2, SeqEqual
  <2>4. QED
    BY <2>3 DEF t
<1>7. QED
  BY <1>2, <1>4, <1>5, <1>6 DEF c

LEMMA PairIs ==
  ASSUME NEW a, NEW b
  PROVE  <<a>> \o <<b>> = <<a, b>>
<1> DEFINE S == {a, b}
           l == <<a>> \o <<b>>
           r == <<a, b>>
<1>1. <<a>> \in Seq(S) /\ <<b>> \in Seq(S) /\ r \in Seq(S)
  OBVIOUS
<1>2. /\ l \in Seq(S) /\ Len(l) = 2
      /\ \A i \in 1..2 : l[i] = IF i <= 1 THEN <<a>>[i] ELSE <<b>>[i - 1]
  <2>1. Len(<<a>>) = 1 /\ Len(<<b>>) = 1
    OBVIOUS
  <2> HIDE DEF S
  <2>2. QED
    BY <1>1, <2>1, ConcatProperties
<1>3. Len(r) = 2 /\ r[1] = a /\ r[2] = b /\ l[1] = a /\ l[2] = b
  <2> HIDE DEF l
  <2>1. QED
    BY <1>2
<1>4. \A i \in 1..Len(l) : l[i] = r[i]
  <2> HIDE DEF l, r, S
  <2>1. QED
    BY <1>2, <1>3
<1> HIDE DEF l, r, S
<1>5. l = r
  BY <1>1, <1>2, <1>3, <1>4, SeqEqual
<1>6. QED
  BY <1>5 DEF l, r

\* What is left to do: c is t behind statements of S.
EndsIn(c, t, S) == \E p \in Seq(S) : c = p \o t

LEMMA Ending ==
  ASSUME NEW Q, NEW S, S \subseteq Q, NEW t \in Seq(Q), NEW c, EndsIn(c, t, S)
  PROVE  \/ c = t
         \/ c # <<>> /\ Head(c) \in S /\ EndsIn(Tail(c), t, S)
<1>1. PICK p \in Seq(S) : c = p \o t
  BY DEF EndsIn
<1>2. CASE p = <<>>
  BY <1>1, <1>2, ConcatEmptySeq
<1>3. CASE p # <<>>
  <2> DEFINE h == Head(p)
             q == Tail(p)
  <2>1. h \in S /\ q \in Seq(S) /\ p = <<h>> \o q
    BY <1>3, HeadTailProperties
  <2>2. h \in Q /\ q \in Seq(Q) /\ <<h>> \in Seq(Q)
    BY <2>1
  <2> HIDE DEF h, q
  <2>3. c = <<h>> \o (q \o t)
    BY <1>1, <2>1, <2>2, ConcatAssociative
  <2>4. q \o t \in Seq(Q)
    BY <2>2, ConcatProperties
  <2>5. c # <<>> /\ Head(c) = h /\ Tail(c) = q \o t
    BY <2>2, <2>3, <2>4, FirstStatement
  <2>6. QED
    BY <2>1, <2>5 DEF EndsIn
<1>4. QED
  BY <1>2, <1>3

-----------------------------------------------------------------------------
(* A statement. *)

\* A thread behind a statement, with what a call has returned.
Behind(th, r) == [code |-> Tail(th.code), acc |-> <<>>, ret |-> r]

LEMMA BehindIs ==
  ASSUME NEW th, ThreadShape(th)
  PROVE  /\ [th EXCEPT !.code = Tail(@), !.acc = <<>>] = Behind(th, th.ret)
         /\ \A r : [[th EXCEPT !.code = Tail(@), !.acc = <<>>] EXCEPT !.ret = r] = Behind(th, r)
<1> DEFINE next == [th EXCEPT !.code = Tail(@), !.acc = <<>>]
<1>1. next = Behind(th, th.ret)
  <2> DEFINE n == [th EXCEPT !.code = Tail(th.code), !.acc = <<>>]
  <2>1. next = n
    OBVIOUS
  <2>2. n = Behind(th, th.ret)
    <3>1. n = [th EXCEPT !.code = Tail(th.code), !.acc = <<>>]
      OBVIOUS
    <3> HIDE DEF n
    <3>2. QED
      BY <3>1 DEF ThreadShape, Behind
  <2>3. QED
    BY <2>1, <2>2
<1> HIDE DEF next
<1>2. ASSUME NEW r PROVE [next EXCEPT !.ret = r] = Behind(th, r)
  <2> DEFINE n == [next EXCEPT !.ret = r]
  <2>1. n = [next EXCEPT !.ret = r]
    OBVIOUS
  <2> HIDE DEF n
  <2>2. n = Behind(th, r)
    BY <1>1, <2>1 DEF Behind
  <2>3. QED
    BY <2>2 DEF n
<1>3. QED
  BY <1>1, <1>2 DEF next

\* A statement that ends in this step.
LEMMA SteppedOn ==
  ASSUME NEW th, ThreadShape(th), NEW word,
         \/ Head(th.code).op \in {"assign", "local", "csrs", "csrc", "csrw"}
         \/ Head(th.code).op = "modify" /\ th.acc # <<>>
  PROVE  Stepped(th, word) = Behind(th, th.ret)
<1>1. Stepped(th, word) = [th EXCEPT !.code = Tail(@), !.acc = <<>>]
  <2>1. CASE Head(th.code).op = "modify" /\ th.acc # <<>>
    BY <2>1 DEF Stepped
  <2>2. CASE Head(th.code).op \in {"assign", "local", "csrs", "csrc", "csrw"}
    BY <2>2 DEF Stepped
  <2>3. QED
    BY <2>1, <2>2
<1>2. QED
  BY <1>1, BehindIs

\* The load of a read-modify-write.
LEMMA SteppedLoad ==
  ASSUME NEW th, ThreadShape(th), NEW word, Head(th.code).op = "modify", th.acc = <<>>
  PROVE  Stepped(th, word) = [code |-> th.code, acc |-> <<word>>, ret |-> th.ret]
<1> DEFINE n == Stepped(th, word)
<1>1. n = [th EXCEPT !.acc = <<word>>]
  BY DEF Stepped
<1> HIDE DEF n
<1>2. n = [code |-> th.code, acc |-> <<word>>, ret |-> th.ret]
  BY <1>1 DEF ThreadShape
<1>3. QED
  BY <1>2 DEF n

\* A statement that returns a value.
LEMMA SteppedGet ==
  ASSUME NEW th, ThreadShape(th), NEW word
  PROVE  /\ Head(th.code).op = "get"
             => Stepped(th, word) = Behind(th, word \cap Head(th.code).mask)
         /\ Head(th.code).op = "csrr" => Stepped(th, word) = Behind(th, word)
<1>1. ASSUME Head(th.code).op = "get"
      PROVE  Stepped(th, word) = Behind(th, word \cap Head(th.code).mask)
  <2>1. Stepped(th, word) = [[th EXCEPT !.code = Tail(@), !.acc = <<>>]
                               EXCEPT !.ret = word \cap Head(th.code).mask]
    BY <1>1 DEF Stepped
  <2>2. QED
    BY <2>1, BehindIs
<1>2. ASSUME Head(th.code).op = "csrr"
      PROVE  Stepped(th, word) = Behind(th, word)
  <2>1. Stepped(th, word) = [[th EXCEPT !.code = Tail(@), !.acc = <<>>] EXCEPT !.ret = word]
    BY <1>2 DEF Stepped
  <2>2. QED
    BY <2>1, BehindIs
<1>3. QED
  BY <1>1, <1>2

\* A loop goes on or is left behind.
LEMMA SteppedLoop ==
  ASSUME NEW th, ThreadShape(th), NEW word
  PROVE  LET s == Head(th.code)
             n == Stepped(th, word)
         IN /\ s.op = "whileSet"
                 => n = IF word \cap s.mask # {} THEN th ELSE Behind(th, th.ret)
            /\ s.op = "whileClear"
                 => n = IF word \cap s.mask = {} THEN th ELSE Behind(th, th.ret)
            /\ s.op = "whileLess" => n = th \/ n = Behind(th, th.ret)
            /\ s.op = "spin" => n = th
<1> DEFINE s == Head(th.code)
           n == Stepped(th, word)
           b == [th EXCEPT !.code = Tail(@), !.acc = <<>>]
<1>1. b = Behind(th, th.ret)
  BY BehindIs
<1>2. s.op = "whileSet" => n = IF word \cap s.mask # {} THEN th ELSE b
  BY DEF Stepped
<1>3. s.op = "whileClear" => n = IF word \cap s.mask = {} THEN th ELSE b
  BY DEF Stepped
<1>4. s.op = "whileLess" => n = IF word < s.val THEN th ELSE b
  BY DEF Stepped
<1>5. s.op = "spin" => n = th
  BY DEF Stepped
<1> HIDE DEF b, n, s
<1>6. QED
  BY <1>1, <1>2, <1>3, <1>4, <1>5 DEF n, s

\* Any statement but a loop repeats with a loaded word or is left behind.
LEMMA SteppedShape ==
  ASSUME NEW th, ThreadShape(th), NEW word,
         Head(th.code).op \in {"modify", "assign", "get", "local", "csrs", "csrc", "csrw", "csrr"}
  PROVE  /\ ThreadShape(Stepped(th, word))
         /\ \/ Head(th.code).op = "modify" /\ Stepped(th, word).code = th.code
            \/ Stepped(th, word).code = Tail(th.code) /\ Stepped(th, word).acc = <<>>
<1>1. CASE Head(th.code).op \in {"assign", "local", "csrs", "csrc", "csrw"}
  BY <1>1, SteppedOn DEF Behind, ThreadShape
<1>2. CASE Head(th.code).op = "modify"
  BY <1>2, SteppedOn, SteppedLoad DEF Behind, ThreadShape
<1>3. CASE Head(th.code).op \in {"get", "csrr"}
  BY <1>3, SteppedGet DEF Behind, ThreadShape
<1>4. QED
  BY <1>1, <1>2, <1>3

-----------------------------------------------------------------------------
(* A clock. *)

\* The processor with the running thread moved on to th.
LEMMA WithThreadIs ==
  ASSUME NEW h, HartShape(h), NEW th, ThreadShape(th)
  PROVE  /\ HartShape(WithThread(h, th))
         /\ WithThread(h, th) =
              [main |-> IF h.trapped THEN h.main ELSE th,
               isr |-> IF h.trapped THEN th ELSE h.isr,
               trapped |-> h.trapped, MIE |-> h.MIE, MPIE |-> h.MPIE,
               mie |-> h.mie, mtvec |-> h.mtvec, idle |-> 0,
               lost |-> h.lost, torn |-> h.torn]
<1> DEFINE g == WithThread(h, th)
<1>1. g = IF h.trapped THEN [h EXCEPT !.isr = th, !.idle = 0]
                       ELSE [h EXCEPT !.main = th, !.idle = 0]
  BY DEF WithThread
<1> HIDE DEF g
<1>2. g = [main |-> IF h.trapped THEN h.main ELSE th,
           isr |-> IF h.trapped THEN th ELSE h.isr,
           trapped |-> h.trapped, MIE |-> h.MIE, MPIE |-> h.MPIE,
           mie |-> h.mie, mtvec |-> h.mtvec, idle |-> 0,
           lost |-> h.lost, torn |-> h.torn]
  <2>1. CASE h.trapped
    BY <1>1, <2>1 DEF HartShape
  <2>2. CASE ~h.trapped
    BY <1>1, <2>2 DEF HartShape
  <2>3. QED
    BY <2>1, <2>2
<1>3. HartShape(g)
  <2>1. CASE h.trapped
    BY <1>2, <2>1 DEF HartShape
  <2>2. CASE ~h.trapped
    BY <1>2, <2>2 DEF HartShape
  <2>3. QED
    BY <2>1, <2>2
<1>4. QED
  BY <1>2, <1>3 DEF g

\* A statement moves the running thread and leaves the other; only the CSR
\* instructions on mstatus change MIE.
LEMMA ExecutedIs ==
  ASSUME NEW h, HartShape(h), NEW word, ThreadShape(Stepped(Running(h), word))
  PROVE  LET e == Executed(h, word)
             s == Head(Running(h).code)
         IN /\ HartShape(e) /\ e.trapped = h.trapped /\ e.MPIE = h.MPIE
            /\ e.lost = h.lost /\ e.torn = h.torn
            /\ e.main = IF h.trapped THEN h.main ELSE Stepped(Running(h), word)
            /\ e.isr = IF h.trapped THEN Stepped(Running(h), word) ELSE h.isr
            /\ s.op \in {"csrs", "csrc"} /\ s.reg = "mstatus" => e.MIE = (s.op = "csrs")
            /\ (s.op \in {"csrs", "csrc"} /\ s.reg = "mstatus") \/ e.MIE = h.MIE
<1> DEFINE th == Stepped(Running(h), word)
           e  == Executed(h, word)
           s  == Head(Running(h).code)
           g  == WithThread(h, th)
           Becomes(M, m, V) ==
             e = [main |-> IF h.trapped THEN h.main ELSE th,
                  isr |-> IF h.trapped THEN th ELSE h.isr,
                  trapped |-> h.trapped, MIE |-> M, MPIE |-> h.MPIE,
                  mie |-> m, mtvec |-> V, idle |-> 0,
                  lost |-> h.lost, torn |-> h.torn]
<1>1. g = [main |-> IF h.trapped THEN h.main ELSE th,
           isr |-> IF h.trapped THEN th ELSE h.isr,
           trapped |-> h.trapped, MIE |-> h.MIE, MPIE |-> h.MPIE,
           mie |-> h.mie, mtvec |-> h.mtvec, idle |-> 0,
           lost |-> h.lost, torn |-> h.torn]
  BY WithThreadIs
<1>2. e = CASE s.op = "csrw" -> [g EXCEPT !.mtvec = s.val]
            [] s.op = "csrs" /\ s.reg = "mie" -> [g EXCEPT !.mie = @ \cup s.mask]
            [] s.op = "csrc" /\ s.reg = "mie" -> [g EXCEPT !.mie = @ \ s.mask]
            [] s.op = "csrs" /\ s.reg = "mstatus" -> [g EXCEPT !.MIE = TRUE]
            [] s.op = "csrc" /\ s.reg = "mstatus" -> [g EXCEPT !.MIE = FALSE]
            [] OTHER -> g
  BY DEF Executed
<1>3. ThreadShape(th)
  OBVIOUS
<1> HIDE DEF th, e, s, g
<1>4. ASSUME NEW M \in BOOLEAN, NEW m, NEW V, Becomes(M, m, V)
      PROVE  /\ HartShape(e) /\ e.trapped = h.trapped /\ e.MPIE = h.MPIE /\ e.MIE = M
             /\ e.lost = h.lost /\ e.torn = h.torn
             /\ e.main = IF h.trapped THEN h.main ELSE th
             /\ e.isr = IF h.trapped THEN th ELSE h.isr
  <2>1. CASE h.trapped
    BY <1>3, <1>4, <2>1 DEF HartShape
  <2>2. CASE ~h.trapped
    BY <1>3, <1>4, <2>2 DEF HartShape
  <2>3. QED
    BY <2>1, <2>2
<1>5. \/ /\ s.op \in {"csrs", "csrc"} /\ s.reg = "mstatus"
         /\ \E m, V : Becomes(s.op = "csrs", m, V)
      \/ /\ ~(s.op \in {"csrs", "csrc"} /\ s.reg = "mstatus")
         /\ \E m, V : Becomes(h.MIE, m, V)
  <2>1. CASE s.op = "csrw"
    <3>1. e = [g EXCEPT !.mtvec = s.val]
      BY <1>2, <2>1
    <3>2. Becomes(h.MIE, h.mie, s.val)
      BY <1>1, <3>1
    <3>3. QED
      BY <2>1, <3>2
  <2>2. CASE s.op = "csrs" /\ s.reg = "mie"
    <3>1. e = [g EXCEPT !.mie = @ \cup s.mask]
      BY <1>2, <2>2
    <3>2. Becomes(h.MIE, h.mie \cup s.mask, h.mtvec)
      BY <1>1, <3>1
    <3>3. QED
      BY <2>2, <3>2
  <2>3. CASE s.op = "csrc" /\ s.reg = "mie"
    <3>1. e = [g EXCEPT !.mie = @ \ s.mask]
      BY <1>2, <2>3
    <3>2. Becomes(h.MIE, h.mie \ s.mask, h.mtvec)
      BY <1>1, <3>1
    <3>3. QED
      BY <2>3, <3>2
  <2>4. CASE s.op = "csrs" /\ s.reg = "mstatus"
    <3>1. e = [g EXCEPT !.MIE = TRUE]
      BY <1>2, <2>4
    <3>2. Becomes(TRUE, h.mie, h.mtvec)
      BY <1>1, <3>1
    <3>3. Becomes(s.op = "csrs", h.mie, h.mtvec)
      BY <2>4, <3>2
    <3>4. QED
      BY <2>4, <3>3
  <2>5. CASE s.op = "csrc" /\ s.reg = "mstatus"
    <3>1. e = [g EXCEPT !.MIE = FALSE]
      BY <1>2, <2>5
    <3>2. Becomes(FALSE, h.mie, h.mtvec)
      BY <1>1, <3>1
    <3>3. (s.op = "csrs") = FALSE
      BY <2>5
    <3>4. Becomes(s.op = "csrs", h.mie, h.mtvec)
      BY <3>2, <3>3
    <3>5. QED
      BY <2>5, <3>4
  <2>6. CASE /\ s.op # "csrw" /\ ~(s.op = "csrs" /\ s.reg \in {"mie", "mstatus"})
             /\ ~(s.op = "csrc" /\ s.reg \in {"mie", "mstatus"})
    <3>1. e = g
      BY <1>2, <2>6
    <3>2. Becomes(h.MIE, h.mie, h.mtvec)
      BY <1>1, <3>1
    <3>3. QED
      BY <2>6, <3>2
  <2>7. QED
    BY <2>1, <2>2, <2>3, <2>4, <2>5, <2>6
<1>6. h.MIE \in BOOLEAN /\ (s.op = "csrs") \in BOOLEAN
  BY DEF HartShape
<1> HIDE DEF Becomes
<1>7. QED
  BY <1>4, <1>5, <1>6 DEF th, e, s

LEMMA IdlesIs ==
  ASSUME NEW h, HartShape(h), NEW h2, NEW max, Idles(h, h2, max)
  PROVE  /\ HartShape(h2) /\ h2.main = h.main /\ h2.isr = h.isr
         /\ h2.trapped = h.trapped /\ h2.MIE = h.MIE /\ h2.MPIE = h.MPIE
         /\ h2.mie = h.mie /\ h2.lost = h.lost /\ h2.torn = h.torn
<1>1. CASE h2 = [h EXCEPT !.idle = @ + 1]
  BY <1>1 DEF HartShape
<1>2. CASE h2 = h
  BY <1>2
<1>3. QED
  BY <1>1, <1>2 DEF Idles

\* A trap: precise, torn or lost.
LEMMA TrapsIs ==
  ASSUME NEW h, HartShape(h), NEW h2, NEW mip, NEW handler, Traps(h, h2, mip, handler)
  PROVE  /\ HartShape(h2) /\ h2.MIE = FALSE /\ h.MIE = TRUE /\ h2.MPIE = TRUE
         /\ h2.mie = h.mie /\ mip \cap h.mie # {}
         /\ \/ /\ h2.trapped = TRUE /\ h2.isr = Thread(handler) /\ h2.main = h.main
               /\ h2.torn = h.torn /\ h2.lost = FALSE
            \/ /\ h2.trapped = TRUE /\ h2.isr = Thread(handler) /\ h2.main = Thread(<<>>)
               /\ h2.torn = TRUE /\ h2.lost = FALSE
            \/ /\ h2.trapped = h.trapped /\ h2.isr = h.isr /\ h2.main = h.main
               /\ h2.torn = h.torn /\ h2.lost = TRUE
<1>1. h.MIE = TRUE /\ mip \cap h.mie # {}
  BY DEF Traps, Interrupted, HartShape
<1>2. \/ h2 = Trapped(h, handler)
      \/ h2 = Torn(h, handler)
      \/ h2 = Lost(h)
  BY DEF Traps, TrapOutcomes
<1>3. CASE h2 = Trapped(h, handler)
  <2>1. h2 = [main |-> h.main, isr |-> Thread(handler), trapped |-> TRUE, MIE |-> FALSE,
              MPIE |-> h.MIE, mie |-> h.mie, mtvec |-> h.mtvec, idle |-> 0,
              lost |-> FALSE, torn |-> h.torn]
    BY <1>3 DEF Trapped, HartShape
  <2>2. QED
    BY <1>1, <2>1 DEF HartShape, Thread, ThreadShape
<1>4. CASE h2 = Torn(h, handler)
  <2>1. h2 = [main |-> Thread(<<>>), isr |-> Thread(handler), trapped |-> TRUE, MIE |-> FALSE,
              MPIE |-> h.MIE, mie |-> h.mie, mtvec |-> h.mtvec, idle |-> 0,
              lost |-> FALSE, torn |-> TRUE]
    BY <1>4 DEF Torn, Trapped, HartShape
  <2>2. QED
    BY <1>1, <2>1 DEF HartShape, Thread, ThreadShape
<1>5. CASE h2 = Lost(h)
  <2>1. h2 = [main |-> h.main, isr |-> h.isr, trapped |-> h.trapped, MIE |-> FALSE,
              MPIE |-> h.MIE, mie |-> h.mie, mtvec |-> h.mtvec, idle |-> 0,
              lost |-> TRUE, torn |-> h.torn]
    BY <1>5 DEF Lost, HartShape
  <2>2. QED
    BY <1>1, <2>1 DEF HartShape
<1>6. QED
  BY <1>2, <1>3, <1>4, <1>5

LEMMA MretsIs ==
  ASSUME NEW h, HartShape(h), NEW h2, Mrets(h, h2)
  PROVE  /\ HartShape(h2) /\ h2.main = h.main /\ h2.isr = h.isr /\ h2.trapped = FALSE
         /\ h2.MIE = h.MPIE /\ h2.MPIE = h.MPIE /\ h2.mie = h.mie
         /\ h2.lost = h.lost /\ h2.torn = h.torn
         /\ h.trapped /\ h.isr.code = <<>>
<1>1. h2 = [main |-> h.main, isr |-> h.isr, trapped |-> FALSE, MIE |-> h.MPIE,
            MPIE |-> h.MPIE, mie |-> h.mie, mtvec |-> h.mtvec, idle |-> 0,
            lost |-> h.lost, torn |-> h.torn]
  BY DEF Mrets, Mretted, HartShape
<1>2. QED
  BY <1>1 DEF HartShape, Mrets, Done

\* A torn trap is never undone.
IsTorn(h) == "torn" \in DOMAIN h /\ h.torn = TRUE

LEMMA TornStays ==
  ASSUME NEW h, IsTorn(h), NEW h2, NEW word, NEW max, NEW mip, NEW handler,
         \/ Idles(h, h2, max) \/ h2 = Executed(h, word)
         \/ Traps(h, h2, mip, handler) \/ Mrets(h, h2)
  PROVE  IsTorn(h2)
<1>1. CASE Idles(h, h2, max)
  BY <1>1 DEF Idles, IsTorn
<1>2. CASE h2 = Executed(h, word)
  <2> DEFINE th == Stepped(Running(h), word)
             g  == WithThread(h, th)
             s  == Head(Running(h).code)
  <2>1. IsTorn(g)
    BY DEF IsTorn, WithThread
  <2>2. h2 = CASE s.op = "csrw" -> [g EXCEPT !.mtvec = s.val]
               [] s.op = "csrs" /\ s.reg = "mie" -> [g EXCEPT !.mie = @ \cup s.mask]
               [] s.op = "csrc" /\ s.reg = "mie" -> [g EXCEPT !.mie = @ \ s.mask]
               [] s.op = "csrs" /\ s.reg = "mstatus" -> [g EXCEPT !.MIE = TRUE]
               [] s.op = "csrc" /\ s.reg = "mstatus" -> [g EXCEPT !.MIE = FALSE]
               [] OTHER -> g
    BY <1>2 DEF Executed
  <2> HIDE DEF g, s
  <2>3. QED
    BY <2>1, <2>2 DEF IsTorn
<1>3. CASE Traps(h, h2, mip, handler)
  BY <1>3 DEF Traps, TrapOutcomes, Trapped, Torn, Lost, IsTorn
<1>4. CASE Mrets(h, h2)
  BY <1>4 DEF Mrets, Mretted, IsTorn
<1>5. QED
  BY <1>1, <1>2, <1>3, <1>4
=============================================================================
