--------------------------- MODULE UartPairProofs ---------------------------
(***************************************************************************)
(* Proofs about two nodes on a serial line, for every pair of programs and *)
(* every framing: putc never meets a busy transmitter, the handler never   *)
(* waits for a byte, and no parity error is reported where none happened;  *)
(* and for a terminal and uart_echo: every byte sent comes back.           *)
(*                                                                         *)
(* The engines first, one clock at a time; then the wire between a         *)
(* transmitter and the receiver that has locked onto it; then the code of  *)
(* the programs; then a node, and both; last the talk of the two programs. *)
(***************************************************************************)
EXTENDS UartPair, HartProofs

-----------------------------------------------------------------------------
(* An engine. *)

Timing  == {"Start", "Data", "Parity", "Stop"}
States  == Timing \cup {"Idle", "Complete"}
Frames  == [baud : Nat, width : Nat, stops : Nat, parity : {"none", "even", "odd"}]
Engines == [state : States, n : Nat, counter : Nat, frame : Frames]

\* Where a bit leads.
Follows(e) == CASE e.state = "Start" -> <<"Data", 0>>
                [] e.state = "Data" -> BehindData(e, "Stop")
                [] e.state = "Parity" -> <<"Stop", 0>>
                [] OTHER -> BehindStop(e)

LEMMA FollowsIs ==
  ASSUME NEW e \in Engines, e.state \in Timing
  PROVE  /\ Follows(e)[1] \in {"Data", "Parity", "Stop", "Complete"} /\ Follows(e)[2] \in Nat
         /\ e.state = "Start" => Follows(e) = <<"Data", 0>>
         /\ e.state # "Start" => Follows(e)[1] # "Data" \/ (e.state = "Data" /\ Follows(e)[2] = e.n + 1)
         /\ e.state = "Data" /\ Follows(e)[1] # "Data" => e.n + 1 >= e.frame.width
         /\ Follows(e)[1] = "Complete" => e.state = "Stop" /\ Follows(e) = <<"Complete", 0>>
  BY DEF Follows, BehindData, BehindStop, Engines, Frames, Timing

\* One clock of an engine that times a bit.
LEMMA TimedIs ==
  ASSUME NEW e \in Engines, e.state \in Timing, NEW f, f = Timed(e, Follows(e)[1], Follows(e)[2])
  PROVE  /\ f \in Engines /\ f.frame = e.frame
         /\ IF e.counter + 1 < e.frame.baud
            THEN f.state = e.state /\ f.n = e.n /\ f.counter = e.counter + 1
            ELSE f.state = Follows(e)[1] /\ f.n = Follows(e)[2] /\ f.counter = 0
<1> DEFINE s == Follows(e)[1]
           n == Follows(e)[2]
<1>1. s \in States /\ n \in Nat
  BY FollowsIs DEF States, Timing
<1>2. e.counter \in Nat /\ e.frame \in Frames /\ e.frame.baud \in Nat /\ e.state \in States /\ e.n \in Nat
  BY DEF Engines, Frames
<1>3. e = [state |-> e.state, n |-> e.n, counter |-> e.counter, frame |-> e.frame]
  BY DEF Engines
<1> HIDE DEF s, n
<1>4. CASE e.counter + 1 < e.frame.baud
  <2>1. f = [e EXCEPT !.counter = @ + 1]
    BY <1>2, <1>4 DEF Timed, BitOver
  <2>2. f = [state |-> e.state, n |-> e.n, counter |-> e.counter + 1, frame |-> e.frame]
    BY <1>3, <2>1
  <2>3. QED
    BY <1>2, <1>4, <2>2 DEF Engines
<1>5. CASE ~(e.counter + 1 < e.frame.baud)
  <2>1. f = [e EXCEPT !.state = s, !.n = n, !.counter = 0]
    BY <1>2, <1>5 DEF Timed, BitOver, Goto, s, n
  <2>2. f = [state |-> s, n |-> n, counter |-> 0, frame |-> e.frame]
    BY <1>3, <2>1
  <2>3. QED
    BY <1>1, <1>2, <1>5, <2>2 DEF Engines, s, n
<1>6. QED
  BY <1>4, <1>5

LEMMA FrameType ==
  ASSUME NEW u, u.BAUDRATE \in Nat
  PROVE  /\ Frame(u) \in Frames
         /\ Frame(u).baud = u.BAUDRATE
<1>1. databits_reg(u.CONFIG) \in Nat
  BY UartAssumption DEF databits_reg
<1>2. stopbits_reg(u.CONFIG) \in Nat /\ parity_reg(u.CONFIG) \in {"none", "even", "odd"}
  BY DEF stopbits_reg, parity_reg
<1>3. QED
  BY <1>1, <1>2 DEF Frame, Frames

\* One clock of the transmitter.
LEMMA TxNextIs ==
  ASSUME NEW u, u.tx \in Engines, u.BAUDRATE \in Nat, NEW req, NEW cts,
         NEW f, f = TxNext(u, req, cts)
  PROVE  /\ f \in Engines
         /\ u.tx.state = "Idle" =>
              /\ f.state = IF Accepts(u, req, cts) THEN "Start" ELSE "Idle"
              /\ f.n = 0 /\ f.counter = 0 /\ f.frame = Frame(u)
         /\ u.tx.state = "Complete" =>
              f.state = "Idle" /\ f.n = 0 /\ f.counter = 0 /\ f.frame = u.tx.frame
         /\ u.tx.state \in Timing => f = Timed(u.tx, Follows(u.tx)[1], Follows(u.tx)[2])
<1> DEFINE e == u.tx
<1>1. CASE e.state = "Idle"
  <2>1. f = [state |-> IF Accepts(u, req, cts) THEN "Start" ELSE "Idle",
             n |-> 0, counter |-> 0, frame |-> Frame(u)]
    BY <1>1 DEF TxNext
  <2>2. QED
    BY <1>1, <2>1, FrameType DEF Engines, States, Timing
<1>2. CASE e.state = "Complete"
  <2>1. f = [e EXCEPT !.state = "Idle", !.n = 0, !.counter = 0]
    BY <1>2 DEF TxNext, Goto
  <2>2. f = [state |-> "Idle", n |-> 0, counter |-> 0, frame |-> e.frame]
    BY <2>1 DEF Engines
  <2>3. QED
    BY <1>2, <2>2 DEF Engines, States, Timing
<1>3. CASE e.state \in Timing
  <2>1. f = Timed(e, Follows(e)[1], Follows(e)[2])
    <3>1. CASE e.state = "Start"
      <4>1. Follows(e) = <<"Data", 0>>
        BY <3>1 DEF Follows
      <4>2. f = Timed(e, "Data", 0)
        BY <3>1 DEF TxNext
      <4>3. QED
        BY <4>1, <4>2
    <3>2. CASE e.state = "Data"
      <4>1. Follows(e) = BehindData(e, "Stop")
        BY <3>2 DEF Follows
      <4>2. f = Timed(e, BehindData(e, "Stop")[1], BehindData(e, "Stop")[2])
        BY <3>2 DEF TxNext
      <4>3. QED
        BY <4>1, <4>2
    <3>3. CASE e.state = "Parity"
      <4>1. Follows(e) = <<"Stop", 0>>
        BY <3>3 DEF Follows
      <4>2. f = Timed(e, "Stop", 0)
        BY <3>3 DEF TxNext
      <4>3. QED
        BY <4>1, <4>2
    <3>4. CASE e.state = "Stop"
      <4>1. Follows(e) = BehindStop(e)
        BY <3>4 DEF Follows
      <4>2. f = Timed(e, BehindStop(e)[1], BehindStop(e)[2])
        BY <3>4 DEF TxNext
      <4>3. QED
        BY <4>1, <4>2
    <3>5. QED
      BY <1>3, <3>1, <3>2, <3>3, <3>4 DEF Timing
  <2>2. f \in Engines
    BY <1>3, <2>1, TimedIs
  <2>3. QED
    BY <1>3, <2>1, <2>2 DEF Timing
<1>4. QED
  BY <1>1, <1>2, <1>3 DEF Engines, States

\* One clock of the receiver.
LEMMA RxNextIs ==
  ASSUME NEW u, u.rx \in Engines, u.BAUDRATE \in Nat,
         NEW f, f = RxNext(u)
  PROVE  /\ f \in Engines
         /\ u.rx.state = "Idle" =>
              /\ f.state = IF u.sync[2] THEN "Idle" ELSE "Start"
              /\ f.n = 0 /\ f.counter = 0 /\ f.frame = Frame(u)
         /\ u.rx.state = "Start" =>
              /\ f.frame = u.rx.frame
              /\ IF u.rx.counter = HalfBit(u.rx)
                 THEN f.state = (IF u.sync[2] THEN "Idle" ELSE "Data") /\ f.n = 0 /\ f.counter = 0
                 ELSE f.state = "Start" /\ f.counter = u.rx.counter + 1
         /\ u.rx.state = "Complete" =>
              f.state = "Idle" /\ f.n = 0 /\ f.counter = 0 /\ f.frame = u.rx.frame
         /\ u.rx.state \in Timing \ {"Start"} => f = Timed(u.rx, Follows(u.rx)[1], Follows(u.rx)[2])
<1> DEFINE e == u.rx
<1>1. CASE e.state = "Idle"
  <2>1. f = [state |-> IF u.sync[2] THEN "Idle" ELSE "Start",
             n |-> 0, counter |-> 0, frame |-> Frame(u)]
    BY <1>1 DEF RxNext
  <2>2. QED
    BY <1>1, <2>1, FrameType DEF Engines, States, Timing
<1>2. CASE e.state = "Complete"
  <2>1. f = [e EXCEPT !.state = "Idle", !.n = 0, !.counter = 0]
    BY <1>2 DEF RxNext, Goto
  <2>2. f = [state |-> "Idle", n |-> 0, counter |-> 0, frame |-> e.frame]
    BY <2>1 DEF Engines
  <2>3. QED
    BY <1>2, <2>2 DEF Engines, States, Timing
<1>3. CASE e.state = "Start"
  <2>1. CASE e.counter = HalfBit(e)
    <3> DEFINE s == IF u.sync[2] THEN "Idle" ELSE "Data"
    <3>1. f = [e EXCEPT !.state = s, !.n = 0, !.counter = 0]
      BY <1>3, <2>1 DEF RxNext, Goto
    <3>2. s \in {"Idle", "Data"}
      OBVIOUS
    <3> HIDE DEF s
    <3>3. f = [state |-> s, n |-> 0, counter |-> 0, frame |-> e.frame]
      BY <3>1 DEF Engines
    <3>4. f \in Engines
      BY <3>2, <3>3 DEF Engines, States, Timing
    <3>5. QED
      BY <1>3, <2>1, <3>3, <3>4 DEF s
  <2>2. CASE e.counter # HalfBit(e)
    <3>1. f = [e EXCEPT !.counter = @ + 1]
      BY <1>3, <2>2 DEF RxNext
    <3>2. f = [state |-> e.state, n |-> e.n, counter |-> e.counter + 1, frame |-> e.frame]
      BY <3>1 DEF Engines
    <3>3. QED
      BY <1>3, <2>2, <3>2 DEF Engines
  <2>3. QED
    BY <2>1, <2>2
<1>4. CASE e.state \in Timing \ {"Start"}
  <2>1. f = Timed(e, Follows(e)[1], Follows(e)[2])
    <3>2. CASE e.state = "Data"
      <4>1. Follows(e) = BehindData(e, "Stop")
        BY <3>2 DEF Follows
      <4>2. f = Timed(e, BehindData(e, "Stop")[1], BehindData(e, "Stop")[2])
        BY <3>2 DEF RxNext
      <4>3. QED
        BY <4>1, <4>2
    <3>3. CASE e.state = "Parity"
      <4>1. Follows(e) = <<"Stop", 0>>
        BY <3>3 DEF Follows
      <4>2. f = Timed(e, "Stop", 0)
        BY <3>3 DEF RxNext
      <4>3. QED
        BY <4>1, <4>2
    <3>4. CASE e.state = "Stop"
      <4>1. Follows(e) = BehindStop(e)
        BY <3>4 DEF Follows
      <4>2. f = Timed(e, BehindStop(e)[1], BehindStop(e)[2])
        BY <3>4 DEF RxNext
      <4>3. QED
        BY <4>1, <4>2
    <3>5. QED
      BY <1>4, <3>2, <3>3, <3>4 DEF Timing
  <2>2. f \in Engines
    BY <1>4, <2>1, TimedIs
  <2>3. QED
    BY <1>4, <2>1, <2>2 DEF Timing
<1>5. QED
  BY <1>1, <1>2, <1>3, <1>4 DEF Engines, States

-----------------------------------------------------------------------------
(* A transmitter, the line, and the receiver at its far end.               *)

Middle(F) == (F.baud - 1) \div 2

\* How far the level a transmitter puts on the line has come: through its
\* output register and both stages of the synchronizer of the receiver.
LineInv(S, R) ==
  LET c == S.tx.counter IN
  /\ S.tx.state \in {"Idle", "Complete"}
       => S.tx_o = TRUE /\ R.sync[1] = TRUE /\ R.sync[2] = TRUE
  /\ S.tx.state = "Start"
       => S.tx_o = (c < 1) /\ R.sync[1] = (c < 2) /\ R.sync[2] = (c < 3)
  /\ S.tx.state \in {"Data", "Parity", "Stop"}
       => /\ c >= 1 => S.tx_o = TxLine(S)
          /\ c >= 2 => R.sync[1] = TxLine(S)
          /\ c >= 3 => R.sync[2] = TxLine(S)
TxInv(S, F) ==
  /\ S.tx \in Engines
  /\ S.tx.state # "Idle" => S.tx.frame = F
  /\ S.tx.state \in Timing => S.tx.counter < F.baud

\* One clock of the transmitter's side.
TxClocks(S, S2, F) ==
  \E req, cts :
    /\ S2.tx = TxNext(S, req, cts) /\ S2.tx_o = TxLine(S)
    /\ S2.tx_data = IF Accepts(S, req, cts) THEN req.data \cap (0..DataBits) ELSE S.tx_data
    /\ S.BAUDRATE \in Nat /\ (Accepts(S, req, cts) => Frame(S) = F)

LEMMA TxStep ==
  ASSUME NEW S, NEW S2, NEW F, F.baud \in Nat, F.baud >= 10, TxInv(S, F), TxClocks(S, S2, F)
  PROVE  /\ TxInv(S2, F)
         /\ S.tx.state = "Idle" =>
              \/ S2.tx.state = "Idle" /\ S2.tx_data = S.tx_data
              \/ S2.tx.state = "Start" /\ S2.tx.counter = 0
         /\ S.tx.state # "Idle" => S2.tx_data = S.tx_data
         /\ S.tx.state = "Complete" => S2.tx.state = "Idle"
         /\ S.tx.state \in Timing =>
              IF S.tx.counter + 1 < F.baud
              THEN /\ S2.tx.state = S.tx.state /\ S2.tx.n = S.tx.n
                   /\ S2.tx.counter = S.tx.counter + 1 /\ Follows(S2.tx) = Follows(S.tx)
              ELSE /\ S2.tx.state = Follows(S.tx)[1] /\ S2.tx.n = Follows(S.tx)[2]
                   /\ S2.tx.counter = 0
<1> PICK req, cts :
      /\ S2.tx = TxNext(S, req, cts) /\ S2.tx_o = TxLine(S)
      /\ S2.tx_data = IF Accepts(S, req, cts) THEN req.data \cap (0..DataBits) ELSE S.tx_data
      /\ S.BAUDRATE \in Nat /\ (Accepts(S, req, cts) => Frame(S) = F)
  BY DEF TxClocks
<1> DEFINE e == S.tx
           f == S2.tx
<1>1. /\ e \in Engines
      /\ e.state # "Idle" => e.frame = F
      /\ e.state \in Timing => e.counter < F.baud
      /\ e.state \in Timing => e.state # "Idle"
  BY DEF TxInv, Timing
<1>3. /\ f \in Engines
      /\ e.state = "Idle" =>
           /\ f.state = IF Accepts(S, req, cts) THEN "Start" ELSE "Idle"
           /\ f.n = 0 /\ f.counter = 0 /\ f.frame = Frame(S)
      /\ e.state = "Complete" =>
           f.state = "Idle" /\ f.n = 0 /\ f.counter = 0 /\ f.frame = e.frame
      /\ e.state \in Timing => f = Timed(e, Follows(e)[1], Follows(e)[2])
  BY <1>1, TxNextIs
<1>4. e.state # "Idle" => S2.tx_data = S.tx_data
  BY DEF Accepts
<1>5. CASE e.state = "Idle"
  <2>1. TxInv(S2, F)
    BY <1>3, <1>5 DEF TxInv, Timing
  <2>2. QED
    BY <1>3, <1>5, <2>1 DEF Timing
<1>6. CASE e.state = "Complete"
  <2>1. TxInv(S2, F)
    BY <1>3, <1>6 DEF TxInv, Timing
  <2>2. QED
    BY <1>3, <1>4, <1>6, <2>1 DEF Timing
<1>7. CASE e.state \in Timing
  <2>1. /\ f \in Engines /\ f.frame = F
        /\ IF e.counter + 1 < F.baud
           THEN f.state = e.state /\ f.n = e.n /\ f.counter = e.counter + 1
           ELSE f.state = Follows(e)[1] /\ f.n = Follows(e)[2] /\ f.counter = 0
    BY <1>1, <1>3, <1>7, TimedIs
  <2>2. e.counter + 1 < F.baud => Follows(f) = Follows(e)
    BY <1>1, <1>7, <2>1 DEF Follows, BehindData, BehindStop
  <2>3. TxInv(S2, F)
    BY <1>1, <1>7, <2>1 DEF TxInv, Engines
  <2>4. e.state # "Complete"
    BY <1>7 DEF Timing
  <2>5. QED
    BY <1>1, <1>4, <1>7, <2>1, <2>2, <2>3, <2>4
<1>8. QED
  BY <1>1, <1>5, <1>6, <1>7 DEF Engines, States

LEMMA LineStep ==
  ASSUME NEW S, NEW S2, NEW R, NEW R2, NEW F, F.baud \in Nat, F.baud >= 10,
         TxInv(S, F), TxClocks(S, S2, F), LineInv(S, R), R2.sync = <<S.tx_o, R.sync[1]>>
  PROVE  LineInv(S2, R2)
<1> DEFINE e == S.tx
           f == S2.tx
<1>1. R2.sync[1] = S.tx_o /\ R2.sync[2] = R.sync[1] /\ S2.tx_o = TxLine(S)
  BY DEF TxClocks
<1>2. e \in Engines /\ e.counter \in Nat /\ (e.state \in Timing => e.counter < F.baud)
  BY DEF TxInv, Engines
<1>3. CASE e.state = "Idle"
  <2>1. S2.tx_o = TRUE /\ R2.sync[1] = TRUE /\ R2.sync[2] = TRUE
    BY <1>1, <1>3 DEF LineInv, TxLine
  <2>2. f.state = "Idle" \/ (f.state = "Start" /\ f.counter = 0)
    BY <1>3, TxStep
  <2>3. ASSUME f.counter = 0
        PROVE  (f.counter < 1) = TRUE /\ (f.counter < 2) = TRUE /\ (f.counter < 3) = TRUE
    BY <2>3
  <2>4. CASE f.state = "Idle"
    BY <2>1, <2>4 DEF LineInv
  <2>5. CASE f.state = "Start" /\ f.counter = 0
    <3> DEFINE c == f.counter
    <3>1. (c < 1) = TRUE /\ (c < 2) = TRUE /\ (c < 3) = TRUE
      BY <2>3, <2>5
    <3>2. S2.tx_o = (c < 1) /\ R2.sync[1] = (c < 2) /\ R2.sync[2] = (c < 3)
      BY <2>1, <3>1
    <3> HIDE DEF c
    <3>3. QED
      BY <2>5, <3>2 DEF LineInv, c
  <2>6. QED
    BY <2>2, <2>4, <2>5
<1>4. CASE e.state = "Complete"
  <2>1. S2.tx_o = TRUE /\ R2.sync[1] = TRUE /\ R2.sync[2] = TRUE
    BY <1>1, <1>4 DEF LineInv, TxLine
  <2>2. f.state = "Idle"
    BY <1>4, TxStep
  <2>3. QED
    BY <2>1, <2>2 DEF LineInv
<1>5. CASE e.state \in Timing /\ e.counter + 1 < F.baud
  <2>1. /\ f.state = e.state /\ f.n = e.n /\ f.counter = e.counter + 1
        /\ S2.tx_data = S.tx_data /\ e.state # "Idle"
    BY <1>5, TxStep DEF Timing
  <2>2. CASE e.state = "Start"
    <3>1. TxLine(S) = FALSE
      BY <2>2 DEF TxLine
    <3>2. S.tx_o = (e.counter < 1) /\ R.sync[1] = (e.counter < 2)
      BY <2>2 DEF LineInv
    <3>3. /\ (f.counter < 1) = FALSE /\ (f.counter < 2) = (e.counter < 1)
          /\ (f.counter < 3) = (e.counter < 2)
      BY <1>2, <2>1
    <3>4. QED
      BY <1>1, <2>1, <2>2, <3>1, <3>2, <3>3 DEF LineInv
  <2>3. CASE e.state \in {"Data", "Parity", "Stop"}
    <3>1. TxLine(S2) = TxLine(S)
      <4>1. f.frame = e.frame
        BY <1>5, <2>1, TxStep DEF TxInv
      <4>2. QED
        BY <2>1, <2>3, <4>1 DEF TxLine
    <3>2. (e.counter >= 1 => S.tx_o = TxLine(S)) /\ (e.counter >= 2 => R.sync[1] = TxLine(S))
      BY <2>3 DEF LineInv
    <3>3. (f.counter >= 2 => e.counter >= 1) /\ (f.counter >= 3 => e.counter >= 2)
      BY <1>2, <2>1
    <3>4. f.state \in {"Data", "Parity", "Stop"}
      BY <2>1, <2>3
    <3>5. QED
      BY <1>1, <3>1, <3>2, <3>3, <3>4 DEF LineInv
  <2>4. QED
    BY <1>5, <2>2, <2>3 DEF Timing
<1>6. CASE e.state \in Timing /\ ~(e.counter + 1 < F.baud)
  <2>1. f.state = Follows(e)[1] /\ f.counter = 0
    BY <1>6, TxStep
  <2>2. f.state \in {"Data", "Parity", "Stop", "Complete"}
    BY <1>2, <1>6, <2>1, FollowsIs
  <2>3. CASE f.state = "Complete"
    <3>1. e.state = "Stop"
      BY <1>2, <1>6, <2>1, <2>3, FollowsIs
    <3>2. TxLine(S) = TRUE
      BY <3>1 DEF TxLine
    <3>3. e.counter >= 1 /\ e.counter >= 2
      BY <1>2, <1>6
    <3>4. S.tx_o = TxLine(S) /\ R.sync[1] = TxLine(S)
      BY <3>1, <3>3 DEF LineInv
    <3>5. QED
      BY <1>1, <2>3, <3>2, <3>4 DEF LineInv
  <2>4. CASE f.state # "Complete"
    BY <2>1, <2>2, <2>4 DEF LineInv
  <2>5. QED
    BY <2>3, <2>4
<1>7. QED
  BY <1>2, <1>3, <1>4, <1>5, <1>6 DEF Engines, States

\* The receiver works on the bit the transmitter sends or has just sent: its
\* bit times begin five clocks and a half bit behind those of the transmitter.
LockInv(S, R, F) ==
  LET e == S.tx
      r == R.rx
      x == r.counter + Middle(F) + 5
  IN
  /\ r.state = "Idle" =>
       \/ e.state \in {"Idle", "Complete"}
       \/ e.state = "Start" /\ e.counter <= 3
       \/ e.state = "Stop" /\ Follows(e)[1] = "Complete" /\ e.counter >= Middle(F) + 6
  /\ r.state = "Start" => e.state = "Start" /\ r.counter <= Middle(F) /\ e.counter = r.counter + 4
  /\ r.state \in {"Data", "Parity", "Stop"} =>
       IF x < F.baud
       THEN e.state \in Timing /\ Follows(e) = <<r.state, r.n>> /\ e.counter = x
       ELSE e.state = r.state /\ e.n = r.n /\ e.counter + F.baud = x
  /\ r.state = "Complete" =>
       e.state = "Stop" /\ Follows(e)[1] = "Complete" /\ e.counter = Middle(F) + 5
RxInv(R, F) ==
  /\ R.rx \in Engines
  /\ R.rx.state # "Idle" => R.rx.frame = F
  /\ R.rx.state \in Timing => R.rx.counter < F.baud

\* One clock of the receiver's side.
RxClocks(S, R, R2, F) ==
  /\ R2.rx = RxNext(R) /\ R2.rx_data = RxShifted(R) /\ R2.parity_error = RxParity(R)
  /\ R2.sync = <<S.tx_o, R.sync[1]>>
  /\ R.BAUDRATE \in Nat /\ (S.tx.state # "Idle" => Frame(R) = F)

LEMMA MiddleIs ==
  ASSUME NEW F, F.baud \in Nat, F.baud >= 10
  PROVE  Middle(F) \in Nat /\ Middle(F) + 6 <= F.baud
  BY DEF Middle

\* What the receiver sees where it looks.
LEMMA LineSeen ==
  ASSUME NEW S, NEW R, NEW F, F.baud \in Nat, F.baud >= 10,
         TxInv(S, F), LineInv(S, R), LockInv(S, R, F), RxInv(R, F)
  PROVE  /\ R.rx.state = "Idle" =>
              IF S.tx.state = "Start" /\ S.tx.counter = 3 THEN R.sync[2] = FALSE
              ELSE R.sync[2] = TRUE
         /\ R.rx.state = "Start" => R.sync[2] = FALSE
         /\ R.rx.state \in {"Data", "Parity", "Stop"} /\ R.rx.counter + 1 >= F.baud =>
              /\ S.tx.state = R.rx.state /\ S.tx.n = R.rx.n /\ S.tx.counter = Middle(F) + 4
              /\ R.sync[2] = TxLine(S)
<1> DEFINE e == S.tx
           r == R.rx
           h == Middle(F)
<1>1. h \in Nat /\ h + 6 <= F.baud
  BY MiddleIs
<1>2. e.counter \in Nat /\ r.counter \in Nat
  BY DEF TxInv, RxInv, Engines
<1>3. e.state = "Start" => R.sync[2] = (e.counter < 3)
  BY DEF LineInv
<1>4. CASE r.state = "Idle"
  <2>1. CASE e.state \in {"Idle", "Complete"}
    BY <1>4, <2>1 DEF LineInv
  <2>2. CASE e.state = "Start" /\ e.counter <= 3
    <3>1. (e.counter < 3) = (e.counter # 3)
      BY <1>2, <2>2
    <3>2. CASE e.counter = 3
      BY <1>3, <1>4, <2>2, <3>1, <3>2
    <3>3. CASE e.counter # 3
      BY <1>3, <1>4, <2>2, <3>1, <3>3
    <3>4. QED
      BY <3>2, <3>3
  <2>3. CASE e.state = "Stop" /\ e.counter >= h + 6
    <3>1. R.sync[2] = TxLine(S)
      <4>1. e.counter >= 3
        BY <1>1, <1>2, <2>3
      <4>2. QED
        BY <2>3, <4>1 DEF LineInv
    <3>2. TxLine(S) = TRUE
      BY <2>3 DEF TxLine
    <3>3. QED
      BY <1>4, <2>3, <3>1, <3>2
  <2>4. QED
    BY <1>4, <2>1, <2>2, <2>3 DEF LockInv
<1>5. CASE r.state = "Start"
  <2>1. e.state = "Start" /\ e.counter = r.counter + 4
    BY <1>5 DEF LockInv
  <2>2. (e.counter < 3) = FALSE
    BY <1>2, <2>1
  <2>3. QED
    BY <1>3, <1>5, <2>1, <2>2
<1>6. CASE r.state \in {"Data", "Parity", "Stop"}
  <2> SUFFICES ASSUME r.counter + 1 >= F.baud
               PROVE  /\ S.tx.state = R.rx.state /\ S.tx.n = R.rx.n /\ S.tx.counter = Middle(F) + 4
                      /\ R.sync[2] = TxLine(S)
    BY <1>6
  <2>1. r.counter + 1 = F.baud
    BY <1>2, <1>6 DEF RxInv, Timing
  <2>2. ~(r.counter + h + 5 < F.baud)
    BY <1>1, <1>2, <2>1
  <2>3. e.state = r.state /\ e.n = r.n /\ e.counter + F.baud = r.counter + h + 5
    BY <1>6, <2>2 DEF LockInv
  <2>4. e.counter = h + 4 /\ e.counter >= 3
    BY <1>1, <1>2, <2>1, <2>3
  <2>5. R.sync[2] = TxLine(S)
    BY <1>6, <2>3, <2>4 DEF LineInv
  <2>6. QED
    BY <2>3, <2>4, <2>5
<1>7. QED
  BY <1>4, <1>5, <1>6

LEMMA RxStep ==
  ASSUME NEW S, NEW R, NEW R2, NEW F, F.baud \in Nat, F.baud >= 10,
         TxInv(S, F), LineInv(S, R), LockInv(S, R, F), RxInv(R, F), RxClocks(S, R, R2, F)
  PROVE  /\ RxInv(R2, F)
         /\ R.rx.state = "Idle" =>
              IF S.tx.state = "Start" /\ S.tx.counter = 3
              THEN R2.rx.state = "Start" /\ R2.rx.counter = 0
              ELSE R2.rx.state = "Idle"
         /\ R.rx.state = "Start" =>
              IF R.rx.counter = Middle(F)
              THEN R2.rx.state = "Data" /\ R2.rx.n = 0 /\ R2.rx.counter = 0
              ELSE R2.rx.state = "Start" /\ R2.rx.counter = R.rx.counter + 1
         /\ R.rx.state \in {"Data", "Parity", "Stop"} =>
              IF R.rx.counter + 1 < F.baud
              THEN /\ R2.rx.state = R.rx.state /\ R2.rx.n = R.rx.n
                   /\ R2.rx.counter = R.rx.counter + 1
              ELSE /\ R2.rx.state = Follows(R.rx)[1] /\ R2.rx.n = Follows(R.rx)[2]
                   /\ R2.rx.counter = 0
         /\ R.rx.state = "Complete" => R2.rx.state = "Idle"
<1> DEFINE e == S.tx
           r == R.rx
           f == R2.rx
           h == Middle(F)
<1>1. h \in Nat /\ h + 6 <= F.baud
  BY MiddleIs
<1>2. /\ r \in Engines /\ r.counter \in Nat
      /\ r.state # "Idle" => r.frame = F
      /\ r.state \in Timing => r.counter < F.baud
      /\ r.state \in Timing => r.state # "Idle"
  BY DEF RxInv, Engines, Timing
<1>3. f = RxNext(R) /\ R.BAUDRATE \in Nat
  BY DEF RxClocks
<1>5. /\ f \in Engines
      /\ r.state = "Idle" =>
           /\ f.state = IF R.sync[2] THEN "Idle" ELSE "Start"
           /\ f.n = 0 /\ f.counter = 0 /\ f.frame = Frame(R)
      /\ r.state = "Start" =>
           /\ f.frame = r.frame
           /\ IF r.counter = HalfBit(r)
              THEN f.state = (IF R.sync[2] THEN "Idle" ELSE "Data") /\ f.n = 0 /\ f.counter = 0
              ELSE f.state = "Start" /\ f.counter = r.counter + 1
      /\ r.state = "Complete" =>
           f.state = "Idle" /\ f.n = 0 /\ f.counter = 0 /\ f.frame = r.frame
      /\ r.state \in Timing \ {"Start"} => f = Timed(r, Follows(r)[1], Follows(r)[2])
  BY <1>2, <1>3, RxNextIs
<1>6. CASE r.state = "Idle"
  <2>1. CASE e.state = "Start" /\ e.counter = 3
    <3>1. R.sync[2] = FALSE
      BY <1>6, <2>1, LineSeen
    <3>2. f.state = "Start" /\ f.counter = 0 /\ f.frame = F
      BY <1>5, <1>6, <2>1, <3>1 DEF RxClocks
    <3>3. RxInv(R2, F)
      BY <1>5, <3>2 DEF RxInv
    <3>4. QED
      BY <1>6, <2>1, <3>2, <3>3
  <2>2. CASE ~(e.state = "Start" /\ e.counter = 3)
    <3>1. R.sync[2] = TRUE
      BY <1>6, <2>2, LineSeen
    <3>2. f.state = "Idle"
      BY <1>5, <1>6, <3>1
    <3>3. RxInv(R2, F)
      BY <1>5, <3>2 DEF RxInv, Timing
    <3>4. QED
      BY <1>6, <2>2, <3>2, <3>3
  <2>3. QED
    BY <2>1, <2>2
<1>7. CASE r.state = "Start"
  <2>1. HalfBit(r) = h /\ R.sync[2] = FALSE
    <3>1. HalfBit(r) = h
      BY <1>2, <1>7 DEF HalfBit, Middle
    <3>2. QED
      BY <1>7, <3>1, LineSeen
  <2>2. r.counter <= h
    BY <1>7 DEF LockInv
  <2>3. /\ f.frame = F
        /\ IF r.counter = h THEN f.state = "Data" /\ f.n = 0 /\ f.counter = 0
           ELSE f.state = "Start" /\ f.counter = r.counter + 1
    BY <1>2, <1>5, <1>7, <2>1
  <2>4. RxInv(R2, F)
    BY <1>1, <1>2, <1>5, <2>2, <2>3 DEF RxInv
  <2>5. QED
    BY <1>7, <2>3, <2>4
<1>8. CASE r.state = "Complete"
  <2>1. f.state = "Idle" /\ f \in Engines
    BY <1>5, <1>8
  <2>2. RxInv(R2, F)
    BY <2>1 DEF RxInv, Timing
  <2>3. QED
    BY <1>8, <2>1, <2>2
<1>9. CASE r.state \in {"Data", "Parity", "Stop"}
  <2>1. f = Timed(r, Follows(r)[1], Follows(r)[2]) /\ r.state \in Timing
    BY <1>5, <1>9 DEF Timing
  <2>3. /\ f \in Engines /\ f.frame = F
        /\ IF r.counter + 1 < F.baud
           THEN f.state = r.state /\ f.n = r.n /\ f.counter = r.counter + 1
           ELSE f.state = Follows(r)[1] /\ f.n = Follows(r)[2] /\ f.counter = 0
    BY <1>2, <2>1, TimedIs
  <2>4. RxInv(R2, F)
    BY <1>2, <2>1, <2>3 DEF RxInv
  <2>5. QED
    BY <1>9, <2>3, <2>4
<1>10. QED
  BY <1>2, <1>6, <1>7, <1>8, <1>9 DEF Engines, States, Timing

LEMMA LockStep ==
  ASSUME NEW S, NEW S2, NEW R, NEW R2, NEW F, F.baud \in Nat, F.baud >= 10,
         TxInv(S, F), LineInv(S, R), LockInv(S, R, F), RxInv(R, F),
         TxClocks(S, S2, F), RxClocks(S, R, R2, F)
  PROVE  LockInv(S2, R2, F)
<1> DEFINE e == S.tx
           f == S2.tx
           r == R.rx
           q == R2.rx
           h == Middle(F)
<1>1. h \in Nat /\ h + 6 <= F.baud
  BY MiddleIs
<1>2. /\ e \in Engines /\ r \in Engines /\ e.counter \in Nat /\ r.counter \in Nat
      /\ e.state \in Timing => e.counter < F.baud
      /\ r.state \in Timing => r.counter < F.baud
      /\ e.state # "Idle" => e.frame = F
      /\ r.state # "Idle" => r.frame = F
  BY DEF TxInv, RxInv, Engines
<1>3. CASE r.state = "Idle"
  <2>1. CASE e.state \in {"Idle", "Complete"}
    <3>1. f.state = "Idle" \/ (f.state = "Start" /\ f.counter = 0)
      BY <2>1, TxStep
    <3>2. q.state = "Idle"
      BY <1>3, <2>1, RxStep
    <3>3. QED
      BY <3>1, <3>2 DEF LockInv
  <2>2. CASE e.state = "Start" /\ e.counter <= 3
    <3>1. f.state = "Start" /\ f.counter = e.counter + 1
      BY <1>1, <1>2, <2>2, TxStep DEF Timing
    <3>2. CASE e.counter = 3
      <4>1. q.state = "Start" /\ q.counter = 0
        BY <1>3, <2>2, <3>2, RxStep
      <4>2. f.counter = q.counter + 4 /\ q.counter <= h
        BY <1>1, <3>1, <3>2, <4>1
      <4>3. QED
        BY <3>1, <4>1, <4>2 DEF LockInv
    <3>3. CASE e.counter # 3
      <4>1. q.state = "Idle"
        BY <1>3, <3>3, RxStep
      <4>2. f.counter <= 3
        BY <1>2, <2>2, <3>1, <3>3
      <4>3. QED
        BY <3>1, <4>1, <4>2 DEF LockInv
    <3>4. QED
      BY <3>2, <3>3
  <2>3. CASE e.state = "Stop" /\ Follows(e)[1] = "Complete" /\ e.counter >= h + 6
    <3>1. q.state = "Idle"
      BY <1>3, <2>3, RxStep
    <3>2. CASE e.counter + 1 < F.baud
      <4>1. f.state = "Stop" /\ f.counter = e.counter + 1 /\ Follows(f) = Follows(e)
        BY <2>3, <3>2, TxStep DEF Timing
      <4>2. f.counter >= h + 6
        BY <1>1, <1>2, <2>3, <4>1
      <4>3. QED
        BY <2>3, <3>1, <4>1, <4>2 DEF LockInv
    <3>3. CASE ~(e.counter + 1 < F.baud)
      <4>1. f.state = "Complete"
        BY <2>3, <3>3, TxStep DEF Timing
      <4>2. QED
        BY <3>1, <4>1 DEF LockInv
    <3>4. QED
      BY <3>2, <3>3
  <2>4. QED
    BY <1>3, <2>1, <2>2, <2>3 DEF LockInv
<1>4. CASE r.state = "Start"
  <2>1. e.state = "Start" /\ r.counter <= h /\ e.counter = r.counter + 4
    BY <1>4 DEF LockInv
  <2>2. e.counter + 1 < F.baud
    BY <1>1, <1>2, <2>1
  <2>3. f.state = "Start" /\ f.counter = e.counter + 1
    BY <2>1, <2>2, TxStep DEF Timing
  <2>4. CASE r.counter = h
    <3>1. q.state = "Data" /\ q.n = 0 /\ q.counter = 0
      BY <1>4, <2>4, RxStep
    <3>2. Follows(f) = <<q.state, q.n>>
      BY <2>3, <3>1 DEF Follows
    <3>3. q.counter + h + 5 < F.baud /\ f.counter = q.counter + h + 5
      BY <1>1, <1>2, <2>1, <2>3, <2>4, <3>1
    <3>4. QED
      BY <2>3, <3>1, <3>2, <3>3 DEF LockInv, Timing
  <2>5. CASE r.counter # h
    <3>1. q.state = "Start" /\ q.counter = r.counter + 1
      BY <1>4, <2>5, RxStep
    <3>2. q.counter <= h /\ f.counter = q.counter + 4
      BY <1>1, <1>2, <2>1, <2>3, <2>5, <3>1
    <3>3. QED
      BY <2>3, <3>1, <3>2 DEF LockInv
  <2>6. QED
    BY <2>4, <2>5
<1>5. CASE r.state = "Complete"
  <2>1. e.state = "Stop" /\ Follows(e)[1] = "Complete" /\ e.counter = h + 5
    BY <1>5 DEF LockInv
  <2>2. q.state = "Idle"
    BY <1>5, RxStep
  <2>3. CASE e.counter + 1 < F.baud
    <3>1. f.state = "Stop" /\ f.counter = e.counter + 1 /\ Follows(f) = Follows(e)
      BY <2>1, <2>3, TxStep DEF Timing
    <3>2. f.counter >= h + 6
      BY <1>1, <2>1, <3>1
    <3>3. QED
      BY <2>1, <2>2, <3>1, <3>2 DEF LockInv
  <2>4. CASE ~(e.counter + 1 < F.baud)
    <3>1. f.state = "Complete"
      BY <2>1, <2>4, TxStep DEF Timing
    <3>2. QED
      BY <2>2, <3>1 DEF LockInv
  <2>5. QED
    BY <2>3, <2>4
<1>6. CASE r.state \in {"Data", "Parity", "Stop"}
  <2> DEFINE x == r.counter + h + 5
             y == q.counter + h + 5
  <2>1. r.counter < F.baud
    BY <1>2, <1>6 DEF Timing
  <2>2. CASE r.counter + 1 < F.baud
    <3>1. q.state = r.state /\ q.n = r.n /\ q.counter = r.counter + 1
      BY <1>6, <2>2, RxStep
    <3>2. y = x + 1
      BY <1>1, <1>2, <3>1
    <3>3. CASE x < F.baud
      <4>1. e.state \in Timing /\ Follows(e) = <<r.state, r.n>> /\ e.counter = x
        BY <1>6, <3>3 DEF LockInv
      <4>2. CASE x + 1 < F.baud
        <5>1. f.state = e.state /\ f.counter = e.counter + 1 /\ Follows(f) = Follows(e)
          BY <4>1, <4>2, TxStep
        <5>2. y < F.baud /\ f.counter = y
          BY <3>2, <4>1, <4>2, <5>1
        <5>3. Follows(f) = <<q.state, q.n>> /\ f.state \in Timing
          BY <3>1, <4>1, <5>1
        <5>4. q.state # "Idle" /\ q.state # "Start" /\ q.state # "Complete"
          BY <1>6, <3>1
        <5>5. QED
          BY <5>2, <5>3, <5>4 DEF LockInv
      <4>3. CASE ~(x + 1 < F.baud)
        <5>1. f.state = r.state /\ f.n = r.n /\ f.counter = 0
          <6>1. f.state = Follows(e)[1] /\ f.n = Follows(e)[2] /\ f.counter = 0
            BY <4>1, <4>3, TxStep
          <6>2. QED
            BY <4>1, <6>1
        <5>2. ~(y < F.baud) /\ f.counter + F.baud = y
          BY <1>1, <1>2, <3>2, <3>3, <4>3, <5>1
        <5>3. q.state # "Idle" /\ q.state # "Start" /\ q.state # "Complete"
          BY <1>6, <3>1
        <5>4. QED
          BY <3>1, <5>1, <5>2, <5>3 DEF LockInv
      <4>4. QED
        BY <4>2, <4>3
    <3>4. CASE ~(x < F.baud)
      <4>1. e.state = r.state /\ e.n = r.n /\ e.counter + F.baud = x
        BY <1>6, <3>4 DEF LockInv
      <4>2. e.counter + 1 < F.baud /\ e.state \in Timing
        <5>1. e.counter + 1 < F.baud
          BY <1>1, <1>2, <2>2, <4>1
        <5>2. QED
          BY <1>6, <4>1, <5>1 DEF Timing
      <4>3. f.state = e.state /\ f.n = e.n /\ f.counter = e.counter + 1
        BY <4>2, TxStep
      <4>4. ~(y < F.baud) /\ f.counter + F.baud = y
        BY <1>1, <1>2, <3>2, <3>4, <4>1, <4>3
      <4>5. q.state # "Idle" /\ q.state # "Start" /\ q.state # "Complete"
        BY <1>6, <3>1
      <4>6. QED
        BY <3>1, <4>1, <4>3, <4>4, <4>5 DEF LockInv
    <3>5. QED
      BY <3>3, <3>4
  <2>3. CASE ~(r.counter + 1 < F.baud)
    <3>1. q.state = Follows(r)[1] /\ q.n = Follows(r)[2] /\ q.counter = 0
      BY <1>6, <2>3, RxStep
    <3>2. e.state = r.state /\ e.n = r.n /\ e.counter = h + 4
      <4>1. r.counter + 1 >= F.baud
        BY <1>1, <1>2, <2>3
      <4>2. QED
        BY <1>6, <4>1, LineSeen
    <3>3. e.counter + 1 < F.baud /\ e.state \in Timing
      BY <1>1, <1>6, <3>2 DEF Timing
    <3>4. f.state = e.state /\ f.n = e.n /\ f.counter = h + 5 /\ Follows(f) = Follows(e)
      BY <1>1, <3>2, <3>3, TxStep
    <3>5. Follows(e) = Follows(r)
      <4>1. e.frame = r.frame
        BY <1>2, <1>6, <3>2
      <4>2. QED
        BY <3>2, <4>1 DEF Follows, BehindData, BehindStop
    <3>6. /\ Follows(r)[1] \in {"Data", "Parity", "Stop", "Complete"} /\ Follows(r) = <<Follows(r)[1], Follows(r)[2]>>
          /\ Follows(r)[1] = "Complete" => r.state = "Stop"
      <4>1. r.state \in Timing
        BY <1>6 DEF Timing
      <4>2. Follows(r) = <<Follows(r)[1], Follows(r)[2]>>
        BY <1>6 DEF Follows, BehindData, BehindStop
      <4>3. QED
        BY <1>2, <4>1, <4>2, FollowsIs
    <3>7. CASE Follows(r)[1] = "Complete"
      BY <3>1, <3>2, <3>4, <3>5, <3>6, <3>7 DEF LockInv
    <3>8. CASE Follows(r)[1] # "Complete"
      <4>1. y < F.baud /\ f.counter = y
        BY <1>1, <3>1, <3>4
      <4>2. Follows(f) = <<q.state, q.n>> /\ f.state \in Timing
        BY <3>1, <3>3, <3>4, <3>5, <3>6
      <4>3. q.state \in {"Data", "Parity", "Stop"}
        BY <3>1, <3>6, <3>8
      <4>4. q.state # "Idle" /\ q.state # "Start" /\ q.state # "Complete"
        BY <4>3
      <4>5. QED
        BY <4>1, <4>2, <4>4 DEF LockInv
    <3>9. QED
      BY <3>7, <3>8
  <2>4. QED
    BY <2>2, <2>3
<1>7. QED
  BY <1>2, <1>3, <1>4, <1>5, <1>6 DEF Engines, States, Timing

\* The bits the receiver has taken are those of the byte on the line.
BitsInv(S, R, F) ==
  /\ R.rx.state = "Data" =>
       \A j \in Nat : j < R.rx.n => (j \in R.rx_data <=> j \in S.tx_data)
  /\ R.rx.state \in {"Parity", "Stop", "Complete"} =>
       \A j \in 0..(F.width - 1) : j \in R.rx_data <=> j \in S.tx_data
  /\ R.parity_error = FALSE

\* One direction of the line.
WireInv(S, R, F) ==
  TxInv(S, F) /\ LineInv(S, R) /\ LockInv(S, R, F) /\ RxInv(R, F) /\ BitsInv(S, R, F)

LEMMA BitsStep ==
  ASSUME NEW S, NEW S2, NEW R, NEW R2, NEW F \in Frames, F.baud >= 10,
         WireInv(S, R, F), TxClocks(S, S2, F), RxClocks(S, R, R2, F)
  PROVE  BitsInv(S2, R2, F)
<1> DEFINE e == S.tx
           r == R.rx
           q == R2.rx
<1>1. F.baud \in Nat /\ F.width \in Nat
  BY DEF Frames
<1>2. TxInv(S, F) /\ LineInv(S, R) /\ LockInv(S, R, F) /\ RxInv(R, F) /\ BitsInv(S, R, F)
  BY DEF WireInv
<1>3. /\ r \in Engines /\ r.n \in Nat /\ r.counter \in Nat
      /\ r.state # "Idle" => r.frame = F
      /\ e.state # "Idle" => e.frame = F
  BY <1>2 DEF RxInv, TxInv, Engines
<1>4. R2.rx_data = RxShifted(R) /\ R2.parity_error = RxParity(R) /\ R.parity_error = FALSE
  BY <1>2 DEF RxClocks, BitsInv
<1>5. r.state \in {"Data", "Parity", "Stop", "Complete"} => S2.tx_data = S.tx_data
  <2>1. r.state \in {"Data", "Parity", "Stop", "Complete"} => e.state # "Idle"
    BY <1>2 DEF LockInv, Timing
  <2>2. QED
    BY <1>1, <1>2, <2>1, TxStep
<1>6. CASE r.state \in {"Idle", "Start", "Complete"}
  <2>1. q.state \in {"Idle", "Start"} \/ (q.state = "Data" /\ q.n = 0)
    BY <1>1, <1>2, <1>6, RxStep
  <2>2. R2.parity_error = FALSE
    BY <1>4, <1>6 DEF RxParity
  <2>3. QED
    BY <2>1, <2>2 DEF BitsInv
<1>7. CASE r.state = "Data"
  <2>1. R2.parity_error = FALSE
    BY <1>4, <1>7 DEF RxParity
  <2>2. \A j \in Nat : j < r.n => (j \in R.rx_data <=> j \in S.tx_data)
    BY <1>2, <1>7 DEF BitsInv
  <2>3. CASE r.counter + 1 < F.baud
    <3>1. q.state = "Data" /\ q.n = r.n
      BY <1>1, <1>2, <1>7, <2>3, RxStep
    <3>2. R2.rx_data = R.rx_data
      BY <1>1, <1>3, <1>4, <1>7, <2>3 DEF RxShifted, BitOver
    <3>3. QED
      BY <1>5, <1>7, <2>1, <2>2, <3>1, <3>2 DEF BitsInv
  <2>4. CASE r.counter + 1 >= F.baud
    <3>1. R.sync[2] = TxLine(S) /\ e.state = "Data" /\ e.n = r.n
      BY <1>1, <1>2, <1>7, <2>4, LineSeen
    <3>2. R.sync[2] = (r.n \in S.tx_data)
      BY <3>1 DEF TxLine
    <3>3. R2.rx_data = IF R.sync[2] THEN R.rx_data \cup {r.n} ELSE R.rx_data \ {r.n}
      BY <1>3, <1>4, <1>7, <2>4 DEF RxShifted, BitOver
    <3>4. \A j \in Nat : j < r.n + 1 => (j \in R2.rx_data <=> j \in S2.tx_data)
      <4> SUFFICES ASSUME NEW j \in Nat, j < r.n + 1
                   PROVE  j \in R2.rx_data <=> j \in S.tx_data
        BY <1>5, <1>7
      <4>1. CASE j = r.n
        BY <3>2, <3>3, <4>1
      <4>2. CASE j # r.n
        <5>1. j < r.n
          BY <1>3, <4>2
        <5>2. j \in R.rx_data <=> j \in S.tx_data
          BY <2>2, <5>1
        <5>3. QED
          BY <3>3, <4>2, <5>2
      <4>3. QED
        BY <4>1, <4>2
    <3>5. q.state = Follows(r)[1] /\ q.n = Follows(r)[2]
      <4>1. ~(r.counter + 1 < F.baud)
        BY <1>1, <1>3, <2>4
      <4>2. QED
        BY <1>1, <1>2, <1>7, <4>1, RxStep
    <3>6. CASE q.state = "Data"
      <4>1. q.n = r.n + 1
        BY <1>7, <3>5, <3>6 DEF Follows, BehindData
      <4>2. QED
        BY <2>1, <3>4, <3>6, <4>1 DEF BitsInv
    <3>7. CASE q.state # "Data"
      <4>1. r.n + 1 >= F.width
        BY <1>3, <1>7, <3>5, <3>7, FollowsIs DEF Timing
      <4>2. \A j \in 0..(F.width - 1) : j \in R2.rx_data <=> j \in S2.tx_data
        <5> SUFFICES ASSUME NEW j \in 0..(F.width - 1)
                     PROVE  j \in R2.rx_data <=> j \in S2.tx_data
          OBVIOUS
        <5>1. j \in Nat /\ j < r.n + 1
          BY <1>1, <1>3, <4>1
        <5>2. QED
          BY <3>4, <5>1
      <4>3. QED
        BY <2>1, <3>7, <4>2 DEF BitsInv
    <3>8. QED
      BY <3>6, <3>7
  <2>5. QED
    BY <1>1, <1>3, <2>3, <2>4
<1>8. CASE r.state \in {"Parity", "Stop"}
  <2>1. R2.rx_data = R.rx_data
    BY <1>4, <1>8 DEF RxShifted
  <2>2. \A j \in 0..(F.width - 1) : j \in R2.rx_data <=> j \in S2.tx_data
    BY <1>2, <1>5, <1>8, <2>1 DEF BitsInv
  <2>3. R2.parity_error = FALSE
    <3>1. CASE r.state = "Parity" /\ r.counter + 1 >= F.baud
      <4>1. R.sync[2] = TxLine(S) /\ e.state = "Parity"
        BY <1>1, <1>2, <3>1, LineSeen
      <4>2. TxLine(S) = ParityBit(F, S.tx_data)
        BY <1>3, <4>1 DEF TxLine
      <4>3. ParityBit(F, S.tx_data) = ParityBit(F, R.rx_data)
        <5>1. S.tx_data \cap (0..(F.width - 1)) = R.rx_data \cap (0..(F.width - 1))
          BY <1>2, <3>1 DEF BitsInv
        <5>2. QED
          BY <5>1 DEF ParityBit
      <4>4. QED
        BY <1>3, <1>4, <3>1, <4>1, <4>2, <4>3 DEF RxParity, BitOver
    <3>2. CASE ~(r.state = "Parity" /\ r.counter + 1 >= F.baud)
      BY <1>3, <1>4, <1>8, <3>2 DEF RxParity, BitOver
    <3>3. QED
      BY <3>1, <3>2
  <2>4. q.state # "Data"
    <3>1. r.state \in Timing /\ Follows(r)[1] # "Data"
      BY <1>3, <1>8, FollowsIs DEF Timing, Follows, BehindStop
    <3>2. QED
      BY <1>1, <1>2, <1>8, <3>1, RxStep
  <2>5. QED
    BY <2>2, <2>3, <2>4 DEF BitsInv
<1>9. QED
  BY <1>3, <1>6, <1>7, <1>8 DEF Engines, States, Timing

LEMMA WireStep ==
  ASSUME NEW S, NEW S2, NEW R, NEW R2, NEW F \in Frames, F.baud >= 10,
         WireInv(S, R, F), TxClocks(S, S2, F), RxClocks(S, R, R2, F)
  PROVE  WireInv(S2, R2, F)
<1>1. F.baud \in Nat
  BY DEF Frames
<1>2. TxInv(S, F) /\ LineInv(S, R) /\ LockInv(S, R, F) /\ RxInv(R, F)
  BY DEF WireInv
<1>3. R2.sync = <<S.tx_o, R.sync[1]>>
  BY DEF RxClocks
<1>4. TxInv(S2, F)
  BY <1>1, <1>2, TxStep
<1>5. LineInv(S2, R2)
  BY <1>1, <1>2, <1>3, LineStep
<1>6. LockInv(S2, R2, F)
  BY <1>1, <1>2, LockStep
<1>7. RxInv(R2, F)
  BY <1>1, <1>2, RxStep
<1>8. BitsInv(S2, R2, F)
  BY BitsStep
<1>9. QED
  BY <1>4, <1>5, <1>6, <1>7, <1>8 DEF WireInv

LEMMA WireInit ==
  ASSUME NEW F
  PROVE  WireInv(UartReset, UartReset, F)
<1> DEFINE u == UartReset
<1>1. /\ u.tx = Engine /\ u.rx = Engine /\ u.tx_o = TRUE /\ u.sync = <<TRUE, TRUE>>
      /\ u.parity_error = FALSE
  BY DEF UartReset
<1>2. Engine \in Engines /\ Engine.state = "Idle"
  BY DEF Engine, Engines, Frames, States
<1> HIDE DEF u
<1>3. QED
  BY <1>1, <1>2 DEF WireInv, TxInv, LineInv, LockInv, RxInv, BitsInv, Timing, u

-----------------------------------------------------------------------------
(* The programs: what is not TX_DATA is calm, and TX_DATA is written behind *)
(* a wait for TX_ACTIVE and before a return.                                *)

Bits   == SUBSET Nat
Awaits == WhileSet("uart", "STATUS", TINYMCU_UART_STATUS_TX_ACTIVE)
Waits  == WhileClear("uart", "STATUS", TINYMCU_UART_STATUS_RX_READY)
Takes  == Get("uart", "RX_DATA", Word32)
Sends  == {Assign("uart", "TX_DATA", c) : c \in Bits}
Loops  == {Awaits, Waits, WhileLess("timer", "COUNTER", CLK_TICKS_PER_SECOND)}
Gets   == {Takes, Get("uart", "STATUS", TINYMCU_UART_STATUS_RX_READY),
           Get("uart", "STATUS", TINYMCU_UART_STATUS_PARITY_ERROR),
           Get("uart", "INT_STATUS", TINYMCU_UART_INT_RX_READY)}
Alters == {SetBits("uart", "INT_CONFIG", TINYMCU_UART_INT_RX_READY),
           ClearBits("uart", "INT_CONFIG", TINYMCU_UART_INT_RX_READY),
           ClearBits("uart", "INT_STATUS", TINYMCU_UART_INT_RX_READY)}
Ticks  == {Assign("timer", "CONFIG", CLKSEL), Assign("timer", "COUNTER", 0)}
Locals == {Local(x) : x \in {"return", "echo", "loop", "count", "checked", "next", "read",
                             "poll", "test"}}
Calm   == Loops \cup Gets \cup Alters \cup Ticks \cup Locals
Stmts  == Calm \cup Sends

Polite(c) ==
  /\ c \in Seq(Stmts)
  /\ \A i \in 1..Len(c) : c[i] \in Sends =>
       /\ i + 1 \in 1..Len(c) /\ c[i + 1] = Return
       /\ i > 1 => c[i - 1] = Awaits
Whole(c) == Polite(c) /\ (c # <<>> => Head(c) \notin Sends)

LEMMA CalmIs ==
  /\ \A s \in Loops : s.op \in {"whileSet", "whileClear", "whileLess"}
  /\ \A s \in Gets : s.op = "get" /\ s.dev = "uart" /\ s.mask \in Bits
  /\ \A s \in Alters : s.op = "modify" /\ s.dev = "uart" /\ s.reg \in {"INT_CONFIG", "INT_STATUS"}
  /\ \A s \in Ticks : s.op = "assign" /\ s.dev = "timer" /\ s.reg \in {"CONFIG", "COUNTER"}
  /\ \A s \in Locals : s.op = "local"
  /\ \A s \in Sends : s.op = "assign" /\ s.dev = "uart" /\ s.reg = "TX_DATA"
<1>1. \A s \in Loops : s.op \in {"whileSet", "whileClear", "whileLess"}
  BY DEF Loops, Awaits, Waits, WhileSet, WhileClear, WhileLess
<1>2. \A s \in Gets : s.op = "get" /\ s.dev = "uart" /\ s.mask \in Bits
  BY DEF Gets, Takes, Get, Bits, Word32, TINYMCU_UART_STATUS_RX_READY,
         TINYMCU_UART_STATUS_PARITY_ERROR, TINYMCU_UART_INT_RX_READY
<1>3. \A s \in Alters : s.op = "modify" /\ s.dev = "uart" /\ s.reg \in {"INT_CONFIG", "INT_STATUS"}
  BY DEF Alters, SetBits, ClearBits, Modify
<1>4. \A s \in Ticks : s.op = "assign" /\ s.dev = "timer" /\ s.reg \in {"CONFIG", "COUNTER"}
  BY DEF Ticks, Assign
<1>5. \A s \in Locals : s.op = "local"
  BY DEF Locals, Local
<1>6. \A s \in Sends : s.op = "assign" /\ s.dev = "uart" /\ s.reg = "TX_DATA"
  BY DEF Sends, Assign
<1>7. QED
  BY <1>1, <1>2, <1>3, <1>4, <1>5, <1>6

LEMMA CalmNotSends ==
  ASSUME NEW s \in Calm
  PROVE  s \notin Sends
  BY CalmIs DEF Calm

LEMMA CalmWhole ==
  ASSUME NEW c \in Seq(Calm)
  PROVE  Whole(c)
<1>1. c \in Seq(Stmts)
  <2>1. Calm \subseteq Stmts
    BY DEF Stmts
  <2> HIDE DEF Calm, Stmts
  <2>2. QED
    BY <2>1
<1>2. \A i \in 1..Len(c) : c[i] \notin Sends
  <2> SUFFICES ASSUME NEW i \in 1..Len(c) PROVE c[i] \notin Sends
    OBVIOUS
  <2>1. c[i] \in Calm
    BY ElementOfSeq
  <2>2. QED
    BY <2>1, CalmNotSends
<1>3. c # <<>> => Head(c) \notin Sends
  <2>1. c # <<>> => Head(c) \in Calm
    BY HeadTailProperties
  <2>2. QED
    BY <2>1, CalmNotSends
<1>4. QED
  BY <1>1, <1>2, <1>3 DEF Whole, Polite

\* Whole calls, one behind the other.
LEMMA WholeConcat ==
  ASSUME NEW a, Whole(a), NEW b, Whole(b)
  PROVE  Whole(a \o b)
<1> DEFINE c == a \o b
           m == Len(a)
           n == Len(b)
<1>1. a \in Seq(Stmts) /\ b \in Seq(Stmts)
  BY DEF Whole, Polite
<1>2. /\ c \in Seq(Stmts) /\ Len(c) = m + n /\ m \in Nat /\ n \in Nat
      /\ \A i \in 1..(m + n) : c[i] = IF i <= m THEN a[i] ELSE b[i - m]
  BY <1>1, ConcatProperties, LenProperties
<1>3. /\ a # <<>> => a[1] \notin Sends
      /\ b # <<>> => b[1] \notin Sends
  <2>1. (a # <<>> => Head(a) = a[1]) /\ (b # <<>> => Head(b) = b[1])
    BY <1>1, HeadTailProperties
  <2>2. QED
    BY <2>1 DEF Whole
<1>4. (a # <<>> <=> m > 0) /\ (b # <<>> <=> n > 0)
  BY <1>1, <1>2, EmptySeq
<1>5. /\ \A i \in 1..m : a[i] \in Sends =>
           i + 1 \in 1..m /\ a[i + 1] = Return /\ (i > 1 => a[i - 1] = Awaits)
      /\ \A i \in 1..n : b[i] \in Sends =>
           i + 1 \in 1..n /\ b[i + 1] = Return /\ (i > 1 => b[i - 1] = Awaits)
  BY DEF Whole, Polite
<1> HIDE DEF c, m, n
<1>6. ASSUME NEW i \in 1..Len(c), c[i] \in Sends
      PROVE  i + 1 \in 1..Len(c) /\ c[i + 1] = Return /\ (i > 1 => c[i - 1] = Awaits)
  <2>1. CASE i <= m
    <3>1. i \in 1..m /\ a[i] \in Sends
      BY <1>2, <1>6, <2>1
    <3>2. i + 1 \in 1..m /\ a[i + 1] = Return /\ (i > 1 => a[i - 1] = Awaits)
      BY <1>5, <3>1
    <3>3. i + 1 \in 1..Len(c) /\ c[i + 1] = a[i + 1]
      BY <1>2, <3>2
    <3>4. i > 1 => c[i - 1] = a[i - 1]
      BY <1>2, <3>1
    <3>5. QED
      BY <3>2, <3>3, <3>4
  <2>2. CASE i > m
    <3>1. i - m \in 1..n /\ b[i - m] \in Sends
      BY <1>2, <1>6, <2>2
    <3>2. (i - m) + 1 \in 1..n /\ b[(i - m) + 1] = Return
          /\ (i - m > 1 => b[(i - m) - 1] = Awaits)
      BY <1>5, <3>1
    <3>3. i - m > 1
      <4>1. i - m # 1
        BY <1>2, <1>3, <1>4, <3>1
      <4>2. QED
        BY <1>2, <3>1, <4>1
    <3>4. i + 1 \in 1..Len(c) /\ c[i + 1] = b[(i + 1) - m] /\ (i + 1) - m = (i - m) + 1
      BY <1>2, <2>2, <3>2
    <3>5. c[i - 1] = b[(i - 1) - m] /\ (i - 1) - m = (i - m) - 1
      BY <1>2, <1>6, <2>2, <3>3
    <3>6. QED
      BY <3>2, <3>3, <3>4, <3>5
  <2>3. QED
    BY <1>2, <2>1, <2>2
<1>7. c # <<>> => Head(c) \notin Sends
  <2> SUFFICES ASSUME c # <<>> PROVE c[1] \notin Sends
    BY <1>2, HeadTailProperties
  <2>1. Len(c) > 0
    BY <1>2, EmptySeq
  <2>2. CASE m > 0
    <3>1. c[1] = a[1]
      BY <1>2, <2>1, <2>2
    <3>2. QED
      BY <1>3, <1>4, <2>2, <3>1
  <2>3. CASE m = 0
    <3>1. c[1] = b[1] /\ n > 0
      BY <1>2, <2>1, <2>3
    <3>2. QED
      BY <1>3, <1>4, <3>1
  <2>4. QED
    BY <1>2, <2>2, <2>3
<1>8. QED
  BY <1>2, <1>6, <1>7 DEF Whole, Polite, c

\* What the next statement leaves.
LEMMA PoliteTail ==
  ASSUME NEW c, Polite(c), c # <<>>
  PROVE  /\ Polite(Tail(c)) /\ Head(c) \in Stmts
         /\ Head(c) \in Sends => Tail(c) # <<>> /\ Head(Tail(c)) = Return
         /\ Head(c) # Awaits => Whole(Tail(c))
<1> DEFINE t == Tail(c)
           n == Len(t)
<1>1. /\ c \in Seq(Stmts) /\ Len(c) \in Nat /\ t \in Seq(Stmts) /\ n = Len(c) - 1 /\ n \in Nat
      /\ \A i \in 1..n : t[i] = c[i + 1]
      /\ Head(c) = c[1] /\ Head(c) \in Stmts
  BY HeadTailProperties, LenProperties DEF Polite
<1>2. \A i \in 1..Len(c) : c[i] \in Sends =>
        i + 1 \in 1..Len(c) /\ c[i + 1] = Return /\ (i > 1 => c[i - 1] = Awaits)
  BY DEF Polite
<1> HIDE DEF t
<1>3. t # <<>> <=> n > 0
  <2>1. t \in Seq(Stmts)
    BY <1>1
  <2>2. (t # <<>> => n \in Nat \ {0}) /\ (t = <<>> => n = 0)
    BY <2>1, EmptySeq
  <2>3. QED
    BY <2>2
<1>4. t # <<>> => Head(t) = t[1]
  BY <1>1, HeadTailProperties
<1> HIDE DEF n
<1>5. ASSUME NEW i \in 1..n, t[i] \in Sends
      PROVE  i + 1 \in 1..n /\ t[i + 1] = Return /\ (i > 1 => t[i - 1] = Awaits)
  <2>1. i + 1 \in 1..Len(c) /\ c[i + 1] \in Sends
    BY <1>1, <1>5
  <2>2. (i + 1) + 1 \in 1..Len(c) /\ c[(i + 1) + 1] = Return
        /\ (i + 1 > 1 => c[(i + 1) - 1] = Awaits)
    BY <1>2, <2>1
  <2>3. i + 1 \in 1..n /\ t[i + 1] = c[(i + 1) + 1]
    BY <1>1, <2>2
  <2>4. i > 1 => t[i - 1] = c[i] /\ (i + 1) - 1 = i
    BY <1>1
  <2>5. QED
    BY <1>1, <2>2, <2>3, <2>4
<1>6. Polite(t)
  BY <1>1, <1>5 DEF Polite, n
<1>7. ASSUME Head(c) \in Sends PROVE t # <<>> /\ Head(t) = Return
  <2>1. 1 \in 1..Len(c)
    BY <1>1, EmptySeq
  <2>2. 1 + 1 \in 1..Len(c) /\ c[1 + 1] = Return
    BY <1>1, <1>2, <1>7, <2>1
  <2>3. n > 0 /\ t[1] = c[1 + 1]
    BY <1>1, <2>2
  <2>4. QED
    BY <1>3, <1>4, <2>2, <2>3
<1>8. ASSUME Head(c) # Awaits PROVE t # <<>> => Head(t) \notin Sends
  <2> SUFFICES ASSUME t # <<>>, t[1] \in Sends PROVE FALSE
    BY <1>4
  <2>1. 2 \in 1..Len(c) /\ c[2] \in Sends
    BY <1>1, <1>3
  <2>2. 2 > 1 => c[2 - 1] = Awaits
    BY <1>2, <2>1
  <2>3. QED
    BY <1>1, <1>8, <2>2
<1>9. QED
  BY <1>1, <1>6, <1>7, <1>8 DEF Whole, t

LEMMA PutcWhole ==
  ASSUME NEW c \in Bits
  PROVE  Whole(tinymcu_uart_putc(c))
<1> DEFINE s == Assign("uart", "TX_DATA", c)
           p == tinymcu_uart_putc(c)
<1>1. p = <<Awaits, s, Return>>
  BY DEF tinymcu_uart_putc, Awaits
<1>2. s \in Sends /\ Awaits \in Calm /\ Return \in Calm
  BY DEF Sends, Calm, Loops, Locals, Return
<1>3. Awaits \notin Sends /\ Return \notin Sends
  BY <1>2, CalmNotSends
<1> HIDE DEF s, p
<1>4. p \in Seq(Stmts)
  <2>1. s \in Stmts /\ Awaits \in Stmts /\ Return \in Stmts
    BY <1>2 DEF Stmts
  <2> HIDE DEF Stmts
  <2>2. QED
    BY <1>1, <2>1
<1>5. Len(p) = 3 /\ p[1] = Awaits /\ p[2] = s /\ p[3] = Return /\ Head(p) = Awaits
  BY <1>1
<1>6. ASSUME NEW i \in 1..Len(p), p[i] \in Sends PROVE i = 2
  BY <1>3, <1>5, <1>6
<1>7. Polite(p)
  BY <1>4, <1>5, <1>6 DEF Polite
<1>8. QED
  BY <1>3, <1>5, <1>7 DEF Whole, p

LEMMA PutsWhole ==
  ASSUME NEW s \in Seq(Bits)
  PROVE  Whole(tinymcu_uart_puts(s))
<1> DEFINE p == tinymcu_uart_puts(s)
           n == Len(s)
<1>1. n \in Nat
  BY LenProperties
<1>2. p = [i \in 1..3 * n |-> tinymcu_uart_putc(s[1 + ((i - 1) \div 3)])[1 + ((i - 1) % 3)]]
  BY DEF tinymcu_uart_puts, ForEach
<1>3. Awaits \in Calm /\ Return \in Calm
  BY DEF Calm, Loops, Locals, Return
<1>4. Awaits \notin Sends /\ Return \notin Sends
  BY <1>3, CalmNotSends
<1>5. ASSUME NEW i \in 1..3 * n
      PROVE  /\ (i - 1) % 3 = 0 => p[i] = Awaits
             /\ (i - 1) % 3 = 1 => p[i] \in Sends
             /\ (i - 1) % 3 = 2 => p[i] = Return
             /\ (i - 1) % 3 \in 0..2
  <2> DEFINE c == s[1 + ((i - 1) \div 3)]
             r == (i - 1) % 3
  <2>1. 1 + ((i - 1) \div 3) \in 1..n /\ r \in 0..2
    BY <1>1
  <2>2. c \in Bits
    BY <2>1, ElementOfSeq
  <2>3. p[i] = tinymcu_uart_putc(c)[1 + r]
    BY <1>2
  <2> HIDE DEF c, r
  <2>4. p[i] = <<Awaits, Assign("uart", "TX_DATA", c), Return>>[1 + r]
    BY <2>3 DEF tinymcu_uart_putc, Awaits
  <2>5. Assign("uart", "TX_DATA", c) \in Sends
    BY <2>2 DEF Sends
  <2>6. QED
    BY <2>1, <2>4, <2>5 DEF r
<1> HIDE DEF p, n
<1>6. p \in Seq(Stmts) /\ Len(p) = 3 * n
  <2>1. \A i \in 1..3 * n : p[i] \in Stmts
    BY <1>3, <1>5 DEF Stmts
  <2>2. 3 * n \in Nat
    BY <1>1
  <2> DEFINE m == 3 * n
             B(i) == tinymcu_uart_putc(s[1 + ((i - 1) \div 3)])[1 + ((i - 1) % 3)]
  <2>3. p = [i \in 1..m |-> B(i)]
    BY <1>2
  <2> HIDE DEF m, B, Stmts
  <2>4. \A i \in 1..m : B(i) \in Stmts
    BY <2>1, <2>3 DEF m
  <2>5. QED
    BY <2>2, <2>3, <2>4 DEF m
<1>7. ASSUME NEW i \in 1..Len(p), p[i] \in Sends
      PROVE  i + 1 \in 1..Len(p) /\ p[i + 1] = Return /\ (i > 1 => p[i - 1] = Awaits)
  <2>1. i \in 1..3 * n /\ (i - 1) % 3 = 1
    BY <1>4, <1>5, <1>6, <1>7
  <2>2. i + 1 \in 1..3 * n /\ ((i + 1) - 1) % 3 = 2 /\ i - 1 \in 1..3 * n /\ ((i - 1) - 1) % 3 = 0
    BY <1>1, <2>1
  <2>3. QED
    BY <1>5, <1>6, <2>2
<1>8. p # <<>> => Head(p) \notin Sends
  <2> SUFFICES ASSUME p # <<>> PROVE p[1] \notin Sends
    BY <1>6, HeadTailProperties
  <2>1. 1 \in 1..3 * n /\ (1 - 1) % 3 = 0
    BY <1>1, <1>6, EmptySeq
  <2>2. QED
    BY <1>4, <1>5, <2>1
<1>9. QED
  BY <1>6, <1>7, <1>8 DEF Whole, Polite, p

Listeners == {"reader", "polled", "interrupt"}

LEMMA LinkIs ==
  ASSUME link \in Links
  PROVE  /\ Programs["a"] \in {"ping", "stream", "hello", "printf"}
         /\ Programs["b"] \in {"echo", "reader", "interrupt", "polled"}
         /\ CLKS_PER_BIT \in Nat /\ MaxIdle \in Nat
         /\ framing[1] \in {{}, {0}, {1}} /\ framing[2] \in {{}, {2}} /\ framing[3] \in {{}, {4}, {5}}
         /\ link.flow \subseteq {UART_BIT_RTS_ENABLE, UART_BIT_CTS_ENABLE}
         /\ Hello \in Seq(Bits) /\ Hello # <<>>
  BY PairAssumption DEF Programs, CLKS_PER_BIT, MaxIdle, framing, TINYMCU_UART_DATABITS,
     TINYMCU_UART_STOPBITS, TINYMCU_UART_PARITY, Bits

\* The pieces of the programs that write nothing to the line.
LEMMA CalmPieces ==
  /\ tinymcu_uart_getc \in Seq(Calm)
  /\ tinymcu_uart_rx_parity_error \in Seq(Calm) /\ tinymcu_uart_rx_ready \in Seq(Calm)
  /\ tinymcu_uart_irq_enable \in Seq(Calm) /\ tinymcu_uart_irq_disable \in Seq(Calm)
  /\ tinymcu_uart_irq_pending \in Seq(Calm) /\ tinymcu_uart_irq_clear \in Seq(Calm)
  /\ tinymcu_timer_reset \in Seq(Calm) /\ tinymcu_timer_set_clksel(CLKSEL) \in Seq(Calm)
  /\ tinymcu_timer_read_less(CLK_TICKS_PER_SECOND) \in Seq(Calm)
  /\ \A x \in {"return", "echo", "loop", "count", "checked", "next", "read", "poll", "test"} :
       <<Local(x)>> \in Seq(Calm)
<1>1. Calm = Loops \cup Gets \cup Alters \cup Ticks \cup Locals
  BY DEF Calm
<1> HIDE DEF Calm
<1>2. tinymcu_uart_getc \in Seq(Calm)
  BY <1>1 DEF tinymcu_uart_getc, Loops, Gets, Waits, Takes
<1>3. /\ tinymcu_uart_rx_parity_error \in Seq(Calm) /\ tinymcu_uart_rx_ready \in Seq(Calm)
      /\ tinymcu_uart_irq_pending \in Seq(Calm)
  BY <1>1 DEF tinymcu_uart_rx_parity_error, tinymcu_uart_rx_ready, tinymcu_uart_irq_pending, Gets
<1>4. /\ tinymcu_uart_irq_enable \in Seq(Calm) /\ tinymcu_uart_irq_disable \in Seq(Calm)
      /\ tinymcu_uart_irq_clear \in Seq(Calm)
  BY <1>1 DEF tinymcu_uart_irq_enable, tinymcu_uart_irq_disable, tinymcu_uart_irq_clear, Alters
<1>5. /\ tinymcu_timer_reset \in Seq(Calm) /\ tinymcu_timer_set_clksel(CLKSEL) \in Seq(Calm)
      /\ tinymcu_timer_read_less(CLK_TICKS_PER_SECOND) \in Seq(Calm)
  BY <1>1 DEF tinymcu_timer_reset, tinymcu_timer_set_clksel, tinymcu_timer_read_less, Ticks, Loops
<1>6. \A x \in {"return", "echo", "loop", "count", "checked", "next", "read", "poll", "test"} :
        <<Local(x)>> \in Seq(Calm)
  BY <1>1 DEF Locals
<1>7. QED
  BY <1>2, <1>3, <1>4, <1>5, <1>6

LEMMA CalmConcat ==
  ASSUME NEW a \in Seq(Calm), NEW b \in Seq(Calm)
  PROVE  a \o b \in Seq(Calm)
  BY ConcatProperties

\* What main does next is whole calls, and a listener's have no byte to send.
LEMMA ContinuationWhole ==
  ASSUME link \in Links, NEW n \in Node, NEW ret \in Bits, NEW c \in Continuations(n, ret)
  PROVE  Whole(c) /\ (Programs[n] \in Listeners => c \in Seq(Calm))
<1> USE CalmPieces, CalmConcat
<1>1. CASE Programs[n] = "ping"
  <2>1. PICK d \in Bytes(framing) : c = ping_loop(d)
    BY <1>1 DEF Continuations
  <2>2. d \in Bits
    BY <2>1, UartAssumption DEF Bytes, Bits
  <2>3. /\ Whole(tinymcu_uart_putc(d)) /\ Whole(tinymcu_uart_getc)
        /\ Whole(tinymcu_uart_rx_parity_error) /\ Whole(<<Local("checked")>>)
    BY <2>2, PutcWhole, CalmWhole
  <2>4. Whole(tinymcu_uart_putc(d) \o tinymcu_uart_getc)
    BY <2>3, WholeConcat
  <2>5. Whole((tinymcu_uart_putc(d) \o tinymcu_uart_getc) \o tinymcu_uart_rx_parity_error)
    BY <2>3, <2>4, WholeConcat
  <2>6. Whole(((tinymcu_uart_putc(d) \o tinymcu_uart_getc) \o tinymcu_uart_rx_parity_error)
              \o <<Local("checked")>>)
    BY <2>3, <2>5, WholeConcat
  <2>7. QED
    BY <1>1, <2>1, <2>6 DEF ping_loop, Listeners
<1>2. CASE Programs[n] = "stream"
  <2>1. PICK d \in Bytes(framing) : c = stream_loop(d)
    BY <1>2 DEF Continuations
  <2>2. d \in Bits
    BY <2>1, UartAssumption DEF Bytes, Bits
  <2>3. Whole(tinymcu_uart_putc(d)) /\ Whole(<<Local("next")>>)
    BY <2>2, PutcWhole, CalmWhole
  <2>4. QED
    BY <1>2, <2>1, <2>3, WholeConcat DEF stream_loop, Listeners
<1>3. CASE Programs[n] = "hello"
  <2> DEFINE u == tinymcu_timer_read_less(CLK_TICKS_PER_SECOND)
             v == tinymcu_timer_reset
             w == tinymcu_uart_puts(Hello)
             z == <<Local("loop")>>
  <2>1. c = u \o v \o w \o z
    BY <1>3 DEF Continuations, hello_loop
  <2>2. Whole(u) /\ Whole(v) /\ Whole(w) /\ Whole(z)
    BY LinkIs, PutsWhole, CalmWhole
  <2> HIDE DEF u, v, w, z
  <2>3. Whole(u \o v)
    BY <2>2, WholeConcat
  <2>4. Whole((u \o v) \o w)
    BY <2>2, <2>3, WholeConcat
  <2>5. Whole(((u \o v) \o w) \o z)
    BY <2>2, <2>4, WholeConcat
  <2>6. QED
    BY <1>3, <2>1, <2>5 DEF Listeners
<1>4. CASE Programs[n] = "printf"
  <2> DEFINE u == tinymcu_timer_read_less(CLK_TICKS_PER_SECOND)
             v == tinymcu_timer_reset
             x == tinymcu_uart_putc(Hello[1])
             y == tinymcu_uart_putc(digit(count))
             w == x \o y
             z == <<Local("count"), Local("loop")>>
  <2>1. c = u \o v \o w \o z
    BY <1>4 DEF Continuations, printf_loop, printf, stdout, uart_putc
  <2>2. Hello[1] \in Bits /\ digit(count) \in Bits
    <3>1. Hello \in Seq(Bits) /\ Hello # <<>>
      BY LinkIs
    <3>2. Hello[1] \in Bits
      <4>1. Len(Hello) \in Nat \ {0}
        BY <3>1, EmptySeq
      <4>2. QED
        BY <3>1, <4>1, ElementOfSeq
    <3>3. digit(count) \in Bits
      BY UartAssumption DEF digit, ToField, Bits
    <3>4. QED
      BY <3>2, <3>3
  <2>3. z \in Seq(Calm)
    <3>1. Local("count") \in Calm /\ Local("loop") \in Calm
      BY DEF Calm, Locals
    <3> HIDE DEF Calm
    <3>2. QED
      BY <3>1
  <2>4. Whole(u) /\ Whole(v) /\ Whole(x) /\ Whole(y) /\ Whole(z)
    BY <2>2, <2>3, PutcWhole, CalmWhole
  <2> HIDE DEF u, v, x, y, z
  <2>5. Whole(u \o v) /\ Whole(x \o y)
    BY <2>4, WholeConcat
  <2>6. Whole((u \o v) \o (x \o y))
    BY <2>5, WholeConcat
  <2>7. Whole(((u \o v) \o (x \o y)) \o z)
    BY <2>4, <2>6, WholeConcat
  <2>8. QED
    BY <1>4, <2>1, <2>7 DEF Listeners
<1>5. CASE Programs[n] = "echo"
  <2>1. c = (tinymcu_uart_putc(ret) \o tinymcu_uart_getc) \o <<Local("echo")>>
    BY <1>5 DEF Continuations, echo_loop
  <2>2. Whole(tinymcu_uart_putc(ret)) /\ Whole(tinymcu_uart_getc) /\ Whole(<<Local("echo")>>)
    BY PutcWhole, CalmWhole
  <2>3. Whole(tinymcu_uart_putc(ret) \o tinymcu_uart_getc)
    BY <2>2, WholeConcat
  <2>4. QED
    BY <1>5, <2>1, <2>2, <2>3, WholeConcat DEF Listeners
<1>6. CASE Programs[n] = "polled"
  <2>1. c \in {poll_hit, poll, poll_read, poll_end}
    BY <1>6 DEF Continuations
  <2>2. poll \in Seq(Calm) /\ poll_end \in Seq(Calm) /\ poll_hit \in Seq(Calm) /\ poll_read \in Seq(Calm)
    <3>1. poll \in Seq(Calm)
      BY DEF poll
    <3>2. poll_end \in Seq(Calm)
      BY <3>1 DEF poll_end
    <3>3. poll_hit \in Seq(Calm)
      <4>1. tinymcu_uart_irq_disable \o tinymcu_uart_rx_ready \in Seq(Calm)
        OBVIOUS
      <4>2. QED
        BY <4>1 DEF poll_hit
    <3>4. poll_read \in Seq(Calm)
      <4>1. tinymcu_uart_getc \o tinymcu_uart_irq_clear \in Seq(Calm)
        OBVIOUS
      <4>2. QED
        BY <3>2, <4>1 DEF poll_read
    <3>5. QED
      BY <3>1, <3>2, <3>3, <3>4
  <2>3. QED
    BY <2>1, <2>2, CalmWhole
<1>7. CASE Programs[n] \in {"reader", "interrupt"}
  <2>1. c = tinymcu_uart_getc \o <<Local("read")>>
    BY <1>7 DEF Continuations, read_loop
  <2>2. c \in Seq(Calm)
    BY <2>1
  <2>3. QED
    BY <2>2, CalmWhole
<1>8. QED
  BY <1>1, <1>2, <1>3, <1>4, <1>5, <1>6, <1>7, LinkIs DEF Node

\* What init writes, and what main does behind it.
Configured == framing[1] \cup framing[2] \cup (framing[3] \cup link.flow)
SetConfig  == Assign("uart", "CONFIG", Configured)
SetBaud    == Assign("uart", "BAUDRATE", CLKS_PER_BIT)
Armed      == tinymcu_uart_irq_enable \o tinymcu_csr_set_mie(TINYMCU_MIE.MEIE) \o tinymcu_trap_init
Rest(n) ==
  CASE Programs[n] \in {"ping", "stream"} -> <<Local("next")>>
    [] Programs[n] \in {"hello", "printf"} -> timer_start \o <<Local("loop")>>
    [] Programs[n] = "echo" -> tinymcu_uart_getc \o <<Local("echo")>>
    [] Programs[n] = "reader" -> read_loop
    [] Programs[n] = "polled" -> tinymcu_uart_irq_enable \o poll
    [] OTHER -> Armed \o <<Spin>>

\* How the program that listens by interrupt gets there.
Arms == {SetBits("uart", "INT_CONFIG", TINYMCU_UART_INT_RX_READY),
         CsrSet("mie", TINYMCU_MIE.MEIE), CsrPut("mtvec", "trap_entry"),
         CsrSet("mstatus", TINYMCU_MSTATUS_MIE)}

LEMMA ArmedIs == Armed \in Seq(Arms)
<1> DEFINE e == SetBits("uart", "INT_CONFIG", TINYMCU_UART_INT_RX_READY)
           m == CsrSet("mie", TINYMCU_MIE.MEIE)
           v == CsrPut("mtvec", "trap_entry")
           g == CsrSet("mstatus", TINYMCU_MSTATUS_MIE)
           Q == {e, m, v, g}
<1>1. Armed = <<e>> \o <<m>> \o (<<v>> \o <<g>>)
  BY DEF Armed, tinymcu_uart_irq_enable, tinymcu_csr_set_mie, tinymcu_trap_init,
         tinymcu_csr_write_mtvec, tinymcu_enable_global_interrupts
<1>2. <<e>> \in Seq(Q) /\ <<m>> \in Seq(Q) /\ <<v>> \in Seq(Q) /\ <<g>> \in Seq(Q) /\ Arms = Q
  BY DEF Arms
<1> DEFINE E == <<e>>
           M == <<m>>
           V == <<v>>
           G == <<g>>
<1> HIDE DEF E, M, V, G, Q
<1>3. E \o M \in Seq(Q) /\ V \o G \in Seq(Q)
  BY <1>2, ConcatProperties DEF E, M, V, G
<1>4. QED
  BY <1>1, <1>2, <1>3, ConcatProperties DEF E, M, V, G

\* Every statement there is in the programs.
Code == Stmts \cup Arms \cup {SetConfig, SetBaud, Spin}

LEMMA CalmIsCode ==
  ASSUME NEW c \in Seq(Calm)
  PROVE  c \in Seq(Code)
<1>1. Calm \subseteq Code
  BY DEF Code, Stmts
<1> HIDE DEF Calm, Code
<1>2. QED
  BY <1>1

LEMMA RestIs ==
  ASSUME link \in Links, NEW n \in Node
  PROVE  /\ Rest(n) \in Seq(Code)
         /\ IF Programs[n] = "interrupt" THEN EndsIn(Rest(n), <<Spin>>, Arms)
            ELSE Rest(n) \in Seq(Calm)
         /\ Programs[n] = "echo" => Rest(n) = tinymcu_uart_getc \o <<Local("echo")>>
         /\ Start(n, framing) = init(framing) \o Rest(n)
<1>1. SetConfig \in Code /\ SetBaud \in Code /\ Spin \in Code /\ Arms \subseteq Code
  BY DEF Code
<1>2. init(framing) = <<SetConfig, SetBaud>>
  BY DEF init, tinymcu_uart_init, SetConfig, SetBaud, Configured
<1> DEFINE i == init(framing)
<1>3. i \in Seq(Code)
  <2> HIDE DEF Code
  <2>1. QED
    BY <1>1, <1>2
<1> HIDE DEF i
<1>4. ASSUME NEW a \in Seq(Code), NEW b \in Seq(Code)
      PROVE  (i \o a) \o b = i \o (a \o b)
  BY <1>3, ConcatAssociative
<1> USE CalmPieces, CalmConcat, CalmIsCode
<1>5. CASE Programs[n] \in {"ping", "stream"}
  <2>1. Rest(n) = <<Local("next")>> /\ Start(n, framing) = i \o <<Local("next")>>
    BY <1>5 DEF Rest, Start, i
  <2>2. QED
    BY <1>5, <2>1 DEF i
<1>6. CASE Programs[n] \in {"hello", "printf"}
  <2>1. Rest(n) = timer_start \o <<Local("loop")>>
        /\ Start(n, framing) = (i \o timer_start) \o <<Local("loop")>>
    BY <1>6 DEF Rest, Start, i, hello_main
  <2>2. timer_start \in Seq(Calm) /\ <<Local("loop")>> \in Seq(Calm)
    BY DEF timer_start
  <2>3. Rest(n) \in Seq(Calm)
    BY <2>1, <2>2
  <2>4. (i \o timer_start) \o <<Local("loop")>> = i \o (timer_start \o <<Local("loop")>>)
    <3>1. timer_start \in Seq(Code) /\ <<Local("loop")>> \in Seq(Code)
      BY <2>2
    <3>2. QED
      BY ONLY <1>4, <3>1
  <2>5. QED
    BY <1>6, <2>1, <2>3, <2>4 DEF i
<1>7. CASE Programs[n] = "echo"
  <2>1. Rest(n) = tinymcu_uart_getc \o <<Local("echo")>>
        /\ Start(n, framing) = (i \o tinymcu_uart_getc) \o <<Local("echo")>>
    BY <1>7 DEF Rest, Start, i, echo_main
  <2>2. tinymcu_uart_getc \in Seq(Calm) /\ <<Local("echo")>> \in Seq(Calm) /\ Rest(n) \in Seq(Calm)
    BY <2>1
  <2>3. (i \o tinymcu_uart_getc) \o <<Local("echo")>> = i \o (tinymcu_uart_getc \o <<Local("echo")>>)
    <3>1. tinymcu_uart_getc \in Seq(Code) /\ <<Local("echo")>> \in Seq(Code)
      BY <2>2
    <3>2. QED
      BY ONLY <1>4, <3>1
  <2>4. QED
    BY <1>7, <2>1, <2>2, <2>3 DEF i
<1>8. CASE Programs[n] = "reader"
  <2>1. Rest(n) = read_loop /\ Start(n, framing) = i \o read_loop
    BY <1>8 DEF Rest, Start, i
  <2>2. read_loop \in Seq(Calm)
    BY DEF read_loop
  <2>3. QED
    BY <1>8, <2>1, <2>2 DEF i
<1>9. CASE Programs[n] = "polled"
  <2>1. Rest(n) = tinymcu_uart_irq_enable \o poll
        /\ Start(n, framing) = (i \o tinymcu_uart_irq_enable) \o poll
    BY <1>9 DEF Rest, Start, i, polled_main
  <2>2. poll \in Seq(Calm)
    BY DEF poll
  <2>3. (i \o tinymcu_uart_irq_enable) \o poll = i \o (tinymcu_uart_irq_enable \o poll)
    <3>1. tinymcu_uart_irq_enable \in Seq(Code) /\ poll \in Seq(Code)
      BY <2>2
    <3>2. QED
      BY ONLY <1>4, <3>1
  <2>4. Rest(n) \in Seq(Calm)
    BY <2>1, <2>2
  <2>5. QED
    BY <1>9, <2>1, <2>3, <2>4 DEF i
<1>10. CASE Programs[n] = "interrupt"
  <2> DEFINE e == tinymcu_uart_irq_enable
             m == tinymcu_csr_set_mie(TINYMCU_MIE.MEIE)
             t == tinymcu_trap_init
             s == <<Spin>>
  <2>1. Rest(n) = Armed \o s /\ Armed = (e \o m) \o t
        /\ Start(n, framing) = ((i \o e) \o m) \o t \o s
    BY <1>10 DEF Rest, Start, i, interrupt_main, Armed
  <2>2. Armed \in Seq(Code) /\ s \in Seq(Code)
    <3> HIDE DEF Code, Arms, s
    <3>1. Armed \in Seq(Code)
      BY <1>1, ArmedIs
    <3>2. s \in Seq(Code)
      BY <1>1 DEF s
    <3>3. QED
      BY <3>1, <3>2
  <2>3. e \in Seq(Code) /\ m \in Seq(Code) /\ t \in Seq(Code)
    <3>1. e \in Seq(Code)
      OBVIOUS
    <3>2. CsrSet("mie", TINYMCU_MIE.MEIE) \in Code
      BY <1>1 DEF Arms
    <3>3. CsrPut("mtvec", "trap_entry") \in Code /\ CsrSet("mstatus", TINYMCU_MSTATUS_MIE) \in Code
      BY <1>1 DEF Arms
    <3>4. m \in Seq(Code)
      <4> HIDE DEF Code
      <4>1. QED
        BY <3>2 DEF tinymcu_csr_set_mie
    <3>5. t \in Seq(Code)
      <4> DEFINE v == CsrPut("mtvec", "trap_entry")
                 g == CsrSet("mstatus", TINYMCU_MSTATUS_MIE)
                 V == <<v>>
                 G == <<g>>
      <4>1. t = V \o G
        BY DEF tinymcu_trap_init, tinymcu_csr_write_mtvec, tinymcu_enable_global_interrupts
      <4> HIDE DEF Code, v, g
      <4>2. V \in Seq(Code) /\ G \in Seq(Code)
        BY <3>3 DEF v, g
      <4> HIDE DEF V, G
      <4>3. QED
        BY <4>1, <4>2, ConcatProperties
    <3>6. QED
      BY <3>1, <3>4, <3>5
  <2> HIDE DEF e, m, t, s
  <2>4. e \o m \in Seq(Code)
    BY <2>3, ConcatProperties
  <2>5. (i \o e) \o m = i \o (e \o m)
    BY <1>4, <2>3
  <2>6. (i \o (e \o m)) \o t = i \o Armed
    BY <1>4, <2>1, <2>3, <2>4
  <2>7. (i \o Armed) \o s = i \o (Armed \o s)
    BY <1>4, <2>2
  <2>8. Rest(n) \in Seq(Code)
    BY <2>1, <2>2, ConcatProperties
  <2>9. EndsIn(Rest(n), s, Arms)
    BY <2>1, ArmedIs DEF EndsIn
  <2>10. QED
    BY <1>10, <2>1, <2>5, <2>6, <2>7, <2>8, <2>9 DEF i, s
<1>11. QED
  BY <1>5, <1>6, <1>7, <1>8, <1>9, <1>10, LinkIs DEF Node

LEMMA StartIs ==
  ASSUME link \in Links, NEW n \in Node
  PROVE  LET c == <<SetBaud>> \o Rest(n)
         IN  /\ Start(n, framing) = <<SetConfig>> \o c
             /\ <<SetConfig>> \o c # <<>> /\ Head(<<SetConfig>> \o c) = SetConfig
             /\ Tail(<<SetConfig>> \o c) = c
             /\ c # <<>> /\ Head(c) = SetBaud /\ Tail(c) = Rest(n)
<1> DEFINE a == <<SetConfig>>
           b == <<SetBaud>>
           r == Rest(n)
<1>1. SetConfig \in Code /\ SetBaud \in Code
  BY DEF Code
<1>2. r \in Seq(Code) /\ Start(n, framing) = init(framing) \o r
  BY RestIs
<1>3. init(framing) = a \o b
  BY PairIs DEF init, tinymcu_uart_init, SetConfig, SetBaud, Configured
<1>4. a \in Seq(Code) /\ b \in Seq(Code)
  <2> HIDE DEF Code
  <2>1. QED
    BY <1>1
<1> HIDE DEF r, Code
<1>5. /\ b \o r \in Seq(Code) /\ b \o r # <<>> /\ Head(b \o r) = SetBaud /\ Tail(b \o r) = r
  BY <1>1, <1>2, FirstStatement
<1> DEFINE c == b \o r
<1> HIDE DEF c
<1>6. a \o c # <<>> /\ Head(a \o c) = SetConfig /\ Tail(a \o c) = c
  BY <1>1, <1>5, FirstStatement DEF c
<1>7. (a \o b) \o r = a \o (b \o r)
  <2> HIDE DEF a, b
  <2>1. QED
    BY <1>2, <1>4, ConcatAssociative
<1>8. QED
  BY <1>2, <1>3, <1>5, <1>6, <1>7 DEF c, r

Clears == ClearBits("uart", "INT_STATUS", TINYMCU_UART_INT_RX_READY)

LEMMA HandlerIs ==
  /\ interrupt_handler # <<>> /\ Head(interrupt_handler) = Waits
  /\ Tail(interrupt_handler) = <<Takes, Clears>>
  /\ <<Takes, Clears>> # <<>> /\ Head(<<Takes, Clears>>) = Takes /\ Tail(<<Takes, Clears>>) = <<Clears>>
  /\ <<Clears>> # <<>> /\ Head(<<Clears>>) = Clears /\ Tail(<<Clears>>) = <<>>
<1> DEFINE Q == {Waits, Takes, Clears}
           a == <<Waits>>
           b == <<Takes>>
           c == <<Clears>>
           d == <<Takes, Clears>>
<1>1. interrupt_handler = <<Waits, Takes>> \o c
  BY DEF interrupt_handler, tinymcu_uart_getc, tinymcu_uart_irq_clear, Waits, Takes, Clears
<1>2. <<Waits, Takes>> = a \o b /\ b \o c = d
  BY PairIs
<1>3. a \in Seq(Q) /\ b \in Seq(Q) /\ c \in Seq(Q) /\ d \in Seq(Q) /\ Waits \in Q
  OBVIOUS
<1>4. (a \o b) \o c = a \o (b \o c)
  <2> HIDE DEF a, b, c, Q
  <2>1. QED
    BY <1>3, ConcatAssociative
<1>5. interrupt_handler = a \o d
  BY <1>1, <1>2, <1>4
<1>6. a \o d # <<>> /\ Head(a \o d) = Waits /\ Tail(a \o d) = d
  <2> HIDE DEF d, Q
  <2>1. QED
    BY <1>3, FirstStatement
<1>7. /\ d # <<>> /\ Head(d) = Takes /\ Tail(d) = c
      /\ c # <<>> /\ Head(c) = Clears /\ Tail(c) = <<>>
  OBVIOUS
<1>8. QED
  BY <1>5, <1>6, <1>7

-----------------------------------------------------------------------------
(* A statement. *)

LEMMA RequestIs ==
  ASSUME NEW th, th.code # <<>>
  PROVE  LET s == Head(th.code)
             req == Request(th)
         IN  /\ s.op \notin BusOps => req = NoReq
             /\ s.op = "assign" => req = WriteReq(s.dev, s.reg, s.val)
             /\ s.op = "modify" /\ th.acc # <<>> =>
                  req = WriteReq(s.dev, s.reg, Stored(s, th.acc[1]))
             /\ s.op \in BusOps \ {"assign"} /\ ~(s.op = "modify" /\ th.acc # <<>>) =>
                  req = ReadReq(s.dev, s.reg)
  BY DEF Request, Done, BusOps

LEMMA StatementIs ==
  ASSUME NEW th, ThreadShape(th), th.ret \in Bits, th.code # <<>>, NEW word,
         Head(th.code) \in Stmts
  PROVE  LET s == Head(th.code)
             t == Stepped(th, word)
             req == Request(th)
         IN /\ ThreadShape(t) /\ t.ret \in Bits
            /\ t = th \/ t.code = Tail(th.code) \/ (s \in Alters /\ t.code = th.code)
            /\ s \in Sends \cup Locals => t = Behind(th, th.ret)
            /\ s \in Sends => s.val \in Bits /\ req = WriteReq("uart", "TX_DATA", s.val)
            /\ s \notin Sends => ~Writes(req, "uart", "TX_DATA")
            /\ ~Writes(req, "uart", "CONFIG") /\ ~Writes(req, "uart", "BAUDRATE")
            /\ Reads(req, "uart", "RX_DATA") <=> s = Takes
            /\ s = Takes => t = Behind(th, word \cap Word32)
            /\ s = Awaits => /\ req = ReadReq("uart", "STATUS")
                             /\ t = IF word \cap {0} # {} THEN th ELSE Behind(th, th.ret)
            /\ s = Waits => /\ req = ReadReq("uart", "STATUS")
                            /\ t = IF word \cap {1} = {} THEN th ELSE Behind(th, th.ret)
            /\ s.op \notin {"csrs", "csrc"}
<1> DEFINE s == Head(th.code)
           t == Stepped(th, word)
           req == Request(th)
<1>1. s \in Loops \cup Gets \cup Alters \cup Ticks \cup Locals \cup Sends
  BY DEF Stmts, Calm
<1>2. ASSUME NEW r \in Bits, t = Behind(th, r)
      PROVE  ThreadShape(t) /\ t.ret \in Bits /\ t.code = Tail(th.code)
  BY <1>2 DEF Behind, ThreadShape
<1>3. CASE s \in Sends
  <2>1. s.op = "assign" /\ s.dev = "uart" /\ s.reg = "TX_DATA" /\ s.val \in Bits
    BY <1>3, CalmIs DEF Sends, Assign
  <2>2. t = Behind(th, th.ret)
    BY <2>1, SteppedOn
  <2>3. req = WriteReq("uart", "TX_DATA", s.val)
    BY <2>1, RequestIs
  <2>4. s # Takes /\ s # Awaits /\ s # Waits
    BY <2>1 DEF Takes, Awaits, Waits, Get, WhileSet, WhileClear
  <2>5. QED
    BY <1>2, <1>3, <2>1, <2>2, <2>3, <2>4 DEF WriteReq, Writes, Reads
<1>4. CASE s \in Locals
  <2>1. s.op = "local"
    BY <1>4, CalmIs
  <2>2. t = Behind(th, th.ret) /\ req = NoReq
    BY <2>1, SteppedOn, RequestIs DEF BusOps
  <2>3. s # Takes /\ s # Awaits /\ s # Waits /\ s \notin Sends
    BY <2>1, CalmIs DEF Takes, Awaits, Waits, Get, WhileSet, WhileClear
  <2>4. QED
    BY <1>2, <1>4, <2>1, <2>2, <2>3 DEF NoReq, Writes, Reads
<1>5. CASE s \in Ticks
  <2>1. s.op = "assign" /\ s.dev = "timer"
    BY <1>5, CalmIs
  <2>2. t = Behind(th, th.ret) /\ req = WriteReq(s.dev, s.reg, s.val)
    BY <2>1, SteppedOn, RequestIs
  <2>3. s # Takes /\ s # Awaits /\ s # Waits /\ s \notin Sends /\ s \notin Locals
    BY <2>1, CalmIs DEF Takes, Awaits, Waits, Get, WhileSet, WhileClear
  <2>4. QED
    BY <1>2, <2>1, <2>2, <2>3 DEF WriteReq, Writes, Reads
<1>6. CASE s \in Gets
  <2>1. s.op = "get" /\ s.dev = "uart" /\ s.mask \in Bits
    BY <1>6, CalmIs
  <2>2. t = Behind(th, word \cap s.mask) /\ req = ReadReq(s.dev, s.reg)
    BY <2>1, SteppedGet, RequestIs DEF BusOps
  <2>3. s # Awaits /\ s # Waits /\ s \notin Sends /\ s \notin Locals
    BY <2>1, CalmIs DEF Awaits, Waits, WhileSet, WhileClear
  <2>4. s = Takes <=> s.reg = "RX_DATA"
    BY <1>6 DEF Gets, Takes, Get
  <2>5. s = Takes => s.mask = Word32
    BY DEF Takes, Get
  <2>6. word \cap s.mask \in Bits
    BY <2>1 DEF Bits
  <2>7. ThreadShape(t) /\ t.ret \in Bits /\ t.code = Tail(th.code)
    BY <1>2, <2>2, <2>6
  <2>8. /\ ~Writes(req, "uart", "TX_DATA") /\ ~Writes(req, "uart", "CONFIG")
        /\ ~Writes(req, "uart", "BAUDRATE")
        /\ Reads(req, "uart", "RX_DATA") <=> s.reg = "RX_DATA"
    BY <2>1, <2>2 DEF ReadReq, Writes, Reads
  <2>9. s = Takes => t = Behind(th, word \cap Word32)
    BY <2>2, <2>5
  <2>10. s.op \notin {"csrs", "csrc"}
    BY <2>1
  <2>11. QED
    BY <2>3, <2>4, <2>7, <2>8, <2>9, <2>10
<1>7. CASE s \in Alters
  <2>1. s.op = "modify" /\ s.dev = "uart" /\ s.reg \in {"INT_CONFIG", "INT_STATUS"}
    BY <1>7, CalmIs
  <2>2. s # Takes /\ s # Awaits /\ s # Waits /\ s \notin Sends /\ s \notin Locals
    BY <2>1, CalmIs DEF Takes, Awaits, Waits, Get, WhileSet, WhileClear
  <2>3. CASE th.acc = <<>>
    <3>1. t = [code |-> th.code, acc |-> <<word>>, ret |-> th.ret] /\ req = ReadReq(s.dev, s.reg)
      BY <2>1, <2>3, SteppedLoad, RequestIs DEF BusOps
    <3>2. ThreadShape(t) /\ t.ret \in Bits /\ t.code = th.code
      BY <3>1 DEF ThreadShape
    <3>3. QED
      BY <1>7, <2>1, <2>2, <3>1, <3>2 DEF ReadReq, Writes, Reads
  <2>4. CASE th.acc # <<>>
    <3>1. t = Behind(th, th.ret) /\ req = WriteReq(s.dev, s.reg, Stored(s, th.acc[1]))
      BY <2>1, <2>4, SteppedOn, RequestIs
    <3>2. QED
      BY <1>2, <2>1, <2>2, <3>1 DEF WriteReq, Writes, Reads
  <2>5. QED
    BY <2>3, <2>4
<1>8. CASE s \in Loops
  <2>1. s.op \in {"whileSet", "whileClear", "whileLess"}
    BY <1>8, CalmIs
  <2>2. req = ReadReq(s.dev, s.reg)
    BY <2>1, RequestIs DEF BusOps
  <2>3. s # Takes /\ s \notin Sends /\ s \notin Locals /\ s.reg # "RX_DATA"
    BY <1>8, <2>1, CalmIs DEF Loops, Takes, Get, Awaits, Waits, WhileSet, WhileClear, WhileLess
  <2>4. t = th \/ t = Behind(th, th.ret)
    BY <2>1, SteppedLoop
  <2>5. s = Awaits => /\ req = ReadReq("uart", "STATUS")
                      /\ t = IF word \cap {0} # {} THEN th ELSE Behind(th, th.ret)
    BY <2>2, SteppedLoop DEF Awaits, WhileSet, TINYMCU_UART_STATUS_TX_ACTIVE
  <2>6. s = Waits => /\ req = ReadReq("uart", "STATUS")
                     /\ t = IF word \cap {1} = {} THEN th ELSE Behind(th, th.ret)
    BY <2>2, SteppedLoop DEF Waits, WhileClear, TINYMCU_UART_STATUS_RX_READY
  <2>7. ThreadShape(t) /\ t.ret \in Bits /\ (t = th \/ t.code = Tail(th.code))
    BY <1>2, <2>4
  <2>8. ~Writes(req, "uart", "TX_DATA") /\ ~Writes(req, "uart", "CONFIG")
        /\ ~Writes(req, "uart", "BAUDRATE") /\ ~Reads(req, "uart", "RX_DATA")
    BY <2>2, <2>3 DEF ReadReq, Writes, Reads
  <2>9. QED
    BY <2>1, <2>3, <2>5, <2>6, <2>7, <2>8
<1>9. QED
  BY <1>1, <1>3, <1>4, <1>5, <1>6, <1>7, <1>8

\* The same of the statements that arm the interrupt.
LEMMA ArmingIs ==
  ASSUME NEW th, ThreadShape(th), th.ret \in Bits, th.code # <<>>, NEW word,
         Head(th.code) \in Arms \cup {Spin}
  PROVE  LET s == Head(th.code)
             t == Stepped(th, word)
             req == Request(th)
         IN /\ ThreadShape(t) /\ t.ret \in Bits
            /\ t.code = th.code \/ (s # Spin /\ t.code = Tail(th.code))
            /\ s # Spin => s \in Arms
            /\ ~Writes(req, "uart", "CONFIG") /\ ~Writes(req, "uart", "BAUDRATE")
            /\ ~Writes(req, "uart", "TX_DATA") /\ ~Writes(req, "uart", "INT_STATUS")
            /\ ~Reads(req, "uart", "RX_DATA")
            /\ s \notin Sends
<1> DEFINE s == Head(th.code)
           t == Stepped(th, word)
           req == Request(th)
<1>1. CASE s = Spin
  <2>1. s.op = "spin"
    BY <1>1 DEF Spin
  <2>2. t = th /\ req = NoReq
    BY <2>1, SteppedLoop, RequestIs DEF BusOps
  <2>3. s \notin Sends
    BY <2>1, CalmIs
  <2>4. QED
    BY <1>1, <2>2, <2>3 DEF NoReq, Writes, Reads
<1>2. CASE s \in Arms
  <2>1. /\ s.op \in {"modify", "csrs", "csrw"} /\ s # Spin
        /\ s.op = "modify" => s.dev = "uart" /\ s.reg = "INT_CONFIG"
    BY <1>2 DEF Arms, SetBits, Modify, CsrSet, CsrPut, Spin
  <2>2. /\ ThreadShape(t)
        /\ t.code = th.code \/ t.code = Tail(th.code)
    BY <2>1, SteppedShape
  <2>3. t.ret \in Bits
    BY <2>1, SteppedOn, SteppedLoad DEF Behind
  <2>4. req = NoReq \/ req.reg = "INT_CONFIG"
    BY <2>1, RequestIs DEF BusOps, ReadReq, WriteReq
  <2>5. s \notin Sends
    BY <2>1, CalmIs
  <2>6. QED
    BY <1>2, <2>1, <2>2, <2>3, <2>4, <2>5 DEF NoReq, Writes, Reads
<1>3. QED
  BY <1>1, <1>2

-----------------------------------------------------------------------------
(* What a node may do in one clock. *)

\* Nothing of the program.
Stays(h, g) ==
  /\ HartShape(g) /\ g.main = h.main /\ g.isr = h.isr
  /\ g.trapped = h.trapped /\ g.MIE = h.MIE /\ g.MPIE = h.MPIE
\* A statement of the running thread; main goes on with its next call.
Acts(n, g, req) ==
  /\ Awake(n) /\ CanExecute(hart[n], mip(n)) /\ req = Request(Running(hart[n]))
  /\ g \in Continued(n, Executed(hart[n], Reading(n, req)))

\* Behind the last statement main makes its next call.
GoesOn(n, t, m) == IF t.code # <<>> THEN m = t ELSE \E c \in Continuations(n, t.ret) : m = Call(t, c)

LEMMA MoveIs ==
  ASSUME NEW n \in Node, HartShape(hart[n]), NEW g, NEW req, <<g, req>> \in Moves(n)
  PROVE  \/ req = NoReq /\ Stays(hart[n], g)
         \/ req = NoReq /\ Traps(hart[n], g, mip(n), interrupt_handler)
         \/ req = NoReq /\ Mrets(hart[n], g)
         \/ Acts(n, g, req)
<1> DEFINE h == hart[n]
           r == HartReq(h, mip(n))
<1>1. \/ h.idle < MaxIdle /\ g = [h EXCEPT !.idle = @ + 1] /\ req = NoReq
      \/ g = h /\ req = NoReq
      \/ /\ Awake(n) /\ CanExecute(h, mip(n)) /\ req = r
         /\ g \in Continued(n, Executed(h, Reading(n, r)))
      \/ Interrupted(h, mip(n)) /\ g \in TrapOutcomes(h, interrupt_handler) /\ req = NoReq
      \/ h.trapped /\ Done(h.isr) /\ g = Mretted(h) /\ req = NoReq
  BY DEF Moves
<1>2. CASE h.idle < MaxIdle /\ g = [h EXCEPT !.idle = @ + 1] /\ req = NoReq
  <2>1. Idles(h, g, MaxIdle)
    BY <1>2 DEF Idles
  <2>2. QED
    BY <1>2, <2>1, IdlesIs DEF Stays
<1>3. CASE g = h /\ req = NoReq
  BY <1>3 DEF Stays
<1>4. CASE /\ Awake(n) /\ CanExecute(h, mip(n)) /\ req = r
           /\ g \in Continued(n, Executed(h, Reading(n, r)))
  BY <1>4 DEF Acts, CanExecute, HartReq
<1>5. CASE Interrupted(h, mip(n)) /\ g \in TrapOutcomes(h, interrupt_handler) /\ req = NoReq
  BY <1>5 DEF Traps
<1>6. CASE h.trapped /\ Done(h.isr) /\ g = Mretted(h) /\ req = NoReq
  BY <1>6 DEF Mrets
<1>7. QED
  BY <1>1, <1>2, <1>3, <1>4, <1>5, <1>6

LEMMA ActsIs ==
  ASSUME NEW n \in Node, HartShape(hart[n]), NEW g, NEW req, Acts(n, g, req),
         ThreadShape(Stepped(Running(hart[n]), Reading(n, req)))
  PROVE  LET h == hart[n]
             t == Stepped(Running(h), Reading(n, req))
             s == Head(Running(h).code)
         IN /\ req = Request(Running(h)) /\ Running(h).code # <<>> /\ Awake(n)
            /\ HartShape(g) /\ g.trapped = h.trapped
            /\ s.op \notin {"csrs", "csrc"} => g.MIE = h.MIE
            /\ h.trapped => g.main = h.main /\ g.isr = t
            /\ ~h.trapped => g.isr = h.isr /\ GoesOn(n, t, g.main)
<1> DEFINE h == hart[n]
           w == Reading(n, req)
           e == Executed(h, w)
           t == Stepped(Running(h), w)
           s == Head(Running(h).code)
<1>1. /\ req = Request(Running(h)) /\ Running(h).code # <<>> /\ Awake(n)
      /\ g \in Continued(n, e)
  BY DEF Acts, CanExecute, Done
<1>2. /\ HartShape(e) /\ e.trapped = h.trapped /\ e.MPIE = h.MPIE
      /\ e.main = IF h.trapped THEN h.main ELSE t
      /\ e.isr = IF h.trapped THEN t ELSE h.isr
      /\ s.op \notin {"csrs", "csrc"} => e.MIE = h.MIE
  BY ExecutedIs
<1> HIDE DEF h, e, t, s, w
<1>3. CASE e.trapped \/ e.main.code # <<>>
  <2>1. g = e
    BY <1>1, <1>3 DEF Continued, Done
  <2>2. QED
    BY <1>1, <1>2, <1>3, <2>1 DEF h, t, s, w, GoesOn
<1>4. CASE ~e.trapped /\ e.main.code = <<>>
  <2>1. PICK c \in Continuations(n, e.main.ret) : g = [e EXCEPT !.main = Call(e.main, c)]
    BY <1>1, <1>4 DEF Continued, Done
  <2>2. ~h.trapped /\ e.main = t
    BY <1>2, <1>4
  <2>3. ThreadShape(Call(t, c))
    BY <2>2, CalledShape DEF t, w, h
  <2>4. g = [main |-> Call(t, c), isr |-> e.isr, trapped |-> e.trapped, MIE |-> e.MIE,
             MPIE |-> e.MPIE, mie |-> e.mie, mtvec |-> e.mtvec, idle |-> e.idle,
             lost |-> e.lost, torn |-> e.torn]
    BY <1>2, <2>1, <2>2 DEF HartShape
  <2>5. HartShape(g)
    BY <1>2, <2>3, <2>4 DEF HartShape
  <2>6. QED
    BY <1>1, <1>2, <1>4, <2>1, <2>2, <2>4, <2>5 DEF h, t, s, w, GoesOn
<1>5. QED
  BY <1>3, <1>4

\* A torn trap is never undone: behind it nothing more is said of the link.
AnyTorn == \E n \in Node : IsTorn(hart[n])

LEMMA TornMoves ==
  ASSUME NEW n, IsTorn(hart[n]), NEW g, NEW req, <<g, req>> \in Moves(n)
  PROVE  IsTorn(g)
<1> DEFINE h == hart[n]
           r == HartReq(h, mip(n))
           e == Executed(h, Reading(n, r))
<1>1. \/ Idles(h, g, MaxIdle) \/ g = h
      \/ g \in Continued(n, e)
      \/ Traps(h, g, mip(n), interrupt_handler) \/ Mrets(h, g)
  BY DEF Moves, Idles, Traps, Mrets
<1>2. CASE g \in Continued(n, e)
  <2>1. IsTorn(e)
    BY TornStays
  <2>2. g = e \/ \E c : g = [e EXCEPT !.main = c]
    BY <1>2 DEF Continued
  <2> HIDE DEF e
  <2>3. QED
    BY <2>1, <2>2 DEF IsTorn
<1> HIDE DEF e
<1>3. QED
  BY <1>1, <1>2, TornStays

-----------------------------------------------------------------------------
(* What holds of a node: its processor h and its UART u. *)

Quiet(h) == h.trapped = FALSE /\ h.MIE = FALSE

\* init has still to write CONFIG; it has still to write BAUDRATE; it is done.
Unset(n, h, u) ==
  /\ h.main.code = <<SetConfig>> \o (<<SetBaud>> \o Rest(n)) /\ Quiet(h)
  /\ u.CONFIG = {} /\ u.BAUDRATE = 0
HalfSet(n, h, u) ==
  /\ h.main.code = <<SetBaud>> \o Rest(n) /\ Quiet(h)
  /\ u.CONFIG = Configured /\ u.BAUDRATE = 0
Serves(n, h, u) ==
  /\ u.CONFIG = Configured /\ u.BAUDRATE = CLKS_PER_BIT
  /\ IF Programs[n] = "interrupt" THEN EndsIn(h.main.code, <<Spin>>, Arms)
     ELSE /\ Polite(h.main.code) /\ Quiet(h)
          /\ Programs[n] \in Listeners => h.main.code \in Seq(Calm)

\* main and the transmitter.
ActiveType(u) == u.tx_active \in BOOLEAN
Free(u)       == u.tx_active = FALSE
Sending(h) == h.main.code # <<>> /\ Head(h.main.code) \in Sends
TxSync(h, u) ==
  /\ u.tx.state = "Idle" => u.tx_active = FALSE
  /\ u.tx.state \in {"Data", "Parity", "Stop", "Complete"} => u.tx_active = TRUE
  /\ u.tx.state = "Start" /\ u.tx_active = FALSE =>
       h.main.code # <<>> /\ Head(h.main.code) = Return
  /\ Sending(h) => u.tx.state = "Idle"

MainInv(n, h, u) ==
  /\ h.main.ret \in Bits /\ u.tx \in Engines /\ ActiveType(u)
  /\ Unset(n, h, u) \/ HalfSet(n, h, u) \/ Serves(n, h, u)
  /\ TxSync(h, u)
  /\ u.tx.state # "Idle" => Serves(n, h, u)

\* The handler and the receiver.
ReadyType(u) == u.rx_ready \in BOOLEAN
Ready(u)     == u.rx_ready = TRUE
IsrInv(n, h, u) ==
  /\ h.trapped => /\ Programs[n] = "interrupt" /\ h.MIE = FALSE /\ h.isr.ret \in Bits
                  /\ h.isr.code \in {interrupt_handler, <<Takes, Clears>>, <<Clears>>, <<>>}
                  /\ h.isr.code \in {interrupt_handler, <<Takes, Clears>>} => Ready(u)
  /\ Programs[n] = "interrupt" /\ 0 \in u.INT_STATUS =>
       Ready(u) \/ (h.trapped /\ h.isr.code = <<Clears>>)
  /\ ReadyType(u)

NodeInv(n, h, u) == HartShape(h) /\ MainInv(n, h, u) /\ IsrInv(n, h, u)

LEMMA BaudType ==
  ASSUME link \in Links, NEW n, NEW h, NEW u, MainInv(n, h, u)
  PROVE  u.BAUDRATE \in Nat /\ u.CONFIG \in {{}, Configured}
  BY LinkIs DEF MainInv, Unset, HalfSet, Serves

-----------------------------------------------------------------------------
(* A clock in which main does nothing. *)

LEMMA MainKept ==
  ASSUME link \in Links, NEW n \in Node, NEW h, NEW u, MainInv(n, h, u), NEW g, g.main = h.main,
         Programs[n] = "interrupt" \/ Quiet(g), Quiet(h) => Quiet(g) \/ Serves(n, h, u),
         NEW req, ~Writes(req, "uart", "TX_DATA"), ~Writes(req, "uart", "CONFIG"),
         ~Writes(req, "uart", "BAUDRATE"),
         NEW rx, NEW cts, NEW v, v = UartClock(u, req, rx, cts)
  PROVE  MainInv(n, g, v) /\ (Serves(n, h, u) => Serves(n, g, v))
<1>1. u.BAUDRATE \in Nat /\ u.tx \in Engines
  BY BaudType DEF MainInv
<1>2. v.tx = TxNext(u, req, cts) /\ v.tx_active = TxActive(u)
      /\ v.CONFIG = u.CONFIG /\ v.BAUDRATE = u.BAUDRATE
  BY DEF UartClock, UartRegister
<1>3. ~Accepts(u, req, cts)
  BY DEF Accepts
<1>4. /\ v.tx \in Engines
      /\ u.tx.state = "Idle" => v.tx.state = "Idle"
      /\ u.tx.state = "Complete" => v.tx.state = "Idle"
      /\ u.tx.state \in Timing => v.tx.state \in {u.tx.state, Follows(u.tx)[1]}
  <2>1. u.tx.state \in Timing => v.tx.state \in {u.tx.state, Follows(u.tx)[1]}
    <3> SUFFICES ASSUME u.tx.state \in Timing
                 PROVE  v.tx.state \in {u.tx.state, Follows(u.tx)[1]}
      OBVIOUS
    <3>1. v.tx = Timed(u.tx, Follows(u.tx)[1], Follows(u.tx)[2])
      BY <1>1, <1>2, TxNextIs
    <3>2. QED
      BY <1>1, <3>1, TimedIs
  <2>2. QED
    BY <1>1, <1>2, <1>3, <2>1, TxNextIs
<1>5. u.tx.state \in Timing => Follows(u.tx)[1] \in {"Data", "Parity", "Stop", "Complete"}
  BY <1>1, FollowsIs
<1>6. Serves(n, h, u) => Serves(n, g, v)
  BY <1>2 DEF Serves, Quiet
<1>7. (Unset(n, h, u) => Unset(n, g, v) \/ Serves(n, g, v))
      /\ (HalfSet(n, h, u) => HalfSet(n, g, v) \/ Serves(n, g, v))
  BY <1>2, <1>6 DEF Unset, HalfSet
<1>8. u.tx.state \in States
  BY <1>1 DEF Engines
<1>9. TxSync(h, u) /\ u.tx_active \in BOOLEAN /\ (u.tx.state # "Idle" => Serves(n, h, u))
  BY DEF MainInv, ActiveType
<1>10. v.tx_active = IF u.tx.state = "Start" THEN TRUE ELSE
                     IF u.tx.state = "Complete" THEN FALSE ELSE u.tx_active
  BY <1>2 DEF TxActive
<1>11. TxSync(g, v)
  <2>1. Sending(g) => Sending(h)
    BY DEF Sending
  <2>2. v.tx.state = "Idle" => v.tx_active = FALSE
    BY <1>4, <1>5, <1>8, <1>9, <1>10 DEF TxSync, Timing, States
  <2>3. v.tx.state \in {"Data", "Parity", "Stop", "Complete"} => v.tx_active = TRUE
    BY <1>4, <1>5, <1>8, <1>9, <1>10 DEF TxSync, Timing, States
  <2>4. v.tx.state = "Start" => v.tx_active = TRUE
    BY <1>4, <1>5, <1>8, <1>9, <1>10 DEF TxSync, Timing, States
  <2>5. Sending(g) => v.tx.state = "Idle"
    BY <1>4, <1>9, <2>1 DEF TxSync
  <2>6. QED
    BY <2>2, <2>3, <2>4, <2>5 DEF TxSync
<1>12. v.tx.state # "Idle" => Serves(n, g, v)
  BY <1>4, <1>6, <1>9
<1>13. g.main.ret \in Bits /\ v.tx_active \in BOOLEAN
  BY <1>9, <1>10 DEF MainInv
<1>14. QED
  BY <1>4, <1>6, <1>7, <1>11, <1>12, <1>13 DEF MainInv, ActiveType

-----------------------------------------------------------------------------
(* A clock in which main executes a statement. *)

\* The transmitter's part: what main leaves behind agrees with the engine.
LEMMA SyncStep ==
  ASSUME NEW h, NEW u, u.tx \in Engines, u.BAUDRATE \in Nat, ActiveType(u), TxSync(h, u),
         h.main.code # <<>>, NEW g, NEW req, NEW rx, NEW cts, NEW v, v = UartClock(u, req, rx, cts),
         Writes(req, "uart", "TX_DATA") =>
           Sending(h) /\ g.main.code # <<>> /\ Head(g.main.code) = Return,
         Sending(g) => /\ ~Writes(req, "uart", "TX_DATA")
                       /\ g.main.code = h.main.code \/ (Head(h.main.code) = Awaits /\ Free(u))
  PROVE  /\ v.tx \in Engines /\ ActiveType(v) /\ TxSync(g, v)
         /\ v.tx.state # "Idle" => u.tx.state # "Idle" \/ Writes(req, "uart", "TX_DATA")
<1>1. v.tx = TxNext(u, req, cts) /\ v.tx_active = TxActive(u)
  BY DEF UartClock
<1>2. /\ v.tx \in Engines
      /\ u.tx.state = "Idle" => v.tx.state = IF Accepts(u, req, cts) THEN "Start" ELSE "Idle"
      /\ u.tx.state = "Complete" => v.tx.state = "Idle"
      /\ u.tx.state \in Timing => v.tx.state \in {u.tx.state, Follows(u.tx)[1]}
  <2>1. u.tx.state \in Timing => v.tx.state \in {u.tx.state, Follows(u.tx)[1]}
    <3> SUFFICES ASSUME u.tx.state \in Timing
                 PROVE  v.tx.state \in {u.tx.state, Follows(u.tx)[1]}
      OBVIOUS
    <3>1. v.tx = Timed(u.tx, Follows(u.tx)[1], Follows(u.tx)[2])
      BY <1>1, TxNextIs
    <3>2. QED
      BY <3>1, TimedIs
  <2>2. QED
    BY <1>1, <2>1, TxNextIs
<1>3. u.tx.state \in Timing => Follows(u.tx)[1] \in {"Data", "Parity", "Stop", "Complete"}
  BY FollowsIs
<1>4. u.tx.state \in States
  BY DEF Engines
<1>5. v.tx_active = IF u.tx.state = "Start" THEN TRUE ELSE
                    IF u.tx.state = "Complete" THEN FALSE ELSE u.tx_active
  BY <1>1 DEF TxActive
<1>6. Accepts(u, req, cts) => u.tx.state = "Idle" /\ Writes(req, "uart", "TX_DATA")
  BY DEF Accepts
<1>7. v.tx.state = "Idle" => v.tx_active = FALSE
  BY <1>2, <1>3, <1>4, <1>5 DEF ActiveType, TxSync, Timing, States
<1>8. v.tx.state \in {"Data", "Parity", "Stop", "Complete"} => v.tx_active = TRUE
  BY <1>2, <1>3, <1>4, <1>5 DEF ActiveType, TxSync, Timing, States
<1>9. v.tx.state = "Start" /\ v.tx_active = FALSE => g.main.code # <<>> /\ Head(g.main.code) = Return
  BY <1>2, <1>3, <1>4, <1>5, <1>6 DEF ActiveType, TxSync, Timing, States
<1>10. Sending(g) => v.tx.state = "Idle"
  <2> SUFFICES ASSUME Sending(g) PROVE u.tx.state = "Idle" \/ u.tx.state = "Complete"
    BY <1>2, <1>6
  <2>1. CASE g.main.code = h.main.code
    BY <2>1 DEF Sending, TxSync
  <2>2. CASE Head(h.main.code) = Awaits /\ Free(u)
    <3>1. Awaits # Return
      BY DEF Awaits, Return, WhileSet, Local
    <3>2. QED
      BY <1>4, <2>2, <3>1 DEF Free, TxSync, Timing, States
  <2>3. QED
    BY <2>1, <2>2
<1>11. v.tx.state # "Idle" => u.tx.state # "Idle" \/ Writes(req, "uart", "TX_DATA")
  BY <1>2, <1>6
<1>12. v.tx_active \in BOOLEAN
  BY <1>5 DEF ActiveType
<1>13. QED
  BY <1>2, <1>7, <1>8, <1>9, <1>10, <1>11, <1>12 DEF TxSync, ActiveType

\* What a statement of a serving node leaves: a byte is sent behind the wait
\* and before the return.
LEMMA CodeStep ==
  ASSUME link \in Links, NEW n \in Node, Programs[n] # "interrupt",
         NEW th, ThreadShape(th), th.ret \in Bits, Polite(th.code), th.code # <<>>,
         Programs[n] \in Listeners => th.code \in Seq(Calm),
         NEW word, NEW m, NEW t, t = Stepped(th, word), GoesOn(n, t, m)
  PROVE  LET s == Head(th.code)
             req == Request(th)
         IN /\ ThreadShape(t) /\ s.op \notin {"csrs", "csrc"}
            /\ m.ret \in Bits /\ Polite(m.code)
            /\ Programs[n] \in Listeners => m.code \in Seq(Calm)
            /\ ~Writes(req, "uart", "CONFIG") /\ ~Writes(req, "uart", "BAUDRATE")
            /\ Writes(req, "uart", "TX_DATA") =>
                 s \in Sends /\ m.code # <<>> /\ Head(m.code) = Return
            /\ m.code # <<>> /\ Head(m.code) \in Sends =>
                 \/ m.code = th.code
                 \/ s = Awaits /\ req = ReadReq("uart", "STATUS") /\ word \cap {0} = {}
<1> DEFINE s == Head(th.code)
           req == Request(th)
<1>1. /\ Polite(Tail(th.code)) /\ s \in Stmts
      /\ s \in Sends => Tail(th.code) # <<>> /\ Head(Tail(th.code)) = Return
      /\ s # Awaits => Whole(Tail(th.code))
  BY PoliteTail
<1>2. /\ ThreadShape(t) /\ t.ret \in Bits
      /\ t = th \/ t.code = Tail(th.code) \/ (s \in Alters /\ t.code = th.code)
      /\ s \in Sends \cup Locals => t = Behind(th, th.ret)
      /\ s \notin Sends => ~Writes(req, "uart", "TX_DATA")
      /\ ~Writes(req, "uart", "CONFIG") /\ ~Writes(req, "uart", "BAUDRATE")
      /\ s = Awaits => /\ req = ReadReq("uart", "STATUS")
                       /\ t = IF word \cap {0} # {} THEN th ELSE Behind(th, th.ret)
      /\ s.op \notin {"csrs", "csrc"}
  BY <1>1, StatementIs
<1>3. Programs[n] \in Listeners => Tail(th.code) \in Seq(Calm)
  <2> SUFFICES ASSUME th.code \in Seq(Calm) PROVE Tail(th.code) \in Seq(Calm)
    OBVIOUS
  <2> HIDE DEF Calm
  <2>1. QED
    BY HeadTailProperties
<1>4. s \in Sends => t.code = Tail(th.code)
  BY <1>2 DEF Behind
<1> HIDE DEF s, req
<1>5. CASE t.code = <<>>
  <2>1. PICK c \in Continuations(n, t.ret) : m = Call(t, c)
    BY <1>5 DEF GoesOn
  <2>2. Whole(c) /\ (Programs[n] \in Listeners => c \in Seq(Calm))
    BY <1>2, ContinuationWhole
  <2>3. m.code = c /\ m.ret = t.ret
    BY <1>2, <2>1, CalledShape
  <2>4. Polite(c) /\ (c # <<>> => Head(c) \notin Sends)
    BY <2>2 DEF Whole
  <2>5. s \notin Sends
    BY <1>1, <1>4, <1>5
  <2>6. QED
    BY <1>2, <2>2, <2>3, <2>4, <2>5 DEF s, req
<1>6. CASE t.code # <<>> /\ t.code = th.code
  <2>1. m = t
    BY <1>6 DEF GoesOn
  <2>2. s \notin Sends
    <3>1. s \in Sends => Tail(th.code) = th.code
      BY <1>4, <1>6
    <3>2. th.code \in Seq(Stmts)
      BY DEF Polite
    <3>3. Tail(th.code) # th.code
      <4>1. Len(Tail(th.code)) = Len(th.code) - 1 /\ Len(th.code) \in Nat
        BY <3>2, HeadTailProperties, LenProperties
      <4> SUFFICES ASSUME Tail(th.code) = th.code PROVE FALSE
        OBVIOUS
      <4>2. Len(Tail(th.code)) = Len(th.code)
        OBVIOUS
      <4>3. QED
        BY <4>1, <4>2
    <3>4. QED
      BY <3>1, <3>3
  <2>3. QED
    BY <1>2, <1>6, <2>1, <2>2 DEF s, req
<1>7. CASE t.code # <<>> /\ t.code # th.code
  <2>1. m = t /\ m.code = Tail(th.code)
    BY <1>2, <1>7 DEF GoesOn
  <2>2. Head(m.code) \in Sends => s = Awaits
    BY <1>1, <1>7, <2>1 DEF Whole
  <2>3. s = Awaits => req = ReadReq("uart", "STATUS") /\ word \cap {0} = {}
    BY <1>2, <1>7
  <2>4. QED
    BY <1>1, <1>2, <1>3, <1>7, <2>1, <2>2, <2>3 DEF s, req
<1>8. QED
  BY <1>5, <1>6, <1>7

\* TX_ACTIVE as a program reads it.
LEMMA ActiveRead ==
  ASSUME NEW u, ActiveType(u), UartRead(u, "STATUS") \cap {0} = {}
  PROVE  Free(u)
  BY DEF Free, ActiveType, UartRead, UartStatus, TINYMCU_UART_STATUS_TX_ACTIVE

LEMMA UartRegs ==
  ASSUME NEW u, NEW req, NEW rx, NEW cts, NEW v, v = UartClock(u, req, rx, cts)
  PROVE  /\ v.CONFIG = IF Writes(req, "uart", "CONFIG") THEN req.data ELSE u.CONFIG
         /\ v.BAUDRATE = IF Writes(req, "uart", "BAUDRATE") THEN req.data ELSE u.BAUDRATE
         /\ v.INT_STATUS = UartFlag(u, req) /\ v.rx_ready = RxReady(u, req)
         /\ v.RX_DATA = IF RxDelivers(u) THEN u.rx_data ELSE u.RX_DATA
  BY DEF UartClock, UartRegister

\* What MainInv says of main when it executes a statement.
LEMMA MainActs ==
  ASSUME link \in Links, NEW n \in Node, HartShape(hart[n]), MainInv(n, hart[n], uart[n]),
         hart[n].trapped = FALSE, NEW g, NEW req, Acts(n, g, req),
         NEW rx, NEW cts, NEW v, v = UartClock(uart[n], req, rx, cts)
  PROVE  /\ HartShape(g) /\ g.trapped = FALSE /\ g.isr = hart[n].isr /\ Awake(n)
         /\ MainInv(n, g, v)
         /\ Writes(req, "uart", "TX_DATA") =>
              /\ Serves(n, hart[n], uart[n]) /\ Programs[n] \notin Listeners
              /\ Sending(hart[n]) /\ uart[n].tx.state = "Idle"
         /\ Serves(n, hart[n], uart[n]) => Serves(n, g, v)
         /\ Programs[n] = "interrupt" =>
              ~Reads(req, "uart", "RX_DATA") /\ ~Writes(req, "uart", "INT_STATUS")
<1> DEFINE h == hart[n]
           u == uart[n]
           th == h.main
           s == Head(th.code)
           w == Reading(n, req)
           t == Stepped(th, w)
<1>1. /\ Running(h) = th /\ ThreadShape(th) /\ th.ret \in Bits
      /\ req = Request(th) /\ th.code # <<>>
  BY DEF Running, HartShape, MainInv, Acts, CanExecute, Done
<1>2. ASSUME ThreadShape(t)
      PROVE  /\ HartShape(g) /\ g.trapped = FALSE /\ g.isr = h.isr /\ Awake(n)
             /\ s.op \notin {"csrs", "csrc"} => g.MIE = h.MIE
             /\ GoesOn(n, t, g.main)
  BY <1>1, <1>2, ActsIs
<1>3. /\ u.tx \in Engines /\ u.BAUDRATE \in Nat /\ ActiveType(u) /\ TxSync(h, u)
      /\ Unset(n, h, u) \/ HalfSet(n, h, u) \/ Serves(n, h, u)
      /\ u.tx.state # "Idle" => Serves(n, h, u)
  BY BaudType DEF MainInv
<1>4. /\ v.CONFIG = IF Writes(req, "uart", "CONFIG") THEN req.data ELSE u.CONFIG
      /\ v.BAUDRATE = IF Writes(req, "uart", "BAUDRATE") THEN req.data ELSE u.BAUDRATE
  BY UartRegs
<1>5. ASSUME /\ HartShape(g) /\ g.trapped = FALSE /\ g.isr = h.isr /\ Awake(n)
             /\ g.main.ret \in Bits
             /\ Writes(req, "uart", "TX_DATA") =>
                  Sending(h) /\ g.main.code # <<>> /\ Head(g.main.code) = Return
             /\ Sending(g) => /\ ~Writes(req, "uart", "TX_DATA")
                              /\ \/ g.main.code = h.main.code
                                 \/ Head(h.main.code) = Awaits /\ Free(u)
             /\ Unset(n, g, v) \/ HalfSet(n, g, v) \/ Serves(n, g, v)
             /\ Serves(n, h, u) => Serves(n, g, v)
             /\ Writes(req, "uart", "TX_DATA") => Serves(n, h, u) /\ Programs[n] \notin Listeners
             /\ Programs[n] = "interrupt" =>
                  ~Reads(req, "uart", "RX_DATA") /\ ~Writes(req, "uart", "INT_STATUS")
      PROVE  /\ HartShape(g) /\ g.trapped = FALSE /\ g.isr = hart[n].isr /\ Awake(n)
             /\ MainInv(n, g, v)
             /\ Writes(req, "uart", "TX_DATA") =>
                  /\ Serves(n, hart[n], uart[n]) /\ Programs[n] \notin Listeners
                  /\ Sending(hart[n]) /\ uart[n].tx.state = "Idle"
             /\ Serves(n, hart[n], uart[n]) => Serves(n, g, v)
             /\ Programs[n] = "interrupt" =>
                  ~Reads(req, "uart", "RX_DATA") /\ ~Writes(req, "uart", "INT_STATUS")
  <2>1. /\ v.tx \in Engines /\ ActiveType(v) /\ TxSync(g, v)
        /\ v.tx.state # "Idle" => u.tx.state # "Idle" \/ Writes(req, "uart", "TX_DATA")
    <3>1. h.main.code # <<>>
      BY <1>1
    <3>2. v = UartClock(u, req, rx, cts)
      OBVIOUS
    <3> HIDE DEF h, u
    <3>3. QED
      BY <1>3, <1>5, <3>1, <3>2, SyncStep
  <2>2. Sending(h) => u.tx.state = "Idle"
    BY <1>3 DEF TxSync
  <2>3. QED
    BY <1>5, <2>1, <2>2 DEF MainInv
<1> HIDE DEF h, u, th, s, w, t
<1>6. CASE Unset(n, h, u)
  <2>1. /\ s = SetConfig /\ Tail(th.code) = <<SetBaud>> \o Rest(n)
        /\ Tail(th.code) # <<>> /\ Head(Tail(th.code)) = SetBaud
    BY <1>6, StartIs DEF Unset, s, th
  <2>2. t = Behind(th, th.ret) /\ req = WriteReq("uart", "CONFIG", Configured)
        /\ s.op \notin {"csrs", "csrc"}
    BY <1>1, <2>1, SteppedOn, RequestIs DEF SetConfig, Assign, t, s
  <2>3. t.code = Tail(th.code) /\ t.ret = th.ret /\ ThreadShape(t)
    BY <2>2 DEF Behind, ThreadShape
  <2>4. g.main = t /\ Quiet(g) /\ HartShape(g) /\ g.trapped = FALSE /\ g.isr = h.isr /\ Awake(n)
    <3>1. Quiet(h)
      BY <1>6 DEF Unset
    <3>2. QED
      BY <1>2, <2>1, <2>2, <2>3, <3>1 DEF Quiet, GoesOn
  <2>5. /\ ~Writes(req, "uart", "TX_DATA") /\ ~Writes(req, "uart", "INT_STATUS")
        /\ ~Writes(req, "uart", "BAUDRATE") /\ ~Reads(req, "uart", "RX_DATA")
        /\ Writes(req, "uart", "CONFIG") /\ req.data = Configured
    BY <2>2 DEF WriteReq, Writes, Reads
  <2>6. HalfSet(n, g, v)
    BY <1>4, <1>6, <2>1, <2>3, <2>4, <2>5 DEF HalfSet, Unset
  <2>7. ~Sending(g)
    <3>1. Head(g.main.code) = SetBaud
      BY <2>1, <2>3, <2>4
    <3>2. SetBaud \notin Sends
      BY CalmIs DEF SetBaud, Assign
    <3>3. QED
      BY <3>1, <3>2 DEF Sending
  <2>8. ~Serves(n, h, u)
    <3>1. SetConfig # SetBaud
      BY DEF SetConfig, SetBaud, Assign
    <3>2. ~Serves(n, h, u)
      <4>1. Programs[n] = "interrupt" => ~EndsIn(th.code, <<Spin>>, Arms)
        <5> SUFFICES ASSUME EndsIn(th.code, <<Spin>>, Arms) PROVE FALSE
          OBVIOUS
        <5>1. <<Spin>> \in Seq(Arms \cup {Spin})
          <6> HIDE DEF Arms
          <6>1. QED
            OBVIOUS
        <5>2. th.code = <<Spin>> \/ s \in Arms
          <6> HIDE DEF Arms
          <6>1. QED
            BY <5>1, Ending DEF s
        <5>3. s \in Arms \cup {Spin}
          BY <5>2 DEF s
        <5>4. QED
          BY <2>1, <5>3 DEF Arms, SetConfig, Assign, SetBits, Modify, CsrSet, CsrPut, Spin
      <4>2. ~Polite(th.code)
        <5> SUFFICES ASSUME Polite(th.code) PROVE FALSE
          OBVIOUS
        <5>1. s \in Stmts
          BY <1>1, PoliteTail DEF s
        <5>2. s.op = "assign" /\ s.dev = "uart" /\ s.reg = "CONFIG"
          BY <2>1 DEF SetConfig, Assign
        <5>3. QED
          BY <5>1, <5>2, CalmIs DEF Stmts, Calm
      <4>3. QED
        BY <4>1, <4>2 DEF Serves, th
    <3>3. QED
      BY <3>2 DEF h, u
  <2>9. g.main.ret \in Bits
    BY <1>1, <2>3, <2>4
  <2>10. QED
    BY <1>5, <2>4, <2>5, <2>6, <2>7, <2>8, <2>9 DEF h, u
<1>7. CASE HalfSet(n, h, u)
  <2>1. s = SetBaud /\ Tail(th.code) = Rest(n)
    BY <1>7, StartIs DEF HalfSet, s, th
  <2>2. t = Behind(th, th.ret) /\ req = WriteReq("uart", "BAUDRATE", CLKS_PER_BIT)
        /\ s.op \notin {"csrs", "csrc"}
    BY <1>1, <2>1, SteppedOn, RequestIs DEF SetBaud, Assign, t, s
  <2>3. t.code = Rest(n) /\ t.ret = th.ret /\ ThreadShape(t)
    BY <2>1, <2>2 DEF Behind, ThreadShape
  <2>4. /\ ~Writes(req, "uart", "TX_DATA") /\ ~Writes(req, "uart", "INT_STATUS")
        /\ ~Writes(req, "uart", "CONFIG") /\ ~Reads(req, "uart", "RX_DATA")
        /\ Writes(req, "uart", "BAUDRATE") /\ req.data = CLKS_PER_BIT
    BY <2>2 DEF WriteReq, Writes, Reads
  <2>5. Quiet(g) /\ HartShape(g) /\ g.trapped = FALSE /\ g.isr = h.isr /\ Awake(n)
    <3>1. Quiet(h)
      BY <1>7 DEF HalfSet
    <3>2. QED
      BY <1>2, <2>2, <2>3, <3>1 DEF Quiet
  <2>6. v.CONFIG = Configured /\ v.BAUDRATE = CLKS_PER_BIT
    BY <1>4, <1>7, <2>4 DEF HalfSet
  <2>7. /\ g.main.ret \in Bits /\ ~Sending(g)
        /\ IF Programs[n] = "interrupt" THEN EndsIn(g.main.code, <<Spin>>, Arms)
           ELSE /\ Polite(g.main.code) 
                /\ Programs[n] \in Listeners => g.main.code \in Seq(Calm)
    <3>1. CASE Programs[n] = "interrupt"
      <4>1. EndsIn(t.code, <<Spin>>, Arms)
        BY <2>3, <3>1, RestIs
      <4>2. t.code # <<>> /\ Head(t.code) \in Arms \cup {Spin}
        <5>1. <<Spin>> \in Seq(Arms \cup {Spin}) /\ <<Spin>> # <<>> /\ Head(<<Spin>>) = Spin
          <6> HIDE DEF Arms
          <6>1. QED
            OBVIOUS
        <5>2. t.code = <<Spin>> \/ (t.code # <<>> /\ Head(t.code) \in Arms)
          <6> HIDE DEF Arms
          <6>1. QED
            BY <4>1, <5>1, Ending
        <5>3. QED
          BY <5>1, <5>2
      <4>3. g.main = t
        BY <1>2, <2>3, <4>2 DEF GoesOn
      <4>4. Head(t.code) \notin Sends
        BY <4>2, CalmIs DEF Arms, SetBits, Modify, CsrSet, CsrPut, Spin
      <4>5. QED
        BY <1>1, <2>3, <3>1, <4>1, <4>3, <4>4 DEF Sending
    <3>2. CASE Programs[n] # "interrupt"
      <4>1. t.code \in Seq(Calm) /\ Whole(t.code)
        BY <2>3, <3>2, RestIs, CalmWhole
      <4>2. CASE t.code # <<>>
        BY <1>1, <1>2, <2>3, <3>2, <4>1, <4>2 DEF Sending, Whole, GoesOn
      <4>3. CASE t.code = <<>>
        <5>1. PICK c \in Continuations(n, t.ret) : g.main = Call(t, c)
          BY <1>2, <2>3, <4>3 DEF GoesOn
        <5>2. g.main.code = c /\ g.main.ret = t.ret
          BY <2>3, <5>1, CalledShape
        <5>3. Whole(c) /\ (Programs[n] \in Listeners => c \in Seq(Calm))
          BY <1>1, <2>3, ContinuationWhole
        <5>4. QED
          BY <1>1, <2>3, <3>2, <5>2, <5>3 DEF Sending, Whole
      <4>4. QED
        BY <4>2, <4>3
    <3>3. QED
      BY <3>1, <3>2
  <2>8. Serves(n, g, v)
    BY <2>5, <2>6, <2>7 DEF Serves
  <2>9. QED
    BY <1>5, <2>4, <2>5, <2>7, <2>8 DEF h, u
<1>8. CASE Serves(n, h, u) /\ Programs[n] = "interrupt"
  <2>1. EndsIn(th.code, <<Spin>>, Arms)
    BY <1>8 DEF Serves, th
  <2>2. <<Spin>> \in Seq(Arms \cup {Spin}) /\ <<Spin>> # <<>> /\ Head(<<Spin>>) = Spin
    <3> HIDE DEF Arms
    <3>1. QED
      OBVIOUS
  <2>3. ASSUME NEW c, EndsIn(c, <<Spin>>, Arms)
        PROVE  c # <<>> /\ Head(c) \in Arms \cup {Spin}
               /\ (Head(c) # Spin => EndsIn(Tail(c), <<Spin>>, Arms))
    <3>1. c = <<Spin>> \/ (c # <<>> /\ Head(c) \in Arms /\ EndsIn(Tail(c), <<Spin>>, Arms))
      <4> HIDE DEF Arms
      <4>1. QED
        BY <2>2, <2>3, Ending
    <3>2. QED
      BY <2>2, <3>1
  <2>4. s \in Arms \cup {Spin} /\ (s # Spin => EndsIn(Tail(th.code), <<Spin>>, Arms))
    BY <2>1, <2>3 DEF s
  <2>5. /\ ThreadShape(t) /\ t.ret \in Bits
        /\ t.code = th.code \/ (s # Spin /\ t.code = Tail(th.code))
        /\ ~Writes(req, "uart", "CONFIG") /\ ~Writes(req, "uart", "BAUDRATE")
        /\ ~Writes(req, "uart", "TX_DATA") /\ ~Writes(req, "uart", "INT_STATUS")
        /\ ~Reads(req, "uart", "RX_DATA")
    BY <1>1, <2>4, ArmingIs DEF s, t
  <2>6. EndsIn(t.code, <<Spin>>, Arms)
    BY <2>1, <2>4, <2>5
  <2>7. g.main = t /\ HartShape(g) /\ g.trapped = FALSE /\ g.isr = h.isr /\ Awake(n)
    BY <1>2, <2>3, <2>5, <2>6 DEF GoesOn
  <2>8. Serves(n, g, v)
    BY <1>4, <1>8, <2>5, <2>6, <2>7 DEF Serves
  <2>9. ~Sending(g)
    <3>1. Head(t.code) \in Arms \cup {Spin}
      BY <2>3, <2>6
    <3>2. Head(t.code) \notin Sends
      BY <3>1, CalmIs DEF Arms, SetBits, Modify, CsrSet, CsrPut, Spin
    <3>3. QED
      BY <2>7, <3>2 DEF Sending
  <2>10. QED
    BY <1>5, <2>5, <2>7, <2>8, <2>9 DEF h, u
<1>9. CASE Serves(n, h, u) /\ Programs[n] # "interrupt"
  <2>1. Polite(th.code) /\ Quiet(h) /\ (Programs[n] \in Listeners => th.code \in Seq(Calm))
    BY <1>9 DEF Serves, th
  <2>2. ThreadShape(t) /\ s.op \notin {"csrs", "csrc"}
    <3>1. s \in Stmts
      BY <1>1, <2>1, PoliteTail DEF s
    <3>2. QED
      BY <1>1, <3>1, StatementIs DEF s, t
  <2>3. /\ HartShape(g) /\ g.trapped = FALSE /\ g.isr = h.isr /\ Awake(n) /\ g.MIE = h.MIE
        /\ GoesOn(n, t, g.main)
    BY <1>2, <2>2
  <2>4. /\ g.main.ret \in Bits /\ Polite(g.main.code)
        /\ Programs[n] \in Listeners => g.main.code \in Seq(Calm)
        /\ ~Writes(req, "uart", "CONFIG") /\ ~Writes(req, "uart", "BAUDRATE")
        /\ Writes(req, "uart", "TX_DATA") =>
             s \in Sends /\ g.main.code # <<>> /\ Head(g.main.code) = Return
        /\ g.main.code # <<>> /\ Head(g.main.code) \in Sends =>
             \/ g.main.code = th.code
             \/ s = Awaits /\ req = ReadReq("uart", "STATUS") /\ w \cap {0} = {}
    BY <1>1, <1>9, <2>1, <2>3, CodeStep DEF t, s
  <2>5. req = ReadReq("uart", "STATUS") => w = UartRead(u, "STATUS") /\ ~Writes(req, "uart", "TX_DATA")
    BY DEF Reading, ReadReq, w, u, Writes
  <2>6. Sending(g) => /\ ~Writes(req, "uart", "TX_DATA")
                      /\ \/ g.main.code = h.main.code
                         \/ Head(h.main.code) = Awaits /\ Free(u)
    <3> SUFFICES ASSUME Sending(g)
                 PROVE  /\ ~Writes(req, "uart", "TX_DATA")
                        /\ \/ g.main.code = h.main.code
                           \/ Head(h.main.code) = Awaits /\ Free(u)
      OBVIOUS
    <3>1. Return \notin Sends
      BY CalmIs DEF Return, Local
    <3>2. ~Writes(req, "uart", "TX_DATA")
      BY <2>4, <3>1 DEF Sending
    <3>3. \/ g.main.code = h.main.code
          \/ Head(h.main.code) = Awaits /\ UartRead(u, "STATUS") \cap {0} = {}
      BY <2>4, <2>5 DEF Sending, s, th
    <3>4. QED
      BY <1>3, <3>2, <3>3, ActiveRead
  <2>7. Writes(req, "uart", "TX_DATA") => Sending(h) /\ Programs[n] \notin Listeners
    <3>1. s \in Sends => Programs[n] \notin Listeners
      <4> SUFFICES ASSUME th.code \in Seq(Calm) PROVE s \notin Sends
        BY <2>1
      <4>1. s \in Calm
        <5> HIDE DEF Calm
        <5>1. QED
          BY <1>1, HeadTailProperties DEF s
      <4>2. QED
        BY <4>1, CalmNotSends
    <3>2. QED
      BY <1>1, <2>4, <3>1 DEF Sending, s, th
  <2>8. Serves(n, g, v)
    BY <1>4, <1>9, <2>1, <2>3, <2>4 DEF Serves, Quiet
  <2>9. QED
    BY <1>5, <1>9, <2>3, <2>4, <2>6, <2>7, <2>8 DEF h, u
<1>10. QED
  BY <1>3, <1>6, <1>7, <1>8, <1>9 DEF h, u

-----------------------------------------------------------------------------
(* The handler. *)

HandlerCode == {interrupt_handler, <<Takes, Clears>>, <<Clears>>, <<>>}

LEMMA HandlerApart ==
  /\ interrupt_handler # <<Takes, Clears>> /\ interrupt_handler # <<Clears>> /\ interrupt_handler # <<>>
  /\ <<Takes, Clears>> # <<Clears>> /\ <<Takes, Clears>> # <<>> /\ <<Clears>> # <<>>
  /\ Waits \in Stmts /\ Takes \in Stmts /\ Clears \in Stmts
  /\ Clears.op = "modify" /\ Clears.dev = "uart" /\ Clears.reg = "INT_STATUS"
  /\ \A w : 0 \notin Stored(Clears, w)
  /\ Clears # Takes
<1>1. Takes # Clears /\ Waits # Takes /\ Waits # Clears
  BY DEF Takes, Clears, Waits, Get, WhileClear, ClearBits, Modify
<1>2. Waits \in Stmts /\ Takes \in Stmts /\ Clears \in Stmts
  BY DEF Stmts, Calm, Loops, Gets, Alters, Clears
<1>3. Clears.op = "modify" /\ Clears.dev = "uart" /\ Clears.reg = "INT_STATUS"
      /\ Clears.clr = {0} /\ Clears.set = {} /\ Clears.flip = {}
  BY DEF Clears, ClearBits, Modify, TINYMCU_UART_INT_RX_READY
<1>4. \A w : 0 \notin Stored(Clears, w)
  BY <1>3 DEF Stored
<1>5. QED
  BY <1>1, <1>2, <1>3, <1>4, HandlerIs

LEMMA IsrActs ==
  ASSUME link \in Links, NEW n \in Node, HartShape(hart[n]), IsrInv(n, hart[n], uart[n]),
         hart[n].trapped, NEW g, NEW req, Acts(n, g, req)
  PROVE  LET h == hart[n]
         IN /\ HartShape(g) /\ g.trapped = TRUE /\ g.main = h.main /\ g.MIE = h.MIE
            /\ g.isr.ret \in Bits /\ g.isr.code \in HandlerCode
            /\ ~Writes(req, "uart", "TX_DATA") /\ ~Writes(req, "uart", "CONFIG")
            /\ ~Writes(req, "uart", "BAUDRATE")
            /\ Writes(req, "uart", "INT_STATUS") => 0 \notin req.data
            /\ g.isr.code \in {interrupt_handler, <<Takes, Clears>>} =>
                 /\ h.isr.code \in {interrupt_handler, <<Takes, Clears>>}
                 /\ ~Reads(req, "uart", "RX_DATA")
            /\ Reads(req, "uart", "RX_DATA") => g.isr.code = <<Clears>>
            /\ h.isr.code = <<Clears>> /\ ~Writes(req, "uart", "INT_STATUS") => g.isr.code = <<Clears>>
<1> DEFINE h == hart[n]
           th == h.isr
           s == Head(th.code)
           w == Reading(n, req)
           t == Stepped(th, w)
<1>1. /\ Running(h) = th /\ ThreadShape(th) /\ th.ret \in Bits /\ th.code \in HandlerCode
      /\ req = Request(th) /\ th.code # <<>>
  BY DEF Running, HartShape, IsrInv, HandlerCode, Acts, CanExecute, Done
<1>2. ASSUME ThreadShape(t)
      PROVE  /\ HartShape(g) /\ g.trapped = h.trapped /\ g.main = h.main /\ g.isr = t
             /\ s.op \notin {"csrs", "csrc"} => g.MIE = h.MIE
  <2>1. LET x == Stepped(Running(h), w)
        IN  /\ HartShape(g) /\ g.trapped = h.trapped
            /\ Head(Running(h).code).op \notin {"csrs", "csrc"} => g.MIE = h.MIE
            /\ h.trapped => g.main = h.main /\ g.isr = x
    BY <1>1, <1>2, ActsIs
  <2>2. QED
    BY <1>1, <2>1
<1>3. h.trapped = TRUE
  BY DEF HartShape
<1> HIDE DEF h, th, s, w, t
<1>4. /\ th.code = interrupt_handler => s = Waits /\ Tail(th.code) = <<Takes, Clears>>
      /\ th.code = <<Takes, Clears>> => s = Takes /\ Tail(th.code) = <<Clears>>
      /\ th.code = <<Clears>> => s = Clears /\ Tail(th.code) = <<>>
  BY HandlerIs DEF s
<1>5. s \in Stmts
  BY <1>1, <1>4, HandlerApart DEF HandlerCode
<1>6. /\ ThreadShape(t) /\ t.ret \in Bits
      /\ t = th \/ t.code = Tail(th.code) \/ (s \in Alters /\ t.code = th.code)
      /\ s \notin Sends => ~Writes(req, "uart", "TX_DATA")
      /\ ~Writes(req, "uart", "CONFIG") /\ ~Writes(req, "uart", "BAUDRATE")
      /\ Reads(req, "uart", "RX_DATA") <=> s = Takes
      /\ s = Takes => t = Behind(th, w \cap Word32)
      /\ s = Waits => req = ReadReq("uart", "STATUS")
      /\ s.op \notin {"csrs", "csrc"}
  BY <1>1, <1>5, StatementIs DEF s, t
<1>7. /\ HartShape(g) /\ g.trapped = TRUE /\ g.main = h.main /\ g.isr = t /\ g.MIE = h.MIE
      /\ g.isr.ret \in Bits
  BY <1>2, <1>3, <1>6
<1>8. s \notin Sends
  <2>1. s.op # "assign"
    <3>1. s \in {Waits, Takes, Clears}
      BY <1>1, <1>4 DEF HandlerCode
    <3>2. QED
      BY <3>1, HandlerApart DEF Waits, Takes, WhileClear, Get
  <2>2. QED
    BY <2>1, CalmIs
<1>9. CASE th.code = interrupt_handler
  <2>1. t.code \in {interrupt_handler, <<Takes, Clears>>}
    BY <1>4, <1>6, <1>9
  <2>2. ~Writes(req, "uart", "INT_STATUS") /\ ~Reads(req, "uart", "RX_DATA")
    BY <1>4, <1>6, <1>9 DEF ReadReq, Writes, Reads
  <2>3. QED
    BY <1>6, <1>7, <1>8, <1>9, <2>1, <2>2, HandlerApart DEF HandlerCode, h, th
<1>10. CASE th.code = <<Takes, Clears>>
  <2>1. s = Takes /\ t.code = <<Clears>> /\ Reads(req, "uart", "RX_DATA")
    BY <1>4, <1>6, <1>10 DEF Behind
  <2>2. ~Writes(req, "uart", "INT_STATUS")
    BY <2>1 DEF Writes, Reads
  <2>3. QED
    BY <1>6, <1>7, <1>8, <1>10, <2>1, <2>2, HandlerApart DEF HandlerCode, h, th
<1>11. CASE th.code = <<Clears>>
  <2>1. s = Clears /\ ~Reads(req, "uart", "RX_DATA")
    BY <1>4, <1>6, <1>11, HandlerApart
  <2>2. CASE th.acc = <<>>
    <3>1. t.code = th.code
      BY <1>1, <2>1, <2>2, SteppedLoad, HandlerApart DEF s, t
    <3>2. req = ReadReq(s.dev, s.reg)
      BY <1>1, <2>1, <2>2, RequestIs, HandlerApart DEF s, BusOps
    <3>3. ~Writes(req, "uart", "INT_STATUS")
      BY <3>2 DEF ReadReq, Writes
    <3>4. QED
      BY <1>6, <1>7, <1>8, <1>11, <2>1, <3>1, <3>3, HandlerApart DEF HandlerCode, h, th
  <2>3. CASE th.acc # <<>>
    <3>1. t = Behind(th, th.ret)
      BY <1>1, <2>1, <2>3, SteppedOn, HandlerApart DEF s, t
    <3>2. t.code = <<>>
      BY <1>4, <1>11, <3>1 DEF Behind
    <3>3. req = WriteReq("uart", "INT_STATUS", Stored(Clears, th.acc[1]))
      BY <1>1, <2>1, <2>3, RequestIs, HandlerApart DEF s
    <3>4. Writes(req, "uart", "INT_STATUS") /\ 0 \notin req.data
      BY <3>3, HandlerApart DEF WriteReq, Writes
    <3>5. QED
      BY <1>6, <1>7, <1>8, <1>11, <2>1, <3>2, <3>4, HandlerApart DEF HandlerCode, h, th
  <2>4. QED
    BY <2>2, <2>3
<1>12. QED
  BY <1>1, <1>9, <1>10, <1>11 DEF HandlerCode

\* A clock of the receiver's flags.
LEMMA FlagsStep ==
  ASSUME NEW u, ReadyType(u), NEW req, NEW rx, NEW cts,
         NEW v, v = UartClock(u, req, rx, cts)
  PROVE  /\ ReadyType(v)
         /\ Ready(u) /\ ~Reads(req, "uart", "RX_DATA") => Ready(v)
         /\ 0 \in v.INT_STATUS /\ (Writes(req, "uart", "INT_STATUS") => 0 \notin req.data) =>
              /\ ~Writes(req, "uart", "INT_STATUS")
              /\ 0 \in u.INT_STATUS \/ Ready(u)
<1>1. v.INT_STATUS = UartFlag(u, req) /\ v.rx_ready = RxReady(u, req)
  BY UartRegs
<1>2. v.rx_ready = (RxDelivers(u) \/ (u.rx_ready /\ ~Reads(req, "uart", "RX_DATA")))
  BY <1>1 DEF RxReady
<1>3. v.INT_STATUS = IF Writes(req, "uart", "INT_STATUS") THEN req.data
                     ELSE IF u.rx_ready /\ 0 \in u.INT_CONFIG THEN u.INT_STATUS \cup {0}
                     ELSE u.INT_STATUS
  BY <1>1 DEF UartFlag
<1>4. ReadyType(v) /\ (Ready(u) /\ ~Reads(req, "uart", "RX_DATA") => Ready(v))
  BY <1>2 DEF ReadyType, Ready
<1>5. ASSUME 0 \in v.INT_STATUS, Writes(req, "uart", "INT_STATUS") => 0 \notin req.data
      PROVE  /\ ~Writes(req, "uart", "INT_STATUS")
             /\ 0 \in u.INT_STATUS \/ Ready(u)
  BY <1>3, <1>5 DEF ReadyType, Ready
<1>6. QED
  BY <1>4, <1>5

LEMMA NodeStep ==
  ASSUME link \in Links, NEW n \in Node, NodeInv(n, hart[n], uart[n]),
         NEW g, NEW req, <<g, req>> \in Moves(n),
         NEW rx, NEW cts, NEW v, v = UartClock(uart[n], req, rx, cts)
  PROVE  /\ Writes(req, "uart", "TX_DATA") =>
              /\ Serves(n, hart[n], uart[n]) /\ Programs[n] \notin Listeners
              /\ Sending(hart[n]) /\ uart[n].tx.state = "Idle"
         /\ \/ IsTorn(g)
            \/ /\ NodeInv(n, g, v)
               /\ Serves(n, hart[n], uart[n]) => Serves(n, g, v)
               /\ Awake(n) \/ /\ g.main = hart[n].main /\ v.CONFIG = uart[n].CONFIG
                              /\ v.BAUDRATE = uart[n].BAUDRATE
                              /\ Quiet(hart[n]) => Quiet(g)
<1> DEFINE h == hart[n]
           u == uart[n]
<1>1. HartShape(h) /\ MainInv(n, h, u) /\ IsrInv(n, h, u)
  BY DEF NodeInv
<1>2. /\ Programs[n] = "interrupt" \/ Quiet(h)
      /\ Quiet(h) \/ Serves(n, h, u)
  BY <1>1 DEF MainInv, Unset, HalfSet, Serves
<1>3. v = UartClock(u, req, rx, cts) /\ ReadyType(u)
  BY <1>1 DEF IsrInv
<1>4. \/ req = NoReq /\ Stays(h, g)
      \/ req = NoReq /\ Traps(h, g, mip(n), interrupt_handler)
      \/ req = NoReq /\ Mrets(h, g)
      \/ Acts(n, g, req)
  BY <1>1, MoveIs
<1> HIDE DEF h, u
<1>5. ASSUME req = NoReq
      PROVE  /\ ~Writes(req, "uart", "TX_DATA") /\ ~Writes(req, "uart", "CONFIG")
             /\ ~Writes(req, "uart", "BAUDRATE") /\ ~Writes(req, "uart", "INT_STATUS")
             /\ ~Reads(req, "uart", "RX_DATA")
             /\ v.CONFIG = u.CONFIG /\ v.BAUDRATE = u.BAUDRATE
  BY <1>3, <1>5, UartRegs DEF NoReq, Writes, Reads
<1>6. /\ ReadyType(v)
      /\ Ready(u) /\ ~Reads(req, "uart", "RX_DATA") => Ready(v)
      /\ 0 \in v.INT_STATUS /\ (Writes(req, "uart", "INT_STATUS") => 0 \notin req.data) =>
           /\ ~Writes(req, "uart", "INT_STATUS")
           /\ 0 \in u.INT_STATUS \/ Ready(u)
  BY <1>3, FlagsStep
<1>7. CASE req = NoReq /\ Stays(h, g)
  <2>1. /\ HartShape(g) /\ g.main = h.main /\ g.isr = h.isr
        /\ g.trapped = h.trapped /\ g.MIE = h.MIE
    BY <1>7 DEF Stays
  <2>2. Quiet(h) => Quiet(g)
    BY <2>1 DEF Quiet
  <2>3. MainInv(n, g, v) /\ (Serves(n, h, u) => Serves(n, g, v))
    BY <1>1, <1>2, <1>3, <1>5, <1>7, <2>1, <2>2, MainKept
  <2>4. IsrInv(n, g, v)
    BY <1>1, <1>5, <1>6, <1>7, <2>1 DEF IsrInv
  <2>5. QED
    BY <1>5, <1>7, <2>1, <2>2, <2>3, <2>4 DEF NodeInv, h, u
<1>8. CASE req = NoReq /\ Traps(h, g, mip(n), interrupt_handler)
  <2>1. /\ HartShape(g) /\ g.MIE = FALSE /\ h.MIE = TRUE
        /\ \/ g.trapped = TRUE /\ g.isr = Thread(interrupt_handler) /\ g.main = h.main
           \/ g.torn = TRUE
           \/ g.trapped = h.trapped /\ g.isr = h.isr /\ g.main = h.main
    BY <1>1, <1>8, TrapsIs
  <2>2. ~Quiet(h) /\ Programs[n] = "interrupt" /\ Serves(n, h, u)
    BY <1>2, <2>1 DEF Quiet
  <2>3. ~h.trapped
    BY <1>1, <2>1 DEF IsrInv
  <2>4. CASE g.torn = TRUE
    <3>1. IsTorn(g)
      BY <2>1, <2>4 DEF HartShape, IsTorn
    <3>2. QED
      BY <1>5, <1>8, <3>1 DEF h, u
  <2>5. ASSUME g.main = h.main, IsrInv(n, g, v)
        PROVE  /\ NodeInv(n, g, v) /\ (Serves(n, h, u) => Serves(n, g, v))
               /\ Quiet(h) => Quiet(g)
    <3>1. MainInv(n, g, v) /\ (Serves(n, h, u) => Serves(n, g, v))
      BY <1>1, <1>3, <1>5, <1>8, <2>2, <2>5, MainKept
    <3>2. QED
      BY <2>1, <2>2, <2>5, <3>1 DEF NodeInv
  <2>6. CASE g.trapped = TRUE /\ g.isr = Thread(interrupt_handler) /\ g.main = h.main
    <3>1. Ready(u)
      <4>1. mip(n) # {}
        BY <1>8 DEF Traps, Interrupted
      <4>2. 0 \in u.INT_STATUS
        BY <4>1 DEF mip, UartIrq, u
      <4>3. QED
        BY <1>1, <2>2, <2>3, <4>2 DEF IsrInv
    <3>2. g.isr.code = interrupt_handler /\ g.isr.ret = {} /\ {} \in Bits
      BY <2>6 DEF Thread, Bits
    <3>3. IsrInv(n, g, v)
      BY <1>5, <1>6, <1>8, <2>1, <2>2, <2>6, <3>1, <3>2 DEF IsrInv
    <3>4. QED
      BY <1>5, <1>8, <2>5, <2>6, <3>3 DEF h, u
  <2>7. CASE g.trapped = h.trapped /\ g.isr = h.isr /\ g.main = h.main
    <3>1. IsrInv(n, g, v)
      BY <1>1, <1>5, <1>6, <1>8, <2>3, <2>7 DEF IsrInv
    <3>2. QED
      BY <1>5, <1>8, <2>5, <2>7, <3>1 DEF h, u
  <2>8. QED
    BY <2>1, <2>4, <2>6, <2>7
<1>9. CASE req = NoReq /\ Mrets(h, g)
  <2>1. /\ HartShape(g) /\ g.main = h.main /\ g.isr = h.isr /\ g.trapped = FALSE
        /\ h.trapped /\ h.isr.code = <<>>
    BY <1>1, <1>9, MretsIs
  <2>2. Programs[n] = "interrupt" /\ ~Quiet(h) /\ Serves(n, h, u)
    BY <1>1, <1>2, <2>1 DEF Quiet, IsrInv
  <2>3. MainInv(n, g, v) /\ (Serves(n, h, u) => Serves(n, g, v))
    BY <1>1, <1>3, <1>5, <1>9, <2>1, <2>2, MainKept
  <2>4. 0 \in u.INT_STATUS => Ready(u)
    BY <1>1, <2>1, <2>2, HandlerApart DEF IsrInv
  <2>5. IsrInv(n, g, v)
    BY <1>5, <1>6, <1>9, <2>1, <2>4 DEF IsrInv
  <2>6. QED
    BY <1>5, <1>9, <2>1, <2>2, <2>3, <2>5 DEF NodeInv, h, u
<1>10. CASE Acts(n, g, req) /\ h.trapped = FALSE
  <2>1. /\ HartShape(g) /\ g.trapped = FALSE /\ g.isr = h.isr /\ Awake(n)
        /\ MainInv(n, g, v)
        /\ Serves(n, h, u) => Serves(n, g, v)
        /\ Writes(req, "uart", "TX_DATA") =>
             Serves(n, h, u) /\ Programs[n] \notin Listeners /\ Sending(h) /\ u.tx.state = "Idle"
        /\ Programs[n] = "interrupt" =>
             ~Reads(req, "uart", "RX_DATA") /\ ~Writes(req, "uart", "INT_STATUS")
    BY <1>1, <1>3, <1>10, MainActs DEF h, u
  <2>2. IsrInv(n, g, v)
    BY <1>1, <1>6, <1>10, <2>1 DEF IsrInv
  <2>3. QED
    BY <2>1, <2>2 DEF NodeInv, h, u
<1>11. CASE Acts(n, g, req) /\ h.trapped = TRUE
  <2>1. /\ HartShape(g) /\ g.trapped = TRUE /\ g.main = h.main /\ g.MIE = h.MIE
        /\ g.isr.ret \in Bits /\ g.isr.code \in HandlerCode
        /\ ~Writes(req, "uart", "TX_DATA") /\ ~Writes(req, "uart", "CONFIG")
        /\ ~Writes(req, "uart", "BAUDRATE")
        /\ Writes(req, "uart", "INT_STATUS") => 0 \notin req.data
        /\ g.isr.code \in {interrupt_handler, <<Takes, Clears>>} =>
             /\ h.isr.code \in {interrupt_handler, <<Takes, Clears>>}
             /\ ~Reads(req, "uart", "RX_DATA")
        /\ Reads(req, "uart", "RX_DATA") => g.isr.code = <<Clears>>
        /\ h.isr.code = <<Clears>> /\ ~Writes(req, "uart", "INT_STATUS") => g.isr.code = <<Clears>>
    BY <1>1, <1>11, IsrActs DEF h, u
  <2>2. Programs[n] = "interrupt" /\ ~Quiet(h) /\ Serves(n, h, u) /\ h.MIE = FALSE
    BY <1>1, <1>2, <1>11 DEF Quiet, IsrInv
  <2>3. MainInv(n, g, v) /\ (Serves(n, h, u) => Serves(n, g, v))
    BY <1>1, <1>3, <2>1, <2>2, MainKept
  <2>4. IsrInv(n, g, v)
    <3>1. g.isr.code \in {interrupt_handler, <<Takes, Clears>>} => Ready(v)
      BY <1>1, <1>6, <1>11, <2>1 DEF IsrInv
    <3>2. ASSUME 0 \in v.INT_STATUS, ~Ready(v) PROVE g.isr.code = <<Clears>>
      <4>1. ~Writes(req, "uart", "INT_STATUS") /\ (0 \in u.INT_STATUS \/ Ready(u))
        BY <1>6, <2>1, <3>2
      <4>2. CASE Ready(u)
        BY <1>6, <2>1, <3>2, <4>2
      <4>3. CASE 0 \in u.INT_STATUS /\ ~Ready(u)
        BY <1>1, <2>1, <2>2, <4>1, <4>3 DEF IsrInv
      <4>4. QED
        BY <4>1, <4>2, <4>3
    <3>3. QED
      BY <1>6, <2>1, <2>2, <3>1, <3>2 DEF IsrInv, HandlerCode
  <2>5. Awake(n)
    BY <1>11 DEF Acts
  <2>6. QED
    BY <2>1, <2>3, <2>4, <2>5 DEF NodeInv, h, u
<1>12. h.trapped = TRUE \/ h.trapped = FALSE
  BY <1>1 DEF HartShape
<1>13. QED
  BY <1>4, <1>7, <1>8, <1>9, <1>10, <1>11, <1>12

-----------------------------------------------------------------------------
(* Both nodes. *)

PairInv == link \in Links /\ \A n \in Node : NodeInv(n, hart[n], uart[n])

\* One clock: each node moves, and its UART sees its access and the other's line.
LEMMA ClockIs ==
  ASSUME Clock
  PROVE  /\ link' = link
         /\ \E req : \A n \in Node :
              /\ <<hart'[n], req[n]>> \in Moves(n)
              /\ uart'[n] = UartClock(uart[n], req[n], uart[Other[n]].tx_o, Rts(uart[Other[n]]))
              /\ flight'[n] = Flies(n, req[n], req[Other[n]])
<1>1. PICK a \in Moves("a"), b \in Moves("b") :
        LET req == [a |-> a[2], b |-> b[2]] IN
        /\ hart' = [a |-> a[1], b |-> b[1]]
        /\ uart' = [n \in Node |-> UartClock(uart[n], req[n], uart[Other[n]].tx_o,
                                             Rts(uart[Other[n]]))]
        /\ flight' = [n \in Node |-> Flies(n, req[n], req[Other[n]])]
  BY DEF Clock
<1> DEFINE req == [a |-> a[2], b |-> b[2]]
<1>2. \A n : \A m \in Moves(n) : m = <<m[1], m[2]>>
  BY DEF Moves
<1>3. a = <<a[1], a[2]>> /\ b = <<b[1], b[2]>>
  BY <1>2
<1>4. /\ hart' = [a |-> a[1], b |-> b[1]]
      /\ uart' = [n \in Node |-> UartClock(uart[n], req[n], uart[Other[n]].tx_o,
                                           Rts(uart[Other[n]]))]
      /\ flight' = [n \in Node |-> Flies(n, req[n], req[Other[n]])]
  BY <1>1
<1>5. ASSUME NEW n \in Node
      PROVE  /\ <<hart'[n], req[n]>> \in Moves(n)
             /\ uart'[n] = UartClock(uart[n], req[n], uart[Other[n]].tx_o, Rts(uart[Other[n]]))
             /\ flight'[n] = Flies(n, req[n], req[Other[n]])
  <2>1. CASE n = "a"
    <3>1. hart'[n] = a[1] /\ req[n] = a[2]
      BY <1>4, <2>1
    <3>2. QED
      BY <1>3, <1>4, <2>1, <3>1
  <2>2. CASE n = "b"
    <3>1. hart'[n] = b[1] /\ req[n] = b[2]
      BY <1>4, <2>2
    <3>2. QED
      BY <1>3, <1>4, <2>2, <3>1
  <2>3. QED
    BY <2>1, <2>2 DEF Node
<1>6. link' = link
  BY DEF Clock
<1>7. QED
  BY <1>5, <1>6

\* The programs stay what they are.
LEMMA NodePrime ==
  ASSUME NEW n \in Node, link' = link, NodeInv(n, hart'[n], uart'[n])
  PROVE  NodeInv(n, hart[n], uart[n])'
<1>1. Rest(n)' = Rest(n)
  BY DEF Rest, Programs
<1>2. Configured' = Configured /\ CLKS_PER_BIT' = CLKS_PER_BIT
  BY DEF Configured, framing, CLKS_PER_BIT
<1>3. SetConfig' = SetConfig /\ SetBaud' = SetBaud /\ Programs' = Programs
  BY <1>2 DEF SetConfig, SetBaud, Programs
<1>4. HartShape(hart'[n]) /\ MainInv(n, hart'[n], uart'[n]) /\ IsrInv(n, hart'[n], uart'[n])
  BY DEF NodeInv
<1>5. MainInv(n, hart[n], uart[n])'
  <2> HIDE DEF SetConfig, SetBaud, Configured, Rest
  <2>1. TxSync(hart[n], uart[n])' /\ ActiveType(uart[n])'
    BY <1>4 DEF MainInv, TxSync, Sending, ActiveType
  <2>2. /\ Unset(n, hart'[n], uart'[n]) => Unset(n, hart[n], uart[n])'
        /\ HalfSet(n, hart'[n], uart'[n]) => HalfSet(n, hart[n], uart[n])'
    BY <1>1, <1>2, <1>3 DEF Unset, HalfSet, Quiet
  <2>3. Serves(n, hart'[n], uart'[n]) => Serves(n, hart[n], uart[n])'
    BY <1>2, <1>3 DEF Serves, Quiet, EndsIn, Polite
  <2>4. QED
    BY <1>4, <2>1, <2>2, <2>3 DEF MainInv
<1>6. IsrInv(n, hart[n], uart[n])'
  BY <1>3, <1>4 DEF IsrInv, ReadyType, Ready
<1>7. HartShape(hart[n])'
  BY <1>4 DEF HartShape, ThreadShape
<1>8. QED
  BY <1>5, <1>6, <1>7 DEF NodeInv

LEMMA PairInit ==
  ASSUME Init
  PROVE  PairInv
<1>1. link \in Links
  BY DEF Init
<1>2. ASSUME NEW n \in Node
      PROVE  NodeInv(n, hart[n], uart[n])
  <2> DEFINE h == hart[n]
             u == uart[n]
  <2>1. h = HartReset(Start(n, framing)) /\ u = UartReset
    BY DEF Init
  <2> HIDE DEF h, u
  <2>2. HartShape(h) /\ h.main.code = Start(n, framing) /\ h.trapped = FALSE /\ h.MIE = FALSE
    BY <2>1, ResetShape
  <2>3. h.main.ret = {} /\ {} \in Bits
    BY <2>1 DEF HartReset, Thread, Bits
  <2>4. /\ u.CONFIG = {} /\ u.BAUDRATE = 0 /\ u.tx = Engine /\ u.tx_active = FALSE
        /\ u.rx_ready = FALSE /\ u.INT_STATUS = {}
    BY <2>1 DEF UartReset
  <2>5. Engine \in Engines /\ Engine.state = "Idle"
    BY DEF Engine, Engines, Frames, States
  <2>6. Unset(n, h, u)
    BY <1>1, <2>2, <2>4, StartIs DEF Unset, Quiet
  <2>7. TxSync(h, u) /\ ActiveType(u)
    BY <2>4, <2>5 DEF TxSync, ActiveType
  <2>8. IsrInv(n, h, u)
    BY <2>2, <2>4 DEF IsrInv, ReadyType
  <2>9. MainInv(n, h, u)
    BY <2>3, <2>4, <2>5, <2>6, <2>7 DEF MainInv
  <2>10. QED
    BY <2>2, <2>8, <2>9 DEF NodeInv, h, u
<1>3. QED
  BY <1>1, <1>2 DEF PairInv

LEMMA TornPairStep ==
  ASSUME AnyTorn, [Clock]_vars
  PROVE  AnyTorn'
<1>1. PICK n \in Node : IsTorn(hart[n])
  BY DEF AnyTorn
<1>2. IsTorn(hart'[n])
  <2>1. CASE Clock
    <3>1. PICK req : \A m \in Node : <<hart'[m], req[m]>> \in Moves(m)
      BY <2>1, ClockIs
    <3> DEFINE g == hart'[n]
               r == req[n]
    <3>2. <<g, r>> \in Moves(n)
      BY <3>1
    <3> HIDE DEF g, r
    <3>3. IsTorn(g)
      BY <1>1, <3>2, TornMoves
    <3>4. QED
      BY <3>3 DEF g
  <2>2. CASE UNCHANGED vars
    BY <1>1, <2>2 DEF vars
  <2>3. QED
    BY <2>1, <2>2
<1>3. IsTorn(hart[n])'
  BY <1>2 DEF IsTorn
<1>4. QED
  BY <1>3 DEF AnyTorn

LEMMA NextNotTorn ==
  ASSUME ~AnyTorn', NEW n \in Node
  PROVE  ~IsTorn(hart'[n])
BY DEF AnyTorn, IsTorn

LEMMA PairStep ==
  ASSUME PairInv, [Clock]_vars, ~AnyTorn'
  PROVE  PairInv'
<1>1. CASE Clock
  <2>1. PICK req : \A n \in Node :
          /\ <<hart'[n], req[n]>> \in Moves(n)
          /\ uart'[n] = UartClock(uart[n], req[n], uart[Other[n]].tx_o, Rts(uart[Other[n]]))
    BY <1>1, ClockIs
  <2>2. link' = link /\ link \in Links
    BY <1>1, ClockIs DEF PairInv
  <2>3. ASSUME NEW n \in Node PROVE NodeInv(n, hart[n], uart[n])'
    <3>1. NodeInv(n, hart[n], uart[n])
      BY DEF PairInv
    <3>2. NodeInv(n, hart'[n], uart'[n])
      <4>1. /\ <<hart'[n], req[n]>> \in Moves(n)
            /\ uart'[n] = UartClock(uart[n], req[n], uart[Other[n]].tx_o, Rts(uart[Other[n]]))
        BY <2>1
      <4> DEFINE g == hart'[n]
                 v == uart'[n]
                 r == req[n]
                 x == uart[Other[n]].tx_o
                 c == Rts(uart[Other[n]])
      <4> HIDE DEF g, v, r, x, c
      <4>2. <<g, r>> \in Moves(n) /\ v = UartClock(uart[n], r, x, c)
        BY <4>1 DEF g, v, r, x, c
      <4>3. ~IsTorn(g)
        BY NextNotTorn DEF g
      <4>4. NodeInv(n, g, v)
        BY <2>2, <3>1, <4>2, <4>3, NodeStep
      <4>5. QED
        BY <4>4 DEF g, v
    <3>3. QED
      BY <2>2, <3>2, NodePrime
  <2>4. QED
    BY <2>2, <2>3 DEF PairInv
<1>2. CASE UNCHANGED vars
  <2>1. link' = link /\ hart' = hart /\ uart' = uart
    BY <1>2 DEF vars
  <2>2. ASSUME NEW n \in Node PROVE NodeInv(n, hart[n], uart[n])'
    <3>1. NodeInv(n, hart'[n], uart'[n])
      BY <2>1 DEF PairInv
    <3>2. QED
      BY <2>1, <3>1, NodePrime
  <2>3. QED
    BY <2>1, <2>2 DEF PairInv
<1>3. QED
  BY <1>1, <1>2

\* What is inductive: PairInv until a trap is torn, over lost ones too.
PairSound == AnyTorn \/ PairInv

\* Each node is in one of three phases: CONFIG unset, BAUDRATE unset, or set
\* up and inside its program; main and the transmit engine agree on who waits
\* for whom, and the handler and RX_READY on which byte there is; unless a
\* trap was torn.
THEOREM PairHolds == Spec => []PairSound
<1>1. Init => PairSound
  BY PairInit DEF PairSound
<1>2. PairSound /\ [Clock]_vars => PairSound'
  BY TornPairStep, PairStep DEF PairSound
<1>3. QED
  BY <1>1, <1>2, PTL DEF Spec

\* What a property of an intact link needs to be about.
LEMMA IntactIs ==
  ASSUME Intact
  PROVE  ~AnyTorn
BY DEF Intact, AnyTorn, IsTorn

-----------------------------------------------------------------------------

\* The handler's getc never waits: INT_STATUS is raised by RX_READY alone and
\* stays behind it only where the handler is about to clear it.
THEOREM HandlerHasByte == Spec => []NoSpuriousIrq
<1>1. PairSound => NoSpuriousIrq
  <2> SUFFICES ASSUME PairInv, hart.b.trapped, At(hart.b.isr, tinymcu_uart_getc[1])
               PROVE  uart.b.rx_ready
    BY IntactIs DEF NoSpuriousIrq, PairSound
  <2>1. IsrInv("b", hart["b"], uart["b"])
    BY DEF PairInv, NodeInv, Node
  <2>2. hart["b"].trapped /\ hart["b"].isr.code # <<>> /\ Head(hart["b"].isr.code) = Waits
    BY DEF At, Done, tinymcu_uart_getc, Waits
  <2>3. hart["b"].isr.code = interrupt_handler
    <3>1. Waits # Takes /\ Waits # Clears
      BY DEF Takes, Clears, Waits, Get, WhileClear, ClearBits, Modify
    <3>2. QED
      BY <2>1, <2>2, <3>1, HandlerIs DEF IsrInv
  <2>4. QED
    BY <2>1, <2>2, <2>3 DEF IsrInv, Ready
<1>2. QED
  BY <1>1, PairHolds, PTL

\* What a statement writes is its register.
LEMMA WritesIs ==
  ASSUME NEW th, Request(th).we
  PROVE  /\ th.code # <<>> /\ Head(th.code).op \in {"assign", "modify"}
         /\ Request(th).reg = Head(th.code).reg
<1> DEFINE s == Head(th.code)
<1>1. th.code # <<>>
  BY DEF Request, Done, NoReq
<1>2. s.op \in BusOps
  BY <1>1, RequestIs DEF NoReq
<1>3. s.op = "assign" \/ (s.op = "modify" /\ th.acc # <<>>)
  BY <1>1, <1>2, RequestIs DEF ReadReq
<1>4. Request(th).reg = s.reg
  BY <1>1, <1>3, RequestIs DEF WriteReq
<1>5. QED
  BY <1>1, <1>3, <1>4

\* tinymcu_uart_putc writes TX_DATA only to an idle engine.  TX_ACTIVE rises a
\* clock behind the engine; the return covers that clock.  A peer that holds
\* CTS low makes the engine drop the byte, so CTS must not be enabled.
THEOREM EveryByteIsTaken ==
  ASSUME \A l \in Links : UART_BIT_CTS_ENABLE \notin l.flow
  PROVE  Spec => []PutcAccepted
<1>1. PairSound => PutcAccepted
  <2> SUFFICES ASSUME PairInv, NEW n \in Node, Request(Running(hart[n])).we,
                      Request(Running(hart[n])).reg = "TX_DATA"
               PROVE  /\ uart[n].tx.state = "Idle"
                      /\ UART_BIT_CTS_ENABLE \notin uart[n].CONFIG
    BY IntactIs DEF PutcAccepted, PairSound
  <2> DEFINE h == hart[n]
             u == uart[n]
  <2>1. link \in Links /\ HartShape(h) /\ MainInv(n, h, u) /\ IsrInv(n, h, u)
    BY DEF PairInv, NodeInv
  <2>2. UART_BIT_CTS_ENABLE \notin u.CONFIG
    <3>1. u.CONFIG \in {{}, Configured}
      BY <2>1, BaudType
    <3>2. UART_BIT_CTS_ENABLE \notin Configured
      BY <2>1, LinkIs DEF Configured, UART_BIT_CTS_ENABLE
    <3>3. QED
      BY <3>1, <3>2
  <2> HIDE DEF h, u
  <2>3. u.tx.state = "Idle"
    <3> DEFINE th == Running(h)
               s == Head(th.code)
    <3>1. th.code # <<>> /\ s.op \in {"assign", "modify"} /\ s.reg = "TX_DATA"
      BY WritesIs DEF h
    <3>2. s \in Stmts => s \in Sends
      BY <3>1, CalmIs DEF Stmts, Calm
    <3>3. s \notin Arms \cup {Spin, SetConfig, SetBaud}
      BY <3>1 DEF Arms, Spin, SetConfig, SetBaud, SetBits, Modify, CsrSet, CsrPut, Assign
    <3>4. CASE h.trapped = TRUE
      <4>1. th.code \in HandlerCode
        BY <2>1, <3>4 DEF IsrInv, HandlerCode, Running
      <4>2. s \in {Waits, Takes, Clears}
        BY <3>1, <4>1, HandlerIs DEF HandlerCode
      <4>3. QED
        BY <3>1, <4>2, HandlerApart DEF Waits, Takes, WhileClear, Get
    <3>5. CASE h.trapped = FALSE
      <4>1. th = h.main
        BY <3>5 DEF Running
      <4>2. s \in Arms \cup {Spin, SetConfig, SetBaud} \cup Stmts
        <5>1. CASE Unset(n, h, u) \/ HalfSet(n, h, u)
          BY <2>1, <4>1, <5>1, StartIs DEF Unset, HalfSet
        <5>2. CASE Serves(n, h, u) /\ Programs[n] = "interrupt"
          <6>1. EndsIn(th.code, <<Spin>>, Arms)
            BY <4>1, <5>2 DEF Serves
          <6>2. <<Spin>> \in Seq(Arms \cup {Spin}) /\ Head(<<Spin>>) = Spin
            <7> HIDE DEF Arms
            <7>1. QED
              OBVIOUS
          <6>3. th.code = <<Spin>> \/ s \in Arms
            <7> HIDE DEF Arms, th
            <7>1. QED
              BY <6>1, <6>2, Ending
          <6>4. QED
            BY <6>2, <6>3
        <5>3. CASE Serves(n, h, u) /\ Programs[n] # "interrupt"
          <6>1. Polite(th.code)
            BY <4>1, <5>3 DEF Serves
          <6>2. QED
            BY <3>1, <6>1, PoliteTail
        <5>4. QED
          BY <2>1, <5>1, <5>2, <5>3 DEF MainInv
      <4>3. s \in Sends
        BY <3>2, <3>3, <4>2
      <4>4. QED
        BY <2>1, <3>1, <4>1, <4>3 DEF MainInv, TxSync, Sending
    <3>6. QED
      BY <2>1, <3>4, <3>5 DEF HartShape
  <2>4. QED
    BY <2>2, <2>3 DEF h, u
<1>2. QED
  BY <1>1, PairHolds, PTL

-----------------------------------------------------------------------------
(* The line. *)

\* The frame both ends are set to.
Framed == Frame([CONFIG |-> Configured, BAUDRATE |-> CLKS_PER_BIT])

LEMMA FramedIs ==
  ASSUME link \in Links
  PROVE  /\ Framed \in Frames /\ Framed.baud = CLKS_PER_BIT
         /\ \A u : u.CONFIG = Configured /\ u.BAUDRATE = CLKS_PER_BIT => Frame(u) = Framed
<1> DEFINE c == [CONFIG |-> Configured, BAUDRATE |-> CLKS_PER_BIT]
<1>1. c.BAUDRATE = CLKS_PER_BIT /\ c.CONFIG = Configured /\ CLKS_PER_BIT \in Nat
  BY LinkIs
<1> HIDE DEF c
<1>2. Frame(c) \in Frames /\ Frame(c).baud = CLKS_PER_BIT
  BY <1>1, FrameType
<1>3. ASSUME NEW u, u.CONFIG = Configured, u.BAUDRATE = CLKS_PER_BIT
      PROVE  Frame(u) = Frame(c)
  BY <1>1, <1>3 DEF Frame
<1>4. QED
  BY <1>2, <1>3 DEF Framed, c

\* b has sent nothing: it waits for the first byte.
Fresh(h, u) == Unset("b", h, u) \/ HalfSet("b", h, u)
               \/ (Serves("b", h, u) /\ h.main.code = Rest("b"))

\* a is switched on behind b's init; b sends nothing before it has read.
OrderInv(ha, hb, ua, ub) ==
  /\ Unset("a", ha, ua) \/ Serves("b", hb, ub)
  /\ \/ Serves("a", ha, ua)
     \/ ~Ready(ub) /\ ub.tx.state = "Idle" /\ (Programs["b"] = "echo" => Fresh(hb, ub))

\* uart_echo starts with getc.
LEMMA EchoRest ==
  ASSUME link \in Links, NEW n \in Node, Programs[n] = "echo"
  PROVE  Rest(n) # <<>> /\ Head(Rest(n)) = Waits
<1> DEFINE w == <<Waits>>
           k == <<Takes>>
           e == <<Local("echo")>>
<1>1. Rest(n) = tinymcu_uart_getc \o e /\ tinymcu_uart_getc = w \o k
  BY RestIs, PairIs DEF tinymcu_uart_getc, Waits, Takes
<1>2. Waits \in Calm /\ Takes \in Calm /\ Local("echo") \in Calm
  BY DEF Calm, Loops, Gets, Locals
<1>3. w \in Seq(Calm) /\ k \in Seq(Calm) /\ e \in Seq(Calm)
  <2> HIDE DEF Calm
  <2>1. QED
    BY <1>2
<1> DEFINE r == k \o e
<1>4. r \in Seq(Calm)
  BY <1>3, CalmConcat
<1>5. w \o r # <<>> /\ Head(w \o r) = Waits
  <2> HIDE DEF r, Calm
  <2>1. QED
    BY <1>2, <1>4, FirstStatement
<1>6. (w \o k) \o e = w \o (k \o e)
  <2> HIDE DEF w, k, e, Calm
  <2>1. QED
    BY <1>3, ConcatAssociative
<1>7. QED
  BY <1>1, <1>5, <1>6

LEMMA EchoFresh ==
  ASSUME link \in Links, Programs["b"] = "echo", HartShape(hart["b"]),
         MainInv("b", hart["b"], uart["b"]), Fresh(hart["b"], uart["b"]), ReadyType(uart["b"]),
         ~Ready(uart["b"]), NEW g, NEW req, <<g, req>> \in Moves("b"),
         NEW rx, NEW cts, NEW v, v = UartClock(uart["b"], req, rx, cts)
  PROVE  Fresh(g, v)
<1> DEFINE h == hart["b"]
           u == uart["b"]
           th == h.main
           s == Head(th.code)
           w == Reading("b", req)
           t == Stepped(th, w)
<1>1. Programs["b"] # "interrupt" /\ "b" \in Node /\ Programs["b"] \notin Listeners
  BY DEF Node, Listeners
<1>2. Quiet(h)
  BY <1>1 DEF MainInv, Unset, HalfSet, Serves
<1>3. \/ req = NoReq /\ Stays(h, g)
      \/ req = NoReq /\ Traps(h, g, mip("b"), interrupt_handler)
      \/ req = NoReq /\ Mrets(h, g)
      \/ Acts("b", g, req)
  BY <1>1, MoveIs
<1>4. /\ v.CONFIG = IF Writes(req, "uart", "CONFIG") THEN req.data ELSE u.CONFIG
      /\ v.BAUDRATE = IF Writes(req, "uart", "BAUDRATE") THEN req.data ELSE u.BAUDRATE
  BY UartRegs
<1>5. CASE req = NoReq /\ Stays(h, g)
  <2>1. ~Writes(req, "uart", "CONFIG") /\ ~Writes(req, "uart", "BAUDRATE")
    BY <1>5 DEF NoReq, Writes
  <2>2. g.main = h.main /\ Quiet(g)
    BY <1>2, <1>5 DEF Stays, Quiet
  <2>3. v.CONFIG = u.CONFIG /\ v.BAUDRATE = u.BAUDRATE
    BY <1>4, <2>1
  <2> HIDE DEF h, u
  <2>4. Fresh(h, u)
    BY DEF h, u
  <2>5. QED
    BY <1>1, <2>2, <2>3, <2>4 DEF Fresh, Unset, HalfSet, Serves
<1>6. CASE Traps(h, g, mip("b"), interrupt_handler)
  BY <1>2, <1>6, TrapsIs DEF Quiet
<1>7. CASE Mrets(h, g)
  BY <1>2, <1>7, MretsIs DEF Quiet
<1>8. CASE Acts("b", g, req)
  <2>1. /\ th.code # <<>> /\ req = Request(th) /\ Running(h) = th /\ ThreadShape(th)
        /\ th.ret \in Bits
    BY <1>2, <1>8 DEF Acts, CanExecute, Done, Running, Quiet, HartShape, MainInv
  <2>2. ASSUME ThreadShape(t), s.op \notin {"csrs", "csrc"}, t.code # <<>>
        PROVE  g.main = t /\ Quiet(g)
    BY <1>1, <1>2, <1>8, <2>1, <2>2, ActsIs DEF Quiet, GoesOn
  <2> HIDE DEF h, u, th, s, w, t
  <2>3. CASE Unset("b", h, u)
    <3>1. /\ s = SetConfig /\ Tail(th.code) = <<SetBaud>> \o Rest("b")
          /\ Tail(th.code) # <<>>
      BY <1>1, <2>3, StartIs DEF Unset, s, th
    <3>2. t = Behind(th, th.ret) /\ req = WriteReq("uart", "CONFIG", Configured)
          /\ s.op \notin {"csrs", "csrc"}
      BY <2>1, <3>1, SteppedOn, RequestIs DEF SetConfig, Assign, t, s
    <3>3. t.code = Tail(th.code) /\ ThreadShape(t)
      BY <3>2 DEF Behind, ThreadShape
    <3>4. g.main = t /\ Quiet(g)
      BY <2>2, <3>1, <3>2, <3>3
    <3>5. v.CONFIG = Configured /\ v.BAUDRATE = 0
      BY <1>4, <2>3, <3>2 DEF WriteReq, Writes, Unset
    <3>6. QED
      BY <3>1, <3>3, <3>4, <3>5 DEF Fresh, HalfSet
  <2>4. CASE HalfSet("b", h, u)
    <3>1. s = SetBaud /\ Tail(th.code) = Rest("b") /\ Rest("b") # <<>>
      BY <1>1, <2>4, StartIs, EchoRest DEF HalfSet, s, th
    <3>2. t = Behind(th, th.ret) /\ req = WriteReq("uart", "BAUDRATE", CLKS_PER_BIT)
          /\ s.op \notin {"csrs", "csrc"}
      BY <2>1, <3>1, SteppedOn, RequestIs DEF SetBaud, Assign, t, s
    <3>3. t.code = Rest("b") /\ ThreadShape(t)
      BY <3>1, <3>2 DEF Behind, ThreadShape
    <3>4. g.main = t /\ Quiet(g)
      BY <2>2, <3>1, <3>2, <3>3
    <3>5. v.CONFIG = Configured /\ v.BAUDRATE = CLKS_PER_BIT
      BY <1>4, <2>4, <3>2 DEF WriteReq, Writes, HalfSet
    <3>6. Polite(g.main.code)
      BY <1>1, <3>3, <3>4, RestIs, CalmWhole DEF Whole
    <3>7. QED
      BY <1>1, <3>3, <3>4, <3>5, <3>6 DEF Fresh, Serves
  <2>5. CASE Serves("b", h, u) /\ th.code = Rest("b")
    <3>1. s = Waits /\ s \in Stmts
      BY <1>1, <2>5, EchoRest, HandlerApart DEF s
    <3>2. /\ ThreadShape(t) /\ s.op \notin {"csrs", "csrc"}
          /\ req = ReadReq("uart", "STATUS")
          /\ t = IF w \cap {1} = {} THEN th ELSE Behind(th, th.ret)
      BY <2>1, <3>1, StatementIs DEF s, t
    <3>3. w = UartStatus(u)
      BY <3>2 DEF w, u, Reading, UartRead, ReadReq
    <3>4. w \cap {1} = {}
      <4>1. ~Ready(u) /\ ReadyType(u)
        BY DEF u
      <4>2. u.rx_ready = FALSE
        BY <4>1 DEF Ready, ReadyType
      <4>3. QED
        BY <3>3, <4>2 DEF UartStatus, TINYMCU_UART_STATUS_TX_ACTIVE, TINYMCU_UART_STATUS_PARITY_ERROR
    <3>5. g.main = th /\ Quiet(g)
      BY <2>1, <2>2, <3>2, <3>4
    <3>6. v.CONFIG = u.CONFIG /\ v.BAUDRATE = u.BAUDRATE
      BY <1>4, <3>2 DEF ReadReq, Writes
    <3>7. QED
      BY <1>1, <2>5, <3>5, <3>6 DEF Fresh, Serves, th
  <2>6. QED
    BY <2>3, <2>4, <2>5 DEF Fresh, h, u, th
<1>9. QED
  BY <1>3, <1>5, <1>6, <1>7, <1>8

\* Both directions of the line.
LinesInv ==
  /\ PairInv /\ OrderInv(hart["a"], hart["b"], uart["a"], uart["b"])
  /\ WireInv(uart["a"], uart["b"], Framed) /\ WireInv(uart["b"], uart["a"], Framed)

\* What a transmitter at work says of both nodes.
LEMMA OrderIs ==
  ASSUME link \in Links, CLKS_PER_BIT >= 10, NEW ha, NEW hb, NEW ua, NEW ub,
         NodeInv("a", ha, ua), NodeInv("b", hb, ub), OrderInv(ha, hb, ua, ub)
  PROVE  /\ ua.tx.state # "Idle" => Serves("a", ha, ua) /\ Serves("b", hb, ub)
         /\ ub.tx.state # "Idle" => Serves("a", ha, ua) /\ Serves("b", hb, ub)
         /\ Serves("a", ha, ua) => Serves("b", hb, ub)
         /\ Serves("b", hb, ub) <=> ub.BAUDRATE # 0
         /\ Unset("a", ha, ua) => ~Serves("a", ha, ua)
<1>1. CLKS_PER_BIT # 0
  BY LinkIs
<1>2. MainInv("a", ha, ua) /\ MainInv("b", hb, ub)
  BY DEF NodeInv
<1>3. Unset("a", ha, ua) => ~Serves("a", ha, ua)
  BY <1>1 DEF Unset, Serves
<1>4. Serves("b", hb, ub) <=> ub.BAUDRATE # 0
  BY <1>1, <1>2 DEF MainInv, Unset, HalfSet, Serves
<1>5. Serves("a", ha, ua) => Serves("b", hb, ub)
  BY <1>3 DEF OrderInv
<1>6. /\ ua.tx.state # "Idle" => Serves("a", ha, ua)
      /\ ub.tx.state # "Idle" => Serves("b", hb, ub)
  BY <1>2 DEF MainInv
<1>7. ub.tx.state # "Idle" => Serves("a", ha, ua)
  BY DEF OrderInv
<1>8. QED
  BY <1>3, <1>4, <1>5, <1>6, <1>7

\* A receiver that looks at an idle line delivers nothing.
LEMMA NothingArrives ==
  ASSUME NEW S, NEW R, NEW F, WireInv(S, R, F), S.tx.state = "Idle"
  PROVE  R.rx.state = "Idle" /\ ~RxDelivers(R)
<1>1. LockInv(S, R, F) /\ R.rx.state \in States
  BY DEF WireInv, RxInv, Engines
<1>2. R.rx.state # "Start" /\ R.rx.state # "Complete"
  BY <1>1 DEF LockInv
<1>3. R.rx.state \notin {"Data", "Parity", "Stop"}
  BY <1>1 DEF LockInv, Timing
<1>4. QED
  BY <1>1, <1>2, <1>3 DEF States, Timing, RxDelivers

LEMMA OrderStep ==
  ASSUME LinesInv, CLKS_PER_BIT >= 10, NEW ga, NEW gb, NEW ra, NEW rb,
         <<ga, ra>> \in Moves("a"), <<gb, rb>> \in Moves("b"), ~IsTorn(ga), ~IsTorn(gb),
         NEW xa, NEW xb, NEW ca, NEW cb, NEW va, NEW vb,
         va = UartClock(uart["a"], ra, xa, ca), vb = UartClock(uart["b"], rb, xb, cb)
  PROVE  OrderInv(ga, gb, va, vb)
<1> DEFINE ha == hart["a"]
           hb == hart["b"]
           ua == uart["a"]
           ub == uart["b"]
<1>1. /\ link \in Links /\ NodeInv("a", ha, ua) /\ NodeInv("b", hb, ub)
      /\ OrderInv(ha, hb, ua, ub) /\ "a" \in Node /\ "b" \in Node
  BY DEF LinesInv, PairInv, Node
<1>2. /\ NodeInv("a", ga, va) /\ (Serves("a", ha, ua) => Serves("a", ga, va))
      /\ Awake("a") \/ /\ ga.main = ha.main /\ va.CONFIG = ua.CONFIG
                       /\ va.BAUDRATE = ua.BAUDRATE
                       /\ Quiet(ha) => Quiet(ga)
  BY <1>1, NodeStep
<1>3. /\ NodeInv("b", gb, vb) /\ (Serves("b", hb, ub) => Serves("b", gb, vb))
      /\ Writes(rb, "uart", "TX_DATA") =>
           Serves("b", hb, ub) /\ Programs["b"] \notin Listeners /\ Sending(hb)
  BY <1>1, NodeStep
<1>4. /\ ua.tx.state # "Idle" => Serves("a", ha, ua)
      /\ Serves("b", hb, ub) <=> ub.BAUDRATE # 0
  BY <1>1, OrderIs
<1>5. Unset("a", ga, va) \/ Serves("b", gb, vb)
  <2>1. CASE Serves("b", hb, ub)
    BY <1>3, <2>1
  <2>2. CASE ~Serves("b", hb, ub)
    <3>1. ~Awake("a")
      BY <1>4, <2>2 DEF Awake
    <3>2. Unset("a", ha, ua)
      BY <1>1, <2>2 DEF OrderInv
    <3>3. QED
      BY <1>2, <3>1, <3>2 DEF Unset
  <2>3. QED
    BY <2>1, <2>2
<1>6. ASSUME ~Serves("a", ga, va)
      PROVE  ~Ready(vb) /\ vb.tx.state = "Idle" /\ (Programs["b"] = "echo" => Fresh(gb, vb))
  <2>1. /\ ~Serves("a", ha, ua) /\ ~Ready(ub) /\ ub.tx.state = "Idle"
        /\ Programs["b"] = "echo" => Fresh(hb, ub)
    BY <1>1, <1>2, <1>6 DEF OrderInv
  <2>2. ~RxDelivers(ub)
    BY <1>4, <2>1, NothingArrives DEF LinesInv
  <2>3. vb.rx_ready = RxReady(ub, rb) /\ ReadyType(ub)
    BY <1>1, UartRegs DEF NodeInv, IsrInv
  <2>4. ~Ready(vb)
    BY <2>1, <2>2, <2>3 DEF RxReady, Ready, ReadyType
  <2>5. Programs["b"] = "echo" => Fresh(gb, vb)
    <3> SUFFICES ASSUME Programs["b"] = "echo" PROVE Fresh(gb, vb)
      OBVIOUS
    <3>1. HartShape(hb) /\ MainInv("b", hb, ub)
      BY <1>1 DEF NodeInv
    <3>2. QED
      BY <1>1, <2>1, <2>3, <3>1, EchoFresh
  <2>6. ~Writes(rb, "uart", "TX_DATA")
    <3> SUFFICES ASSUME Writes(rb, "uart", "TX_DATA") PROVE FALSE
      OBVIOUS
    <3>1. Serves("b", hb, ub) /\ Programs["b"] \notin Listeners /\ Sending(hb)
      BY <1>3
    <3>2. Programs["b"] = "echo"
      BY <1>1, <3>1, LinkIs DEF Listeners
    <3>3. Serves("b", hb, ub) => Programs["b"] # "interrupt" /\ Polite(hb.main.code)
      BY <3>2 DEF Serves
    <3>4. Head(hb.main.code) \in {SetConfig, SetBaud, Waits}
      <4>1. Fresh(hb, ub)
        BY <2>1, <3>2
      <4>2. Head(Rest("b")) = Waits
        BY <1>1, <3>2, EchoRest
      <4> HIDE DEF hb, ub
      <4>3. QED
        BY <1>1, <4>1, <4>2, StartIs DEF Fresh, Unset, HalfSet
    <3>5. QED
      BY <3>1, <3>4, CalmIs DEF Sending, SetConfig, SetBaud, Waits, Assign, WhileClear
  <2>7. vb.tx.state = "Idle"
    <3>1. vb.tx = TxNext(ub, rb, cb)
      BY DEF UartClock
    <3>2. ~Accepts(ub, rb, cb)
      BY <2>6 DEF Accepts
    <3>3. QED
      BY <2>1, <3>1, <3>2 DEF TxNext
  <2>8. QED
    BY <2>4, <2>5, <2>7
<1>7. QED
  BY <1>5, <1>6 DEF OrderInv

\* What a clock does to one direction of the line.
LEMMA WayClocks ==
  ASSUME LinesInv, CLKS_PER_BIT >= 10, NEW n \in Node, NEW g, NEW req, <<g, req>> \in Moves(n),
         NEW peer, NEW x, NEW c, NEW d, NEW v, NEW w,
         v = UartClock(uart[n], req, x, c),
         w = UartClock(uart[Other[n]], peer, uart[n].tx_o, d)
  PROVE  /\ WireInv(uart[n], uart[Other[n]], Framed)
         /\ TxClocks(uart[n], v, Framed) /\ RxClocks(uart[n], uart[Other[n]], w, Framed)
<1> DEFINE S == uart[n]
           R == uart[Other[n]]
<1>1. Other[n] \in Node /\ (n = "a" => Other[n] = "b") /\ (n = "b" => Other[n] = "a")
  BY DEF Node, Other
<1>2. /\ link \in Links /\ NodeInv(n, hart[n], S) /\ NodeInv(Other[n], hart[Other[n]], R)
      /\ WireInv(S, R, Framed)
  BY <1>1 DEF LinesInv, PairInv, Node
<1>3. S.BAUDRATE \in Nat /\ R.BAUDRATE \in Nat
  BY <1>2, BaudType DEF NodeInv
<1>4. TxClocks(S, v, Framed)
  <2>1. /\ v.tx = TxNext(S, req, c) /\ v.tx_o = TxLine(S)
        /\ v.tx_data = IF Accepts(S, req, c) THEN req.data \cap (0..DataBits) ELSE S.tx_data
    BY DEF UartClock
  <2>2. Writes(req, "uart", "TX_DATA") => Serves(n, hart[n], S)
    BY <1>2, NodeStep
  <2>3. Accepts(S, req, c) => Frame(S) = Framed
    BY <1>2, <2>2, FramedIs DEF Accepts, Serves
  <2>4. QED
    BY <1>3, <2>1, <2>3 DEF TxClocks
<1>5. RxClocks(S, R, w, Framed)
  <2>1. /\ w.rx = RxNext(R) /\ w.rx_data = RxShifted(R) /\ w.parity_error = RxParity(R)
        /\ w.sync = <<S.tx_o, R.sync[1]>>
    BY DEF UartClock
  <2>2. S.tx.state # "Idle" => Serves(Other[n], hart[Other[n]], R)
    <3>1. /\ NodeInv("a", hart["a"], uart["a"]) /\ NodeInv("b", hart["b"], uart["b"])
          /\ OrderInv(hart["a"], hart["b"], uart["a"], uart["b"])
      BY DEF LinesInv, PairInv, Node
    <3>2. /\ uart["a"].tx.state # "Idle" => Serves("b", hart["b"], uart["b"])
          /\ uart["b"].tx.state # "Idle" => Serves("a", hart["a"], uart["a"])
      BY <1>2, <3>1, OrderIs
    <3>3. QED
      BY <1>1, <3>2 DEF Node
  <2>3. S.tx.state # "Idle" => Frame(R) = Framed
    BY <1>2, <2>2, FramedIs DEF Serves
  <2>4. QED
    BY <1>3, <2>1, <2>3 DEF RxClocks
<1>6. QED
  BY <1>2, <1>4, <1>5

LEMMA WayStep ==
  ASSUME LinesInv, CLKS_PER_BIT >= 10, NEW n \in Node, NEW g, NEW req, <<g, req>> \in Moves(n),
         NEW peer, NEW x, NEW c, NEW d, NEW v, NEW w,
         v = UartClock(uart[n], req, x, c),
         w = UartClock(uart[Other[n]], peer, uart[n].tx_o, d)
  PROVE  WireInv(v, w, Framed)
<1>1. link \in Links /\ Framed \in Frames /\ Framed.baud >= 10
  BY FramedIs DEF LinesInv, PairInv
<1>2. /\ WireInv(uart[n], uart[Other[n]], Framed)
      /\ TxClocks(uart[n], v, Framed) /\ RxClocks(uart[n], uart[Other[n]], w, Framed)
  BY WayClocks
<1>3. QED
  BY <1>1, <1>2, WireStep

LEMMA LinesInit ==
  ASSUME Init
  PROVE  LinesInv
<1>1. PairInv /\ uart["a"] = UartReset /\ uart["b"] = UartReset
  BY PairInit DEF Init, Node
<1>2. WireInv(uart["a"], uart["b"], Framed) /\ WireInv(uart["b"], uart["a"], Framed)
  BY <1>1, WireInit
<1>3. \A n \in Node : Unset(n, hart[n], uart[n])
  <2> SUFFICES ASSUME NEW n \in Node PROVE Unset(n, hart[n], uart[n])
    OBVIOUS
  <2>1. hart[n] = HartReset(Start(n, framing)) /\ uart[n] = UartReset /\ link \in Links
    BY DEF Init
  <2>2. hart[n].main.code = Start(n, framing) /\ Quiet(hart[n])
    BY <2>1, ResetShape DEF Quiet
  <2>3. QED
    BY <2>1, <2>2, StartIs DEF Unset, UartReset
<1>4. ~Ready(uart["b"]) /\ uart["b"].tx.state = "Idle"
  BY <1>1 DEF UartReset, Engine, Ready
<1>5. QED
  BY <1>1, <1>2, <1>3, <1>4 DEF LinesInv, OrderInv, Fresh, Node

\* The order of the two nodes, of the next state.
LEMMA OrderPrime ==
  ASSUME link' = link, OrderInv(hart'["a"], hart'["b"], uart'["a"], uart'["b"])
  PROVE  OrderInv(hart["a"], hart["b"], uart["a"], uart["b"])'
<1>1. \A n : Rest(n)' = Rest(n)
  BY DEF Rest, Programs
<1>2. Configured' = Configured /\ CLKS_PER_BIT' = CLKS_PER_BIT
  BY DEF Configured, framing, CLKS_PER_BIT
<1>3. SetConfig' = SetConfig /\ SetBaud' = SetBaud /\ Programs' = Programs
  BY <1>2 DEF SetConfig, SetBaud, Programs
<1> HIDE DEF SetConfig, SetBaud, Configured, Rest
<1>4. ASSUME NEW n \in Node
      PROVE  /\ Unset(n, hart'[n], uart'[n]) => Unset(n, hart[n], uart[n])'
             /\ HalfSet(n, hart'[n], uart'[n]) => HalfSet(n, hart[n], uart[n])'
             /\ Serves(n, hart'[n], uart'[n]) => Serves(n, hart[n], uart[n])'
  <2>1. Rest(n)' = Rest(n)
    BY DEF Rest, Programs
  <2>2. /\ Unset(n, hart'[n], uart'[n]) => Unset(n, hart[n], uart[n])'
        /\ HalfSet(n, hart'[n], uart'[n]) => HalfSet(n, hart[n], uart[n])'
    BY <1>2, <1>3, <2>1 DEF Unset, HalfSet, Quiet
  <2>3. Serves(n, hart'[n], uart'[n]) => Serves(n, hart[n], uart[n])'
    BY <1>2, <1>3 DEF Serves, Quiet, EndsIn, Polite
  <2>4. QED
    BY <2>2, <2>3
<1>5. "a" \in Node /\ "b" \in Node
  BY DEF Node
<1>6. Rest("b")' = Rest("b")
  BY DEF Rest, Programs
<1>7. QED
  BY <1>3, <1>4, <1>5, <1>6 DEF OrderInv, Fresh, Ready

LEMMA LinesStep ==
  ASSUME LinesInv, CLKS_PER_BIT >= 10, [Clock]_vars, ~AnyTorn'
  PROVE  LinesInv'
<1>1. PairInv'
  BY PairStep DEF LinesInv
<1>2. CASE Clock
  <2>1. PICK req : \A n \in Node :
          /\ <<hart'[n], req[n]>> \in Moves(n)
          /\ uart'[n] = UartClock(uart[n], req[n], uart[Other[n]].tx_o, Rts(uart[Other[n]]))
    BY <1>2, ClockIs
  <2>2. link' = link
    BY <1>2, ClockIs
  <2> DEFINE ga == hart'["a"]
             gb == hart'["b"]
             va == uart'["a"]
             vb == uart'["b"]
             ra == req["a"]
             rb == req["b"]
             ca == Rts(uart["b"])
             cb == Rts(uart["a"])
  <2>3. /\ <<ga, ra>> \in Moves("a") /\ <<gb, rb>> \in Moves("b")
        /\ va = UartClock(uart["a"], ra, uart["b"].tx_o, ca)
        /\ vb = UartClock(uart["b"], rb, uart["a"].tx_o, cb)
    BY <2>1 DEF Node, Other
  <2>3a. ~IsTorn(ga) /\ ~IsTorn(gb)
    BY NextNotTorn DEF Node
  <2> HIDE DEF ga, gb, va, vb, ra, rb, ca, cb
  <2>4. OrderInv(ga, gb, va, vb)
    BY <2>3, <2>3a, OrderStep
  <2>5. WireInv(va, vb, Framed)
    <3>1. "a" \in Node /\ Other["a"] = "b"
      BY DEF Node, Other
    <3>2. QED
      BY <2>3, <3>1, WayStep
  <2>6. WireInv(vb, va, Framed)
    <3>1. "b" \in Node /\ Other["b"] = "a"
      BY DEF Node, Other
    <3>2. QED
      BY <2>3, <3>1, WayStep
  <2>7. OrderInv(hart["a"], hart["b"], uart["a"], uart["b"])'
    BY <2>2, <2>4, OrderPrime DEF ga, gb, va, vb
  <2>8. Framed' = Framed
    BY <2>2 DEF Framed, Frame, Configured, framing, CLKS_PER_BIT
  <2>9. QED
    BY <1>1, <2>5, <2>6, <2>7, <2>8 DEF LinesInv, va, vb
<1>3. CASE UNCHANGED vars
  <2>1. link' = link /\ hart' = hart /\ uart' = uart
    BY <1>3 DEF vars
  <2>2. OrderInv(hart["a"], hart["b"], uart["a"], uart["b"])'
    BY <2>1, OrderPrime DEF LinesInv
  <2>3. Framed' = Framed
    BY <2>1 DEF Framed, Frame, Configured, framing, CLKS_PER_BIT
  <2>4. QED
    BY <1>1, <2>1, <2>2, <2>3 DEF LinesInv
<1>4. QED
  BY <1>2, <1>3

\* A receiver never sets PARITY_ERROR for a byte the other node has sent with
\* the same framing: it samples each bit, the parity bit too, half a bit time
\* behind the edge the transmitter made, which takes ten clocks per bit (the
\* code has 1667).
THEOREM ParityHolds ==
  ASSUME \A l \in Links : l.clks >= 10
  PROVE  Spec => []NoFalseParityError
<1> DEFINE Inv == AnyTorn \/ LinesInv
<1>1. Init => Inv
  BY LinesInit
<1>2. LinesInv => CLKS_PER_BIT >= 10
  BY DEF LinesInv, PairInv, CLKS_PER_BIT
<1>3. Inv /\ [Clock]_vars => Inv'
  BY <1>2, TornPairStep, LinesStep
<1>4. Inv => NoFalseParityError
  <2> SUFFICES ASSUME LinesInv, NEW n \in Node
               PROVE  TINYMCU_UART_STATUS_PARITY_ERROR \cap UartStatus(uart[n]) = {}
    BY IntactIs DEF NoFalseParityError
  <2>1. uart[n].parity_error = FALSE
    BY DEF LinesInv, WireInv, BitsInv, Node
  <2>2. QED
    BY <2>1 DEF UartStatus, TINYMCU_UART_STATUS_TX_ACTIVE, TINYMCU_UART_STATUS_RX_READY,
                TINYMCU_UART_STATUS_PARITY_ERROR
<1>5. QED
  BY <1>1, <1>3, <1>4, PTL DEF Spec

-----------------------------------------------------------------------------
(* uart_echo and a terminal that waits for the echo. *)

\* A byte of a frame.
Byte == SUBSET (0..(Framed.width - 1))

LEMMA ByteIs ==
  ASSUME link \in Links
  PROVE  /\ Framed.width \in Nat /\ Framed.width > 0 /\ Framed.width <= DataBits + 1
         /\ Bytes(framing) \subseteq Byte /\ Byte \subseteq Bits
         /\ \A c \in Byte : c \cap (0..DataBits) = c /\ c \cap Word32 \in Byte
<1> DEFINE c == [CONFIG |-> Configured, BAUDRATE |-> CLKS_PER_BIT]
           w == databits_reg(Configured)
<1>1. Framed.width = w
  <2>1. c.CONFIG = Configured
    OBVIOUS
  <2> HIDE DEF c
  <2>2. Frame(c).width = databits_reg(c.CONFIG)
    BY DEF Frame
  <2>3. QED
    BY <2>1, <2>2 DEF Framed, c
<1>2. Configured \cap {0, 1} = framing[1] \cap {0, 1}
  BY LinkIs DEF Configured, UART_BIT_RTS_ENABLE, UART_BIT_CTS_ENABLE
<1>3. w = databits_reg(framing[1])
  BY <1>2 DEF databits_reg
<1>4. w \in Nat /\ w > 0 /\ w <= DataBits + 1
  BY UartAssumption DEF databits_reg
<1>5. Bytes(framing) \subseteq Byte
  BY <1>1, <1>3 DEF Bytes, Byte
<1> HIDE DEF w
<1>6. Byte \subseteq Bits
  BY <1>1, <1>4 DEF Byte, Bits
<1>7. ASSUME NEW d \in Byte PROVE d \cap (0..DataBits) = d /\ d \cap Word32 \in Byte
  <2>1. d \subseteq 0..(w - 1)
    BY <1>1 DEF Byte
  <2>2. 0..(w - 1) \subseteq 0..DataBits
    BY <1>4, UartAssumption
  <2>3. QED
    BY <1>1, <2>1, <2>2 DEF Byte
<1>8. QED
  BY <1>1, <1>4, <1>5, <1>6, <1>7

\* What main has left: behind getc; of getc; of putc.
Answered(n) == IF Programs[n] = "echo" THEN <<Local("echo")>>
               ELSE tinymcu_uart_rx_parity_error \o <<Local("checked")>>
Taking(n)      == <<Takes>> \o Answered(n)
Waiting(n)     == <<Waits>> \o Taking(n)
Returning(n)   == <<Return>> \o Waiting(n)
Putting(n, c)  == <<Assign("uart", "TX_DATA", c)>> \o Returning(n)
Awaiting(n, c) == <<Awaits>> \o Putting(n, c)
Checks         == Get("uart", "STATUS", TINYMCU_UART_STATUS_PARITY_ERROR)

LEMMA TripleIs ==
  ASSUME NEW a, NEW b, NEW c
  PROVE  <<a, b, c>> = <<a>> \o (<<b>> \o <<c>>)
<1> DEFINE S == {a, b, c}
           l == <<a, b, c>>
           p == <<b, c>>
           r == <<a>> \o p
<1>1. <<b>> \o <<c>> = p
  BY PairIs
<1>2. l \in Seq(S) /\ Len(l) = 3 /\ l[1] = a /\ l[2] = b /\ l[3] = c
      /\ p \in Seq(S) /\ Len(p) = 2 /\ p[1] = b /\ p[2] = c
      /\ <<a>> \in Seq(S) /\ Len(<<a>>) = 1 /\ <<a>>[1] = a
  OBVIOUS
<1> HIDE DEF S, l, p
<1>3. /\ r \in Seq(S) /\ Len(r) = 3
      /\ \A i \in 1..3 : r[i] = IF i <= 1 THEN <<a>>[i] ELSE p[i - 1]
  <2> DEFINE q == <<a>>
  <2>1. q \in Seq(S) /\ Len(q) = 1
    BY <1>2
  <2> HIDE DEF q
  <2>2. /\ q \o p \in Seq(S) /\ Len(q \o p) = Len(q) + Len(p)
        /\ \A i \in 1..(Len(q) + Len(p)) : (q \o p)[i] = IF i <= Len(q) THEN q[i] ELSE p[i - Len(q)]
    BY <1>2, <2>1, ConcatProperties
  <2>3. QED
    BY <1>2, <2>1, <2>2 DEF q
<1> HIDE DEF r
<1>4. r[1] = a /\ r[2] = b /\ r[3] = c
  BY <1>2, <1>3
<1>5. \A i \in 1..Len(l) : l[i] = r[i]
  BY <1>2, <1>3, <1>4
<1>6. l = r
  BY <1>2, <1>3, <1>5, SeqEqual
<1>7. QED
  BY <1>1, <1>6 DEF l, r

\* The statements of a terminal and of uart_echo, one by one.
LEMMA TalkIs ==
  ASSUME NEW n
  PROVE  /\ Waiting(n) # <<>> /\ Head(Waiting(n)) = Waits /\ Tail(Waiting(n)) = Taking(n)
         /\ Taking(n) # <<>> /\ Head(Taking(n)) = Takes /\ Tail(Taking(n)) = Answered(n)
         /\ Returning(n) # <<>> /\ Head(Returning(n)) = Return /\ Tail(Returning(n)) = Waiting(n)
         /\ Answered(n) # <<>>
         /\ IF Programs[n] = "echo" THEN Head(Answered(n)) = Local("echo") /\ Tail(Answered(n)) = <<>>
            ELSE Head(Answered(n)) = Checks /\ Tail(Answered(n)) = <<Local("checked")>>
         /\ Answered(n) \in Seq(Calm) /\ Taking(n) \in Seq(Calm) /\ Waiting(n) \in Seq(Calm)
         /\ Returning(n) \in Seq(Calm)
         /\ \A c \in Bits :
              /\ Putting(n, c) # <<>> /\ Head(Putting(n, c)) = Assign("uart", "TX_DATA", c)
              /\ Tail(Putting(n, c)) = Returning(n)
              /\ Awaiting(n, c) # <<>> /\ Head(Awaiting(n, c)) = Awaits
              /\ Tail(Awaiting(n, c)) = Putting(n, c)
<1>1. /\ Waits \in Calm /\ Takes \in Calm /\ Return \in Calm /\ Checks \in Calm
      /\ Local("echo") \in Calm /\ Local("checked") \in Calm /\ Awaits \in Calm
  BY DEF Calm, Loops, Gets, Locals, Checks, Return
<1>2. Calm \subseteq Stmts /\ Sends \subseteq Stmts
  BY DEF Stmts
<1> HIDE DEF Calm, Checks
<1>3. /\ Answered(n) \in Seq(Calm) /\ Answered(n) # <<>>
      /\ IF Programs[n] = "echo" THEN Head(Answered(n)) = Local("echo") /\ Tail(Answered(n)) = <<>>
         ELSE Head(Answered(n)) = Checks /\ Tail(Answered(n)) = <<Local("checked")>>
  <2>1. CASE Programs[n] = "echo"
    <3>1. Answered(n) = <<Local("echo")>>
      BY <2>1 DEF Answered
    <3> DEFINE e == Local("echo")
    <3> HIDE DEF e
    <3>2. <<e>> \in Seq(Calm) /\ <<e>> # <<>> /\ Head(<<e>>) = e /\ Tail(<<e>>) = <<>>
      BY <1>1 DEF e
    <3>3. QED
      BY <2>1, <3>1, <3>2 DEF e
  <2>2. CASE Programs[n] # "echo"
    <3> DEFINE e == <<Local("checked")>>
    <3>1. Answered(n) = <<Checks>> \o e
      BY <2>2 DEF Answered, tinymcu_uart_rx_parity_error, Checks
    <3>2. e \in Seq(Calm)
      BY <1>1
    <3> HIDE DEF e
    <3> DEFINE f == <<Checks>> \o e
    <3>3. f \in Seq(Calm) /\ f # <<>> /\ Head(f) = Checks /\ Tail(f) = e
      BY <1>1, <3>2, FirstStatement
    <3>4. QED
      BY <2>2, <3>1, <3>3 DEF e
  <2>3. QED
    BY <2>1, <2>2
<1>4. /\ Taking(n) \in Seq(Calm) /\ Taking(n) # <<>> /\ Head(Taking(n)) = Takes
      /\ Tail(Taking(n)) = Answered(n)
  BY <1>1, <1>3, FirstStatement DEF Taking
<1>5. /\ Waiting(n) \in Seq(Calm) /\ Waiting(n) # <<>> /\ Head(Waiting(n)) = Waits
      /\ Tail(Waiting(n)) = Taking(n)
  BY <1>1, <1>4, FirstStatement DEF Waiting
<1>6. /\ Returning(n) \in Seq(Calm) /\ Returning(n) # <<>> /\ Head(Returning(n)) = Return
      /\ Tail(Returning(n)) = Waiting(n)
  BY <1>1, <1>5, FirstStatement DEF Returning
<1>7. ASSUME NEW c \in Bits
      PROVE  /\ Putting(n, c) # <<>> /\ Head(Putting(n, c)) = Assign("uart", "TX_DATA", c)
             /\ Tail(Putting(n, c)) = Returning(n)
             /\ Awaiting(n, c) # <<>> /\ Head(Awaiting(n, c)) = Awaits
             /\ Tail(Awaiting(n, c)) = Putting(n, c)
  <2> DEFINE s == Assign("uart", "TX_DATA", c)
  <2>1. s \in Stmts /\ Awaits \in Stmts
    BY <1>1, <1>2 DEF Sends
  <2>2. Returning(n) \in Seq(Stmts)
    BY <1>2, <1>6
  <2> HIDE DEF s
  <2>3. /\ Putting(n, c) = <<s>> \o Returning(n)
        /\ Awaiting(n, c) = <<Awaits>> \o Putting(n, c)
    BY DEF Putting, Awaiting, s
  <2> DEFINE p == Putting(n, c)
  <2> HIDE DEF p
  <2>4. p \in Seq(Stmts) /\ p # <<>> /\ Head(p) = s /\ Tail(p) = Returning(n)
    BY <2>1, <2>2, <2>3, FirstStatement DEF p
  <2>5. /\ Awaiting(n, c) # <<>> /\ Head(Awaiting(n, c)) = Awaits /\ Tail(Awaiting(n, c)) = p
    BY <2>1, <2>3, <2>4, FirstStatement DEF p
  <2>6. QED
    BY <2>4, <2>5 DEF p, s
<1>8. QED
  BY <1>3, <1>4, <1>5, <1>6, <1>7

\* The two programs are made of them.
LEMMA TalkLoop ==
  ASSUME link \in Links, NEW n \in Node, Programs[n] \in {"ping", "echo"}
  PROVE  /\ Rest(n) = IF Programs[n] = "echo" THEN Waiting(n) ELSE <<Local("next")>>
         /\ \A ret : (Programs[n] = "echo" => ret \in Byte) =>
              \A c \in Continuations(n, ret) : \E d \in Byte : c = Awaiting(n, d)
<1> DEFINE w == <<Waits>>
           k == <<Takes>>
           e == Answered(n)
           r == <<Return>>
           a == <<Awaits>>
<1>1. tinymcu_uart_getc = w \o k
  BY PairIs DEF tinymcu_uart_getc, Waits, Takes
<1>2. Calm \subseteq Stmts /\ e \in Seq(Calm) /\ Waits \in Calm /\ Takes \in Calm
      /\ Return \in Calm /\ Awaits \in Calm
  BY TalkIs DEF Stmts, Calm, Loops, Gets, Locals, Return
<1>3. w \in Seq(Stmts) /\ k \in Seq(Stmts) /\ r \in Seq(Stmts) /\ a \in Seq(Stmts) /\ e \in Seq(Stmts)
  <2> HIDE DEF Stmts, Calm
  <2>1. QED
    BY <1>2
<1> HIDE DEF w, k, e, r, a
<1>4. ASSUME NEW x \in Seq(Stmts), NEW y \in Seq(Stmts), NEW z \in Seq(Stmts)
      PROVE  x \o y \in Seq(Stmts) /\ (x \o y) \o z = x \o (y \o z)
  BY ConcatAssociative, ConcatProperties
<1>5. tinymcu_uart_getc \o e = Waiting(n) /\ tinymcu_uart_getc \in Seq(Stmts)
  BY <1>1, <1>3, <1>4 DEF Waiting, Taking, w, k, e
<1>6. ASSUME NEW d \in Byte
      PROVE  (tinymcu_uart_putc(d) \o tinymcu_uart_getc) \o e = Awaiting(n, d)
  <2> DEFINE s == <<Assign("uart", "TX_DATA", d)>>
  <2>1. tinymcu_uart_putc(d) = a \o (s \o r)
    BY TripleIs DEF tinymcu_uart_putc, Awaits, a, r
  <2>2. Assign("uart", "TX_DATA", d) \in Stmts
    BY ByteIs DEF Stmts, Sends
  <2>3. s \in Seq(Stmts)
    <3> HIDE DEF Stmts
    <3>1. QED
      BY <2>2
  <2> HIDE DEF s
  <2> DEFINE g == tinymcu_uart_getc
  <2> HIDE DEF g
  <2>4. g \in Seq(Stmts)
    BY <1>5 DEF g
  <2> DEFINE b == s \o r
             l == a \o b
             q == g \o e
  <2>5. /\ a \in Seq(Stmts) /\ r \in Seq(Stmts) /\ e \in Seq(Stmts)
        /\ b \in Seq(Stmts) /\ l \in Seq(Stmts) /\ q \in Seq(Stmts)
    BY <1>3, <1>4, <1>5, <2>3 DEF g
  <2>6. b \o q = s \o (r \o q)
    <3> HIDE DEF q
    <3>1. (s \o r) \o q = s \o (r \o q)
      BY <2>3, <2>5, ConcatAssociative
    <3>2. QED
      BY <3>1
  <2> HIDE DEF b
  <2>7. l \o q = a \o (b \o q)
    <3> HIDE DEF q
    <3>1. (a \o b) \o q = a \o (b \o q)
      BY <2>5, ConcatAssociative
    <3>2. QED
      BY <3>1
  <2> HIDE DEF l
  <2>8. (l \o g) \o e = l \o (g \o e)
    <3>1. l \in Seq(Stmts) /\ e \in Seq(Stmts)
      BY <2>5
    <3>2. QED
      BY <2>4, <3>1, ConcatAssociative
  <2>9. ((a \o (s \o r)) \o g) \o e = a \o (s \o (r \o (g \o e)))
    BY <2>6, <2>7, <2>8 DEF l, b
  <2>10. QED
    BY <1>5, <2>1, <2>9 DEF Putting, Awaiting, Returning, a, s, r, g
<1>7. CASE Programs[n] = "echo"
  <2>1. Rest(n) = Waiting(n)
    BY <1>5, <1>7 DEF Rest, Answered, e
  <2>2. ASSUME NEW ret, ret \in Byte, NEW c \in Continuations(n, ret)
        PROVE  c = Awaiting(n, ret)
    <3>1. c = echo_loop(ret)
      BY <1>7, <2>2 DEF Continuations
    <3>2. c = (tinymcu_uart_putc(ret) \o tinymcu_uart_getc) \o e
      BY <1>7, <3>1 DEF echo_loop, Answered, e
    <3>3. QED
      BY <1>6, <2>2, <3>2
  <2>3. QED
    BY <1>7, <2>1, <2>2
<1>8. CASE Programs[n] = "ping"
  <2>1. Rest(n) = <<Local("next")>>
    BY <1>8 DEF Rest
  <2>2. ASSUME NEW ret, NEW c \in Continuations(n, ret)
        PROVE  \E d \in Byte : c = Awaiting(n, d)
    <3>1. PICK d \in Bytes(framing) : c = ping_loop(d)
      BY <1>8, <2>2 DEF Continuations
    <3> DEFINE p == tinymcu_uart_putc(d) \o tinymcu_uart_getc
               f == tinymcu_uart_rx_parity_error
               l == <<Local("checked")>>
    <3>2. c = (p \o f) \o l /\ e = f \o l
      BY <1>8, <3>1 DEF ping_loop, Answered, e
    <3>3. p \in Seq(Stmts) /\ f \in Seq(Stmts) /\ l \in Seq(Stmts)
      <4>1. d \in Bits
        BY <3>1, ByteIs
      <4>2. tinymcu_uart_putc(d) \in Seq(Stmts)
        BY <4>1, PutcWhole DEF Whole, Polite
      <4>3. f \in Seq(Calm) /\ l \in Seq(Calm)
        BY CalmPieces
      <4> HIDE DEF Stmts, Calm, f, l
      <4>4. QED
        BY <1>2, <1>4, <1>5, <4>2, <4>3
    <3> HIDE DEF p, f, l
    <3>4. c = p \o e
      BY <1>4, <3>2, <3>3
    <3>5. d \in Byte
      BY <3>1, ByteIs
    <3>6. QED
      BY <1>6, <3>4, <3>5 DEF p
  <2>3. QED
    BY <1>8, <2>1, <2>2
<1>9. QED
  BY <1>7, <1>8

\* Where main is: in init, at the choice of the next byte, or in the loop.
TalkInv(n, th) ==
  /\ \/ th.code = <<SetConfig>> \o (<<SetBaud>> \o Rest(n))
     \/ th.code = <<SetBaud>> \o Rest(n)
     \/ Programs[n] = "ping" /\ th.code \in {<<Local("next")>>, <<Local("checked")>>}
     \/ th.code \in {Answered(n), Taking(n), Waiting(n), Returning(n)}
     \/ \E c \in Byte : th.code \in {Awaiting(n, c), Putting(n, c)}
  /\ Head(th.code) = Local("echo") => th.ret \in Byte
\* It is the other's turn: main waits for a byte, or will with its next calls.
Passive(n, s) == s \in {Return, Waits, Takes}
                 \/ (Programs[n] = "echo" /\ s \in {SetConfig, SetBaud})
\* What a clock does to main, and what main asks of the UART u.
TalkMove(n, th, m, req, u) ==
  LET s == Head(th.code)
      r == Head(m.code)
  IN  /\ TalkInv(n, m)
      /\ Writes(req, "uart", "TX_DATA") =>
           ~Passive(n, s) /\ Passive(n, r) /\ r # Takes /\ req.data \in Byte
      /\ Reads(req, "uart", "RX_DATA") => s = Takes /\ ~Passive(n, r)
      /\ ~Writes(req, "uart", "TX_DATA") /\ ~Reads(req, "uart", "RX_DATA") =>
           (Passive(n, r) <=> Passive(n, s)) /\ (s = Takes => r = Takes)
      /\ r = Takes => s = Takes \/ Ready(u)

LEMMA TalkHeads ==
  ASSUME NEW n
  PROVE  /\ Passive(n, Return) /\ Passive(n, Waits) /\ Passive(n, Takes)
         /\ Return # Takes /\ Waits # Takes
         /\ \A s \in {Awaits, Checks, Local("echo"), Local("checked"), Local("next")} :
              ~Passive(n, s) /\ s # Takes
         /\ \A c : ~Passive(n, Assign("uart", "TX_DATA", c)) /\ Assign("uart", "TX_DATA", c) # Takes
         /\ \A s \in {SetConfig, SetBaud} : s # Takes /\ (Passive(n, s) <=> Programs[n] = "echo")
         /\ \A s \in {Return, Waits, Takes, Awaits, Checks, SetConfig, SetBaud, Local("checked"),
                      Local("next")} : s # Local("echo")
         /\ \A c : Assign("uart", "TX_DATA", c) # Local("echo")
<1>1. /\ Awaits.op = "whileSet" /\ Waits.op = "whileClear"
      /\ Takes.op = "get" /\ Takes.reg = "RX_DATA" /\ Checks.op = "get" /\ Checks.reg = "STATUS"
      /\ Return = Local("return")
      /\ SetConfig.op = "assign" /\ SetConfig.reg = "CONFIG"
      /\ SetBaud.op = "assign" /\ SetBaud.reg = "BAUDRATE"
  BY DEF Awaits, Waits, Takes, Checks, Return, SetConfig, SetBaud, WhileSet, WhileClear, Get, Assign
<1>2. /\ \A x : Local(x).op = "local" /\ Local(x).name = x
      /\ \A c : Assign("uart", "TX_DATA", c).op = "assign" /\ Assign("uart", "TX_DATA", c).reg = "TX_DATA"
  BY DEF Local, Assign
<1>3. \A s \in {Awaits, Checks, Local("echo"), Local("checked"), Local("next")} :
        ~Passive(n, s) /\ s # Takes
  BY <1>1, <1>2 DEF Passive
<1>4. \A c : /\ ~Passive(n, Assign("uart", "TX_DATA", c)) /\ Assign("uart", "TX_DATA", c) # Takes
             /\ Assign("uart", "TX_DATA", c) # Local("echo")
  BY <1>1, <1>2 DEF Passive
<1>5. \A s \in {SetConfig, SetBaud} : s # Takes /\ (Passive(n, s) <=> Programs[n] = "echo")
  BY <1>1, <1>2 DEF Passive
<1>6. \A s \in {Return, Waits, Takes, Awaits, Checks, SetConfig, SetBaud, Local("checked"),
                Local("next")} : s # Local("echo")
  BY <1>1, <1>2
<1>7. Passive(n, Return) /\ Passive(n, Waits) /\ Passive(n, Takes) /\ Return # Takes /\ Waits # Takes
  BY <1>1, <1>2 DEF Passive
<1>8. QED
  BY <1>3, <1>4, <1>5, <1>6, <1>7

\* A clock in which main stays where it is.
LEMMA TalkStays ==
  ASSUME NEW n, NEW th, NEW m, NEW req, NEW u, TalkInv(n, th), m = th,
         ~Writes(req, "uart", "TX_DATA"), ~Reads(req, "uart", "RX_DATA")
  PROVE  TalkMove(n, th, m, req, u)
  BY DEF TalkMove

\* A clock in which main executes a statement.
LEMMA TalkActs ==
  ASSUME link \in Links, NEW n \in Node, Programs[n] \in {"ping", "echo"},
         NEW th, ThreadShape(th), th.ret \in Bits, TalkInv(n, th),
         NEW u, u.RX_DATA \in Byte, ReadyType(u),
         NEW req, req = Request(th), NEW word,
         req.dev = "uart" => word = UartRead(u, req.reg),
         NEW m, NEW t, t = Stepped(th, word), GoesOn(n, t, m)
  PROVE  /\ ThreadShape(t) /\ Head(th.code).op \notin {"csrs", "csrc"}
         /\ TalkMove(n, th, m, req, u)
<1> DEFINE s == Head(th.code)
<1>1. ASSUME t = Behind(th, th.ret) \/ t = Behind(th, word \cap Word32)
      PROVE  ThreadShape(t) /\ t.code = Tail(th.code)
  BY <1>1 DEF Behind, ThreadShape
<1>2. CASE th.code = <<SetConfig>> \o (<<SetBaud>> \o Rest(n))
  <2>1. /\ th.code # <<>> /\ s = SetConfig /\ Tail(th.code) = <<SetBaud>> \o Rest(n)
        /\ Tail(th.code) # <<>> /\ Head(Tail(th.code)) = SetBaud
    BY <1>2, StartIs
  <2>2. s.op = "assign" /\ s.dev = "uart" /\ s.reg = "CONFIG"
    BY <2>1 DEF SetConfig, Assign
  <2>3. t = Behind(th, th.ret) /\ req = WriteReq("uart", "CONFIG", s.val)
    BY <2>1, <2>2, SteppedOn, RequestIs
  <2>4. m = t /\ t.code = <<SetBaud>> \o Rest(n) /\ Head(m.code) = SetBaud
    BY <1>1, <2>1, <2>3 DEF GoesOn
  <2>5. TalkInv(n, m)
    BY <2>4, TalkHeads DEF TalkInv
  <2>6. ~Writes(req, "uart", "TX_DATA") /\ ~Reads(req, "uart", "RX_DATA")
    BY <2>3 DEF WriteReq, Writes, Reads
  <2>7. QED
    BY <1>1, <2>1, <2>2, <2>3, <2>4, <2>5, <2>6, TalkHeads DEF TalkMove
<1>3. CASE th.code = <<SetBaud>> \o Rest(n)
  <2>1. th.code # <<>> /\ s = SetBaud /\ Tail(th.code) = Rest(n)
    BY <1>3, StartIs
  <2>2. s.op = "assign" /\ s.dev = "uart" /\ s.reg = "BAUDRATE"
    BY <2>1 DEF SetBaud, Assign
  <2>3. t = Behind(th, th.ret) /\ req = WriteReq("uart", "BAUDRATE", s.val)
    BY <2>1, <2>2, SteppedOn, RequestIs
  <2>4. Rest(n) # <<>> /\ Head(Rest(n)) = IF Programs[n] = "echo" THEN Waits ELSE Local("next")
    <3>1. ASSUME NEW x PROVE <<x>> # <<>> /\ Head(<<x>>) = x
      OBVIOUS
    <3>2. QED
      BY <3>1, TalkLoop, TalkIs
  <2>5. m = t /\ t.code = Rest(n)
    BY <1>1, <2>1, <2>3, <2>4 DEF GoesOn
  <2>6. TalkInv(n, m)
    <3>1. CASE Programs[n] = "echo"
      BY <2>4, <2>5, <3>1, TalkLoop, TalkHeads DEF TalkInv
    <3>2. CASE Programs[n] = "ping"
      BY <2>4, <2>5, <3>2, TalkLoop, TalkHeads DEF TalkInv
    <3>3. QED
      BY <3>1, <3>2
  <2>7. ~Writes(req, "uart", "TX_DATA") /\ ~Reads(req, "uart", "RX_DATA")
    BY <2>3 DEF WriteReq, Writes, Reads
  <2>8. QED
    BY <1>1, <2>1, <2>2, <2>3, <2>4, <2>5, <2>6, <2>7, TalkHeads DEF TalkMove
\* Behind its last statement main makes the next call.
<1>4. ASSUME th.code # <<>>, Tail(th.code) = <<>>,
             s \in {Local("next"), Local("checked"), Local("echo")},
             Programs[n] = "echo" => th.ret \in Byte
      PROVE  /\ ThreadShape(t) /\ s.op \notin {"csrs", "csrc"}
             /\ TalkMove(n, th, m, req, u)
  <2>1. s.op = "local"
    BY <1>4 DEF Local
  <2>2. t = Behind(th, th.ret) /\ req = NoReq
    BY <1>4, <2>1, SteppedOn, RequestIs DEF BusOps
  <2>3. t.code = <<>> /\ t.ret = th.ret
    BY <1>4, <2>2 DEF Behind
  <2>4. PICK c \in Continuations(n, t.ret) : m = Call(t, c)
    BY <2>3 DEF GoesOn
  <2>5. PICK d \in Byte : c = Awaiting(n, d)
    BY <1>4, <2>3, <2>4, TalkLoop
  <2>6. m.code = Awaiting(n, d) /\ Head(m.code) = Awaits
    BY <1>1, <2>2, <2>4, <2>5, CalledShape, ByteIs, TalkIs
  <2>7. TalkInv(n, m)
    BY <2>5, <2>6, TalkHeads DEF TalkInv
  <2>8. ~Writes(req, "uart", "TX_DATA") /\ ~Reads(req, "uart", "RX_DATA")
    BY <2>2 DEF NoReq, Writes, Reads
  <2>9. QED
    BY <1>1, <1>4, <2>1, <2>2, <2>6, <2>7, <2>8, TalkHeads DEF TalkMove
<1>5. CASE Programs[n] = "ping" /\ th.code \in {<<Local("next")>>, <<Local("checked")>>}
  <2>1. th.code # <<>> /\ Tail(th.code) = <<>> /\ s \in {Local("next"), Local("checked")}
    <3>1. ASSUME NEW x PROVE <<x>> # <<>> /\ Head(<<x>>) = x /\ Tail(<<x>>) = <<>>
      OBVIOUS
    <3>2. QED
      BY <1>5, <3>1
  <2>2. QED
    BY <1>4, <1>5, <2>1
<1>6. CASE th.code = Answered(n)
  <2>1. CASE Programs[n] = "echo"
    <3>1. th.code # <<>> /\ Tail(th.code) = <<>> /\ s = Local("echo")
      BY <1>6, <2>1, TalkIs
    <3>2. QED
      BY <1>4, <3>1 DEF TalkInv
  <2>2. CASE Programs[n] = "ping"
    <3>1. th.code # <<>> /\ Tail(th.code) = <<Local("checked")>> /\ s = Checks
      BY <1>6, <2>2, TalkIs
    <3>2. s.op = "get" /\ s.dev = "uart" /\ s.reg = "STATUS"
      BY <3>1 DEF Checks, Get
    <3>3. req = ReadReq("uart", "STATUS")
      BY <3>1, <3>2, RequestIs DEF BusOps
    <3>4. t = Behind(th, word \cap s.mask)
      BY <3>2, SteppedGet
    <3>5. ThreadShape(t) /\ t.code = <<Local("checked")>>
      BY <3>1, <3>4 DEF Behind, ThreadShape
    <3>6. m = t /\ Head(m.code) = Local("checked")
      BY <3>5 DEF GoesOn
    <3>7. TalkInv(n, m)
      BY <2>2, <3>5, <3>6, TalkHeads DEF TalkInv
    <3>8. ~Writes(req, "uart", "TX_DATA") /\ ~Reads(req, "uart", "RX_DATA")
      BY <3>3 DEF ReadReq, Writes, Reads
    <3>9. QED
      BY <3>1, <3>2, <3>5, <3>6, <3>7, <3>8, TalkHeads DEF TalkMove
  <2>3. QED
    BY <2>1, <2>2
<1>7. ASSUME th.code # <<>>, s \in Stmts
      PROVE  /\ ThreadShape(t) /\ s.op \notin {"csrs", "csrc"}
             /\ s \in Sends \cup Locals => t = Behind(th, th.ret)
             /\ s \in Sends => req = WriteReq("uart", "TX_DATA", s.val)
             /\ s \notin Sends => ~Writes(req, "uart", "TX_DATA")
             /\ Reads(req, "uart", "RX_DATA") <=> s = Takes
             /\ s = Takes => t = Behind(th, word \cap Word32)
             /\ s = Awaits => t = IF word \cap {0} # {} THEN th ELSE Behind(th, th.ret)
             /\ s = Waits => /\ req = ReadReq("uart", "STATUS")
                             /\ t = IF word \cap {1} = {} THEN th ELSE Behind(th, th.ret)
  BY <1>7, StatementIs
<1>8. Waits \in Stmts /\ Takes \in Stmts /\ Awaits \in Stmts /\ Return \in Stmts /\ Return \in Locals
      /\ Waits \notin Sends /\ Takes \notin Sends /\ Awaits \notin Sends /\ Return \notin Sends
  <2>1. Waits \in Calm /\ Takes \in Calm /\ Awaits \in Calm /\ Return \in Calm /\ Return \in Locals
    BY DEF Calm, Loops, Gets, Locals, Return
  <2>2. QED
    BY <2>1, CalmNotSends DEF Stmts
<1>9. CASE th.code = Taking(n)
  <2>1. th.code # <<>> /\ s = Takes /\ Tail(th.code) = Answered(n)
    BY <1>9, TalkIs
  <2>2. /\ ThreadShape(t) /\ s.op \notin {"csrs", "csrc"}
        /\ t = Behind(th, word \cap Word32)
        /\ ~Writes(req, "uart", "TX_DATA") /\ Reads(req, "uart", "RX_DATA")
    BY <1>7, <1>8, <2>1
  <2>3. t.code = Answered(n) /\ t.ret = word \cap Word32
    BY <2>1, <2>2 DEF Behind
  <2>4. m = t /\ Head(m.code) = IF Programs[n] = "echo" THEN Local("echo") ELSE Checks
    BY <2>3, TalkIs DEF GoesOn
  <2>5. t.ret \in Byte
    <3>1. word = u.RX_DATA
      BY <2>2 DEF Reads, UartRead
    <3>2. QED
      BY <2>3, <3>1, ByteIs
  <2>6. TalkInv(n, m)
    BY <2>3, <2>4, <2>5 DEF TalkInv
  <2>7. ~Passive(n, Head(m.code)) /\ Head(m.code) # Takes
    BY <2>4, TalkHeads
  <2>8. QED
    BY <2>1, <2>2, <2>6, <2>7 DEF TalkMove
<1>10. CASE th.code = Waiting(n)
  <2>1. th.code # <<>> /\ s = Waits /\ Tail(th.code) = Taking(n)
    BY <1>10, TalkIs
  <2>2. /\ ThreadShape(t) /\ s.op \notin {"csrs", "csrc"}
        /\ req = ReadReq("uart", "STATUS")
        /\ t = IF word \cap {1} = {} THEN th ELSE Behind(th, th.ret)
        /\ ~Writes(req, "uart", "TX_DATA") /\ ~Reads(req, "uart", "RX_DATA")
    BY <1>7, <1>8, <2>1, TalkHeads
  <2>3. CASE word \cap {1} = {}
    <3>1. m = th
      BY <2>1, <2>2, <2>3 DEF GoesOn
    <3>2. QED
      BY <2>2, <3>1, TalkStays
  <2>4. CASE word \cap {1} # {}
    <3>1. t.code = Taking(n)
      BY <2>1, <2>2, <2>4 DEF Behind
    <3>2. m = t /\ Head(m.code) = Takes
      BY <3>1, TalkIs DEF GoesOn
    <3>3. Ready(u)
      <4>1. word = UartStatus(u)
        BY <2>2 DEF ReadReq, UartRead
      <4>2. QED
        BY <2>4, <4>1 DEF UartStatus, TINYMCU_UART_STATUS_TX_ACTIVE, TINYMCU_UART_STATUS_PARITY_ERROR,
           Ready, ReadyType
    <3>4. TalkInv(n, m)
      BY <3>1, <3>2, TalkHeads DEF TalkInv
    <3>5. QED
      BY <2>1, <2>2, <3>2, <3>3, <3>4, TalkHeads DEF TalkMove
  <2>5. QED
    BY <2>3, <2>4
<1>11. CASE th.code = Returning(n)
  <2>1. th.code # <<>> /\ s = Return /\ Tail(th.code) = Waiting(n)
    BY <1>11, TalkIs
  <2>2. /\ ThreadShape(t) /\ s.op \notin {"csrs", "csrc"} /\ t = Behind(th, th.ret)
        /\ ~Writes(req, "uart", "TX_DATA") /\ ~Reads(req, "uart", "RX_DATA")
    BY <1>7, <1>8, <2>1, TalkHeads
  <2>3. t.code = Waiting(n)
    BY <2>1, <2>2 DEF Behind
  <2>4. m = t /\ Head(m.code) = Waits
    BY <2>3, TalkIs DEF GoesOn
  <2>5. TalkInv(n, m)
    BY <2>3, <2>4, TalkHeads DEF TalkInv
  <2>6. QED
    BY <2>1, <2>2, <2>4, <2>5, TalkHeads DEF TalkMove
<1>12. ASSUME NEW c \in Byte, th.code = Awaiting(n, c)
       PROVE  /\ ThreadShape(t) /\ s.op \notin {"csrs", "csrc"}
              /\ TalkMove(n, th, m, req, u)
  <2>1. th.code # <<>> /\ s = Awaits /\ Tail(th.code) = Putting(n, c)
    BY <1>12, TalkIs, ByteIs
  <2>2. /\ ThreadShape(t) /\ s.op \notin {"csrs", "csrc"}
        /\ t = IF word \cap {0} # {} THEN th ELSE Behind(th, th.ret)
        /\ ~Writes(req, "uart", "TX_DATA") /\ ~Reads(req, "uart", "RX_DATA")
    BY <1>7, <1>8, <2>1, TalkHeads
  <2>3. CASE word \cap {0} # {}
    <3>1. m = th
      BY <2>1, <2>2, <2>3 DEF GoesOn
    <3>2. QED
      BY <2>2, <3>1, TalkStays
  <2>4. CASE word \cap {0} = {}
    <3>1. t.code = Putting(n, c)
      BY <2>1, <2>2, <2>4 DEF Behind
    <3>2. m = t /\ Head(m.code) = Assign("uart", "TX_DATA", c)
      BY <3>1, TalkIs, ByteIs DEF GoesOn
    <3>3. TalkInv(n, m)
      BY <3>1, <3>2, TalkHeads DEF TalkInv
    <3>4. QED
      BY <2>1, <2>2, <3>2, <3>3, TalkHeads DEF TalkMove
  <2>5. QED
    BY <2>3, <2>4
<1>13. ASSUME NEW c \in Byte, th.code = Putting(n, c)
       PROVE  /\ ThreadShape(t) /\ s.op \notin {"csrs", "csrc"}
              /\ TalkMove(n, th, m, req, u)
  <2>1. th.code # <<>> /\ s = Assign("uart", "TX_DATA", c) /\ Tail(th.code) = Returning(n)
        /\ c \in Bits
    BY <1>13, TalkIs, ByteIs
  <2>2. s \in Sends /\ s \in Stmts /\ s.val = c
    BY <2>1 DEF Sends, Stmts, Assign
  <2>3. /\ ThreadShape(t) /\ s.op \notin {"csrs", "csrc"} /\ t = Behind(th, th.ret)
        /\ req = WriteReq("uart", "TX_DATA", c)
    BY <1>7, <2>1, <2>2
  <2>4. t.code = Returning(n)
    BY <2>1, <2>3 DEF Behind
  <2>5. m = t /\ Head(m.code) = Return
    BY <2>4, TalkIs DEF GoesOn
  <2>6. TalkInv(n, m)
    BY <2>4, <2>5, TalkHeads DEF TalkInv
  <2>7. Writes(req, "uart", "TX_DATA") /\ ~Reads(req, "uart", "RX_DATA") /\ req.data = c
    BY <2>3 DEF WriteReq, Writes, Reads
  <2>8. QED
    BY <2>1, <2>3, <2>5, <2>6, <2>7, TalkHeads DEF TalkMove
<1>14. QED
  BY <1>2, <1>3, <1>5, <1>6, <1>9, <1>10, <1>11, <1>12, <1>13 DEF TalkInv

LEMMA TalkStep ==
  ASSUME link \in Links, NEW n \in Node, Programs[n] \in {"ping", "echo"},
         HartShape(hart[n]), MainInv(n, hart[n], uart[n]), ReadyType(uart[n]),
         TalkInv(n, hart[n].main), uart[n].RX_DATA \in Byte,
         NEW g, NEW req, <<g, req>> \in Moves(n)
  PROVE  TalkMove(n, hart[n].main, g.main, req, uart[n])
<1> DEFINE h == hart[n]
           u == uart[n]
           th == h.main
           w == Reading(n, req)
           t == Stepped(th, w)
<1>1. Quiet(h) /\ th.ret \in Bits /\ ThreadShape(th)
  BY DEF MainInv, Unset, HalfSet, Serves, HartShape
<1>2. \/ req = NoReq /\ Stays(h, g)
      \/ req = NoReq /\ Traps(h, g, mip(n), interrupt_handler)
      \/ req = NoReq /\ Mrets(h, g)
      \/ Acts(n, g, req)
  BY MoveIs
<1>3. CASE req = NoReq /\ Stays(h, g)
  <2>1. ~Writes(req, "uart", "TX_DATA") /\ ~Reads(req, "uart", "RX_DATA") /\ g.main = th
    BY <1>3 DEF Stays, NoReq, Writes, Reads
  <2> HIDE DEF u
  <2>2. QED
    BY <2>1, TalkStays
<1>4. CASE Traps(h, g, mip(n), interrupt_handler)
  BY <1>1, <1>4, TrapsIs DEF Quiet
<1>5. CASE Mrets(h, g)
  BY <1>1, <1>5, MretsIs DEF Quiet
<1>6. CASE Acts(n, g, req)
  <2>1. th.code # <<>> /\ req = Request(th) /\ Running(h) = th
    BY <1>1, <1>6 DEF Acts, CanExecute, Done, Running, Quiet
  <2>2. ThreadShape(t)
    <3>1. CASE Unset(n, h, u) \/ HalfSet(n, h, u)
      <4>1. Head(th.code) \in {SetConfig, SetBaud}
        BY <3>1, StartIs DEF Unset, HalfSet
      <4>2. Head(th.code).op = "assign"
        BY <4>1 DEF SetConfig, SetBaud, Assign
      <4> HIDE DEF th, w
      <4>3. QED
        BY <1>1, <4>2, SteppedShape
    <3>2. CASE Serves(n, h, u)
      <4>1. Polite(th.code)
        BY <3>2 DEF Serves
      <4>2. Head(th.code) \in Stmts
        BY <2>1, <4>1, PoliteTail
      <4> HIDE DEF th, w
      <4>3. QED
        BY <1>1, <2>1, <4>2, StatementIs
    <3>3. QED
      BY <3>1, <3>2 DEF MainInv
  <2>3. GoesOn(n, t, g.main)
    BY <1>1, <1>6, <2>1, <2>2, ActsIs DEF Quiet
  <2>4. req.dev = "uart" => w = UartRead(u, req.reg)
    BY DEF Reading
  <2> HIDE DEF w, u, th
  <2> DEFINE m == g.main
  <2> HIDE DEF m
  <2>5. TalkInv(n, th) /\ u.RX_DATA \in Byte /\ ReadyType(u)
    BY DEF th, u
  <2>6. TalkMove(n, th, m, req, u)
    BY <1>1, <2>1, <2>3, <2>4, <2>5, TalkActs DEF m
  <2>7. QED
    BY <2>6 DEF m, th, u
<1>7. QED
  BY <1>2, <1>3, <1>4, <1>5, <1>6

\* A register holds a byte, and a receiver counts no further than its width.
RangeInv(R) ==
  /\ R.rx_data \in Byte /\ R.RX_DATA \in Byte
  /\ R.rx.state = "Data" => R.rx.n < Framed.width

LEMMA RangeStep ==
  ASSUME link \in Links, CLKS_PER_BIT >= 10, NEW S, NEW R, NEW R2, WireInv(S, R, Framed),
         RxClocks(S, R, R2, Framed), RangeInv(R),
         R2.RX_DATA = IF RxDelivers(R) THEN R.rx_data ELSE R.RX_DATA
  PROVE  RangeInv(R2)
<1> DEFINE w == Framed.width
           r == R.rx
           q == R2.rx
<1>1. /\ w \in Nat /\ w > 0 /\ Framed \in Frames /\ Framed.baud \in Nat /\ Framed.baud >= 10
      /\ TxInv(S, Framed) /\ LineInv(S, R) /\ LockInv(S, R, Framed) /\ RxInv(R, Framed)
  BY ByteIs, FramedIs DEF WireInv, Frames
<1>2. r \in Engines /\ r.n \in Nat /\ r.counter \in Nat /\ (r.state # "Idle" => r.frame = Framed)
  BY <1>1 DEF RxInv, Engines
<1>3. R2.RX_DATA \in Byte
  BY DEF RangeInv
<1>4. R2.rx_data \in Byte
  <2>1. R2.rx_data = RxShifted(R) /\ R.rx_data \in Byte
    BY DEF RxClocks, RangeInv
  <2>2. CASE r.state = "Data"
    <3>1. r.n \in 0..(w - 1)
      BY <1>1, <1>2, <2>2 DEF RangeInv
    <3>2. QED
      BY <2>1, <3>1 DEF RxShifted, Byte
  <2>3. CASE r.state # "Data"
    BY <2>1, <2>3 DEF RxShifted
  <2>4. QED
    BY <2>2, <2>3
<1>5. ASSUME q.state = "Data" PROVE q.n < w
  <2>1. /\ r.state = "Idle" => q.state \in {"Idle", "Start"}
        /\ r.state = "Start" => (q.state = "Data" /\ q.n = 0) \/ q.state = "Start"
        /\ r.state = "Complete" => q.state = "Idle"
        /\ r.state \in {"Data", "Parity", "Stop"} =>
             \/ q.state = r.state /\ q.n = r.n
             \/ q.state = Follows(r)[1] /\ q.n = Follows(r)[2]
    BY <1>1, RxStep
  <2>2. CASE r.state = "Data"
    <3>1. CASE q.n = r.n
      BY <2>2, <3>1 DEF RangeInv
    <3>2. CASE q.state = Follows(r)[1] /\ q.n = Follows(r)[2]
      <4>1. Follows(r) = BehindData(r, "Stop")
        BY <2>2 DEF Follows
      <4>2. r.n + 1 < w /\ q.n = r.n + 1
        BY <1>2, <1>5, <2>2, <3>2, <4>1 DEF BehindData
      <4>3. QED
        BY <4>2
    <3>3. QED
      BY <2>1, <2>2, <3>1, <3>2
  <2>3. CASE r.state \in {"Parity", "Stop"}
    <3>1. Follows(r)[1] # "Data"
      BY <2>3 DEF Follows, BehindStop
    <3>2. QED
      BY <1>5, <2>1, <2>3, <3>1
  <2>4. CASE r.state = "Start"
    BY <1>1, <1>5, <2>1, <2>4
  <2>5. QED
    BY <1>2, <1>5, <2>1, <2>2, <2>3, <2>4 DEF Engines, States, Timing
<1>6. QED
  BY <1>3, <1>4, <1>5 DEF RangeInv

\* f is what S has sent and the program behind R not read: the byte that R
\* has delivered, or the one on the line, or nothing.
Delivered(S, R) == R.rx.state = "Complete" \/ (R.rx.state = "Idle" /\ S.tx.state # "Start")
Arrived(S, R, f) ==
  IF Delivered(S, R) THEN f = IF Ready(R) THEN <<R.RX_DATA>> ELSE <<>>
  ELSE ~Ready(R) /\ f = <<S.tx_data>>

LEMMA ArrivedStep ==
  ASSUME link \in Links, CLKS_PER_BIT >= 10, NEW S, NEW S2, NEW R, NEW R2,
         WireInv(S, R, Framed), TxClocks(S, S2, Framed), RxClocks(S, R, R2, Framed),
         RangeInv(R), S.tx_data \in Byte, NEW f, Arrived(S, R, f), ReadyType(R),
         R2.RX_DATA = IF RxDelivers(R) THEN R.rx_data ELSE R.RX_DATA,
         NEW peer, R2.rx_ready = RxReady(R, peer),
         Reads(peer, "uart", "RX_DATA") => Ready(R),
         NEW W \in BOOLEAN, NEW d \in Byte, W => f = <<>>,
         IF W THEN S.tx.state = "Idle" /\ S2.tx.state = "Start" /\ S2.tx_data = d
         ELSE S2.tx_data = S.tx_data /\ (S.tx.state = "Idle" => S2.tx.state = "Idle")
  PROVE  /\ W => ~Reads(peer, "uart", "RX_DATA")
         /\ Arrived(S2, R2, IF W THEN <<d>> ELSE IF Reads(peer, "uart", "RX_DATA") THEN <<>> ELSE f)
<1> DEFINE T == Reads(peer, "uart", "RX_DATA")
           e == S.tx
           e2 == S2.tx
           r == R.rx
           q == R2.rx
<1>1. /\ Framed \in Frames /\ Framed.baud \in Nat /\ Framed.baud >= 10
      /\ TxInv(S, Framed) /\ LineInv(S, R) /\ LockInv(S, R, Framed) /\ RxInv(R, Framed)
      /\ BitsInv(S, R, Framed)
  BY FramedIs DEF WireInv, Frames
<1>2. /\ r \in Engines /\ r.counter \in Nat /\ (r.state # "Idle" => r.frame = Framed)
      /\ e \in Engines /\ e.counter \in Nat
      /\ Middle(Framed) \in Nat /\ Middle(Framed) + 6 <= Framed.baud
  BY <1>1, MiddleIs DEF RxInv, TxInv, Engines
<1>3. Ready(R2) <=> RxDelivers(R) \/ (Ready(R) /\ ~T)
  <2>1. R2.rx_ready = (RxDelivers(R) \/ (R.rx_ready /\ ~T))
    BY DEF RxReady
  <2>2. QED
    BY <2>1 DEF Ready, ReadyType
<1>4. RxDelivers(R) => r.state = "Stop" /\ R.rx.counter + 1 >= Framed.baud /\ Follows(r)[1] = "Complete"
  BY <1>2 DEF RxDelivers, BitOver, Follows
<1>5. r.state \in {"Idle", "Complete"} => ~RxDelivers(R)
  BY <1>4
<1>6. CASE Delivered(S, R)
  <2>1. ~RxDelivers(R) /\ f = IF Ready(R) THEN <<R.RX_DATA>> ELSE <<>>
    BY <1>5, <1>6 DEF Arrived, Delivered
  <2>2. R2.RX_DATA = R.RX_DATA /\ (Ready(R2) <=> Ready(R) /\ ~T)
    BY <1>3, <2>1
  <2>3. q.state = "Idle"
    <3>1. CASE r.state = "Complete"
      BY <1>1, <3>1, RxStep
    <3>2. CASE r.state = "Idle" /\ e.state # "Start"
      BY <1>1, <3>2, RxStep
    <3>3. QED
      BY <1>6, <3>1, <3>2 DEF Delivered
  <2>4. CASE W
    <3>1. ~Ready(R) /\ ~T
      <4>1. <<R.RX_DATA>> # <<>>
        OBVIOUS
      <4>2. QED
        BY <2>1, <2>4, <4>1
    <3>2. ~Ready(R2) /\ ~Delivered(S2, R2) /\ S2.tx_data = d
      BY <2>2, <2>3, <2>4, <3>1 DEF Delivered
    <3>3. QED
      BY <2>4, <3>1, <3>2 DEF Arrived
  <2>5. CASE ~W
    <3>1. e2.state # "Start"
      <4>1. e.state # "Start"
        BY <1>1, <1>6 DEF Delivered, LockInv
      <4>2. e.state = "Complete" => e2.state = "Idle"
        BY <1>1, TxStep
      <4>3. e.state \in Timing => e2.state \in {e.state, Follows(e)[1]}
        BY <1>1, TxStep
      <4>4. e.state \in Timing => Follows(e)[1] # "Start"
        BY <1>2, FollowsIs
      <4>5. QED
        BY <1>2, <2>5, <4>1, <4>2, <4>3, <4>4 DEF Engines, States
    <3>2. Delivered(S2, R2)
      BY <2>3, <3>1 DEF Delivered
    <3>3. QED
      BY <2>1, <2>2, <2>5, <3>2 DEF Arrived
  <2>6. QED
    BY <2>4, <2>5
<1>7. CASE ~Delivered(S, R)
  <2>1. ~Ready(R) /\ f = <<S.tx_data>> /\ ~T
    BY <1>7 DEF Arrived
  <2>2. ~W
    <3>1. <<S.tx_data>> # <<>>
      OBVIOUS
    <3>2. QED
      BY <2>1, <3>1
  <2>3. S2.tx_data = S.tx_data
    BY <2>2
  <2>4. CASE RxDelivers(R)
    <3>1. q.state = "Complete"
      <4>1. r.state = "Stop" /\ ~(r.counter + 1 < Framed.baud)
        BY <1>1, <1>2, <1>4, <2>4
      <4>2. QED
        BY <1>1, <1>4, <2>4, <4>1, RxStep
    <3>2. R.rx_data = S.tx_data
      <4>1. \A j \in 0..(Framed.width - 1) : j \in R.rx_data <=> j \in S.tx_data
        BY <1>1, <1>4, <2>4 DEF BitsInv
      <4>2. R.rx_data \subseteq 0..(Framed.width - 1) /\ S.tx_data \subseteq 0..(Framed.width - 1)
        BY DEF RangeInv, Byte
      <4>3. QED
        BY <4>1, <4>2
    <3>3. Ready(R2) /\ R2.RX_DATA = R.rx_data
      BY <1>3, <2>4
    <3>4. QED
      BY <2>1, <2>2, <3>1, <3>2, <3>3 DEF Arrived, Delivered
  <2>5. CASE ~RxDelivers(R)
    <3>1. ~Ready(R2)
      BY <1>3, <2>1, <2>5
    <3>2. ~Delivered(S2, R2)
      <4>1. CASE r.state = "Idle"
        <5>1. e.state = "Start" /\ e.counter <= 3
          BY <1>1, <1>7, <4>1 DEF Delivered, LockInv
        <5>2. e2.state = "Start"
          BY <1>1, <1>2, <5>1, TxStep DEF Timing
        <5>3. q.state \in {"Idle", "Start"}
          BY <1>1, <4>1, RxStep
        <5>4. QED
          BY <5>2, <5>3 DEF Delivered
      <4>2. CASE r.state = "Start"
        <5>1. q.state \in {"Start", "Data"}
          BY <1>1, <4>2, RxStep
        <5>2. QED
          BY <5>1 DEF Delivered
      <4>3. CASE r.state \in {"Data", "Parity", "Stop"}
        <5>1. q.state = r.state \/ (q.state = Follows(r)[1] /\ r.counter + 1 >= Framed.baud)
          BY <1>1, <1>2, <4>3, RxStep
        <5>2. Follows(r)[1] \in {"Data", "Parity", "Stop", "Complete"}
          BY <1>2, <4>3, FollowsIs DEF Timing
        <5>3. Follows(r)[1] = "Complete" => r.state = "Stop" /\ BehindStop(r)[1] = "Complete"
          BY <1>2, <4>3, FollowsIs DEF Timing, Follows
        <5>4. r.counter + 1 >= Framed.baud => BitOver(r)
          BY <1>2, <4>3 DEF BitOver
        <5>5. q.state # "Complete"
          BY <2>5, <4>3, <5>1, <5>3, <5>4 DEF RxDelivers
        <5>6. QED
          BY <4>3, <5>1, <5>2, <5>5 DEF Delivered
      <4>4. QED
        BY <1>2, <1>7, <4>1, <4>2, <4>3 DEF Delivered, Engines, States, Timing
    <3>3. QED
      BY <2>1, <2>2, <2>3, <3>1, <3>2 DEF Arrived
  <2>6. QED
    BY <2>4, <2>5
<1>8. QED
  BY <1>6, <1>7

\* Whose turn it is, of the processors h, the UARTs u and the bytes f under way.
TurnInv(h, u, f) ==
  \A n \in Node :
    LET m == Other[n]
        s == Head(h[n].main.code)
    IN  /\ ~Passive(n, s) => /\ Passive(m, Head(h[m].main.code))
                             /\ f[n] = <<>> /\ f[m] = <<>>
        /\ f[n] # <<>> => f[m] = <<>>
        /\ s = Takes => Ready(u[n])

LEMMA OtherIs ==
  ASSUME NEW n \in Node
  PROVE  Other[n] \in Node /\ Other[Other[n]] = n
BY DEF Node, Other

\* The turn passes on with the byte.
LEMMA TurnStep ==
  ASSUME NEW h, NEW u, NEW f, TurnInv(h, u, f), NEW k, NEW v, NEW f2, NEW req,
         \A n \in Node :
           /\ TalkMove(n, h[n].main, k[n].main, req[n], u[n])
           /\ Ready(u[n]) /\ ~Reads(req[n], "uart", "RX_DATA") => Ready(v[n])
           /\ Ready(u[n]) => f[Other[n]] # <<>>
           /\ f2[n] = IF Writes(req[n], "uart", "TX_DATA") THEN <<req[n].data>>
                      ELSE IF Reads(req[Other[n]], "uart", "RX_DATA") THEN <<>> ELSE f[n]
  PROVE  TurnInv(k, v, f2)
<1> SUFFICES ASSUME NEW n \in Node
             PROVE  LET m == Other[n]
                        s == Head(k[n].main.code)
                    IN  /\ ~Passive(n, s) => /\ Passive(m, Head(k[m].main.code))
                                             /\ f2[n] = <<>> /\ f2[m] = <<>>
                        /\ f2[n] # <<>> => f2[m] = <<>>
                        /\ s = Takes => Ready(v[n])
  BY DEF TurnInv
<1> DEFINE m == Other[n]
           P(i) == Passive(i, Head(h[i].main.code))
           Q(i) == Passive(i, Head(k[i].main.code))
           W(i) == Writes(req[i], "uart", "TX_DATA")
           T(i) == Reads(req[i], "uart", "RX_DATA")
           A(i) == Head(h[i].main.code) = Takes
           B(i) == Head(k[i].main.code) = Takes
<1>1. m \in Node /\ Other[m] = n
  BY OtherIs
<1>2. \A i \in Node : B(i) => Q(i)
  BY TalkHeads
<1>3. ASSUME NEW i \in Node
      PROVE  /\ W(i) => ~P(i) /\ Q(i) /\ ~B(i)
             /\ T(i) => A(i) /\ ~Q(i)
             /\ ~W(i) /\ ~T(i) => (Q(i) <=> P(i)) /\ (A(i) => B(i))
             /\ B(i) => A(i) \/ Ready(u[i])
             /\ Ready(u[i]) /\ ~T(i) => Ready(v[i])
             /\ Ready(u[i]) => f[Other[i]] # <<>>
             /\ f2[i] = IF W(i) THEN <<req[i].data>> ELSE IF T(Other[i]) THEN <<>> ELSE f[i]
             /\ ~P(i) => P(Other[i]) /\ f[i] = <<>> /\ f[Other[i]] = <<>>
             /\ f[i] # <<>> => f[Other[i]] = <<>>
             /\ A(i) => Ready(u[i])
  BY <1>3 DEF TurnInv, TalkMove
<1> HIDE DEF m, P, Q, W, T, A, B
<1>4. ASSUME ~Q(n)
      PROVE  Q(m) /\ f2[n] = <<>> /\ f2[m] = <<>>
  <2>1. ~W(n)
    BY <1>3, <1>4
  <2>2. CASE T(n)
    <3>1. f[m] # <<>> /\ f[n] = <<>>
      BY <1>1, <1>3, <2>2 DEF m
    <3>2. P(m) /\ ~W(m) /\ ~T(m)
      BY <1>1, <1>3, <3>1
    <3>3. QED
      BY <1>1, <1>3, <2>1, <2>2, <3>1, <3>2 DEF m
  <2>3. CASE ~T(n)
    <3>1. P(m) /\ f[n] = <<>> /\ f[m] = <<>>
      BY <1>3, <1>4, <2>1, <2>3 DEF m
    <3>2. ~W(m) /\ ~T(m)
      BY <1>1, <1>3, <3>1
    <3>3. QED
      BY <1>1, <1>3, <2>1, <2>3, <3>1, <3>2 DEF m
  <2>4. QED
    BY <2>2, <2>3
<1>5. ASSUME f2[n] # <<>>
      PROVE  f2[m] = <<>>
  <2>1. CASE W(n)
    <3>1. P(m) /\ f[n] = <<>> /\ f[m] = <<>>
      BY <1>3, <2>1 DEF m
    <3>2. QED
      BY <1>1, <1>3, <3>1
  <2>2. CASE ~W(n)
    <3>1. f[n] # <<>>
      BY <1>3, <1>5, <2>2
    <3>2. f[m] = <<>> /\ P(m)
      BY <1>1, <1>3, <3>1 DEF m
    <3>3. QED
      BY <1>1, <1>3, <3>2
  <2>3. QED
    BY <2>1, <2>2
<1>6. ASSUME B(n)
      PROVE  Ready(v[n])
  BY <1>2, <1>3, <1>6
<1>7. QED
  BY <1>4, <1>5, <1>6 DEF m, Q, B

\* The bytes under way from n, when at most one ever is.
LEMMA FliesIs ==
  ASSUME NEW n \in Node, Listens(Other[n]), NEW req, NEW peer,
         Writes(req, "uart", "TX_DATA") => flight[n] = <<>> /\ ~Reads(peer, "uart", "RX_DATA"),
         Reads(peer, "uart", "RX_DATA") => \E b : flight[n] = <<b>>
  PROVE  Flies(n, req, peer) = IF Writes(req, "uart", "TX_DATA") THEN <<req.data>>
                               ELSE IF Reads(peer, "uart", "RX_DATA") THEN <<>> ELSE flight[n]
<1>1. CASE Writes(req, "uart", "TX_DATA")
  <2>1. Len(<<>>) = 0 /\ 0 < MaxFlight
    BY PairAssumption
  <2>2. Sent(n, req) = Append(<<>>, req.data)
    BY <1>1, <2>1 DEF Sent
  <2>3. Append(<<>>, req.data) = <<req.data>>
    OBVIOUS
  <2>4. QED
    BY <1>1, <2>2, <2>3 DEF Flies
<1>2. CASE ~Writes(req, "uart", "TX_DATA")
  <2>1. Sent(n, req) = flight[n]
    BY <1>2 DEF Sent
  <2>2. CASE Reads(peer, "uart", "RX_DATA")
    <3>1. PICK b : flight[n] = <<b>>
      BY <2>2
    <3>2. <<b>> # <<>> /\ Tail(<<b>>) = <<>>
      OBVIOUS
    <3>3. QED
      BY <1>2, <2>1, <2>2, <3>1, <3>2 DEF Flies
  <2>3. CASE ~Reads(peer, "uart", "RX_DATA")
    BY <1>2, <2>1, <2>3 DEF Flies
  <2>4. QED
    BY <2>2, <2>3
<1>3. QED
  BY <1>1, <1>2

\* A terminal and uart_echo, at a speed the receiver follows, without CTS.
Chats ==
  /\ link.a = "ping" /\ link.b = "echo"
  /\ link.clks >= 10 /\ UART_BIT_CTS_ENABLE \notin link.flow
TalkNode(n, h, u, peer, f) ==
  /\ TalkInv(n, h.main) /\ RangeInv(u) /\ u.tx_data \in Byte /\ Arrived(u, peer, f)
TalkPair ==
  /\ LinesInv
  /\ \A n \in Node : TalkNode(n, hart[n], uart[n], uart[Other[n]], flight[n])
  /\ TurnInv(hart, uart, flight)

LEMMA ChatsIs ==
  ASSUME Chats, link \in Links, NEW n \in Node
  PROVE  /\ Programs[n] \in {"ping", "echo"} /\ Listens(n) /\ CLKS_PER_BIT >= 10
         /\ (n = "a" /\ Programs[n] = "ping") \/ (n = "b" /\ Programs[n] = "echo")
         /\ UART_BIT_CTS_ENABLE \notin Configured
<1>1. Programs["a"] = "ping" /\ Programs["b"] = "echo" /\ CLKS_PER_BIT >= 10
  BY DEF Chats, Programs, CLKS_PER_BIT
<1>2. UART_BIT_CTS_ENABLE \notin Configured
  BY LinkIs DEF Chats, Configured, UART_BIT_CTS_ENABLE
<1>3. QED
  BY <1>1, <1>2 DEF Node, Listens

\* One clock of the transmitter, as the program that writes to it sees it.
LEMMA SendStep ==
  ASSUME link \in Links, UART_BIT_CTS_ENABLE \notin Configured, NEW n \in Node,
         NodeInv(n, hart[n], uart[n]), NEW g, NEW req, <<g, req>> \in Moves(n),
         Writes(req, "uart", "TX_DATA") => req.data \in Byte,
         NEW x, NEW c, NEW v, v = UartClock(uart[n], req, x, c)
  PROVE  IF Writes(req, "uart", "TX_DATA")
         THEN uart[n].tx.state = "Idle" /\ v.tx.state = "Start" /\ v.tx_data = req.data
         ELSE v.tx_data = uart[n].tx_data /\ (uart[n].tx.state = "Idle" => v.tx.state = "Idle")
<1> DEFINE u == uart[n]
<1>1. /\ v.tx = TxNext(u, req, c)
      /\ v.tx_data = IF Accepts(u, req, c) THEN req.data \cap (0..DataBits) ELSE u.tx_data
  BY DEF UartClock
<1>2. u.tx.state = "Idle" => v.tx.state = IF Accepts(u, req, c) THEN "Start" ELSE "Idle"
  BY <1>1 DEF TxNext
<1>3. CASE Writes(req, "uart", "TX_DATA")
  <2>1. Serves(n, hart[n], u) /\ u.tx.state = "Idle"
    BY <1>3, NodeStep
  <2>2. Accepts(u, req, c)
    BY <1>3, <2>1 DEF Accepts, Serves
  <2>3. req.data \cap (0..DataBits) = req.data
    BY <1>3, ByteIs
  <2>4. QED
    BY <1>1, <1>2, <1>3, <2>1, <2>2, <2>3
<1>4. CASE ~Writes(req, "uart", "TX_DATA")
  <2>1. ~Accepts(u, req, c)
    BY <1>4 DEF Accepts
  <2>2. QED
    BY <1>1, <1>2, <1>4, <2>1
<1>5. QED
  BY <1>3, <1>4

\* One clock of what is under way from n.
LEMMA TalkWay ==
  ASSUME TalkPair, Chats, NEW n \in Node, NEW g, NEW req, <<g, req>> \in Moves(n),
         NEW k, NEW peer, <<k, peer>> \in Moves(Other[n]),
         NEW x, NEW c, NEW d, NEW v, NEW w,
         v = UartClock(uart[n], req, x, c),
         w = UartClock(uart[Other[n]], peer, uart[n].tx_o, d)
  PROVE  /\ TalkMove(n, hart[n].main, g.main, req, uart[n])
         /\ RangeInv(w) /\ v.tx_data \in Byte
         /\ Ready(uart[Other[n]]) => flight[n] # <<>>
         /\ Flies(n, req, peer) = IF Writes(req, "uart", "TX_DATA") THEN <<req.data>>
                                  ELSE IF Reads(peer, "uart", "RX_DATA") THEN <<>> ELSE flight[n]
         /\ Arrived(v, w, Flies(n, req, peer))
<1> DEFINE m == Other[n]
           S == uart[n]
           R == uart[m]
           f == flight[n]
           W == IF Writes(req, "uart", "TX_DATA") THEN TRUE ELSE FALSE
           b == IF Writes(req, "uart", "TX_DATA") THEN req.data ELSE {}
<1>1. /\ link \in Links /\ LinesInv /\ TurnInv(hart, uart, flight) /\ m \in Node
      /\ NodeInv(n, hart[n], S) /\ NodeInv(m, hart[m], R)
      /\ TalkNode(n, hart[n], S, R, f) /\ TalkNode(m, hart[m], R, uart[Other[m]], flight[m])
  BY OtherIs DEF TalkPair, LinesInv, PairInv
<1>2. /\ Programs[n] \in {"ping", "echo"} /\ Programs[m] \in {"ping", "echo"} /\ Listens(m)
      /\ CLKS_PER_BIT >= 10 /\ UART_BIT_CTS_ENABLE \notin Configured
  BY <1>1, ChatsIs
<1>3. TalkMove(n, hart[n].main, g.main, req, S)
  BY <1>1, <1>2, TalkStep DEF NodeInv, IsrInv, TalkNode, RangeInv
<1>4. TalkMove(m, hart[m].main, k.main, peer, R)
  BY <1>1, <1>2, TalkStep DEF NodeInv, IsrInv, TalkNode, RangeInv
<1>5. WireInv(S, R, Framed) /\ TxClocks(S, v, Framed) /\ RxClocks(S, R, w, Framed)
  BY <1>1, <1>2, WayClocks
<1>6. /\ Writes(req, "uart", "TX_DATA") => f = <<>> /\ req.data \in Byte
      /\ Reads(peer, "uart", "RX_DATA") => Ready(R)
  BY <1>1, <1>3, <1>4 DEF TalkMove, TurnInv
<1>7. IF W THEN S.tx.state = "Idle" /\ v.tx.state = "Start" /\ v.tx_data = b
      ELSE v.tx_data = S.tx_data /\ (S.tx.state = "Idle" => v.tx.state = "Idle")
  <2>1. IF Writes(req, "uart", "TX_DATA")
        THEN S.tx.state = "Idle" /\ v.tx.state = "Start" /\ v.tx_data = req.data
        ELSE v.tx_data = S.tx_data /\ (S.tx.state = "Idle" => v.tx.state = "Idle")
    BY <1>1, <1>2, <1>6, SendStep
  <2> HIDE DEF S
  <2>2. QED
    BY <2>1
<1>8. /\ w.RX_DATA = IF RxDelivers(R) THEN R.rx_data ELSE R.RX_DATA
      /\ w.rx_ready = RxReady(R, peer)
  BY UartRegs
<1>9. RangeInv(w)
  BY <1>1, <1>2, <1>5, <1>8, RangeStep DEF TalkNode
<1>10. W \in BOOLEAN /\ b \in Byte /\ (W => f = <<>>)
  BY <1>6 DEF Byte
<1>11. v.tx_data \in Byte
  BY <1>1, <1>7, <1>10 DEF TalkNode
<1>12. RangeInv(R) /\ S.tx_data \in Byte /\ Arrived(S, R, f) /\ ReadyType(R)
  BY <1>1 DEF TalkNode, NodeInv, IsrInv
<1>13. /\ W => ~Reads(peer, "uart", "RX_DATA")
       /\ Arrived(v, w, IF W THEN <<b>> ELSE IF Reads(peer, "uart", "RX_DATA") THEN <<>> ELSE f)
  <2> HIDE DEF S, R, W, b, f
  <2>1. QED
    BY <1>1, <1>2, <1>5, <1>6, <1>7, <1>8, <1>10, <1>12, ArrivedStep
<1>14. Ready(R) => f = <<R.RX_DATA>>
  BY <1>12 DEF Arrived
<1>15. Flies(n, req, peer) = IF Writes(req, "uart", "TX_DATA") THEN <<req.data>>
                             ELSE IF Reads(peer, "uart", "RX_DATA") THEN <<>> ELSE f
  BY <1>2, <1>6, <1>13, <1>14, FliesIs
<1>16. Arrived(v, w, Flies(n, req, peer))
  BY <1>13, <1>15
<1>17. Ready(R) => f # <<>>
  <2>1. <<R.RX_DATA>> # <<>>
    OBVIOUS
  <2>2. QED
    BY <1>14, <2>1
<1>18. QED
  BY <1>3, <1>9, <1>11, <1>15, <1>16, <1>17

\* The next state of both nodes.
LEMMA TalkClock ==
  ASSUME TalkPair, Chats, Clock
  PROVE  /\ \A n \in Node : TalkNode(n, hart'[n], uart'[n], uart'[Other[n]], flight'[n])
         /\ TurnInv(hart', uart', flight')
<1>1. PICK req : \A n \in Node :
        /\ <<hart'[n], req[n]>> \in Moves(n)
        /\ uart'[n] = UartClock(uart[n], req[n], uart[Other[n]].tx_o, Rts(uart[Other[n]]))
        /\ flight'[n] = Flies(n, req[n], req[Other[n]])
  BY ClockIs
<1>2. ASSUME NEW n \in Node
      PROVE  /\ TalkMove(n, hart[n].main, hart'[n].main, req[n], uart[n])
             /\ RangeInv(uart'[Other[n]]) /\ uart'[n].tx_data \in Byte
             /\ Ready(uart[Other[n]]) => flight[n] # <<>>
             /\ flight'[n] = IF Writes(req[n], "uart", "TX_DATA") THEN <<req[n].data>>
                             ELSE IF Reads(req[Other[n]], "uart", "RX_DATA") THEN <<>> ELSE flight[n]
             /\ Arrived(uart'[n], uart'[Other[n]], flight'[n])
  <2> DEFINE m == Other[n]
             g == hart'[n]
             v == uart'[n]
             k == hart'[m]
             w == uart'[m]
             r == req[n]
             p == req[m]
             x == uart[m].tx_o
             c == Rts(uart[m])
             d == Rts(uart[n])
  <2>1. m \in Node /\ Other[m] = n
    BY OtherIs
  <2>2. /\ <<g, r>> \in Moves(n) /\ <<k, p>> \in Moves(m) /\ flight'[n] = Flies(n, r, p)
        /\ v = UartClock(uart[n], r, x, c) /\ w = UartClock(uart[m], p, uart[n].tx_o, d)
    BY <1>1, <2>1
  <2> HIDE DEF g, v, k, w, r, p, x, c, d
  <2>3. /\ TalkMove(n, hart[n].main, g.main, r, uart[n])
        /\ RangeInv(w) /\ v.tx_data \in Byte
        /\ Ready(uart[m]) => flight[n] # <<>>
        /\ Flies(n, r, p) = IF Writes(r, "uart", "TX_DATA") THEN <<r.data>>
                            ELSE IF Reads(p, "uart", "RX_DATA") THEN <<>> ELSE flight[n]
        /\ Arrived(v, w, Flies(n, r, p))
    BY <2>2, TalkWay
  <2>4. QED
    BY <2>2, <2>3 DEF g, v, w, r, p
<1>3. ASSUME NEW n \in Node
      PROVE  TalkNode(n, hart'[n], uart'[n], uart'[Other[n]], flight'[n])
  <2>1. Other[n] \in Node /\ Other[Other[n]] = n
    BY OtherIs
  <2>2. RangeInv(uart'[n])
    BY <1>2, <2>1
  <2>3. TalkInv(n, hart'[n].main)
    BY <1>2 DEF TalkMove
  <2>4. QED
    BY <1>2, <2>2, <2>3 DEF TalkNode
<1>4. TurnInv(hart', uart', flight')
  <2>1. ASSUME NEW n \in Node
        PROVE  Ready(uart[n]) /\ ~Reads(req[n], "uart", "RX_DATA") => Ready(uart'[n])
    <3> DEFINE v == uart'[n]
    <3>1. v = UartClock(uart[n], req[n], uart[Other[n]].tx_o, Rts(uart[Other[n]]))
      BY <1>1
    <3>2. ReadyType(uart[n])
      BY DEF TalkPair, LinesInv, PairInv, NodeInv, IsrInv
    <3> HIDE DEF v
    <3>3. Ready(uart[n]) /\ ~Reads(req[n], "uart", "RX_DATA") => Ready(v)
      BY <3>1, <3>2, FlagsStep
    <3>4. QED
      BY <3>3 DEF v
  <2> DEFINE k == hart'
             v == uart'
             f2 == flight'
  <2>2. \A n \in Node :
          /\ TalkMove(n, hart[n].main, k[n].main, req[n], uart[n])
          /\ Ready(uart[n]) /\ ~Reads(req[n], "uart", "RX_DATA") => Ready(v[n])
          /\ Ready(uart[n]) => flight[Other[n]] # <<>>
          /\ f2[n] = IF Writes(req[n], "uart", "TX_DATA") THEN <<req[n].data>>
                     ELSE IF Reads(req[Other[n]], "uart", "RX_DATA") THEN <<>> ELSE flight[n]
    BY <1>2, <2>1, OtherIs
  <2>3. TurnInv(hart, uart, flight)
    BY DEF TalkPair
  <2> HIDE DEF k, v, f2
  <2>4. TurnInv(k, v, f2)
    BY <2>2, <2>3, TurnStep
  <2>5. QED
    BY <2>4 DEF k, v, f2
<1>5. QED
  BY <1>3, <1>4

\* The programs, and the bytes of a frame, stay what they are.
LEMMA TalkPrime ==
  ASSUME link' = link, LinesInv',
         \A n \in Node : TalkNode(n, hart'[n], uart'[n], uart'[Other[n]], flight'[n]),
         TurnInv(hart', uart', flight')
  PROVE  TalkPair'
<1>1. Framed' = Framed
  BY DEF Framed, Frame, Configured, framing, CLKS_PER_BIT
<1>2. Byte' = Byte
  BY <1>1 DEF Byte
<1>3. SetConfig' = SetConfig /\ SetBaud' = SetBaud /\ Programs' = Programs
  BY DEF SetConfig, SetBaud, Programs, Configured, framing, CLKS_PER_BIT
<1>4. ASSUME NEW n
      PROVE  /\ Rest(n)' = Rest(n) /\ Answered(n)' = Answered(n) /\ Taking(n)' = Taking(n)
             /\ Waiting(n)' = Waiting(n) /\ Returning(n)' = Returning(n)
             /\ \A c : Putting(n, c)' = Putting(n, c) /\ Awaiting(n, c)' = Awaiting(n, c)
  BY DEF Rest, Answered, Taking, Waiting, Returning, Putting, Awaiting, Programs
<1> HIDE DEF SetConfig, SetBaud
<1>5. ASSUME NEW n \in Node
      PROVE  TalkNode(n, hart[n], uart[n], uart[Other[n]], flight[n])'
  <2>1. TalkNode(n, hart'[n], uart'[n], uart'[Other[n]], flight'[n])
    OBVIOUS
  <2>2. TalkInv(n, hart[n].main)'
    <3>1. TalkInv(n, hart'[n].main)
      BY <2>1 DEF TalkNode
    <3>2. QED
      BY <1>2, <1>3, <1>4, <3>1 DEF TalkInv
  <2>3. RangeInv(uart[n])'
    BY <1>1, <1>2, <2>1 DEF TalkNode, RangeInv
  <2>4. Arrived(uart[n], uart[Other[n]], flight[n])'
    BY <2>1 DEF TalkNode, Arrived, Delivered, Ready
  <2>5. QED
    BY <1>2, <2>1, <2>2, <2>3, <2>4 DEF TalkNode
<1>6. TurnInv(hart, uart, flight)'
  <2>1. \A n, s : Passive(n, s)' <=> Passive(n, s)
    BY <1>3 DEF Passive
  <2>2. QED
    BY <1>3, <2>1 DEF TurnInv, Ready
<1>7. QED
  BY <1>5, <1>6 DEF TalkPair

LEMMA TalkInit ==
  ASSUME Init, Chats
  PROVE  TalkPair
<1>1. LinesInv /\ link \in Links
  BY LinesInit DEF LinesInv, PairInv
<1>2. ASSUME NEW n \in Node
      PROVE  /\ hart[n].main.code = <<SetConfig>> \o (<<SetBaud>> \o Rest(n))
             /\ Head(hart[n].main.code) = SetConfig
             /\ uart[n] = UartReset /\ flight[n] = <<>>
  <2>1. hart[n] = HartReset(Start(n, framing)) /\ uart[n] = UartReset /\ flight[n] = <<>>
    BY DEF Init
  <2>2. QED
    BY <1>1, <2>1, ResetShape, StartIs
<1>3. /\ UartReset.tx.state = "Idle" /\ UartReset.rx.state = "Idle" /\ ~Ready(UartReset)
      /\ UartReset.rx_data = {} /\ UartReset.RX_DATA = {} /\ UartReset.tx_data = {}
  BY DEF UartReset, Engine, Ready
<1>4. ASSUME NEW n \in Node
      PROVE  TalkNode(n, hart[n], uart[n], uart[Other[n]], flight[n])
  <2>1. Other[n] \in Node
    BY OtherIs
  <2>2. TalkInv(n, hart[n].main)
    BY <1>1, <1>2, TalkHeads DEF TalkInv
  <2>3. RangeInv(uart[n]) /\ uart[n].tx_data \in Byte
    BY <1>2, <1>3 DEF RangeInv, Byte
  <2>4. Arrived(uart[n], uart[Other[n]], flight[n])
    BY <1>2, <1>3, <2>1 DEF Arrived, Delivered
  <2>5. QED
    BY <2>2, <2>3, <2>4 DEF TalkNode
<1>5. TurnInv(hart, uart, flight)
  <2> SUFFICES ASSUME NEW n \in Node
               PROVE  LET m == Other[n]
                          s == Head(hart[n].main.code)
                      IN  /\ ~Passive(n, s) => /\ Passive(m, Head(hart[m].main.code))
                                               /\ flight[n] = <<>> /\ flight[m] = <<>>
                          /\ flight[n] # <<>> => flight[m] = <<>>
                          /\ s = Takes => Ready(uart[n])
    BY DEF TurnInv
  <2>1. Other[n] \in Node /\ (n = "a" => Other[n] = "b")
    BY DEF Node, Other
  <2>2. /\ Head(hart[n].main.code) = SetConfig /\ Head(hart[Other[n]].main.code) = SetConfig
        /\ flight[n] = <<>> /\ flight[Other[n]] = <<>>
    BY <1>2, <2>1
  <2>3. Passive(n, SetConfig) \/ Passive(Other[n], SetConfig)
    BY <1>1, <2>1, ChatsIs, TalkHeads
  <2>4. SetConfig # Takes
    BY TalkHeads
  <2>5. Passive(n, SetConfig) <=> Programs[n] = "echo"
    BY TalkHeads
  <2>6. QED
    BY <2>2, <2>3, <2>4
<1>6. QED
  BY <1>1, <1>4, <1>5 DEF TalkPair

\* uart_echo returns to a terminal each byte it sent, whole, once and in
\* order: neither sends before it has read what is under way to it, so that
\* one byte at most ever is, and RX_READY rises for it and for nothing else.
THEOREM EchoReturns == Spec => [](Chats => GetsNext)
<1> DEFINE Inv == AnyTorn \/ (Chats => TalkPair)
<1>1. Init => Inv
  BY TalkInit
<1>2. Inv /\ [Clock]_vars => Inv'
  <2> SUFFICES ASSUME Chats => TalkPair, [Clock]_vars, Chats', ~AnyTorn'
               PROVE  TalkPair'
    BY TornPairStep
  <2>1. link' = link
    BY ClockIs DEF vars
  <2>2. Chats /\ TalkPair
    BY <2>1 DEF Chats
  <2>3. LinesInv'
    BY <2>2, LinesStep DEF TalkPair, Chats, CLKS_PER_BIT
  <2>4. /\ \A n \in Node : TalkNode(n, hart'[n], uart'[n], uart'[Other[n]], flight'[n])
        /\ TurnInv(hart', uart', flight')
    <3>1. CASE Clock
      BY <2>2, <3>1, TalkClock
    <3>2. CASE UNCHANGED vars
      <4>1. hart' = hart /\ uart' = uart /\ flight' = flight
        BY <3>2 DEF vars
      <4>2. QED
        BY <2>2, <4>1 DEF TalkPair
    <3>3. QED
      BY <3>1, <3>2
  <2>5. QED
    BY <2>1, <2>3, <2>4, TalkPrime
<1>3. Inv => (Chats => GetsNext)
  <2> SUFFICES ASSUME Chats, TalkPair, NEW n \in Node, About(n, tinymcu_uart_getc[2])
               PROVE  /\ uart[n].rx_ready
                      /\ flight[Other[n]] # <<>> /\ uart[n].RX_DATA = Head(flight[Other[n]])
    BY IntactIs DEF GetsNext
  <2> DEFINE m == Other[n]
  <2>1. /\ link \in Links /\ NodeInv(n, hart[n], uart[n]) /\ m \in Node /\ Other[m] = n
        /\ TurnInv(hart, uart, flight)
        /\ TalkNode(m, hart[m], uart[m], uart[n], flight[m])
    BY OtherIs DEF TalkPair, LinesInv, PairInv
  <2>2. Programs[n] # "interrupt"
    BY <2>1, ChatsIs
  <2>3. Running(hart[n]) = hart[n].main
    BY <2>1, <2>2 DEF NodeInv, IsrInv, Running
  <2>4. Head(hart[n].main.code) = Takes
    BY <2>3 DEF About, At, tinymcu_uart_getc, Takes
  <2>5. Ready(uart[n])
    BY <2>1, <2>4 DEF TurnInv
  <2>6. flight[m] = <<uart[n].RX_DATA>>
    BY <2>1, <2>5 DEF TalkNode, Arrived
  <2>7. <<uart[n].RX_DATA>> # <<>> /\ Head(<<uart[n].RX_DATA>>) = uart[n].RX_DATA
    OBVIOUS
  <2>8. QED
    BY <2>5, <2>6, <2>7 DEF Ready
<1>4. QED
  BY <1>1, <1>2, <1>3, PTL DEF Spec
=============================================================================
