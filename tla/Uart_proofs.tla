----------------------------- MODULE Uart_proofs -----------------------------
(***************************************************************************)
(* The proof that console output is never stuck and never overruns the     *)
(* chip, for any number of writers and any sizes of the ring and the FIFO. *)
(***************************************************************************)
EXTENDS Uart, RingBuffer, TLAPS

Actor == Writer \cup {intr}
PCs == {"idle", "write", "lock", "putc", "sleep", "start", "send", "echo", "echo_send"}

\* Who is inside the critical sections holds the lock, and it was taken by somebody.
LockInv ==
  /\ pc \in [Actor -> PCs]
  /\ lock \in Actor \cup {None}
  /\ \A x \in Actor : pc[x] \in {"putc", "start", "send"} <=> lock = x
  /\ pc[intr] \notin {"putc", "sleep", "write"}
  /\ \A p \in Writer : pc[p] \notin {"echo", "echo_send"}

\* The FIFO takes one byte from the holder of the lock and one from the echo: who has
\* seen the register empty finds at most the byte of the other there.
FifoInv ==
  /\ thr \in Nat /\ thr <= 2
  /\ pc[intr] = "echo_send" => thr <= 1
  /\ \A x \in Actor : pc[x] = "send" => thr <= 1
  /\ \A x \in Actor : pc[x] = "send" /\ pc[intr] = "echo_send" => thr = 0

\* The first part of OutputIsDriven also while a writer has the lock and has not yet
\* stored its byte, because it may go to sleep instead.
DrivenInv ==
  /\ irq \in BOOLEAN
  /\ uart_tx_r # uart_tx_w /\ (lock = None \/ (lock \in Actor /\ pc[lock] = "putc"))
       => thr > 0 \/ irq \/ pc[intr] # "idle"
  /\ \A p \in Writer : pc[p] = "sleep" => Full

IInv == LockInv /\ FifoInv /\ DrivenInv

(* The driver starts with an empty ring, a free lock and an idle chip. *)
LEMMA InitInv ==
  ASSUME UartAssumption, Init
  PROVE  IInv
<1>1. LockInv
  BY DEF UartAssumption, Init, LockInv, Actor, PCs
<1>2. FifoInv
  BY DEF UartAssumption, Init, FifoInv, Actor
<1>3. DrivenInv
  BY DEF UartAssumption, Init, DrivenInv, Actor
<1> QED BY <1>1, <1>2, <1>3 DEF IInv

\* The lock: each step moves one actor, or wakes those that sleep.
LEMMA LockStep ==
  ASSUME UartAssumption, LockInv, [Next]_vars
  PROVE  LockInv'
<1> USE DEF UartAssumption, LockInv, Actor, PCs
<1>1. CASE UNCHANGED vars
  BY <1>1 DEF vars
<1>2. ASSUME NEW p \in Writer, NEW k \in Lengths, consolewrite(p, k) PROVE LockInv'
  BY <1>2 DEF consolewrite, Goto
<1>3. ASSUME NEW p \in Writer, write_next(p) \/ write_return(p) PROVE LockInv'
  BY <1>3 DEF write_next, write_return, Goto
<1>4. ASSUME NEW x \in Actor, acquire(x) PROVE LockInv'
  BY <1>4 DEF acquire, Goto
<1>5. ASSUME NEW p \in Writer, putc_sleep(p) PROVE LockInv'
  BY <1>5 DEF putc_sleep, Goto
<1>6. ASSUME NEW p \in Writer, NEW c \in Byte, uartputc(p, c) PROVE LockInv'
  BY <1>6 DEF uartputc, Goto
<1>7. ASSUME NEW x \in Actor, start_return(x) PROVE LockInv'
  BY <1>7 DEF start_return, Goto
<1>8. ASSUME NEW x \in Actor, start_check(x) PROVE LockInv'
  BY <1>8 DEF start_check, Goto
<1>9. ASSUME NEW x \in Actor, start_send(x) PROVE LockInv'
  BY <1>9 DEF start_send
<1>10. ASSUME NEW k \in Echoes, uartintr(k) PROVE LockInv'
  BY <1>10 DEF uartintr, Goto
<1>11. CASE echo_check
  BY <1>11 DEF echo_check, Goto
<1>12. CASE echo_send
  BY <1>12 DEF echo_send, Goto
<1>13. CASE transmit \/ receive
  BY <1>13 DEF transmit, receive
<1> QED
  BY <1>1, <1>2, <1>3, <1>4, <1>5, <1>6, <1>7, <1>8, <1>9, <1>10, <1>11, <1>12, <1>13
  DEF Next, WriterStep, Start, Intr

\* The FIFO: a byte is added only by who has seen it empty, and the lock keeps two from
\* being at "send".
LEMMA FifoStep ==
  ASSUME UartAssumption, LockInv, FifoInv, [Next]_vars
  PROVE  FifoInv'
<1> USE DEF UartAssumption, LockInv, FifoInv, Actor, PCs
<1>1. CASE UNCHANGED vars
  BY <1>1 DEF vars, chip
<1>2. ASSUME NEW p \in Writer, NEW k \in Lengths, consolewrite(p, k) PROVE FifoInv'
  BY <1>2 DEF consolewrite, Goto, chip
<1>3. ASSUME NEW p \in Writer, write_next(p) \/ write_return(p) PROVE FifoInv'
  BY <1>3 DEF write_next, write_return, Goto, chip
<1>4. ASSUME NEW x \in Actor, acquire(x) PROVE FifoInv'
  BY <1>4 DEF acquire, Goto, chip
<1>5. ASSUME NEW p \in Writer, putc_sleep(p) PROVE FifoInv'
  BY <1>5 DEF putc_sleep, Goto, chip
<1>6. ASSUME NEW p \in Writer, NEW c \in Byte, uartputc(p, c) PROVE FifoInv'
  BY <1>6 DEF uartputc, Goto, chip
<1>7. ASSUME NEW x \in Actor, start_return(x) PROVE FifoInv'
  BY <1>7 DEF start_return, Goto, chip
<1>8. ASSUME NEW x \in Actor, start_check(x) PROVE FifoInv'
  BY <1>8 DEF start_check, Goto, chip, Stop, Idle
<1>9. ASSUME NEW x \in Actor, start_send(x) PROVE FifoInv'
  BY <1>9 DEF start_send
<1>10. ASSUME NEW k \in Echoes, uartintr(k) PROVE FifoInv'
  BY <1>10 DEF uartintr, Goto
<1>11. CASE echo_check
  BY <1>11 DEF echo_check, Goto, chip, Idle
<1>12. CASE echo_send
  BY <1>12 DEF echo_send, Goto
<1>13. CASE transmit
  BY <1>13 DEF transmit
<1>14. CASE receive
  BY <1>14 DEF receive
<1> QED
  BY <1>1, <1>2, <1>3, <1>4, <1>5, <1>6, <1>7, <1>8, <1>9, <1>10, <1>11, <1>12, <1>13, <1>14
  DEF Next, WriterStep, Start, Intr

\* Output: who leaves uartstart() leaves the ring empty or the chip busy, the chip
\* interrupts when it is done, and a byte that leaves the ring wakes all who sleep.
LEMMA DrivenStep ==
  ASSUME UartAssumption, LockInv, FifoInv, DrivenInv, [Next]_vars
  PROVE  DrivenInv'
<1> USE DEF UartAssumption, LockInv, FifoInv, DrivenInv, Actor, PCs, Full
<1>1. CASE UNCHANGED vars
  BY <1>1 DEF vars, ring, chip
<1>2. ASSUME NEW p \in Writer, NEW k \in Lengths, consolewrite(p, k) PROVE DrivenInv'
  BY <1>2 DEF consolewrite, Goto, ring, chip
<1>3. ASSUME NEW p \in Writer, write_next(p) \/ write_return(p) PROVE DrivenInv'
  BY <1>3 DEF write_next, write_return, Goto, ring, chip
<1>4. ASSUME NEW x \in Actor, acquire(x) PROVE DrivenInv'
  BY <1>4 DEF acquire, Goto, ring, chip
<1>5. ASSUME NEW p \in Writer, putc_sleep(p) PROVE DrivenInv'
  BY <1>5 DEF putc_sleep, Goto, ring, chip
<1>6. ASSUME NEW p \in Writer, NEW c \in Byte, uartputc(p, c) PROVE DrivenInv'
  BY <1>6 DEF uartputc, Goto, chip
<1>7. ASSUME NEW x \in Actor, start_return(x) PROVE DrivenInv'
  BY <1>7 DEF start_return, Goto, ring, chip, Stop, Idle
<1>8. ASSUME NEW x \in Actor, start_check(x) PROVE DrivenInv'
  BY <1>8 DEF start_check, Goto, ring, chip
<1>9. ASSUME NEW x \in Actor, start_send(x) PROVE DrivenInv'
  BY <1>9 DEF start_send
<1>10. ASSUME NEW k \in Echoes, uartintr(k) PROVE DrivenInv'
  BY <1>10 DEF uartintr, Goto, ring
<1>11. CASE echo_check
  BY <1>11 DEF echo_check, Goto, ring, chip
<1>12. CASE echo_send
  BY <1>12 DEF echo_send, Goto, ring
<1>13. CASE transmit
  <2>1. irq' \in BOOLEAN
    BY <1>13 DEF transmit
  <2>2. irq' \/ thr' > 0
    <3>1. CASE thr = 1
      BY <1>13, <3>1, Zenon DEF transmit
    <3>2. CASE thr # 1
      BY <1>13, <3>2 DEF transmit
    <3> QED BY <3>1, <3>2
  <2> QED
    BY <1>13, <2>1, <2>2 DEF transmit, ring
<1>14. CASE receive
  BY <1>14 DEF receive, ring
<1> QED
  BY <1>1, <1>2, <1>3, <1>4, <1>5, <1>6, <1>7, <1>8, <1>9, <1>10, <1>11, <1>12, <1>13, <1>14
  DEF Next, WriterStep, Start, Intr

\* Console output is never stuck and never overruns the chip (uart.c:92, uart.c:139), for
\* any writers, ring and FIFO of at least two bytes.
THEOREM OutputDriven ==
  ASSUME UartAssumption
  PROVE  Spec => []OutputIsDriven
<1>1. Init => IInv
  BY InitInv
<1>2. IInv /\ [Next]_vars => IInv'
  BY LockStep, FifoStep, DrivenStep DEF IInv
<1>3. IInv => OutputIsDriven
  BY DEF IInv, LockInv, FifoInv, DrivenInv, OutputIsDriven, UartAssumption
<1> QED
  BY <1>1, <1>2, <1>3, PTL DEF Spec

-------------------------------------------------------------------------------
(* The order of the bytes                                                      *)

\* The ring holds no more than it has room for, and who is about to send has something
\* to send: it tested that with the lock held.
RingInv ==
  /\ uart_tx_buf \in [0..(UART_TX_BUF_SIZE - 1) -> Byte \cup {None}]
  /\ uart_tx_w \in 0..(WRAP - 1) /\ uart_tx_r \in 0..(WRAP - 1)
  /\ Dist(uart_tx_r, uart_tx_w, WRAP) <= UART_TX_BUF_SIZE
  /\ \A x \in Actor : pc[x] = "send" => uart_tx_r # uart_tx_w

\* The assumption on the sizes, as the lemmas about rings want it.
LEMMA Sizes ==
  ASSUME UartAssumption
  PROVE  /\ UART_TX_BUF_SIZE \in Nat \ {0} /\ WRAP \in Nat \ {0}
         /\ WRAP > UART_TX_BUF_SIZE /\ Divides(UART_TX_BUF_SIZE, WRAP)
BY DEF UartAssumption, Divides

(* The queue of ByteStream is what the ring holds between uart_tx_r and uart_tx_w. *)
LEMMA QueueIsHeld ==
  Queue = Held(uart_tx_buf, uart_tx_r, uart_tx_w, UART_TX_BUF_SIZE, WRAP)
BY DEF Queue, Held, Dist

\* uartputc() appends to what is queued.
LEMMA PutStep ==
  ASSUME UartAssumption, LockInv, RingInv, NEW p \in Writer, NEW c \in Byte, uartputc(p, c)
  PROVE  RingInv' /\ Stream!Put(c)
<1> DEFINE S == UART_TX_BUF_SIZE
           V == Byte \cup {None}
           d == Dist(uart_tx_r, uart_tx_w, WRAP)
<1>1. /\ S \in Nat \ {0} /\ WRAP \in Nat \ {0} /\ WRAP > S /\ Divides(S, WRAP)
      /\ uart_tx_buf \in [0..(S - 1) -> V] /\ c \in V
      /\ uart_tx_r \in 0..(WRAP - 1) /\ uart_tx_w \in 0..(WRAP - 1)
  BY Sizes DEF RingInv
<1>2. d \in 0..(WRAP - 1) /\ d <= S
  BY <1>1, DistType, Zenon DEF RingInv
<1>3. d # S
  <2>1. uart_tx_w # (uart_tx_r + S) % WRAP
    BY DEF uartputc, Full
  <2> QED BY <1>1, <2>1, FullRing, ZenonT(60)
<1>4. d < S /\ d + 1 < WRAP /\ d + 1 <= S
  <2> HIDE DEF d, S
  <2> QED BY <1>1, <1>2, <1>3
<1>5. /\ uart_tx_buf' = [uart_tx_buf EXCEPT ![uart_tx_w % S] = c]
      /\ uart_tx_w' = (uart_tx_w + 1) % WRAP
      /\ uart_tx_r' = uart_tx_r
  BY DEF uartputc
<1>6. Queue' = Append(Queue, c)
  <2>1. Queue' = Held(uart_tx_buf', uart_tx_r', uart_tx_w', S, WRAP)
    BY DEF Queue, Held, Dist
  <2> HIDE DEF d, S, V
  <2>2. Dist(uart_tx_r, uart_tx_w, WRAP) < S
    BY <1>4 DEF d
  <2>3. Held(Stored(uart_tx_buf, uart_tx_w % S, c), uart_tx_r, (uart_tx_w + 1) % WRAP, S, WRAP)
          = Added(Held(uart_tx_buf, uart_tx_r, uart_tx_w, S, WRAP), c)
    BY <1>1, <2>2, HeldPut
  <2> QED BY <1>5, <2>1, <2>3, QueueIsHeld DEF S, Stored, Added
<1>7. Len(Queue) = d
  <2>1. Queue = [k \in 1..d |-> uart_tx_buf[(uart_tx_r + k - 1) % S]]
    BY DEF Queue, Dist
  <2> HIDE DEF d, S
  <2> QED BY <1>2, <2>1
<1>8. RingInv'
  <2>1. uart_tx_buf' \in [0..(S - 1) -> V]
    <3> HIDE DEF S, V
    <3>1. uart_tx_w \in Int
      BY <1>1
    <3>2. uart_tx_w % S \in 0..(S - 1)
      BY <1>1, <3>1, Division
    <3> QED BY <1>1, <1>5, <3>2
  <2>2. uart_tx_w' \in 0..(WRAP - 1)
    BY <1>1, <1>5, NextIndex, Zenon
  <2>3. Dist(uart_tx_r', uart_tx_w', WRAP) = d + 1
    BY <1>1, <1>4, <1>5, DistStep, Zenon
  <2>4. \A x \in Actor : pc'[x] # "send"
    BY DEF uartputc, Goto, LockInv, Actor
  <2> HIDE DEF d
  <2> QED BY <1>1, <1>4, <1>5, <2>1, <2>2, <2>3, <2>4 DEF RingInv
<1> QED
  <2> HIDE DEF d
  <2> QED BY <1>4, <1>6, <1>7, <1>8 DEF Stream!Put

\* uartstart() takes the oldest byte.
LEMMA GetStep ==
  ASSUME UartAssumption, LockInv, RingInv, NEW x \in Actor, start_send(x)
  PROVE  RingInv' /\ Stream!Get
<1> DEFINE S == UART_TX_BUF_SIZE
           V == Byte \cup {None}
           d == Dist(uart_tx_r, uart_tx_w, WRAP)
<1>1. /\ S \in Nat \ {0} /\ WRAP \in Nat \ {0} /\ WRAP > S /\ Divides(S, WRAP)
      /\ uart_tx_buf \in [0..(S - 1) -> V]
      /\ uart_tx_r \in 0..(WRAP - 1) /\ uart_tx_w \in 0..(WRAP - 1)
      /\ uart_tx_r # uart_tx_w
  BY Sizes DEF RingInv, start_send
<1>2. d \in Nat \ {0} /\ d <= S
  BY <1>1, DistType, Zenon DEF RingInv
<1>3. /\ uart_tx_buf' = uart_tx_buf
      /\ uart_tx_w' = uart_tx_w
      /\ uart_tx_r' = (uart_tx_r + 1) % WRAP
  BY DEF start_send
<1>4. Queue' = Tail(Queue)
  <2>1. Queue' = Held(uart_tx_buf', uart_tx_r', uart_tx_w', S, WRAP)
    BY DEF Queue, Held, Dist
  <2> HIDE DEF d, S, V
  <2>2. Held(uart_tx_buf, (uart_tx_r + 1) % WRAP, uart_tx_w, S, WRAP)
          = Tail(Held(uart_tx_buf, uart_tx_r, uart_tx_w, S, WRAP))
    BY <1>1, HeldGet, ZenonT(60)
  <2>3. Queue' = Tail(Held(uart_tx_buf, uart_tx_r, uart_tx_w, S, WRAP))
    BY <1>3, <2>1, <2>2, Zenon
  <2> QED BY <2>3, QueueIsHeld DEF S
<1>5. Len(Queue) = d
  <2>1. Queue = [k \in 1..d |-> uart_tx_buf[(uart_tx_r + k - 1) % S]]
    BY DEF Queue, Dist
  <2> HIDE DEF d, S
  <2> QED BY <1>2, <2>1
<1>6. RingInv'
  <2>1. uart_tx_r' \in 0..(WRAP - 1)
    BY <1>1, <1>3, NextIndex, Zenon
  <2>2. Dist(uart_tx_r', uart_tx_w', WRAP) = d - 1
    BY <1>1, <1>3, DistStep, Zenon
  <2>3. \A y \in Actor : pc'[y] # "send"
    BY DEF start_send, LockInv, Actor
  <2> HIDE DEF d
  <2> QED BY <1>1, <1>2, <1>3, <2>1, <2>2, <2>3 DEF RingInv
<1> QED
  <2> HIDE DEF d
  <2> QED BY <1>2, <1>4, <1>5, <1>6 DEF Stream!Get

\* The ring of uart.c implements the bounded queue of ByteStream (uart.c:87, uart.c:127), for
\* any number of writers, any size of the ring and any modulus of its counters: no byte is
\* lost, duplicated or reordered.
THEOREM OutputInOrder ==
  ASSUME UartAssumption
  PROVE  Spec => BytesInOrder
<1> DEFINE Inv == LockInv /\ RingInv
<1>1. Init => Inv /\ Stream!Init
  <2> SUFFICES ASSUME Init PROVE Inv /\ Stream!Init
    OBVIOUS
  <2>1. LockInv
    BY DEF UartAssumption, Init, LockInv, Actor, PCs
  <2>2. Dist(uart_tx_r, uart_tx_w, WRAP) = 0
    <3>1. WRAP \in Nat \ {0} /\ 0 \in 0..(WRAP - 1)
      BY DEF UartAssumption
    <3>2. Dist(0, 0, WRAP) = 0
      BY <3>1, DistStep
    <3> QED BY <3>2 DEF Init
  <2>3. RingInv
    BY <2>2 DEF UartAssumption, Init, RingInv, Actor
  <2>4. Queue = <<>>
    BY <2>2 DEF Queue, Dist
  <2> QED BY <2>1, <2>3, <2>4 DEF Stream!Init
<1>2. Inv /\ [Next]_vars => Inv' /\ [Stream!Next]_(Stream!vars)
  <2> SUFFICES ASSUME Inv, [Next]_vars
               PROVE  Inv' /\ [Stream!Next]_(Stream!vars)
    OBVIOUS
  <2>1. LockInv'
    BY LockStep
  <2>2. ASSUME NEW p \in Writer, NEW c \in Byte, uartputc(p, c)
        PROVE  RingInv' /\ Stream!Next
    BY <2>2, PutStep DEF Stream!Next
  <2>3. ASSUME NEW x \in Actor, start_send(x)
        PROVE  RingInv' /\ Stream!Next
    BY <2>3, GetStep DEF Stream!Next
  <2>4. ASSUME UNCHANGED ring, \A x \in Actor : pc'[x] = "send" => pc[x] = "send" \/ uart_tx_r # uart_tx_w
        PROVE  RingInv' /\ UNCHANGED Stream!vars
    BY <2>4 DEF ring, RingInv, Stream!vars, Queue
  <2>5. ASSUME NEW x \in Actor,
               acquire(x) \/ start_return(x) \/ start_check(x) \/ putc_sleep(x)
                 \/ write_next(x) \/ write_return(x) \/ \E k \in Lengths : consolewrite(x, k)
        PROVE  RingInv' /\ UNCHANGED Stream!vars
    <3>1. UNCHANGED ring
      BY <2>5 DEF acquire, start_return, start_check, putc_sleep, write_next, write_return, consolewrite
    <3>2. \A y \in Actor : pc'[y] = "send" => pc[y] = "send" \/ uart_tx_r # uart_tx_w
      BY <2>5 DEF LockInv, acquire, start_return, start_check, putc_sleep, write_next, write_return,
                  consolewrite, Goto, Stop
    <3> QED BY <2>4, <3>1, <3>2
  <2>6. ASSUME \/ UNCHANGED vars \/ transmit \/ receive \/ echo_check \/ echo_send
               \/ \E k \in Echoes : uartintr(k)
        PROVE  RingInv' /\ UNCHANGED Stream!vars
    <3>1. UNCHANGED ring
      BY <2>6 DEF vars, transmit, receive, echo_check, echo_send, uartintr
    <3>2. \A y \in Actor : pc'[y] = "send" => pc[y] = "send" \/ uart_tx_r # uart_tx_w
      BY <2>6 DEF LockInv, vars, transmit, receive, echo_check, echo_send, uartintr, Goto, Actor
    <3> QED BY <2>4, <3>1, <3>2
  <2> QED
    BY <2>1, <2>2, <2>3, <2>5, <2>6 DEF Next, WriterStep, Start, Intr, Actor
<1> QED
  BY <1>1, <1>2, PTL DEF Spec, BytesInOrder, Stream!Spec

===============================================================================
