---------------------------------- MODULE Uart ----------------------------------
(***************************************************************************)
(* Output to the console, kernel/uart.c: processes in consolewrite() and   *)
(* uartputc(), the interrupt handler uartintr(), which echoes the keys and *)
(* sends what is buffered, and the 16550 chip with its transmit FIFO.      *)
(* uart_tx_lock is held across the steps of uartputc() and uartstart(),    *)
(* and a test of the transmit register and the write after it are two      *)
(* steps, for uartputc_sync() does not take the lock.                      *)
(***************************************************************************)
EXTENDS Integers, Sequences

CONSTANTS Writer,            \* processes that write to the console
          Byte,              \* what they write
          Lengths,           \* the n of write()
          Echoes,            \* how many bytes the keys of one interrupt make the handler echo
          UART_TX_BUF_SIZE,
          WRAP,              \* uart_tx_w and uart_tx_r count modulo this, 2^64 in the code
          FIFO,              \* depth of the chip's transmit FIFO, 16
          intr,              \* the interrupt handler
          None

UartAssumption ==
  /\ intr \notin Writer /\ None \notin Writer \cup {intr}
  /\ UART_TX_BUF_SIZE \in Nat \ {0}
  /\ WRAP \in Nat /\ WRAP > UART_TX_BUF_SIZE /\ WRAP % UART_TX_BUF_SIZE = 0
  /\ FIFO \in Nat /\ FIFO >= 2
  /\ Lengths \subseteq Nat /\ Echoes \subseteq Nat

VARIABLES
  uart_tx_buf, uart_tx_w, uart_tx_r,
  lock,        \* who holds uart_tx_lock
  thr, rx,     \* the chip: bytes in its transmit FIFO, and whether a key has arrived
  irq,         \* the chip has raised its interrupt
  pc,          \* where each writer and the handler are
  n,           \* what each write() has yet to send
  echo         \* what the handler's consputc() has yet to send

ring == <<uart_tx_buf, uart_tx_w, uart_tx_r>>
chip == <<thr, rx, irq>>
vars == <<ring, lock, chip, pc, n, echo>>

Init ==
  /\ uart_tx_buf = [i \in 0..(UART_TX_BUF_SIZE - 1) |-> None]
  /\ uart_tx_w = 0 /\ uart_tx_r = 0
  /\ lock = None
  /\ thr = 0 /\ rx = FALSE /\ irq = FALSE
  /\ pc = [x \in Writer \cup {intr} |-> "idle"]
  /\ n = [p \in Writer |-> 0]
  /\ echo = 0

Goto(x, l) == pc' = [pc EXCEPT ![x] = l]

MutFull == uart_tx_w = (uart_tx_r + UART_TX_BUF_SIZE + 1) % WRAP

\* while(uart_tx_w == uart_tx_r + UART_TX_BUF_SIZE): no room in the ring.
Full == uart_tx_w = (uart_tx_r + UART_TX_BUF_SIZE) % WRAP

-------------------------------------------------------------------------------
(* consolewrite() and uartputc()                                               *)

consolewrite(p, k) ==
  /\ pc[p] = "idle"
  /\ n' = [n EXCEPT ![p] = k]
  /\ Goto(p, "write")
  /\ UNCHANGED <<ring, lock, chip, echo>>

\* The next byte, which either_copyin() has fetched.
write_next(p) ==
  /\ pc[p] = "write" /\ n[p] > 0
  /\ n' = [n EXCEPT ![p] = @ - 1]
  /\ Goto(p, "lock")
  /\ UNCHANGED <<ring, lock, chip, echo>>

\* All is written, or either_copyin() failed.
write_return(p) ==
  /\ pc[p] = "write"
  /\ n' = [n EXCEPT ![p] = 0]
  /\ Goto(p, "idle")
  /\ UNCHANGED <<ring, lock, chip, echo>>

\* acquire(), or the return from sleep(), which acquires the lock again.
acquire(x) ==
  /\ pc[x] = "lock" /\ lock = None
  /\ lock' = x
  /\ Goto(x, IF x = intr THEN "start" ELSE "putc")
  /\ UNCHANGED <<ring, chip, n, echo>>

putc_sleep(p) ==
  /\ pc[p] = "putc" /\ Full
  /\ lock' = None
  /\ Goto(p, "sleep")
  /\ UNCHANGED <<ring, chip, n, echo>>

uartputc(p, c) ==
  /\ pc[p] = "putc" /\ ~Full
  /\ uart_tx_buf' = [uart_tx_buf EXCEPT ![uart_tx_w % UART_TX_BUF_SIZE] = c]
  /\ uart_tx_w' = (uart_tx_w + 1) % WRAP
  /\ Goto(p, "start")
  /\ UNCHANGED <<uart_tx_r, lock, chip, n, echo>>

-------------------------------------------------------------------------------
(* uartstart(), called by both with the lock held                              *)

Idle == thr = 0
Stop == uart_tx_w = uart_tx_r \/ ~Idle

\* Nothing to send, or the transmit register is busy: release the lock and return, to
\* the next byte of consolewrite() or out of the handler.
start_return(x) ==
  /\ pc[x] = "start" /\ Stop
  /\ lock' = None
  /\ Goto(x, IF x = intr THEN "idle" ELSE "write")
  /\ UNCHANGED <<ring, chip, n, echo>>

start_check(x) ==
  /\ pc[x] = "start" /\ ~Stop
  /\ Goto(x, "send")
  /\ UNCHANGED <<ring, lock, chip, n, echo>>

MutSendQuietly(x) ==
  /\ pc[x] = "send"
  /\ uart_tx_r' = (uart_tx_r + 1) % WRAP
  /\ Goto(x, "start")
  /\ thr' = thr + 1
  /\ UNCHANGED <<uart_tx_buf, uart_tx_w, lock, rx, irq, n, echo>>

\* Take a byte from the ring, wake all who wait for space, and write the register.
start_send(x) ==
  /\ pc[x] = "send"
  /\ uart_tx_r' = (uart_tx_r + 1) % WRAP
  /\ pc' = [y \in DOMAIN pc |-> IF y = x THEN "start"
                                ELSE IF pc[y] = "sleep" THEN "lock" ELSE pc[y]]
  /\ thr' = thr + 1
  /\ UNCHANGED <<uart_tx_buf, uart_tx_w, lock, rx, irq, n, echo>>

-------------------------------------------------------------------------------
(* uartintr()                                                                  *)

\* The keys that have arrived are echoed: k bytes, none, one each, or three for each
\* erased character (consputc() of module Console's consoleintr()).
uartintr(k) ==
  /\ pc[intr] = "idle" /\ irq
  /\ irq' = FALSE /\ rx' = FALSE
  /\ echo' = IF rx THEN k ELSE 0
  /\ Goto(intr, "echo")
  /\ UNCHANGED <<ring, lock, thr, n>>

\* uartputc_sync(): spin until the transmit register is empty; when all is echoed, go
\* on to uartstart().
echo_check ==
  /\ pc[intr] = "echo"
  /\ \/ echo = 0 /\ Goto(intr, "lock")
     \/ echo > 0 /\ Idle /\ Goto(intr, "echo_send")
  /\ UNCHANGED <<ring, lock, chip, n, echo>>

echo_send ==
  /\ pc[intr] = "echo_send"
  /\ thr' = thr + 1
  /\ echo' = echo - 1
  /\ Goto(intr, "echo")
  /\ UNCHANGED <<ring, lock, rx, irq, n>>

-------------------------------------------------------------------------------
(* The chip: external, known from how uart.c uses its registers                *)

\* A byte leaves the FIFO; the chip interrupts when the last one has left.
transmit ==
  /\ thr > 0
  /\ thr' = thr - 1
  /\ irq' = (irq \/ thr = 1)
  /\ UNCHANGED <<ring, lock, rx, pc, n, echo>>

\* A key arrives.
receive ==
  /\ ~rx
  /\ rx' = TRUE /\ irq' = TRUE
  /\ UNCHANGED <<ring, lock, thr, pc, n, echo>>

-------------------------------------------------------------------------------
Start(x) == start_return(x) \/ start_check(x) \/ start_send(x)

\* What a process does by itself once it is in write().
WriterStep(p) ==
  \/ write_next(p) \/ write_return(p)
  \/ acquire(p) \/ putc_sleep(p) \/ \E c \in Byte : uartputc(p, c)
  \/ Start(p)

Intr ==
  \/ \E k \in Echoes : uartintr(k)
  \/ echo_check \/ echo_send \/ acquire(intr) \/ Start(intr)

Next ==
  \/ \E p \in Writer : WriterStep(p) \/ \E k \in Lengths : consolewrite(p, k)
  \/ Intr
  \/ transmit \/ receive

Spec == Init /\ [][Next]_vars

-------------------------------------------------------------------------------
(* Properties                                                                *)

\* The bytes go to the chip in the order of uartputc(), each once: the ring of uart.c is
\* the bounded queue of ByteStream, also when its counters wrap.
Queue == [k \in 1..((uart_tx_w - uart_tx_r) % WRAP) |->
            uart_tx_buf[(uart_tx_r + k - 1) % UART_TX_BUF_SIZE]]
Stream == INSTANCE ByteStream WITH Size <- UART_TX_BUF_SIZE, queue <- Queue, ropen <- 1, wopen <- 1
BytesInOrder == Stream!Spec

\* Output never gets stuck.  While bytes are in the ring and nobody is in uartstart(),
\* the chip is sending, has raised its interrupt, or the handler is on its way to
\* uartstart(): uartputc() relies on it when it returns because the transmit register is
\* busy.  Who sleeps in uartputc() finds the ring full: every wakeup() was made.  And no
\* byte finds the FIFO full, although uartputc_sync() tests and writes the register
\* without uart_tx_lock: the echo and the holder of the lock may both see it empty and
\* both write.
OutputIsDriven ==
  /\ uart_tx_r # uart_tx_w /\ lock = None => thr > 0 \/ irq \/ pc[intr] # "idle"
  /\ \A p \in Writer : pc[p] = "sleep" => Full
  /\ thr <= FIFO
===============================================================================
