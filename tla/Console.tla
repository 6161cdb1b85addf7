-------------------------------- MODULE Console --------------------------------
(***************************************************************************)
(* Input from the console, kernel/console.c: processes in consoleread()    *)
(* and the interrupt handler that calls consoleintr() for every key.  The  *)
(* handler runs on one CPU at a time (the PLIC gives a claimed interrupt   *)
(* to nobody else) and beside the readers on the others.  cons.lock is     *)
(* held across the steps of both; sleep() and wakeup() are atomic.  The    *)
(* echo of a key changes nothing here: module Uart is about output.        *)
(***************************************************************************)
EXTENDS Integers, Sequences

CONSTANTS Reader,            \* processes that read the console
          Victims,           \* those that may be killed
          Key,               \* what is typed: characters, and the names below
          Counts,            \* the n of read()
          INPUT_BUF_SIZE,
          WRAP,              \* the indices count modulo this, 2^32 in the code
          intr,              \* the interrupt handler
          None

\* The keys that consoleintr() tells apart: newline, carriage return, ^D, ^H (or
\* delete), ^U, ^P and the zero byte.
NL == "nl"
CR == "cr"
EOF == "D"
Bs == "H"
Kill == "U"
Plist == "P"
Nul == "0"

ConsoleAssumption ==
  /\ intr \notin Reader /\ None \notin Reader \cup Key \cup {intr}
  /\ INPUT_BUF_SIZE \in Nat \ {0}
  /\ WRAP \in Nat /\ WRAP > INPUT_BUF_SIZE /\ WRAP % INPUT_BUF_SIZE = 0
  /\ Counts \subseteq Nat

VARIABLES
  buf, r, w, e,   \* cons
  lock,           \* who holds cons.lock
  rhr,            \* the key in the receive register, and its interrupt
  pc,             \* where each reader and the handler are
  key,            \* the handler's c
  n, got,         \* the n of each read(), and what it has got
  killed          \* processes that were killed

cons == <<buf, r, w, e>>
call == <<n, got, killed>>
vars == <<cons, lock, rhr, pc, key, call>>

Init ==
  /\ buf = [i \in 0..(INPUT_BUF_SIZE - 1) |-> Nul] /\ r = 0 /\ w = 0 /\ e = 0
  /\ lock = None
  /\ rhr = None
  /\ pc = [x \in Reader \cup {intr} |-> "idle"]
  /\ key = None
  /\ n = [p \in Reader |-> 0]
  /\ got = [p \in Reader |-> <<>>]
  /\ killed = {}

Goto(x, l) == pc' = [pc EXCEPT ![x] = l]

-------------------------------------------------------------------------------
(* consoleread()                                                               *)

read(p, k) ==
  /\ pc[p] = "idle" /\ p \notin killed
  /\ n' = [n EXCEPT ![p] = k]
  /\ got' = [got EXCEPT ![p] = <<>>]
  /\ Goto(p, "lock")
  /\ UNCHANGED <<cons, lock, rhr, key, killed>>

\* acquire(), or the return from sleep(), which acquires the lock again.
acquire(x) ==
  /\ pc[x] = "lock" /\ lock = None
  /\ lock' = x
  /\ Goto(x, IF x = intr THEN "switch" ELSE "read")
  /\ UNCHANGED <<cons, rhr, key, call>>

\* release(&cons.lock), and the read returns.
Return(p) ==
  /\ lock' = None
  /\ n' = [n EXCEPT ![p] = 0]
  /\ Goto(p, "idle")

\* n is 0, or the process was killed while there is nothing to read.
read_return(p) ==
  /\ pc[p] = "read"
  /\ n[p] = 0 \/ (r = w /\ p \in killed)
  /\ Return(p)
  /\ UNCHANGED <<cons, rhr, key, got, killed>>

read_sleep(p) ==
  /\ pc[p] = "read" /\ n[p] > 0 /\ r = w /\ p \notin killed
  /\ lock' = None
  /\ Goto(p, "sleep")
  /\ UNCHANGED <<cons, rhr, key, call>>

Reading(p) == pc[p] = "read" /\ n[p] > 0 /\ r # w
Next1(i) == (i + 1) % WRAP

MutDropsEof(p) ==
  /\ Reading(p) /\ buf[r % INPUT_BUF_SIZE] = EOF
  /\ r' = Next1(r)
  /\ Return(p)
  /\ UNCHANGED <<buf, w, e, rhr, key, got, killed>>

\* End of file: saved for the next read() unless this one has got nothing.
read_eof(p) ==
  /\ Reading(p) /\ buf[r % INPUT_BUF_SIZE] = EOF
  /\ r' = IF got[p] # <<>> THEN r ELSE Next1(r)
  /\ Return(p)
  /\ UNCHANGED <<buf, w, e, rhr, key, got, killed>>

\* One character is copied out; a newline ends the read.
read_char(p) ==
  LET c == buf[r % INPUT_BUF_SIZE]
  IN /\ Reading(p) /\ c # EOF
     /\ r' = Next1(r)
     /\ got' = [got EXCEPT ![p] = Append(@, c)]
     /\ IF c = NL THEN Return(p)
        ELSE n' = [n EXCEPT ![p] = @ - 1] /\ UNCHANGED <<lock, pc>>
     /\ UNCHANGED <<buf, w, e, rhr, key, killed>>

\* either_copyout() failed: the character is gone.
read_fault(p) ==
  /\ Reading(p) /\ buf[r % INPUT_BUF_SIZE] # EOF
  /\ r' = Next1(r)
  /\ Return(p)
  /\ UNCHANGED <<buf, w, e, rhr, key, got, killed>>

\* kill() from another CPU, which also makes a sleeping process runnable.
kill(p) ==
  /\ p \in Victims \ killed
  /\ killed' = killed \cup {p}
  /\ Goto(p, IF pc[p] = "sleep" THEN "lock" ELSE pc[p])
  /\ UNCHANGED <<cons, lock, rhr, key, n, got>>

-------------------------------------------------------------------------------
(* The handler: uartintr()'s loop over the received keys, and consoleintr()    *)

\* A key arrives (the chip is external).
receive(c) ==
  /\ rhr = None
  /\ rhr' = c
  /\ UNCHANGED <<cons, lock, pc, key, call>>

uartgetc ==
  /\ pc[intr] = "idle" /\ rhr # None
  /\ key' = rhr /\ rhr' = None
  /\ Goto(intr, "lock")
  /\ UNCHANGED <<cons, lock, call>>

\* release(&cons.lock), and uartintr() looks for the next key.
Leave == lock' = None /\ key' = None /\ Goto(intr, "idle")

Erasable == e # w /\ (key = Kill => buf[(e - 1) % INPUT_BUF_SIZE] # NL)

\* ^P, or ^H and ^U with nothing (more) to erase; procdump() only prints.
intr_none ==
  /\ pc[intr] = "switch"
  /\ key = Plist \/ (key \in {Kill, Bs} /\ ~Erasable)
  /\ Leave
  /\ UNCHANGED <<cons, rhr, call>>

\* ^H, and each turn of the loop of ^U.
intr_erase ==
  /\ pc[intr] = "switch" /\ key \in {Kill, Bs} /\ Erasable
  /\ e' = (e - 1) % WRAP
  /\ IF key = Bs THEN Leave ELSE UNCHANGED <<lock, key, pc>>
  /\ UNCHANGED <<buf, r, w, rhr, call>>

Other == key \notin {Plist, Kill, Bs}
Room  == key # Nul /\ (e - r) % WRAP < INPUT_BUF_SIZE

\* Any other key: dropped if there is no room for it.
intr_drop ==
  /\ pc[intr] = "switch" /\ Other /\ ~Room
  /\ Leave
  /\ UNCHANGED <<cons, rhr, call>>

\* wakeup(&cons.r); the handler is done.
Wakeup == pc' = [x \in DOMAIN pc |-> IF x = intr THEN "idle"
                                     ELSE IF pc[x] = "sleep" THEN "lock" ELSE pc[x]]

MutStoreQuietly ==
  LET c == IF key = CR THEN NL ELSE key
  IN /\ pc[intr] = "switch" /\ Other /\ Room
     /\ buf' = [buf EXCEPT ![e % INPUT_BUF_SIZE] = c]
     /\ e' = Next1(e)
     /\ lock' = None /\ key' = None
     /\ w' = IF c \in {NL, EOF} \/ (e' - r) % WRAP = INPUT_BUF_SIZE THEN e' ELSE w
     /\ IF c \in {NL, EOF} THEN Wakeup ELSE Goto(intr, "idle")
     /\ UNCHANGED <<r, rhr, call>>

\* Store the character; a complete line, or a full buffer, is handed to the readers.
intr_store ==
  LET c == IF key = CR THEN NL ELSE key
  IN /\ pc[intr] = "switch" /\ Other /\ Room
     /\ buf' = [buf EXCEPT ![e % INPUT_BUF_SIZE] = c]
     /\ e' = Next1(e)
     /\ lock' = None /\ key' = None
     /\ IF c \in {NL, EOF} \/ (e' - r) % WRAP = INPUT_BUF_SIZE
        THEN w' = e' /\ Wakeup
        ELSE Goto(intr, "idle") /\ UNCHANGED w
     /\ UNCHANGED <<r, rhr, call>>

-------------------------------------------------------------------------------
ReaderStep(p) ==
  \/ acquire(p) \/ read_return(p) \/ read_sleep(p)
  \/ read_eof(p) \/ read_char(p) \/ read_fault(p)

consoleintr == intr_none \/ intr_erase \/ intr_drop \/ intr_store

Next ==
  \/ \E p \in Reader : ReaderStep(p) \/ \E k \in Counts : read(p, k)
  \/ \E p \in Victims : kill(p)
  \/ uartgetc \/ acquire(intr) \/ consoleintr
  \/ \E c \in Key : receive(c)

Spec == Init /\ [][Next]_vars

-------------------------------------------------------------------------------
(* Properties                                                                *)

\* The characters of the ring from index i up to index j.
Between(i, j) ==
  [k \in 1..((j - i) % WRAP) |-> buf[(i + k - 1) % INPUT_BUF_SIZE]]

\* What consoleread() returns is what was typed: the indices r, w and e of the ring
\* implement the line discipline, also when they wrap, when the buffer is full and with
\* several readers.
Lines ==
  INSTANCE LineDiscipline WITH
    Char <- (Key \ {CR}) \cup {NL}, Size <- INPUT_BUF_SIZE,
    edit <- Between(w, e), ready <- Between(r, w), want <- n
LinesInOrder == Lines!Spec

\* Nobody sleeps in vain: a reader asleep in consoleread() has nothing to read, so that
\* consoleintr() has made every wakeup() it owes: at a newline, at ^D, and when the
\* buffer is full without either.
ReadersMustWait ==
  \A p \in Reader : pc[p] = "sleep" => r = w
===============================================================================
