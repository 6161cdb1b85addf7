---------------------------- MODULE Console_proofs ----------------------------
(***************************************************************************)
(* Proofs about console input, for any number of readers, any keys and any *)
(* size of the buffer: no reader sleeps beside something to read, and the  *)
(* three indices of cons implement the line discipline.                    *)
(***************************************************************************)
EXTENDS Console, RingBuffer, TLAPS

Actor == Reader \cup {intr}

\* Where the readers and the handler are, the key that the handler has taken, and that a
\* process outside read() asks for nothing.
CallInv ==
  /\ pc \in [Actor -> {"idle", "lock", "read", "sleep", "switch"}]
  /\ pc[intr] \in {"idle", "lock", "switch"}
  /\ \A p \in Reader : pc[p] # "switch"
  /\ rhr \in Key \cup {None}
  /\ pc[intr] # "idle" => key \in Key
  /\ n \in [Reader -> Nat]
  /\ \A p \in Reader : pc[p] = "idle" => n[p] = 0

\* The calls, one case for each action.
LEMMA CallStep ==
  ASSUME ConsoleAssumption, CallInv, [Next]_vars
  PROVE  CallInv'
<1> USE DEF ConsoleAssumption, CallInv, Actor, Goto, Return
<1>1. CASE UNCHANGED vars
  BY <1>1 DEF vars, call
<1>2. ASSUME NEW p \in Reader, NEW k \in Counts, read(p, k) PROVE CallInv'
  BY <1>2 DEF read
<1>3. ASSUME NEW x \in Actor, acquire(x) PROVE CallInv'
  BY <1>3 DEF acquire, call
<1>4. ASSUME NEW p \in Reader, read_return(p) PROVE CallInv'
  BY <1>4 DEF read_return
<1>5. ASSUME NEW p \in Reader, read_sleep(p) PROVE CallInv'
  BY <1>5 DEF read_sleep, call
<1>6. ASSUME NEW p \in Reader, read_eof(p) \/ read_fault(p) PROVE CallInv'
  BY <1>6 DEF read_eof, read_fault, Reading
<1>7. ASSUME NEW p \in Reader, read_char(p) PROVE CallInv'
  BY <1>7 DEF read_char, Reading
<1>8. ASSUME NEW p \in Victims, kill(p) PROVE CallInv'
  BY <1>8 DEF kill
<1>9. ASSUME NEW c \in Key, receive(c) PROVE CallInv'
  BY <1>9 DEF receive, call
<1>10. ASSUME uartgetc PROVE CallInv'
  BY <1>10 DEF uartgetc, call
<1>11. ASSUME intr_none \/ intr_drop \/ intr_erase PROVE CallInv'
  BY <1>11 DEF intr_none, intr_drop, intr_erase, Leave, call
<1>12. ASSUME intr_store PROVE CallInv'
  BY <1>12 DEF intr_store, Wakeup, call
<1> HIDE DEF CallInv
<1> QED
  BY <1>1, <1>2, <1>3, <1>4, <1>5, <1>6, <1>7, <1>8, <1>9, <1>10, <1>11, <1>12
  DEF Next, ReaderStep, consoleintr

\* Whoever sleeps finds the buffer empty, and the handler wakes everybody when it is not.
LEMMA WaitStep ==
  ASSUME ConsoleAssumption, CallInv, ReadersMustWait, [Next]_vars
  PROVE  ReadersMustWait'
<1> USE DEF ConsoleAssumption, CallInv, Actor, Goto, Return, ReadersMustWait, cons
<1>1. CASE UNCHANGED vars
  BY <1>1 DEF vars
<1>2. ASSUME NEW p \in Reader, NEW k \in Counts, read(p, k) PROVE ReadersMustWait'
  BY <1>2 DEF read
<1>3. ASSUME NEW x \in Actor, acquire(x) PROVE ReadersMustWait'
  BY <1>3 DEF acquire
<1>4. ASSUME NEW p \in Reader, read_return(p) PROVE ReadersMustWait'
  BY <1>4 DEF read_return
<1>5. ASSUME NEW p \in Reader, read_sleep(p) PROVE ReadersMustWait'
  BY <1>5 DEF read_sleep
<1>6. ASSUME NEW p \in Reader, read_eof(p) \/ read_fault(p) \/ read_char(p)
      PROVE  ReadersMustWait'
  BY <1>6 DEF read_eof, read_fault, read_char, Reading
<1>7. ASSUME NEW p \in Victims, kill(p) PROVE ReadersMustWait'
  BY <1>7 DEF kill
<1>8. ASSUME NEW c \in Key, receive(c) PROVE ReadersMustWait'
  BY <1>8 DEF receive
<1>9. ASSUME uartgetc PROVE ReadersMustWait'
  BY <1>9 DEF uartgetc
<1>10. ASSUME intr_none \/ intr_drop \/ intr_erase PROVE ReadersMustWait'
  BY <1>10 DEF intr_none, intr_drop, intr_erase, Leave
<1>11. ASSUME intr_store PROVE ReadersMustWait'
  BY <1>11 DEF intr_store, Wakeup
<1> HIDE DEF CallInv, ReadersMustWait
<1> QED
  BY <1>1, <1>2, <1>3, <1>4, <1>5, <1>6, <1>7, <1>8, <1>9, <1>10, <1>11
  DEF Next, ReaderStep, consoleintr

\* consoleread() and consoleintr() lose no wakeup (console.c:96, console.c:172), for any
\* readers that come, go and are killed: who sleeps has nothing to read.
THEOREM ReadersAreWoken ==
  ASSUME ConsoleAssumption
  PROVE  Spec => []ReadersMustWait
<1>1. Init => CallInv /\ ReadersMustWait
  BY DEF ConsoleAssumption, Init, CallInv, ReadersMustWait, Actor
<1>2. CallInv /\ ReadersMustWait /\ [Next]_vars => (CallInv /\ ReadersMustWait)'
  BY CallStep, WaitStep
<1> QED BY <1>1, <1>2, PTL DEF Spec

-------------------------------------------------------------------------------
(* The line discipline                                                         *)

Stuff == Key \cup {NL, Nul}

\* The indices are in the order r, w, e, and no further apart than the buffer is long.
RingInv ==
  /\ buf \in [0..(INPUT_BUF_SIZE - 1) -> Stuff]
  /\ r \in 0..(WRAP - 1) /\ w \in 0..(WRAP - 1) /\ e \in 0..(WRAP - 1)
  /\ Dist(r, w, WRAP) + Dist(w, e, WRAP) <= INPUT_BUF_SIZE

\* The assumption on the sizes, as the lemmas about rings want it.
LEMMA Sizes ==
  ASSUME ConsoleAssumption
  PROVE  /\ INPUT_BUF_SIZE \in Nat \ {0} /\ WRAP \in Nat \ {0}
         /\ WRAP > INPUT_BUF_SIZE /\ Divides(INPUT_BUF_SIZE, WRAP)
BY DEF ConsoleAssumption, Divides

\* The characters between two indices are what the ring holds there.
LEMMA BetweenIsHeld ==
  \A x, y : Between(x, y) = Held(buf, x, y, INPUT_BUF_SIZE, WRAP)
BY DEF Between, Held, Dist

\* The distances of the three indices, and what is between them.
LEMMA RingFacts ==
  ASSUME ConsoleAssumption, RingInv
  PROVE  /\ Dist(r, w, WRAP) \in 0..(WRAP - 1) /\ Dist(w, e, WRAP) \in 0..(WRAP - 1)
         /\ Dist(r, e, WRAP) = Dist(r, w, WRAP) + Dist(w, e, WRAP)
         /\ Between(r, w) \in Seq(Stuff) /\ Between(w, e) \in Seq(Stuff)
         /\ Len(Between(r, w)) = Dist(r, w, WRAP) /\ Len(Between(w, e)) = Dist(w, e, WRAP)
         /\ Between(r, e) = Between(r, w) \o Between(w, e)
<1> DEFINE S == INPUT_BUF_SIZE
           x == Dist(r, w, WRAP)
           y == Dist(w, e, WRAP)
<1>1. /\ S \in Nat \ {0} /\ WRAP \in Nat \ {0} /\ WRAP > S /\ Divides(S, WRAP)
      /\ buf \in [0..(S - 1) -> Stuff]
      /\ r \in 0..(WRAP - 1) /\ w \in 0..(WRAP - 1) /\ e \in 0..(WRAP - 1)
  BY Sizes DEF RingInv
<1>2. x \in 0..(WRAP - 1) /\ y \in 0..(WRAP - 1) /\ x + y <= S
  BY <1>1, DistType, Zenon DEF RingInv
<1>3. x + y < WRAP
  <2> HIDE DEF x, y, S
  <2> QED BY <1>1, <1>2
<1>4. Dist(r, e, WRAP) = x + y
  BY <1>1, <1>3, DistAdd, Zenon
<1>5. Held(buf, r, w, S, WRAP) \in Seq(Stuff) /\ Held(buf, w, e, S, WRAP) \in Seq(Stuff)
  BY <1>1, HeldSeq
<1>6. /\ Length(Held(buf, r, w, S, WRAP)) = x
      /\ Length(Held(buf, w, e, S, WRAP)) = y
  BY <1>1, HeldLength
<1>7. Held(buf, r, e, S, WRAP) = Joined(Held(buf, r, w, S, WRAP), Held(buf, w, e, S, WRAP))
  BY <1>1, <1>3, HeldJoin
<1> QED BY <1>2, <1>4, <1>5, <1>6, <1>7, BetweenIsHeld, Zenon DEF S, Length, Joined

\* ^H and ^U take back the last character of the line being typed.
LEMMA EraseStep ==
  ASSUME ConsoleAssumption, RingInv, intr_erase
  PROVE  RingInv' /\ Lines!Erase
<1> DEFINE S == INPUT_BUF_SIZE
           x == Dist(r, w, WRAP)
           y == Dist(w, e, WRAP)
<1>1. /\ S \in Nat \ {0} /\ WRAP \in Nat \ {0} /\ WRAP > S /\ Divides(S, WRAP)
      /\ buf \in [0..(S - 1) -> Stuff]
      /\ r \in 0..(WRAP - 1) /\ w \in 0..(WRAP - 1) /\ e \in 0..(WRAP - 1) /\ w # e
  BY Sizes DEF RingInv, intr_erase, Erasable
<1>2. buf' = buf /\ r' = r /\ w' = w /\ e' = (e - 1) % WRAP /\ n' = n /\ got' = got
  BY DEF intr_erase, call
<1>3. x \in 0..(WRAP - 1) /\ y \in 0..(WRAP - 1) /\ x + y <= S
  BY RingFacts DEF RingInv
<1>4. e' \in 0..(WRAP - 1) /\ Dist(w, e', WRAP) = y - 1
  <2>1. (e - 1) % WRAP \in 0..(WRAP - 1)
    BY <1>1, NextIndex, ZenonT(60)
  <2>2. Dist(w, (e - 1) % WRAP, WRAP) = y - 1
    BY <1>1, DistStep, ZenonT(60)
  <2> QED BY <1>2, <2>1, <2>2, Zenon
<1>5. RingInv'
  <2> HIDE DEF x, y
  <2>1. Dist(r', w', WRAP) = x
    BY <1>2 DEF x
  <2>2. Dist(w', e', WRAP) = y - 1
    BY <1>2, <1>4
  <2>3. x + (y - 1) <= S
    <3> HIDE DEF S
    <3> QED BY <1>1, <1>3
  <2> QED BY <1>1, <1>2, <1>4, <2>1, <2>2, <2>3 DEF RingInv, Stuff
<1>6. Between(r, w)' = Between(r, w)
  BY <1>2 DEF Between
<1>7. Between(w, e)' = Shortened(Between(w, e))
  <2>1. Between(w, e)' = Held(buf', w', e', S, WRAP)
    BY DEF Between, Held, Dist
  <2>2. Held(buf, w, (e - 1) % WRAP, S, WRAP) = Shortened(Held(buf, w, e, S, WRAP))
    <3> HIDE DEF S
    <3> QED BY <1>1, HeldErase
  <2> QED BY <1>2, <2>1, <2>2, BetweenIsHeld
<1>8. Between(w, e) # <<>>
  <2>1. y # 0
    BY <1>1, DistStep, ZenonT(60)
  <2>2. Len(Between(w, e)) = y
    BY RingFacts
  <2> HIDE DEF y
  <2> QED BY <2>1, <2>2
<1> QED
  <2>1. Lines!Erase
    BY <1>2, <1>6, <1>7, <1>8, Zenon DEF Lines!Erase, Shortened
  <2> QED BY <1>5, <2>1

\* consoleread() takes the oldest character of the complete lines.
LEMMA TakeStep ==
  ASSUME ConsoleAssumption, RingInv, r # w, r' = Next1(r), buf' = buf, w' = w, e' = e
  PROVE  /\ RingInv'
         /\ Between(r, w)' = Tail(Between(r, w))
         /\ Between(w, e)' = Between(w, e)
<1> DEFINE S == INPUT_BUF_SIZE
           x == Dist(r, w, WRAP)
           y == Dist(w, e, WRAP)
<1>1. /\ S \in Nat \ {0} /\ WRAP \in Nat \ {0} /\ WRAP > S /\ Divides(S, WRAP)
      /\ buf \in [0..(S - 1) -> Stuff]
      /\ r \in 0..(WRAP - 1) /\ w \in 0..(WRAP - 1) /\ e \in 0..(WRAP - 1)
      /\ r' = (r + 1) % WRAP
  BY Sizes DEF RingInv, Next1
<1>2. x \in 0..(WRAP - 1) /\ y \in 0..(WRAP - 1) /\ x + y <= S
  BY RingFacts DEF RingInv
<1>3. r' \in 0..(WRAP - 1) /\ Dist(r', w, WRAP) = x - 1
  <2>1. (r + 1) % WRAP \in 0..(WRAP - 1)
    BY <1>1, NextIndex, Zenon
  <2>2. Dist((r + 1) % WRAP, w, WRAP) = x - 1
    BY <1>1, DistStep, Zenon
  <2> QED BY <1>1, <2>1, <2>2, Zenon
<1>4. RingInv'
  <2> HIDE DEF x, y
  <2>1. Dist(w', e', WRAP) = y
    BY DEF y
  <2>2. (x - 1) + y <= S
    <3> HIDE DEF S
    <3> QED BY <1>1, <1>2
  <2> QED BY <1>1, <1>3, <2>1, <2>2 DEF RingInv, Stuff
<1>5. Between(r, w)' = Tail(Between(r, w))
  <2>1. Between(r, w)' = Held(buf', r', w', S, WRAP)
    BY DEF Between, Held, Dist
  <2>2. Held(buf, (r + 1) % WRAP, w, S, WRAP) = Tail(Held(buf, r, w, S, WRAP))
    <3> HIDE DEF S
    <3> QED BY <1>1, HeldGet, ZenonT(60)
  <2> QED BY <1>1, <2>1, <2>2, BetweenIsHeld
<1>6. Between(w, e)' = Between(w, e)
  BY DEF Between
<1> QED BY <1>4, <1>5, <1>6

\* That character is the one at the index r.
LEMMA HeadOfLines ==
  ASSUME ConsoleAssumption, RingInv, r # w
  PROVE  Between(r, w) # <<>> /\ Head(Between(r, w)) = buf[r % INPUT_BUF_SIZE]
<1> DEFINE S == INPUT_BUF_SIZE
           x == Dist(r, w, WRAP)
<1>1. /\ S \in Nat \ {0} /\ WRAP \in Nat \ {0} /\ WRAP > S /\ Divides(S, WRAP)
      /\ buf \in [0..(S - 1) -> Stuff]
      /\ r \in 0..(WRAP - 1) /\ w \in 0..(WRAP - 1)
  BY Sizes DEF RingInv
<1>2. x # 0
  BY <1>1, DistStep, ZenonT(60)
<1>3. Len(Between(r, w)) = x
  BY RingFacts
<1>4. Between(r, w) # <<>>
  <2> HIDE DEF x
  <2> QED BY <1>2, <1>3
<1>5. Head(Held(buf, r, w, S, WRAP)) = buf[r % S]
  <2> HIDE DEF S
  <2> QED BY <1>1, HeldHead, ZenonT(60)
<1> QED BY <1>4, <1>5, BetweenIsHeld

\* A character goes to the end of the line, which is handed over when it is complete or
\* when the buffer is full.
LEMMA StoreStep ==
  ASSUME ConsoleAssumption, CallInv, RingInv, intr_store
  PROVE  RingInv' /\ \E c \in (Key \ {CR}) \cup {NL} : Lines!Enter(c)
<1> DEFINE S == INPUT_BUF_SIZE
           x == Dist(r, w, WRAP)
           y == Dist(w, e, WRAP)
           c == IF key = CR THEN NL ELSE key
           new == Stored(buf, e % S, c)
           f == (e + 1) % WRAP
<1>1. /\ S \in Nat \ {0} /\ WRAP \in Nat \ {0} /\ WRAP > S /\ Divides(S, WRAP)
      /\ buf \in [0..(S - 1) -> Stuff]
      /\ r \in 0..(WRAP - 1) /\ w \in 0..(WRAP - 1) /\ e \in 0..(WRAP - 1)
  BY Sizes DEF RingInv
<1>2. c \in Stuff /\ c \in (Key \ {CR}) \cup {NL}
  BY DEF CallInv, Stuff, intr_store
<1>3. /\ buf' = new /\ e' = f /\ r' = r /\ n' = n /\ got' = got
      /\ IF c \in {NL, EOF} \/ Dist(r, f, WRAP) = S THEN w' = f ELSE w' = w
  BY DEF intr_store, call, Next1, Stored, Dist
<1>4. /\ x \in 0..(WRAP - 1) /\ y \in 0..(WRAP - 1) /\ Dist(r, e, WRAP) = x + y
      /\ Len(Between(r, w)) = x /\ Len(Between(w, e)) = y
      /\ Between(r, w) \in Seq(Stuff) /\ Between(w, e) \in Seq(Stuff)
      /\ Between(r, e) = Between(r, w) \o Between(w, e)
  BY RingFacts
<1>5. Dist(r, e, WRAP) < S
  BY DEF intr_store, Room, Dist
<1>6. x + y < S /\ y < S /\ x <= x + y /\ x + y + 1 < WRAP /\ y + 1 < WRAP
  <2> HIDE DEF x, y, S
  <2> QED BY <1>1, <1>4, <1>5
<1>7. f \in 0..(WRAP - 1)
  BY <1>1, NextIndex, Zenon
<1>8. Dist(w, f, WRAP) = y + 1
  BY <1>1, <1>6, DistStep, Zenon
<1>9. Dist(r, f, WRAP) = x + y + 1
  <2>1. Dist(r, e, WRAP) + 1 < WRAP
    BY <1>4, <1>6
  <2>2. Dist(r, f, WRAP) = Dist(r, e, WRAP) + 1
    BY <1>1, <2>1, DistStep, Zenon
  <2> QED BY <1>4, <2>2
<1>10. new \in [0..(S - 1) -> Stuff]
  <2> HIDE DEF S, c
  <2>1. e \in Int
    BY <1>1
  <2>2. e % S \in 0..(S - 1)
    BY <1>1, <2>1, Division
  <2> QED BY <1>1, <1>2, <2>2 DEF Stored
<1>11. /\ Held(new, w, f, S, WRAP) = Added(Between(w, e), c)
       /\ Held(new, r, f, S, WRAP) = Added(Between(r, e), c)
       /\ Held(new, r, w, S, WRAP) = Between(r, w)
  <2>1. Dist(w, e, WRAP) < S /\ Dist(r, w, WRAP) <= Dist(r, e, WRAP)
    BY <1>4, <1>6
  <2> HIDE DEF S, c
  <2>2. Held(Stored(buf, e % S, c), w, (e + 1) % WRAP, S, WRAP)
          = Added(Held(buf, w, e, S, WRAP), c)
    BY <1>1, <1>2, <2>1, HeldPut
  <2>3. Held(Stored(buf, e % S, c), r, (e + 1) % WRAP, S, WRAP)
          = Added(Held(buf, r, e, S, WRAP), c)
    BY <1>1, <1>2, <1>5, HeldPut
  <2>4. Held(Stored(buf, e % S, c), r, w, S, WRAP) = Held(buf, r, w, S, WRAP)
    BY <1>1, <1>2, <1>5, <2>1, HeldKept
  <2> QED BY <2>2, <2>3, <2>4, BetweenIsHeld, Zenon DEF S
<1>12. /\ Between(r, w)' = Held(new, r, w', S, WRAP)
       /\ Between(w, e)' = Held(new, w', f, S, WRAP)
  <2>1. /\ Between(r, w)' = Held(buf', r', w', S, WRAP)
        /\ Between(w, e)' = Held(buf', w', e', S, WRAP)
    BY DEF Between, Held, Dist
  <2> HIDE DEF new, f, S
  <2> QED BY <1>3, <2>1, Zenon
<1>13. CASE c \in {NL, EOF} \/ x + y + 1 = S
  <2>1. w' = f
    BY <1>3, <1>9, <1>13
  <2>2. Dist(f, f, WRAP) = 0
    BY <1>1, <1>7, DistStep, Zenon
  <2>3. RingInv'
    <3>1. Dist(r', w', WRAP) = x + y + 1 /\ Dist(w', e', WRAP) = 0
      BY <1>3, <1>9, <2>1, <2>2, Zenon
    <3>2. x + y + 1 + 0 <= S
      <4> HIDE DEF x, y, S
      <4> QED BY <1>1, <1>4, <1>6
    <3> HIDE DEF x, y, new, f
    <3> QED BY <1>1, <1>3, <1>7, <1>10, <2>1, <3>1, <3>2 DEF RingInv, Stuff
  <2>4. Between(w, e)' = <<>>
    <3>1. Held(new, f, f, S, WRAP) = <<>>
      BY <2>2 DEF Held
    <3> QED BY <1>12, <2>1, <3>1, Zenon
  <2>5. Between(r, w)' = Between(r, w) \o Append(Between(w, e), c)
    <3>1. Between(r, w)' = Append(Between(r, w) \o Between(w, e), c)
      BY <1>4, <1>11, <1>12, <2>1, Zenon DEF Added
    <3> DEFINE g == Between(r, w)
               h == Between(w, e)
    <3>2. g \in Seq(Stuff) /\ h \in Seq(Stuff)
      BY <1>4
    <3> HIDE DEF g, h, c
    <3>3. Append(g \o h, c) = g \o Append(h, c)
      BY <1>2, <3>2
    <3> QED BY <3>1, <3>3 DEF g, h
  <2>6. Lines!Enter(c)
    <3>1. Len(Between(r, w)) + Len(Between(w, e)) = x + y
      BY <1>4
    <3> HIDE DEF x, y, c
    <3> QED BY <1>3, <1>6, <1>13, <2>4, <2>5, <3>1 DEF Lines!Enter
  <2> QED BY <1>2, <2>3, <2>6
<1>14. CASE ~(c \in {NL, EOF} \/ x + y + 1 = S)
  <2>1. w' = w
    BY <1>3, <1>9, <1>14
  <2>2. RingInv'
    <3>1. Dist(r', w', WRAP) = x /\ Dist(w', e', WRAP) = y + 1
      BY <1>3, <1>8, <2>1, Zenon
    <3>2. x + (y + 1) <= S
      <4> HIDE DEF x, y, S
      <4> QED BY <1>1, <1>4, <1>6
    <3> HIDE DEF x, y, new, f
    <3> QED BY <1>1, <1>3, <1>7, <1>10, <2>1, <3>1, <3>2 DEF RingInv, Stuff
  <2>3. Between(r, w)' = Between(r, w) /\ Between(w, e)' = Append(Between(w, e), c)
    BY <1>11, <1>12, <2>1, Zenon DEF Added
  <2>4. Lines!Enter(c)
    <3>1. Len(Between(r, w)) + Len(Between(w, e)) = x + y
      BY <1>4
    <3> HIDE DEF x, y, c
    <3> QED BY <1>3, <1>6, <1>14, <2>3, <3>1 DEF Lines!Enter
  <2> QED BY <1>2, <2>2, <2>4
<1> QED BY <1>13, <1>14

\* The buffer of console.c implements the line discipline (console.c:80, console.c:136), for
\* any number of readers, any size of the buffer and any modulus of its indices: erased
\* characters are never read, and the others are read once, in the order they were typed.
THEOREM ConsoleIsALineDiscipline ==
  ASSUME ConsoleAssumption
  PROVE  Spec => LinesInOrder
<1>1. Init => CallInv /\ RingInv /\ Lines!Init
  <2> SUFFICES ASSUME Init PROVE CallInv /\ RingInv /\ Lines!Init
    OBVIOUS
  <2>1. CallInv
    BY DEF ConsoleAssumption, Init, CallInv, Actor
  <2>2. Dist(0, 0, WRAP) = 0
    <3>1. WRAP \in Nat \ {0} /\ 0 \in 0..(WRAP - 1)
      BY DEF ConsoleAssumption
    <3> QED BY <3>1, DistStep
  <2>3. RingInv
    BY <2>2 DEF ConsoleAssumption, Init, RingInv, Stuff
  <2>4. Between(r, w) = <<>> /\ Between(w, e) = <<>>
    BY <2>2 DEF Init, Between, Dist
  <2> QED BY <2>1, <2>3, <2>4 DEF Init, Lines!Init
<1>2. CallInv /\ RingInv /\ [Next]_vars
        => CallInv' /\ RingInv' /\ [Lines!Next]_(Lines!vars)
  <2> SUFFICES ASSUME CallInv, RingInv, [Next]_vars
               PROVE  CallInv' /\ RingInv' /\ [Lines!Next]_(Lines!vars)
    OBVIOUS
  <2>1. CallInv'
    BY CallStep
  <2>2. ASSUME UNCHANGED cons
        PROVE  RingInv' /\ UNCHANGED <<Between(r, w), Between(w, e)>>
    BY <2>2 DEF cons, RingInv, Between, Stuff
  <2>3. ASSUME UNCHANGED cons, UNCHANGED <<n, got>>
        PROVE  RingInv' /\ UNCHANGED Lines!vars
    BY <2>2, <2>3 DEF Lines!vars
  <2>4. ASSUME NEW p \in Reader, NEW k \in Counts, read(p, k)
        PROVE  RingInv' /\ Lines!Next
    BY <2>2, <2>4 DEF read, CallInv, Lines!Next, Lines!Begin
  <2>5. ASSUME NEW p \in Reader, read_return(p)
        PROVE  RingInv' /\ [Lines!Next]_(Lines!vars)
    <3>1. UNCHANGED cons /\ UNCHANGED got /\ n' = [n EXCEPT ![p] = 0]
      BY <2>5 DEF read_return, Return
    <3>2. CASE n[p] = 0
      <4>1. n' = n
        BY <3>1, <3>2 DEF CallInv
      <4> QED BY <2>3, <3>1, <4>1
    <3>3. CASE n[p] # 0
      <4>1. r = w /\ n[p] > 0
        BY <2>5, <3>3 DEF read_return, CallInv
      <4>2. Dist(r, w, WRAP) = 0
        BY <4>1, Sizes, DistStep DEF RingInv
      <4>3. Between(r, w) = <<>>
        BY <4>2 DEF Between, Dist
      <4>4. Lines!Fault(p)
        BY <2>2, <3>1, <4>1, <4>3 DEF Lines!Fault
      <4> QED BY <2>2, <3>1, <4>4 DEF Lines!Next
    <3> QED BY <3>2, <3>3
  <2>6. ASSUME NEW p \in Reader, read_eof(p)
        PROVE  RingInv' /\ Lines!Next
    <3>1. /\ Between(r, w) # <<>> /\ Head(Between(r, w)) = EOF /\ n[p] > 0
          /\ n' = [n EXCEPT ![p] = 0] /\ UNCHANGED <<got, buf, w, e>>
      BY <2>6, HeadOfLines DEF read_eof, Reading, Return
    <3>2. CASE got[p] # <<>>
      <4>1. UNCHANGED cons
        BY <2>6, <3>2 DEF read_eof, cons
      <4> QED BY <2>2, <3>1, <3>2, <4>1 DEF Lines!Next, Lines!End
    <3>3. CASE got[p] = <<>>
      <4>1. r # w /\ r' = Next1(r)
        BY <2>6, <3>3 DEF read_eof, Reading
      <4> QED BY <3>1, <3>3, <4>1, TakeStep DEF Lines!Next, Lines!End
    <3> QED BY <3>2, <3>3
  <2>7. ASSUME NEW p \in Reader, read_fault(p)
        PROVE  RingInv' /\ Lines!Next
    <3>1. /\ Between(r, w) # <<>> /\ Head(Between(r, w)) # EOF /\ n[p] > 0
          /\ n' = [n EXCEPT ![p] = 0] /\ UNCHANGED <<got, buf, w, e>>
          /\ r # w /\ r' = Next1(r)
      BY <2>7, HeadOfLines DEF read_fault, Reading, Return
    <3> QED BY <3>1, TakeStep DEF Lines!Next, Lines!Fault
  <2>8. ASSUME NEW p \in Reader, read_char(p)
        PROVE  RingInv' /\ Lines!Next
    <3> DEFINE c == Head(Between(r, w))
    <3>1. /\ Between(r, w) # <<>> /\ c = buf[r % INPUT_BUF_SIZE] /\ r # w
      BY <2>8, HeadOfLines DEF read_char, Reading
    <3> HIDE DEF c
    <3>2. /\ c # EOF /\ n[p] > 0 /\ UNCHANGED <<buf, w, e>> /\ r' = Next1(r)
          /\ n' = [n EXCEPT ![p] = IF c = NL THEN 0 ELSE @ - 1]
          /\ got' = [got EXCEPT ![p] = Append(@, c)]
      BY <2>8, <3>1 DEF read_char, Reading, Return
    <3> QED BY <3>1, <3>2, TakeStep DEF Lines!Next, Lines!Take, c
  <2>9. ASSUME intr_erase PROVE RingInv' /\ Lines!Next
    BY <2>9, EraseStep DEF Lines!Next
  <2>10. ASSUME intr_store PROVE RingInv' /\ Lines!Next
    BY <2>10, StoreStep DEF Lines!Next
  <2>11. ASSUME \/ UNCHANGED vars \/ uartgetc \/ intr_none \/ intr_drop
                \/ \E x \in Actor : acquire(x)
                \/ \E p \in Reader : read_sleep(p)
                \/ \E p \in Victims : kill(p)
                \/ \E c \in Key : receive(c)
         PROVE  RingInv' /\ UNCHANGED Lines!vars
    <3>1. UNCHANGED cons /\ UNCHANGED <<n, got>>
      BY <2>11 DEF vars, uartgetc, intr_none, intr_drop, acquire, read_sleep, kill, receive, call
    <3> QED BY <2>3, <3>1
  <2> QED
    BY <2>1, <2>4, <2>5, <2>6, <2>7, <2>8, <2>9, <2>10, <2>11
    DEF Next, ReaderStep, consoleintr, Actor
<1> QED
  BY <1>1, <1>2, PTL DEF Spec, LinesInOrder, Lines!Spec

===============================================================================
