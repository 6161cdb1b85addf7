---------------------------- MODULE LineDiscipline ----------------------------
(* What the console promises to those who read it: the characters of a line    *)
(* can be erased until the line is complete, and complete lines are read in    *)
(* the order they were typed, each character once; a read ends with a line, at *)
(* an end of file or when it has what it asked for.                            *)
EXTENDS Integers, Sequences

CONSTANTS Reader, Char, Counts, Size, NL, EOF

VARIABLES edit,    \* the line being typed
          ready,   \* complete lines, not yet read
          want,    \* what each reader's read() still asks for
          got      \* what it has got

vars == <<edit, ready, want, got>>

Init == /\ edit = <<>> /\ ready = <<>>
        /\ want = [p \in Reader |-> 0]
        /\ got = [p \in Reader |-> <<>>]

\* A line is complete at its newline, at an end of file, or when nothing more fits.
Enter(c) ==
  /\ Len(ready) + Len(edit) < Size
  /\ IF c \in {NL, EOF} \/ Len(ready) + Len(edit) + 1 = Size
     THEN ready' = ready \o Append(edit, c) /\ edit' = <<>>
     ELSE edit' = Append(edit, c) /\ UNCHANGED ready
  /\ UNCHANGED <<want, got>>

Erase ==
  /\ edit # <<>>
  /\ edit' = SubSeq(edit, 1, Len(edit) - 1)
  /\ UNCHANGED <<ready, want, got>>

Begin(p, k) ==
  /\ want[p] = 0
  /\ want' = [want EXCEPT ![p] = k]
  /\ got' = [got EXCEPT ![p] = <<>>]
  /\ UNCHANGED <<edit, ready>>

Take(p) ==
  /\ want[p] > 0 /\ ready # <<>> /\ Head(ready) # EOF
  /\ ready' = Tail(ready)
  /\ got' = [got EXCEPT ![p] = Append(@, Head(ready))]
  /\ want' = [want EXCEPT ![p] = IF Head(ready) = NL THEN 0 ELSE @ - 1]
  /\ UNCHANGED edit

\* An end of file ends the read, and is kept for the next one unless this one has
\* got nothing: every end of file ends one read() with 0.
End(p) ==
  /\ want[p] > 0 /\ ready # <<>> /\ Head(ready) = EOF
  /\ ready' = IF got[p] = <<>> THEN Tail(ready) ELSE ready
  /\ want' = [want EXCEPT ![p] = 0]
  /\ UNCHANGED <<edit, got>>

\* The reader's buffer is not there (the character is lost), or it was killed while
\* there was nothing to read.
Fault(p) ==
  /\ want[p] > 0
  /\ \/ ready = <<>> /\ UNCHANGED ready
     \/ ready # <<>> /\ Head(ready) # EOF /\ ready' = Tail(ready)
  /\ want' = [want EXCEPT ![p] = 0]
  /\ UNCHANGED <<edit, got>>

Next == \/ Erase
        \/ \E c \in Char : Enter(c)
        \/ \E p \in Reader : Take(p) \/ End(p) \/ Fault(p) \/ \E k \in Counts : Begin(p, k)

Spec == Init /\ [][Next]_vars
===============================================================================
