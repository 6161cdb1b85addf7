---------------------------------- MODULE Grep ----------------------------------
(***************************************************************************)
(* user/grep.c: the loop that reads a file in pieces into a buffer and     *)
(* prints the lines that match, and the matcher.  A text and a pattern are *)
(* sequences of characters; a file holds no NUL.                           *)
(***************************************************************************)
EXTENDS Integers, Sequences, SequencesExt

CONSTANTS Patterns,   \* the patterns
          Texts,      \* what a file may hold
          MAXFILES,   \* bound: the number of file arguments
          BUFSIZE,    \* sizeof(buf), 1024 in the code
          NL          \* the newline

VARIABLES pattern,   \* argv[1]
          files,     \* the file arguments that are left
          state,     \* "start" | "open" | "grep" | "exit"
          text,      \* the file being read
          pos,       \* how much of it was read
          buf,       \* buf[0..m): the start of a line, between two calls of read()
          out        \* what was written for this file

vars == <<pattern, files, state, text, pos, buf, out>>

Init ==
  /\ pattern = <<>> /\ files = 0 /\ state = "start"
  /\ text = <<>> /\ pos = 0 /\ buf = <<>> /\ out = <<>>

From(s, k) == SubSeq(s, k, Len(s))

-------------------------------------------------------------------------------
(* The matcher                                                                 *)

RECURSIVE matchhere(_, _)
RECURSIVE matchstar(_, _, _)

matchhere(re, s) ==
  IF re = <<>> THEN TRUE
  ELSE IF Len(re) > 1 /\ re[2] = "*" THEN matchstar(re[1], From(re, 3), s)
  ELSE IF re = <<"$">> THEN s = <<>>
  ELSE s # <<>> /\ re[1] \in {".", s[1]} /\ matchhere(Tail(re), Tail(s))

MutStarsLiteral(c, re, s) ==
  \/ matchhere(re, s)
  \/ s # <<>> /\ c = s[1] /\ matchstar(c, re, Tail(s))

\* The loop: no instance of c, or one and again.
matchstar(c, re, s) ==
  \/ matchhere(re, s)
  \/ s # <<>> /\ c \in {".", s[1]} /\ matchstar(c, re, Tail(s))

match(re, s) ==
  IF re # <<>> /\ re[1] = "^" THEN matchhere(Tail(re), s)
  ELSE \E k \in 1..(Len(s) + 1) : matchhere(re, From(s, k))

-------------------------------------------------------------------------------
(* The loops of grep() and main()                                              *)

\* The first newline at or after p, strchr(); 0 if there is none.
strchr(s, p) ==
  LET at == {k \in p..Len(s) : s[k] = NL}
  IN IF at = {} THEN 0 ELSE CHOOSE k \in at : \A j \in at : k <= j

\* The inner loop from the line at p on: what it writes, and where it stops.
RECURSIVE Scan(_, _, _)
Scan(s, p, written) ==
  LET q == strchr(s, p)
      line == SubSeq(s, p, q)
  IN IF q = 0 THEN [p |-> p, out |-> written]
     ELSE Scan(s, q + 1, IF match(pattern, Front(line)) THEN written \o line ELSE written)

\* argc <= 2: one call of grep(), for standard input.
main ==
  /\ state = "start"
  /\ \E re \in Patterns, n \in 0..MAXFILES :
       /\ pattern' = re /\ files' = n
       /\ IF n = 0 THEN state' = "grep" /\ text' \in Texts ELSE state' = "open" /\ UNCHANGED text
  /\ UNCHANGED <<pos, buf, out>>

\* read() returns any number of bytes up to the room that is left.
Room == BUFSIZE - Len(buf) - 1

read(n) ==
  /\ state = "grep"
  /\ n \in 1..Room /\ pos + n <= Len(text)
  /\ LET s == buf \o SubSeq(text, pos + 1, pos + n)
         end == Scan(s, 1, <<>>)
     IN out' = out \o end.out /\ buf' = From(s, end.p)
  /\ pos' = pos + n
  /\ UNCHANGED <<pattern, files, state, text>>

\* read() returns 0: the file has ended, or a line fills the buffer.
grep_return ==
  /\ state = "grep"
  /\ pos = Len(text) \/ Room = 0
  /\ state' = IF files = 0 THEN "exit" ELSE "open"
  /\ UNCHANGED <<pattern, files, text, pos, buf, out>>

open ==
  /\ state = "open" /\ files > 0
  /\ files' = files - 1
  /\ state' = "grep"
  /\ text' \in Texts
  /\ pos' = 0 /\ buf' = <<>> /\ out' = <<>>
  /\ UNCHANGED pattern

open_fails ==
  /\ state = "open" /\ files > 0
  /\ state' = "exit"
  /\ UNCHANGED <<pattern, files, text, pos, buf, out>>

Next ==
  \/ main \/ open \/ open_fails \/ grep_return
  \/ \E n \in 1..BUFSIZE : read(n)

Spec == Init /\ [][Next]_vars

-------------------------------------------------------------------------------
(* What it promises                                                            *)

\* A pattern as a sequence of items, without its ^ and $.
RECURSIVE Items(_)
Items(re) ==
  IF re \in {<<>>, <<"$">>} THEN <<>>
  ELSE LET star == Len(re) > 1 /\ re[2] = "*"
       IN <<[c |-> re[1], star |-> star]>> \o Items(From(re, IF star THEN 3 ELSE 2))
Starts(re) == re # <<>> /\ re[1] = "^"

\* The line can be cut into pieces, one for each item of the pattern in its order.
Matches(re, line) ==
  LET body == IF Starts(re) THEN Tail(re) ELSE re
      it == Items(body)
      n == Len(it)
      ends == body # <<>> /\ Last(body) = "$"
      Fits(i, a, b) ==
        /\ it[i].star \/ b = a + 1
        /\ \A k \in a..(b - 1) : it[i].c \in {".", line[k]}
  IN \E cut \in [1..(n + 1) -> 1..(Len(line) + 1)] :
        /\ \A i \in 1..n : cut[i] <= cut[i + 1] /\ Fits(i, cut[i], cut[i + 1])
        /\ Starts(re) => cut[1] = 1
        /\ ends => cut[n + 1] = Len(line) + 1

\* The lines of s that end, each with its newline.
Lines(s) ==
  LET nl == {0} \cup {k \in DOMAIN s : s[k] = NL}
      at == SetToSortSeq(nl, <)
  IN [i \in 1..(Len(at) - 1) |-> SubSeq(s, at[i] + 1, at[i + 1])]

Selected(s) == FlattenSeq(SelectSeq(Lines(s), LAMBDA l : Matches(pattern, Front(l))))

\* grep() writes exactly the lines that match, whole and in their order, however
\* the calls of read() cut the file into pieces; and if no line is too long for
\* the buffer it has looked at all of them when it returns.
PrintsTheMatches ==
  /\ state = "grep" => out = Selected(SubSeq(text, 1, pos))
  /\ LET fits == \A l \in Range(Lines(Append(text, NL))) : Len(l) < BUFSIZE
     IN state # "grep" /\ fits => out = Selected(text)
===============================================================================
