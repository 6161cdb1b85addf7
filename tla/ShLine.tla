--------------------------------- MODULE ShLine ---------------------------------
(***************************************************************************)
(* A user writes a command as a line and the shell reads it: how commands  *)
(* are written, as a grammar, against the parser of ShParse.               *)
(***************************************************************************)
EXTENDS ShParse, SequencesExt

CONSTANTS Commands,   \* the commands that are written
          Blanks      \* what is written between two tokens

VARIABLES meant,   \* the command that was written
          line,    \* the line
          cmd,     \* what the shell made of it
          state    \* "prompt" | "typed" | "parsed"

vars == <<meant, line, cmd, state>>

\* A simple command: EXEC, below any number of redirections.
RECURSIVE Simple(_)
Simple(c) == c.type = "EXEC" \/ (c.type = "REDIR" /\ Simple(c.cmd))

Sign(mode) == IF mode = "+" THEN <<">", ">">> ELSE <<mode>>

RECURSIVE Line(_)

\* The tokens of a command where the grammar wants one without operators.
RECURSIVE Exec(_)
Exec(c) ==
  CASE c.type = "EXEC" -> c.argv
    [] c.type = "REDIR" -> Exec(c.cmd) \o <<Sign(c.mode), c.file>>
    [] OTHER -> <<<<"(">>>> \o Line(c) \o <<<<")">>>>

RECURSIVE Pipe(_)
Pipe(c) == IF c.type = "PIPE" THEN Exec(c.left) \o <<<<"|">>>> \o Pipe(c.right) ELSE Exec(c)

RECURSIVE Back(_)
Back(c) == IF c.type = "BACK" THEN Back(c.cmd) \o <<<<"&">>>> ELSE Pipe(c)

Line(c) == IF c.type = "LIST" THEN Back(c.left) \o <<<<";">>>> \o Line(c.right) ELSE Back(c)

\* The same with the redirections of a simple command before its arguments.
RECURSIVE Redirs(_)
Redirs(c) == IF c.type = "EXEC" THEN <<>> ELSE Redirs(c.cmd) \o <<Sign(c.mode), c.file>>
RECURSIVE Argv(_)
Argv(c) == IF c.type = "EXEC" THEN c.argv ELSE Argv(c.cmd)

Tokens(c) == {Line(c)} \cup (IF Simple(c) THEN {Redirs(c) \o Argv(c)} ELSE {})

\* The characters of the tokens; two words are never written together.
IsWord(t) == t[1] \notin symbols
Text(tokens, blank) ==
  LET Gap(i) == IF i < Len(tokens) /\ IsWord(tokens[i]) /\ IsWord(tokens[i + 1])
                THEN <<" ">> ELSE blank
  IN blank \o FlattenSeq([i \in DOMAIN tokens |-> tokens[i] \o Gap(i)]) \o <<"nl">>

Init == meant = execcmd(<<>>) /\ line = <<>> /\ cmd = {} /\ state = "prompt"

write ==
  /\ state = "prompt" /\ state' = "typed"
  /\ \E c \in Commands : \E t \in Tokens(c), b \in Blanks :
       meant' = c /\ line' = Text(t, b)
  /\ UNCHANGED cmd

read ==
  /\ state = "typed" /\ state' = "parsed"
  /\ cmd' = parsecmd(line)
  /\ UNCHANGED <<meant, line>>

Next == write \/ read

Spec == Init /\ [][Next]_vars

\* The shell understands every line as it was written: the command it will run has
\* the same structure and the same words, whichever way the line is spaced; no word
\* is cut or run together with what follows by the NULs written into the line.
ParsesAsWritten == state = "parsed" => cmd = {meant}
===============================================================================
