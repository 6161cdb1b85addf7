-------------------------------- MODULE ShParse --------------------------------
(***************************************************************************)
(* The parser of user/sh.c.  A line is a sequence of characters, its last  *)
(* one the newline; an index into it stands for a pointer, and the index   *)
(* after the end, es, for the NUL that ends the string.  A word is the     *)
(* pair <<q, eq>> until nulterminate() turns it into a C string.           *)
(***************************************************************************)
EXTENDS Integers, Sequences

CONSTANTS MAXARGS    \* 10 in the code

Nul == "nul"
whitespace == {" ", "nl"}
symbols == {"<", "|", ">", "&", ";", "(", ")"}

At(l, s) == IF s <= Len(l) THEN l[s] ELSE Nul

\* The first place from s on that holds none of the characters in S.
Past(l, s, S) == CHOOSE k \in s..(Len(l) + 1) :
                   At(l, k) \notin S /\ \A j \in s..(k - 1) : l[j] \in S
Skip(l, s) == Past(l, s, whitespace)

MutWordToBlank(l, s) == Past(l, s, {c \in {l[k] : k \in DOMAIN l} : c \notin whitespace})

\* The end of the word at s.
WordEnd(l, s) == Past(l, s, {c \in {l[k] : k \in DOMAIN l} : c \notin whitespace \cup symbols})

gettoken(l, s) ==
  LET q == Skip(l, s)
      c == At(l, q)
      append == c = ">" /\ At(l, q + 1) = ">"
      eq == IF c = Nul THEN q ELSE IF append THEN q + 2 ELSE IF c \in symbols THEN q + 1 ELSE WordEnd(l, q)
  IN [tok |-> IF append THEN "+" ELSE IF c \in symbols \cup {Nul} THEN c ELSE "a",
      q |-> q, eq |-> eq, s |-> Skip(l, eq)]

peek(l, s, toks) == At(l, Skip(l, s)) \in toks

-------------------------------------------------------------------------------
(* The constructors.  The mode of a redirection is its token.                  *)

execcmd(argv) == [type |-> "EXEC", argv |-> argv]
redircmd(cmd, file, mode) == [type |-> "REDIR", cmd |-> cmd, file |-> file, mode |-> mode]
pipecmd(left, right) == [type |-> "PIPE", left |-> left, right |-> right]
listcmd(left, right) == [type |-> "LIST", left |-> left, right |-> right]
backcmd(cmd) == [type |-> "BACK", cmd |-> cmd]

\* A function of the parser returns {[s |-> *ps, cmd |-> the command]}, or the empty
\* set when it calls panic(), which ends them all.
Parsed(s, cmd) == [s |-> s, cmd |-> cmd]

\* The redirections that follow, the last of them outermost.
RECURSIVE parseredirs(_, _)
parseredirs(l, r) ==
  LET Files(t) == {f \in {gettoken(l, t.s)} : f.tok = "a"}
      Next(t) == UNION {parseredirs(l, Parsed(f.s, redircmd(r.cmd, <<f.q, f.eq>>, t.tok))) : f \in Files(t)}
  IN IF peek(l, r.s, {"<", ">"}) THEN UNION {Next(t) : t \in {gettoken(l, r.s)}} ELSE {r}

\* cmd->argv[argc] = q, in the command below the redirections read so far.
RECURSIVE AddArg(_, _)
AddArg(ret, w) == IF ret.type = "REDIR" THEN [ret EXCEPT !.cmd = AddArg(@, w)]
                                        ELSE [ret EXCEPT !.argv = Append(@, w)]
RECURSIVE Argc(_)
Argc(ret) == IF ret.type = "REDIR" THEN Argc(ret.cmd) ELSE Len(ret.argv)

\* The loop of parseexec().
RECURSIVE Args(_, _)
Args(l, r) ==
  LET Next(t) ==
        IF t.tok = Nul THEN {r}
        ELSE IF t.tok # "a" \/ Argc(r.cmd) + 1 >= MAXARGS THEN {}
        ELSE UNION {Args(l, x) : x \in parseredirs(l, Parsed(t.s, AddArg(r.cmd, <<t.q, t.eq>>)))}
  IN IF peek(l, r.s, {"|", ")", "&", ";"}) THEN {r} ELSE UNION {Next(t) : t \in {gettoken(l, r.s)}}

RECURSIVE parseline(_, _)

parseblock(l, s) ==
  UNION {parseredirs(l, Parsed(gettoken(l, r.s).s, r.cmd)) :
         r \in {x \in parseline(l, gettoken(l, s).s) : peek(l, x.s, {")"})}}

parseexec(l, s) ==
  IF peek(l, s, {"("}) THEN parseblock(l, s)
  ELSE UNION {Args(l, r) : r \in parseredirs(l, Parsed(s, execcmd(<<>>)))}

RECURSIVE parsepipe(_, _)
parsepipe(l, s) ==
  LET More(r) == {Parsed(m.s, pipecmd(r.cmd, m.cmd)) : m \in parsepipe(l, gettoken(l, r.s).s)}
  IN UNION {IF peek(l, r.s, {"|"}) THEN More(r) ELSE {r} : r \in parseexec(l, s)}

\* The while loop of parseline().
RECURSIVE Backs(_, _)
Backs(l, r) == IF peek(l, r.s, {"&"}) THEN Backs(l, Parsed(gettoken(l, r.s).s, backcmd(r.cmd))) ELSE r

parseline(l, s) ==
  LET More(r) == {Parsed(m.s, listcmd(r.cmd, m.cmd)) : m \in parseline(l, gettoken(l, r.s).s)}
  IN UNION {IF peek(l, r.s, {";"}) THEN More(r) ELSE {r} : r \in {Backs(l, x) : x \in parsepipe(l, s)}}

-------------------------------------------------------------------------------
\* The places where nulterminate() writes a NUL.
RECURSIVE Ends(_)
Ends(cmd) ==
  CASE cmd.type = "EXEC" -> {cmd.argv[i][2] : i \in DOMAIN cmd.argv}
    [] cmd.type = "REDIR" -> Ends(cmd.cmd) \cup {cmd.file[2]}
    [] cmd.type = "BACK" -> Ends(cmd.cmd)
    [] OTHER -> Ends(cmd.left) \cup Ends(cmd.right)

\* The command as runcmd() sees it: each word the C string at q in the memory m.
RECURSIVE Read(_, _)
Read(m, cmd) ==
  LET String(w) == SubSeq(m, w[1], (CHOOSE k \in w[1]..Len(m) :
                            m[k] = Nul /\ \A j \in w[1]..(k - 1) : m[j] # Nul) - 1)
  IN CASE cmd.type = "EXEC" -> execcmd([i \in DOMAIN cmd.argv |-> String(cmd.argv[i])])
       [] cmd.type = "REDIR" -> redircmd(Read(m, cmd.cmd), String(cmd.file), cmd.mode)
       [] cmd.type = "BACK" -> backcmd(Read(m, cmd.cmd))
       [] OTHER -> [cmd EXCEPT !.left = Read(m, @), !.right = Read(m, @)]

nulterminate(l, cmd) ==
  Read([k \in 1..(Len(l) + 1) |-> IF k \in Ends(cmd) THEN Nul ELSE At(l, k)], cmd)

parsecmd(l) ==
  {nulterminate(l, r.cmd) : r \in {x \in parseline(l, 1) : Skip(l, x.s) = Len(l) + 1}}
===============================================================================
