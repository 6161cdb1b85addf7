-------------------------------- MODULE MCUser --------------------------------
(***************************************************************************)
(* The console and the user programs, side by side: Console, Uart, Umalloc, *)
(* Grep, ShLine and Shell share no state, and in a behaviour of this module *)
(* the one that `who' names runs while the others stay as they began.       *)
(***************************************************************************)
EXTENDS Console

VARIABLES
  who,
  ser_buf, ser_w, ser_r, ser_lock, ser_thr, ser_rx, ser_irq, ser_pc, ser_n, ser_echo,
  mem_ptr, mem_siz, mem_freep, mem_brk, mem_live, mem_gap,
  grp_pattern, grp_files, grp_state, grp_text, grp_pos, grp_buf, grp_out,
  lin_meant, lin_line, lin_cmd, lin_state,
  shl_state, shl_parent, shl_ofile, shl_pc, shl_cmd, shl_line, shl_pfd, shl_pid, shl_typed, shl_io

\* The patterns and the texts for grep: ^ first, or nothing special about the start.
Strings(S, most) == UNION {[1..k -> S] : k \in 0..most}
Special == {"a", "*", ".", "$"}
Patterns == Strings(Special, 2) \cup {<<"^">> \o p : p \in Strings(Special, 3)}
Texts == Strings({"a", "b", "nl"}, 3)

\* The commands that are written for the parser: three levels of operators.
Sh == INSTANCE ShParse WITH MAXARGS <- 4
Simples == {Sh!execcmd(a) : a \in {<<>>, <<<<"x">>>>, <<<<"x">>, <<"y", "z">>>>}}
Redirected(S) == {Sh!redircmd(c, <<"f">>, m) : c \in S, m \in {"<", ">", "+"}}
Joined(S, T) == {Sh!pipecmd(a, b) : a \in S, b \in T} \cup {Sh!listcmd(a, b) : a \in S, b \in T}
Deeper(S, T) == S \cup Redirected(S) \cup {Sh!backcmd(c) : c \in S} \cup Joined(S, T) \cup Joined(T, S)
Commands == Deeper(Deeper(Deeper(Simples, Simples), Simples), {Sh!execcmd(<<<<"x">>>>)})

\* The lines typed to the shell that runs them: a pipe with a list and a redirection, two
\* pipes, a command in the background, cd, a line with an error, and a missing file.
Typed ==
  {<<"(", "x", ";", "z", ")", "|", "y", ">", "f", "nl">>,
   <<"x", "|", "y", "|", "x", "nl">>,
   <<"x", "<", "g", " ", ">", "f", "&", "nl">>,
   <<"c", "d", " ", "f", "nl">>,
   <<"(", "x", "nl">>,
   <<"y", "<", "h", "nl">>}

U == INSTANCE Uart WITH
    Writer <- {"w1", "w2"}, Byte <- {"x", "y"}, Lengths <- {1}, Echoes <- {0, 1},
    UART_TX_BUF_SIZE <- 2, WRAP <- 4, FIFO <- 2, intr <- "intr", None <- "none",
    uart_tx_buf <- ser_buf, uart_tx_w <- ser_w, uart_tx_r <- ser_r, lock <- ser_lock,
    thr <- ser_thr, rx <- ser_rx, irq <- ser_irq, pc <- ser_pc, n <- ser_n,
    echo <- ser_echo
M == INSTANCE Umalloc WITH
    Units <- {2, 3, 5}, MINUNITS <- 4, HEAP <- 2, LIMIT <- 14, Gaps <- {1},
    ptr <- mem_ptr, siz <- mem_siz, freep <- mem_freep, brk <- mem_brk,
    live <- mem_live, gap <- mem_gap
G == INSTANCE Grep WITH
    Patterns <- Patterns, Texts <- Texts, MAXFILES <- 2, BUFSIZE <- 3, NL <- "nl",
    pattern <- grp_pattern, files <- grp_files, state <- grp_state, text <- grp_text,
    pos <- grp_pos, buf <- grp_buf, out <- grp_out
P == INSTANCE ShLine WITH
    MAXARGS <- 4, Commands <- Commands, Blanks <- {<<>>, <<" ">>}, meant <- lin_meant,
    line <- lin_line, cmd <- lin_cmd, state <- lin_state
S == INSTANCE Shell WITH
    MAXARGS <- 4, NPROC <- 7, NPIPE <- 2, MAXLINES <- 2, NOFILE <- 6, Typed <- Typed,
    Programs <- {<<"x">>, <<"y">>}, Names <- {<<"f">>, <<"g">>}, state <- shl_state,
    parent <- shl_parent, ofile <- shl_ofile, pc <- shl_pc, cmd <- shl_cmd,
    line <- shl_line, pfd <- shl_pfd, pid <- shl_pid, typed <- shl_typed, io <- shl_io

ser == <<ser_buf, ser_w, ser_r, ser_lock, ser_thr, ser_rx, ser_irq, ser_pc, ser_n, ser_echo>>
mem == <<mem_ptr, mem_siz, mem_freep, mem_brk, mem_live, mem_gap>>
grp == <<grp_pattern, grp_files, grp_state, grp_text, grp_pos, grp_buf, grp_out>>
lin == <<lin_meant, lin_line, lin_cmd, lin_state>>
shl == <<shl_state, shl_parent, shl_ofile, shl_pc, shl_cmd, shl_line, shl_pfd, shl_pid, shl_typed, shl_io>>

ASSUME ConsoleAssumption /\ U!UartAssumption /\ M!UmallocAssumption /\ S!ShellAssumption

AllInit ==
  /\ who \in {"console", "uart", "malloc", "grep", "line", "shell"}
  /\ Init
  /\ U!Init
  /\ M!Init
  /\ G!Init
  /\ P!Init
  /\ S!Init

AllNext ==
  /\ UNCHANGED who
  /\ \/ who = "console" /\ Next /\ UNCHANGED <<ser, mem, grp, lin, shl>>
     \/ who = "uart" /\ U!Next /\ UNCHANGED <<vars, mem, grp, lin, shl>>
     \/ who = "malloc" /\ M!Next /\ UNCHANGED <<vars, ser, grp, lin, shl>>
     \/ who = "grep" /\ G!Next /\ UNCHANGED <<vars, ser, mem, lin, shl>>
     \/ who = "line" /\ P!Next /\ UNCHANGED <<vars, ser, mem, grp, shl>>
     \/ who = "shell" /\ S!Next /\ UNCHANGED <<vars, ser, mem, grp, lin>>

Fairness ==
  /\ WF_shl(who = "shell" /\ S!InitStep)
  /\ \A p \in S!Proc : WF_shl(who = "shell" /\ S!Step(p))

All == AllInit /\ [][AllNext]_<<who, vars, ser, mem, grp, lin, shl>> /\ Fairness

\* The UART's output neither stops nor overruns the chip (module Uart).
OutputIsDriven == U!OutputIsDriven

\* Bytes go to the UART in the order of uartputc(), each once (module Uart).
BytesInOrder == U!BytesInOrder

\* The heap is divided into what malloc() returned and the free list (module Umalloc).
HeapPartition == M!HeapPartition

\* grep prints the lines that match, of every file, and no others (module Grep).
PrintsTheMatches == G!PrintsTheMatches

\* The parser of the shell reads every command as it was written (module ShLine).
ParsesAsWritten == P!ParsesAsWritten

\* A command runs with its files as its line says (module Shell).
FilesAsWritten == S!FilesAsWritten

\* The shell prompts again after every line (module Shell).
PromptReturns == who = "shell" => S!PromptReturns
===============================================================================
