--------------------------------- MODULE Shell ---------------------------------
(***************************************************************************)
(* user/sh.c and user/init.c at work: the processes that a command line    *)
(* becomes, their file descriptors, and the shell that waits for them.     *)
(* The parser is ShParse.  A program that runs is external: it reads its   *)
(* standard input to the end and exits.  The calls of a process that only  *)
(* rearrange its own descriptors are one action.                           *)
(***************************************************************************)
EXTENDS ShParse, FiniteSets

CONSTANTS NPROC,      \* size of the process table; init is process 1
          NPIPE,      \* bound: the pipes that can be open
          MAXLINES,   \* bound: the lines that are typed
          NOFILE,     \* file descriptors of a process
          Typed,      \* the lines that are typed
          Programs,   \* the names that exec() finds
          Names       \* the names that open() finds

ShellAssumption == NPROC \in Nat \ {0} /\ NPIPE \in Nat /\ NOFILE \in Nat /\ NOFILE > 5

VARIABLES
  state,    \* UNUSED | RUNNING | ZOMBIE
  parent,
  ofile,    \* the open file of each descriptor
  pc,       \* what a process does next
  cmd,      \* the command it is to run
  line,     \* buf: the line that the shell read and its child gets a copy of
  pfd,      \* p[0] and p[1] of runcmd()
  pid,      \* the shell that init waits for
  typed,    \* the number of lines typed
  io        \* history: where input and output of the command go, as it was written

vars == <<state, parent, ofile, pc, cmd, line, pfd, pid, typed, io>>

Proc == 1..NPROC
Fd == 0..(NOFILE - 1)
initproc == 1

Tty == <<"tty", 0>>
Closed == <<"none", 0>>
Rd(k) == <<"read", k>>
Wr(k) == <<"write", k>>
AllClosed == [d \in Fd |-> Closed]
Console == <<Tty, Tty>>

Children(p) == {q \in Proc : parent[q] = p /\ state[q] # "UNUSED"}
Held(f) == \E p \in Proc, d \in Fd : ofile[p][d] = f
FreePipes == {k \in 1..NPIPE : ~Held(Rd(k)) /\ ~Held(Wr(k))}
FreeProcs == {p \in Proc : state[p] = "UNUSED"}
Least(S) == CHOOSE x \in S : \A y \in S : x <= y

-------------------------------------------------------------------------------
(* System calls on a table o of open files                                     *)

close(o, d) == [o EXCEPT ![d] = Closed]

\* The lowest free descriptor.
Lowest(o) == Least({d \in Fd : o[d] = Closed})
fdalloc(o, f) == [o EXCEPT ![Lowest(o)] = f]

dup(o, d) == fdalloc(o, o[d])

\* init opens the console and dups it twice.
InitFiles == LET o == fdalloc(AllClosed, Tty) IN dup(dup(o, 0), 0)

Init ==
  /\ state = [p \in Proc |-> IF p = initproc THEN "RUNNING" ELSE "UNUSED"]
  /\ parent = [p \in Proc |-> 0]
  /\ ofile = [p \in Proc |-> IF p = initproc THEN InitFiles ELSE AllClosed]
  /\ pc = [p \in Proc |-> IF p = initproc THEN "start" ELSE "none"]
  /\ cmd = [p \in Proc |-> execcmd(<<>>)]
  /\ line = [p \in Proc |-> <<>>]
  /\ pfd = [p \in Proc |-> <<>>]
  /\ pid = 0 /\ typed = 0
  /\ io = [p \in Proc |-> Console]

Go(p, at) == pc' = [pc EXCEPT ![p] = at]

\* fork(): the first free process becomes a copy of p that goes on at `there' with
\* the command c, while p goes on at `here'.  When it fails panic() ends p.
fork(p, here, there, c) ==
  IF FreeProcs = {}
  THEN /\ Go(p, IF p = initproc THEN "panic" ELSE "exit")
       /\ UNCHANGED <<state, parent, ofile, cmd, line, pfd, io>>
  ELSE LET q == Least(FreeProcs)
       IN /\ state' = [state EXCEPT ![q] = "RUNNING"]
          /\ parent' = [parent EXCEPT ![q] = p]
          /\ ofile' = [ofile EXCEPT ![q] = ofile[p]]
          /\ pc' = [pc EXCEPT ![p] = here, ![q] = there]
          /\ cmd' = [cmd EXCEPT ![q] = c]
          /\ line' = [line EXCEPT ![q] = line[p]]
          /\ pfd' = [pfd EXCEPT ![q] = pfd[p]]
          /\ io' = [io EXCEPT ![q] = io[p]]

\* exit(): the files are closed, and the children become init's.
exit(p) ==
  /\ pc[p] = "exit"
  /\ state' = [state EXCEPT ![p] = "ZOMBIE"]
  /\ parent' = [q \in Proc |-> IF parent[q] = p THEN initproc ELSE parent[q]]
  /\ ofile' = [ofile EXCEPT ![p] = AllClosed]
  /\ Go(p, "none")
  /\ cmd' = [cmd EXCEPT ![p] = execcmd(<<>>)]
  /\ line' = [line EXCEPT ![p] = <<>>]
  /\ pfd' = [pfd EXCEPT ![p] = <<>>]
  /\ io' = [io EXCEPT ![p] = Console]
  /\ UNCHANGED <<pid, typed>>

\* wait() returns the child q, or at once when there is none (q is then 0).
wait(p, q) ==
  IF Children(p) = {} THEN q = 0 /\ UNCHANGED <<state, parent>>
  ELSE /\ q \in Children(p) /\ state[q] = "ZOMBIE"
       /\ state' = [state EXCEPT ![q] = "UNUSED"]
       /\ parent' = [parent EXCEPT ![q] = 0]

-------------------------------------------------------------------------------
(* init                                                                        *)

init_fork ==
  /\ pc[initproc] = "start"
  /\ fork(initproc, "init_wait", "sh", execcmd(<<>>))
  /\ UNCHANGED typed
  /\ pid' = IF FreeProcs = {} THEN pid ELSE Least(FreeProcs)

init_wait(q) ==
  /\ pc[initproc] = "init_wait"
  /\ wait(initproc, q)
  /\ Go(initproc, CASE q = pid -> "start" [] q = 0 -> "panic" [] OTHER -> "init_wait")
  /\ UNCHANGED <<ofile, cmd, line, pfd, pid, typed, io>>

-------------------------------------------------------------------------------
(* main() of the shell                                                         *)

\* It opens the console until three descriptors are open, and one more that it closes.
RECURSIVE Opens(_)
Opens(o) == LET d == Lowest(o) IN IF d >= 3 THEN close(fdalloc(o, Tty), d) ELSE Opens(fdalloc(o, Tty))

main(p) ==
  /\ pc[p] = "sh"
  /\ ofile' = [ofile EXCEPT ![p] = Opens(@)]
  /\ Go(p, "getcmd")
  /\ UNCHANGED <<state, parent, cmd, line, pfd, pid, typed, io>>

IsCd(l) == Len(l) >= 3 /\ l[1] = "c" /\ l[2] = "d" /\ l[3] = " "

\* A line is typed, or the end of the file; cd is the shell's own command.
getcmd(p, l) ==
  /\ pc[p] = "getcmd" /\ typed < MAXLINES
  /\ typed' = typed + 1
  /\ line' = [line EXCEPT ![p] = IF IsCd(l) THEN <<>> ELSE l]
  /\ Go(p, CASE l = <<>> -> "exit" [] IsCd(l) -> "getcmd" [] OTHER -> "main_fork")
  /\ UNCHANGED <<state, parent, ofile, cmd, pfd, pid, io>>

main_fork(p) ==
  /\ pc[p] = "main_fork"
  /\ fork(p, "main_wait", "parsecmd", execcmd(<<>>))
  /\ UNCHANGED <<pid, typed>>

main_wait(p, q) ==
  /\ pc[p] = "main_wait"
  /\ wait(p, q)
  /\ Go(p, "getcmd")
  /\ line' = [line EXCEPT ![p] = <<>>]
  /\ UNCHANGED <<ofile, cmd, pfd, pid, typed, io>>

parse(p) ==
  /\ pc[p] = "parsecmd"
  /\ \/ /\ parsecmd(line[p]) = {}
        /\ Go(p, "exit")
        /\ UNCHANGED cmd
     \/ \E c \in parsecmd(line[p]) :
          /\ Go(p, "runcmd")
          /\ cmd' = [cmd EXCEPT ![p] = c]
  /\ line' = [line EXCEPT ![p] = <<>>]
  /\ UNCHANGED <<state, parent, ofile, pfd, pid, typed, io>>

-------------------------------------------------------------------------------
(* runcmd()                                                                    *)

Runs(p, type) == pc[p] = "runcmd" /\ cmd[p].type = type

\* exec() does not return, or the process exits.
exec(p) ==
  /\ Runs(p, "EXEC")
  /\ Go(p, IF cmd[p].argv # <<>> /\ cmd[p].argv[1] \in Programs THEN "program" ELSE "exit")
  /\ cmd' = [cmd EXCEPT ![p] = execcmd(<<>>)]
  /\ UNCHANGED <<state, parent, ofile, line, pfd, pid, typed, io>>

redir(p) ==
  /\ Runs(p, "REDIR")
  /\ LET d == IF cmd[p].mode = "<" THEN 0 ELSE 1
         f == <<"file", cmd[p].file>>
         found == cmd[p].mode # "<" \/ cmd[p].file \in Names
         o == close(ofile[p], d)
     IN /\ ofile' = [ofile EXCEPT ![p] = IF found THEN fdalloc(o, f) ELSE o]
        /\ Go(p, IF found THEN "runcmd" ELSE "exit")
        /\ io' = [io EXCEPT ![p][d + 1] = f]
  /\ cmd' = [cmd EXCEPT ![p] = @.cmd]
  /\ UNCHANGED <<state, parent, line, pfd, pid, typed>>

list(p) ==
  /\ Runs(p, "LIST")
  /\ fork(p, "list_wait", "runcmd", cmd[p].left)
  /\ UNCHANGED <<pid, typed>>

list_wait(p, q) ==
  /\ pc[p] = "list_wait"
  /\ wait(p, q)
  /\ Go(p, "runcmd")
  /\ cmd' = [cmd EXCEPT ![p] = @.right]
  /\ UNCHANGED <<ofile, line, pfd, pid, typed, io>>

back(p) ==
  /\ Runs(p, "BACK")
  /\ fork(p, "exit", "runcmd", cmd[p].cmd)
  /\ UNCHANGED <<pid, typed>>

pipe(p) ==
  /\ Runs(p, "PIPE")
  /\ IF FreePipes = {} THEN Go(p, "exit") /\ UNCHANGED <<ofile, pfd>>
     ELSE LET k == Least(FreePipes)
              o == fdalloc(ofile[p], Rd(k))
          IN /\ ofile' = [ofile EXCEPT ![p] = fdalloc(o, Wr(k))]
             /\ pfd' = [pfd EXCEPT ![p] = <<Lowest(ofile[p]), Lowest(o)>>]
             /\ Go(p, "pipe_left")
  /\ UNCHANGED <<state, parent, cmd, line, pid, typed, io>>

pipe_left(p) ==
  /\ pc[p] = "pipe_left"
  /\ fork(p, "pipe_right", "left", cmd[p].left)
  /\ UNCHANGED <<pid, typed>>

pipe_right(p) ==
  /\ pc[p] = "pipe_right"
  /\ fork(p, "pipe_close", "right", cmd[p].right)
  /\ UNCHANGED <<pid, typed>>

MutConnect(o, pp, d) == close(dup(close(o, d), pp[d + 1]), pp[d + 1])

\* The child's end d of the pipe becomes its descriptor d, and both p[] are closed.
Connect(o, pp, d) == close(close(dup(close(o, d), pp[d + 1]), pp[1]), pp[2])

connect(p, at, d) ==
  /\ pc[p] = at
  /\ ofile' = [ofile EXCEPT ![p] = Connect(@, pfd[p], d)]
  /\ io' = [io EXCEPT ![p][d + 1] = ofile[p][pfd[p][d + 1]]]
  /\ pfd' = [pfd EXCEPT ![p] = <<>>]
  /\ Go(p, "runcmd")
  /\ UNCHANGED <<state, parent, cmd, line, pid, typed>>

MutKeepsWriteEnd(p) ==
  /\ pc[p] = "pipe_close"
  /\ ofile' = [ofile EXCEPT ![p] = close(@, pfd[p][1])]
  /\ pfd' = [pfd EXCEPT ![p] = <<>>]
  /\ Go(p, "pipe_wait")
  /\ UNCHANGED <<state, parent, cmd, line, pid, typed, io>>

pipe_close(p) ==
  /\ pc[p] = "pipe_close"
  /\ ofile' = [ofile EXCEPT ![p] = close(close(@, pfd[p][1]), pfd[p][2])]
  /\ pfd' = [pfd EXCEPT ![p] = <<>>]
  /\ Go(p, "pipe_wait")
  /\ UNCHANGED <<state, parent, cmd, line, pid, typed, io>>

\* Two calls of wait().
pipe_wait(p, q) ==
  /\ pc[p] \in {"pipe_wait", "pipe_wait2"}
  /\ wait(p, q)
  /\ Go(p, IF pc[p] = "pipe_wait" THEN "pipe_wait2" ELSE "exit")
  /\ UNCHANGED <<ofile, cmd, line, pfd, pid, typed, io>>

\* External: a program that has read its input to the end.
program(p) ==
  /\ pc[p] = "program"
  /\ ~\E k \in 1..NPIPE : ofile[p][0] = Rd(k) /\ Held(Wr(k))
  /\ Go(p, "exit")
  /\ UNCHANGED <<state, parent, ofile, cmd, line, pfd, pid, typed, io>>

-------------------------------------------------------------------------------
Waits(p) == \E q \in 0..NPROC : main_wait(p, q) \/ list_wait(p, q) \/ pipe_wait(p, q)

Step(p) ==
  \/ main(p) \/ main_fork(p) \/ parse(p) \/ exit(p) \/ program(p) \/ Waits(p)
  \/ exec(p) \/ redir(p) \/ list(p) \/ back(p) \/ pipe(p)
  \/ pipe_left(p) \/ pipe_right(p) \/ pipe_close(p)
  \/ connect(p, "left", 1) \/ connect(p, "right", 0)

InitStep == init_fork \/ \E q \in 0..NPROC : init_wait(q)

Next == InitStep \/ \E p \in Proc : Step(p) \/ \E l \in Typed \cup {<<>>} : getcmd(p, l)

\* The scheduler runs every process; a user need not type anything.
FairSpec == Init /\ [][Next]_vars /\ WF_vars(InitStep) /\ \A p \in Proc : WF_vars(Step(p))

-------------------------------------------------------------------------------
\* A program starts with its standard input and output where the command line puts
\* them, its standard error on the console, and nothing else open, however many
\* pipes, lists and redirections were set up on the way.
FilesAsWritten ==
  \A p \in Proc : pc[p] = "program" =>
    ofile[p] = [AllClosed EXCEPT ![0] = io[p][1], ![1] = io[p][2], ![2] = Tty]

\* The shell always comes back to its prompt: no end of a pipe stays open in a
\* process that will not use it, no child is waited for that is not there, and a
\* shell that panicked is started again.  (The exception is that init's own fork()
\* fails, which ends the system.)
PromptReturns ==
  [](pc[initproc] # "panic") => []<>(\E p \in Proc : pc[p] = "getcmd")
===============================================================================
