--------------------------------- MODULE MCVm ---------------------------------
(***************************************************************************)
(* The memory of processes and the contents of files, side by side: Vm,    *)
(* UserCopy and Files share no state here, and in a behaviour of this      *)
(* module the one that `who' names runs while the others stay as they      *)
(* began.  Vm has pages of two bytes, so that sizes need not be aligned,   *)
(* and two pages in each leaf table, so that growing can need a new one.   *)
(***************************************************************************)
EXTENDS Vm

Tab == {"top", "top0", "low", "low0", "low1"}
WalkTab == [v \in VPN \cup {Top} |->
              IF v = Top THEN <<"top", "top0">> ELSE <<"low", IF v < 2 THEN "low0" ELSE "low1">>]
Change == {3, -5}
ElfFiles == {<<>>, <<3>>, <<2, 1>>}

VARIABLES
  who,
  cpy_pte, cpy_sz, cpy_mem, cpy_was, cpy_call, cpy_dst, cpy_ret,
  fil_used, fil_blk, fil_addrs, fil_size, fil_lock, fil_off, fil_freeblock,
  fil_pc, fil_file, fil_todo, fil_n1, fil_tot, fil_wrote, fil_text

cpy == <<cpy_pte, cpy_sz, cpy_mem, cpy_was, cpy_call, cpy_dst, cpy_ret>>
fil == <<fil_used, fil_blk, fil_addrs, fil_size, fil_lock, fil_off, fil_freeblock,
         fil_pc, fil_file, fil_todo, fil_n1, fil_tot, fil_wrote, fil_text>>

\* Three pages, whose order in memory is another; the addresses behind them, and their
\* wrapping around.
C == INSTANCE UserCopy WITH
  NPAGES <- 3, PGSIZE <- 2, WRAP <- 8, Frame <- [v \in 0..2 |-> (v + 2) % 3], Byte <- {0, 1},
  Lens <- {0, 1, 4}, WORD <- 2, Sizes <- {5}, pte <- cpy_pte, sz <- cpy_sz, mem <- cpy_mem,
  was <- cpy_was, call <- cpy_call, dst <- cpy_dst, ret <- cpy_ret

\* Two processes share one open file and the second has another; mkfs copies the first
\* file, which needs its indirect block to grow; the disk can become full.
F == INSTANCE Files WITH
  Proc <- {"p1", "p2"}, File <- {"f1", "f2"},
  Uses <- [p \in {"p1", "p2"} |-> IF p = "p1" THEN {"f1"} ELSE {"f1", "f2"}],
  Inode <- [f \in {"f1", "f2"} |-> IF f = "f1" THEN "i1" ELSE "i2"],
  Byte <- [f \in {"f1", "f2"} |-> IF f = "f1" THEN 2 ELSE 3],
  root <- "root", argv <- <<"i1">>, Created <- {"i2"}, COPIED <- 1, Counts <- {4},
  BSIZE <- 2, NDIRECT <- 1, FSSIZE <- 9, NMETA <- 2, MAXOPBLOCKS <- 6, None <- "none",
  used <- fil_used, blk <- fil_blk, addrs <- fil_addrs, size <- fil_size,
  lock <- fil_lock, off <- fil_off, freeblock <- fil_freeblock, pc <- fil_pc,
  file <- fil_file, todo <- fil_todo, n1 <- fil_n1, tot <- fil_tot, wrote <- fil_wrote,
  text <- fil_text

ASSUME C!UserCopyAssumption /\ F!FilesAssumption

AllInit == who \in {"vm", "copy", "files"} /\ Init /\ C!Init /\ F!Init

AllNext ==
  /\ UNCHANGED who
  /\ \/ who = "vm" /\ Next /\ UNCHANGED <<cpy, fil>>
     \/ who = "copy" /\ C!Next /\ UNCHANGED <<vars, fil>>
     \/ who = "files" /\ F!Next /\ UNCHANGED <<vars, cpy>>

All == AllInit /\ [][AllNext]_<<who, vars, cpy, fil>>

\* A copy between kernel and process moves exactly the bytes asked for (module UserCopy).
CopiesAreExact == who = "copy" => C!CopiesAreExact

\* Every block is a file's, the image's or free, and the bitmap says which (module Files).
BlocksPartition == who = "files" => F!BlocksPartition

\* A file reads as it was written, by mkfs and by processes (module Files).
ContentIsWritten == who = "files" => F!ContentIsWritten

\* No transaction logs more blocks than it reserved (module Files).
FitsReservation == who = "files" => F!FitsReservation
===============================================================================
