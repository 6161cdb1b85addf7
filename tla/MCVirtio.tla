------------------------------- MODULE MCVirtio -------------------------------
(***************************************************************************)
(* What lies under the log, side by side: the disk driver, the buffer      *)
(* cache, and the spinlock under which the clock ticks.  They share no     *)
(* state here, and in a behaviour of this module the one that `who' names  *)
(* runs while the others stay as they began.                               *)
(***************************************************************************)
EXTENDS Virtio, TLC

Symmetry == Permutations(Buf)

VARIABLES
  who,
  bio_next, bio_prev, bio_blockno, bio_valid, bio_refcnt, bio_data, bio_holder, bio_pinned,
  bio_disk, bio_pc, bio_want, bio_b, bio_latest, bio_used,
  clk_ticks, clk_lock, clk_intr, clk_noff, clk_intena, clk_pc, clk_n, clk_ticks0,
  clk_handler, clk_saved, clk_killed, clk_past

bio == <<bio_next, bio_prev, bio_blockno, bio_valid, bio_refcnt, bio_data, bio_holder, bio_pinned,
         bio_disk, bio_pc, bio_want, bio_b, bio_latest, bio_used>>
clk == <<clk_ticks, clk_lock, clk_intr, clk_noff, clk_intena, clk_pc, clk_n, clk_ticks0,
         clk_handler, clk_saved, clk_killed, clk_past>>

\* Two processes and two buffers for three blocks: a block is evicted while another
\* process waits for it.
B == INSTANCE Bio WITH
  Proc <- {"p1", "p2"}, Buf <- <<"x", "y">>, Block <- {"n1", "n2", "n3"},
  Data <- {"d0", "d1"}, Zero <- "d0", head <- "head", None <- "none",
  next <- bio_next, prev <- bio_prev, blockno <- bio_blockno, valid <- bio_valid,
  refcnt <- bio_refcnt, data <- bio_data, holder <- bio_holder, pinned <- bio_pinned,
  disk <- bio_disk, pc <- bio_pc, want <- bio_want, b <- bio_b, latest <- bio_latest,
  used <- bio_used

\* Two CPUs, of which one counts the ticks, modulo 3.
K == INSTANCE Clock WITH
  Cpu <- {"c0", "c1"}, boot <- "c0", Naps <- {0, 2}, WRAP <- 3, MAXTICKS <- 2, None <- "none",
  ticks <- clk_ticks, lock <- clk_lock, intr <- clk_intr, noff <- clk_noff,
  intena <- clk_intena, pc <- clk_pc, n <- clk_n, ticks0 <- clk_ticks0,
  handler <- clk_handler, saved <- clk_saved, killed <- clk_killed, past <- clk_past

ASSUME B!BioAssumption /\ K!ClockAssumption

AllInit == who \in {"virtio", "bio", "clock"} /\ Init /\ B!Init /\ K!Init

AllNext ==
  /\ UNCHANGED who
  /\ \/ who = "virtio" /\ Next /\ UNCHANGED <<bio, clk>>
     \/ who = "bio" /\ B!Next /\ UNCHANGED <<vars, clk>>
     \/ who = "clock" /\ K!Next /\ UNCHANGED <<vars, bio>>

All == AllInit /\ [][AllNext]_<<who, vars, bio, clk>>

\* A block is in one buffer, with one user, who finds what was last stored (module Bio).
OneCopyOfABlock == who = "bio" => B!OneCopyOfABlock

\* The ring of buffers is whole and in the order of last use (module Bio).
RingIsInOrder == who = "bio" => B!RingIsInOrder

\* No CPU takes an interrupt that waits for a lock it has itself (module Clock).
InterruptsAreOffUnderLocks == who = "clock" => K!InterruptsAreOffUnderLocks

\* A process sleeps as many ticks as it asked for (module Clock).
SleepsItsTicks == who = "clock" => K!SleepsItsTicks
===============================================================================
