--------------------------------- MODULE Files ---------------------------------
(***************************************************************************)
(* The contents of files: mkfs/mkfs.c makes the image, and processes then  *)
(* read, write and truncate files through kernel/file.c and the block      *)
(* layer of kernel/fs.c (balloc, bfree, bmap, itrunc, readi, writei).  A   *)
(* byte and a block number are each one word of a block.  ip->lock is held *)
(* across the steps of writei() and itrunc(); the bitmap is changed in one *)
(* step (under the lock of its buffer).  Module Log is about the           *)
(* transactions, whose blocks are counted here.                            *)
(***************************************************************************)
EXTENDS Integers, Sequences, FiniteSets

CONSTANTS Proc,          \* processes
          File,          \* open files
          Inode, Byte,   \* the inode file f is open on, the byte that is written to it
          Uses,          \* the files process p has open
          root,          \* the root directory, which only mkfs writes here
          argv,          \* the inodes of the files that mkfs copies, in this order
          Created,       \* inodes that were empty then
          COPIED,        \* bound on their sizes there: they fit on the disk, which mkfs does not check
          Counts,        \* the n of read() and write()
          BSIZE, NDIRECT, FSSIZE, NMETA, MAXOPBLOCKS,
          None

Copied == {argv[k] : k \in DOMAIN argv}
Inodes == Copied \cup Created \cup {root}
NINDIRECT == BSIZE
MAXFILE == NDIRECT + NINDIRECT
Zero == [k \in 0..(BSIZE - 1) |-> 0]
Junk == [k \in 0..(BSIZE - 1) |-> 1]     \* what a free block holds: what, is not tracked

\* The blocks that hold the bitmap and the inodes (one each, as in the built image: 2000
\* blocks are 1/4 of what one bitmap block covers).
BITMAP == 0
INODES == 1

FilesAssumption ==
  /\ root \notin Copied \cup Created /\ None \notin Proc
  /\ \A f \in File : Inode[f] \in Copied \cup Created
  /\ Len(argv) = Cardinality(Copied)
  /\ \A f \in File : Byte[f] \in Nat \ {0}
  /\ BSIZE \in Nat \ {0} /\ NDIRECT \in Nat \ {0}
  /\ NMETA \in Nat /\ NMETA > INODES /\ FSSIZE > NMETA
  /\ MAXOPBLOCKS > 5

VARIABLES
  used,        \* the bitmap: blocks marked in use
  blk,         \* the contents of each block
  addrs,       \* addrs of each inode: block numbers, 0 for none
  size,        \* size of each inode, in bytes
  lock,        \* the process that holds each inode's lock
  off,         \* f->off of each open file
  freeblock,   \* mkfs: the next block it hands out; 0 once the image is made
  pc, file,    \* where each process is, and its f
  todo,        \* its n - i in filewrite()
  n1, tot,     \* the n and the tot of its writei()
  wrote,       \* the blocks its transaction has logged
  text         \* what was written to each inode: not in the code, to state the properties

disk == <<used, blk, addrs, size>>
proc == <<pc, file, todo, n1, tot, wrote>>
vars == <<disk, lock, off, freeblock, proc, text>>

Init ==
  /\ used = {}
  /\ blk = [b \in 0..(FSSIZE - 1) |-> Zero]
  /\ addrs = [i \in Inodes |-> [k \in 0..NDIRECT |-> 0]]
  /\ size = [i \in Inodes |-> 0]
  /\ lock = [i \in Inodes |-> None]
  /\ off = [f \in File |-> 0]
  /\ freeblock = NMETA
  /\ pc = [p \in Proc |-> "idle"]
  /\ file = [p \in Proc |-> None]
  /\ todo = [p \in Proc |-> 0] /\ n1 = [p \in Proc |-> 0] /\ tot = [p \in Proc |-> 0]
  /\ wrote = [p \in Proc |-> {}]
  /\ text = [i \in Inodes |-> <<>>]

Smaller(a, b) == IF a < b THEN a ELSE b

\* The sequence s with k times the byte c from offset o on (o <= Len(s)).
Put(s, o, k, c) ==
  [j \in 1..(IF o + k > Len(s) THEN o + k ELSE Len(s)) |->
     IF j \in (o + 1)..(o + k) THEN c ELSE s[j]]

\* Block contents x with k times the byte c from offset o on: the copy of writei().
Fill(x, o, k, c) == [j \in DOMAIN x |-> IF j \in o..(o + k - 1) THEN c ELSE x[j]]

-------------------------------------------------------------------------------
(* Blocks.  s is what the call works on: the bitmap, the blocks, the addrs of    *)
(* its inode, and the blocks logged; addr is the call's result.                  *)

MutBallocKeeps(s) ==
  LET free == (0..(FSSIZE - 1)) \ s.used
      b == CHOOSE x \in free : \A y \in free : x <= y
  IN IF free = {} THEN [s EXCEPT !.addr = 0]
     ELSE [s EXCEPT !.used = @ \cup {b}, !.log = @ \cup {BITMAP, b}, !.addr = b]

\* balloc(): the first block that is free, zeroed; 0 if there is none.
balloc(s) ==
  LET free == (0..(FSSIZE - 1)) \ s.used
      b == CHOOSE x \in free : \A y \in free : x <= y
  IN IF free = {} THEN [s EXCEPT !.addr = 0]
     ELSE [s EXCEPT !.used = @ \cup {b}, !.blk[b] = Zero,
                    !.log = @ \cup {BITMAP, b}, !.addr = b]

\* An entry of addrs, filled by balloc() if it is empty.
direct(s, k) ==
  IF s.addrs[k] # 0 THEN [s EXCEPT !.addr = s.addrs[k]]
  ELSE LET t == balloc(s) IN IF t.addr = 0 THEN t ELSE [t EXCEPT !.addrs[k] = t.addr]

\* An entry of the indirect block b, likewise.
indirect(s, b, k) ==
  IF s.blk[b][k] # 0 THEN [s EXCEPT !.addr = s.blk[b][k]]
  ELSE LET t == balloc(s)
       IN IF t.addr = 0 THEN t
          ELSE [t EXCEPT !.blk[b][k] = t.addr, !.log = @ \cup {b}]

bmap(s, bn) ==
  IF bn < NDIRECT THEN direct(s, bn)
  ELSE LET t == direct(s, NDIRECT)
       IN IF t.addr = 0 THEN t ELSE indirect(t, t.addr, bn - NDIRECT)

\* The blocks of a file that addrs a names, and the block of its byte k.
Indirect(a) == IF a[NDIRECT] = 0 THEN {} ELSE {blk[a[NDIRECT]][k] : k \in 0..(NINDIRECT - 1)} \ {0}
Direct(a) == {a[k] : k \in 0..NDIRECT} \ {0}
BlockOf(a, k) ==
  LET bn == k \div BSIZE
  IN IF bn < NDIRECT THEN a[bn]
     ELSE IF a[NDIRECT] = 0 THEN 0 ELSE blk[a[NDIRECT]][bn - NDIRECT]

-------------------------------------------------------------------------------
(* mkfs                                                                        *)

Built == freeblock = 0

\* One turn of the loop of iappend(): k bytes c, within one block.  A new block, and a
\* new indirect block before it, is the next one that nobody has.
iappend(i, k, c) ==
  LET bn == size[i] \div BSIZE
      new == IF bn < NDIRECT THEN addrs[i][bn] = 0
             ELSE addrs[i][NDIRECT] = 0 \/ blk[addrs[i][NDIRECT]][bn - NDIRECT] = 0
      newind == bn >= NDIRECT /\ addrs[i][NDIRECT] = 0
      x == IF ~new THEN BlockOf(addrs[i], size[i])
           ELSE IF newind THEN freeblock + 1 ELSE freeblock
      ind == IF newind THEN freeblock ELSE addrs[i][NDIRECT]
  IN /\ bn < MAXFILE                              \* assert(fbn < MAXFILE)
     /\ k <= BSIZE - (size[i] % BSIZE)
     /\ addrs' = [addrs EXCEPT ![i] = IF bn < NDIRECT THEN [@ EXCEPT ![bn] = x]
                                      ELSE [@ EXCEPT ![NDIRECT] = ind]]
     /\ blk' = [b \in DOMAIN blk |->
                  IF b = x THEN Fill(blk[b], size[i] % BSIZE, k, c)
                  ELSE IF bn >= NDIRECT /\ b = ind THEN [blk[b] EXCEPT ![bn - NDIRECT] = x]
                  ELSE blk[b]]
     /\ freeblock' = IF new THEN x + 1 ELSE freeblock
     /\ size' = [size EXCEPT ![i] = @ + k]
     /\ text' = [text EXCEPT ![i] = Put(@, size[i], k, c)]
     /\ UNCHANGED <<used, lock, off, proc>>

\* The directory entries ".", ".." and one for each file, one byte each here; after its
\* entry a file is copied, a block at a time.
Entries == 2 + Len(argv)
mkfs_entry == ~Built /\ size[root] < Entries /\ iappend(root, 1, 1)
mkfs_copy(k) ==
  /\ ~Built /\ size[root] > 2
  /\ size[argv[size[root] - 2]] % BSIZE = 0 /\ size[argv[size[root] - 2]] + k <= COPIED
  /\ iappend(argv[size[root] - 2], k, 1)

\* The size of the root directory is rounded up (the file system finds zero bytes
\* there), and the bitmap marks what was handed out.
mkfs_end ==
  /\ ~Built /\ size[root] = Entries
  /\ LET rounded == (size[root] \div BSIZE + 1) * BSIZE
     IN /\ size' = [size EXCEPT ![root] = rounded]
        /\ text' = [text EXCEPT ![root] = Put(@, size[root], rounded - size[root], 0)]
  /\ used' = 0..(freeblock - 1)
  /\ freeblock' = 0
  /\ UNCHANGED <<blk, addrs, lock, off, proc>>

-------------------------------------------------------------------------------
(* filewrite() and writei()                                                    *)

Goto(p, l) == pc' = [pc EXCEPT ![p] = l]

MutMax == MAXOPBLOCKS * BSIZE

\* The largest write that one transaction is sure to have room for.
max == ((MAXOPBLOCKS - 1 - 1 - 2) \div 2) * BSIZE

filewrite(p, f, n) ==
  /\ Built /\ pc[p] = "idle"
  /\ file' = [file EXCEPT ![p] = f]
  /\ todo' = [todo EXCEPT ![p] = n]
  /\ Goto(p, "write")
  /\ UNCHANGED <<disk, lock, off, freeblock, n1, tot, wrote, text>>

\* The call returns.
Return(p) ==
  /\ Goto(p, "idle")
  /\ file' = [file EXCEPT ![p] = None]
  /\ todo' = [todo EXCEPT ![p] = 0]
  /\ n1' = [n1 EXCEPT ![p] = 0] /\ tot' = [tot EXCEPT ![p] = 0]

write_done(p) ==
  /\ pc[p] = "write" /\ todo[p] = 0
  /\ Return(p)
  /\ UNCHANGED <<disk, lock, off, freeblock, wrote, text>>

\* The tests at the start of writei(): the file has been truncated below the offset, or
\* would grow too large.
Refused(i, o, n) == o > size[i] \/ o + n > MAXFILE * BSIZE

\* begin_op() and ilock(), and the call of writei().
chunk(p) ==
  LET i == Inode[file[p]]
      k == Smaller(todo[p], max)
  IN /\ pc[p] = "write" /\ todo[p] > 0 /\ lock[i] = None
     /\ IF Refused(i, off[file[p]], k)
        THEN Return(p) /\ UNCHANGED lock
        ELSE /\ lock' = [lock EXCEPT ![i] = p]
             /\ n1' = [n1 EXCEPT ![p] = k]
             /\ Goto(p, "writei")
             /\ UNCHANGED <<file, todo, tot>>
     /\ UNCHANGED <<disk, off, freeblock, wrote, text>>

\* One turn of the loop of writei(): a block is found or allocated and k bytes of the
\* process are copied to it.
writei(p) ==
  LET f == file[p]
      i == Inode[f]
      o == off[f] + tot[p]
      m == Smaller(n1[p] - tot[p], BSIZE - (o % BSIZE))
      s == bmap([used |-> used, blk |-> blk, addrs |-> addrs[i], log |-> wrote[p], addr |-> 0],
                o \div BSIZE)
  IN /\ pc[p] = "writei" /\ tot[p] < n1[p]
     /\ used' = s.used
     /\ addrs' = [addrs EXCEPT ![i] = s.addrs]
     /\ \/ /\ s.addr # 0
           /\ blk' = [s.blk EXCEPT ![s.addr] = Fill(@, o % BSIZE, m, Byte[f])]
           /\ wrote' = [wrote EXCEPT ![p] = s.log \cup {s.addr}]
           /\ tot' = [tot EXCEPT ![p] = @ + m]
           /\ text' = [text EXCEPT ![i] = Put(@, o, m, Byte[f])]
           /\ UNCHANGED pc
        \* either_copyin() failed after j bytes, which are in the buffer and not logged
        \* (here they stay; a buffer that is recycled before the next write loses them).
        \/ \E j \in 0..(m - 1) :
             /\ s.addr # 0
             /\ blk' = [s.blk EXCEPT ![s.addr] = Fill(@, o % BSIZE, j, Byte[f])]
             /\ wrote' = [wrote EXCEPT ![p] = s.log]
             /\ text' = [text EXCEPT ![i] = Put(@, o, j, Byte[f])]
             /\ Goto(p, "writei_end")
             /\ UNCHANGED tot
        \/ /\ s.addr = 0
           /\ blk' = s.blk
           /\ wrote' = [wrote EXCEPT ![p] = s.log]
           /\ Goto(p, "writei_end")
           /\ UNCHANGED <<tot, text>>
     /\ UNCHANGED <<size, lock, off, freeblock, file, todo, n1>>

MutSizeOnlyIfAll(p) ==
  LET f == file[p]
      i == Inode[f]
      o == off[f] + tot[p]
  IN /\ pc[p] = "writei_end" \/ (pc[p] = "writei" /\ tot[p] = n1[p])
     /\ size' = [size EXCEPT ![i] = IF o > @ /\ tot[p] = n1[p] THEN o ELSE @]
     /\ off' = [off EXCEPT ![f] = o]
     /\ lock' = [lock EXCEPT ![i] = None]
     /\ wrote' = [wrote EXCEPT ![p] = {}]
     /\ IF tot[p] # n1[p] THEN Return(p)
        ELSE /\ todo' = [todo EXCEPT ![p] = @ - tot[p]]
             /\ n1' = [n1 EXCEPT ![p] = 0] /\ tot' = [tot EXCEPT ![p] = 0]
             /\ Goto(p, "write")
             /\ UNCHANGED file
     /\ text' = [text EXCEPT ![i] = SubSeq(@, 1, IF o > size[i] THEN o ELSE size[i])]
     /\ UNCHANGED <<used, blk, addrs, freeblock>>

\* The size grows, iupdate(), the offset advances, iunlock() and end_op(); less than was
\* asked for ends the write().
writei_end(p) ==
  LET f == file[p]
      i == Inode[f]
      o == off[f] + tot[p]
  IN /\ pc[p] = "writei_end" \/ (pc[p] = "writei" /\ tot[p] = n1[p])
     /\ size' = [size EXCEPT ![i] = IF o > @ THEN o ELSE @]
     /\ off' = [off EXCEPT ![f] = o]
     /\ lock' = [lock EXCEPT ![i] = None]
     /\ wrote' = [wrote EXCEPT ![p] = {}]
     /\ IF tot[p] # n1[p] THEN Return(p)
        ELSE /\ todo' = [todo EXCEPT ![p] = @ - tot[p]]
             /\ n1' = [n1 EXCEPT ![p] = 0] /\ tot' = [tot EXCEPT ![p] = 0]
             /\ Goto(p, "write")
             /\ UNCHANGED file
     /\ text' = [text EXCEPT ![i] = SubSeq(@, 1, IF o > size[i] THEN o ELSE size[i])]
     /\ UNCHANGED <<used, blk, addrs, freeblock>>

-------------------------------------------------------------------------------
(* fileread(), open() and truncation                                           *)

\* fileread() and readi(), under the inode's lock and outside any transaction: the
\* offset advances by what there is, or stays if either_copyout() failed.
fileread(f, n) ==
  LET i == Inode[f]
  IN /\ Built /\ lock[i] = None
     /\ off[f] < size[i]
     /\ off' = [off EXCEPT ![f] = @ + Smaller(n, size[i] - @)]
     /\ UNCHANGED <<disk, lock, freeblock, proc, text>>

\* sys_open(): a new struct file, with offset 0.
open(f) ==
  /\ Built /\ \A p \in Proc : file[p] # f
  /\ off[f] # 0
  /\ off' = [off EXCEPT ![f] = 0]
  /\ UNCHANGED <<disk, lock, freeblock, proc, text>>

\* itrunc(), of sys_open() with O_TRUNC or of iput() for the last link: the direct
\* blocks, one by one, then the indirect block and what it lists, then size and
\* iupdate().
itrunc_begin(p, i) ==
  /\ Built /\ pc[p] = "idle" /\ lock[i] = None
  /\ lock' = [lock EXCEPT ![i] = p]
  /\ Goto(p, "itrunc")
  /\ UNCHANGED <<disk, off, freeblock, file, todo, n1, tot, wrote, text>>

Truncating(p, i) == pc[p] = "itrunc" /\ lock[i] = p

\* bfree() of each of the blocks bs.
bfree(bs) ==
  /\ used' = used \ bs
  /\ blk' = [b \in DOMAIN blk |-> IF b \in bs THEN Junk ELSE blk[b]]

itrunc_direct(p, i, k) ==
  /\ Truncating(p, i) /\ k < NDIRECT /\ addrs[i][k] # 0
  /\ bfree({addrs[i][k]})
  /\ addrs' = [addrs EXCEPT ![i][k] = 0]
  /\ wrote' = [wrote EXCEPT ![p] = @ \cup {BITMAP}]
  /\ UNCHANGED <<size, lock, off, freeblock, pc, file, todo, n1, tot, text>>

itrunc_end(p, i) ==
  LET a == addrs[i]
  IN /\ Truncating(p, i) /\ \A k \in 0..(NDIRECT - 1) : a[k] = 0
     /\ bfree(Direct(a) \cup Indirect(a))
     /\ addrs' = [addrs EXCEPT ![i][NDIRECT] = 0]
     /\ size' = [size EXCEPT ![i] = 0]
     /\ lock' = [lock EXCEPT ![i] = None]
     /\ wrote' = [wrote EXCEPT ![p] = {}]
     /\ text' = [text EXCEPT ![i] = <<>>]
     /\ Goto(p, "idle")
     /\ UNCHANGED <<off, freeblock, file, todo, n1, tot>>

-------------------------------------------------------------------------------
mkfs == mkfs_entry \/ mkfs_end \/ \E k \in 1..BSIZE : mkfs_copy(k)

Write(p) ==
  \/ write_done(p) \/ chunk(p) \/ writei(p) \/ writei_end(p)
  \/ \E f \in Uses[p], n \in Counts : filewrite(p, f, n)

itrunc(p) ==
  \E i \in {Inode[f] : f \in Uses[p]} :
    itrunc_begin(p, i) \/ itrunc_end(p, i) \/ \E k \in 0..(NDIRECT - 1) : itrunc_direct(p, i, k)

Next ==
  \/ mkfs
  \/ \E p \in Proc : Write(p) \/ itrunc(p)
  \/ \E f \in File : open(f) \/ \E n \in Counts : fileread(f, n)

Spec == Init /\ [][Next]_vars

-------------------------------------------------------------------------------
(* Properties                                                                *)

\* The bitmap marks exactly the metadata and the blocks that files have, and no block is
\* named twice, by two files or by one: balloc(), bmap(), bfree(), itrunc() and mkfs agree,
\* also when the disk is full or a write fails half way.
BlocksPartition ==
  LET Entry(i, k) == IF k <= NDIRECT THEN addrs[i][k]
                     ELSE IF addrs[i][NDIRECT] = 0 THEN 0
                     ELSE blk[addrs[i][NDIRECT]][k - NDIRECT - 1]
      Mapped == {e \in Inodes \X (0..(NDIRECT + NINDIRECT)) : Entry(e[1], e[2]) # 0}
      Blocks == {Entry(e[1], e[2]) : e \in Mapped}
      Meta == 0..(NMETA - 1)
  IN Built => /\ used = Meta \cup Blocks
              /\ Meta \cap Blocks = {}
              /\ Cardinality(Blocks) = Cardinality(Mapped)

\* What readi() finds is what writei() was given: every byte below the size of a file is
\* in a block that is mapped (so that a read never allocates one) and is the byte last
\* written there; unless its lock is held, the file ends where its last byte does.
ContentIsWritten ==
  \A i \in Inodes :
    /\ lock[i] = None => Len(text[i]) = size[i]
    /\ \A k \in 0..(size[i] - 1) :
         LET b == BlockOf(addrs[i], k)
         IN (lock[i] # None /\ pc[lock[i]] = "itrunc") \/ (b # 0 /\ blk[b][k % BSIZE] = text[i][k + 1])

\* A call of filewrite() or itrunc() logs fewer blocks, with the one of its inode, than
\* begin_op() has set aside for it: what module Log assumes of the calls.
FitsReservation ==
  \A p \in Proc : Cardinality(wrote[p] \cup {INODES}) < MAXOPBLOCKS
===============================================================================
