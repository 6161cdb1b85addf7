---------------------------------- MODULE Fs ----------------------------------
(***************************************************************************)
(* Inodes, directories and the system calls that name files: the inode     *)
(* table and the name space of kernel/fs.c, and open, mkdir, mknod, link,  *)
(* unlink, chdir and close of kernel/sysfile.c.  A stretch of code that    *)
(* runs under one inode lock, or under itable.lock, is one step; a lock    *)
(* that is kept while another one is acquired is a state.  The table has   *)
(* at most one entry for an inode, so entries are named after inodes.      *)
(* File contents are left out: module Log makes each call atomic on disk.  *)
(***************************************************************************)
EXTENDS Integers, Sequences, FiniteSets

CONSTANTS Proc,      \* processes
          NINODES,   \* sb.ninodes - 1: inodes are numbered from 1, the root
          Name,      \* names of directory entries, ".." aside
          Paths,     \* the paths given to system calls, as sequences of names
          Starts,    \* whether they start at "root" or at "cwd"
          Calls,     \* the system calls of each process, with their (first) path
          MAXLINK    \* bound: no link to an inode that has so many

ROOTINO  == 1
Inum     == 1..NINODES
AllCalls == {"open", "create", "mkdir", "mknod", "unlink", "link", "chdir"}

ASSUME FsAssumption ==
  /\ NINODES \in Nat \ {0} /\ MAXLINK \in Nat
  /\ ".." \notin Name
  /\ Paths \subseteq Seq(Name \cup {".."})
  /\ Starts \subseteq {"root", "cwd"}
  /\ Calls \in [Proc -> SUBSET (AllCalls \X Paths)]

VARIABLES
  dsk,     \* type and nlink of each dinode, on disk
  dir,     \* entries of each directory; 0 is none
  mem,     \* type and nlink in the inode table
  valid,   \* ip->valid
  ref,     \* ip->ref
  lock,    \* holder of ip->lock; 0 is none
  cwd,     \* p->cwd
  file,    \* the open file of each process; 0 is none
  call,    \* the system call it is in
  pc,      \* where it is
  cur,     \* the ip of namex(), later the dp of the call
  ip,      \* the ip of the call
  path,    \* what namex() still has to walk; its last name is kept
  vic,     \* the inode iput() drops
  ret      \* where iput() returns to

inodes == <<dsk, mem, valid, lock>>
locals == <<call, cur, ip, path>>
vars   == <<inodes, dir, ref, cwd, file, locals, pc, vic, ret>>

Free == [type |-> "free", nlink |-> 0]
NoEntries == [n \in Name \cup {".."} |-> 0]

\* The file system of mkfs: a root directory; the processes are in it.
Init ==
  /\ dsk = [i \in Inum |-> IF i = ROOTINO THEN [type |-> "dir", nlink |-> 1] ELSE Free]
  /\ dir = [i \in Inum |-> IF i = ROOTINO THEN [NoEntries EXCEPT ![".."] = ROOTINO] ELSE NoEntries]
  /\ mem = [i \in Inum |-> Free]
  /\ valid = [i \in Inum |-> 0]
  /\ ref = [i \in Inum |-> IF i = ROOTINO THEN Cardinality(Proc) ELSE 0]
  /\ lock = [i \in Inum |-> 0]
  /\ cwd = [p \in Proc |-> ROOTINO]
  /\ file = [p \in Proc |-> 0]
  /\ call = [p \in Proc |-> "none"]
  /\ pc = [p \in Proc |-> "user"]
  /\ cur = [p \in Proc |-> 0]
  /\ ip = [p \in Proc |-> 0]
  /\ path = [p \in Proc |-> <<>>]
  /\ vic = [p \in Proc |-> 0]
  /\ ret = [p \in Proc |-> "user"]

-------------------------------------------------------------------------------
(* Inodes                                                                    *)

Set(f, p, v) == [f EXCEPT ![p] = v]

\* What a process that holds ip->lock sees: ilock() reads the disk if it must.
In(i) == IF valid[i] = 1 THEN mem[i] ELSE dsk[i]

Lockable(i) == lock[i] = 0

\* ilock(), and then only reads.
Load(i) == mem' = Set(mem, i, In(i)) /\ valid' = Set(valid, i, 1) /\ UNCHANGED dsk

\* ilock(), changes, and iupdate(), for the inodes of the function f.
Store(f) ==
  /\ mem' = [i \in Inum |-> IF i \in DOMAIN f THEN f[i] ELSE mem[i]]
  /\ dsk' = [i \in Inum |-> IF i \in DOMAIN f THEN f[i] ELSE dsk[i]]
  /\ valid' = [i \in Inum |-> IF i \in DOMAIN f THEN 1 ELSE valid[i]]

Links(i, k) == [In(i) EXCEPT !.nlink = @ + k]
One(i, v) == [j \in {i} |-> v]

\* The call goes on at l; or iput(i) comes first.
Goto(p, l) == pc' = Set(pc, p, l) /\ UNCHANGED <<vic, ret>>
PutThen(p, i, l) == pc' = Set(pc, p, "iput") /\ vic' = Set(vic, p, i) /\ ret' = Set(ret, p, l)

MutTestLock(i) == lock[i] = 0 /\ valid[i] = 1 /\ mem[i].nlink = 0
MutTwoRefs(i) == ref[i] <= 2 /\ valid[i] = 1 /\ mem[i].nlink = 0

\* iput() of the last reference to an inode without links frees it.
MustFree(i) == ref[i] = 1 /\ valid[i] = 1 /\ mem[i].nlink = 0

Dropped(i) == [ref EXCEPT ![i] = @ - 1]

\* Back in the call.
PutReturns(p) == pc' = Set(pc, p, ret[p]) /\ vic' = Set(vic, p, 0) /\ ret' = Set(ret, p, "user")

iput(p) ==
  /\ pc[p] = "iput" /\ ~MustFree(vic[p])
  /\ ref' = Dropped(vic[p])
  /\ PutReturns(p)
  /\ UNCHANGED <<inodes, dir, cwd, file, locals>>

iput_lock(p) ==
  /\ pc[p] = "iput" /\ MustFree(vic[p]) /\ Lockable(vic[p])
  /\ lock' = Set(lock, vic[p], p)
  /\ Goto(p, "iput_free")
  /\ UNCHANGED <<dsk, mem, valid, dir, ref, cwd, file, locals>>

\* itrunc(), type 0, iupdate(): from here on ialloc() may take the inode.
iput_free(p) ==
  /\ pc[p] = "iput_free"
  /\ dir' = Set(dir, vic[p], NoEntries)
  /\ mem' = Set(mem, vic[p], Free) /\ dsk' = Set(dsk, vic[p], Free)
  /\ Goto(p, "iput_unlock")
  /\ UNCHANGED <<valid, lock, ref, cwd, file, locals>>

MutKeepValid(i) == valid

Invalid(i) == Set(valid, i, 0)

iput_unlock(p) ==
  /\ pc[p] = "iput_unlock"
  /\ valid' = Invalid(vic[p])
  /\ lock' = Set(lock, vic[p], 0)
  /\ Goto(p, "iput_drop")
  /\ UNCHANGED <<dsk, mem, dir, ref, cwd, file, locals>>

iput_drop(p) ==
  /\ pc[p] = "iput_drop"
  /\ ref' = Dropped(vic[p])
  /\ PutReturns(p)
  /\ UNCHANGED <<inodes, dir, cwd, file, locals>>

\* iget(): one more reference; an entry that is new in the table is not valid.
Got(i)        == [ref EXCEPT ![i] = @ + 1]
ValidAfter(i) == IF ref[i] = 0 THEN 0 ELSE valid[i]

\* Under the lock of the directory d, iget() of the inode j that an entry names.
LoadAndGet(d, j) ==
  /\ mem' = Set(mem, d, In(d)) /\ UNCHANGED dsk
  /\ valid' = [valid EXCEPT ![j] = ValidAfter(j), ![d] = 1]
  /\ ref' = Got(j)

IsDir(i) == In(i).type = "dir"

-------------------------------------------------------------------------------
(* namex()                                                                   *)

\* The first of the remaining names of p.
name(p) == path[p][1]

\* namex() is nameiparent(), unless it looks up what is opened, linked, or entered.
Parent(p) == ~(call[p] \in {"open", "chdir"} \/ (call[p] = "link" /\ ip[p] = 0))

MutNoRef(i) == ref

StartRef(i) == Got(i)

\* iget() of the root, or idup() of the current directory.
namex_start(p, c, s, w) ==
  LET i == IF s = "root" THEN ROOTINO ELSE cwd[p] IN
  /\ call' = Set(call, p, c)
  /\ cur' = Set(cur, p, i) /\ ref' = StartRef(i)
  /\ path' = Set(path, p, w)

begin(p, c, s, w) ==
  /\ pc[p] = "user"
  /\ namex_start(p, c, s, w)
  /\ valid' = Set(valid, cur'[p], ValidAfter(cur'[p]))
  /\ Goto(p, "namex")
  /\ UNCHANGED <<dsk, mem, lock, dir, cwd, file, ip>>

\* The end of a call: its variables are gone.
Done(p) == ip' = Set(ip, p, 0) /\ cur' = Set(cur, p, 0) /\ call' = Set(call, p, "none")
           /\ path' = Set(path, p, <<>>)

\* A call fails with one inode to drop; sys_link() first takes its link back.
FailWith(p, i) ==
  IF call[p] = "link" /\ ip[p] # 0
  THEN PutThen(p, i, "link_bad") /\ cur' = Set(cur, p, 0) /\ UNCHANGED <<call, ip, path>>
  ELSE PutThen(p, i, "user") /\ Done(p)

\* The whole path is walked.
namex_end(p) ==
  /\ pc[p] = "namex" /\ path[p] = <<>> /\ ~Parent(p)
  /\ ip' = Set(ip, p, cur[p]) /\ cur' = Set(cur, p, 0)
  /\ Goto(p, call[p])
  /\ UNCHANGED <<inodes, dir, ref, cwd, file, call, path>>

\* The root, or the current directory, has no name.
namex_noname(p) ==
  /\ pc[p] = "namex" /\ path[p] = <<>> /\ Parent(p)
  /\ FailWith(p, cur[p])
  /\ UNCHANGED <<inodes, dir, ref, cwd, file>>

\* "Stop one level early."
namex_parent(p) ==
  /\ pc[p] = "namex" /\ Len(path[p]) = 1 /\ Parent(p)
  /\ Lockable(cur[p]) /\ IsDir(cur[p]) /\ Load(cur[p])
  /\ Goto(p, IF call[p] = "link" THEN "link_new"
             ELSE IF call[p] = "unlink" THEN "unlink" ELSE "create")
  /\ UNCHANGED <<lock, dir, ref, cwd, file, locals>>

Walking(p) ==
  /\ pc[p] = "namex" /\ path[p] # <<>>
  /\ Lockable(cur[p])
  /\ IsDir(cur[p]) /\ Parent(p) => Len(path[p]) > 1

namex_fail(p) ==
  /\ Walking(p)
  /\ IsDir(cur[p]) => dir[cur[p]][name(p)] = 0
  /\ Load(cur[p])
  /\ FailWith(p, cur[p])
  /\ UNCHANGED <<lock, dir, ref, cwd, file>>

namex_next(p) ==
  LET j == dir[cur[p]][name(p)] IN
  /\ Walking(p) /\ IsDir(cur[p]) /\ j # 0
  /\ LoadAndGet(cur[p], j)
  /\ cur' = Set(cur, p, j) /\ path' = Set(path, p, Tail(path[p]))
  /\ PutThen(p, cur[p], "namex")
  /\ UNCHANGED <<lock, dir, cwd, file, call, ip>>
-------------------------------------------------------------------------------
(* sys_open() without O_CREATE, sys_close(), sys_chdir()                     *)

\* The call fails: open() of a directory to write, of a device with no driver.
Refused(p, i) == PutThen(p, i, "user") /\ UNCHANGED file

\* The file table has room for one file of each process.
Opens(p, i) ==
  IF file[p] = 0 THEN file' = Set(file, p, i) /\ Goto(p, "user")
                 ELSE Refused(p, i)

open(p) ==
  /\ pc[p] = "open" /\ Lockable(ip[p])
  /\ Load(ip[p])
  /\ Opens(p, ip[p]) \/ (In(ip[p]).type \in {"dir", "dev"} /\ Refused(p, ip[p]))
  /\ Done(p)
  /\ UNCHANGED <<lock, dir, ref, cwd>>

close(p) ==
  /\ pc[p] = "user" /\ file[p] # 0
  /\ file' = Set(file, p, 0)
  /\ PutThen(p, file[p], "user")
  /\ UNCHANGED <<inodes, dir, ref, cwd, locals>>

chdir(p) ==
  /\ pc[p] = "chdir" /\ Lockable(ip[p])
  /\ Load(ip[p])
  /\ IF IsDir(ip[p]) THEN cwd' = Set(cwd, p, ip[p]) /\ PutThen(p, cwd[p], "user")
                     ELSE UNCHANGED cwd /\ PutThen(p, ip[p], "user")
  /\ Done(p)
  /\ UNCHANGED <<lock, dir, ref, file>>

-------------------------------------------------------------------------------
(* create(), for sys_open() with O_CREATE, sys_mkdir() and sys_mknod()       *)

TypeOf(c) == IF c = "mkdir" THEN "dir" ELSE IF c = "mknod" THEN "dev" ELSE "file"

create_hit(p) ==
  LET j == dir[cur[p]][name(p)] IN
  /\ pc[p] = "create" /\ Lockable(cur[p]) /\ j # 0
  /\ LoadAndGet(cur[p], j)
  /\ ip' = Set(ip, p, j) /\ cur' = Set(cur, p, 0)
  /\ PutThen(p, cur[p], "create_found")
  /\ UNCHANGED <<lock, dir, cwd, file, call, path>>

create_found(p) ==
  /\ pc[p] = "create_found" /\ Lockable(ip[p])
  /\ Load(ip[p])
  /\ \/ call[p] = "create" /\ ~IsDir(ip[p]) /\ Opens(p, ip[p])
     \/ (call[p] = "create" => In(ip[p]).type \in {"dir", "dev"}) /\ Refused(p, ip[p])
  /\ Done(p)
  /\ UNCHANGED <<lock, dir, ref, cwd>>

FreeInodes == {i \in Inum : dsk[i].type = "free"}

\* ialloc() finds no inode.
create_noinode(p) ==
  /\ pc[p] = "create" /\ Lockable(cur[p]) /\ dir[cur[p]][name(p)] = 0
  /\ FreeInodes = {}
  /\ Load(cur[p])
  /\ PutThen(p, cur[p], "user") /\ Done(p)
  /\ UNCHANGED <<lock, dir, ref, cwd, file>>

\* ialloc() takes the first free inode, with dp locked.
ialloc(p, j) ==
  /\ pc[p] = "create" /\ Lockable(cur[p]) /\ dir[cur[p]][name(p)] = 0
  /\ j \in FreeInodes /\ \A i \in FreeInodes : j <= i
  /\ dsk' = Set(dsk, j, [type |-> TypeOf(call[p]), nlink |-> 0])
  /\ mem' = Set(mem, cur[p], In(cur[p]))
  /\ valid' = [valid EXCEPT ![j] = ValidAfter(j), ![cur[p]] = 1]
  /\ ref' = Got(j)
  /\ lock' = Set(lock, cur[p], p)
  /\ ip' = Set(ip, p, j)
  /\ Goto(p, "create_new")
  /\ UNCHANGED <<dir, cwd, file, call, cur, path>>

\* The new inode and its entry; ".." of a new directory is a link to dp.
create_new(p) ==
  LET d == IF IsDir(ip[p]) THEN 1 ELSE 0 IN
  /\ pc[p] = "create_new" /\ Lockable(ip[p])
  /\ Store([i \in {ip[p], cur[p]} |-> IF i = ip[p] THEN [In(i) EXCEPT !.nlink = 1] ELSE Links(i, d)])
  /\ dir' = [dir EXCEPT ![cur[p]][name(p)] = ip[p], ![ip[p]][".."] = d * cur[p]]
  /\ lock' = [lock EXCEPT ![ip[p]] = p, ![cur[p]] = 0]
  /\ PutThen(p, cur[p], "create_done") /\ cur' = Set(cur, p, 0)
  /\ UNCHANGED <<ref, cwd, file, call, ip, path>>

\* dirlink() finds no disk block: nlink is 0 again, and iput() frees the inode.
create_nospace(p) ==
  /\ pc[p] = "create_new" /\ Lockable(ip[p])
  /\ Store(One(ip[p], [In(ip[p]) EXCEPT !.nlink = 0]))
  /\ PutThen(p, ip[p], "drop_dp") /\ ip' = Set(ip, p, 0)
  /\ UNCHANGED <<lock, dir, ref, cwd, file, call, cur, path>>

\* iunlockput(dp), and the call has failed.
drop_dp(p) ==
  /\ pc[p] = "drop_dp"
  /\ lock' = Set(lock, cur[p], 0)
  /\ PutThen(p, cur[p], "user") /\ Done(p)
  /\ UNCHANGED <<dsk, mem, valid, dir, ref, cwd, file>>

create_done(p) ==
  /\ pc[p] = "create_done"
  /\ lock' = Set(lock, ip[p], 0)
  /\ IF call[p] = "create" THEN Opens(p, ip[p]) ELSE Refused(p, ip[p])
  /\ Done(p)
  /\ UNCHANGED <<dsk, mem, valid, dir, ref, cwd>>

-------------------------------------------------------------------------------
(* sys_unlink()                                                              *)

\* No such entry, or "..".
unlink_none(p) ==
  /\ pc[p] = "unlink" /\ Lockable(cur[p])
  /\ name(p) = ".." \/ dir[cur[p]][name(p)] = 0
  /\ Load(cur[p])
  /\ PutThen(p, cur[p], "user") /\ Done(p)
  /\ UNCHANGED <<lock, dir, ref, cwd, file>>

unlink_lookup(p) ==
  LET j == dir[cur[p]][name(p)] IN
  /\ pc[p] = "unlink" /\ Lockable(cur[p]) /\ name(p) # ".." /\ j # 0
  /\ LoadAndGet(cur[p], j)
  /\ lock' = Set(lock, cur[p], p)
  /\ ip' = Set(ip, p, j)
  /\ Goto(p, "unlink_ip")
  /\ UNCHANGED <<dir, cwd, file, call, cur, path>>

isdirempty(i) == \A n \in Name : dir[i][n] = 0

unlink_notempty(p) ==
  /\ pc[p] = "unlink_ip" /\ Lockable(ip[p])
  /\ IsDir(ip[p]) /\ ~isdirempty(ip[p])
  /\ Load(ip[p])
  /\ PutThen(p, ip[p], "drop_dp") /\ ip' = Set(ip, p, 0)
  /\ UNCHANGED <<lock, dir, ref, cwd, file, call, cur, path>>

\* The entry goes, and with a directory its ".." link to dp.
unlink_entry(p) ==
  LET d == IF IsDir(ip[p]) THEN -1 ELSE 0 IN
  /\ pc[p] = "unlink_ip" /\ Lockable(ip[p])
  /\ IsDir(ip[p]) => isdirempty(ip[p])
  /\ Store([i \in {ip[p], cur[p]} |-> IF i = ip[p] THEN In(i) ELSE Links(i, d)])
  /\ dir' = [dir EXCEPT ![cur[p]][name(p)] = 0]
  /\ lock' = [lock EXCEPT ![ip[p]] = p, ![cur[p]] = 0]
  /\ PutThen(p, cur[p], "unlink_link") /\ cur' = Set(cur, p, 0)
  /\ UNCHANGED <<ref, cwd, file, call, ip, path>>

OneLinkLess(i) == Links(i, -1)

unlink_link(p) ==
  /\ pc[p] = "unlink_link"
  /\ Store(One(ip[p], OneLinkLess(ip[p])))
  /\ lock' = Set(lock, ip[p], 0)
  /\ PutThen(p, ip[p], "user") /\ Done(p)
  /\ UNCHANGED <<dir, ref, cwd, file>>

-------------------------------------------------------------------------------
(* sys_link()                                                                *)

link_dir(p) ==
  /\ pc[p] = "link" /\ Lockable(ip[p]) /\ IsDir(ip[p])
  /\ Load(ip[p])
  /\ PutThen(p, ip[p], "user") /\ Done(p)
  /\ UNCHANGED <<lock, dir, ref, cwd, file>>

MutNoLink(i) == In(i)

OneMoreLink(i) == Links(i, 1)

\* The link is counted before the entry exists.
link_old(p) ==
  /\ pc[p] = "link" /\ Lockable(ip[p]) /\ ~IsDir(ip[p]) /\ In(ip[p]).nlink < MAXLINK
  /\ Store(One(ip[p], OneMoreLink(ip[p])))
  /\ Goto(p, "link_walk")
  /\ UNCHANGED <<lock, dir, ref, cwd, file, locals>>

link_walk(p, s, w) ==
  /\ pc[p] = "link_walk"
  /\ namex_start(p, "link", s, w)
  /\ valid' = Set(valid, cur'[p], ValidAfter(cur'[p]))
  /\ Goto(p, "namex")
  /\ UNCHANGED <<dsk, mem, lock, dir, cwd, file, ip>>

link_new(p) ==
  /\ pc[p] = "link_new" /\ Lockable(cur[p])
  /\ dir[cur[p]][name(p)] = 0
  /\ Store(One(cur[p], In(cur[p])))
  /\ dir' = [dir EXCEPT ![cur[p]][name(p)] = ip[p]]
  /\ PutThen(p, cur[p], "link_put") /\ cur' = Set(cur, p, 0)
  /\ UNCHANGED <<lock, ref, cwd, file, call, ip, path>>

\* The name exists, or there is no disk block for the entry.
link_fail(p) ==
  /\ pc[p] = "link_new" /\ Lockable(cur[p])
  /\ Load(cur[p])
  /\ PutThen(p, cur[p], "link_bad") /\ cur' = Set(cur, p, 0)
  /\ UNCHANGED <<lock, dir, ref, cwd, file, call, ip, path>>

link_put(p) ==
  /\ pc[p] = "link_put"
  /\ PutThen(p, ip[p], "user") /\ Done(p)
  /\ UNCHANGED <<inodes, dir, ref, cwd, file>>

link_bad(p) ==
  /\ pc[p] = "link_bad" /\ Lockable(ip[p])
  /\ Store(One(ip[p], Links(ip[p], -1)))
  /\ PutThen(p, ip[p], "user") /\ Done(p)
  /\ UNCHANGED <<lock, dir, ref, cwd, file>>
-------------------------------------------------------------------------------
Next == \E p \in Proc :
  \/ \E s \in Starts, c \in Calls[p] : begin(p, c[1], s, c[2])
  \/ \E s \in Starts, w \in Paths : link_walk(p, s, w)
  \/ iput(p) \/ iput_lock(p) \/ iput_free(p) \/ iput_unlock(p) \/ iput_drop(p)
  \/ namex_end(p) \/ namex_noname(p) \/ namex_parent(p) \/ namex_fail(p) \/ namex_next(p)
  \/ open(p) \/ close(p) \/ chdir(p)
  \/ create_hit(p) \/ create_found(p) \/ create_noinode(p) \/ (\E j \in Inum : ialloc(p, j))
  \/ create_new(p) \/ create_nospace(p) \/ create_done(p) \/ drop_dp(p)
  \/ unlink_none(p) \/ unlink_lookup(p) \/ unlink_notempty(p) \/ unlink_entry(p) \/ unlink_link(p)
  \/ link_dir(p) \/ link_old(p) \/ link_new(p) \/ link_fail(p) \/ link_put(p) \/ link_bad(p)

Spec == Init /\ [][Next]_vars

-------------------------------------------------------------------------------
(* Properties                                                                *)

Dinode == [type : {"free", "dir", "file", "dev"}, nlink : Nat]

\* The type invariant of the inode table and of the system calls.
TypeOK ==
  /\ dsk \in [Inum -> Dinode] /\ mem \in [Inum -> Dinode]
  /\ dir \in [Inum -> [Name \cup {".."} -> Inum \cup {0}]]
  /\ valid \in [Inum -> {0, 1}] /\ ref \in [Inum -> Nat]
  /\ lock \in [Inum -> Proc \cup {0}]
  /\ cwd \in [Proc -> Inum] /\ file \in [Proc -> Inum \cup {0}]
  /\ call \in [Proc -> AllCalls \cup {"none"}]
  /\ cur \in [Proc -> Inum \cup {0}] /\ ip \in [Proc -> Inum \cup {0}]
  /\ vic \in [Proc -> Inum \cup {0}]

\* The pointers to an inode that processes hold.
Holders(f, i) == Cardinality({p \in Proc : f[p] = i})

\* "ip->ref tracks the number of in-memory pointers to the entry" (fs.c:132): on no
\* path of a call, the failing ones included, is a reference lost or dropped twice.
RefsCounted == \A i \in Inum :
  ref[i] = Holders(cwd, i) + Holders(file, i) + Holders(cur, i) + Holders(ip, i) + Holders(vic, i)

\* An inode table entry that ilock() will not read again agrees with the disk, also
\* when iput() has freed the inode and ialloc() has given it to someone else.
MemoryIsCurrent == \A i \in Inum :
  ref[i] > 0 /\ valid[i] = 1 /\ lock[i] = 0 => mem[i] = dsk[i]

\* The entries that name an inode, and those of its subdirectories' "..".
NamesOf(i) == {<<d, n>> \in Inum \X Name : dir[d][n] = i}
Subdirs(i) == {n \in Name : dir[i][n] # 0 /\ dsk[dir[i][n]].type = "dir"}

\* nlink covers the links: an inode has at least as many as there are entries that
\* name it and subdirectories in it, and a free one has none.  So no entry dangles
\* and sys_unlink() never meets "unlink: nlink < 1".
LinksCovered == \A i \in Inum :
  /\ Cardinality(NamesOf(i)) + Cardinality(Subdirs(i)) <= dsk[i].nlink
  /\ dsk[i].type = "free" => dsk[i].nlink = 0

\* "ip->ref == 1 means no other process can have ip locked, so this acquiresleep()
\* won't block (or deadlock)" (fs.c:344).
IputNeverBlocks == \A p \in Proc : pc[p] = "iput" /\ MustFree(vic[p]) => Lockable(vic[p])

\* A file that is open, a current directory and an inode that a call works on is
\* allocated: ilock() never meets "ilock: no type".
HeldIsAllocated == \A p \in Proc :
  \A i \in {cwd[p], file[p], cur[p], ip[p]} \ {0} : dsk[i].type # "free"
===============================================================================
