----------------------------- MODULE FileSystem -----------------------------
(***************************************************************************)
(* The file system of logfs above its transaction manager: inodes, bitmaps *)
(* and directories (inode.c) and the FUSE operations (fs_ops.c), over the  *)
(* three places a block may be in: the staging table, the committed and    *)
(* not yet checkpointed transactions, and the device.                      *)
(*                                                                         *)
(* Every callback that changes anything holds g_fs_lock from its first     *)
(* read to its last write, so an operation is one step.  A commit, and a   *)
(* checkpoint, is one step between two operations: module Journal takes    *)
(* them apart, and module TxnManager has the operations that overlap them. *)
(*                                                                         *)
(* Permission bits, owners, times and the text of names are left out; a    *)
(* file is a sequence of units, BlockUnits to a block.                     *)
(***************************************************************************)
EXTENDS Integers, Sequences, FiniteSets, SequencesExt, BlockDev

CONSTANTS
  Paths,            \* the paths calls name: non-empty sequences of names
  Vals,             \* what write() writes
  Zero, Junk,       \* a unit never written; a unit of anything but file data
  TotalInodes, InodesPerBlock,
  NData,            \* data blocks
  NDirBlocks,       \* LOGFS_NDIR_BLOCKS: block pointers of an inode
  DirentsPerBlock,  \* LOGFS_DIRENTS_PER_BLOCK
  BlockUnits,       \* LOGFS_BLOCK_SIZE, in units
  Spans,            \* the <<offset, size>> of write() calls
  Sizes,            \* the sizes of truncate() calls
  Modes,            \* the data modes a mount may choose
  MaxOpen, MaxOps, MaxOpsAfterCrash, MaxCommits, MaxCrashes, MaxErrors,   \* bounds,
  MaxSteps,         \* and one on operations, commits and errors together
  Conditions        \* what may happen besides the quiet case, a subset of:
                    \*   "reuse"       ordered data goes to a block that was freed, but
                    \*                 has a journaled copy or a committed owner
                    \*   "expose"      a file shows bytes nobody wrote to it
                    \*   "halfway"     an error inside mkdir, rmdir or truncate
                    \*   "openUnlink"  an open file is unlinked
                    \*   "dropped"     a commit fails while files are open

Inodes == 1 .. TotalInodes
ROOT_INO == 1

(* struct logfs_super: the layout mkfs chose (module Format). *)
inode_bitmap_start == 1
block_bitmap_start == 2
inode_table_start == 3
inode_location(ino) == inode_table_start + (ino - 1) \div InodesPerBlock
Table == {inode_location(ino) : ino \in Inodes}
InTable(b) == {ino \in Inodes : inode_location(ino) = b}

(* The table is taken to hold the inodes it is made for.  logfs_fs_format   *)
(* sizes it in bytes; module Format has that formula and the layouts for    *)
(* which the two differ (run layout_inodes), which are left out here.       *)
data_start == inode_location(TotalInodes) + 1
DataBlocks == data_start .. data_start + NData - 1
Device == {inode_bitmap_start, block_bitmap_start} \cup Table \cup DataBlocks

MaxSize == NDirBlocks * BlockUnits

Names == UNION {{p[i] : i \in DOMAIN p} : p \in Paths}

ASSUME FileSystemAssumption ==
  /\ TotalInodes \in Nat \ {0} /\ InodesPerBlock \in Nat \ {0} /\ NData \in Nat \ {0}
  /\ NDirBlocks \in Nat \ {0} /\ BlockUnits \in Nat \ {0}
  /\ DirentsPerBlock \in Nat /\ DirentsPerBlock >= 2
  /\ Spans \subseteq (0 .. MaxSize) \X (1 .. MaxSize) /\ Sizes \subseteq 0 .. MaxSize
  /\ Modes \subseteq {"ordered", "journal"}
  /\ Paths \subseteq Seq(Names) \ {<<>>} /\ "." \notin Names /\ ".." \notin Names
  /\ Zero # Junk /\ Zero \notin Vals /\ Junk \notin Vals

VARIABLES
  mode,      \* mgr->mode
  staged,    \* mgr->buckets: block -> content, the running generation
  logged,    \* committed transactions not checkpointed yet, oldest first
  home,      \* region: the device (module BlockDev)
  open,      \* the inode numbers in fi->fh of open files
  tree,      \* history: what a walk over the paths sees
  saved,     \* history: the tree at the last commit
  touched,   \* history: the paths of files written since
  leaky,     \* history: an operation has failed after staging a block
  count      \* history: operations, commits, crashes and errors (bounds)

vars == <<mode, staged, logged, home, open, tree, saved, touched, leaky, count>>
-----------------------------------------------------------------------------
(* Contents of blocks (disk_format.h). *)

FreeSlot == [ino |-> 0, name |-> "", type |-> "none"]
Dirent(name, ino, type) == [ino |-> ino, name |-> name, type |-> type]
DirBlock(ents) ==
  [kind |-> "dir", ents |-> [e \in 1 .. DirentsPerBlock |->
                               IF e \in DOMAIN ents THEN ents[e] ELSE FreeSlot]]
FileBlock(units) == [kind |-> "file", units |-> units]
ZeroBlock == FileBlock([u \in 1 .. BlockUnits |-> Zero])
TornBlock == FileBlock([u \in 1 .. BlockUnits |-> Junk])

(* A block of the wrong kind: no entries, or bytes that mean nothing.       *)
Ents(c) == IF c.kind = "dir" THEN c.ents ELSE DirBlock(<<>>).ents
Units(c) == IF c.kind = "file" THEN c.units ELSE TornBlock.units

NoBlocks == [k \in 1 .. NDirBlocks |-> 0]
NoInode == [type |-> "none", nlink |-> 0, size |-> 0, blocks |-> NoBlocks]
NewDirBlock(ino, parent) == DirBlock(<<Dirent(".", ino, "dir"), Dirent("..", parent, "dir")>>)
NewDir(block) == [type |-> "dir", nlink |-> 2, size |-> BlockUnits,
                  blocks |-> [NoBlocks EXCEPT ![1] = block]]
NewFile == [type |-> "file", nlink |-> 1, size |-> 0, blocks |-> NoBlocks]
-----------------------------------------------------------------------------
(* A call in progress: its result so far and what it has made of the        *)
(* storage.  fail says which call that may fail does so (0: none).          *)
(* After an error, nothing else happens: every callee returns at once.      *)

Begin(fail) == [rc |-> "ok", out |-> 0, staged |-> staged, logged |-> logged,
                home |-> home, fresh |-> {}, calls |-> 0, fail |-> fail]
Fail(s, rc) == IF s.rc = "ok" THEN [s EXCEPT !.rc = rc] ELSE s

MutReadSkipsLog(s, b) == IF b \in DOMAIN s.staged THEN s.staged[b] ELSE s.home.cur[b]

(* Staging table, newest committed copy, device.                            *)
Copies(s, b) == {i \in DOMAIN s.logged : b \in DOMAIN s.logged[i]}
logfs_txn_read_block(s, b) ==
  IF b \in DOMAIN s.staged THEN s.staged[b]
  ELSE IF Copies(s, b) = {} THEN s.home.cur[b]
  ELSE s.logged[CHOOSE i \in Copies(s, b) : \A k \in Copies(s, b) : k <= i][b]

(* A call that may fail: malloc, or a read or write of the device.          *)
Fallible(s) == [s EXCEPT !.calls = @ + 1,
                         !.rc = IF s.calls + 1 = s.fail THEN "EIO" ELSE "ok"]

(* The first access in a generation makes a node, which may fail.           *)
logfs_txn_get_write_access(s, b) ==
  LET t == Fallible(s) IN
  IF s.rc # "ok" \/ b \in DOMAIN s.staged THEN s
  ELSE IF t.rc # "ok" THEN t
  ELSE [t EXCEPT !.staged = [x \in DOMAIN @ \cup {b} |-> logfs_txn_read_block(s, x)]]

(* Get write access to block b and change it to c.                          *)
Put(s, b, c) ==
  LET t == logfs_txn_get_write_access(s, b) IN
  IF t.rc # "ok" THEN t ELSE [t EXCEPT !.staged[b] = c]

(* Mode "ordered": in place, at once, past the staging table.               *)
logfs_txn_write_data(s, b, c) ==
  LET t == Fallible(s) IN
  IF mode = "journal" THEN Put(s, b, c)
  ELSE IF s.rc # "ok" THEN s
  ELSE IF t.rc # "ok" THEN t
  ELSE [t EXCEPT !.home = logfs_bdev_write(@, b, c, TornBlock)]
-----------------------------------------------------------------------------
(* inode.c *)

logfs_inode_read(s, ino) ==
  IF ino \in Inodes THEN logfs_txn_read_block(s, inode_location(ino))[ino] ELSE NoInode

logfs_inode_write(s, ino, in) ==
  LET b == inode_location(ino) IN
  IF ino \notin Inodes THEN Fail(s, "EINVAL")
  ELSE Put(s, b, [logfs_txn_read_block(s, b) EXCEPT ![ino] = in])

Least(S) == CHOOSE x \in S : \A y \in S : x <= y

(* The first clear bit among those of S, set.                               *)
SetBit(s, bitmap, S) ==
  LET t == logfs_txn_get_write_access(s, bitmap)
      used == logfs_txn_read_block(t, bitmap)
      bit == Least(S \ used)
  IN  IF t.rc # "ok" THEN t
      ELSE IF S \ used = {} THEN Fail(t, "ENOSPC")
      ELSE [Put(t, bitmap, used \cup {bit}) EXCEPT !.out = bit]

MutAllocInodeFromZero(s) == SetBit(s, inode_bitmap_start, Inodes \cup {0})
logfs_alloc_inode(s) == SetBit(s, inode_bitmap_start, Inodes)

MutFreeInodeOffByOne(s, ino) ==
  IF ino \notin Inodes THEN Fail(s, "EINVAL")
  ELSE Put(s, inode_bitmap_start, logfs_txn_read_block(s, inode_bitmap_start) \ {ino - 1})

logfs_free_inode(s, ino) ==
  IF ino \notin Inodes THEN Fail(s, "EINVAL")
  ELSE Put(s, inode_bitmap_start, logfs_txn_read_block(s, inode_bitmap_start) \ {ino})

logfs_alloc_block(s) ==
  LET t == SetBit(s, block_bitmap_start, DataBlocks)
  IN  IF t.rc # "ok" THEN t ELSE [t EXCEPT !.fresh = @ \cup {t.out}]

(* Once for each block of S: only the first call can fail, since it gets    *)
(* write access for all of them.                                            *)
logfs_free_block(s, S) ==
  IF ~(S \subseteq DataBlocks) THEN Fail(s, "EINVAL")
  ELSE IF S = {} THEN s
  ELSE Put(s, block_bitmap_start, logfs_txn_read_block(s, block_bitmap_start) \ S)

(* A slot of a directory is a pointer's index and an entry's index in the   *)
(* block; the loops over slots stop at the first null pointer.              *)
Slots(in) == {slot \in (1 .. NDirBlocks) \X (1 .. DirentsPerBlock) :
                \A k \in 1 .. slot[1] : in.blocks[k] # 0}
FirstSlot(S) ==
  CHOOSE x \in S : \A y \in S : x[1] < y[1] \/ (x[1] = y[1] /\ x[2] <= y[2])
Entry(s, in, slot) ==
  Ents(logfs_txn_read_block(s, in.blocks[slot[1]]))[slot[2]]
Named(s, in, name) ==
  {slot \in Slots(in) : Entry(s, in, slot).ino # 0 /\ Entry(s, in, slot).name = name}
FreeSlots(s, in) == {slot \in Slots(in) : Entry(s, in, slot).ino = 0}

SetSlot(s, in, slot, ent) ==
  LET b == in.blocks[slot[1]]
      ents == Ents(logfs_txn_read_block(s, b))
  IN  Put(s, b, DirBlock([ents EXCEPT ![slot[2]] = ent]))

(* The entry, or a free slot for -ENOENT and -ENOTDIR.                      *)
logfs_dir_lookup(s, dir, name) ==
  LET in == logfs_inode_read(s, dir) IN
  IF in.type # "dir" \/ Named(s, in, name) = {} THEN FreeSlot
  ELSE Entry(s, in, FirstSlot(Named(s, in, name)))

(* In the first free slot, or in a new block that is cleared first.         *)
logfs_dir_add(s, dir, name, ino, type) ==
  LET in == logfs_inode_read(s, dir)
      null == {k \in 1 .. NDirBlocks : in.blocks[k] = 0}
      a == logfs_alloc_block(s)
      ent == Dirent(name, ino, type)
  IN  IF s.rc # "ok" THEN s
      ELSE IF in.type # "dir" THEN Fail(s, "ENOTDIR")
      ELSE IF Named(s, in, name) # {} THEN Fail(s, "EEXIST")
      ELSE IF FreeSlots(s, in) # {} THEN SetSlot(s, in, FirstSlot(FreeSlots(s, in)), ent)
      ELSE IF null = {} THEN Fail(s, "ENOSPC")
      ELSE logfs_inode_write(Put(a, a.out, DirBlock(<<ent>>)), dir,
                             [in EXCEPT !.blocks[Least(null)] = a.out,
                                        !.size = @ + BlockUnits])

logfs_dir_remove(s, dir, name) ==
  LET in == logfs_inode_read(s, dir)
      slot == FirstSlot(Named(s, in, name))
  IN  IF s.rc # "ok" THEN s
      ELSE IF in.type # "dir" THEN Fail(s, "ENOTDIR")
      ELSE IF Named(s, in, name) = {} THEN Fail(s, "ENOENT")
      ELSE SetSlot(s, in, slot, [Entry(s, in, slot) EXCEPT !.ino = 0])

(* The names readdir reports, slot by slot.                                 *)
logfs_op_readdir(s, dir) ==
  LET in == logfs_inode_read(s, dir)
      used == {slot \in Slots(in) : Entry(s, in, slot).ino # 0}
  IN  [slot \in used |-> Entry(s, in, slot).name]

logfs_dir_is_empty(s, dir) ==
  LET in == logfs_inode_read(s, dir) IN
  \A slot \in Slots(in) : LET ent == Entry(s, in, slot)
                          IN  ent.ino # 0 => ent.name \in {".", ".."}

(* The inode reached after n names of the path, 0 if none is; and after all. *)
Walk(s, path) ==
  LET cur[n \in 0 .. Len(path)] ==
        IF n = 0 THEN ROOT_INO ELSE logfs_dir_lookup(s, cur[n - 1], path[n]).ino
  IN  cur
logfs_path_lookup(s, path) == Walk(s, path)[Len(path)]
-----------------------------------------------------------------------------
(* fs_ops.c: what each callback does, from its split_parent to its unlock.  *)
(* A path is a non-empty sequence of names, so split_parent is Front, Last. *)

MutTruncateOffByOne(s, in, keep) ==
  logfs_free_block(s, {in.blocks[k] : k \in keep + 2 .. NDirBlocks} \ {0})

(* Frees the blocks of in from index keep + 1 on ...                        *)
truncate_blocks(s, in, keep) ==
  logfs_free_block(s, {in.blocks[k] : k \in keep + 1 .. NDirBlocks} \ {0})
MutPointersKept(in, keep) == in
(* ... which leaves in with these pointers.                                 *)
Shrunk(in, keep) ==
  [in EXCEPT !.blocks = [k \in 1 .. NDirBlocks |-> IF k > keep THEN 0 ELSE in.blocks[k]]]

AddLinks(s, ino, n) ==
  LET in == logfs_inode_read(s, ino) IN logfs_inode_write(s, ino, [in EXCEPT !.nlink = @ + n])

logfs_op_mkdir(s, path) ==
  LET parent == logfs_path_lookup(s, Front(path))
      a == logfs_alloc_inode(s)
      b == logfs_alloc_block(a)
      c == Put(b, b.out, NewDirBlock(a.out, parent))
      d == logfs_inode_write(c, a.out, NewDir(b.out))
      e == logfs_dir_add(d, parent, Last(path), a.out, "dir")
  IN  IF parent = 0 THEN Fail(s, "ENOENT")
      ELSE IF e.rc # "ok" THEN e ELSE AddLinks(e, parent, 1)

MutRmdirKeepsLink(s, path) ==
  LET parent == logfs_path_lookup(s, Front(path))
      ent == logfs_dir_lookup(s, parent, Last(path))
      a == truncate_blocks(s, logfs_inode_read(s, ent.ino), 0)
      b == logfs_free_inode(a, ent.ino)
  IN  IF ent.ino = 0 THEN Fail(s, "ENOENT")
      ELSE IF ent.type # "dir" THEN Fail(s, "ENOTDIR")
      ELSE IF ~logfs_dir_is_empty(s, ent.ino) THEN Fail(s, "ENOTEMPTY")
      ELSE logfs_dir_remove(b, parent, Last(path))

(* The blocks and the inode first, the entry after them.                    *)
logfs_op_rmdir(s, path) ==
  LET parent == logfs_path_lookup(s, Front(path))
      ent == logfs_dir_lookup(s, parent, Last(path))
      a == truncate_blocks(s, logfs_inode_read(s, ent.ino), 0)
      b == logfs_free_inode(a, ent.ino)
      c == logfs_dir_remove(b, parent, Last(path))
  IN  IF ent.ino = 0 THEN Fail(s, "ENOENT")
      ELSE IF ent.type # "dir" THEN Fail(s, "ENOTDIR")
      ELSE IF ~logfs_dir_is_empty(s, ent.ino) THEN Fail(s, "ENOTEMPTY")
      ELSE IF c.rc # "ok" THEN c ELSE AddLinks(c, parent, -1)

logfs_op_create(s, path) ==
  LET parent == logfs_path_lookup(s, Front(path))
      a == logfs_alloc_inode(s)
      b == logfs_inode_write(a, a.out, NewFile)
  IN  IF parent = 0 THEN Fail(s, "ENOENT")
      ELSE [logfs_dir_add(b, parent, Last(path), a.out, "file") EXCEPT !.out = a.out]

(* One turn of the write loop: block k of the file, read first if only a    *)
(* part of it is written.                                                   *)
WriteChunk(acc, k, first, last, v) ==
  LET new == acc.in.blocks[k] = 0
      a == IF new THEN logfs_alloc_block(acc.s) ELSE acc.s
      b == IF new THEN a.out ELSE acc.in.blocks[k]
      old == Units(logfs_txn_read_block(a, b))
      units == [u \in 1 .. BlockUnits |->
                  IF (k - 1) * BlockUnits + u \in first .. last THEN v ELSE old[u]]
  IN  IF a.rc # "ok" THEN [acc EXCEPT !.s = a]
      ELSE [s |-> logfs_txn_write_data(a, b, FileBlock(units)),
            in |-> [acc.in EXCEPT !.blocks[k] = b]]

(* The loop, by the last block it has written.                              *)
LastChunk(offset, size) == (offset + size - 1) \div BlockUnits + 1
WriteLoop(s, in, offset, size, v) ==
  LET acc[k \in offset \div BlockUnits .. LastChunk(offset, size)] ==
        IF k = offset \div BlockUnits THEN [s |-> s, in |-> in]
        ELSE WriteChunk(acc[k - 1], k, offset + 1, offset + size, v)
  IN  acc

logfs_op_write(s, ino, offset, size, v) ==
  LET done == WriteLoop(s, logfs_inode_read(s, ino), offset, size, v)[LastChunk(offset, size)]
  IN  IF offset + size > MaxSize THEN Fail(s, "EFBIG")
      ELSE logfs_inode_write(done.s, ino,
             [done.in EXCEPT !.size = IF offset + size > @ THEN offset + size ELSE @])

logfs_op_truncate(s, ino, size) ==
  LET in == logfs_inode_read(s, ino)
      keep == (size + BlockUnits - 1) \div BlockUnits
  IN  IF size > MaxSize THEN Fail(s, "EFBIG")
      ELSE IF size < in.size
      THEN logfs_inode_write(truncate_blocks(s, in, keep), ino,
                             [Shrunk(in, keep) EXCEPT !.size = size])
      ELSE logfs_inode_write(s, ino, [in EXCEPT !.size = size])

(* The entry first; at the last link the blocks and the inode after it.     *)
logfs_op_unlink(s, path) ==
  LET parent == logfs_path_lookup(s, Front(path))
      ino == logfs_dir_lookup(s, parent, Last(path)).ino
      in == logfs_inode_read(s, ino)
      a == logfs_dir_remove(s, parent, Last(path))
  IN  IF ino = 0 THEN Fail(s, "ENOENT")
      ELSE IF in.nlink = 1 THEN logfs_free_inode(truncate_blocks(a, in, 0), ino)
      ELSE logfs_inode_write(a, ino, [in EXCEPT !.nlink = @ - 1])

(* The whole file: a null pointer below its size is a hole of zeros.        *)
logfs_op_read(s, ino) ==
  LET in == logfs_inode_read(s, ino) IN
  [i \in 1 .. in.size |->
     LET b == in.blocks[(i - 1) \div BlockUnits + 1]
     IN  IF b = 0 THEN Zero
         ELSE Units(logfs_txn_read_block(s, b))[((i - 1) % BlockUnits) + 1]]

(* What a walk over the paths with getattr and read sees.                   *)
TreeOf(s) ==
  [p \in {<<>>} \cup {q \in Paths : logfs_path_lookup(s, q) # 0} |->
     LET ino == logfs_path_lookup(s, p)
         type == logfs_inode_read(s, ino).type
     IN  IF type = "file" THEN [type |-> type, data |-> logfs_op_read(s, ino)]
         ELSE [type |-> type]]
-----------------------------------------------------------------------------
(* Actions. *)

Now == Begin(0)

(* The image mkfs leaves: a root directory and nothing else.                *)
Init ==
  /\ mode \in Modes
  /\ home = Settled([b \in Device |->
       IF b = inode_bitmap_start THEN {ROOT_INO}
       ELSE IF b = block_bitmap_start THEN {data_start}
       ELSE IF b \in Table
       THEN [ino \in InTable(b) |-> IF ino = ROOT_INO THEN NewDir(data_start) ELSE NoInode]
       ELSE IF b = data_start THEN NewDirBlock(ROOT_INO, ROOT_INO)
       ELSE ZeroBlock])
  /\ staged = <<>> /\ logged = <<>> /\ open = {}
  /\ tree = TreeOf(Now) /\ saved = tree /\ touched = {} /\ leaky = FALSE
  /\ count = [ops |-> 0, commits |-> 0, crashes |-> 0, errors |-> 0]

InBudget == count.ops + count.commits + count.errors < MaxSteps

(* An operation, with the first, the second, ... call that may fail failing. *)
(* mkdir has two bitmaps, two directory blocks and two table blocks; a write *)
(* the block bitmap, the data blocks and a table block.                      *)
MaxFallible == Max({6, NDirBlocks + 2})
Calls == {Begin(fail) : fail \in 0 .. IF count.errors < MaxErrors THEN MaxFallible ELSE 0}
MayCall == count.ops < MaxOps /\ InBudget
MayOpen == Cardinality(open) < MaxOpen

(* The end of a callback.  Whatever it staged before an error stays staged; *)
(* one that returns before it changes anything is no step at all.           *)
Finish(s) ==
  /\ s.fail # 0 => s.rc = "EIO"
  /\ s.staged # staged \/ s.home # home
  /\ staged' = s.staged /\ home' = s.home
  /\ leaky' = (leaky \/ s.rc # "ok")
  /\ count' = [count EXCEPT !.ops = @ + 1, !.errors = @ + (IF s.fail = 0 THEN 0 ELSE 1)]
  /\ UNCHANGED <<mode, logged, saved>>

(* External: the kernel looks a name up before it forwards a call, so that  *)
(* mkdir and create find a parent directory without the name, and open,     *)
(* truncate and unlink find a file.                                         *)
Creatable(path) ==
  /\ logfs_path_lookup(Now, path) = 0
  /\ logfs_inode_read(Now, logfs_path_lookup(Now, Front(path))).type = "dir"
IsFile(ino) == logfs_inode_read(Now, ino).type = "file"

Mkdir(path) ==
  MayCall /\ Creatable(path) /\ \E s \in {logfs_op_mkdir(t, path) : t \in Calls} :
  /\ Finish(s)
  /\ s.rc = "EIO" /\ logfs_path_lookup(s, path) # 0 => "halfway" \in Conditions
  /\ UNCHANGED <<open, touched>>

Rmdir(path) ==
  MayCall /\ \E s \in {logfs_op_rmdir(t, path) : t \in Calls} :
  /\ Finish(s)
  /\ s.rc = "EIO" => "halfway" \in Conditions
  /\ UNCHANGED <<open, touched>>

Create(path) ==
  MayCall /\ Creatable(path) /\ MayOpen /\ \E s \in {logfs_op_create(t, path) : t \in Calls} :
  /\ Finish(s)
  /\ open' = IF s.rc = "ok" THEN open \cup {s.out} ELSE open
  /\ UNCHANGED touched

Open(path) ==
  LET ino == logfs_path_lookup(Now, path) IN
  /\ MayOpen /\ IsFile(ino) /\ ino \notin open
  /\ open' = open \cup {ino}
  /\ UNCHANGED <<mode, staged, logged, home, saved, touched, leaky, count>>

Release(ino) ==
  /\ ino \in open
  /\ open' = open \ {ino}
  /\ UNCHANGED <<mode, staged, logged, home, saved, touched, leaky, count>>

(* What is committed, over the contents f of the device.                    *)
Committed(f) == [Now EXCEPT !.staged = <<>>, !.home = Settled(f)]

(* Ordered data for a newly allocated block whose former content is staged, *)
(* logged and not checkpointed, or still owned in the committed bitmap.     *)
Reuses(s) ==
  mode = "ordered" /\ \E b \in s.fresh :
    \/ b \in DOMAIN s.staged \/ Copies(s, b) # {}
    \/ b \in logfs_txn_read_block(Committed(home.cur), block_bitmap_start)

(* A unit outside of what this call writes changes: in a hole, or past the  *)
(* end, the file now shows what its block held before.                      *)
Exposes(s, ino, first, last) ==
  LET old == logfs_op_read(Now, ino)
      new == logfs_op_read(s, ino)
  IN  \E i \in DOMAIN new \ (first .. last) :
        new[i] # IF i \in DOMAIN old THEN old[i] ELSE Zero

PathsOf(ino) == {p \in Paths : logfs_path_lookup(Now, p) = ino}

Write(ino, offset, size, v) ==
  MayCall /\ \E s \in {logfs_op_write(t, ino, offset, size, v) : t \in Calls} :
  /\ Finish(s)
  /\ Reuses(s) => "reuse" \in Conditions
  /\ Exposes(s, ino, offset + 1, offset + size) => "expose" \in Conditions
  /\ touched' = touched \cup PathsOf(ino)
  /\ UNCHANGED open

Truncate(path, size) ==
  LET ino == logfs_path_lookup(Now, path) IN
  /\ MayCall /\ IsFile(ino)
  /\ \E s \in {logfs_op_truncate(t, ino, size) : t \in Calls} :
       /\ Finish(s)
       /\ s.rc = "EIO" => "halfway" \in Conditions
       /\ Exposes(s, ino, 0, 0) => "expose" \in Conditions
  /\ UNCHANGED <<open, touched>>

(* External: libfuse renames an open file instead of unlinking it; logfs    *)
(* has no rename, so the call fails.                                        *)
Unlink(path) ==
  LET ino == logfs_path_lookup(Now, path) IN
  /\ MayCall /\ IsFile(ino)
  /\ ino \in open => "openUnlink" \in Conditions
  /\ \E s \in {logfs_op_unlink(t, path) : t \in Calls} : Finish(s)
  /\ UNCHANGED <<open, touched>>

MutCommitUnflushed ==
  /\ count.commits < MaxCommits /\ InBudget
  /\ staged # <<>> \/ Unflushed(home) # {}
  /\ logged' = IF staged = <<>> THEN logged ELSE Append(logged, staged)
  /\ staged' = <<>>
  /\ saved' = tree /\ touched' = {}
  /\ count' = [count EXCEPT !.commits = @ + 1]
  /\ UNCHANGED <<mode, home, open, leaky>>

(* A commit of the running generation, by the timer or for an fsync(): the  *)
(* ordered data is flushed first, the blocks staged are in the journal.     *)
Commit ==
  /\ count.commits < MaxCommits /\ InBudget
  /\ staged # <<>> \/ Unflushed(home) # {}
  /\ home' = logfs_bdev_flush(home)
  /\ logged' = IF staged = <<>> THEN logged ELSE Append(logged, staged)
  /\ staged' = <<>>
  /\ saved' = tree /\ touched' = {}
  /\ count' = [count EXCEPT !.commits = @ + 1]
  /\ UNCHANGED <<mode, open, leaky>>

(* logfs_journal_commit fails and do_commit frees the generation.           *)
CommitFails ==
  /\ InBudget /\ count.errors < MaxErrors /\ staged # <<>>
  /\ open # {} => "dropped" \in Conditions
  /\ staged' = <<>>
  /\ count' = [count EXCEPT !.errors = @ + 1]
  /\ UNCHANGED <<mode, logged, home, open, saved, touched, leaky>>

(* The copies of a transaction's blocks written over device contents f.     *)
Overlay(f, t) == [b \in DOMAIN f |-> IF b \in DOMAIN t THEN t[b] ELSE f[b]]

MutCheckpointNewest ==
  /\ logged # <<>>
  /\ home' = Settled(Overlay(home.cur, Last(logged)))
  /\ logged' = Front(logged)
  /\ UNCHANGED <<mode, staged, open, saved, touched, leaky, count>>

(* checkpoint_oldest. *)
Checkpoint ==
  /\ logged # <<>>
  /\ home' = Settled(Overlay(home.cur, Head(logged)))
  /\ logged' = Tail(logged)
  /\ UNCHANGED <<mode, staged, open, saved, touched, leaky, count>>

(* A kill or a power loss, and the mount after it, which replays the log:   *)
(* the newest copy of a block is the last one written.                      *)
Recovered(image) ==
  [Now EXCEPT !.staged = <<>>, !.logged = <<>>,
              !.home = Settled([b \in Device |-> logfs_txn_read_block(Committed(image), b)])]
Crash ==
  /\ count.crashes < MaxCrashes
  /\ \E s \in {Recovered(image) : image \in PowerLossImages(home)} :
       /\ staged' = s.staged /\ logged' = s.logged /\ home' = s.home
       /\ saved' = TreeOf(s)
  /\ open' = {} /\ touched' = {}
  /\ count' = [count EXCEPT !.crashes = @ + 1,
                            !.ops = LET rest == MaxOps - MaxOpsAfterCrash
                                    IN  IF @ < rest THEN rest ELSE @]
  /\ UNCHANGED <<mode, leaky>>

Step ==
  \/ \E path \in Paths :
       \/ Mkdir(path) \/ Rmdir(path) \/ Create(path) \/ Unlink(path) \/ Open(path)
       \/ \E size \in Sizes : Truncate(path, size)
  \/ \E ino \in open :
       \/ \E span \in Spans, v \in Vals : Write(ino, span[1], span[2], v)
       \/ Release(ino)
  \/ Commit \/ CommitFails \/ Checkpoint \/ Crash

Next == Step /\ \E s \in {Now'} : tree' = TreeOf(s)

Spec == Init /\ [][Next]_vars
-----------------------------------------------------------------------------
(* Properties.  They speak of the tree as a reader of the running system    *)
(* sees it; a crash leads to a state, so they cover every crash image too.  *)

Unit == Vals \cup {Zero, Junk}
Slot == [ino : Inodes \cup {0}, name : Names \cup {"", ".", ".."}, type : {"none", "dir", "file"}]
Inode == [type : {"none", "dir", "file"}, nlink : Nat, size : 0 .. MaxSize,
          blocks : [1 .. NDirBlocks -> DataBlocks \cup {0}]]
ContentOK(b, c) ==
  IF b = inode_bitmap_start THEN c \subseteq Inodes
  ELSE IF b = block_bitmap_start THEN c \subseteq DataBlocks
  ELSE IF b \in Table THEN c \in [InTable(b) -> Inode]
  ELSE \/ c \in [kind : {"dir"}, ents : [1 .. DirentsPerBlock -> Slot]]
       \/ c \in [kind : {"file"}, units : [1 .. BlockUnits -> Unit]]

(* Every block, wherever it is, holds what its place in the layout says.    *)
TypeOK ==
  /\ mode \in Modes /\ open \subseteq Inodes /\ leaky \in BOOLEAN
  /\ DOMAIN home.cur = Device /\ DOMAIN home.alt = Device
  /\ \A b \in Device : \A c \in home.alt[b] \cup {home.cur[b]} : ContentOK(b, c)
  /\ DOMAIN staged \subseteq Device /\ \A b \in DOMAIN staged : ContentOK(b, staged[b])
  /\ \A i \in DOMAIN logged : /\ DOMAIN logged[i] \subseteq Device
                              /\ \A b \in DOMAIN logged[i] : ContentOK(b, logged[i][b])
  /\ touched \subseteq Paths

(* The paths that name something, and the inodes they name.                 *)
Lookup(p) == logfs_path_lookup(Now, p)
Reachable == {Lookup(p) : p \in DOMAIN tree}
Attr(ino) == logfs_inode_read(Now, ino)
Target(x) == Attr(x[1]).blocks[x[2]]
Pointers == {x \in Reachable \X (1 .. NDirBlocks) : Target(x) # 0}
Allocated(bitmap) == logfs_txn_read_block(Now, bitmap)

(* No block belongs to two files, or to none: every block a reachable inode *)
(* points to is marked in the bitmap and has no other owner, whatever was   *)
(* allocated, freed, dropped or replayed before (bitmaps, inodes and        *)
(* directories are separate blocks of one transaction).                     *)
BlocksOwned ==
  /\ \A x, y \in Pointers : Target(x) = Target(y) => x = y
  /\ \A x \in Pointers : Target(x) \in Allocated(block_bitmap_start)

(* The directories form a tree of live inodes: a name is listed once, leads *)
(* to an allocated inode of the type the entry gives and to no inode that   *)
(* has another name; "." and ".." lead to the directory and its parent.     *)
DirectoriesSound ==
  /\ Cardinality(Reachable) = Cardinality(DOMAIN tree)
  /\ Reachable \subseteq Allocated(inode_bitmap_start)
  /\ \A p \in DOMAIN tree :
       LET ino == Lookup(p)
           parent == IF p = <<>> THEN ino ELSE Lookup(Front(p))
           names == logfs_op_readdir(Now, ino)
       IN  /\ p # <<>> => logfs_dir_lookup(Now, parent, Last(p)).type = tree[p].type
           /\ tree[p].type = "dir" =>
                /\ \A i, k \in DOMAIN names : names[i] = names[k] => i = k
                /\ logfs_dir_lookup(Now, ino, ".").ino = ino
                /\ logfs_dir_lookup(Now, ino, "..").ino = parent

(* A directory's link count is 2 and one for each subdirectory, a file's is *)
(* 1, so that unlink frees a file exactly when its only name goes.          *)
LinkCounts ==
  \A p \in DOMAIN tree :
    LET subdirs == {q \in DOMAIN tree \ {<<>>} : Front(q) = p /\ tree[q].type = "dir"}
    IN  Attr(Lookup(p)).nlink = IF tree[p].type = "dir" THEN 2 + Cardinality(subdirs) ELSE 1

(* Metadata never points at garbage (docs/DESIGN.md section 9): a block of  *)
(* a directory reads as directory entries, a block of a file as file data,  *)
(* also after a crash and the replay of old copies of reused blocks.        *)
BlockKinds ==
  \A x \in Pointers : logfs_txn_read_block(Now, Target(x)).kind = Attr(x[1]).type

(* Only an operation that reported an error leaks (the "known gap" at the   *)
(* top of fs_ops.c): until one does, exactly the inodes and blocks in use   *)
(* are allocated.                                                           *)
NoLeakWithoutError ==
  ~leaky => /\ Allocated(inode_bitmap_start) = Reachable
            /\ Allocated(block_bitmap_start) = {Target(x) : x \in Pointers}
=============================================================================
