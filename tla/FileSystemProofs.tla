-------------------------- MODULE FileSystemProofs --------------------------
(***************************************************************************)
(* Theorems about FileSystem for every layout whose table holds its inodes *)
(* (data_start), every set of paths and both data modes.  The inductive    *)
(* invariant says that two structures are consistent: the one the running  *)
(* system reads through staging table, log and device, and the one that    *)
(* the log gives over every content the device may have after a power      *)
(* loss; and that the second shows the tree of the last commit.  Every     *)
(* step is then one of module FileTree.                                    *)
(***************************************************************************)
EXTENDS DirectoryProofs, FileSystemTree

-----------------------------------------------------------------------------
(* A write: the loop over the blocks of the file, then the inode. *)

(* A call never takes a block out of the staging table. *)
StagedGrows(s, t) == \A x \in DOMAIN s.staged : x \in DOMAIN t.staged

(* Put keeps what was staged.                                               *)
LEMMA PutGrows ==
  ASSUME NEW s, StorageOK(s), NEW b \in Device, NEW c
  PROVE  StagedGrows(s, Put(s, b, c))
<1> DEFINE t == logfs_txn_get_write_access(s, b)
           u == Put(s, b, c)
<1>1. StorageOK(t) /\ DOMAIN s.staged \subseteq DOMAIN t.staged BY AccessEffect
<1>2. u = IF t.rc # "ok" THEN t ELSE [t EXCEPT !.staged[b] = c] BY DEF Put
<1> HIDE DEF t, u
<1>3. CASE t.rc # "ok" BY <1>1, <1>2, <1>3 DEF StagedGrows, u
<1>4. CASE t.rc = "ok"
  <2>1. u.staged = [t.staged EXCEPT ![b] = c] BY <1>1, <1>2, <1>4 DEF IsCall, StorageOK
  <2> QED BY <1>1, <2>1 DEF StagedGrows, u
<1> QED BY <1>3, <1>4

(* So does logfs_alloc_block.                                               *)
LEMMA AllocGrows ==
  ASSUME NEW s, StorageOK(s)
  PROVE  StagedGrows(s, logfs_alloc_block(s))
<1> DEFINE b == block_bitmap_start
           a == logfs_txn_get_write_access(s, b)
           used == logfs_txn_read_block(a, b)
           bit == Least(DataBlocks \ used)
           u == Put(a, b, used \cup {bit})
           z == SetBit(s, b, DataBlocks)
           t == logfs_alloc_block(s)
<1>1. b \in Device BY Layout
<1>2. StorageOK(a) /\ StagedGrows(s, a) BY <1>1, AccessEffect DEF StagedGrows
<1>3. StagedGrows(a, u) BY <1>1, <1>2, PutGrows
<1>4. z = IF a.rc # "ok" THEN a ELSE IF DataBlocks \ used = {} THEN Fail(a, "ENOSPC")
          ELSE [u EXCEPT !.out = bit]
  BY DEF SetBit
<1>5. t = IF z.rc # "ok" THEN z ELSE [z EXCEPT !.fresh = @ \cup {z.out}]
  BY DEF logfs_alloc_block
<1> HIDE DEF a, u, z, t
<1>6. Fail(a, "ENOSPC").staged = a.staged BY <1>2 DEF Fail, StorageOK, IsCall
<1>7. z.staged = a.staged \/ z.staged = u.staged BY <1>4, <1>6
<1>8. t.staged = z.staged BY <1>5
<1> QED BY <1>2, <1>3, <1>7, <1>8 DEF StagedGrows, t

(* File data written in place, to blocks of B only. *)
HomeGrows(g, h, B) ==
  /\ \A x \in Device : x \notin B => h.cur[x] = g.cur[x] /\ h.alt[x] = g.alt[x]
  /\ \A x \in Device : h.cur[x] = g.cur[x] \/ (h.cur[x] \in FileContent /\ h.cur[x] \in h.alt[x])
  /\ \A x \in Device : \A y \in g.alt[x] : y \in h.alt[x]
  /\ \A x \in Device : \A y \in h.alt[x] : y \in g.alt[x] \/ y \in FileContent

(* Nothing written is a case of it.                                         *)
LEMMA HomeSame == \A g, B : HomeGrows(g, g, B)
BY DEF HomeGrows

(* One write after another.                                                 *)
LEMMA HomeTrans ==
  ASSUME NEW g, NEW h, NEW i, NEW B, NEW C, HomeGrows(g, h, B), HomeGrows(h, i, C), B \in SUBSET C
  PROVE  HomeGrows(g, i, C)
BY DEF HomeGrows

(* logfs_bdev_write of file data: the device reads the new data, and may    *)
(* lose it, or have half of it, after a power loss.                         *)
LEMMA DeviceWrite ==
  ASSUME NEW g, RegionOK(g), NEW b \in DataBlocks, NEW c \in FileContent
  PROVE  LET h == logfs_bdev_write(g, b, c, TornBlock) IN
         /\ RegionOK(h) /\ h.cur[b] = c /\ HomeGrows(g, h, {b})
<1> DEFINE h == logfs_bdev_write(g, b, c, TornBlock)
<1>1. TornBlock \in FileContent BY DEF TornBlock, FileBlock, FileContent, Unit
<1>2. b \in Device BY Layout
<1> HIDE DEF h
<1>3. h.cur = [g.cur EXCEPT ![b] = c] /\ h.alt = [g.alt EXCEPT ![b] = @ \cup {c, TornBlock}]
      /\ h = [cur |-> h.cur, alt |-> h.alt]
  BY DEF h, logfs_bdev_write
<1>4. DOMAIN g.cur = Device /\ DOMAIN g.alt = Device BY DEF RegionOK
<1>5. /\ DOMAIN h.cur = Device /\ DOMAIN h.alt = Device
      /\ \A x \in Device : h.cur[x] = IF x = b THEN c ELSE g.cur[x]
      /\ \A x \in Device : h.alt[x] = IF x = b THEN g.alt[b] \cup {c, TornBlock} ELSE g.alt[x]
  BY <1>2, <1>3, <1>4
<1>6. ContentOK(b, c) /\ ContentOK(b, TornBlock) BY <1>1, ContentData
<1>7. RegionOK(h)
  <2>1. ASSUME NEW x \in Device PROVE ContentOK(x, h.cur[x]) /\ \A y \in h.alt[x] : ContentOK(x, y)
    BY <1>5, <1>6 DEF RegionOK
  <2>2. h.cur = [x \in Device |-> h.cur[x]]
    <3>1. h.cur = [x \in DOMAIN g.cur |-> IF x = b THEN c ELSE g.cur[x]] BY <1>3
    <3> QED BY <1>4, <3>1
  <2> QED BY <1>3, <1>5, <2>1, <2>2 DEF RegionOK
<1>8. HomeGrows(g, h, {b}) BY <1>1, <1>2, <1>5 DEF HomeGrows
<1> QED BY <1>2, <1>5, <1>7, <1>8 DEF h

(* Block b is read from the device: no copy is staged or logged.            *)
Uncovered(s, b) == b \notin DOMAIN s.staged /\ Copies(s, b) = {}

(* From s to t the data c was written to block b, past the staging table in *)
(* mode "ordered"; it is what a reader sees unless an old copy covers it.   *)
DataWritten(s, t, b, c) ==
  /\ StorageOK(t) /\ t.logged = s.logged /\ t.fresh = s.fresh /\ OnlyEIO(s, t)
  /\ s.rc # "ok" => t = s
  /\ t.rc = "ok" => s.rc = "ok"
  /\ \A x \in Device \ {b} : R(t, x) = R(s, x)
  /\ R(t, b) = R(s, b) \/ R(t, b) = c
  /\ t.rc = "ok" /\ (mode # "journal" => Uncovered(s, b)) => R(t, b) = c
  /\ HomeGrows(s.home, t.home, {b}) /\ (mode = "journal" => t.home = s.home)
  /\ mode # "journal" => t.staged = s.staged
  /\ StagedGrows(s, t)

(* logfs_txn_write_data does that, in either mode.                          *)
LEMMA DataWrite ==
  ASSUME NEW s, StorageOK(s), NEW b \in DataBlocks, NEW c \in FileContent
  PROVE  DataWritten(s, logfs_txn_write_data(s, b, c), b, c)
<1> DEFINE t == logfs_txn_write_data(s, b, c)
<1>1. b \in Device /\ ContentOK(b, c) BY Layout, ContentData
<1>2. CASE mode = "journal"
  <2>1. t = Put(s, b, c) BY <1>2 DEF logfs_txn_write_data
  <2>2. PutOK(s, t, b, c) BY <1>1, <2>1, PutEffect
  <2> HIDE DEF t
  <2>3. HomeGrows(s.home, t.home, {b}) BY <2>2, HomeSame DEF PutOK
  <2>5. StagedGrows(s, t) BY <1>1, <2>1, PutGrows
  <2>4. DataWritten(s, t, b, c) BY <1>1, <1>2, <2>2, <2>3, <2>5 DEF PutOK, DataWritten, OnlyEIO
  <2> QED BY <2>4 DEF t
<1>3. CASE mode # "journal"
  <2> DEFINE f == Fallible(s)
  <2>1. t = IF s.rc # "ok" THEN s ELSE IF f.rc # "ok" THEN f
            ELSE [f EXCEPT !.home = logfs_bdev_write(@, b, c, TornBlock)]
    BY <1>3 DEF logfs_txn_write_data
  <2> HIDE DEF t
  <2>2. CASE s.rc # "ok"
    <3>1. t = s BY <2>1, <2>2
    <3>2. DataWritten(s, s, b, c) BY <2>2, HomeSame DEF DataWritten, OnlyEIO, StagedGrows
    <3> QED BY <3>1, <3>2 DEF t
  <2>3. CASE s.rc = "ok" /\ f.rc # "ok"
    <3>1. t = f BY <2>1, <2>3
    <3>2. /\ IsCall(t) /\ t.home = s.home /\ t.logged = s.logged /\ t.staged = s.staged
          /\ t.fresh = s.fresh /\ t.rc = "EIO"
      BY <2>3, <3>1 DEF Fallible, IsCall, StorageOK
    <3>3. StorageOK(t) BY <3>2 DEF StorageOK
    <3>4. \A x : R(t, x) = R(s, x) BY <3>2, SameStoreReads DEF SameStore
    <3>5. DataWritten(s, t, b, c) BY <1>3, <2>3, <3>2, <3>3, <3>4, HomeSame DEF DataWritten, OnlyEIO, StagedGrows
    <3> QED BY <3>5 DEF t
  <2>4. CASE s.rc = "ok" /\ f.rc = "ok"
    <3> DEFINE h == logfs_bdev_write(s.home, b, c, TornBlock)
    <3>1. RegionOK(h) /\ h.cur[b] = c /\ HomeGrows(s.home, h, {b})
      BY DeviceWrite DEF StorageOK
    <3> HIDE DEF h
    <3>2. /\ IsCall(t) /\ t.home = h /\ t.logged = s.logged /\ t.staged = s.staged
          /\ t.fresh = s.fresh /\ t.rc = "ok"
      <4>1. f.home = s.home BY DEF Fallible, IsCall, StorageOK
      <4>2. t = [f EXCEPT !.home = h] BY <2>1, <2>4, <4>1 DEF h
      <4> QED BY <2>4, <4>2 DEF Fallible, IsCall, StorageOK
    <3>3. StorageOK(t) BY <3>1, <3>2 DEF StorageOK
    <3>4. \A x : Copies(t, x) = Copies(s, x) BY <3>2 DEF Copies
    <3>5. \A x \in Device \ {b} : R(t, x) = R(s, x)
      <4> TAKE x \in Device \ {b}
      <4>1. t.home.cur[x] = s.home.cur[x] BY <3>1, <3>2 DEF HomeGrows
      <4>2. CASE Copies(s, x) = {} BY <3>2, <3>4, <4>1, <4>2 DEF R, logfs_txn_read_block
      <4>3. CASE Copies(s, x) # {} BY <3>2, <4>3 DEF R, logfs_txn_read_block, Copies
      <4> QED BY <4>2, <4>3
    <3>6. R(t, b) = R(s, b) \/ R(t, b) = c
      <4>1. CASE Copies(s, b) = {} BY <3>1, <3>2, <3>4, <4>1 DEF R, logfs_txn_read_block
      <4>2. CASE Copies(s, b) # {} BY <3>2, <4>2 DEF R, logfs_txn_read_block, Copies
      <4> QED BY <4>1, <4>2
    <3>7. Uncovered(s, b) => R(t, b) = c
      BY <3>1, <3>2, <3>4 DEF Uncovered, R, logfs_txn_read_block
    <3>8. DataWritten(s, t, b, c)
      BY <1>3, <2>4, <3>1, <3>2, <3>3, <3>5, <3>6, <3>7 DEF DataWritten, OnlyEIO, StagedGrows
    <3> QED BY <3>8 DEF t
  <2> QED BY <2>2, <2>3, <2>4
<1> QED BY <1>2, <1>3

(* The blocks a write to the file with inode in may change: its own, and    *)
(* those taken for it.                                                      *)
Mine(in, F) == {b \in DataBlocks : b \in F \/ \E k \in Ks : in.blocks[k] = b}

(* The storage after some turns of the write loop.                          *)
LoopStore(s, in, t) ==
  /\ StorageOK(t) /\ t.logged = s.logged
  /\ IB(t) = IB(s) /\ \A j : logfs_inode_read(t, j) = logfs_inode_read(s, j)
  /\ BB(t) = BB(s) \cup t.fresh /\ t.fresh \cap BB(s) = {}
  /\ \A b \in DataBlocks : R(t, b) = R(s, b) \/ b \in Mine(in, t.fresh)
  /\ \A k \in Ks : in.blocks[k] # 0 => R(t, in.blocks[k]).kind = "file"
  /\ HomeGrows(s.home, t.home, Mine(in, t.fresh)) /\ (mode = "journal" => t.home = s.home)
  /\ mode # "journal" => \A b \in DataBlocks : b \in DOMAIN t.staged => b \in DOMAIN s.staged
  /\ StagedGrows(s, t)

(* The inode after some turns: holes of the file have been filled with      *)
(* blocks taken for it.                                                     *)
LoopInode(in, t, jn) ==
  /\ jn \in Inode /\ jn.type = in.type /\ jn.nlink = in.nlink /\ jn.size = in.size
  /\ \A k \in Ks : jn.blocks[k] = in.blocks[k] \/ (in.blocks[k] = 0 /\ jn.blocks[k] \in t.fresh)
  /\ Injective(jn)

(* Every block taken so far is in the inode, with file data in it.          *)
LoopFresh(s, t, jn) ==
  t.rc = "ok" => \A b \in t.fresh : /\ \E k \in Ks : jn.blocks[k] = b
                                    /\ (mode # "journal" => Uncovered(s, b)) => R(t, b).kind = "file"

(* The invariant of the write loop.                                         *)
LoopOK(s, in, acc) ==
  /\ acc = [s |-> acc.s, in |-> acc.in]
  /\ LoopStore(s, in, acc.s) /\ LoopInode(in, acc.s, acc.in) /\ LoopFresh(s, acc.s, acc.in)

(* The file a write starts from.                                            *)
WriteReady(s, in) ==
  /\ StorageOK(s) /\ s.fresh = {} /\ in \in Inode /\ Injective(in)
  /\ \A k \in Ks : in.blocks[k] # 0 => in.blocks[k] \in BB(s) /\ R(s, in.blocks[k]).kind = "file"

(* It holds before the first turn.                                          *)
LEMMA LoopInit ==
  ASSUME NEW s, NEW in, WriteReady(s, in)
  PROVE  LoopOK(s, in, [s |-> s, in |-> in])
<1>1. LoopStore(s, in, s) BY HomeSame DEF LoopStore, WriteReady, StagedGrows
<1>2. LoopInode(in, s, in) BY DEF LoopInode, WriteReady
<1>3. LoopFresh(s, s, in) BY DEF LoopFresh, WriteReady
<1> QED BY <1>1, <1>2, <1>3 DEF LoopOK

(* Taking a block for a hole keeps what was there.                          *)
LEMMA LoopAlloc ==
  ASSUME NEW s, NEW in, WriteReady(s, in), NEW t, LoopStore(s, in, t), NEW a, a = logfs_alloc_block(t)
  PROVE  /\ LoopStore(s, in, a)
         /\ t.rc # "ok" => a = t
         /\ a.rc # "ok" => a.fresh = t.fresh
         /\ a.rc = "ok" => /\ t.rc = "ok" /\ a.out \in DataBlocks /\ a.out \notin BB(t)
                           /\ a.fresh = t.fresh \cup {a.out}
         /\ \A b \in DataBlocks : R(a, b) = R(t, b)
<1>1. StorageOK(t) BY DEF LoopStore
<1>2. /\ Within(t, a, {block_bitmap_start})
      /\ a.rc # "ok" => a.fresh = t.fresh
      /\ a.rc = "ok" => /\ t.rc = "ok" /\ a.out \in DataBlocks /\ a.out \notin BB(t)
                        /\ BB(a) = BB(t) \cup {a.out} /\ a.fresh = t.fresh \cup {a.out}
  BY <1>1, AllocBlock
<1>3. /\ \A ino : logfs_inode_read(a, ino) = logfs_inode_read(t, ino)
      /\ \A x \in DataBlocks : R(a, x) = R(t, x)
      /\ IB(a) = IB(t) /\ Stages(t, a, {}) /\ Stable(t, a)
  BY <1>2, WithinBitmap
<1>4. t.rc # "ok" => a = t BY <1>2 DEF Within
<1>5. BB(a) = BB(s) \cup a.fresh /\ a.fresh \cap BB(s) = {}
  <2>1. CASE a.rc = "ok" BY <1>2, <2>1 DEF LoopStore
  <2>2. CASE a.rc # "ok"
    <3>1. BB(a) = BB(t) BY <1>1, <1>2, <2>2, SameReadsExtend DEF Within
    <3> QED BY <1>2, <2>2, <3>1 DEF LoopStore
  <2> QED BY <2>1, <2>2
<1>6. Mine(in, t.fresh) \in SUBSET Mine(in, a.fresh) BY <1>2 DEF Mine
<1>7. HomeGrows(s.home, a.home, Mine(in, a.fresh))
  <2>1. HomeGrows(s.home, t.home, Mine(in, t.fresh)) BY DEF LoopStore
  <2>2. HomeGrows(t.home, a.home, Mine(in, a.fresh)) BY <1>3, HomeSame DEF Stable
  <2> QED BY <1>6, <2>1, <2>2, HomeTrans
<1>8. \A b \in DataBlocks : R(a, b) = R(s, b) \/ b \in Mine(in, a.fresh)
  BY <1>3, <1>6 DEF LoopStore
<1>9. \A k \in Ks : in.blocks[k] # 0 => R(a, in.blocks[k]).kind = "file"
  <2>1. \A k \in Ks : in.blocks[k] # 0 => in.blocks[k] \in DataBlocks
    BY InodeBlocks DEF WriteReady
  <2> QED BY <1>3, <2>1 DEF LoopStore
<1>11. StagedGrows(s, a)
  <2>1. StagedGrows(s, t) BY DEF LoopStore
  <2>2. StagedGrows(t, a) BY <1>1, AllocGrows
  <2> QED BY <2>1, <2>2 DEF StagedGrows
<1>10. LoopStore(s, in, a)
  BY <1>11, <1>3, <1>5, <1>7, <1>8, <1>9 DEF LoopStore, Stable, Stages
<1> QED BY <1>2, <1>3, <1>4, <1>10

(* Writing the data of a block keeps what belongs to others.                *)
LEMMA LoopWrite ==
  ASSUME NEW s, NEW in, WriteReady(s, in), NEW a, LoopStore(s, in, a),
         NEW b \in Mine(in, a.fresh), NEW c \in FileContent, NEW t, DataWritten(a, t, b, c)
  PROVE  LoopStore(s, in, t)
<1>1. /\ StorageOK(t) /\ t.logged = a.logged /\ t.fresh = a.fresh
      /\ \A x \in Device \ {b} : R(t, x) = R(a, x)
      /\ R(t, b) = R(a, b) \/ R(t, b) = c
      /\ HomeGrows(a.home, t.home, {b}) /\ (mode = "journal" => t.home = a.home)
      /\ mode # "journal" => t.staged = a.staged
  BY DEF DataWritten
<1>2. b \in DataBlocks /\ b \notin Table /\ b # inode_bitmap_start /\ b # block_bitmap_start
  BY Layout DEF Mine
<1>3. IB(t) = IB(a) /\ BB(t) = BB(a) BY <1>1, <1>2, Layout DEF IB, BB, R
<1>4. \A j : logfs_inode_read(t, j) = logfs_inode_read(a, j)
  <2>1. \A x \in Table : R(t, x) = R(a, x) BY <1>1, <1>2, Layout
  <2> QED BY <2>1, InodesSame
<1>5. \A x \in DataBlocks : R(t, x) = R(s, x) \/ x \in Mine(in, t.fresh)
  <2>1. \A x \in DataBlocks \ {b} : R(t, x) = R(a, x) BY <1>1, Layout
  <2> QED BY <1>1, <2>1 DEF LoopStore
<1>6. \A k \in Ks : in.blocks[k] # 0 => R(t, in.blocks[k]).kind = "file"
  <2>1. \A k \in Ks : in.blocks[k] # 0 => in.blocks[k] \in DataBlocks
    BY InodeBlocks DEF WriteReady
  <2>2. c.kind = "file" BY DEF FileContent
  <2>3. \A x \in DataBlocks \ {b} : R(t, x) = R(a, x) BY <1>1, Layout
  <2> QED BY <1>1, <2>1, <2>2, <2>3 DEF LoopStore
<1>7. HomeGrows(s.home, t.home, Mine(in, t.fresh))
  <2>1. HomeGrows(s.home, a.home, Mine(in, t.fresh)) BY <1>1 DEF LoopStore
  <2>2. HomeGrows(a.home, t.home, Mine(in, t.fresh))
    <3>1. b \in Mine(in, t.fresh) BY <1>1
    <3> QED BY <1>1, <3>1 DEF HomeGrows
  <2>3. Mine(in, t.fresh) \in SUBSET Mine(in, t.fresh) OBVIOUS
  <2> QED BY <2>1, <2>2, <2>3, HomeTrans
<1>8. mode = "journal" => t.home = s.home BY <1>1 DEF LoopStore
<1>9. mode # "journal" => \A x \in DataBlocks : x \in DOMAIN t.staged => x \in DOMAIN s.staged
  BY <1>1 DEF LoopStore
<1>10. t.logged = s.logged BY <1>1 DEF LoopStore
<1>11. /\ IB(t) = IB(s) /\ BB(t) = BB(s) \cup t.fresh /\ t.fresh \cap BB(s) = {}
       /\ \A j : logfs_inode_read(t, j) = logfs_inode_read(s, j)
  BY <1>1, <1>3, <1>4 DEF LoopStore
<1>12. StagedGrows(s, t)
  <2>1. StagedGrows(s, a) BY DEF LoopStore
  <2>2. StagedGrows(a, t) BY DEF DataWritten
  <2> QED BY <2>1, <2>2 DEF StagedGrows
<1> QED BY <1>1, <1>5, <1>6, <1>7, <1>8, <1>9, <1>10, <1>11, <1>12 DEF LoopStore

(* An inode with one pointer changed.                                       *)
LEMMA PointTo ==
  ASSUME NEW in \in Inode, NEW k \in Ks, NEW b \in DataBlocks
  PROVE  LET jn == [in EXCEPT !.blocks[k] = b] IN
         /\ jn \in Inode /\ jn.type = in.type /\ jn.nlink = in.nlink /\ jn.size = in.size
         /\ \A j \in Ks : jn.blocks[j] = IF j = k THEN b ELSE in.blocks[j]
<1> DEFINE jn == [in EXCEPT !.blocks[k] = b]
           ptrs == [in.blocks EXCEPT ![k] = b]
<1>1. /\ in = [type |-> in.type, nlink |-> in.nlink, size |-> in.size, blocks |-> in.blocks]
      /\ in.type \in {"none", "dir", "file"} /\ in.nlink \in Nat /\ in.size \in 0 .. MaxSize
      /\ in.blocks \in [Ks -> DataBlocks \cup {0}]
  BY InodeRecord
<1>2. jn = [type |-> in.type, nlink |-> in.nlink, size |-> in.size, blocks |-> ptrs]
  BY <1>1
<1>3. ptrs \in [Ks -> DataBlocks \cup {0}] /\ \A j \in Ks : ptrs[j] = IF j = k THEN b ELSE in.blocks[j]
  BY <1>1
<1> HIDE DEF ptrs, jn
<1>4. jn \in Inode BY <1>1, <1>2, <1>3, InodeMade
<1> QED BY <1>2, <1>3, <1>4 DEF jn

(* A turn of the loop preserves the invariant, also when the allocation or  *)
(* the write in it fails.                                                   *)
LEMMA ChunkOK ==
  ASSUME NEW s, NEW in, WriteReady(s, in), NEW acc, LoopOK(s, in, acc), NEW k \in Ks,
         NEW first, NEW last, NEW v \in Vals
  PROVE  LoopOK(s, in, WriteChunk(acc, k, first, last, v))
<1> DEFINE new == acc.in.blocks[k] = 0
           a == IF new THEN logfs_alloc_block(acc.s) ELSE acc.s
           b == IF new THEN a.out ELSE acc.in.blocks[k]
           old == Units(R(a, b))
           units == [u \in 1 .. BlockUnits |->
                      IF (k - 1) * BlockUnits + u \in first .. last THEN v ELSE old[u]]
           c == FileBlock(units)
           t == logfs_txn_write_data(a, b, c)
           jn == [acc.in EXCEPT !.blocks[k] = b]
           z == WriteChunk(acc, k, first, last, v)
<1>1. z = IF a.rc # "ok" THEN [acc EXCEPT !.s = a] ELSE [s |-> t, in |-> jn]
  BY DEF WriteChunk, R
<1>2. /\ acc = [s |-> acc.s, in |-> acc.in]
      /\ LoopStore(s, in, acc.s) /\ LoopInode(in, acc.s, acc.in) /\ LoopFresh(s, acc.s, acc.in)
  BY DEF LoopOK
<1>3. acc.in \in Inode /\ StorageOK(s) /\ in \in Inode BY <1>2 DEF LoopInode, WriteReady
<1>4. /\ LoopStore(s, in, a)
      /\ new /\ a.rc # "ok" => a.fresh = acc.s.fresh
      /\ new /\ a.rc = "ok" =>
           /\ acc.s.rc = "ok" /\ a.out \in DataBlocks /\ a.out \notin BB(acc.s)
           /\ a.fresh = acc.s.fresh \cup {a.out}
           /\ \A x \in DataBlocks : R(a, x) = R(acc.s, x)
      /\ ~new => a = acc.s
  BY <1>2, LoopAlloc
<1> HIDE DEF a, z
<1>5. CASE a.rc # "ok"
  <2>1. z = [s |-> a, in |-> acc.in]
    <3>1. z = [acc EXCEPT !.s = a] BY <1>1, <1>5
    <3> QED BY <1>2, <3>1
  <2>2. a.fresh = acc.s.fresh BY <1>4, <1>5
  <2>3. LoopInode(in, a, acc.in) BY <1>2, <2>2 DEF LoopInode
  <2>4. LoopFresh(s, a, acc.in) BY <1>5 DEF LoopFresh
  <2> QED BY <1>4, <2>1, <2>3, <2>4 DEF LoopOK, z
<1>6. CASE a.rc = "ok"
  <2>1. z = [s |-> t, in |-> jn] BY <1>1, <1>6
  <2>2. b \in DataBlocks
    <3>1. CASE new BY <1>4, <1>6, <3>1
    <3>2. CASE ~new
      <4>1. acc.in.blocks[k] \in DataBlocks \cup {0} BY <1>3, InodeBlocks
      <4> QED BY <3>2, <4>1
    <3> QED BY <3>1, <3>2
  <2>3. b # 0 BY <2>2, Layout
  <2>4. b \in Mine(in, a.fresh)
    <3>1. CASE new BY <1>4, <1>6, <2>2, <3>1 DEF Mine
    <3>2. CASE ~new
      <4>1. acc.in.blocks[k] = in.blocks[k] \/ acc.in.blocks[k] \in acc.s.fresh
        BY <1>2 DEF LoopInode
      <4> QED BY <1>4, <2>2, <3>2, <4>1 DEF Mine
    <3> QED BY <3>1, <3>2
  <2>5. StorageOK(a) BY <1>4 DEF LoopStore
  <2>6. c \in FileContent
    <3>1. old \in [1 .. BlockUnits -> Unit] BY <2>2, <2>5, DataTyped
    <3>2. v \in Unit BY DEF Unit
    <3> HIDE DEF old
    <3>3. units \in [1 .. BlockUnits -> Unit] BY <3>1, <3>2
    <3> HIDE DEF units
    <3> QED BY <3>3 DEF FileBlock, FileContent
  <2> HIDE DEF c
  <2>7. DataWritten(a, t, b, c)
    <3> HIDE DEF b
    <3> QED BY <2>2, <2>5, <2>6, DataWrite
  <2> HIDE DEF t
  <2>8. LoopStore(s, in, t) BY <1>4, <2>4, <2>6, <2>7, LoopWrite
  <2>9. /\ jn \in Inode /\ jn.type = acc.in.type /\ jn.nlink = acc.in.nlink /\ jn.size = acc.in.size
        /\ \A j \in Ks : jn.blocks[j] = IF j = k THEN b ELSE acc.in.blocks[j]
    <3> HIDE DEF b
    <3> QED BY <1>3, <2>2, PointTo
  <2> HIDE DEF jn
  <2>10. t.fresh = a.fresh /\ acc.s.fresh \subseteq a.fresh
    BY <1>4, <1>6, <2>7 DEF DataWritten
  <2>11. new => \A j \in Ks : acc.in.blocks[j] # b
    <3> SUFFICES ASSUME new, NEW j \in Ks, acc.in.blocks[j] = b PROVE FALSE OBVIOUS
    <3>1. b \notin BB(acc.s) /\ b = a.out BY <1>4, <1>6
    <3>2. acc.in.blocks[j] = in.blocks[j] \/ acc.in.blocks[j] \in acc.s.fresh BY <1>2 DEF LoopInode
    <3>3. acc.s.fresh \subseteq BB(acc.s) /\ BB(s) \subseteq BB(acc.s) BY <1>2 DEF LoopStore
    <3>4. in.blocks[j] # 0 => in.blocks[j] \in BB(s) BY DEF WriteReady
    <3> HIDE DEF b
    <3> QED BY <2>3, <3>1, <3>2, <3>3, <3>4
  <2>12. LoopInode(in, t, jn)
    <3>1. \A j \in Ks : jn.blocks[j] = in.blocks[j] \/ (in.blocks[j] = 0 /\ jn.blocks[j] \in t.fresh)
      <4> SUFFICES ASSUME NEW j \in Ks
                   PROVE  jn.blocks[j] = in.blocks[j] \/ (in.blocks[j] = 0 /\ jn.blocks[j] \in t.fresh)
        OBVIOUS
      <4>1. \/ acc.in.blocks[j] = in.blocks[j]
            \/ in.blocks[j] = 0 /\ acc.in.blocks[j] \in acc.s.fresh
        BY <1>2 DEF LoopInode
      <4>2. CASE j # k \/ ~new
        <5>1. jn.blocks[j] = acc.in.blocks[j] BY <2>9, <4>2
        <5> QED BY <2>10, <4>1, <5>1
      <4>3. CASE j = k /\ new
        <5>1. jn.blocks[j] = a.out /\ a.out \in t.fresh BY <1>4, <1>6, <2>9, <2>10, <4>3
        <5>2. 0 \notin acc.s.fresh
          <6>1. acc.s.fresh \subseteq BB(acc.s) /\ StorageOK(acc.s) BY <1>2 DEF LoopStore
          <6> QED BY <6>1, BitmapsTyped, Layout
        <5> QED BY <4>1, <4>3, <5>1, <5>2
      <4> QED BY <4>2, <4>3
    <3>2. Injective(jn)
      <4>1. Injective(acc.in) BY <1>2 DEF LoopInode
      <4>2. CASE new
        <5> HIDE DEF b
        <5> QED BY <2>9, <2>11, <4>1, <4>2 DEF Injective
      <4>3. CASE ~new
        <5>1. \A j \in Ks : jn.blocks[j] = acc.in.blocks[j] BY <2>9, <4>3
        <5> QED BY <4>1, <5>1 DEF Injective
      <4> QED BY <4>2, <4>3
    <3> QED BY <1>2, <2>9, <3>1, <3>2 DEF LoopInode
  <2>13. LoopFresh(s, t, jn)
    <3> SUFFICES ASSUME t.rc = "ok", NEW y \in t.fresh
                 PROVE  /\ \E j \in Ks : jn.blocks[j] = y
                        /\ (mode # "journal" => Uncovered(s, y)) => R(t, y).kind = "file"
      BY DEF LoopFresh
    <3>1. c.kind = "file" BY <2>6 DEF FileContent
    <3>2. y \in DataBlocks
      <4>1. y \in BB(t) /\ StorageOK(t) BY <2>8 DEF LoopStore
      <4> QED BY <4>1, BitmapsTyped
    <3>3. CASE y = b /\ new
      <4>1. jn.blocks[k] = y BY <2>9, <3>3
      <4>2. (mode # "journal" => Uncovered(s, y)) => (mode # "journal" => Uncovered(a, y))
        BY <1>4, <3>2 DEF LoopStore, Uncovered, Copies
      <4>3. (mode # "journal" => Uncovered(a, b)) => R(t, b) = c BY <2>7 DEF DataWritten
      <4> HIDE DEF b
      <4> QED BY <3>1, <3>3, <4>1, <4>2, <4>3
    <3>4. CASE ~(y = b /\ new)
      <4>1. y \in acc.s.fresh
        <5>1. CASE new BY <1>4, <1>6, <2>10, <3>4, <5>1
        <5>2. CASE ~new BY <1>4, <2>10, <5>2
        <5> QED BY <5>1, <5>2
      <4>2. acc.s.rc = "ok" BY <1>4, <1>6
      <4>3. /\ \E j \in Ks : acc.in.blocks[j] = y
            /\ (mode # "journal" => Uncovered(s, y)) => R(acc.s, y).kind = "file"
        BY <1>2, <4>1, <4>2 DEF LoopFresh
      <4>4. \E j \in Ks : jn.blocks[j] = y
        <5>1. PICK j \in Ks : acc.in.blocks[j] = y BY <4>3
        <5>2. CASE j # k BY <2>9, <5>1, <5>2
        <5>3. CASE j = k
          <6>1. y # 0 BY <3>2, Layout
          <6>2. ~new BY <5>1, <5>3, <6>1
          <6> QED BY <2>9, <5>1, <5>3, <6>2
        <5> QED BY <5>2, <5>3
      <4>5. R(a, y) = R(acc.s, y)
        <5>1. CASE new BY <1>4, <1>6, <3>2, <5>1
        <5>2. CASE ~new BY <1>4, <5>2
        <5> QED BY <5>1, <5>2
      <4>6. R(t, y) = R(a, y) \/ R(t, y) = c
        <5>1. y \in Device BY <3>2, Layout
        <5> HIDE DEF b
        <5> QED BY <2>7, <5>1 DEF DataWritten
      <4> HIDE DEF b, new
      <4> QED BY <3>1, <4>3, <4>4, <4>5, <4>6
    <3> QED BY <3>3, <3>4
  <2> QED BY <2>1, <2>8, <2>12, <2>13 DEF LoopOK, z
<1> QED BY <1>5, <1>6

(* What the loop has made of the file's data after block n of it: every     *)
(* unit is the old one or v, and until an error every unit written to, in a *)
(* block without an old copy, is v.                                         *)
LoopData(s, in, acc, lo, n, first, last, v) ==
  /\ \A k \in Ks : in.blocks[k] # 0 =>
       \A u \in 1 .. BlockUnits :
         Units(R(acc.s, in.blocks[k]))[u] \in {v, Units(R(s, in.blocks[k]))[u]}
  /\ acc.s.rc = "ok" =>
       \A k \in Ks : lo < k /\ k <= n =>
         /\ acc.in.blocks[k] # 0
         /\ (mode # "journal" => Uncovered(s, acc.in.blocks[k])) =>
              \A u \in 1 .. BlockUnits : (k - 1) * BlockUnits + u \in first .. last =>
                Units(R(acc.s, acc.in.blocks[k]))[u] = v

(* A turn of the loop preserves that.                                       *)
LEMMA ChunkData ==
  ASSUME NEW s, NEW in, WriteReady(s, in), NEW acc, LoopOK(s, in, acc), NEW n \in Nat, NEW k \in Ks, k = n + 1,
         NEW lo \in Nat, NEW first, NEW last, NEW v \in Vals, LoopData(s, in, acc, lo, n, first, last, v)
  PROVE  LoopData(s, in, WriteChunk(acc, k, first, last, v), lo, k, first, last, v)
<1> DEFINE new == acc.in.blocks[k] = 0
           a == IF new THEN logfs_alloc_block(acc.s) ELSE acc.s
           b == IF new THEN a.out ELSE acc.in.blocks[k]
           old == Units(R(a, b))
           units == [u \in 1 .. BlockUnits |->
                      IF (k - 1) * BlockUnits + u \in first .. last THEN v ELSE old[u]]
           c == FileBlock(units)
           t == logfs_txn_write_data(a, b, c)
           jn == [acc.in EXCEPT !.blocks[k] = b]
           z == WriteChunk(acc, k, first, last, v)
<1>1. z = IF a.rc # "ok" THEN [acc EXCEPT !.s = a] ELSE [s |-> t, in |-> jn]
  BY DEF WriteChunk, R
<1>2. /\ acc = [s |-> acc.s, in |-> acc.in]
      /\ LoopStore(s, in, acc.s) /\ LoopInode(in, acc.s, acc.in)
  BY DEF LoopOK
<1>3. acc.in \in Inode /\ in \in Inode /\ Injective(acc.in) BY <1>2 DEF LoopInode, WriteReady
<1>4. /\ LoopStore(s, in, a) /\ \A x \in DataBlocks : R(a, x) = R(acc.s, x)
      /\ new /\ a.rc = "ok" => /\ acc.s.rc = "ok" /\ a.out \in DataBlocks /\ a.out \notin BB(acc.s)
      /\ ~new => a = acc.s
  BY <1>2, LoopAlloc
<1>5. \A j \in Ks : in.blocks[j] # 0 => in.blocks[j] \in DataBlocks /\ in.blocks[j] \in BB(s)
  BY <1>3, InodeBlocks DEF WriteReady
<1>6. LoopOK(s, in, z) BY ChunkOK
<1> HIDE DEF a, z
<1>7. CASE a.rc # "ok"
  <2>1. z.s = a
    <3>1. z = [acc EXCEPT !.s = a] BY <1>1, <1>7
    <3> QED BY <1>2, <3>1
  <2>2. \A j \in Ks : in.blocks[j] # 0 => R(a, in.blocks[j]) = R(acc.s, in.blocks[j]) BY <1>4, <1>5
  <2> QED BY <1>7, <2>1, <2>2 DEF LoopData, z
<1>8. CASE a.rc = "ok"
  <2>1. z = [s |-> t, in |-> jn] BY <1>1, <1>8
  <2>2. b \in DataBlocks
    <3>1. CASE new BY <1>4, <1>8, <3>1
    <3>2. CASE ~new
      <4>1. acc.in.blocks[k] \in DataBlocks \cup {0} BY <1>3, InodeBlocks
      <4> QED BY <3>2, <4>1
    <3> QED BY <3>1, <3>2
  <2>3. b # 0 /\ b \in Device BY <2>2, Layout
  <2>4. StorageOK(a) BY <1>4 DEF LoopStore
  <2>5. old \in [1 .. BlockUnits -> Unit] BY <2>2, <2>4, DataTyped
  <2>6. c \in FileContent /\ Units(c) = units
    <3>1. v \in Unit BY DEF Unit
    <3> HIDE DEF old
    <3>2. units \in [1 .. BlockUnits -> Unit] BY <2>5, <3>1
    <3> HIDE DEF units
    <3> QED BY <3>2 DEF FileBlock, FileContent, Units
  <2>7. \A u \in 1 .. BlockUnits :
          Units(c)[u] = IF (k - 1) * BlockUnits + u \in first .. last THEN v ELSE Units(R(a, b))[u]
    BY <2>6
  <2> HIDE DEF c
  <2>8. DataWritten(a, t, b, c)
    <3> HIDE DEF b
    <3> QED BY <2>2, <2>4, <2>6, DataWrite
  <2> HIDE DEF t
  <2>9. \A j \in Ks : jn.blocks[j] = IF j = k THEN b ELSE acc.in.blocks[j]
    <3> HIDE DEF b
    <3> QED BY <1>3, <2>2, PointTo
  <2> HIDE DEF jn
  <2>10. z.s = t /\ z.in = jn BY <2>1
  <2>11. Injective(jn) /\ jn \in Inode BY <1>6, <2>10 DEF LoopOK, LoopInode
  <2>12. /\ \A x \in DataBlocks : x # b => R(t, x) = R(acc.s, x)
         /\ R(t, b) = R(a, b) \/ R(t, b) = c
         /\ R(a, b) = R(acc.s, b)
         /\ t.rc = "ok" /\ (mode # "journal" => Uncovered(a, b)) => R(t, b) = c
    <3>1. \A x \in DataBlocks : x \in Device BY Layout
    <3> HIDE DEF b
    <3> QED BY <1>4, <2>2, <2>8, <3>1 DEF DataWritten
  <2>13. (mode # "journal" => Uncovered(s, b)) => (mode # "journal" => Uncovered(a, b))
    <3> HIDE DEF b
    <3> QED BY <1>4, <2>2 DEF LoopStore, Uncovered, Copies
  <2>14. acc.s.rc = "ok"
    BY <1>4, <1>8
  <2> HIDE DEF b, old, new
  <2>15. ASSUME NEW j \in Ks, in.blocks[j] # 0, NEW u \in 1 .. BlockUnits
         PROVE  Units(R(z.s, in.blocks[j]))[u] \in {v, Units(R(s, in.blocks[j]))[u]}
    <3>1. Units(R(acc.s, in.blocks[j]))[u] \in {v, Units(R(s, in.blocks[j]))[u]} BY <2>15 DEF LoopData
    <3>2. CASE in.blocks[j] # b
      <4>1. R(t, in.blocks[j]) = R(acc.s, in.blocks[j]) BY <1>5, <2>12, <2>15, <3>2
      <4> QED BY <2>10, <3>1, <4>1
    <3>3. CASE in.blocks[j] = b
      <4>1. R(t, b) = R(acc.s, b) \/ R(t, b) = c BY <2>12
      <4>2. Units(c)[u] \in {v, Units(R(acc.s, b))[u]} BY <2>7, <2>12
      <4> QED BY <2>10, <3>1, <3>3, <4>1, <4>2
    <3> QED BY <3>2, <3>3
  <2>16. ASSUME z.s.rc = "ok", NEW j \in Ks, lo < j, j <= k
         PROVE  /\ z.in.blocks[j] # 0
                /\ (mode # "journal" => Uncovered(s, z.in.blocks[j])) =>
                     \A u \in 1 .. BlockUnits : (j - 1) * BlockUnits + u \in first .. last =>
                       Units(R(z.s, z.in.blocks[j]))[u] = v
    <3>1. CASE j = k
      <4>1. z.in.blocks[j] = b BY <2>9, <2>10, <3>1
      <4>2. (mode # "journal" => Uncovered(s, b)) => R(t, b) = c BY <2>10, <2>12, <2>13, <2>16
      <4> QED BY <2>3, <2>7, <2>10, <3>1, <4>1, <4>2
    <3>2. CASE j # k
      <4>1. j <= n BY <2>16, <3>2 DEF Ks
      <4>2. z.in.blocks[j] = acc.in.blocks[j] BY <2>9, <2>10, <3>2
      <4>3. /\ acc.in.blocks[j] # 0
            /\ (mode # "journal" => Uncovered(s, acc.in.blocks[j])) =>
                 \A u \in 1 .. BlockUnits : (j - 1) * BlockUnits + u \in first .. last =>
                   Units(R(acc.s, acc.in.blocks[j]))[u] = v
        BY <2>14, <2>16, <4>1 DEF LoopData
      <4>4. acc.in.blocks[j] # b
        <5>1. jn.blocks[j] = acc.in.blocks[j] /\ jn.blocks[k] = b BY <2>9, <3>2
        <5> QED BY <2>11, <3>2, <4>3, <5>1 DEF Injective
      <4>5. acc.in.blocks[j] \in DataBlocks BY <1>3, <4>3, InodeBlocks
      <4>6. R(z.s, acc.in.blocks[j]) = R(acc.s, acc.in.blocks[j]) BY <2>10, <2>12, <4>4, <4>5
      <4> QED BY <4>2, <4>3, <4>6
    <3> QED BY <3>1, <3>2
  <2>17. LoopData(s, in, z, lo, k, first, last, v) BY <2>15, <2>16 DEF LoopData
  <2> QED BY <2>17 DEF z
<1> QED BY <1>7, <1>8

(* Division of an offset by the block size.                                 *)
LEMMA DivFacts ==
  ASSUME NEW n \in Nat, NEW m \in Nat \ {0}
  PROVE  n \div m \in Nat /\ (n \div m) * m <= n /\ n < (n \div m + 1) * m
<1>1. n \div m \in Int /\ n = (n \div m) * m + (n % m) /\ n % m \in 0 .. m - 1 BY SMT
<1> DEFINE d == n \div m
<1> HIDE DEF d
<1>2. d \in Int /\ d * m <= n /\ n < d * m + m BY <1>1 DEF d
<1>3. (d + 1) * m = d * m + m BY <1>2
<1>4. d >= 0
  <2> SUFFICES ASSUME d <= -1 PROVE FALSE BY <1>2
  <2>1. (d + 1) * m <= 0 BY <1>2
  <2> QED BY <1>2, <1>3, <2>1
<1> QED BY <1>2, <1>3, <1>4 DEF d

(* The blocks a write goes through exist when it ends within the limit. *)
LEMMA ChunksInRange ==
  ASSUME NEW offset \in Nat, NEW size \in Nat \ {0}, offset + size <= MaxSize
  PROVE  LET lo == offset \div BlockUnits
             hi == LastChunk(offset, size) IN
         lo \in Nat /\ hi \in Nat /\ lo <= hi /\ \A k \in lo .. hi : k # lo => k \in Ks
<1> DEFINE B == BlockUnits
           N == NDirBlocks
           lo == offset \div B
           d == (offset + size - 1) \div B
<1>1. B \in Nat \ {0} /\ N \in Nat \ {0} BY FileSystemAssumption
<1>2. offset + size - 1 \in Nat /\ offset <= offset + size - 1 OBVIOUS
<1>3. lo \in Nat /\ lo * B <= offset BY <1>1, DivFacts
<1>4. d \in Nat /\ d * B <= offset + size - 1 /\ offset + size - 1 < (d + 1) * B
  BY <1>1, <1>2, DivFacts
<1>5. offset + size <= N * B BY DEF MaxSize
<1> HIDE DEF B, N, lo, d
<1>6. d < N
  <2> SUFFICES ASSUME N <= d PROVE FALSE BY <1>1, <1>4
  <2>1. N * B <= d * B BY <1>1, <1>4, Monotone
  <2> QED BY <1>1, <1>4, <1>5, <2>1
<1>7. lo <= d
  <2> SUFFICES ASSUME d + 1 <= lo PROVE FALSE BY <1>3, <1>4
  <2>1. (d + 1) * B <= lo * B BY <1>1, <1>3, <1>4, Monotone
  <2> QED BY <1>1, <1>3, <1>4, <2>1
<1>8. LastChunk(offset, size) = d + 1 BY DEF LastChunk, d, B
<1> QED BY <1>1, <1>3, <1>4, <1>6, <1>7, <1>8 DEF Ks, lo, B, N

(* g is the loop up to block n of the file.                                 *)
LoopFrom(s, in, offset, size, v, n, g) ==
  g = [k \in offset \div BlockUnits .. n |->
         IF k = offset \div BlockUnits THEN [s |-> s, in |-> in]
         ELSE WriteChunk(g[k - 1], k, offset + 1, offset + size, v)]

(* The recursive definition of the loop has a solution, by induction on the *)
(* block number.                                                            *)
LEMMA LoopDefined ==
  ASSUME NEW s, NEW in, NEW offset, NEW size, NEW v, offset \div BlockUnits \in Nat,
         LastChunk(offset, size) \in Nat, offset \div BlockUnits <= LastChunk(offset, size)
  PROVE  LoopFrom(s, in, offset, size, v, LastChunk(offset, size), WriteLoop(s, in, offset, size, v))
<1> DEFINE lo == offset \div BlockUnits
           hi == LastChunk(offset, size)
           P(n, g) == g = [k \in lo .. n |-> IF k = lo THEN [s |-> s, in |-> in]
                                             ELSE WriteChunk(g[k - 1], k, offset + 1, offset + size, v)]
           Bad == {n \in Nat : lo <= n /\ ~\E g : P(n, g)}
<1>0. lo \in Nat /\ hi \in Nat /\ lo <= hi OBVIOUS
<1>3. WriteLoop(s, in, offset, size, v) = CHOOSE g : P(hi, g) BY DEF WriteLoop
<1>4. ASSUME NEW g, P(hi, g) PROVE LoopFrom(s, in, offset, size, v, hi, g) BY <1>4 DEF LoopFrom
<1> HIDE DEF lo, hi
<1>1. Bad = {}
  <2> SUFFICES ASSUME Bad # {} PROVE FALSE OBVIOUS
  <2> DEFINE n == Least(Bad)
  <2>1. n \in Bad /\ \A m \in Bad : n <= m
    <3> HIDE DEF Bad
    <3>1. Bad \subseteq Nat BY DEF Bad
    <3> QED BY <3>1, LeastNat
  <2>2. n \in Nat /\ lo <= n /\ ~\E g : P(n, g) BY <2>1
  <2>3. n # lo => \E g : P(n - 1, g)
    <3> HIDE DEF n
    <3> SUFFICES ASSUME n # lo PROVE \E g : P(n - 1, g) OBVIOUS
    <3>1. n - 1 \in Nat /\ lo <= n - 1 BY <1>0, <2>2
    <3>2. n - 1 \notin Bad
      <4> HIDE DEF Bad
      <4> QED BY <2>1, <2>2
    <3> QED BY <3>1, <3>2
  <2> HIDE DEF n, Bad
  <2>4. CASE n = lo
    <3> DEFINE h == [k \in lo .. lo |-> [s |-> s, in |-> in]]
    <3>1. \A k \in lo .. lo : k = lo BY <1>0
    <3>2. P(lo, h) BY <3>1
    <3> QED BY <2>2, <2>4, <3>2
  <2>5. CASE n # lo
    <3>1. PICK g : P(n - 1, g) BY <2>3, <2>5
    <3> DEFINE h == [k \in lo .. n |-> IF k = n THEN WriteChunk(g[n - 1], n, offset + 1, offset + size, v)
                                       ELSE g[k]]
    <3>2. ASSUME NEW k \in lo .. n
          PROVE  h[k] = IF k = lo THEN [s |-> s, in |-> in]
                        ELSE WriteChunk(h[k - 1], k, offset + 1, offset + size, v)
      <4>1. CASE k = n
        <5>1. h[n - 1] = g[n - 1]
          <6>1. n - 1 \in lo .. n /\ n - 1 # n BY <1>0, <2>2, <2>5
          <6> QED BY <6>1
        <5>2. h[n] = WriteChunk(g[n - 1], n, offset + 1, offset + size, v)
          <6>1. n \in lo .. n BY <1>0, <2>2
          <6> QED BY <6>1
        <5> HIDE DEF h
        <5> QED BY <2>5, <4>1, <5>1, <5>2
      <4>2. CASE k # n
        <5>1. k \in lo .. n - 1 BY <1>0, <2>2, <4>2
        <5>2. g[k] = IF k = lo THEN [s |-> s, in |-> in]
                     ELSE WriteChunk(g[k - 1], k, offset + 1, offset + size, v)
          <6> DEFINE D == lo .. n - 1
                     F(x) == IF x = lo THEN [s |-> s, in |-> in]
                             ELSE WriteChunk(g[x - 1], x, offset + 1, offset + size, v)
          <6>1. g = [x \in D |-> F(x)] BY <3>1
          <6>2. k \in D BY <5>1
          <6> HIDE DEF D, F
          <6>3. g[k] = F(k) BY <6>1, <6>2
          <6> QED BY <6>3 DEF F
        <5>3. h[k] = g[k] /\ (k # lo => h[k - 1] = g[k - 1])
          <6>1. k # lo => k - 1 \in lo .. n /\ k - 1 # n BY <1>0, <2>2, <5>1
          <6> QED BY <4>2, <6>1
        <5> HIDE DEF h
        <5> QED BY <5>2, <5>3
      <4> QED BY <4>1, <4>2
    <3>3. P(n, h)
      <4>1. h = [k \in lo .. n |-> h[k]] OBVIOUS
      <4> HIDE DEF h
      <4> QED BY <3>2, <4>1
    <3> QED BY <2>2, <3>3
  <2> QED BY <2>4, <2>5
<1>2. \E g : P(hi, g) BY <1>0, <1>1
<1>5. P(hi, WriteLoop(s, in, offset, size, v))
  <2> HIDE DEF P
  <2> QED BY <1>2, <1>3
<1> QED BY <1>4, <1>5 DEF hi

(* So the invariant holds when the loop ends.                               *)
LEMMA LoopDone ==
  ASSUME NEW s, NEW in, WriteReady(s, in), NEW offset \in Nat, NEW size \in Nat \ {0},
         offset + size <= MaxSize, NEW v \in Vals
  PROVE  LET acc == WriteLoop(s, in, offset, size, v)[LastChunk(offset, size)] IN
         /\ LoopOK(s, in, acc)
         /\ LoopData(s, in, acc, offset \div BlockUnits, LastChunk(offset, size),
                     offset + 1, offset + size, v)
<1> DEFINE lo == offset \div BlockUnits
           hi == LastChunk(offset, size)
           first == offset + 1
           last == offset + size
           acc == WriteLoop(s, in, offset, size, v)
           Turned(k) == LoopOK(s, in, acc[k]) /\ LoopData(s, in, acc[k], lo, k, first, last, v)
           Bad == {k \in lo .. hi : ~Turned(k)}
<1>1. lo \in Nat /\ hi \in Nat /\ lo <= hi /\ \A k \in lo .. hi : k # lo => k \in Ks
  BY ChunksInRange
<1>2. LoopFrom(s, in, offset, size, v, hi, acc) BY <1>1, LoopDefined
<1>3. \A k \in lo .. hi : acc[k] = IF k = lo THEN [s |-> s, in |-> in]
                                   ELSE WriteChunk(acc[k - 1], k, first, last, v)
  <2> HIDE DEF acc
  <2> QED BY <1>2 DEF LoopFrom
<1> HIDE DEF acc, lo, hi, first, last
<1>4. Bad = {}
  <2> SUFFICES ASSUME Bad # {} PROVE FALSE OBVIOUS
  <2> DEFINE n == Least(Bad)
  <2>1. n \in Bad /\ \A m \in Bad : n <= m
    <3>1. Bad \subseteq Nat BY <1>1
    <3> HIDE DEF Bad
    <3> QED BY <3>1, LeastNat
  <2>2. n \in lo .. hi /\ ~Turned(n) BY <2>1
  <2> HIDE DEF n
  <2>3. CASE n = lo
    <3>1. acc[n] = [s |-> s, in |-> in] BY <1>3, <2>2, <2>3
    <3>2. \A k \in Ks : ~(lo < k /\ k <= lo) BY <1>1 DEF Ks
    <3>3. LoopData(s, in, [s |-> s, in |-> in], lo, lo, first, last, v) BY <3>2 DEF LoopData
    <3> QED BY <2>2, <2>3, <3>1, <3>3, LoopInit
  <2>4. CASE n # lo
    <3>1. n - 1 \in lo .. hi /\ ~(n <= n - 1) /\ n \in Ks /\ n - 1 \in Nat /\ n = (n - 1) + 1
      BY <1>1, <2>2, <2>4
    <3>2. Turned(n - 1)
      <4>1. n - 1 \notin Bad
        <5> HIDE DEF Bad
        <5> QED BY <2>1, <3>1
      <4> HIDE DEF Turned
      <4> QED BY <3>1, <4>1
    <3>3. acc[n] = WriteChunk(acc[n - 1], n, first, last, v) BY <1>3, <2>2, <2>4
    <3>4. LoopOK(s, in, WriteChunk(acc[n - 1], n, first, last, v)) BY <3>1, <3>2, ChunkOK
    <3>5. LoopData(s, in, WriteChunk(acc[n - 1], n, first, last, v), lo, n, first, last, v)
      BY <1>1, <3>1, <3>2, ChunkData
    <3> QED BY <2>2, <3>3, <3>4, <3>5
  <2> QED BY <2>3, <2>4
<1>5. hi \in lo .. hi BY <1>1
<1>6. Turned(hi)
  <2> HIDE DEF Turned
  <2> QED BY <1>4, <1>5
<1> QED BY <1>6 DEF hi, acc, lo, first, last

(* What a write to a live file leaves; clean says that no block it took had *)
(* a copy in the staging table or the log.                                  *)
Clean(s, t) == \A b \in t.fresh : mode # "journal" => Uncovered(s, b)

(* What a write to a live file leaves: the structure and the names are as   *)
(* they were, the device has file data in the file's own blocks only, and   *)
(* nothing is leaked unless the write fails.                                *)
WriteOK(s, t, I, in, lk) ==
  /\ StorageOK(t) /\ t.logged = s.logged /\ t.fresh \subseteq DataBlocks /\ t.fresh \cap BB(s) = {}
  /\ HomeGrows(s.home, t.home, Mine(in, t.fresh)) /\ (mode = "journal" => t.home = s.home)
  /\ mode # "journal" => \A b \in DataBlocks : b \in DOMAIN t.staged => b \in DOMAIN s.staged
  /\ StagedGrows(s, t)
  /\ Clean(s, t) => Consistent(t, I, lk \/ t.rc # "ok")
  /\ \A b \in DataBlocks : IsFileBlock(t, I, b) => IsFileBlock(s, I, b) \/ b \in t.fresh
  /\ \A ino : LiveFile(s, I, ino) => LiveFile(t, I, ino)

(* The inode the loop ends with, or the old one after an error.             *)
Ended(s, d, t, in, ino, jn) ==
  /\ StorageOK(s) /\ StorageOK(t) /\ LoopStore(s, in, d)
  /\ t.fresh = d.fresh /\ t.home = d.home /\ t.logged = d.logged
  /\ IB(t) = IB(d) /\ BB(t) = BB(d) /\ \A b \in DataBlocks : R(t, b) = R(d, b)
  /\ \A b \in DataBlocks : b \in DOMAIN t.staged => b \in DOMAIN d.staged
  /\ StagedGrows(d, t)
  /\ in = logfs_inode_read(s, ino) /\ jn = logfs_inode_read(t, ino)
  /\ \A j \in Inodes \ {ino} : logfs_inode_read(t, j) = logfs_inode_read(s, j)
  /\ jn.type = in.type /\ jn.nlink = in.nlink /\ Injective(jn)
  /\ \A k \in Ks : jn.blocks[k] = in.blocks[k] \/ (in.blocks[k] = 0 /\ jn.blocks[k] \in t.fresh)
  /\ \A k \in Ks : jn.blocks[k] \in t.fresh => (Clean(s, t) => R(t, jn.blocks[k]).kind = "file")
  /\ t.rc = "ok" => \A b \in t.fresh : \E k \in Ks : jn.blocks[k] = b
  /\ t.rc # "ok" => jn = in

(* The loop's last state, with the inode written, is such a state.          *)
LEMMA EndedOK ==
  ASSUME NEW s, NEW d, NEW t, NEW in, NEW jn, NEW I, NEW lk \in BOOLEAN, Consistent(s, I, lk),
         NEW r \in DOMAIN I, in.type = "file", Ended(s, d, t, in, I[r], jn)
  PROVE  WriteOK(s, t, I, in, lk)
<1>1. Sound(s, I) /\ Linked(s, I) /\ (lk \/ Tight(s, I)) BY DEF Consistent
<1>2. Naming(I) BY <1>1 DEF Sound
<1>3. /\ StorageOK(s) /\ StorageOK(t) /\ LoopStore(s, in, d)
      /\ t.fresh = d.fresh /\ t.home = d.home /\ t.logged = d.logged
      /\ IB(t) = IB(d) /\ BB(t) = BB(d) /\ \A b \in DataBlocks : R(t, b) = R(d, b)
      /\ \A b \in DataBlocks : b \in DOMAIN t.staged => b \in DOMAIN d.staged
      /\ StagedGrows(d, t)
  BY DEF Ended
<1>4. /\ in = logfs_inode_read(s, I[r]) /\ jn = logfs_inode_read(t, I[r])
      /\ \A j \in Inodes \ {I[r]} : logfs_inode_read(t, j) = logfs_inode_read(s, j)
      /\ jn.type = in.type /\ jn.nlink = in.nlink /\ Injective(jn)
      /\ \A k \in Ks : jn.blocks[k] = in.blocks[k] \/ (in.blocks[k] = 0 /\ jn.blocks[k] \in t.fresh)
      /\ \A k \in Ks : jn.blocks[k] \in t.fresh => (Clean(s, t) => R(t, jn.blocks[k]).kind = "file")
      /\ t.rc = "ok" => \A b \in t.fresh : \E k \in Ks : jn.blocks[k] = b
  BY DEF Ended
<1>5. /\ t.logged = s.logged /\ IB(t) = IB(s)
      /\ BB(t) = BB(s) \cup t.fresh /\ t.fresh \cap BB(s) = {}
      /\ \A b \in DataBlocks : R(t, b) = R(s, b) \/ b \in Mine(in, t.fresh)
      /\ \A k \in Ks : in.blocks[k] # 0 => R(d, in.blocks[k]).kind = "file"
      /\ HomeGrows(s.home, t.home, Mine(in, t.fresh)) /\ (mode = "journal" => t.home = s.home)
      /\ mode # "journal" => \A b \in DataBlocks : b \in DOMAIN t.staged => b \in DOMAIN s.staged
  <2>1. /\ d.logged = s.logged /\ IB(d) = IB(s)
        /\ BB(d) = BB(s) \cup d.fresh /\ d.fresh \cap BB(s) = {}
        /\ \A b \in DataBlocks : R(d, b) = R(s, b) \/ b \in Mine(in, d.fresh)
        /\ \A k \in Ks : in.blocks[k] # 0 => R(d, in.blocks[k]).kind = "file"
        /\ HomeGrows(s.home, d.home, Mine(in, d.fresh)) /\ (mode = "journal" => d.home = s.home)
        /\ mode # "journal" => \A b \in DataBlocks : b \in DOMAIN d.staged => b \in DOMAIN s.staged
    BY <1>3 DEF LoopStore
  <2>2. \A b \in DataBlocks : R(t, b) = R(s, b) \/ b \in Mine(in, t.fresh) BY <1>3, <2>1
  <2>3. mode # "journal" => \A b \in DataBlocks : b \in DOMAIN t.staged => b \in DOMAIN s.staged
    BY <1>3, <2>1
  <2> QED BY <1>3, <2>1, <2>2, <2>3
<1>6. t.fresh \subseteq DataBlocks /\ BB(s) \subseteq DataBlocks
  <2>1. BB(t) \subseteq DataBlocks /\ BB(s) \subseteq DataBlocks BY <1>3, BitmapsTyped
  <2> QED BY <1>5, <2>1
<1>7. \A k \in Ks : in.blocks[k] # 0 =>
        /\ in.blocks[k] \in BB(s) /\ in.blocks[k] \in DataBlocks
        /\ \A q \in DOMAIN I, j \in Ks : Ptr(s, I[q], j) = in.blocks[k] => q = r /\ j = k
  BY <1>1, <1>3, <1>4, OwnBlocks DEF Ptr
<1>8. \A p \in DOMAIN I \ {r} : logfs_inode_read(t, I[p]) = logfs_inode_read(s, I[p])
  BY <1>2, <1>4 DEF Naming
<1>9. StagedGrows(s, t)
  <2>1. StagedGrows(s, d) BY <1>3 DEF LoopStore
  <2> QED BY <1>3, <2>1 DEF StagedGrows
<1>10. ASSUME Clean(s, t) PROVE Consistent(t, I, lk \/ t.rc # "ok")
  <2>1. Rewritten(s, t, I, r)
    <3>1. ASSUME NEW p \in DOMAIN I \ {r}, NEW k \in Ks, Ptr(s, I[p], k) # 0
          PROVE  Ptr(s, I[p], k) \in BB(t) /\ R(t, Ptr(s, I[p], k)) = R(s, Ptr(s, I[p], k))
      <4>1. /\ Ptr(s, I[p], k) \in BB(s) /\ Ptr(s, I[p], k) \in DataBlocks
            /\ \A q \in DOMAIN I, j \in Ks : Ptr(s, I[q], j) = Ptr(s, I[p], k) => q = p /\ j = k
        BY <1>1, <1>3, <3>1, OwnBlocks
      <4>2. Ptr(s, I[p], k) \notin Mine(in, t.fresh)
        <5>1. \A j \in Ks : in.blocks[j] = Ptr(s, I[r], j) BY <1>4 DEF Ptr
        <5> QED BY <1>5, <4>1, <5>1 DEF Mine
      <4> QED BY <1>5, <4>1, <4>2
    <3>2. ASSUME NEW k \in Ks, jn.blocks[k] # 0
          PROVE  /\ jn.blocks[k] \in BB(t) /\ R(t, jn.blocks[k]).kind = "file"
                 /\ jn.blocks[k] = in.blocks[k] \/ jn.blocks[k] \notin BB(s)
      <4>1. CASE jn.blocks[k] = in.blocks[k]
        <5>1. in.blocks[k] \in BB(s) /\ in.blocks[k] \in DataBlocks BY <1>7, <3>2, <4>1
        <5> QED BY <1>3, <1>5, <3>2, <4>1, <5>1
      <4>2. CASE jn.blocks[k] \in t.fresh
        BY <1>4, <1>5, <1>10, <4>2
      <4> QED BY <1>4, <4>1, <4>2
    <3> QED BY <1>4, <1>5, <1>8, <3>1, <3>2 DEF Rewritten, Injective
  <2>2. Sound(t, I) /\ Linked(t, I) BY <1>1, <2>1, RewriteSound
  <2>3. CASE lk \/ t.rc # "ok" BY <2>2, <2>3 DEF Consistent
  <2>4. CASE ~(lk \/ t.rc # "ok")
    <3>1. ASSUME NEW b \in BB(t)
          PROVE  \/ \E k \in Ks : Ptr(t, I[r], k) = b
                 \/ b \in BB(s) /\ \A k \in Ks : Ptr(s, I[r], k) # b
      <4>1. CASE b \in t.fresh BY <1>4, <2>4, <4>1 DEF Ptr
      <4>2. CASE b \notin t.fresh
        <5>1. b \in BB(s) /\ b # 0 BY <1>5, <1>6, <3>1, <4>2, Layout
        <5>2. ASSUME NEW k \in Ks, Ptr(s, I[r], k) = b PROVE Ptr(t, I[r], k) = b
          BY <1>4, <5>1, <5>2 DEF Ptr
        <5> QED BY <5>1, <5>2
      <4> QED BY <4>1, <4>2
    <3>2. Tight(s, I) BY <1>1, <2>4
    <3>3. Tight(t, I) BY <1>1, <2>1, <3>1, <3>2, RewriteTight
    <3> QED BY <2>2, <3>3 DEF Consistent
  <2> QED BY <2>3, <2>4
<1>11. ASSUME NEW b \in DataBlocks, IsFileBlock(t, I, b) PROVE IsFileBlock(s, I, b) \/ b \in t.fresh
  <2>1. PICK p \in DOMAIN I, k \in Ks : logfs_inode_read(t, I[p]).type = "file" /\ Ptr(t, I[p], k) = b
    BY <1>11 DEF IsFileBlock
  <2>2. CASE p = r
    <3>1. Ptr(s, I[r], k) = b \/ b \in t.fresh BY <1>4, <2>1, <2>2 DEF Ptr
    <3> QED BY <1>4, <3>1 DEF IsFileBlock
  <2>3. CASE p # r BY <1>8, <2>1, <2>3 DEF IsFileBlock, Ptr
  <2> QED BY <2>2, <2>3
<1>12. \A j : LiveFile(s, I, j) => LiveFile(t, I, j) BY <1>4, <1>8 DEF LiveFile
<1> QED BY <1>3, <1>5, <1>6, <1>9, <1>10, <1>11, <1>12 DEF WriteOK

(* The other files and directories show what they did, and the file's new   *)
(* blocks are those taken for it.                                           *)
LEMMA EndedOthers ==
  ASSUME NEW s, NEW d, NEW t, NEW in, NEW jn, NEW I, Sound(s, I), NEW r \in DOMAIN I, Ended(s, d, t, in, I[r], jn)
  PROVE  /\ OthersSame(s, t, I, r) /\ logfs_inode_read(t, I[r]).type = in.type
         /\ \A k \in Ks : Ptr(t, I[r], k) = Ptr(s, I[r], k) \/ Ptr(t, I[r], k) \in t.fresh
<1>1. /\ StorageOK(s) /\ LoopStore(s, in, d) /\ t.fresh = d.fresh
      /\ \A b \in DataBlocks : R(t, b) = R(d, b)
      /\ in = logfs_inode_read(s, I[r]) /\ jn = logfs_inode_read(t, I[r]) /\ jn.type = in.type
      /\ \A j \in Inodes \ {I[r]} : logfs_inode_read(t, j) = logfs_inode_read(s, j)
      /\ \A k \in Ks : jn.blocks[k] = in.blocks[k] \/ (in.blocks[k] = 0 /\ jn.blocks[k] \in t.fresh)
  BY DEF Ended
<1>2. /\ d.fresh \cap BB(s) = {}
      /\ \A b \in DataBlocks : R(d, b) = R(s, b) \/ b \in Mine(in, d.fresh)
  BY <1>1 DEF LoopStore
<1>3. Naming(I) BY DEF Sound
<1>4. ASSUME NEW p \in DOMAIN I \ {r} PROVE SameNode(s, t, I[p])
  <2>1. logfs_inode_read(t, I[p]) = logfs_inode_read(s, I[p]) BY <1>1, <1>3 DEF Naming
  <2>2. ASSUME NEW k \in Ks, Ptr(s, I[p], k) # 0 PROVE R(t, Ptr(s, I[p], k)) = R(s, Ptr(s, I[p], k))
    <3>1. /\ Ptr(s, I[p], k) \in BB(s) /\ Ptr(s, I[p], k) \in DataBlocks
          /\ \A q \in DOMAIN I, j \in Ks : Ptr(s, I[q], j) = Ptr(s, I[p], k) => q = p /\ j = k
      BY <1>1, <2>2, OwnBlocks
    <3>2. Ptr(s, I[p], k) \notin Mine(in, d.fresh)
      <4>1. \A j \in Ks : in.blocks[j] = Ptr(s, I[r], j) BY <1>1 DEF Ptr
      <4> QED BY <1>2, <3>1, <4>1 DEF Mine
    <3> QED BY <1>1, <1>2, <3>1, <3>2
  <2> QED BY <2>1, <2>2 DEF SameNode, Ptr
<1> QED BY <1>1, <1>4 DEF OthersSame, Ptr

(* logfs_inode_write keeps what was staged.                                 *)
LEMMA InodeWriteGrows ==
  ASSUME NEW s, StorageOK(s), NEW ino \in Inodes, NEW in
  PROVE  StagedGrows(s, logfs_inode_write(s, ino, in))
<1>1. inode_location(ino) \in Device BY LocationOK, Layout
<1> QED BY <1>1, PutGrows DEF logfs_inode_write

(* The largest size of a file is a number.                                  *)
LEMMA MaxSizeNat == MaxSize \in Nat
<1>1. NDirBlocks \in Nat /\ BlockUnits \in Nat /\ 0 <= NDirBlocks /\ 0 \in Nat BY FileSystemAssumption
<1> QED BY <1>1, Monotone DEF MaxSize

(* Unit i of a file is unit UnitOf(i) of its block BlockOf(i).              *)
BlockOf(i) == (i - 1) \div BlockUnits + 1
UnitOf(i) == ((i - 1) % BlockUnits) + 1

(* Division is monotone.                                                    *)
LEMMA DivMono ==
  ASSUME NEW n \in Nat, NEW m \in Nat, n <= m, NEW d \in Nat \ {0}
  PROVE  n \div d <= m \div d
<1> DEFINE x == n \div d
           y == m \div d
<1>1. x \in Nat /\ x * d <= n BY DivFacts
<1>2. y \in Nat /\ m < (y + 1) * d BY DivFacts
<1> HIDE DEF x, y
<1>3. x <= y
  <2> SUFFICES ASSUME y + 1 <= x PROVE FALSE BY <1>1, <1>2
  <2>1. (y + 1) * d <= x * d BY <1>1, <1>2, Monotone
  <2>2. (y + 1) * d \in Int /\ x * d \in Int BY <1>1, <1>2
  <2> QED BY <1>1, <1>2, <2>1, <2>2
<1> QED BY <1>3 DEF x, y

(* Every unit of a file has its place.                                      *)
LEMMA UnitPlace ==
  ASSUME NEW i \in 1 .. MaxSize
  PROVE  /\ BlockOf(i) \in Ks /\ UnitOf(i) \in 1 .. BlockUnits
         /\ (BlockOf(i) - 1) * BlockUnits + UnitOf(i) = i
<1> DEFINE B == BlockUnits
           N == NDirBlocks
           d == (i - 1) \div B
           r == (i - 1) % B
<1>1. B \in Nat \ {0} /\ N \in Nat \ {0} BY FileSystemAssumption
<1>2. i - 1 \in Nat /\ i <= N * B /\ i \in Nat BY MaxSizeNat DEF MaxSize
<1>3. d \in Nat /\ d * B <= i - 1 BY <1>1, <1>2, DivFacts
<1>4. i - 1 = d * B + r /\ r \in 0 .. B - 1 BY <1>1, <1>2
<1>5. BlockOf(i) = d + 1 /\ UnitOf(i) = r + 1 BY DEF BlockOf, UnitOf
<1>6. B = BlockUnits /\ N = NDirBlocks OBVIOUS
<1> HIDE DEF B, N, d, r
<1>7. d < N
  <2> SUFFICES ASSUME N <= d PROVE FALSE BY <1>1, <1>3
  <2>1. N * B <= d * B BY <1>1, <1>3, Monotone
  <2> QED BY <1>1, <1>2, <1>3, <2>1
<1>8. r + 1 \in 1 .. B BY <1>1, <1>4
<1>9. d + 1 \in 1 .. N BY <1>1, <1>3, <1>7
<1>10. ((d + 1) - 1) * B + (r + 1) = i
  <2>1. (d + 1) - 1 = d BY <1>3
  <2>2. d * B \in Int BY <1>1, <1>3
  <2> QED BY <1>2, <1>4, <2>1, <2>2
<1> QED BY <1>5, <1>6, <1>8, <1>9, <1>10 DEF Ks

(* Unit i of the file with inode in, as a read sees it.                     *)
Byte(s, in, i) ==
  IF in.blocks[BlockOf(i)] = 0 THEN Zero ELSE Units(R(s, in.blocks[BlockOf(i)]))[UnitOf(i)]

(* What a write of v to the units first .. last makes of the file's data:   *)
(* after an error some of the old units may be v.                           *)
Stored(s, t, in, jn, first, last, v) ==
  /\ t.rc # "ok" => /\ jn = in
                    /\ \A i \in 1 .. in.size : Byte(t, in, i) \in {v, Byte(s, in, i)}
  /\ t.rc = "ok" =>
       /\ jn.size = IF last > in.size THEN last ELSE in.size
       /\ (mode # "journal" => \A k \in Ks : jn.blocks[k] # 0 => Uncovered(s, jn.blocks[k])) =>
            \A i \in first .. last : Byte(t, jn, i) = v

(* The end of the loop and the write of the inode, for the data.            *)
LEMMA LoopStores ==
  ASSUME NEW s, NEW ino, NEW in \in Inode, NEW acc, NEW offset \in Nat, NEW size \in Nat \ {0},
         offset + size <= MaxSize, NEW v,
         LoopData(s, in, acc, offset \div BlockUnits, LastChunk(offset, size), offset + 1, offset + size, v),
         NEW jn, jn.blocks = acc.in.blocks,
         jn.size = IF offset + size > in.size THEN offset + size ELSE in.size,
         NEW t, \A b \in DataBlocks : R(t, b) = R(acc.s, b),
         NEW kn, kn \in Inode, t.rc = "ok" => acc.s.rc = "ok" /\ kn = jn, t.rc # "ok" => kn = in
  PROVE  Stored(s, t, in, kn, offset + 1, offset + size, v)
<1> DEFINE lo == offset \div BlockUnits
           hi == LastChunk(offset, size)
           first == offset + 1
           last == offset + size
<1>1. ASSUME t.rc # "ok", NEW i \in 1 .. in.size PROVE Byte(t, in, i) \in {v, Byte(s, in, i)}
  <2>1. i \in 1 .. MaxSize
    <3>1. in.size \in 0 .. MaxSize BY DEF Inode
    <3> QED BY <3>1, MaxSizeNat
  <2>2. BlockOf(i) \in Ks /\ UnitOf(i) \in 1 .. BlockUnits BY <2>1, UnitPlace
  <2> DEFINE k == BlockOf(i)
             u == UnitOf(i)
  <2> HIDE DEF k, u
  <2>3. k \in Ks /\ u \in 1 .. BlockUnits BY <2>2 DEF k, u
  <2>4. CASE in.blocks[k] = 0 BY <2>4 DEF Byte, k
  <2>5. CASE in.blocks[k] # 0
    <3>1. in.blocks[k] \in DataBlocks BY <2>3, <2>5, InodeBlocks
    <3>2. Units(R(acc.s, in.blocks[k]))[u] \in {v, Units(R(s, in.blocks[k]))[u]}
      BY <2>3, <2>5 DEF LoopData
    <3> QED BY <2>5, <3>1, <3>2 DEF Byte, k, u
  <2> QED BY <2>4, <2>5
<1>2. ASSUME t.rc = "ok", mode # "journal" => \A k \in Ks : kn.blocks[k] # 0 => Uncovered(s, kn.blocks[k]),
             NEW i \in first .. last
      PROVE  Byte(t, kn, i) = v
  <2>1. i \in 1 .. MaxSize /\ i - 1 \in Nat /\ offset <= i - 1 /\ i - 1 <= offset + size - 1
        /\ offset + size - 1 \in Nat /\ BlockUnits \in Nat \ {0}
    BY MaxSizeNat, FileSystemAssumption
  <2>2. /\ BlockOf(i) \in Ks /\ UnitOf(i) \in 1 .. BlockUnits
        /\ (BlockOf(i) - 1) * BlockUnits + UnitOf(i) = i
    BY <2>1, UnitPlace
  <2>3. lo <= (i - 1) \div BlockUnits BY <2>1, DivMono
  <2>4. (i - 1) \div BlockUnits <= (offset + size - 1) \div BlockUnits BY <2>1, DivMono
  <2> DEFINE k == BlockOf(i)
             u == UnitOf(i)
  <2>5. lo \in Nat /\ (i - 1) \div BlockUnits \in Nat /\ (offset + size - 1) \div BlockUnits \in Nat
    BY <2>1, DivFacts
  <2>6. lo < k /\ k <= hi
    <3> DEFINE d == (i - 1) \div BlockUnits
               e == (offset + size - 1) \div BlockUnits
    <3>1. k = d + 1 /\ hi = e + 1 BY DEF BlockOf, LastChunk
    <3> HIDE DEF d, e, lo, hi, k
    <3> QED BY <2>3, <2>4, <2>5, <3>1 DEF d, e
  <2> HIDE DEF k, u
  <2>7. k \in Ks /\ u \in 1 .. BlockUnits /\ (k - 1) * BlockUnits + u = i BY <2>2 DEF k, u
  <2>8. /\ acc.in.blocks[k] # 0
        /\ (mode # "journal" => Uncovered(s, acc.in.blocks[k])) =>
             Units(R(acc.s, acc.in.blocks[k]))[u] = v
    BY <1>2, <2>6, <2>7 DEF LoopData
  <2>9. kn.blocks[k] = acc.in.blocks[k] BY <1>2
  <2>10. kn.blocks[k] \in DataBlocks BY <2>7, <2>8, <2>9, InodeBlocks
  <2>11. Units(R(t, kn.blocks[k]))[u] = v BY <1>2, <2>7, <2>8, <2>9, <2>10
  <2> QED BY <2>8, <2>9, <2>11 DEF Byte, k, u
<1> HIDE DEF first, last
<1>3. t.rc = "ok" => kn.size = IF last > in.size THEN last ELSE in.size BY DEF last
<1> QED BY <1>1, <1>2, <1>3 DEF Stored, first, last

(* The inode a write ends with: as the loop left it, and as long as the     *)
(* write needs.                                                             *)
LEMMA Resized ==
  ASSUME NEW in \in Inode, NEW n \in 0 .. MaxSize
  PROVE  LET jn == [in EXCEPT !.size = IF n > @ THEN n ELSE @] IN
         /\ jn \in Inode /\ jn.type = in.type /\ jn.nlink = in.nlink /\ jn.blocks = in.blocks
         /\ jn.size = IF n > in.size THEN n ELSE in.size
<1> DEFINE size == IF n > in.size THEN n ELSE in.size
           jn == [in EXCEPT !.size = IF n > @ THEN n ELSE @]
<1>1. /\ in = [type |-> in.type, nlink |-> in.nlink, size |-> in.size, blocks |-> in.blocks]
      /\ in.type \in {"none", "dir", "file"} /\ in.nlink \in Nat /\ in.size \in 0 .. MaxSize
      /\ in.blocks \in [Ks -> DataBlocks \cup {0}]
  BY InodeRecord
<1>2. jn = [type |-> in.type, nlink |-> in.nlink, size |-> size, blocks |-> in.blocks]
  <2>1. jn = [in EXCEPT !.size = size] OBVIOUS
  <2> HIDE DEF size, jn
  <2> QED BY <1>1, <2>1
<1>3. size \in 0 .. MaxSize BY <1>1
<1> HIDE DEF size, jn
<1>4. jn \in Inode BY <1>1, <1>2, <1>3, InodeMade
<1> QED BY <1>2, <1>4 DEF jn, size

(* The end of the loop and the write of the inode.                          *)
LEMMA LoopEnds ==
  ASSUME NEW s, NEW ino \in Inodes, NEW in, in = logfs_inode_read(s, ino), WriteReady(s, in),
         NEW d, NEW dn, LoopStore(s, in, d), LoopInode(in, d, dn), LoopFresh(s, d, dn),
         NEW jn \in Inode, jn.type = dn.type, jn.nlink = dn.nlink, jn.blocks = dn.blocks,
         NEW t, Wrote(d, t, ino, jn), StagedGrows(d, t)
  PROVE  Ended(s, d, t, in, ino, logfs_inode_read(t, ino))
<1> DEFINE kn == logfs_inode_read(t, ino)
<1>1. StorageOK(s) /\ Injective(in) /\ in \in Inode BY DEF WriteReady
<1>2. inode_location(ino) \in Table BY LocationOK
<1>3. Within(d, t, {inode_location(ino)}) /\ t.fresh = d.fresh BY DEF Wrote
<1>4. /\ \A x \in DataBlocks : R(t, x) = R(d, x)
      /\ IB(t) = IB(d) /\ BB(t) = BB(d) /\ Stages(d, t, {}) /\ Stable(d, t)
  BY <1>2, <1>3, WithinTable
<1>5. StorageOK(t) /\ t.home = d.home /\ t.logged = d.logged
      /\ \A b \in DataBlocks : b \in DOMAIN t.staged => b \in DOMAIN d.staged
  BY <1>4 DEF Stable, Stages
<1>6. \A j : logfs_inode_read(d, j) = logfs_inode_read(s, j) BY DEF LoopStore
<1>7. /\ dn.type = in.type /\ dn.nlink = in.nlink /\ Injective(dn)
      /\ \A k \in Ks : dn.blocks[k] = in.blocks[k] \/ (in.blocks[k] = 0 /\ dn.blocks[k] \in d.fresh)
  BY DEF LoopInode
<1>8. CASE t.rc = "ok"
  <2>1. /\ d.rc = "ok" /\ kn = jn
        /\ \A j \in Inodes \ {ino} : logfs_inode_read(t, j) = logfs_inode_read(s, j)
    BY <1>6, <1>8 DEF Wrote
  <2> HIDE DEF kn
  <2>2. \A b \in t.fresh : /\ \E k \in Ks : kn.blocks[k] = b
                           /\ (mode # "journal" => Uncovered(s, b)) => R(d, b).kind = "file"
    BY <1>3, <2>1 DEF LoopFresh
  <2>3. \A b \in t.fresh : b \in DataBlocks
    <3>1. \A b \in t.fresh : b \in BB(t) BY <1>3, <1>4 DEF LoopStore
    <3> QED BY <1>5, <3>1, BitmapsTyped
  <2>4. \A k \in Ks : kn.blocks[k] \in t.fresh => (Clean(s, t) => R(t, kn.blocks[k]).kind = "file")
    BY <1>4, <2>2, <2>3 DEF Clean
  <2>5. kn.type = in.type /\ kn.nlink = in.nlink /\ Injective(kn)
        /\ \A k \in Ks : kn.blocks[k] = in.blocks[k] \/ (in.blocks[k] = 0 /\ kn.blocks[k] \in t.fresh)
    BY <1>3, <1>7, <2>1 DEF Injective
  <2> QED BY <1>1, <1>3, <1>4, <1>5, <1>8, <2>1, <2>2, <2>4, <2>5 DEF Ended, kn
<1>9. CASE t.rc # "ok"
  <2>1. \A j : logfs_inode_read(t, j) = logfs_inode_read(s, j)
    <3>1. \A b \in Table : R(t, b) = R(d, b) BY <1>3, <1>9, Layout DEF Within
    <3> QED BY <1>6, <3>1, InodesSame
  <2>2. kn = in BY <2>1
  <2> HIDE DEF kn
  <2>3. ASSUME NEW k \in Ks PROVE kn.blocks[k] \notin t.fresh
    <3>1. t.fresh \cap BB(s) = {} /\ BB(t) = BB(s) \cup t.fresh BY <1>3, <1>4 DEF LoopStore
    <3>2. 0 \notin t.fresh BY <1>5, <3>1, BitmapsTyped, Layout
    <3>3. in.blocks[k] # 0 => in.blocks[k] \in BB(s) BY DEF WriteReady
    <3> QED BY <2>2, <3>1, <3>2, <3>3
  <2> QED BY <1>1, <1>3, <1>4, <1>5, <1>9, <2>1, <2>2, <2>3 DEF Ended, kn
<1> QED BY <1>8, <1>9

(* What a write to a live file shows: the data, and nothing else that is    *)
(* new; its new blocks are those taken for it.                              *)
WriteShows(s, t, I, ino, offset, size, v) ==
  /\ Stored(s, t, logfs_inode_read(s, ino), logfs_inode_read(t, ino), offset + 1, offset + size, v)
  /\ logfs_inode_read(t, ino).type = "file"
  /\ \A k \in Ks : Ptr(t, ino, k) = Ptr(s, ino, k) \/ Ptr(t, ino, k) \in t.fresh
  /\ \A r \in DOMAIN I : I[r] = ino => OthersSame(s, t, I, r)

(* logfs_op_write on a live file, in either mode, whether it succeeds or    *)
(* fails after some blocks.                                                 *)
LEMMA WriteOp ==
  ASSUME NEW s, StorageOK(s), s.fresh = {}, NEW I, NEW lk \in BOOLEAN, Consistent(s, I, lk),
         NEW ino, LiveFile(s, I, ino), NEW offset \in Nat, NEW size \in Nat \ {0},
         offset + size <= MaxSize, NEW v \in Vals, NEW t, t = logfs_op_write(s, ino, offset, size, v)
  PROVE  /\ WriteOK(s, t, I, logfs_inode_read(s, ino), lk)
         /\ WriteShows(s, t, I, ino, offset, size, v)
<1> DEFINE in == logfs_inode_read(s, ino)
           done == WriteLoop(s, in, offset, size, v)[LastChunk(offset, size)]
           jn == [done.in EXCEPT !.size = IF offset + size > @ THEN offset + size ELSE @]
<1>1. PICK r \in DOMAIN I : I[r] = ino BY DEF LiveFile
<1>2. Sound(s, I) BY DEF Consistent
<1>3. ino \in Inodes BY <1>1, <1>2 DEF Sound, Naming
<1>4. in \in Inode /\ in.type = "file" /\ in = logfs_inode_read(s, I[r])
  BY <1>1, <1>3, InodeTyped DEF LiveFile
<1>5. ~(offset + size > MaxSize) /\ offset + size \in 0 .. MaxSize BY MaxSizeNat
<1>6. t = logfs_inode_write(done.s, ino, jn) BY <1>5 DEF logfs_op_write
<1> HIDE DEF in
<1>7. WriteReady(s, in)
  <2>1. \A k \in Ks : Ptr(s, I[r], k) = in.blocks[k] BY <1>4 DEF Ptr
  <2>2. ASSUME NEW k \in Ks, in.blocks[k] # 0
        PROVE  /\ in.blocks[k] \in BB(s) /\ R(s, in.blocks[k]).kind = "file"
               /\ \A j \in Ks : in.blocks[j] = in.blocks[k] => j = k
    <3>1. Ptr(s, I[r], k) # 0 BY <2>1, <2>2
    <3> QED BY <1>2, <1>4, <2>1, <3>1, OwnBlocks
  <2>3. Injective(in) BY <2>2 DEF Injective
  <2> QED BY <1>4, <2>2, <2>3 DEF WriteReady
<1>8. /\ LoopOK(s, in, done)
      /\ LoopData(s, in, done, offset \div BlockUnits, LastChunk(offset, size), offset + 1, offset + size, v)
  BY <1>7, LoopDone
<1> HIDE DEF done
<1>9. LoopStore(s, in, done.s) /\ LoopInode(in, done.s, done.in) /\ LoopFresh(s, done.s, done.in)
  BY <1>8 DEF LoopOK
<1>10. done.in \in Inode /\ StorageOK(done.s) BY <1>9 DEF LoopInode, LoopStore
<1>11. jn \in Inode /\ jn.type = done.in.type /\ jn.nlink = done.in.nlink /\ jn.blocks = done.in.blocks
       /\ jn.size = IF offset + size > in.size THEN offset + size ELSE in.size
  <2>1. done.in.size = in.size BY <1>9 DEF LoopInode
  <2> QED BY <1>5, <1>10, <2>1, Resized
<1> HIDE DEF jn
<1>12. Wrote(done.s, t, ino, jn) /\ StagedGrows(done.s, t)
  <2>1. Wrote(done.s, logfs_inode_write(done.s, ino, jn), ino, jn) BY <1>3, <1>10, <1>11, InodeWrote
  <2>2. StagedGrows(done.s, logfs_inode_write(done.s, ino, jn)) BY <1>3, <1>10, InodeWriteGrows
  <2> QED BY <1>6, <2>1, <2>2
<1>13. Ended(s, done.s, t, in, ino, logfs_inode_read(t, ino))
  <2>1. in = logfs_inode_read(s, ino) BY DEF in
  <2> QED BY <1>3, <1>7, <1>9, <1>11, <1>12, <2>1, LoopEnds
<1>14. Ended(s, done.s, t, in, I[r], logfs_inode_read(t, ino)) BY <1>1, <1>13
<1>15. WriteOK(s, t, I, in, lk) BY <1>4, <1>14, EndedOK
<1> DEFINE kn == logfs_inode_read(t, ino)
<1>16. Stored(s, t, in, kn, offset + 1, offset + size, v)
  <2>1. kn \in Inode BY <1>3, <1>13, InodeTyped DEF Ended
  <2>2. (t.rc = "ok" => done.s.rc = "ok" /\ kn = jn) /\ (t.rc # "ok" => kn = in)
    BY <1>12, <1>13 DEF Wrote, Ended
  <2>3. \A b \in DataBlocks : R(t, b) = R(done.s, b) BY <1>13 DEF Ended
  <2> HIDE DEF kn
  <2> QED BY <1>4, <1>8, <1>11, <2>1, <2>2, <2>3, LoopStores
<1>17. /\ OthersSame(s, t, I, r) /\ logfs_inode_read(t, I[r]).type = in.type
       /\ \A k \in Ks : Ptr(t, I[r], k) = Ptr(s, I[r], k) \/ Ptr(t, I[r], k) \in t.fresh
  <2> DEFINE jr == logfs_inode_read(t, ino)
  <2>1. Ended(s, done.s, t, in, I[r], jr) BY <1>14
  <2> HIDE DEF jr
  <2> QED BY ONLY <1>2, <2>1, EndedOthers
<1>18. \A x \in DOMAIN I : I[x] = ino => x = r BY <1>1, <1>2 DEF Sound, Naming
<1>19. WriteShows(s, t, I, ino, offset, size, v)
  BY <1>1, <1>4, <1>16, <1>17, <1>18 DEF WriteShows, in
<1> QED BY <1>15, <1>19 DEF in

-----------------------------------------------------------------------------
(* The invariant, and what operations and writes make of it. *)

(* A call that has done nothing yet, over the given storage. *)
At(st, log, h) == [rc |-> "ok", out |-> 0, staged |-> st, logged |-> log, home |-> h,
                   fresh |-> {}, calls |-> 0, fail |-> 0]
(* The log over the contents f of the device: what a crash leaves to read.  *)
Over(log, f) == At(<<>>, log, Settled(f))

(* Device contents f may be found after a power loss.                       *)
IsImage(h, f) == f = [b \in Device |-> f[b]] /\ \A b \in Device : f[b] \in h.alt[b]

(* Only data blocks, and only in mode "ordered", may have contents that are *)
(* not on stable storage.                                                   *)
HomeOK(m, h) ==
  /\ \A b \in Device : h.cur[b] \in h.alt[b]
  /\ \A b \in Device : b \notin DataBlocks \/ m = "journal" => h.alt[b] = {h.cur[b]}

(* Block b belongs to a directory.                                          *)
IsDirBlock(s, I, b) == \E p \in DOMAIN I, k \in Ks : IsDir(s, I[p]) /\ Ptr(s, I[p], k) = b

(* The running system: its structure is consistent, open files are live,    *)
(* and in mode "ordered" no file's block has a staged or logged copy.       *)
LiveOK(m, s, op, lk, I) ==
  /\ StorageOK(s) /\ Consistent(s, I, lk) /\ \A ino \in op : LiveFile(s, I, ino)
  /\ m # "journal" => \A b \in DataBlocks : IsFileBlock(s, I, b) => Uncovered(s, b)

(* What a mount after a crash would find: a consistent structure, in which  *)
(* in mode "ordered" replay writes no file's block.                         *)
DurableOK(m, c, lk, J) ==
  /\ Consistent(c, J, lk)
  /\ m # "journal" => \A b \in DataBlocks : IsFileBlock(c, J, b) => Copies(c, b) = {}

(* In mode "ordered" no block of a file is a directory's in what is         *)
(* committed, so that data written at once cannot hit a committed           *)
(* directory.                                                               *)
Apart(m, s, I, c, J) ==
  m # "journal" => \A b \in DataBlocks : ~(IsFileBlock(s, I, b) /\ IsDirBlock(c, J, b))

(* The inductive invariant, for what the running system sees (named by I)   *)
(* and for what every crash image would recover to (named by J).            *)
Good(m, st, log, h, op, lk, I, J) ==
  /\ HomeOK(m, h) /\ LiveOK(m, At(st, log, h), op, lk, I)
  /\ \A f : IsImage(h, f) => /\ DurableOK(m, Over(log, f), lk, J)
                             /\ Apart(m, At(st, log, h), I, Over(log, f), J)

(* The fields of such a call.                                               *)
LEMMA AtFields ==
  ASSUME NEW st, NEW log, NEW h
  PROVE  LET s == At(st, log, h) IN
         /\ s.rc = "ok" /\ s.staged = st /\ s.logged = log /\ s.home = h /\ s.fresh = {} /\ IsCall(s)
BY DEF At, IsCall

(* A device that has just been flushed.                                     *)
LEMMA SettledFacts ==
  ASSUME NEW f, f = [b \in Device |-> f[b]]
  PROVE  /\ Settled(f).cur = f /\ DOMAIN Settled(f).alt = Device
         /\ \A b \in Device : Settled(f).alt[b] = {f[b]}
         /\ Settled(f) = [cur |-> Settled(f).cur, alt |-> Settled(f).alt]
<1>1. DOMAIN f = Device OBVIOUS
<1> QED BY <1>1 DEF Settled

(* It has one image after a power loss: its contents.                       *)
LEMMA SettledImage ==
  ASSUME NEW f, f = [b \in Device |-> f[b]], NEW g
  PROVE  IsImage(Settled(f), g) <=> g = f
<1>1. \A b \in Device : Settled(f).alt[b] = {f[b]} BY SettledFacts
<1>2. ASSUME IsImage(Settled(f), g) PROVE g = f
  <2>1. g = [b \in Device |-> g[b]] /\ \A b \in Device : g[b] = f[b] BY <1>1, <1>2 DEF IsImage
  <2> QED BY <2>1
<1>3. ASSUME g = f PROVE IsImage(Settled(f), g) BY <1>1, <1>3 DEF IsImage
<1> QED BY <1>2, <1>3

(* The fields of what a crash leaves.                                       *)
LEMMA OverFacts ==
  ASSUME NEW log, NEW f, f = [b \in Device |-> f[b]]
  PROVE  LET c == Over(log, f) IN
         /\ c.rc = "ok" /\ c.staged = <<>> /\ c.logged = log /\ c.home = Settled(f) /\ c.home.cur = f
         /\ IsCall(c) /\ DOMAIN c.staged = {}
<1>1. Settled(f).cur = f BY SettledFacts
<1> QED BY <1>1, AtFields DEF Over

(* What a crash leaves is of the right kinds.                               *)
LEMMA OverStorage ==
  ASSUME NEW log, LogOK(log), NEW f, f = [b \in Device |-> f[b]], \A b \in Device : ContentOK(b, f[b])
  PROVE  StorageOK(Over(log, f))
<1> DEFINE c == Over(log, f)
<1>1. /\ c.staged = <<>> /\ c.logged = log /\ c.home = Settled(f) /\ IsCall(c) /\ DOMAIN c.staged = {}
  BY OverFacts
<1>2. RegionOK(Settled(f))
  <2>1. DOMAIN f = Device OBVIOUS
  <2> QED BY <2>1, SettledFacts DEF RegionOK
<1> HIDE DEF c
<1>3. CopiesOK(c.staged) BY <1>1 DEF CopiesOK
<1> QED BY <1>1, <1>2, <1>3 DEF StorageOK, c

(* The structure depends on what the blocks read as, not on where they are. *)
LEMMA SameReads ==
  ASSUME NEW s, StorageOK(s), NEW t, \A b \in Device : R(t, b) = R(s, b), NEW I, NEW lk, Consistent(s, I, lk)
  PROVE  /\ Consistent(t, I, lk)
         /\ \A b : IsFileBlock(t, I, b) <=> IsFileBlock(s, I, b)
         /\ \A b : IsDirBlock(t, I, b) <=> IsDirBlock(s, I, b)
         /\ \A ino : LiveFile(t, I, ino) <=> LiveFile(s, I, ino)
<1>1. \A ino : logfs_inode_read(t, ino) = logfs_inode_read(s, ino)
  <2>1. \A b \in Table : R(t, b) = R(s, b) BY Layout
  <2> QED BY <2>1, InodesSame
<1>2. IB(t) = IB(s) /\ BB(t) = BB(s) BY Layout DEF IB, BB, R
<1>3. Sound(s, I) /\ Linked(s, I) /\ (lk \/ Tight(s, I)) BY DEF Consistent
<1>4. Alike(s, t, I)
  <2> SUFFICES ASSUME NEW p \in DOMAIN I
               PROVE  /\ I[p] \in IB(s)
                      /\ \A k \in Ks : Ptr(s, I[p], k) # 0 =>
                           /\ Ptr(s, I[p], k) \in BB(s)
                           /\ R(t, Ptr(s, I[p], k)) = R(s, Ptr(s, I[p], k))
                           /\ R(t, Ptr(s, I[p], k)).kind = logfs_inode_read(s, I[p]).type
    BY <1>1, <1>2 DEF Alike
  <2>1. I[p] \in IB(s) BY <1>3 DEF Sound, Placed
  <2>2. ASSUME NEW k \in Ks, Ptr(s, I[p], k) # 0
        PROVE  /\ Ptr(s, I[p], k) \in BB(s)
               /\ R(t, Ptr(s, I[p], k)) = R(s, Ptr(s, I[p], k))
               /\ R(t, Ptr(s, I[p], k)).kind = logfs_inode_read(s, I[p]).type
    <3>1. /\ Ptr(s, I[p], k) \in BB(s) /\ Ptr(s, I[p], k) \in DataBlocks
          /\ R(s, Ptr(s, I[p], k)).kind = logfs_inode_read(s, I[p]).type
      BY <1>3, <2>2, OwnBlocks
    <3>2. Ptr(s, I[p], k) \in Device BY <3>1, Layout
    <3> QED BY <3>1, <3>2
  <2> QED BY <2>1, <2>2
<1>5. Sound(t, I) /\ Linked(t, I) /\ (Tight(s, I) => Tight(t, I)) BY <1>2, <1>3, <1>4, Frame
<1> QED BY <1>1, <1>3, <1>5 DEF Consistent, IsFileBlock, IsDirBlock, LiveFile, IsDir, Ptr

(* A structure without a leak is one that may have a leak.                  *)
LEMMA Weaker ==
  ASSUME NEW s, NEW I, NEW lk \in BOOLEAN, NEW more \in BOOLEAN, lk => more, Consistent(s, I, lk)
  PROVE  Consistent(s, I, more)
BY DEF Consistent

(* No block is a file's and a directory's at once. *)
LEMMA OneKind ==
  ASSUME NEW s, StorageOK(s), NEW I, NEW lk, Consistent(s, I, lk), NEW b \in DataBlocks,
         IsFileBlock(s, I, b), IsDirBlock(s, I, b)
  PROVE  FALSE
<1>1. Sound(s, I) BY DEF Consistent
<1>2. PICK p \in DOMAIN I, k \in Ks : logfs_inode_read(s, I[p]).type = "file" /\ Ptr(s, I[p], k) = b
  BY DEF IsFileBlock
<1>3. PICK q \in DOMAIN I, j \in Ks : IsDir(s, I[q]) /\ Ptr(s, I[q], j) = b
  BY DEF IsDirBlock
<1>4. Ptr(s, I[p], k) # 0 BY <1>2, Layout
<1>5. q = p BY <1>1, <1>2, <1>3, <1>4, OwnBlocks
<1> QED BY <1>2, <1>3, <1>5 DEF IsDir

(* Reading over two images of one device: only file data may differ.        *)
LEMMA ReadOver ==
  ASSUME NEW log, NEW f, f = [b \in Device |-> f[b]], NEW b
  PROVE  /\ Copies(Over(log, f), b) = {} => R(Over(log, f), b) = f[b]
         /\ \A g : g = [x \in Device |-> g[x]] =>
              /\ Copies(Over(log, g), b) = Copies(Over(log, f), b)
              /\ g[b] = f[b] => R(Over(log, g), b) = R(Over(log, f), b)
              /\ Copies(Over(log, f), b) # {} => R(Over(log, g), b) = R(Over(log, f), b)
<1> DEFINE c == Over(log, f)
<1>1. c.logged = log /\ c.home.cur = f /\ DOMAIN c.staged = {} BY OverFacts
<1>2. Copies(c, b) = {} => R(c, b) = f[b] BY <1>1 DEF R, logfs_txn_read_block
<1>3. ASSUME NEW g, g = [x \in Device |-> g[x]]
      PROVE  /\ Copies(Over(log, g), b) = Copies(c, b)
             /\ g[b] = f[b] => R(Over(log, g), b) = R(c, b)
             /\ Copies(c, b) # {} => R(Over(log, g), b) = R(c, b)
  <2> DEFINE d == Over(log, g)
  <2>1. d.logged = log /\ d.home.cur = g /\ DOMAIN d.staged = {} BY <1>3, OverFacts
  <2> HIDE DEF c, d
  <2>2. Copies(d, b) = Copies(c, b) BY <1>1, <2>1 DEF Copies
  <2>3. CASE Copies(c, b) = {}
    <3>1. R(d, b) = g[b] BY <2>1, <2>2, <2>3 DEF R, logfs_txn_read_block
    <3> QED BY <1>2, <2>2, <2>3, <3>1 DEF d
  <2>4. CASE Copies(c, b) # {}
    <3>1. R(d, b) = R(c, b) BY <1>1, <2>1, <2>4 DEF R, logfs_txn_read_block, Copies
    <3> QED BY <2>2, <3>1 DEF d
  <2> QED BY <2>3, <2>4
<1> QED BY <1>2, <1>3 DEF c

(* All images have the same inodes and bitmaps: those are never written     *)
(* past the journal.                                                        *)
LEMMA ImagesAgree ==
  ASSUME NEW m, NEW h, HomeOK(m, h), NEW log, NEW f, IsImage(h, f), NEW g, IsImage(h, g)
  PROVE  /\ \A ino : logfs_inode_read(Over(log, g), ino) = logfs_inode_read(Over(log, f), ino)
         /\ IB(Over(log, g)) = IB(Over(log, f)) /\ BB(Over(log, g)) = BB(Over(log, f))
<1>1. f = [b \in Device |-> f[b]] /\ g = [b \in Device |-> g[b]] BY DEF IsImage
<1>2. \A b \in Device \ DataBlocks : g[b] = f[b] BY DEF IsImage, HomeOK
<1>3. \A b \in Device \ DataBlocks : R(Over(log, g), b) = R(Over(log, f), b) BY <1>1, <1>2, ReadOver
<1>4. \A b \in Table : R(Over(log, g), b) = R(Over(log, f), b) BY <1>3, Layout
<1>5. \A ino : logfs_inode_read(Over(log, g), ino) = logfs_inode_read(Over(log, f), ino)
  BY <1>4, InodesSame
<1>6. 1 \in Device \ DataBlocks /\ 2 \in Device \ DataBlocks /\ inode_bitmap_start = 1 /\ block_bitmap_start = 2
  BY Layout
<1> QED BY <1>3, <1>5, <1>6 DEF IB, BB, R

(* The storage a call sees at its end, as that of a call that begins.       *)
LEMMA AtStorage ==
  ASSUME NEW s, StorageOK(s), NEW st, st = s.staged, NEW log, log = s.logged, NEW h, h = s.home
  PROVE  StorageOK(At(st, log, h)) /\ SameStore(s, At(st, log, h)) /\ SameStore(At(st, log, h), s)
BY AtFields DEF StorageOK, SameStore

(* An operation on the staging table alone, that leaves a consistent        *)
(* structure, preserves the invariant: what is committed is not touched.    *)
LEMMA GoodOp ==
  ASSUME NEW m, NEW st, NEW log, NEW h, NEW op, NEW lk \in BOOLEAN, NEW I, NEW J,
         Good(m, st, log, h, op, lk, I, J),
         NEW s, SameStore(At(st, log, h), s), NEW t, NEW I2, NEW more \in BOOLEAN, lk => more, NEW gone,
         OpOK(s, t, I, I2, more, gone), NEW op2, \A ino \in op2 : LiveFile(t, I2, ino)
  PROVE  Good(m, t.staged, log, h, op2, more, I2, J)
<1> DEFINE a == At(st, log, h)
           z == At(t.staged, log, h)
<1>1. HomeOK(m, h) /\ LiveOK(m, a, op, lk, I) BY DEF Good
<1>2. StorageOK(a) /\ Consistent(a, I, lk) BY <1>1 DEF LiveOK
<1>3. Stable(s, t) /\ Consistent(t, I2, more) /\ Kept(s, t, I, I2, gone) BY DEF OpOK
<1>4. StorageOK(t) /\ t.home = h /\ t.logged = log
  BY <1>3, AtFields DEF Stable, SameStore
<1>5. StorageOK(z) /\ SameStore(t, z) BY <1>4, AtStorage
<1>6. a.staged = st /\ a.logged = log /\ z.staged = t.staged /\ z.logged = log BY AtFields
<1>11. s.staged = st BY <1>6 DEF SameStore
<1> HIDE DEF a, z
<1>7. /\ Consistent(z, I2, more)
      /\ \A b : IsFileBlock(z, I2, b) <=> IsFileBlock(t, I2, b)
      /\ \A ino : LiveFile(z, I2, ino) <=> LiveFile(t, I2, ino)
  BY <1>3, <1>5, SameStoreConsistent
<1>8. \A b : IsFileBlock(s, I, b) <=> IsFileBlock(a, I, b)
  BY <1>2, SameStoreConsistent DEF a
<1>9. ASSUME NEW b \in DataBlocks, IsFileBlock(z, I2, b)
      PROVE  IsFileBlock(a, I, b) /\ (m # "journal" => Uncovered(z, b))
  <2>1. IsFileBlock(s, I, b) BY <1>3, <1>7, <1>9 DEF Kept
  <2>2. IsFileBlock(a, I, b) BY <1>8, <2>1
  <2>3. m # "journal" => Uncovered(a, b) BY <1>1, <2>2 DEF LiveOK
  <2>4. b \in DOMAIN t.staged => b \in DOMAIN st BY <1>3, <1>11, <2>1 DEF Kept
  <2> QED BY <1>6, <2>2, <2>3, <2>4 DEF Uncovered, Copies
<1>10. LiveOK(m, z, op2, more, I2) BY <1>5, <1>7, <1>9 DEF LiveOK
<1>12. ASSUME NEW f, IsImage(h, f)
       PROVE  DurableOK(m, Over(log, f), more, J) /\ Apart(m, z, I2, Over(log, f), J)
  <2>1. DurableOK(m, Over(log, f), lk, J) /\ Apart(m, a, I, Over(log, f), J) BY <1>12 DEF Good, a
  <2>2. DurableOK(m, Over(log, f), more, J) BY <2>1, Weaker DEF DurableOK
  <2> QED BY <1>9, <2>1, <2>2 DEF Apart
<1> QED BY <1>1, <1>10, <1>12 DEF Good, z

(* An image of the device after a write, over the log, and the image of the *)
(* device before it that agrees wherever it can.                            *)
LEMMA OlderImage ==
  ASSUME NEW m, NEW g, HomeOK(m, g), NEW h, NEW B, HomeGrows(g, h, B), NEW f, IsImage(h, f)
  PROVE  \E e : /\ IsImage(g, e)
                /\ \A b \in Device : e[b] = f[b] \/ (f[b] \in FileContent /\ b \in B)
<1> DEFINE e == [b \in Device |-> IF f[b] \in g.alt[b] THEN f[b] ELSE g.cur[b]]
<1>1. IsImage(g, e) BY DEF IsImage, HomeOK
<1>2. ASSUME NEW b \in Device PROVE e[b] = f[b] \/ (f[b] \in FileContent /\ b \in B)
  <2>1. f[b] \in h.alt[b] BY DEF IsImage
  <2>2. CASE f[b] \in g.alt[b] BY <2>2
  <2>3. CASE f[b] \notin g.alt[b] BY <2>1, <2>3 DEF HomeGrows
  <2> QED BY <2>2, <2>3
<1> HIDE DEF e
<1> QED BY <1>1, <1>2

(* Writing file data leaves metadata on stable storage.                     *)
LEMMA HomeKept ==
  ASSUME NEW m, NEW g, HomeOK(m, g), NEW h, NEW B \in SUBSET DataBlocks, HomeGrows(g, h, B),
         m = "journal" => h = g
  PROVE  HomeOK(m, h)
<1>1. \A b \in Device : h.cur[b] \in h.alt[b] BY DEF HomeOK, HomeGrows
<1>2. \A b \in Device : b \notin DataBlocks => h.alt[b] = {h.cur[b]} BY DEF HomeOK, HomeGrows
<1>3. m = "journal" => \A b \in Device : h.alt[b] = {h.cur[b]} BY DEF HomeOK
<1> QED BY <1>1, <1>2, <1>3 DEF HomeOK

(* Data written over blocks that are no directory's, and free or a file's,  *)
(* in what is committed, does it no harm.                                   *)
LEMMA WrittenOver ==
  ASSUME NEW m, m # "journal", NEW log, NEW e, e = [b \in Device |-> e[b]],
         StorageOK(Over(log, e)), NEW f, f = [b \in Device |-> f[b]],
         NEW B \in SUBSET DataBlocks,
         \A b \in Device : e[b] = f[b] \/ (f[b] \in FileContent /\ b \in B),
         NEW J, NEW lk \in BOOLEAN, DurableOK(m, Over(log, e), lk, J),
         \A b \in B : ~IsDirBlock(Over(log, e), J, b)
  PROVE  /\ DurableOK(m, Over(log, f), lk, J)
         /\ \A b : IsDirBlock(Over(log, f), J, b) <=> IsDirBlock(Over(log, e), J, b)
<1> DEFINE c == Over(log, e)
           d == Over(log, f)
<1>1. \A b \in Device : Copies(d, b) = Copies(c, b) BY ReadOver
<1>2. \A b \in Device : R(d, b) = R(c, b) \/ (R(d, b) \in FileContent /\ b \in B)
  <2> TAKE b \in Device
  <2>1. CASE e[b] = f[b] BY <2>1, ReadOver
  <2>2. CASE Copies(c, b) # {} BY <2>2, ReadOver
  <2>3. CASE Copies(c, b) = {} /\ f[b] \in FileContent /\ b \in B
    <3>1. R(d, b) = f[b] BY <1>1, <2>3, ReadOver
    <3> QED BY <2>3, <3>1
  <2> QED BY <2>1, <2>2, <2>3
<1>3. Consistent(c, J, lk) /\ \A b \in DataBlocks : IsFileBlock(c, J, b) => Copies(c, b) = {}
  BY DEF DurableOK
<1>4. StorageOK(c) /\ \A b \in B : ~IsDirBlock(c, J, b) OBVIOUS
<1> HIDE DEF c, d
<1>5. Sound(c, J) /\ Linked(c, J) /\ (lk \/ Tight(c, J)) BY <1>3 DEF Consistent
<1>6. \A b \in Device \ DataBlocks : R(d, b) = R(c, b) BY <1>2
<1>7. \A ino : logfs_inode_read(d, ino) = logfs_inode_read(c, ino)
  <2>1. \A b \in Table : R(d, b) = R(c, b) BY <1>6, Layout
  <2> QED BY <2>1, InodesSame
<1>8. IB(d) = IB(c) /\ BB(d) = BB(c) BY <1>6, Layout DEF IB, BB, R
<1>9. Alike(c, d, J)
  <2> SUFFICES ASSUME NEW p \in DOMAIN J
               PROVE  /\ J[p] \in IB(c)
                      /\ \A k \in Ks : Ptr(c, J[p], k) # 0 =>
                           /\ Ptr(c, J[p], k) \in BB(c)
                           /\ R(d, Ptr(c, J[p], k)).kind = logfs_inode_read(c, J[p]).type
                           /\ IsDir(c, J[p]) => R(d, Ptr(c, J[p], k)) = R(c, Ptr(c, J[p], k))
    BY <1>7, <1>8 DEF Alike
  <2>1. J[p] \in IB(c) /\ logfs_inode_read(c, J[p]).type \in {"dir", "file"} BY <1>5 DEF Sound, Placed
  <2>2. ASSUME NEW k \in Ks, Ptr(c, J[p], k) # 0
        PROVE  /\ Ptr(c, J[p], k) \in BB(c)
               /\ R(d, Ptr(c, J[p], k)).kind = logfs_inode_read(c, J[p]).type
               /\ IsDir(c, J[p]) => R(d, Ptr(c, J[p], k)) = R(c, Ptr(c, J[p], k))
    <3> DEFINE b == Ptr(c, J[p], k)
    <3>1. b \in BB(c) /\ b \in DataBlocks /\ R(c, b).kind = logfs_inode_read(c, J[p]).type
      BY <1>4, <1>5, <2>2, OwnBlocks
    <3>2. b \in Device BY <3>1, Layout
    <3>3. IsDir(c, J[p]) => IsDirBlock(c, J, b) BY DEF IsDirBlock
    <3> HIDE DEF b
    <3>4. CASE R(d, b) = R(c, b) BY <3>1, <3>4 DEF b
    <3>5. CASE R(d, b) \in FileContent /\ b \in B
      <4>1. ~IsDir(c, J[p]) BY <1>4, <3>3, <3>5
      <4>2. logfs_inode_read(c, J[p]).type = "file" BY <2>1, <4>1 DEF IsDir
      <4>3. R(d, b).kind = "file" BY <3>5 DEF FileContent
      <4> QED BY <3>1, <4>1, <4>2, <4>3 DEF b
    <3> QED BY <1>2, <3>2, <3>4, <3>5
  <2> QED BY <2>1, <2>2
<1>10. Sound(d, J) /\ Linked(d, J) /\ (Tight(c, J) => Tight(d, J)) BY <1>5, <1>8, <1>9, Frame
<1>11. Consistent(d, J, lk) BY <1>5, <1>10 DEF Consistent
<1>12. /\ \A b : IsFileBlock(d, J, b) <=> IsFileBlock(c, J, b)
       /\ \A b : IsDirBlock(d, J, b) <=> IsDirBlock(c, J, b)
  BY <1>7 DEF IsFileBlock, IsDirBlock, IsDir, Ptr
<1>13. \A b \in DataBlocks : IsFileBlock(d, J, b) => Copies(d, b) = {}
  <2>1. \A b \in DataBlocks : b \in Device BY Layout
  <2> QED BY <1>1, <1>3, <1>12, <2>1
<1> QED BY <1>11, <1>12, <1>13 DEF DurableOK, c, d

(* A write takes no block that has a staged or logged copy or, in what is   *)
(* committed, an owner.                                                     *)
NoReuse(t, log, h) ==
  mode # "journal" => \A b \in t.fresh : Uncovered(t, b) /\ b \notin BB(Over(log, h.cur))

(* What the device reads as now is one of its images.                       *)
LEMMA CurrentImage ==
  ASSUME NEW m, NEW h, RegionOK(h), HomeOK(m, h)
  PROVE  /\ IsImage(h, h.cur) /\ h.cur = [b \in Device |-> h.cur[b]]
         /\ \A f : IsImage(h, f) => f = [b \in Device |-> f[b]] /\ \A b \in Device : ContentOK(b, f[b])
<1>1. h.cur = [b \in Device |-> h.cur[b]]
  BY DEF RegionOK
<1>2. \A b \in Device : h.cur[b] \in h.alt[b] BY DEF HomeOK
<1>3. \A f : IsImage(h, f) => f = [b \in Device |-> f[b]] BY DEF IsImage
<1>4. \A f : IsImage(h, f) => \A b \in Device : ContentOK(b, f[b]) BY DEF IsImage, RegionOK
<1> QED BY <1>1, <1>2, <1>3, <1>4 DEF IsImage

(* A write in either mode preserves the invariant, if it reuses no such     *)
(* block: its data changes no committed directory, and no copy that a       *)
(* replay would put back.                                                   *)
LEMMA GoodWrite ==
  ASSUME NEW st, NEW log, NEW h, NEW op, NEW lk \in BOOLEAN, NEW I, NEW J,
         Good(mode, st, log, h, op, lk, I, J),
         NEW s, SameStore(At(st, log, h), s), NEW ino, LiveFile(s, I, ino),
         NEW t, WriteOK(s, t, I, logfs_inode_read(s, ino), lk), NoReuse(t, log, h)
  PROVE  Good(mode, t.staged, log, t.home, op, lk \/ t.rc # "ok", I, J)
<1> DEFINE a == At(st, log, h)
           z == At(t.staged, log, t.home)
           in == logfs_inode_read(s, ino)
           more == lk \/ t.rc # "ok"
           B == Mine(in, t.fresh)
<1>1. HomeOK(mode, h) /\ LiveOK(mode, a, op, lk, I) BY DEF Good
<1>2. StorageOK(a) /\ Consistent(a, I, lk) /\ \A j \in op : LiveFile(a, I, j) BY <1>1 DEF LiveOK
<1>3. a.staged = st /\ a.logged = log /\ a.home = h /\ z.staged = t.staged /\ z.logged = log BY AtFields
<1>4. s.staged = st /\ s.logged = log /\ s.home = h BY <1>3 DEF SameStore
<1>5. /\ StorageOK(t) /\ t.logged = log /\ t.fresh \subseteq DataBlocks /\ t.fresh \cap BB(s) = {}
      /\ HomeGrows(h, t.home, B) /\ (mode = "journal" => t.home = h)
      /\ mode # "journal" => \A b \in DataBlocks : b \in DOMAIN t.staged => b \in DOMAIN st
      /\ StagedGrows(s, t)
      /\ Clean(s, t) => Consistent(t, I, more)
      /\ \A b \in DataBlocks : IsFileBlock(t, I, b) => IsFileBlock(s, I, b) \/ b \in t.fresh
      /\ \A j : LiveFile(s, I, j) => LiveFile(t, I, j)
  BY <1>4 DEF WriteOK
<1>6. Clean(s, t)
  <2>1. ASSUME NEW b \in t.fresh, mode # "journal" PROVE Uncovered(s, b)
    <3>1. Uncovered(t, b) BY <2>1 DEF NoReuse
    <3> QED BY <1>4, <1>5, <3>1 DEF Uncovered, StagedGrows, Copies
  <2> QED BY <2>1 DEF Clean
<1>7. more \in BOOLEAN /\ (lk => more) OBVIOUS
<1>8. StorageOK(z) /\ SameStore(t, z) BY <1>5, AtStorage
<1> HIDE DEF a, z, more
<1>9. /\ Consistent(z, I, more)
      /\ \A b : IsFileBlock(z, I, b) <=> IsFileBlock(t, I, b)
      /\ \A j : LiveFile(z, I, j) <=> LiveFile(t, I, j)
  BY <1>5, <1>6, <1>8, SameStoreConsistent
<1>10. /\ \A b : IsFileBlock(s, I, b) <=> IsFileBlock(a, I, b)
       /\ \A j : LiveFile(s, I, j) <=> LiveFile(a, I, j)
  BY <1>2, SameStoreConsistent DEF a
<1>11. HomeOK(mode, t.home)
  <2>1. B \in SUBSET DataBlocks BY DEF Mine
  <2> HIDE DEF B
  <2> QED BY <1>1, <1>5, <2>1, HomeKept
<1>12. ASSUME NEW b \in DataBlocks, IsFileBlock(z, I, b), mode # "journal" PROVE Uncovered(z, b)
  <2>1. CASE b \in t.fresh
    <3>1. Uncovered(t, b) BY <1>12, <2>1 DEF NoReuse
    <3> QED BY <1>3, <1>5, <3>1 DEF Uncovered, Copies
  <2>2. CASE b \notin t.fresh
    <3>1. IsFileBlock(a, I, b) BY <1>5, <1>9, <1>10, <1>12, <2>2
    <3>2. Uncovered(a, b) BY <1>1, <1>12, <3>1 DEF LiveOK
    <3> QED BY <1>3, <1>5, <1>12, <3>2 DEF Uncovered, Copies
  <2> QED BY <2>1, <2>2
<1>13. \A j \in op : LiveFile(z, I, j) BY <1>2, <1>5, <1>9, <1>10
<1>14. LiveOK(mode, z, op, more, I) BY <1>8, <1>9, <1>12, <1>13 DEF LiveOK
<1>15. ASSUME NEW f, IsImage(t.home, f)
       PROVE  DurableOK(mode, Over(log, f), more, J) /\ Apart(mode, z, I, Over(log, f), J)
  <2>1. CASE mode = "journal"
    <3>1. IsImage(h, f) BY <1>5, <1>15, <2>1
    <3>2. DurableOK(mode, Over(log, f), lk, J) BY <3>1 DEF Good
    <3> QED BY <1>7, <2>1, <3>2, Weaker DEF DurableOK, Apart
  <2>2. CASE mode # "journal"
    <3>1. PICK e : /\ IsImage(h, e)
                   /\ \A b \in Device : e[b] = f[b] \/ (f[b] \in FileContent /\ b \in B)
      <4> HIDE DEF B
      <4> QED BY <1>1, <1>5, <1>15, OlderImage
    <3>2. DurableOK(mode, Over(log, e), lk, J) /\ Apart(mode, a, I, Over(log, e), J)
      BY <3>1 DEF Good, a
    <3>3. RegionOK(h) /\ LogOK(log) BY <1>2, <1>3 DEF StorageOK
    <3>4. /\ e = [b \in Device |-> e[b]] /\ \A b \in Device : ContentOK(b, e[b])
          /\ IsImage(h, h.cur)
      BY <1>1, <3>1, <3>3, CurrentImage
    <3>5. StorageOK(Over(log, e)) BY <3>3, <3>4, OverStorage
    <3>6. BB(Over(log, e)) = BB(Over(log, h.cur)) BY <1>1, <3>1, <3>4, ImagesAgree
    <3>7. f = [b \in Device |-> f[b]] BY <1>15 DEF IsImage
    <3>8. ASSUME NEW b \in t.fresh PROVE ~IsDirBlock(Over(log, e), J, b)
      <4>1. b \notin BB(Over(log, e)) /\ b # 0 BY <1>5, <2>2, <3>6, Layout DEF NoReuse
      <4>2. Sound(Over(log, e), J) BY <3>2 DEF DurableOK, Consistent
      <4>3. ASSUME NEW p \in DOMAIN J, NEW k \in Ks, Ptr(Over(log, e), J[p], k) = b PROVE FALSE
        <5>1. Ptr(Over(log, e), J[p], k) # 0 BY <4>1, <4>3
        <5>2. Ptr(Over(log, e), J[p], k) \in BB(Over(log, e)) BY <3>5, <4>2, <5>1, OwnBlocks
        <5> QED BY <4>1, <4>3, <5>2
      <4> QED BY <4>3 DEF IsDirBlock
    <3>9. ASSUME NEW b \in B PROVE ~IsDirBlock(Over(log, e), J, b)
      <4>1. CASE b \in t.fresh BY <3>8, <4>1
      <4>2. CASE b \notin t.fresh
        <5>1. b \in DataBlocks /\ \E k \in Ks : in.blocks[k] = b BY <3>9, <4>2 DEF Mine
        <5>2. PICK r \in DOMAIN I : I[r] = ino BY DEF LiveFile
        <5>3. in.type = "file" /\ \A k \in Ks : Ptr(s, I[r], k) = in.blocks[k] BY <5>2 DEF LiveFile, Ptr
        <5>4. logfs_inode_read(s, I[r]).type = "file" BY <5>2 DEF LiveFile
        <5>5. IsFileBlock(s, I, b) BY <5>1, <5>3, <5>4 DEF IsFileBlock
        <5> QED BY <1>10, <2>2, <3>2, <5>1, <5>5 DEF Apart
      <4> QED BY <4>1, <4>2
    <3>10. /\ DurableOK(mode, Over(log, f), lk, J)
           /\ \A b : IsDirBlock(Over(log, f), J, b) <=> IsDirBlock(Over(log, e), J, b)
      <4>1. B \in SUBSET DataBlocks BY DEF Mine
      <4> HIDE DEF B
      <4> QED BY <2>2, <3>1, <3>2, <3>4, <3>5, <3>7, <3>9, <4>1, WrittenOver
    <3>11. DurableOK(mode, Over(log, f), more, J) BY <1>7, <3>10, Weaker DEF DurableOK
    <3>12. ASSUME NEW b \in DataBlocks, IsFileBlock(z, I, b), IsDirBlock(Over(log, f), J, b) PROVE FALSE
      <4>1. IsDirBlock(Over(log, e), J, b) BY <3>10, <3>12
      <4>2. b \notin t.fresh BY <3>8, <4>1
      <4>3. IsFileBlock(a, I, b) BY <1>5, <1>9, <1>10, <3>12, <4>2
      <4> QED BY <2>2, <3>2, <4>1, <4>3 DEF Apart
    <3> QED BY <3>11, <3>12 DEF Apart
  <2> QED BY <2>1, <2>2
<1> QED BY <1>11, <1>14, <1>15 DEF Good, z, more

-----------------------------------------------------------------------------
(* Commit, failed commit, checkpoint, crash and mkfs. *)

(* Where a read finds a block: in the staging table, in the newest copy of  *)
(* the log, or on the device.                                               *)
LEMMA ReadNewest ==
  ASSUME NEW s, LogOK(s.logged), NEW b, b \notin DOMAIN s.staged,
         NEW i \in Copies(s, b), \A k \in Copies(s, b) : k <= i
  PROVE  R(s, b) = s.logged[i][b]
<1>1. PICK j \in Copies(s, b) : /\ \A k \in Copies(s, b) : k <= j
                                /\ j = CHOOSE x \in Copies(s, b) : \A k \in Copies(s, b) : k <= x
  BY NewestCopy
<1>2. R(s, b) = s.logged[j][b] BY <1>1 DEF R, logfs_txn_read_block
<1>3. i \in 1 .. Len(s.logged) /\ j \in 1 .. Len(s.logged) BY <1>1 DEF Copies, LogOK
<1>4. Len(s.logged) \in Nat BY DEF LogOK
<1>5. i <= j /\ j <= i BY <1>1
<1>6. i = j
  <2> DEFINE n == Len(s.logged)
  <2> HIDE DEF n
  <2>1. n \in Nat /\ i \in 1 .. n /\ j \in 1 .. n BY <1>3, <1>4 DEF n
  <2> QED BY <1>5, <2>1
<1> QED BY <1>2, <1>6

(* A staged copy hides the log and the device; without one, and without a   *)
(* logged copy, the device is read.                                         *)
LEMMA ReadStaged ==
  ASSUME NEW s, NEW b
  PROVE  /\ b \in DOMAIN s.staged => R(s, b) = s.staged[b]
         /\ b \notin DOMAIN s.staged /\ Copies(s, b) = {} => R(s, b) = s.home.cur[b]
BY DEF R, logfs_txn_read_block

(* The log with one transaction more.                                       *)
LEMMA AppendLog ==
  ASSUME NEW log, LogOK(log), NEW st, CopiesOK(st)
  PROVE  LET n == Len(log)
             log2 == Append(log, st) IN
         /\ n \in Nat /\ DOMAIN log = 1 .. n
         /\ LogOK(log2) /\ DOMAIN log2 = 1 .. n + 1
         /\ log2[n + 1] = st /\ \A i \in 1 .. n : log2[i] = log[i]
<1> DEFINE X == {log[i] : i \in DOMAIN log} \cup {st}
           n == Len(log)
           log2 == Append(log, st)
<1>1. n \in Nat /\ log = [i \in 1 .. n |-> log[i]] BY DEF LogOK
<1>2. log \in Seq(X) /\ st \in X
  <2>1. log \in [1 .. n -> X]
    <3>1. DOMAIN log = 1 .. n BY <1>1
    <3>2. \A i \in 1 .. n : log[i] \in X BY <3>1
    <3> HIDE DEF X, n
    <3> QED BY <1>1, <3>2
  <2> QED BY <1>1, <2>1
<1> HIDE DEF X
<1>3. /\ log2 \in Seq(X) /\ Len(log2) = n + 1
      /\ log2[n + 1] = st /\ \A i \in 1 .. n : log2[i] = log[i]
  BY <1>2
<1> HIDE DEF log2
<1>4. DOMAIN log2 = 1 .. n + 1 /\ DOMAIN log = 1 .. n BY <1>2, <1>3
<1>5. log2 = [i \in 1 .. Len(log2) |-> log2[i]] BY <1>3
<1>6. \A i \in DOMAIN log2 : CopiesOK(log2[i])
  <2>1. \A i \in 1 .. n : CopiesOK(log[i]) BY <1>4 DEF LogOK
  <2>2. \A i \in 1 .. n + 1 : i \in 1 .. n \/ i = n + 1
    <3> HIDE DEF n
    <3> QED BY <1>1
  <2> QED BY <1>3, <1>4, <2>1, <2>2
<1>7. LogOK(log2) BY <1>1, <1>3, <1>5, <1>6 DEF LogOK
<1> QED BY <1>1, <1>3, <1>4, <1>7 DEF log2

(* The log without its oldest transaction.                                  *)
LEMMA TailLog ==
  ASSUME NEW log, LogOK(log), log # <<>>
  PROVE  LET n == Len(log)
             rest == Tail(log) IN
         /\ n \in Nat \ {0} /\ DOMAIN log = 1 .. n
         /\ LogOK(rest) /\ DOMAIN rest = 1 .. n - 1 /\ \A i \in 1 .. n - 1 : rest[i] = log[i + 1]
         /\ Head(log) = log[1] /\ CopiesOK(Head(log))
<1> DEFINE X == {log[i] : i \in DOMAIN log}
           n == Len(log)
           rest == Tail(log)
<1>1. n \in Nat /\ log = [i \in 1 .. n |-> log[i]] BY DEF LogOK
<1>2. log \in Seq(X)
  <2>1. log \in [1 .. n -> X]
    <3>1. DOMAIN log = 1 .. n BY <1>1
    <3>2. \A i \in 1 .. n : log[i] \in X BY <3>1
    <3> HIDE DEF X, n
    <3> QED BY <1>1, <3>2
  <2> QED BY <1>1, <2>1
<1> HIDE DEF X
<1>3. /\ n \in Nat \ {0} /\ rest \in Seq(X) /\ Len(rest) = n - 1 /\ Head(log) = log[1]
      /\ \A i \in 1 .. n - 1 : rest[i] = log[i + 1]
  BY <1>2
<1> HIDE DEF rest
<1>4. DOMAIN rest = 1 .. n - 1 /\ DOMAIN log = 1 .. n BY <1>2, <1>3
<1>5. rest = [i \in 1 .. Len(rest) |-> rest[i]] BY <1>3
<1>6. \A i \in 1 .. n : CopiesOK(log[i]) BY <1>4 DEF LogOK
<1>7. (\A i \in 1 .. n - 1 : i + 1 \in 1 .. n) /\ 1 \in 1 .. n
  <2>1. n \in Nat \ {0} BY <1>3
  <2> HIDE DEF n
  <2> QED BY <2>1
<1>8. \A i \in DOMAIN rest : CopiesOK(rest[i]) BY <1>3, <1>4, <1>6, <1>7
<1>9. LogOK(rest) BY <1>3, <1>5, <1>8 DEF LogOK
<1> QED BY <1>3, <1>4, <1>6, <1>7, <1>9 DEF rest

(* Two calls over one log read the same, block by block.                    *)
LEMMA SameLogRead ==
  ASSUME NEW s, NEW t, t.logged = s.logged, NEW b, b \notin DOMAIN s.staged, b \notin DOMAIN t.staged,
         t.home.cur[b] = s.home.cur[b]
  PROVE  R(t, b) = R(s, b) /\ Copies(t, b) = Copies(s, b)
<1>1. Copies(t, b) = Copies(s, b) BY DEF Copies
<1>2. CASE Copies(s, b) = {} BY <1>1, <1>2, ReadStaged
<1>3. CASE Copies(s, b) # {} BY <1>3 DEF R, logfs_txn_read_block, Copies
<1> QED BY <1>1, <1>2, <1>3

(* A commit moves the staging table to the end of the log.                  *)
LEMMA CommitRead ==
  ASSUME NEW s, StorageOK(s), NEW t, t.logged = Append(s.logged, s.staged), DOMAIN t.staged = {},
         NEW b, t.home.cur[b] = s.home.cur[b]
  PROVE  R(t, b) = R(s, b) /\ (Uncovered(s, b) => Copies(t, b) = {})
<1> DEFINE n == Len(s.logged)
<1>1. LogOK(s.logged) /\ CopiesOK(s.staged) BY DEF StorageOK
<1>2. /\ n \in Nat /\ DOMAIN s.logged = 1 .. n
      /\ LogOK(t.logged) /\ DOMAIN t.logged = 1 .. n + 1
      /\ t.logged[n + 1] = s.staged /\ \A i \in 1 .. n : t.logged[i] = s.logged[i]
  BY <1>1, AppendLog
<1> HIDE DEF n
<1>3. \A i : i \in 1 .. n + 1 <=> i \in 1 .. n \/ i = n + 1 BY <1>2
<1>4. \A i \in 1 .. n : i <= n + 1 /\ i # n + 1 BY <1>2
<1>5. \A i : i \in Copies(t, b) <=> i \in Copies(s, b) \/ (i = n + 1 /\ b \in DOMAIN s.staged)
  BY <1>2, <1>3, <1>4 DEF Copies
<1>6. CASE b \in DOMAIN s.staged
  <2>1. n + 1 \in Copies(t, b) BY <1>5, <1>6
  <2>2. \A k \in Copies(t, b) : k <= n + 1 BY <1>2 DEF Copies
  <2>3. R(t, b) = t.logged[n + 1][b] BY <1>2, <2>1, <2>2, ReadNewest
  <2> QED BY <1>2, <1>6, <2>3, ReadStaged DEF Uncovered
<1>7. CASE b \notin DOMAIN s.staged
  <2>1. Copies(t, b) = Copies(s, b) BY <1>5, <1>7
  <2>2. CASE Copies(s, b) = {} BY <1>7, <2>1, <2>2, ReadStaged
  <2>3. CASE Copies(s, b) # {}
    <3>1. PICK i \in Copies(s, b) : \A k \in Copies(s, b) : k <= i BY <1>1, <2>3, NewestCopy
    <3>2. R(s, b) = s.logged[i][b] BY <1>1, <1>7, <3>1, ReadNewest
    <3>3. R(t, b) = t.logged[i][b]
      <4>1. LogOK(t.logged) /\ b \notin DOMAIN t.staged BY <1>2
      <4>2. i \in Copies(t, b) /\ \A k \in Copies(t, b) : k <= i BY <2>1, <3>1
      <4> QED BY ONLY <4>1, <4>2, ReadNewest
    <3>4. i \in 1 .. n BY <1>2, <3>1 DEF Copies
    <3> QED BY <1>2, <2>3, <3>2, <3>3, <3>4 DEF Uncovered
  <2> QED BY <2>2, <2>3
<1> QED BY <1>6, <1>7

(* A checkpoint writes the oldest transaction over the device.              *)
LEMMA CheckpointRead ==
  ASSUME NEW s, StorageOK(s), s.logged # <<>>, NEW t, t.logged = Tail(s.logged), t.staged = s.staged,
         NEW b, t.home.cur[b] = IF b \in DOMAIN Head(s.logged) THEN Head(s.logged)[b] ELSE s.home.cur[b]
  PROVE  R(t, b) = R(s, b) /\ (Copies(s, b) = {} => Copies(t, b) = {})
<1> DEFINE n == Len(s.logged)
<1>1. LogOK(s.logged) BY DEF StorageOK
<1>2. /\ n \in Nat \ {0} /\ DOMAIN s.logged = 1 .. n
      /\ LogOK(t.logged) /\ DOMAIN t.logged = 1 .. n - 1
      /\ \A i \in 1 .. n - 1 : t.logged[i] = s.logged[i + 1]
      /\ Head(s.logged) = s.logged[1]
  BY <1>1, TailLog
<1> HIDE DEF n
<1>3. \A i \in 1 .. n - 1 : i \in Copies(t, b) <=> i + 1 \in Copies(s, b)
  <2>1. \A i \in 1 .. n - 1 : i + 1 \in 1 .. n BY <1>2
  <2> QED BY <1>2, <2>1 DEF Copies
<1>4. \A i \in Copies(t, b) : i \in 1 .. n - 1 BY <1>2 DEF Copies
<1>5. \A i \in Copies(s, b) : i \in 1 .. n BY <1>2 DEF Copies
<1>6. Copies(s, b) = {} => Copies(t, b) = {} BY <1>3, <1>4
<1>7. CASE b \in DOMAIN s.staged BY <1>6, <1>7, ReadStaged
<1>8. CASE b \notin DOMAIN s.staged
  <2>1. CASE Copies(s, b) = {}
    <3>1. b \notin DOMAIN Head(s.logged)
      <4>1. 1 \in 1 .. n BY <1>2
      <4> QED BY <1>2, <2>1, <4>1 DEF Copies
    <3> QED BY <1>6, <1>8, <2>1, <3>1, ReadStaged
  <2>2. CASE Copies(s, b) # {}
    <3>1. PICK i \in Copies(s, b) : \A k \in Copies(s, b) : k <= i BY <1>1, <2>2, NewestCopy
    <3>2. R(s, b) = s.logged[i][b] BY <1>1, <1>8, <3>1, ReadNewest
    <3>3. i \in 1 .. n BY <1>5, <3>1
    <3>4. CASE i = 1
      <4>1. Copies(t, b) = {}
        <5> SUFFICES ASSUME NEW k \in Copies(t, b) PROVE FALSE OBVIOUS
        <5>1. k \in 1 .. n - 1 /\ k + 1 \in Copies(s, b) BY <1>3, <1>4
        <5>2. k + 1 <= 1 BY <3>1, <3>4, <5>1
        <5> QED BY <1>2, <5>1, <5>2
      <4>2. b \in DOMAIN Head(s.logged) BY <1>2, <3>1, <3>4 DEF Copies
      <4>3. R(t, b) = t.home.cur[b] BY <1>8, <4>1, ReadStaged
      <4> QED BY <1>2, <1>6, <3>2, <3>4, <4>2, <4>3
    <3>5. CASE i # 1
      <4> DEFINE j == i - 1
      <4>1. j \in 1 .. n - 1 /\ j + 1 = i BY <1>2, <3>3, <3>5
      <4> HIDE DEF j
      <4>2. j \in Copies(t, b) BY <1>3, <3>1, <4>1
      <4>3. ASSUME NEW k \in Copies(t, b) PROVE k <= j
        <5>1. k \in 1 .. n - 1 /\ k + 1 \in Copies(s, b) BY <1>3, <1>4, <4>3
        <5>2. k + 1 <= i BY <3>1, <5>1
        <5> QED BY <1>2, <4>1, <5>1, <5>2
      <4>4. R(t, b) = t.logged[j][b]
        <5>1. LogOK(t.logged) /\ b \notin DOMAIN t.staged BY <1>2, <1>8
        <5> QED BY ONLY <4>2, <4>3, <5>1, ReadNewest
      <4> QED BY <1>2, <1>6, <3>2, <4>1, <4>4
    <3> QED BY <3>4, <3>5
  <2> QED BY <2>1, <2>2
<1> QED BY <1>7, <1>8

(* The parts of the invariant.                                              *)
LEMMA GoodParts ==
  ASSUME NEW m, NEW st, NEW log, NEW h, NEW op, NEW lk, NEW I, NEW J, Good(m, st, log, h, op, lk, I, J)
  PROVE  /\ HomeOK(m, h) /\ StorageOK(At(st, log, h)) /\ CopiesOK(st) /\ LogOK(log) /\ RegionOK(h)
         /\ IsImage(h, h.cur) /\ h.cur = [b \in Device |-> h.cur[b]]
         /\ Consistent(At(st, log, h), I, lk) /\ \A ino \in op : LiveFile(At(st, log, h), I, ino)
         /\ m # "journal" => \A b \in DataBlocks : IsFileBlock(At(st, log, h), I, b) =>
              b \notin DOMAIN st /\ Uncovered(At(st, log, h), b)
         /\ \A f : IsImage(h, f) => /\ f = [b \in Device |-> f[b]] /\ StorageOK(Over(log, f))
                                    /\ DurableOK(m, Over(log, f), lk, J)
                                    /\ Apart(m, At(st, log, h), I, Over(log, f), J)
<1> DEFINE a == At(st, log, h)
<1>1. HomeOK(m, h) /\ LiveOK(m, a, op, lk, I) BY DEF Good
<1>2. a.staged = st /\ a.logged = log /\ a.home = h BY AtFields
<1> HIDE DEF a
<1>3. StorageOK(a) /\ CopiesOK(st) /\ LogOK(log) /\ RegionOK(h)
  BY <1>1, <1>2 DEF LiveOK, StorageOK
<1>4. /\ IsImage(h, h.cur) /\ h.cur = [b \in Device |-> h.cur[b]]
      /\ \A f : IsImage(h, f) => f = [b \in Device |-> f[b]] /\ \A b \in Device : ContentOK(b, f[b])
  BY <1>1, <1>3, CurrentImage
<1>5. ASSUME NEW f, IsImage(h, f)
      PROVE  /\ f = [b \in Device |-> f[b]] /\ StorageOK(Over(log, f))
             /\ DurableOK(m, Over(log, f), lk, J) /\ Apart(m, a, I, Over(log, f), J)
  <2>1. f = [b \in Device |-> f[b]] /\ \A b \in Device : ContentOK(b, f[b]) BY <1>4, <1>5
  <2>2. StorageOK(Over(log, f)) BY <1>3, <2>1, OverStorage
  <2>3. DurableOK(m, Over(log, f), lk, J) /\ Apart(m, a, I, Over(log, f), J) BY <1>5 DEF Good, a
  <2> QED BY <2>1, <2>2, <2>3
<1>6. /\ Consistent(a, I, lk) /\ \A ino \in op : LiveFile(a, I, ino)
      /\ m # "journal" => \A b \in DataBlocks : IsFileBlock(a, I, b) =>
           b \notin DOMAIN st /\ Uncovered(a, b)
  BY <1>1, <1>2 DEF LiveOK, Uncovered
<1> QED BY <1>1, <1>3, <1>4, <1>5, <1>6 DEF a

(* After a commit what is committed reads as the running system did.        *)
LEMMA CommitReads ==
  ASSUME NEW st, NEW log, NEW h, StorageOK(At(st, log, h)),
         NEW log2, st = <<>> => log2 = log, st # <<>> => log2 = Append(log, st)
  PROVE  /\ LogOK(log2)
         /\ \A b : /\ R(Over(log2, h.cur), b) = R(At(st, log, h), b)
                   /\ Uncovered(At(st, log, h), b) => Copies(Over(log2, h.cur), b) = {}
<1> DEFINE a == At(st, log, h)
           c == Over(log2, h.cur)
<1>1. a.staged = st /\ a.logged = log /\ a.home = h /\ StorageOK(a) BY AtFields
<1> HIDE DEF a
<1>3. LogOK(log) /\ CopiesOK(st) /\ RegionOK(h) BY <1>1 DEF StorageOK
<1>6. h.cur = [b \in Device |-> h.cur[b]] BY <1>3 DEF RegionOK
<1>2. c.logged = log2 /\ c.home.cur = h.cur /\ DOMAIN c.staged = {} BY <1>6, OverFacts
<1> HIDE DEF c
<1>4. CASE st = <<>>
  <2>1. DOMAIN a.staged = {} /\ c.logged = a.logged BY <1>1, <1>2, <1>4
  <2>2. \A b : R(c, b) = R(a, b) /\ Copies(c, b) = Copies(a, b) BY <1>1, <1>2, <2>1, SameLogRead
  <2> QED BY <1>3, <1>4, <2>2 DEF Uncovered, a, c
<1>5. CASE st # <<>>
  <2>1. c.logged = Append(a.logged, a.staged) BY <1>1, <1>2, <1>5
  <2>2. \A b : R(c, b) = R(a, b) /\ (Uncovered(a, b) => Copies(c, b) = {})
    BY <1>1, <1>2, <2>1, CommitRead
  <2>3. LogOK(Append(log, st)) BY ONLY <1>3, AppendLog
  <2>4. LogOK(log2) BY <1>5, <2>3
  <2> QED BY <2>2, <2>4 DEF a, c
<1> QED BY <1>4, <1>5

(* Without the running generation, the system reads as what is committed.   *)
LEMMA DropReads ==
  ASSUME NEW log, NEW h, h.cur = [b \in Device |-> h.cur[b]]
  PROVE  \A b : /\ R(At(<<>>, log, h), b) = R(Over(log, h.cur), b)
                /\ Copies(At(<<>>, log, h), b) = Copies(Over(log, h.cur), b)
<1> DEFINE z == At(<<>>, log, h)
           c == Over(log, h.cur)
<1>1. z.staged = <<>> /\ z.logged = log /\ z.home = h BY AtFields
<1>2. c.logged = log /\ c.home.cur = h.cur /\ DOMAIN c.staged = {} BY OverFacts
<1> HIDE DEF z, c
<1>3. DOMAIN z.staged = {} BY <1>1
<1>4. \A b : R(z, b) = R(c, b) /\ Copies(z, b) = Copies(c, b) BY <1>1, <1>2, <1>3, SameLogRead
<1> QED BY <1>4 DEF z, c

(* What a checkpoint leaves reads the same, with the running generation and *)
(* without it.                                                              *)
LEMMA CheckpointReads ==
  ASSUME NEW st, NEW log, NEW h, StorageOK(At(st, log, h)), log # <<>>,
         NEW e, e = Overlay(h.cur, Head(log)), NEW z, z = At(st, Tail(log), Settled(e))
  PROVE  /\ e = [b \in Device |-> e[b]] /\ \A b \in Device : ContentOK(b, e[b])
         /\ StorageOK(z)
         /\ \A b \in Device : /\ R(z, b) = R(At(st, log, h), b)
                              /\ Copies(At(st, log, h), b) = {} => Copies(z, b) = {}
<1> DEFINE a == At(st, log, h)
           rest == Tail(log)
<1>1. a.staged = st /\ a.logged = log /\ a.home = h /\ StorageOK(a) BY AtFields
<1> HIDE DEF a
<1>2. CopiesOK(st) /\ LogOK(log) /\ RegionOK(h) BY <1>1 DEF StorageOK
<1>3. LogOK(rest) /\ CopiesOK(Head(log)) BY <1>2, TailLog
<1>4. /\ e = [b \in Device |-> e[b]]
      /\ \A b \in Device : e[b] = IF b \in DOMAIN Head(log) THEN Head(log)[b] ELSE h.cur[b]
      /\ \A b \in Device : ContentOK(b, e[b])
  <2>1. DOMAIN h.cur = Device BY <1>2 DEF RegionOK
  <2>2. e = [b \in Device |-> IF b \in DOMAIN Head(log) THEN Head(log)[b] ELSE h.cur[b]]
    BY <2>1 DEF Overlay
  <2>3. \A b \in Device : e[b] = IF b \in DOMAIN Head(log) THEN Head(log)[b] ELSE h.cur[b] BY <2>2
  <2>4. \A b \in Device : ContentOK(b, e[b]) BY <1>2, <1>3, <2>3 DEF CopiesOK, RegionOK
  <2> QED BY <2>2, <2>3, <2>4
<1> HIDE DEF rest
<1>5. z.staged = st /\ z.logged = rest /\ z.home = Settled(e) /\ IsCall(z)
  <2> DEFINE y == At(st, rest, Settled(e))
  <2>1. y.staged = st /\ y.logged = rest /\ y.home = Settled(e) /\ IsCall(y) BY ONLY AtFields
  <2>2. z = y BY DEF rest
  <2> HIDE DEF y
  <2> QED BY <2>1, <2>2
<1>6. Settled(e).cur = e BY <1>4, SettledFacts
<1>7. StorageOK(z)
  <2>1. Over(rest, e).home = Settled(e) /\ StorageOK(Over(rest, e)) BY <1>3, <1>4, OverFacts, OverStorage
  <2>2. RegionOK(Settled(e)) BY <2>1 DEF StorageOK
  <2> QED BY <1>2, <1>3, <1>5, <2>2 DEF StorageOK
<1>8. \A b \in Device : R(z, b) = R(a, b) /\ (Copies(a, b) = {} => Copies(z, b) = {})
  <2> TAKE b \in Device
  <2>1. StorageOK(a) /\ a.logged # <<>> /\ z.staged = a.staged BY <1>1, <1>5
  <2>2. z.logged = Tail(a.logged) BY <1>1, <1>5 DEF rest
  <2>3. z.home.cur[b] = IF b \in DOMAIN Head(a.logged) THEN Head(a.logged)[b] ELSE a.home.cur[b]
    BY <1>1, <1>4, <1>5, <1>6
  <2> QED BY ONLY <2>1, <2>2, <2>3, CheckpointRead
<1> QED BY <1>4, <1>7, <1>8 DEF a

(* The same of what is committed.                                           *)
LEMMA CheckpointOver ==
  ASSUME NEW log, LogOK(log), NEW h, RegionOK(h), log # <<>>, NEW e, e = Overlay(h.cur, Head(log))
  PROVE  \A b \in Device : /\ R(Over(Tail(log), e), b) = R(Over(log, h.cur), b)
                           /\ Copies(Over(log, h.cur), b) = {} => Copies(Over(Tail(log), e), b) = {}
<1> DEFINE c == Over(log, h.cur)
           d == Over(Tail(log), e)
           none == <<>>
           y == At(none, log, h)
<1>1. StorageOK(y)
  <2>1. y.staged = none /\ y.logged = log /\ y.home = h /\ IsCall(y) BY AtFields
  <2> HIDE DEF y
  <2>2. CopiesOK(y.staged) BY <2>1 DEF CopiesOK
  <2> QED BY <2>1, <2>2 DEF StorageOK
<1>2. \A b : R(y, b) = R(c, b) /\ Copies(y, b) = Copies(c, b)
  <2>1. h.cur = [b \in Device |-> h.cur[b]] BY DEF RegionOK
  <2> QED BY <2>1, DropReads
<1>3. d = At(none, Tail(log), Settled(e)) BY DEF Over
<1> HIDE DEF none, c, d
<1>4. \A b \in Device : R(d, b) = R(y, b) /\ (Copies(y, b) = {} => Copies(d, b) = {})
  <2>1. StorageOK(At(none, log, h)) BY <1>1
  <2>2. e = Overlay(h.cur, Head(log)) /\ log # <<>> OBVIOUS
  <2>3. \A b \in Device : /\ R(d, b) = R(At(none, log, h), b)
                          /\ Copies(At(none, log, h), b) = {} => Copies(d, b) = {}
    BY ONLY <1>3, <2>1, <2>2, CheckpointReads
  <2> QED BY <2>3
<1> HIDE DEF y
<1> QED BY <1>2, <1>4 DEF c, d

(* A settled device has one image, and what is committed is all there is.   *)
LEMMA GoodSettled ==
  ASSUME NEW m, NEW log, LogOK(log), NEW f, f = [b \in Device |-> f[b]],
         \A b \in Device : ContentOK(b, f[b]), NEW op, NEW lk, NEW I,
         Consistent(Over(log, f), I, lk), \A ino \in op : LiveFile(Over(log, f), I, ino),
         m # "journal" => \A b \in DataBlocks : IsFileBlock(Over(log, f), I, b) => Copies(Over(log, f), b) = {}
  PROVE  Good(m, <<>>, log, Settled(f), op, lk, I, I)
<1> DEFINE c == Over(log, f)
<1>1. StorageOK(c) BY OverStorage
<1>2. DOMAIN c.staged = {} BY OverFacts
<1>3. HomeOK(m, Settled(f)) BY SettledFacts DEF HomeOK
<1>4. \A g : IsImage(Settled(f), g) => g = f BY SettledImage
<1>5. c = At(<<>>, log, Settled(f)) BY DEF Over
<1> HIDE DEF c
<1>6. LiveOK(m, c, op, lk, I) BY <1>1, <1>2 DEF LiveOK, Uncovered, c
<1>7. DurableOK(m, c, lk, I) BY DEF DurableOK, c
<1>8. Apart(m, c, I, c, I)
  <2>1. Consistent(c, I, lk) BY DEF c
  <2> QED BY <1>1, <2>1, OneKind DEF Apart
<1>9. ASSUME NEW g, IsImage(Settled(f), g)
      PROVE  DurableOK(m, Over(log, g), lk, I) /\ Apart(m, c, I, Over(log, g), I)
  <2>1. g = f BY <1>4, <1>9
  <2>2. Over(log, g) = c BY <2>1 DEF c
  <2> QED BY <1>7, <1>8, <2>2
<1> QED BY <1>3, <1>5, <1>6, <1>9 DEF Good

(* A commit preserves the invariant: what was staged is what is committed,  *)
(* and the ordered data was flushed before.                                 *)
LEMMA GoodCommit ==
  ASSUME NEW m, NEW st, NEW log, NEW h, NEW op, NEW lk, NEW I, NEW J, Good(m, st, log, h, op, lk, I, J),
         NEW log2, st = <<>> => log2 = log, st # <<>> => log2 = Append(log, st)
  PROVE  Good(m, <<>>, log2, Settled(h.cur), op, lk, I, I)
<1> DEFINE a == At(st, log, h)
           c == Over(log2, h.cur)
<1>1. /\ StorageOK(a) /\ CopiesOK(st) /\ LogOK(log) /\ RegionOK(h)
      /\ h.cur = [b \in Device |-> h.cur[b]]
      /\ Consistent(a, I, lk) /\ \A ino \in op : LiveFile(a, I, ino)
      /\ m # "journal" => \A b \in DataBlocks : IsFileBlock(a, I, b) => Uncovered(a, b)
  BY GoodParts
<1>4. LogOK(log2) /\ \A b : R(c, b) = R(a, b) /\ (Uncovered(a, b) => Copies(c, b) = {})
  BY <1>1, CommitReads
<1> HIDE DEF a, c
<1>5. /\ Consistent(c, I, lk)
      /\ \A b : IsFileBlock(c, I, b) <=> IsFileBlock(a, I, b)
      /\ \A ino : LiveFile(c, I, ino) <=> LiveFile(a, I, ino)
  BY <1>1, <1>4, SameReads
<1>6. \A b \in Device : ContentOK(b, h.cur[b]) BY <1>1 DEF RegionOK
<1>7. m # "journal" => \A b \in DataBlocks : IsFileBlock(c, I, b) => Copies(c, b) = {}
  BY <1>1, <1>4, <1>5
<1>8. \A ino \in op : LiveFile(c, I, ino) BY <1>1, <1>5
<1> QED BY <1>1, <1>4, <1>5, <1>6, <1>7, <1>8, GoodSettled DEF c

(* Dropping the running generation, as do_commit does when the journal      *)
(* fails, leaves the committed structure.                                   *)
LEMMA GoodDrop ==
  ASSUME NEW m, NEW st, NEW log, NEW h, NEW lk, NEW I, NEW J, NEW op, Good(m, st, log, h, op, lk, I, J)
  PROVE  Good(m, <<>>, log, h, {}, lk, J, J)
<1> DEFINE z == At(<<>>, log, h)
           c == Over(log, h.cur)
<1>1. /\ HomeOK(m, h) /\ LogOK(log) /\ RegionOK(h)
      /\ IsImage(h, h.cur) /\ h.cur = [b \in Device |-> h.cur[b]]
      /\ \A f : IsImage(h, f) => StorageOK(Over(log, f)) /\ DurableOK(m, Over(log, f), lk, J)
  BY GoodParts
<1>2. z.staged = <<>> /\ z.logged = log /\ z.home = h /\ IsCall(z) BY AtFields
<1>7. \A b : R(z, b) = R(c, b) /\ Copies(z, b) = Copies(c, b) BY <1>1, DropReads
<1>4. StorageOK(c) /\ DurableOK(m, c, lk, J) BY <1>1
<1> HIDE DEF z, c
<1>5. DOMAIN z.staged = {} BY <1>2
<1>6. StorageOK(z)
  <2>1. CopiesOK(z.staged) BY <1>5 DEF CopiesOK
  <2> QED BY <1>1, <1>2, <2>1 DEF StorageOK
<1>8. Consistent(c, J, lk) BY <1>4 DEF DurableOK
<1>9. /\ Consistent(z, J, lk)
      /\ \A b : IsFileBlock(z, J, b) <=> IsFileBlock(c, J, b)
  BY <1>4, <1>7, <1>8, SameReads
<1>10. LiveOK(m, z, {}, lk, J)
  <2>1. m # "journal" => \A b \in DataBlocks : IsFileBlock(z, J, b) => Uncovered(z, b)
    BY <1>4, <1>5, <1>7, <1>9 DEF DurableOK, Uncovered
  <2> QED BY <1>6, <1>9, <2>1 DEF LiveOK
<1>11. ASSUME NEW f, IsImage(h, f) PROVE DurableOK(m, Over(log, f), lk, J) /\ Apart(m, z, J, Over(log, f), J)
  <2>1. DurableOK(m, Over(log, f), lk, J) BY <1>1, <1>11
  <2>2. \A ino : logfs_inode_read(Over(log, f), ino) = logfs_inode_read(c, ino)
    BY <1>1, <1>11, ImagesAgree DEF c
  <2>3. \A b : IsDirBlock(Over(log, f), J, b) <=> IsDirBlock(c, J, b) BY <2>2 DEF IsDirBlock, IsDir, Ptr
  <2>4. Apart(m, z, J, Over(log, f), J)
    <3> SUFFICES ASSUME NEW b \in DataBlocks, IsFileBlock(z, J, b), IsDirBlock(Over(log, f), J, b)
                 PROVE  FALSE
      BY DEF Apart
    <3>1. IsFileBlock(c, J, b) /\ IsDirBlock(c, J, b) BY <1>9, <2>3
    <3> QED BY <1>4, <1>8, <3>1, OneKind
  <2> QED BY <2>1, <2>4
<1> QED BY <1>1, <1>10, <1>11 DEF Good, z

(* A checkpoint changes nothing that anybody reads, now or after a crash.   *)
LEMMA GoodCheckpoint ==
  ASSUME NEW m, NEW st, NEW log, NEW h, NEW op, NEW lk, NEW I, NEW J, Good(m, st, log, h, op, lk, I, J),
         log # <<>>, NEW e, e = Overlay(h.cur, Head(log))
  PROVE  Good(m, st, Tail(log), Settled(e), op, lk, I, J)
<1> DEFINE a == At(st, log, h)
           c == Over(log, h.cur)
           z == At(st, Tail(log), Settled(e))
           d == Over(Tail(log), e)
<1>1. /\ HomeOK(m, h) /\ StorageOK(a) /\ LogOK(log) /\ RegionOK(h)
      /\ h.cur = [b \in Device |-> h.cur[b]]
      /\ Consistent(a, I, lk) /\ \A ino \in op : LiveFile(a, I, ino)
      /\ m # "journal" => \A b \in DataBlocks : IsFileBlock(a, I, b) => Uncovered(a, b)
      /\ StorageOK(c) /\ DurableOK(m, c, lk, J) /\ Apart(m, a, I, c, J)
  BY GoodParts
<1>3. e = [b \in Device |-> e[b]] BY <1>1, CheckpointReads
<1>10. StorageOK(z) BY <1>1, CheckpointReads
<1>11. \A b \in Device : R(z, b) = R(a, b) /\ (Copies(a, b) = {} => Copies(z, b) = {})
  BY <1>1, CheckpointReads
<1>4. a.staged = st /\ z.staged = st BY AtFields
<1>12. \A b \in Device : R(d, b) = R(c, b) /\ (Copies(c, b) = {} => Copies(d, b) = {})
  <2>1. LogOK(log) /\ RegionOK(h) BY <1>1
  <2>2. log # <<>> /\ e = Overlay(h.cur, Head(log)) OBVIOUS
  <2>3. \A b \in Device : /\ R(Over(Tail(log), e), b) = R(Over(log, h.cur), b)
                          /\ Copies(Over(log, h.cur), b) = {} => Copies(Over(Tail(log), e), b) = {}
    BY ONLY <2>1, <2>2, CheckpointOver
  <2> QED BY <2>3
<1> HIDE DEF a, c, z, d
<1>13. /\ Consistent(z, I, lk)
       /\ \A b : IsFileBlock(z, I, b) <=> IsFileBlock(a, I, b)
       /\ \A ino : LiveFile(z, I, ino) <=> LiveFile(a, I, ino)
  BY <1>1, <1>11, SameReads
<1>14. Consistent(c, J, lk) BY <1>1 DEF DurableOK
<1>15. /\ Consistent(d, J, lk)
       /\ \A b : IsFileBlock(d, J, b) <=> IsFileBlock(c, J, b)
       /\ \A b : IsDirBlock(d, J, b) <=> IsDirBlock(c, J, b)
  BY <1>1, <1>12, <1>14, SameReads
<1>16. \A b \in DataBlocks : b \in Device BY Layout
<1>17. LiveOK(m, z, op, lk, I)
  <2>1. ASSUME m # "journal", NEW b \in DataBlocks, IsFileBlock(z, I, b) PROVE Uncovered(z, b)
    <3>1. Uncovered(a, b) BY <1>1, <1>13, <2>1
    <3> QED BY <1>4, <1>11, <1>16, <3>1 DEF Uncovered
  <2> QED BY <1>1, <1>10, <1>13, <2>1 DEF LiveOK
<1>18. DurableOK(m, d, lk, J) BY <1>1, <1>12, <1>15, <1>16 DEF DurableOK
<1>19. Apart(m, z, I, d, J) BY <1>1, <1>13, <1>15 DEF Apart
<1>20. HomeOK(m, Settled(e)) BY <1>3, SettledFacts DEF HomeOK
<1>21. ASSUME NEW g, IsImage(Settled(e), g)
       PROVE  DurableOK(m, Over(Tail(log), g), lk, J) /\ Apart(m, z, I, Over(Tail(log), g), J)
  <2>1. g = e BY <1>3, <1>21, SettledImage
  <2> QED BY <1>18, <1>19, <2>1 DEF d
<1> QED BY <1>17, <1>20, <1>21 DEF Good, z

(* Nothing logged: reads come from the device.                              *)
LEMMA EmptyLog ==
  LogOK(<<>>) /\ \A f, b : f = [x \in Device |-> f[x]] =>
     Copies(Over(<<>>, f), b) = {} /\ R(Over(<<>>, f), b) = f[b]
<1>1. LogOK(<<>>)
  <2>1. Len(<<>>) = 0 /\ DOMAIN <<>> = {} OBVIOUS
  <2>2. <<>> = [i \in 1 .. 0 |-> <<>>[i]] OBVIOUS
  <2> QED BY <2>1, <2>2 DEF LogOK
<1>2. ASSUME NEW f, f = [x \in Device |-> f[x]], NEW b
      PROVE  Copies(Over(<<>>, f), b) = {} /\ R(Over(<<>>, f), b) = f[b]
  <2>1. Over(<<>>, f).logged = <<>> BY <1>2, OverFacts
  <2>2. Copies(Over(<<>>, f), b) = {} BY <2>1 DEF Copies
  <2> QED BY <1>2, <2>2, ReadOver
<1> QED BY <1>1, <1>2

(* A crash in any state, and the replay of the log over whatever the device *)
(* kept, leave the committed structure.                                     *)
LEMMA GoodCrash ==
  ASSUME NEW m, NEW st, NEW log, NEW h, NEW op, NEW lk, NEW I, NEW J, Good(m, st, log, h, op, lk, I, J),
         NEW f, IsImage(h, f)
  PROVE  Good(m, <<>>, <<>>, Settled([b \in Device |-> R(Over(log, f), b)]), {}, lk, J, J)
<1> DEFINE c == Over(log, f)
           g == [b \in Device |-> R(c, b)]
           d == Over(<<>>, g)
<1>1. StorageOK(c) /\ DurableOK(m, c, lk, J) BY GoodParts
<1>2. Consistent(c, J, lk) BY <1>1 DEF DurableOK
<1> HIDE DEF c
<1>3. g = [b \in Device |-> g[b]] /\ \A b \in Device : g[b] = R(c, b) OBVIOUS
<1> HIDE DEF g
<1>4. \A b \in Device : ContentOK(b, g[b]) BY <1>1, <1>3, ReadTyped DEF StorageOK
<1>5. \A b : Copies(d, b) = {} /\ R(d, b) = g[b] BY <1>3, EmptyLog
<1> HIDE DEF d
<1>6. Consistent(d, J, lk) BY <1>1, <1>2, <1>3, <1>5, SameReads
<1>7. Good(m, <<>>, <<>>, Settled(g), {}, lk, J, J)
  <2>1. LogOK(<<>>) BY EmptyLog
  <2> QED BY <1>3, <1>4, <1>5, <1>6, <2>1, GoodSettled DEF d
<1> QED BY <1>7 DEF g, c

(* The power-loss images of module BlockDev are images in this sense.       *)
LEMMA PowerLoss ==
  ASSUME NEW m, NEW h, RegionOK(h), HomeOK(m, h), NEW f \in PowerLossImages(h)
  PROVE  IsImage(h, f)
<1> DEFINE U == Unflushed(h)
<1>1. DOMAIN h.cur = Device BY DEF RegionOK
<1>2. PICK g : /\ \A a \in U : g[a] \in h.alt[a]
               /\ f = [a \in DOMAIN h.cur |-> IF a \in U THEN g[a] ELSE h.cur[a]]
  BY DEF PowerLossImages
<1> HIDE DEF U
<1>3. f = [a \in Device |-> IF a \in U THEN g[a] ELSE h.cur[a]] BY <1>1, <1>2
<1>4. \A b \in Device : f[b] \in h.alt[b] BY <1>2, <1>3 DEF HomeOK
<1>5. f = [b \in Device |-> f[b]] BY <1>3
<1> QED BY <1>4, <1>5 DEF IsImage

(* The image mkfs leaves. *)
Formatted ==
  [b \in Device |->
     IF b = inode_bitmap_start THEN {ROOT_INO}
     ELSE IF b = block_bitmap_start THEN {data_start}
     ELSE IF b \in Table
     THEN [ino \in InTable(b) |-> IF ino = ROOT_INO THEN NewDir(data_start) ELSE NoInode]
     ELSE IF b = data_start THEN NewDirBlock(ROOT_INO, ROOT_INO)
     ELSE ZeroBlock]

(* The image has the layout's kinds of content.                             *)
LEMMA FormattedTyped ==
  /\ \A b \in Device : ContentOK(b, Formatted[b])
  /\ Formatted = [b \in Device |-> Formatted[b]]
  /\ Formatted[inode_bitmap_start] = {ROOT_INO} /\ Formatted[block_bitmap_start] = {data_start}
  /\ Formatted[data_start] = NewDirBlock(ROOT_INO, ROOT_INO)
  /\ \A b \in Table : Formatted[b] =
       [ino \in InTable(b) |-> IF ino = ROOT_INO THEN NewDir(data_start) ELSE NoInode]
  /\ data_start \in DataBlocks /\ ROOT_INO \in Inodes
<1>1. ROOT_INO \in Inodes BY FileSystemAssumption DEF Inodes, ROOT_INO
<1>2. data_start \in DataBlocks
  <2>1. NData \in Nat \ {0} BY FileSystemAssumption
  <2>2. data_start \in Nat BY Layout
  <2> HIDE DEF data_start
  <2> QED BY <2>1, <2>2 DEF DataBlocks
<1>3. /\ inode_bitmap_start \in Device /\ block_bitmap_start \in Device
      /\ inode_bitmap_start # block_bitmap_start
      /\ inode_bitmap_start \notin Table /\ block_bitmap_start \notin Table
      /\ \A b \in DataBlocks : b \in Device /\ b # inode_bitmap_start /\ b # block_bitmap_start /\ b \notin Table
      /\ \A b \in Table : b \in Device /\ b # inode_bitmap_start /\ b # block_bitmap_start
      /\ \A b \in Device : b = inode_bitmap_start \/ b = block_bitmap_start \/ b \in Table \/ b \in DataBlocks
  BY Layout
<1>4. /\ Formatted[inode_bitmap_start] = {ROOT_INO} /\ Formatted[block_bitmap_start] = {data_start}
      /\ Formatted[data_start] = NewDirBlock(ROOT_INO, ROOT_INO)
      /\ \A b \in DataBlocks : b = data_start \/ Formatted[b] = ZeroBlock
      /\ \A b \in Table : Formatted[b] =
           [ino \in InTable(b) |-> IF ino = ROOT_INO THEN NewDir(data_start) ELSE NoInode]
  BY <1>2, <1>3 DEF Formatted
<1>5. Formatted = [b \in Device |-> Formatted[b]] BY DEF Formatted
<1>6. NewDir(data_start) \in Inode BY <1>2, NewDirFacts
<1>7. NoInode \in Inode
  <2>1. NoBlocks \in [Ks -> DataBlocks \cup {0}] BY DEF NoBlocks, Ks
  <2>2. 0 \in 0 .. MaxSize BY MaxSizeNat
  <2> HIDE DEF NoBlocks
  <2> QED BY <2>1, <2>2, InodeMade DEF NoInode
<1>8. NewDirBlock(ROOT_INO, ROOT_INO) \in DirContent
  <2>1. Dirent(".", ROOT_INO, "dir") \in Slot /\ Dirent("..", ROOT_INO, "dir") \in Slot
    BY <1>1 DEF Slot, Dirent
  <2> QED BY <2>1, DirBlockFacts DEF NewDirBlock
<1>9. ZeroBlock \in FileContent BY DEF ZeroBlock, FileBlock, FileContent, Unit
<1>10. ASSUME NEW b \in Device PROVE ContentOK(b, Formatted[b])
  <2>1. CASE b = inode_bitmap_start BY <1>1, <1>4, <2>1, BitmapTypes
  <2>2. CASE b = block_bitmap_start BY <1>2, <1>4, <2>2, BitmapTypes
  <2>3. CASE b \in Table
    <3>1. Formatted[b] \in [InTable(b) -> Inode] BY <1>4, <1>6, <1>7, <2>3
    <3> QED BY <2>3, <3>1, BitmapTypes
  <2>4. CASE b \in DataBlocks BY <1>4, <1>8, <1>9, <2>4, ContentData
  <2> QED BY <1>3, <2>1, <2>2, <2>3, <2>4
<1> QED BY <1>1, <1>2, <1>4, <1>5, <1>10

(* What a mount finds on it.                                                *)
LEMMA FormattedReads ==
  LET c == Over(<<>>, Formatted) IN
  /\ IB(c) = {ROOT_INO} /\ BB(c) = {data_start} /\ R(c, data_start) = NewDirBlock(ROOT_INO, ROOT_INO)
  /\ logfs_inode_read(c, ROOT_INO) = NewDir(data_start)
<1> DEFINE c == Over(<<>>, Formatted)
<1>1. \A b : R(c, b) = Formatted[b] BY EmptyLog, FormattedTyped
<1> HIDE DEF c
<1>2. IB(c) = {ROOT_INO} /\ BB(c) = {data_start} /\ R(c, data_start) = NewDirBlock(ROOT_INO, ROOT_INO)
  BY <1>1, FormattedTyped DEF IB, BB, R
<1>3. ROOT_INO \in Inodes BY FormattedTyped
<1>4. inode_location(ROOT_INO) \in Table BY <1>3, LocationOK
<1>5. ROOT_INO \in InTable(inode_location(ROOT_INO)) BY <1>3 DEF InTable
<1>6. R(c, inode_location(ROOT_INO))[ROOT_INO] = NewDir(data_start)
  <2> DEFINE b == inode_location(ROOT_INO)
             g == [ino \in InTable(b) |-> IF ino = ROOT_INO THEN NewDir(data_start) ELSE NoInode]
  <2>1. b \in Table /\ ROOT_INO \in InTable(b) BY <1>4, <1>5
  <2>2. Formatted[b] = g
    <3> HIDE DEF b
    <3> QED BY <2>1, FormattedTyped
  <2>3. g[ROOT_INO] = NewDir(data_start)
    <3> HIDE DEF b
    <3> QED BY <2>1
  <2> HIDE DEF b, g
  <2>4. R(c, b) = Formatted[b] BY <1>1
  <2>5. R(c, b)[ROOT_INO] = NewDir(data_start) BY <2>2, <2>3, <2>4
  <2> QED BY <2>5 DEF b
<1>7. logfs_inode_read(c, ROOT_INO) = NewDir(data_start) BY <1>3, <1>6 DEF logfs_inode_read, R
<1> QED BY <1>2, <1>7 DEF c

(* The naming of an empty file system.                                      *)
RootOnly == [p \in {<<>>} |-> ROOT_INO]

(* What mkfs writes is consistent: an empty root directory.                 *)
LEMMA FormattedConsistent == Consistent(Over(<<>>, Formatted), RootOnly, FALSE)
<1> DEFINE c == Over(<<>>, Formatted)
           I == RootOnly
           in == NewDir(data_start)
<1>1. /\ IB(c) = {ROOT_INO} /\ BB(c) = {data_start} /\ R(c, data_start) = NewDirBlock(ROOT_INO, ROOT_INO)
      /\ logfs_inode_read(c, ROOT_INO) = in
  BY FormattedReads
<1>2. data_start \in DataBlocks /\ ROOT_INO \in Inodes BY FormattedTyped
<1>3. DOMAIN I = {<<>>} /\ I[<<>>] = ROOT_INO /\ I \in [DOMAIN I -> Inodes] BY <1>2 DEF RootOnly
<1>4. /\ in.type = "dir" /\ in.nlink = 2 /\ Filled(in) /\ 1 \in Ks
      /\ \A k \in Ks : in.blocks[k] = IF k = 1 THEN data_start ELSE 0
  BY <1>2, NewDirFacts
<1>5. /\ OneEach(c, in) /\ HasName(c, in, ".") /\ HasName(c, in, "..")
      /\ \A x \in Used(c, in) : Entry(c, in, x).ino = ROOT_INO /\ Entry(c, in, x).name \in {".", ".."}
  <2> HIDE DEF c
  <2> QED BY <1>1, <1>2, NewDirEntries
<1>6. R(c, data_start).kind = "dir"
  <2>1. Dirent(".", ROOT_INO, "dir") \in Slot /\ Dirent("..", ROOT_INO, "dir") \in Slot
    BY <1>2 DEF Slot, Dirent
  <2> HIDE DEF c
  <2> QED BY <1>1, <2>1, DirBlockFacts DEF NewDirBlock
<1> HIDE DEF c, I, in
<1>7. \A p \in DOMAIN I : p = <<>> /\ I[p] = ROOT_INO /\ Above(p) = <<>> BY <1>3 DEF Above
<1>8. \A p, q : ~Child(I, p, q) BY <1>7 DEF Child
<1>9. Naming(I) BY <1>3, <1>7 DEF Naming
<1>10. Placed(c, I) BY <1>1, <1>3, <1>4, <1>7 DEF Placed, IsDir
<1>11. \A p \in DOMAIN I, k \in Ks : Ptr(c, I[p], k) = IF k = 1 THEN data_start ELSE 0
  BY <1>1, <1>4, <1>7 DEF Ptr
<1>12. Owners(c, I)
  <2>1. data_start # 0 BY Layout
  <2>2. ASSUME NEW p \in DOMAIN I, NEW k \in Ks, Ptr(c, I[p], k) # 0
        PROVE  /\ Ptr(c, I[p], k) \in BB(c)
               /\ R(c, Ptr(c, I[p], k)).kind = logfs_inode_read(c, I[p]).type
               /\ \A q \in DOMAIN I, j \in Ks : Ptr(c, I[q], j) = Ptr(c, I[p], k) => q = p /\ j = k
    <3>1. k = 1 /\ Ptr(c, I[p], k) = data_start BY <1>11, <2>2
    <3> QED BY <1>1, <1>4, <1>6, <1>7, <1>11, <2>1, <3>1
  <2> QED BY <2>2 DEF Owners, Owner
<1>13. ASSUME NEW p \in DOMAIN I PROVE Listed(c, I, p)
  <2>1. logfs_inode_read(c, I[p]) = in BY <1>1, <1>7
  <2>2. \A x \in Used(c, in) : EntryOK(c, I, p, Entry(c, in, x))
    BY <1>3, <1>5, <1>7 DEF EntryOK
  <2> QED BY <1>4, <1>5, <1>8, <2>1, <2>2 DEF Listed
<1>14. Sound(c, I) BY <1>9, <1>10, <1>12, <1>13 DEF Sound
<1>15. Linked(c, I)
  <2> SUFFICES ASSUME NEW p \in DOMAIN I
               PROVE  logfs_inode_read(c, I[p]).nlink = LinkCount(c, I, p)
    BY DEF Linked
  <2>1. Subdirs(c, I, p) = {} BY <1>8 DEF Subdirs
  <2>2. Cardinality(Subdirs(c, I, p)) = 0 BY <2>1, FS_EmptySet
  <2> QED BY <1>1, <1>4, <1>7, <2>2 DEF LinkCount, IsDir
<1>16. Tight(c, I) BY <1>1, <1>3, <1>4, <1>11 DEF Tight
<1> QED BY <1>14, <1>15, <1>16 DEF Consistent, c, I

(* The invariant holds after mkfs and the first mount.                      *)
LEMMA GoodInit ==
  ASSUME NEW m
  PROVE  Good(m, <<>>, <<>>, Settled(Formatted), {}, FALSE, RootOnly, RootOnly)
<1>1. /\ LogOK(<<>>) /\ \A b : Copies(Over(<<>>, Formatted), b) = {} BY EmptyLog, FormattedTyped
<1>2. /\ Formatted = [b \in Device |-> Formatted[b]] /\ \A b \in Device : ContentOK(b, Formatted[b])
  BY FormattedTyped
<1>3. \A ino \in {} : LiveFile(Over(<<>>, Formatted), RootOnly, ino) OBVIOUS
<1> QED BY ONLY <1>1, <1>2, <1>3, FormattedConsistent, GoodSettled

-----------------------------------------------------------------------------
(* The tree of module FileTree. *)

(* What a walk sees at an inode. *)
Node(s, ino) ==
  IF logfs_inode_read(s, ino).type = "file"
  THEN [type |-> "file", data |-> logfs_op_read(s, ino)]
  ELSE [type |-> logfs_inode_read(s, ino).type]

(* tr is the tree of the structure that I names in s.                       *)
TreeIs(s, I, tr) == tr = [p \in DOMAIN I |-> Node(s, I[p])]

(* TreeOf gives it.                                                         *)
LEMMA TreeNodes ==
  ASSUME NEW s, NEW I, Sound(s, I)
  PROVE  TreeIs(s, I, TreeOf(s))
<1>1. Naming(I) BY DEF Sound
<1>2. \A p \in {<<>>} \cup Paths : p \in Seq(Names)
  <2>1. <<>> \in Seq(Names) OBVIOUS
  <2> QED BY <2>1, PathFacts
<1>3. \A p \in {<<>>} \cup Paths : logfs_path_lookup(s, p) = IF p \in DOMAIN I THEN I[p] ELSE 0
  BY <1>2, PathLookup
<1>4. \A p \in DOMAIN I : I[p] # 0 BY <1>1 DEF Naming, Inodes
<1> DEFINE D == {<<>>} \cup {q \in Paths : logfs_path_lookup(s, q) # 0}
           F(p) == LET ino == logfs_path_lookup(s, p)
                       type == logfs_inode_read(s, ino).type
                   IN  IF type = "file" THEN [type |-> type, data |-> logfs_op_read(s, ino)]
                       ELSE [type |-> type]
<1>5. D = DOMAIN I BY <1>1, <1>3, <1>4 DEF Naming
<1>6. TreeOf(s) = [p \in D |-> F(p)] BY DEF TreeOf
<1>7. ASSUME NEW p \in DOMAIN I PROVE F(p) = Node(s, I[p])
  <2>1. logfs_path_lookup(s, p) = I[p] BY <1>1, <1>3 DEF Naming
  <2> QED BY <2>1 DEF Node
<1> HIDE DEF D, F
<1> QED BY <1>5, <1>6, <1>7 DEF TreeIs

(* The data of a file, unit by unit.                                        *)
LEMMA NodeData ==
  ASSUME NEW s, NEW ino
  PROVE  logfs_op_read(s, ino) =
           [i \in 1 .. logfs_inode_read(s, ino).size |-> Byte(s, logfs_inode_read(s, ino), i)]
BY DEF logfs_op_read, Byte, R, BlockOf, UnitOf

(* A sequence given by its units.                                           *)
LEMMA DataFacts ==
  ASSUME NEW s, StorageOK(s), NEW ino \in Inodes, logfs_inode_read(s, ino).type = "file"
  PROVE  LET in == logfs_inode_read(s, ino)
             data == Node(s, ino).data IN
         /\ Node(s, ino).type = "file" /\ Node(s, ino) = [type |-> "file", data |-> data]
         /\ data = [i \in 1 .. in.size |-> Byte(s, in, i)]
         /\ DOMAIN data = 1 .. in.size /\ Len(data) = in.size
         /\ \A i \in 1 .. in.size : data[i] = Byte(s, in, i)
         /\ in.size \in 0 .. MaxSize /\ in.size \in Nat
<1> DEFINE in == logfs_inode_read(s, ino)
           data == Node(s, ino).data
<1>1. in.size \in 0 .. MaxSize /\ in.size \in Nat
  <2>1. in \in Inode BY InodeTyped
  <2>2. in.size \in 0 .. MaxSize BY <2>1 DEF Inode
  <2> QED BY <2>2, MaxSizeNat
<1>2. Node(s, ino) = [type |-> "file", data |-> logfs_op_read(s, ino)] BY DEF Node
<1>3. data = [i \in 1 .. in.size |-> Byte(s, in, i)] BY <1>2, NodeData
<1> HIDE DEF in
<1>4. Node(s, ino) = [type |-> "file", data |-> data] /\ Node(s, ino).type = "file" BY <1>2
<1> HIDE DEF data
<1>5. DOMAIN data = 1 .. in.size /\ \A i \in 1 .. in.size : data[i] = Byte(s, in, i) BY <1>3
<1>6. Len(data) = in.size BY <1>1, <1>3
<1> QED BY <1>1, <1>3, <1>4, <1>5, <1>6 DEF in, data

(* What is the same shows the same.                                         *)
LEMMA SameNodeNode ==
  ASSUME NEW s, StorageOK(s), NEW t, NEW ino \in Inodes, SameNode(s, t, ino)
  PROVE  Node(t, ino) = Node(s, ino)
<1> DEFINE in == logfs_inode_read(s, ino)
           jn == logfs_inode_read(t, ino)
<1>1. jn.type = in.type BY DEF SameNode
<1>2. CASE in.type # "file" BY <1>1, <1>2 DEF Node
<1>3. CASE in.type = "file"
  <2>1. /\ jn.size = in.size /\ jn.blocks = in.blocks
        /\ \A k \in Ks : in.blocks[k] # 0 => R(t, in.blocks[k]) = R(s, in.blocks[k])
    BY <1>3 DEF SameNode
  <2>2. in.size \in 0 .. MaxSize BY <1>3, DataFacts
  <2>3. logfs_op_read(s, ino) = [i \in 1 .. in.size |-> Byte(s, in, i)] BY NodeData
  <2>4. logfs_op_read(t, ino) = [i \in 1 .. jn.size |-> Byte(t, jn, i)] BY NodeData
  <2> HIDE DEF in, jn
  <2>5. ASSUME NEW i \in 1 .. in.size PROVE Byte(t, jn, i) = Byte(s, in, i)
    <3>1. i \in 1 .. MaxSize BY <2>2, MaxSizeNat
    <3>2. BlockOf(i) \in Ks BY <3>1, UnitPlace
    <3> QED BY <2>1, <3>2 DEF Byte
  <2>6. logfs_op_read(t, ino) = logfs_op_read(s, ino) BY <2>1, <2>3, <2>4, <2>5
  <2> QED BY <1>1, <1>3, <2>6 DEF Node, in, jn
<1> QED BY <1>2, <1>3

(* The trees of two calls over the same storage.                            *)
LEMMA SameNodesTree ==
  ASSUME NEW s, StorageOK(s), NEW t, NEW I, Naming(I), SameNodes(s, t, I)
  PROVE  \A p \in DOMAIN I : Node(t, I[p]) = Node(s, I[p])
<1> TAKE p \in DOMAIN I
<1>1. I[p] \in Inodes /\ SameNode(s, t, I[p]) BY DEF Naming, SameNodes
<1> QED BY <1>1, SameNodeNode

(* Calls that read the same see the same nodes.                             *)
LEMMA SameReadsNodes ==
  ASSUME NEW s, StorageOK(s), NEW t, \A b \in Device : R(t, b) = R(s, b), NEW I, Naming(I)
  PROVE  SameNodes(s, t, I) /\ SameNodes(t, s, I)
<1>1. \A ino : logfs_inode_read(t, ino) = logfs_inode_read(s, ino)
  <2>1. \A b \in Table : R(t, b) = R(s, b) BY Layout
  <2> QED BY <2>1, InodesSame
<1>2. ASSUME NEW p \in DOMAIN I, NEW k \in Ks
      PROVE  Ptr(s, I[p], k) # 0 => R(t, Ptr(s, I[p], k)) = R(s, Ptr(s, I[p], k))
  <2>1. logfs_inode_read(s, I[p]) \in Inode BY InodeTyped DEF Naming
  <2>2. Ptr(s, I[p], k) \in DataBlocks \cup {0} BY <2>1, InodeBlocks DEF Ptr
  <2> QED BY <2>2, Layout
<1> QED BY <1>1, <1>2 DEF SameNodes, SameNode, Ptr

(* The abstract module's Front is the same.                                 *)
LEMMA TreeFront == \A q : Tree!Front(q) = Front(q)
BY DEF Tree!Front, Front

(* A new name is a step Add of the tree.                                    *)
LEMMA AddTree ==
  ASSUME NEW s, StorageOK(s), NEW I, Naming(I), TreeIs(s, I, tree), NEW q, Front(q) \in DOMAIN I,
         IsDir(s, I[Front(q)]), NEW t, NEW J, NEW n, IsExt(I, J, q, n), SameNodes(s, t, I),
         TreeIs(t, J, tree'), UNCHANGED <<saved, touched>>
  PROVE  Tree!Add(q, Node(t, n))
<1>1. \A p \in DOMAIN I : Node(t, I[p]) = Node(s, I[p]) BY SameNodesTree
<1>2. q \notin DOMAIN I /\ DOMAIN J = DOMAIN I \cup {q} /\ J[q] = n /\ \A p \in DOMAIN I : J[p] = I[p]
  BY DEF IsExt
<1>3. DOMAIN tree = DOMAIN I /\ \A p \in DOMAIN I : tree[p] = Node(s, I[p]) BY DEF TreeIs
<1>4. tree' = [p \in DOMAIN J |-> Node(t, J[p])] BY DEF TreeIs
<1>5. \A p \in DOMAIN J : Node(t, J[p]) = IF p = q THEN Node(t, n) ELSE tree[p] BY <1>1, <1>2, <1>3
<1>6. tree' = [p \in DOMAIN tree \cup {q} |-> IF p = q THEN Node(t, n) ELSE tree[p]]
  BY <1>2, <1>3, <1>4, <1>5
<1>7. tree[Front(q)].type = "dir" BY <1>3 DEF Node, IsDir
<1> QED BY <1>2, <1>3, <1>6, <1>7, TreeFront DEF Tree!Add

(* A name that goes is a step Delete.                                       *)
LEMMA DeleteTree ==
  ASSUME NEW s, StorageOK(s), NEW I, Naming(I), TreeIs(s, I, tree), NEW q \in DOMAIN I, Childless(I, q),
         NEW t, NEW J, IsCut(I, J, q), SameNodes(s, t, J), TreeIs(t, J, tree'), UNCHANGED <<saved, touched>>
  PROVE  Tree!Delete(q)
<1>1. DOMAIN J = DOMAIN I \ {q} /\ \A p \in DOMAIN J : J[p] = I[p] BY DEF IsCut
<1>2. ASSUME NEW p \in DOMAIN J PROVE Node(t, J[p]) = Node(s, I[p])
  <2>1. SameNode(s, t, J[p]) BY DEF SameNodes
  <2>2. J[p] = I[p] /\ I[p] \in Inodes BY <1>1 DEF Naming
  <2> QED BY <2>1, <2>2, SameNodeNode
<1>3. DOMAIN tree = DOMAIN I /\ \A p \in DOMAIN I : tree[p] = Node(s, I[p]) BY DEF TreeIs
<1>4. tree' = [p \in DOMAIN J |-> Node(t, J[p])] BY DEF TreeIs
<1>5. tree' = [p \in DOMAIN tree \ {q} |-> tree[p]] BY <1>1, <1>2, <1>3, <1>4
<1>6. Tree!Children(q) = {} BY <1>3, TreeFront DEF Tree!Children, Tree!Root, Childless, Child
<1> QED BY <1>3, <1>5, <1>6 DEF Tree!Delete

(* What shows nothing new leaves the tree as it is.                         *)
LEMMA SameTree ==
  ASSUME NEW s, StorageOK(s), NEW I, Naming(I), NEW tr, TreeIs(s, I, tr),
         NEW t, SameNodes(s, t, I), NEW ts, TreeIs(t, I, ts)
  PROVE  ts = tr
<1>1. \A p \in DOMAIN I : Node(t, I[p]) = Node(s, I[p]) BY SameNodesTree
<1> QED BY <1>1 DEF TreeIs

(* The nodes of the other files, when one changes.                          *)
LEMMA OtherNodes ==
  ASSUME NEW s, StorageOK(s), NEW I, Naming(I), NEW tr, TreeIs(s, I, tr), NEW r \in DOMAIN I,
         NEW t, OthersSame(s, t, I, r), NEW ts, TreeIs(t, I, ts)
  PROVE  /\ ts = [tr EXCEPT ![r] = Node(t, I[r])] /\ r \in DOMAIN tr /\ tr[r] = Node(s, I[r])
         /\ DOMAIN tr = DOMAIN I
<1>1. ASSUME NEW p \in DOMAIN I \ {r} PROVE Node(t, I[p]) = Node(s, I[p])
  <2>1. I[p] \in Inodes /\ SameNode(s, t, I[p]) BY DEF Naming, OthersSame
  <2> QED BY <2>1, SameNodeNode
<1> QED BY <1>1 DEF TreeIs

(* A truncate that exposes nothing is a step Truncate of the tree.          *)
LEMMA TruncateTree ==
  ASSUME NEW s, StorageOK(s), NEW I, Naming(I), TreeIs(s, I, tree), NEW r \in DOMAIN I, NEW ino, ino = I[r],
         logfs_inode_read(s, ino).type = "file",
         NEW t, StorageOK(t), OthersSame(s, t, I, r), TreeIs(t, I, tree'), UNCHANGED <<saved, touched>>,
         NEW size, logfs_inode_read(t, ino).type = "file", logfs_inode_read(t, ino).size = size,
         \A i \in 1 .. size : logfs_op_read(t, ino)[i] =
           IF i \in DOMAIN logfs_op_read(s, ino) THEN logfs_op_read(s, ino)[i] ELSE Zero
  PROVE  Tree!Truncate(r, size)
<1> DEFINE old == logfs_op_read(s, ino)
           new == logfs_op_read(t, ino)
<1>1. ino \in Inodes BY DEF Naming
<1>2. tree' = [tree EXCEPT ![r] = Node(t, ino)] /\ r \in DOMAIN tree /\ tree[r] = Node(s, ino)
  BY OtherNodes
<1>3. Node(s, ino) = [type |-> "file", data |-> old] /\ Node(t, ino) = [type |-> "file", data |-> new]
  BY DEF Node
<1>4. new = [i \in 1 .. size |-> new[i]]
  <2>1. new = [i \in 1 .. size |-> Byte(t, logfs_inode_read(t, ino), i)] BY NodeData
  <2> HIDE DEF new
  <2> QED BY <2>1
<1>5. \A i \in 1 .. size : new[i] = Tree!Unit(old, i) BY DEF Tree!Unit
<1> HIDE DEF old, new
<1>6. new = [i \in 1 .. size |-> Tree!Unit(old, i)] BY <1>4, <1>5
<1>7. tree[r].data = old /\ tree[r].type = "file" BY <1>2, <1>3
<1>8. Node(t, ino) = Tree!File([i \in 1 .. size |-> Tree!Unit(tree[r].data, i)])
  BY <1>3, <1>6, <1>7 DEF Tree!File
<1>9. tree' = [tree EXCEPT ![r] = Tree!File([i \in 1 .. size |-> Tree!Unit(@.data, i)])] BY <1>2, <1>8
<1> QED BY <1>2, <1>7, <1>9 DEF Tree!Truncate, Tree!IsFile

(* Outside of the units first .. last, the file shows what it showed, and   *)
(* zeros past its old end.                                                  *)
Shown(s, t, ino, first, last) ==
  \A i \in DOMAIN logfs_op_read(t, ino) \ (first .. last) :
    logfs_op_read(t, ino)[i] =
      IF i \in DOMAIN logfs_op_read(s, ino) THEN logfs_op_read(s, ino)[i] ELSE Zero

(* A write that succeeds and exposes nothing is a step Write of the tree.   *)
LEMMA WriteTree ==
  ASSUME NEW s, StorageOK(s), NEW I, Naming(I), TreeIs(s, I, tree), NEW r \in DOMAIN I, NEW ino, ino = I[r],
         logfs_inode_read(s, ino).type = "file", NEW t, StorageOK(t), t.rc = "ok",
         NEW offset \in Nat, NEW size \in Nat \ {0}, offset + size <= MaxSize, NEW v,
         WriteShows(s, t, I, ino, offset, size, v),
         mode # "journal" => \A k \in Ks : Ptr(t, ino, k) # 0 => Uncovered(s, Ptr(t, ino, k)),
         Shown(s, t, ino, offset + 1, offset + size),
         TreeIs(t, I, tree'), saved' = saved, touched' = touched \cup {r}
  PROVE  Tree!Write(r, offset, size, v)
<1> DEFINE in == logfs_inode_read(s, ino)
           jn == logfs_inode_read(t, ino)
           old == logfs_op_read(s, ino)
           new == logfs_op_read(t, ino)
           top == IF offset + size > in.size THEN offset + size ELSE in.size
<1>1. ino \in Inodes BY DEF Naming
<1>2. jn.type = "file" /\ OthersSame(s, t, I, r) /\ Stored(s, t, in, jn, offset + 1, offset + size, v)
  BY DEF WriteShows
<1>3. tree' = [tree EXCEPT ![r] = Node(t, ino)] /\ r \in DOMAIN tree /\ tree[r] = Node(s, ino)
  BY <1>2, OtherNodes
<1>4. Node(s, ino) = [type |-> "file", data |-> old] /\ Node(t, ino) = [type |-> "file", data |-> new]
  BY <1>2 DEF Node
<1>5. jn.size = top /\ \A i \in offset + 1 .. offset + size : Byte(t, jn, i) = v
  BY <1>2 DEF Stored, Ptr
<1>6. new = [i \in 1 .. jn.size |-> Byte(t, jn, i)] BY NodeData
<1>7. in.size \in Nat /\ Len(old) = in.size
  <2>1. Node(s, ino).data = old BY <1>4
  <2>2. StorageOK(s) /\ ino \in Inodes /\ logfs_inode_read(s, ino).type = "file" BY <1>1
  <2>3. /\ logfs_inode_read(s, ino).size \in Nat
        /\ Len(Node(s, ino).data) = logfs_inode_read(s, ino).size
    BY ONLY <2>2, DataFacts
  <2> QED BY <2>1, <2>3
<1>8. \A i \in 1 .. jn.size : i \notin offset + 1 .. offset + size => new[i] = Tree!Unit(old, i)
  <2>1. DOMAIN new = 1 .. jn.size BY <1>6
  <2> HIDE DEF jn
  <2> QED BY <2>1 DEF Shown, Tree!Unit
<1> HIDE DEF in, jn, old, new
<1>9. new = [i \in 1 .. top |-> IF i > offset /\ i <= offset + size THEN v ELSE Tree!Unit(old, i)]
  <2>1. top \in Nat BY <1>7
  <2>2. new = [i \in 1 .. top |-> new[i]] /\ \A i \in 1 .. top : new[i] = Byte(t, jn, i)
    BY <1>5, <1>6
  <2>3. ASSUME NEW i \in 1 .. top
        PROVE  new[i] = IF i > offset /\ i <= offset + size THEN v ELSE Tree!Unit(old, i)
    <3>1. (i > offset /\ i <= offset + size) <=> i \in offset + 1 .. offset + size BY <2>1
    <3> QED BY <1>5, <1>8, <2>2, <3>1
  <2> HIDE DEF top
  <2> QED BY <2>2, <2>3
<1>10. tree[r].data = old /\ tree[r].type = "file" BY <1>3, <1>4
<1>11. Node(t, ino) = Tree!File(new) BY <1>4 DEF Tree!File
<1>12. new = [i \in 1 .. (IF offset + size > Len(tree[r].data) THEN offset + size ELSE Len(tree[r].data)) |->
               IF i > offset /\ i <= offset + size THEN v ELSE Tree!Unit(tree[r].data, i)]
  BY <1>7, <1>9, <1>10
<1>13. tree' = [tree EXCEPT ![r] = Tree!File(
         [i \in 1 .. (IF offset + size > Len(tree[r].data) THEN offset + size ELSE Len(tree[r].data)) |->
               IF i > offset /\ i <= offset + size THEN v ELSE Tree!Unit(tree[r].data, i)])]
  BY <1>3, <1>11, <1>12
<1>14. Tree!IsFile(r) BY <1>3, <1>10 DEF Tree!IsFile
<1> QED BY <1>13, <1>14 DEF Tree!Write

(* A write that fails is a step WriteFails: it has replaced some units.     *)
LEMMA WriteFailsTree ==
  ASSUME NEW s, StorageOK(s), NEW I, Naming(I), TreeIs(s, I, tree), NEW r \in DOMAIN I, NEW ino, ino = I[r],
         logfs_inode_read(s, ino).type = "file", NEW t, StorageOK(t), t.rc # "ok",
         NEW offset, NEW size, NEW v, WriteShows(s, t, I, ino, offset, size, v),
         TreeIs(t, I, tree'), saved' = saved, touched' = touched \cup {r}
  PROVE  Tree!WriteFails(r, v)
<1> DEFINE in == logfs_inode_read(s, ino)
           jn == logfs_inode_read(t, ino)
           old == logfs_op_read(s, ino)
           new == logfs_op_read(t, ino)
           S == {i \in DOMAIN old : new[i] = v}
<1>1. ino \in Inodes BY DEF Naming
<1>2. jn.type = "file" /\ OthersSame(s, t, I, r) /\ Stored(s, t, in, jn, offset + 1, offset + size, v)
  BY DEF WriteShows
<1>3. tree' = [tree EXCEPT ![r] = Node(t, ino)] /\ r \in DOMAIN tree /\ tree[r] = Node(s, ino)
  BY <1>2, OtherNodes
<1>4. Node(s, ino) = [type |-> "file", data |-> old] /\ Node(t, ino) = [type |-> "file", data |-> new]
  BY <1>2 DEF Node
<1>5. jn = in /\ \A i \in 1 .. in.size : Byte(t, in, i) \in {v, Byte(s, in, i)}
  BY <1>2 DEF Stored
<1>6. new = [i \in 1 .. in.size |-> Byte(t, in, i)] /\ old = [i \in 1 .. in.size |-> Byte(s, in, i)]
  BY <1>5, NodeData
<1> HIDE DEF in, jn, old, new
<1>7. new = [i \in DOMAIN old |-> IF i \in S THEN v ELSE old[i]]
  <2>1. DOMAIN old = 1 .. in.size /\ new = [i \in DOMAIN old |-> new[i]] BY <1>6
  <2>2. \A i \in DOMAIN old : new[i] = IF i \in S THEN v ELSE old[i] BY <1>5, <1>6
  <2> HIDE DEF S
  <2> QED BY <2>1, <2>2
<1>8. S \in SUBSET DOMAIN old OBVIOUS
<1> HIDE DEF S
<1>9. tree[r].data = old /\ tree[r].type = "file" BY <1>3, <1>4
<1>10. Node(t, ino) = Tree!File([i \in DOMAIN tree[r].data |-> IF i \in S THEN v ELSE tree[r].data[i]])
  BY <1>4, <1>7, <1>9 DEF Tree!File
<1>11. tree' = [tree EXCEPT ![r] = Tree!File([i \in DOMAIN @.data |-> IF i \in S THEN v ELSE @.data[i]])]
  BY <1>3, <1>10
<1>12. Tree!IsFile(r) BY <1>3, <1>9 DEF Tree!IsFile
<1> QED BY <1>8, <1>9, <1>11, <1>12 DEF Tree!WriteFails

-----------------------------------------------------------------------------
(* What the histories remember. *)

(* Block b belongs to the file at path p.                                   *)
FileOf(s, I, p, b) ==
  /\ p \in DOMAIN I /\ b # 0 /\ logfs_inode_read(s, I[p]).type = "file"
  /\ \E k \in Ks : Ptr(s, I[p], k) = b

(* What is committed, c named by J, is the tree sv but for the data of the  *)
(* files tc in mode "ordered".                                              *)
Remembers(m, c, J, sv, tc) ==
  /\ DOMAIN sv = DOMAIN J
  /\ \A p \in DOMAIN J :
       /\ sv[p].type = logfs_inode_read(c, J[p]).type
       /\ sv[p].type = "file" => Len(sv[p].data) = logfs_inode_read(c, J[p]).size
       /\ m = "journal" \/ p \notin tc => Node(c, J[p]) = sv[p]

(* In mode "ordered" a block that belongs to a file now, and to a file in   *)
(* what is committed, belongs to the same path: data written at once        *)
(* changes no other committed file.                                         *)
SameOwner(m, s, I, c, J) ==
  m # "journal" => \A p, q, b : FileOf(s, I, p, b) /\ FileOf(c, J, q, b) => q = p

(* Both, for every image a crash may leave.                                 *)
Memory(m, st, log, h, I, J, sv, tc) ==
  \A f : IsImage(h, f) => /\ Remembers(m, Over(log, f), J, sv, tc)
                          /\ SameOwner(m, At(st, log, h), I, Over(log, f), J)

(* No file has a block in t that it did not have in s.                      *)
FilesKept(s, t, I, J) == \A p, b : FileOf(t, J, p, b) => FileOf(s, I, p, b)

(* The files and their blocks depend on the inodes alone.                   *)
LEMMA FileOfSame ==
  ASSUME NEW s, NEW t, NEW I, \A p \in DOMAIN I : logfs_inode_read(t, I[p]) = logfs_inode_read(s, I[p])
  PROVE  \A p, b : FileOf(t, I, p, b) <=> FileOf(s, I, p, b)
BY DEF FileOf, Ptr

(* A new name without data adds no block to a file.                         *)
LEMMA ExtFiles ==
  ASSUME NEW s, NEW t, NEW I, NEW J, NEW q, NEW n, IsExt(I, J, q, n), SameNodes(s, t, I),
         IsDir(t, n) \/ logfs_inode_read(t, n) = NewFile
  PROVE  FilesKept(s, t, I, J)
<1> SUFFICES ASSUME NEW p, NEW b, FileOf(t, J, p, b) PROVE FileOf(s, I, p, b) BY DEF FilesKept
<1>1. p \in DOMAIN J /\ b # 0 /\ logfs_inode_read(t, J[p]).type = "file" BY DEF FileOf
<1>2. PICK k \in Ks : Ptr(t, J[p], k) = b BY DEF FileOf
<1>3. p # q
  <2> SUFFICES ASSUME p = q PROVE FALSE OBVIOUS
  <2>1. J[p] = n BY DEF IsExt
  <2>2. logfs_inode_read(t, n) = NewFile BY <1>1, <2>1 DEF IsDir
  <2>3. Ptr(t, n, k) = 0 BY <2>2 DEF Ptr, NewFile, NoBlocks, Ks
  <2> QED BY <1>1, <1>2, <2>1, <2>3
<1>4. p \in DOMAIN I /\ J[p] = I[p] BY <1>1, <1>3 DEF IsExt
<1>5. SameNode(s, t, I[p]) BY <1>4 DEF SameNodes
<1> QED BY <1>1, <1>2, <1>4, <1>5 DEF FileOf, SameNode, Ptr

(* Neither does a name that goes.                                           *)
LEMMA PartFiles ==
  ASSUME NEW s, NEW t, NEW I, NEW J, \A p \in DOMAIN J : p \in DOMAIN I /\ J[p] = I[p], SameNodes(s, t, J)
  PROVE  FilesKept(s, t, I, J)
<1> SUFFICES ASSUME NEW p, NEW b, FileOf(t, J, p, b) PROVE FileOf(s, I, p, b) BY DEF FilesKept
<1>1. p \in DOMAIN J BY DEF FileOf
<1>2. p \in DOMAIN I /\ J[p] = I[p] /\ SameNode(s, t, J[p]) BY <1>1 DEF SameNodes
<1> QED BY <1>2 DEF FileOf, SameNode, Ptr

(* Neither does a truncate.                                                 *)
LEMMA ShrunkFiles ==
  ASSUME NEW s, NEW t, NEW I, NEW r \in DOMAIN I, logfs_inode_read(s, I[r]).type = "file",
         OthersSame(s, t, I, r), NoNewBlocks(s, t, I[r])
  PROVE  FilesKept(s, t, I, I)
<1> SUFFICES ASSUME NEW p, NEW b, FileOf(t, I, p, b) PROVE FileOf(s, I, p, b) BY DEF FilesKept
<1>1. p \in DOMAIN I BY DEF FileOf
<1>2. CASE p = r BY <1>2 DEF FileOf, NoNewBlocks
<1>3. CASE p # r
  <2>1. SameNode(s, t, I[p]) BY <1>1, <1>3 DEF OthersSame
  <2> QED BY <2>1 DEF FileOf, SameNode, Ptr
<1> QED BY <1>2, <1>3

(* An operation on the staging table alone that adds no block to a file     *)
(* leaves what is remembered.                                               *)
LEMMA MemoryOp ==
  ASSUME NEW m, NEW st, NEW log, NEW h, NEW I, NEW J, NEW sv, NEW tc, Memory(m, st, log, h, I, J, sv, tc),
         NEW s, SameStore(At(st, log, h), s), NEW t, t.logged = log, t.home = h,
         NEW I2, FilesKept(s, t, I, I2)
  PROVE  Memory(m, t.staged, log, h, I2, J, sv, tc)
<1> DEFINE a == At(st, log, h)
           z == At(t.staged, log, h)
<1>1. SameStore(z, t) BY AtFields DEF SameStore
<1> HIDE DEF z
<1>2. \A p, b : FileOf(z, I2, p, b) => FileOf(t, I2, p, b)
  BY <1>1, SameStoreReads, FileOfSame
<1>3. \A p, b : FileOf(s, I, p, b) => FileOf(a, I, p, b)
  <2> HIDE DEF a
  <2>1. SameStore(a, s) BY DEF a
  <2> QED BY <2>1, SameStoreReads, FileOfSame
<1>4. ASSUME NEW f, IsImage(h, f)
      PROVE  Remembers(m, Over(log, f), J, sv, tc) /\ SameOwner(m, z, I2, Over(log, f), J)
  <2>1. Remembers(m, Over(log, f), J, sv, tc) /\ SameOwner(m, a, I, Over(log, f), J) BY <1>4 DEF Memory
  <2> HIDE DEF a
  <2> QED BY <1>2, <1>3, <2>1 DEF SameOwner, FilesKept
<1> QED BY <1>4 DEF Memory, z

(* A block has one owner.                                                   *)
LEMMA OneFile ==
  ASSUME NEW s, StorageOK(s), NEW I, Sound(s, I), NEW p, NEW q, NEW b, FileOf(s, I, p, b), FileOf(s, I, q, b)
  PROVE  q = p /\ b \in BB(s) /\ b \in DataBlocks
<1>1. p \in DOMAIN I /\ q \in DOMAIN I /\ b # 0 BY DEF FileOf
<1>2. PICK k \in Ks : Ptr(s, I[p], k) = b BY DEF FileOf
<1>3. PICK j \in Ks : Ptr(s, I[q], j) = b BY DEF FileOf
<1>4. Ptr(s, I[p], k) # 0 BY <1>1, <1>2
<1> QED BY <1>1, <1>2, <1>3, <1>4, OwnBlocks

(* What is committed over a settled device, if that is all there is.        *)
LEMMA MemorySettled ==
  ASSUME NEW m, NEW log, NEW f, f = [b \in Device |-> f[b]], StorageOK(Over(log, f)),
         NEW I, Sound(Over(log, f), I), NEW tr, TreeIs(Over(log, f), I, tr)
  PROVE  Memory(m, <<>>, log, Settled(f), I, I, tr, {})
<1> DEFINE c == Over(log, f)
<1>1. c = At(<<>>, log, Settled(f)) BY DEF Over
<1>2. StorageOK(c) /\ Sound(c, I) /\ TreeIs(c, I, tr) OBVIOUS
<1>3. \A g : IsImage(Settled(f), g) => g = f BY SettledImage
<1> HIDE DEF c
<1>4. Naming(I) BY <1>2 DEF Sound
<1>5. DOMAIN tr = DOMAIN I /\ \A p \in DOMAIN I : tr[p] = Node(c, I[p]) BY <1>2 DEF TreeIs
<1>6. ASSUME NEW p \in DOMAIN I
      PROVE  /\ tr[p].type = logfs_inode_read(c, I[p]).type
             /\ tr[p].type = "file" => Len(tr[p].data) = logfs_inode_read(c, I[p]).size
  <2>1. tr[p].type = logfs_inode_read(c, I[p]).type BY <1>5 DEF Node
  <2>2. I[p] \in Inodes BY <1>4 DEF Naming
  <2>3. ASSUME logfs_inode_read(c, I[p]).type = "file"
        PROVE  Len(Node(c, I[p]).data) = logfs_inode_read(c, I[p]).size
    BY <1>2, <2>2, <2>3, DataFacts
  <2> QED BY <1>5, <2>1, <2>3
<1>7. Remembers(m, c, I, tr, {}) BY <1>5, <1>6 DEF Remembers
<1>8. SameOwner(m, c, I, c, I) BY <1>2, OneFile DEF SameOwner
<1>9. ASSUME NEW g, IsImage(Settled(f), g)
      PROVE  Remembers(m, Over(log, g), I, tr, {}) /\ SameOwner(m, At(<<>>, log, Settled(f)), I, Over(log, g), I)
  <2>1. g = f BY <1>3, <1>9
  <2> QED BY <1>1, <1>7, <1>8, <2>1 DEF c
<1> QED BY <1>9 DEF Memory

(* Calls that read the same show the same.                                  *)
LEMMA SameReadsSee ==
  ASSUME NEW s, StorageOK(s), NEW t, \A b \in Device : R(t, b) = R(s, b), NEW I, Naming(I)
  PROVE  /\ \A p \in DOMAIN I : Node(t, I[p]) = Node(s, I[p])
         /\ \A ino : logfs_inode_read(t, ino) = logfs_inode_read(s, ino)
         /\ \A p, b : FileOf(t, I, p, b) <=> FileOf(s, I, p, b)
         /\ \A tr : TreeIs(s, I, tr) => TreeIs(t, I, tr)
         /\ \A m, sv, tc : Remembers(m, s, I, sv, tc) => Remembers(m, t, I, sv, tc)
<1>1. SameNodes(s, t, I) BY SameReadsNodes
<1>2. \A p \in DOMAIN I : Node(t, I[p]) = Node(s, I[p]) BY <1>1, SameNodesTree
<1>3. \A ino : logfs_inode_read(t, ino) = logfs_inode_read(s, ino)
  <2>1. \A b \in Table : R(t, b) = R(s, b) BY Layout
  <2> QED BY <2>1, InodesSame
<1>4. \A p, b : FileOf(t, I, p, b) <=> FileOf(s, I, p, b) BY <1>3, FileOfSame
<1>5. \A tr : TreeIs(s, I, tr) => TreeIs(t, I, tr) BY <1>2 DEF TreeIs
<1>6. \A m, sv, tc : Remembers(m, s, I, sv, tc) => Remembers(m, t, I, sv, tc) BY <1>2, <1>3 DEF Remembers
<1> QED BY <1>2, <1>3, <1>4, <1>5, <1>6

(* A commit remembers the tree.                                             *)
LEMMA MemoryCommit ==
  ASSUME NEW m, NEW st, NEW log, NEW h, NEW op, NEW lk, NEW I, NEW J, Good(m, st, log, h, op, lk, I, J),
         NEW log2, st = <<>> => log2 = log, st # <<>> => log2 = Append(log, st),
         NEW tr, TreeIs(At(st, log, h), I, tr)
  PROVE  /\ Memory(m, <<>>, log2, Settled(h.cur), I, I, tr, {})
         /\ TreeIs(At(<<>>, log2, Settled(h.cur)), I, tr)
<1> DEFINE a == At(st, log, h)
           c == Over(log2, h.cur)
<1>1. StorageOK(a) /\ RegionOK(h) /\ h.cur = [b \in Device |-> h.cur[b]] /\ Consistent(a, I, lk) BY GoodParts
<1>2. LogOK(log2) /\ \A b : R(c, b) = R(a, b) BY <1>1, CommitReads
<1>3. \A b \in Device : ContentOK(b, h.cur[b]) BY <1>1 DEF RegionOK
<1>4. StorageOK(c) BY <1>1, <1>2, <1>3, OverStorage
<1>5. TreeIs(a, I, tr) OBVIOUS
<1> HIDE DEF a, c
<1>6. Sound(a, I) /\ Naming(I) BY <1>1 DEF Consistent, Sound
<1>7. Sound(c, I) BY <1>1, <1>2, SameReads DEF Consistent
<1>8. TreeIs(c, I, tr) BY <1>1, <1>2, <1>5, <1>6, SameReadsSee
<1>9. Memory(m, <<>>, log2, Settled(h.cur), I, I, tr, {})
  BY <1>1, <1>4, <1>7, <1>8, MemorySettled DEF c
<1> QED BY <1>8, <1>9 DEF c, Over

(* A failed commit leaves what is remembered, and brings it back.           *)
LEMMA MemoryDrop ==
  ASSUME NEW m, NEW st, NEW log, NEW h, NEW op, NEW lk, NEW I, NEW J, Good(m, st, log, h, op, lk, I, J),
         NEW sv, NEW tc, Memory(m, st, log, h, I, J, sv, tc)
  PROVE  /\ Memory(m, <<>>, log, h, J, J, sv, tc)
         /\ Remembers(m, At(<<>>, log, h), J, sv, tc)
<1> DEFINE z == At(<<>>, log, h)
           c == Over(log, h.cur)
<1>1. /\ HomeOK(m, h) /\ IsImage(h, h.cur) /\ h.cur = [b \in Device |-> h.cur[b]]
      /\ StorageOK(c) /\ DurableOK(m, c, lk, J)
  BY GoodParts
<1>2. Sound(c, J) /\ Naming(J) BY <1>1 DEF DurableOK, Consistent, Sound
<1>3. \A b : R(z, b) = R(c, b) BY <1>1, DropReads
<1>4. Remembers(m, c, J, sv, tc) BY <1>1 DEF Memory
<1> HIDE DEF z
<1>5. /\ Remembers(m, z, J, sv, tc)
      /\ \A p, b : FileOf(z, J, p, b) <=> FileOf(c, J, p, b)
  BY <1>1, <1>2, <1>3, <1>4, SameReadsSee
<1>6. ASSUME NEW f, IsImage(h, f)
      PROVE  Remembers(m, Over(log, f), J, sv, tc) /\ SameOwner(m, z, J, Over(log, f), J)
  <2>1. \A ino : logfs_inode_read(Over(log, f), ino) = logfs_inode_read(c, ino)
    BY <1>1, <1>6, ImagesAgree
  <2>2. \A p, b : FileOf(Over(log, f), J, p, b) <=> FileOf(c, J, p, b) BY <2>1, FileOfSame
  <2>3. Remembers(m, Over(log, f), J, sv, tc) BY <1>6 DEF Memory
  <2> HIDE DEF c
  <2>4. SameOwner(m, z, J, Over(log, f), J) BY <1>1, <1>2, <1>5, <2>2, OneFile DEF SameOwner
  <2> QED BY <2>3, <2>4
<1> QED BY <1>5, <1>6 DEF Memory, z

(* A checkpoint leaves what is remembered, and what is seen.                *)
LEMMA MemoryCheckpoint ==
  ASSUME NEW m, NEW st, NEW log, NEW h, NEW op, NEW lk, NEW I, NEW J, Good(m, st, log, h, op, lk, I, J),
         NEW sv, NEW tc, Memory(m, st, log, h, I, J, sv, tc), log # <<>>, NEW e, e = Overlay(h.cur, Head(log))
  PROVE  /\ Memory(m, st, Tail(log), Settled(e), I, J, sv, tc)
         /\ \A tr : TreeIs(At(st, log, h), I, tr) => TreeIs(At(st, Tail(log), Settled(e)), I, tr)
<1> DEFINE a == At(st, log, h)
           c == Over(log, h.cur)
           z == At(st, Tail(log), Settled(e))
           d == Over(Tail(log), e)
<1>1. /\ HomeOK(m, h) /\ StorageOK(a) /\ LogOK(log) /\ RegionOK(h)
      /\ IsImage(h, h.cur) /\ h.cur = [b \in Device |-> h.cur[b]]
      /\ Consistent(a, I, lk) /\ StorageOK(c) /\ DurableOK(m, c, lk, J)
  BY GoodParts
<1>2. e = [b \in Device |-> e[b]] /\ \A b \in Device : R(z, b) = R(a, b) BY <1>1, CheckpointReads
<1>3. \A b \in Device : R(d, b) = R(c, b) BY <1>1, CheckpointOver
<1>4. Remembers(m, c, J, sv, tc) /\ SameOwner(m, a, I, c, J) BY <1>1 DEF Memory
<1>5. Naming(I) /\ Naming(J) BY <1>1 DEF DurableOK, Consistent, Sound
<1> HIDE DEF a, c, z, d
<1>6. /\ \A p, b : FileOf(z, I, p, b) <=> FileOf(a, I, p, b)
      /\ \A tr : TreeIs(a, I, tr) => TreeIs(z, I, tr)
  BY <1>1, <1>2, <1>5, SameReadsSee
<1>7. /\ \A p, b : FileOf(d, J, p, b) <=> FileOf(c, J, p, b)
      /\ Remembers(m, d, J, sv, tc)
  BY <1>1, <1>3, <1>4, <1>5, SameReadsSee
<1>8. SameOwner(m, z, I, d, J) BY <1>4, <1>6, <1>7 DEF SameOwner
<1>9. ASSUME NEW g, IsImage(Settled(e), g)
      PROVE  Remembers(m, Over(Tail(log), g), J, sv, tc) /\ SameOwner(m, z, I, Over(Tail(log), g), J)
  <2>1. g = e BY <1>2, <1>9, SettledImage
  <2> QED BY <1>7, <1>8, <2>1 DEF d
<1>10. Memory(m, st, Tail(log), Settled(e), I, J, sv, tc) BY <1>9 DEF Memory, z
<1> QED BY <1>6, <1>10 DEF a, z

(* A crash brings back what is remembered.                                  *)
LEMMA MemoryCrash ==
  ASSUME NEW m, NEW st, NEW log, NEW h, NEW op, NEW lk, NEW I, NEW J, Good(m, st, log, h, op, lk, I, J),
         NEW sv, NEW tc, Memory(m, st, log, h, I, J, sv, tc), NEW f, IsImage(h, f),
         NEW g, g = [b \in Device |-> R(Over(log, f), b)]
  PROVE  /\ Remembers(m, Over(<<>>, g), J, sv, tc)
         /\ \A tr : TreeIs(Over(<<>>, g), J, tr) => Memory(m, <<>>, <<>>, Settled(g), J, J, tr, {})
<1> DEFINE c == Over(log, f)
           d == Over(<<>>, g)
<1>1. StorageOK(c) /\ DurableOK(m, c, lk, J) BY GoodParts
<1>2. Remembers(m, c, J, sv, tc) BY DEF Memory
<1> HIDE DEF c
<1>3. g = [b \in Device |-> R(c, b)] BY DEF c
<1>4. g = [b \in Device |-> g[b]] /\ \A b \in Device : g[b] = R(c, b) BY <1>3
<1>5. \A b \in Device : ContentOK(b, g[b]) BY <1>1, <1>4, ReadTyped DEF StorageOK
<1>6. StorageOK(d)
  <2>1. LogOK(<<>>) BY EmptyLog
  <2> QED BY <1>4, <1>5, <2>1, OverStorage
<1>7. \A b \in Device : R(d, b) = R(c, b) BY <1>4, EmptyLog
<1>8. Consistent(c, J, lk) /\ Naming(J) BY <1>1 DEF DurableOK, Consistent, Sound
<1> HIDE DEF d
<1>9. Remembers(m, d, J, sv, tc) BY <1>1, <1>2, <1>7, <1>8, SameReadsSee
<1>10. Sound(d, J) BY <1>1, <1>7, <1>8, SameReads DEF Consistent
<1>11. ASSUME NEW tr, TreeIs(d, J, tr) PROVE Memory(m, <<>>, <<>>, Settled(g), J, J, tr, {})
  BY <1>4, <1>6, <1>10, <1>11, MemorySettled DEF d
<1> QED BY <1>9, <1>11 DEF d

(* A block of B that belongs to a file belongs to the one at r.             *)
OnlyOf(s, J, B, r) == \A p, b : b \in B /\ FileOf(s, J, p, b) => p = r

(* Data written to blocks that are free in what is committed, or belong to  *)
(* the file at r, is not seen in any other file.                            *)
LEMMA WrittenNodes ==
  ASSUME NEW log, NEW e, e = [b \in Device |-> e[b]], NEW f, f = [b \in Device |-> f[b]],
         StorageOK(Over(log, e)), NEW B \in SUBSET DataBlocks, \A b \in Device : e[b] = f[b] \/ b \in B,
         NEW J, Sound(Over(log, e), J), NEW r, OnlyOf(Over(log, e), J, B, r)
  PROVE  /\ \A ino : logfs_inode_read(Over(log, f), ino) = logfs_inode_read(Over(log, e), ino)
         /\ \A p \in DOMAIN J : p # r => Node(Over(log, f), J[p]) = Node(Over(log, e), J[p])
<1> DEFINE c == Over(log, e)
           d == Over(log, f)
<1>1. \A b \in Device : e[b] = f[b] => R(d, b) = R(c, b) BY ReadOver
<1>2. /\ StorageOK(c) /\ Sound(c, J) /\ \A p, b : b \in B /\ FileOf(c, J, p, b) => p = r
  BY DEF OnlyOf
<1> HIDE DEF c, d
<1>3. \A ino : logfs_inode_read(d, ino) = logfs_inode_read(c, ino)
  <2>1. \A b \in Table : R(d, b) = R(c, b) BY <1>1, Layout
  <2> QED BY <2>1, InodesSame
<1>4. ASSUME NEW p \in DOMAIN J, p # r PROVE Node(d, J[p]) = Node(c, J[p])
  <2>1. J[p] \in Inodes BY <1>2 DEF Sound, Naming
  <2>2. ASSUME logfs_inode_read(c, J[p]).type = "file", NEW k \in Ks, Ptr(c, J[p], k) # 0
        PROVE  R(d, Ptr(c, J[p], k)) = R(c, Ptr(c, J[p], k))
    <3> DEFINE b == Ptr(c, J[p], k)
    <3>1. FileOf(c, J, p, b) BY <2>2 DEF FileOf
    <3> HIDE DEF b
    <3>2. b \in DataBlocks /\ b \notin B BY <1>2, <1>4, <3>1, OneFile
    <3>3. b \in Device BY <3>2, Layout
    <3>4. R(d, b) = R(c, b) BY <1>1, <3>2, <3>3
    <3> QED BY <3>4 DEF b
  <2>3. SameNode(c, d, J[p]) BY <1>3, <2>2 DEF SameNode, Ptr
  <2> QED BY <1>2, <2>1, <2>3, SameNodeNode
<1> QED BY <1>3, <1>4 DEF c, d

(* A write that reuses no block leaves what is remembered, but for the data *)
(* of the file it writes.                                                   *)
LEMMA MemoryWrite ==
  ASSUME NEW st, NEW log, NEW h, NEW op, NEW lk \in BOOLEAN, NEW I, NEW J,
         Good(mode, st, log, h, op, lk, I, J), NEW sv, NEW tc, Memory(mode, st, log, h, I, J, sv, tc),
         NEW s, SameStore(At(st, log, h), s), NEW r \in DOMAIN I, NEW ino, ino = I[r], LiveFile(s, I, ino),
         NEW t, WriteOK(s, t, I, logfs_inode_read(s, ino), lk), NoReuse(t, log, h),
         NEW offset, NEW size, NEW v, WriteShows(s, t, I, ino, offset, size, v)
  PROVE  Memory(mode, t.staged, log, t.home, I, J, sv, tc \cup {r})
<1> DEFINE a == At(st, log, h)
           z == At(t.staged, log, t.home)
           in == logfs_inode_read(s, ino)
           B == Mine(in, t.fresh)
<1>1. /\ HomeOK(mode, h) /\ IsImage(h, h.cur) /\ LogOK(log)
      /\ \A f : IsImage(h, f) => /\ StorageOK(Over(log, f))
                                 /\ DurableOK(mode, Over(log, f), lk, J)
  <2>1. Good(mode, st, log, h, op, lk, I, J) OBVIOUS
  <2> QED BY ONLY <2>1, GoodParts
<1>2. a.home = h /\ a.logged = log BY AtFields
<1>3. /\ StorageOK(t) /\ t.logged = log /\ t.fresh \subseteq DataBlocks
      /\ HomeGrows(h, t.home, B) /\ (mode = "journal" => t.home = h)
  BY <1>2 DEF WriteOK, SameStore
<1>4. SameStore(t, z) BY <1>3, AtStorage
<1>5. SameStore(a, s) OBVIOUS
<1> HIDE DEF a, z
<1>6. \A p, b : FileOf(z, I, p, b) => FileOf(t, I, p, b) BY <1>4, SameStoreReads, FileOfSame
<1>7. \A p, b : FileOf(s, I, p, b) => FileOf(a, I, p, b) BY <1>5, SameStoreReads, FileOfSame
<1>8. ASSUME NEW p, NEW b, FileOf(z, I, p, b) PROVE FileOf(a, I, p, b) \/ b \in t.fresh
  <2>1. FileOf(t, I, p, b) BY <1>6, <1>8
  <2>2. p \in DOMAIN I BY <2>1 DEF FileOf
  <2>3. CASE p = r
    <3>1. \A k \in Ks : Ptr(t, ino, k) = Ptr(s, ino, k) \/ Ptr(t, ino, k) \in t.fresh BY DEF WriteShows
    <3>2. FileOf(s, I, p, b) \/ b \in t.fresh BY <2>1, <2>3, <3>1 DEF FileOf, LiveFile
    <3> QED BY <1>7, <3>2
  <2>4. CASE p # r
    <3>1. SameNode(s, t, I[p]) BY <2>2, <2>4 DEF WriteShows, OthersSame
    <3>2. FileOf(s, I, p, b) BY <2>1, <3>1 DEF FileOf, SameNode, Ptr
    <3> QED BY <1>7, <3>2
  <2> QED BY <2>3, <2>4
<1>9. \A b \in B : FileOf(a, I, r, b) \/ b \in t.fresh
  <2> TAKE b \in B
  <2>1. b \in t.fresh \/ \E k \in Ks : in.blocks[k] = b BY DEF Mine
  <2>2. b # 0
    <3>1. b \in DataBlocks BY DEF Mine
    <3> QED BY <3>1, Layout
  <2>3. b \in t.fresh \/ FileOf(s, I, r, b) BY <2>1, <2>2 DEF FileOf, LiveFile, Ptr
  <2> QED BY <1>7, <2>3
<1>10. B \in SUBSET DataBlocks BY DEF Mine
<1> HIDE DEF B
<1>11. ASSUME NEW f, IsImage(t.home, f)
       PROVE  /\ Remembers(mode, Over(log, f), J, sv, tc \cup {r})
              /\ SameOwner(mode, z, I, Over(log, f), J)
  <2>1. CASE mode = "journal"
    <3>1. IsImage(h, f) BY <1>3, <1>11, <2>1
    <3>2. Remembers(mode, Over(log, f), J, sv, tc) BY <3>1 DEF Memory
    <3> QED BY <2>1, <3>2 DEF Remembers, SameOwner
  <2>2. CASE mode # "journal"
    <3>1. PICK e : /\ IsImage(h, e)
                   /\ \A b \in Device : e[b] = f[b] \/ (f[b] \in FileContent /\ b \in B)
      BY <1>1, <1>3, <1>11, OlderImage
    <3> DEFINE c == Over(log, e)
               d == Over(log, f)
    <3>12. e = [b \in Device |-> e[b]] BY <3>1 DEF IsImage
    <3>2. /\ Remembers(mode, c, J, sv, tc) /\ SameOwner(mode, a, I, c, J)
          /\ StorageOK(c) /\ DurableOK(mode, c, lk, J)
      BY <1>1, <3>1 DEF Memory, a
    <3>3. f = [b \in Device |-> f[b]] BY <1>11 DEF IsImage
    <3>4. BB(c) = BB(Over(log, h.cur)) BY <1>1, <3>1, ImagesAgree
    <3>5. Sound(c, J) BY <3>2 DEF DurableOK, Consistent
    <3>6. ASSUME NEW p, NEW b, FileOf(c, J, p, b) PROVE b \notin t.fresh /\ (FileOf(a, I, r, b) => p = r)
      <4>1. b \in BB(c)
        <5> HIDE DEF c
        <5> QED BY <3>2, <3>5, <3>6, OneFile
      <4>2. b \notin t.fresh BY <2>2, <3>4, <4>1 DEF NoReuse
      <4>3. FileOf(a, I, r, b) => p = r
        <5> HIDE DEF c
        <5> QED BY <2>2, <3>2, <3>6 DEF SameOwner
      <4> QED BY <4>2, <4>3
    <3>7. OnlyOf(c, J, B, r) BY <1>9, <3>6 DEF OnlyOf
    <3>8. /\ \A i : logfs_inode_read(d, i) = logfs_inode_read(c, i)
          /\ \A p \in DOMAIN J : p # r => Node(d, J[p]) = Node(c, J[p])
      <4>1. /\ e = [b \in Device |-> e[b]] /\ StorageOK(Over(log, e))
            /\ \A b \in Device : e[b] = f[b] \/ b \in B
        BY <3>1, <3>2, <3>12
      <4>2. Sound(Over(log, e), J) /\ OnlyOf(Over(log, e), J, B, r)
        BY <3>5, <3>7
      <4> QED BY ONLY <1>10, <3>3, <4>1, <4>2, WrittenNodes
    <3> HIDE DEF c, d
    <3>9. Remembers(mode, d, J, sv, tc \cup {r}) BY <2>2, <3>2, <3>8 DEF Remembers
    <3>10. \A p, b : FileOf(d, J, p, b) => FileOf(c, J, p, b) BY <3>8, FileOfSame
    <3>11. SameOwner(mode, z, I, d, J)
      <4> SUFFICES ASSUME NEW p, NEW q, NEW b, FileOf(z, I, p, b), FileOf(d, J, q, b) PROVE q = p
        BY DEF SameOwner
      <4>1. FileOf(c, J, q, b) BY <3>10
      <4>2. b \notin t.fresh BY <3>6, <4>1
      <4>3. FileOf(a, I, p, b) BY <1>8, <4>2
      <4> QED BY <2>2, <3>2, <4>1, <4>3 DEF SameOwner
    <3> QED BY <3>9, <3>11 DEF d
  <2> QED BY <2>1, <2>2
<1> QED BY <1>11 DEF Memory, z

-----------------------------------------------------------------------------
(* The steps of the specification. *)

(* None of the conditions under which the code may break the structure:     *)
(* ordered data over a block with a journaled copy or a committed owner, an *)
(* error half-way through mkdir, rmdir or truncate, unlink of an open file, *)
(* and a dropped generation under open files.                               *)
FsQuiet == {"reuse", "halfway", "openUnlink", "dropped"} \cap Conditions = {}

(* The inductive invariant, of the variables.                               *)
GoodNow(I, J) == Good(mode, staged, logged, home, open, leaky, I, J)

(* A callback that begins sees the consistent structure of the running      *)
(* system, and finds paths and inodes as Now does.                          *)
LEMMA Begins ==
  ASSUME NEW I, NEW J, GoodNow(I, J), NEW fail, NEW t, t = Begin(fail)
  PROVE  /\ StorageOK(t) /\ t.rc = "ok" /\ t.fresh = {} /\ Consistent(t, I, leaky) /\ Sound(t, I)
         /\ SameStore(At(staged, logged, home), t)
         /\ t.staged = staged /\ t.logged = logged /\ t.home = home
         /\ \A ino : logfs_inode_read(t, ino) = logfs_inode_read(Now, ino)
         /\ \A ino \in open : LiveFile(t, I, ino)
         /\ \A p \in Seq(Names) : logfs_path_lookup(t, p) = logfs_path_lookup(Now, p)
         /\ Sound(Now, I) /\ StorageOK(Now)
<1> DEFINE a == At(staged, logged, home)
<1>1. a = Now BY DEF At, Now, Begin
<1>2. StorageOK(a) /\ Consistent(a, I, leaky) /\ \A ino \in open : LiveFile(a, I, ino)
  BY GoodParts DEF GoodNow
<1>3. /\ IsCall(t) /\ t.rc = "ok" /\ t.fresh = {}
      /\ t.staged = staged /\ t.logged = logged /\ t.home = home
  BY DEF Begin, IsCall
<1>4. a.staged = staged /\ a.logged = logged /\ a.home = home BY AtFields
<1> HIDE DEF a
<1>5. SameStore(a, t) BY <1>3, <1>4 DEF SameStore
<1>6. StorageOK(t) BY <1>2, <1>3, <1>4 DEF StorageOK
<1>7. Consistent(t, I, leaky) /\ \A ino \in open : LiveFile(t, I, ino) BY <1>2, <1>5, SameStoreConsistent
<1>8. \A ino : logfs_inode_read(t, ino) = logfs_inode_read(a, ino) BY <1>5, SameStoreReads
<1>9. Sound(t, I) /\ Sound(a, I) BY <1>2, <1>7 DEF Consistent
<1>10. \A p \in Seq(Names) : logfs_path_lookup(t, p) = logfs_path_lookup(a, p) BY <1>9, PathLookup
<1> QED BY <1>1, <1>2, <1>3, <1>5, <1>6, <1>7, <1>8, <1>9, <1>10 DEF a

(* What the histories remember, of the variables.                           *)
MemoryNow(I, J) == Memory(mode, staged, logged, home, I, J, saved, touched)

(* The step ends with what a walk sees.                                     *)
Sees == tree' = TreeOf(At(staged', logged', home'))

(* A failed commit or a crash has taken the tree back to what is saved.     *)
Undone == (CommitFails \/ Crash) /\ Tree!Revert /\ mode' = mode

(* The step is one of the abstract tree, if it exposes no old bytes.        *)
TreeStep == "expose" \notin Conditions /\ Sees => [Tree!Forward]_(Tree!vars) \/ Undone

(* What a step has to establish.                                            *)
StepOK(I, J) == GoodNow(I, J)' /\ MemoryNow(I, J)' /\ TreeStep

(* A tree that is left alone.                                               *)
LEMMA TreeStutters ==
  ASSUME UNCHANGED <<mode, saved, touched>>, Sees => tree' = tree
  PROVE  TreeStep
BY DEF TreeStep, Tree!vars

(* The steps of the tree that add or remove a name.                         *)
LEMMA TreeNames ==
  ASSUME NEW p \in Paths, mode' = mode,
         Sees => Tree!Add(p, Tree!Dir) \/ Tree!Add(p, Tree!File(<<>>)) \/ Tree!Delete(p)
  PROVE  TreeStep
BY DEF TreeStep, Tree!Forward, Tree!Call, Tree!Mkdir, Tree!Create

(* What a walk sees is the tree of the naming.                              *)
LEMMA SeenAs ==
  ASSUME NEW s, NEW z, StorageOK(z), SameStore(s, z), NEW I, NEW lk, Consistent(s, I, lk),
         NEW tr, tr = TreeOf(z)
  PROVE  TreeIs(s, I, tr)
<1>1. Consistent(z, I, lk) BY SameStoreConsistent
<1>2. Sound(z, I) /\ Naming(I) BY <1>1 DEF Consistent, Sound
<1>3. TreeIs(z, I, tr) BY <1>2, TreeNodes
<1>4. \A b \in Device : R(s, b) = R(z, b) BY SameStoreReads
<1> QED BY <1>2, <1>3, <1>4, SameReadsSee

(* What the end of an operation leaves to show: the abstract step.          *)
OpDone(t, s, I, I2, J) ==
  /\ GoodNow(I2, J)' /\ MemoryNow(I2, J)'
  /\ TreeIs(t, I, tree) /\ (Sees => TreeIs(s, I2, tree'))
  /\ UNCHANGED <<mode, saved, touched>>

(* The end of an operation that leaves the device alone and adds no block   *)
(* to a file.                                                               *)
LEMMA FinishOp ==
  ASSUME leaky \in BOOLEAN, NEW I, NEW J, GoodNow(I, J), MemoryNow(I, J), tree = TreeOf(Now),
         NEW fail, NEW t, t = Begin(fail),
         NEW s, NEW I2, NEW gone, NEW more \in BOOLEAN, leaky' = more, leaky => more,
         OpOK(t, s, I, I2, more, gone), FilesKept(t, s, I, I2), Finish(s), touched' = touched,
         \A ino \in open' : LiveFile(s, I2, ino)
  PROVE  OpDone(t, s, I, I2, J)
<1>1. SameStore(At(staged, logged, home), t) /\ t.home = home /\ Consistent(t, I, leaky) BY Begins
<1>2. Good(mode, s.staged, logged, home, open', more, I2, J) BY <1>1, GoodOp DEF GoodNow
<1>3. s.home = home /\ s.logged = logged /\ Consistent(s, I2, more)
  BY <1>1, AtFields DEF OpOK, Stable, SameStore
<1>4. mode' = mode /\ staged' = s.staged /\ logged' = logged /\ home' = home /\ saved' = saved
  BY <1>3 DEF Finish
<1>5. Good(mode', staged', logged', home', open', leaky', I2, J) BY <1>2, <1>4
<1>6. GoodNow(I2, J)' BY <1>5 DEF GoodNow
<1>7. Memory(mode, s.staged, logged, home, I2, J, saved, touched)
  <2>1. Memory(mode, staged, logged, home, I, J, saved, touched) BY DEF MemoryNow
  <2> QED BY ONLY <1>1, <1>3, <2>1, FilesKept(t, s, I, I2), MemoryOp
<1>8. MemoryNow(I2, J)' BY <1>4, <1>7 DEF MemoryNow
<1>9. TreeIs(t, I, tree)
  <2>1. Now = At(staged, logged, home) BY DEF At, Now, Begin
  <2>2. Good(mode, staged, logged, home, open, leaky, I, J) BY DEF GoodNow
  <2>3. StorageOK(At(staged, logged, home)) BY <2>2, GoodParts
  <2>4. SameStore(t, At(staged, logged, home)) BY <1>1 DEF SameStore
  <2> QED BY <1>1, <2>1, <2>3, <2>4, SeenAs
<1>10. ASSUME Sees PROVE TreeIs(s, I2, tree')
  <2> DEFINE z == At(staged', logged', home')
  <2>1. StorageOK(z) BY <1>5, GoodParts
  <2>2. SameStore(s, z) BY <1>3, <1>4, AtFields DEF SameStore
  <2>3. tree' = TreeOf(z) BY <1>10 DEF Sees
  <2> HIDE DEF z
  <2> QED BY <1>3, <2>1, <2>2, <2>3, SeenAs
<1> QED BY <1>4, <1>6, <1>8, <1>9, <1>10 DEF OpDone

(* An operation is counted as leaky exactly if it ends with an error.       *)
LEMMA FinishLeaky ==
  ASSUME leaky \in BOOLEAN, NEW s, Finish(s)
  PROVE  /\ leaky' \in BOOLEAN /\ (leaky => leaky')
         /\ s.rc = "ok" => leaky' = leaky
         /\ s.rc # "ok" => leaky' = TRUE
BY DEF Finish

(* The end of an operation that does not open files either.                 *)
LEMMA OpStep ==
  ASSUME leaky \in BOOLEAN, NEW I, NEW J, GoodNow(I, J), MemoryNow(I, J), tree = TreeOf(Now),
         NEW fail, NEW t, t = Begin(fail),
         NEW s, NEW I2, NEW gone, OpOK(t, s, I, I2, leaky', gone), FilesKept(t, s, I, I2), Finish(s),
         touched' = touched, open' = open, \A ino \in open : ino \notin gone
  PROVE  OpDone(t, s, I, I2, J)
<1>1. leaky' \in BOOLEAN /\ (leaky => leaky') BY FinishLeaky
<1>2. \A ino \in open : LiveFile(t, I, ino) BY Begins
<1>3. \A ino \in open' : LiveFile(s, I2, ino) BY <1>2 DEF OpOK, Kept
<1> QED BY <1>1, <1>3, FinishOp

(* An operation that changes nothing a walk sees.                           *)
LEMMA OpHidden ==
  ASSUME NEW t, StorageOK(t), NEW s, NEW I, Naming(I), NEW J, OpDone(t, s, I, I, J), SameNodes(t, s, I)
  PROVE  StepOK(I, J)
<1>1. UNCHANGED <<mode, saved, touched>> /\ TreeIs(t, I, tree) BY DEF OpDone
<1>2. Sees => tree' = tree
  <2>1. SUFFICES ASSUME Sees PROVE tree' = tree OBVIOUS
  <2>2. TreeIs(s, I, tree') BY <2>1 DEF OpDone
  <2> QED BY <1>1, <2>2, SameTree
<1>3. TreeStep BY <1>1, <1>2, TreeStutters
<1> QED BY <1>3 DEF OpDone, StepOK

(* An operation that adds a name.                                           *)
LEMMA OpAdds ==
  ASSUME NEW t, StorageOK(t), NEW s, NEW I, Naming(I), NEW q \in Paths, Front(q) \in DOMAIN I,
         IsDir(t, I[Front(q)]), NEW I2, NEW n, IsExt(I, I2, q, n), SameNodes(t, s, I),
         IsDir(s, n) \/ logfs_inode_read(s, n) = NewFile,
         NEW J, OpDone(t, s, I, I2, J)
  PROVE  StepOK(I2, J)
<1>1. UNCHANGED <<mode, saved, touched>> /\ TreeIs(t, I, tree) BY DEF OpDone
<1>2. Node(s, n) = Tree!Dir \/ Node(s, n) = Tree!File(<<>>)
  <2>1. CASE IsDir(s, n) BY <2>1 DEF IsDir, Node, Tree!Dir
  <2>2. CASE logfs_inode_read(s, n) = NewFile
    <3>1. logfs_inode_read(s, n).type = "file" /\ logfs_inode_read(s, n).size = 0 BY <2>2 DEF NewFile
    <3> DEFINE data == logfs_op_read(s, n)
    <3>2. data = [i \in 1 .. 0 |-> Byte(s, logfs_inode_read(s, n), i)] BY <3>1, NodeData
    <3>4. Node(s, n) = [type |-> "file", data |-> data] BY <3>1 DEF Node
    <3> HIDE DEF data
    <3>3. data = <<>>
      <4>1. DOMAIN data = {} /\ data = [i \in DOMAIN data |-> data[i]] BY <3>2
      <4>2. data \in Seq({}) BY <3>2
      <4> QED BY <4>1, <4>2
    <3> QED BY <3>3, <3>4 DEF Tree!File
  <2> QED BY <2>1, <2>2
<1>3. Sees => Tree!Add(q, Node(s, n))
  <2>1. SUFFICES ASSUME Sees PROVE Tree!Add(q, Node(s, n)) OBVIOUS
  <2>2. TreeIs(s, I2, tree') BY <2>1 DEF OpDone
  <2>3. UNCHANGED <<saved, touched>> BY <1>1
  <2> QED BY <1>1, <2>2, <2>3, AddTree
<1>4. Sees => Tree!Add(q, Tree!Dir) \/ Tree!Add(q, Tree!File(<<>>)) \/ Tree!Delete(q)
  BY <1>2, <1>3
<1>5. TreeStep BY <1>1, <1>4, TreeNames
<1> QED BY <1>5 DEF OpDone, StepOK

(* An operation that removes one.                                           *)
LEMMA OpRemoves ==
  ASSUME NEW t, StorageOK(t), NEW s, NEW I, Naming(I), NEW q \in Paths, q \in DOMAIN I,
         NEW I2, IsCut(I, I2, q), Childless(I, q), SameNodes(t, s, I2), NEW J, OpDone(t, s, I, I2, J)
  PROVE  StepOK(I2, J)
<1>1. UNCHANGED <<mode, saved, touched>> /\ TreeIs(t, I, tree) BY DEF OpDone
<1>2. Sees => Tree!Delete(q)
  <2>1. SUFFICES ASSUME Sees PROVE Tree!Delete(q) OBVIOUS
  <2>2. TreeIs(s, I2, tree') BY <2>1 DEF OpDone
  <2>3. UNCHANGED <<saved, touched>> BY <1>1
  <2> QED BY <1>1, <2>2, <2>3, DeleteTree
<1>3. TreeStep BY <1>1, <1>2, TreeNames
<1> QED BY <1>3 DEF OpDone, StepOK

(* mkdir preserves the invariant, and adds a directory or nothing.          *)
LEMMA MkdirStep ==
  ASSUME FsQuiet, leaky \in BOOLEAN, NEW I, NEW J, GoodNow(I, J), MemoryNow(I, J), tree = TreeOf(Now),
         NEW path \in Paths, Mkdir(path)
  PROVE  \E I2 : StepOK(I2, J)
<1>1. PICK fail : LET s == logfs_op_mkdir(Begin(fail), path) IN
        /\ Finish(s) /\ (s.rc = "EIO" /\ logfs_path_lookup(s, path) # 0 => "halfway" \in Conditions)
        /\ open' = open /\ touched' = touched /\ Creatable(path)
  BY DEF Mkdir, Calls
<1> DEFINE t == Begin(fail)
           s == logfs_op_mkdir(t, path)
<1>2. path \in Seq(Names) /\ Front(path) \in Seq(Names) BY PathFacts
<1>3. /\ StorageOK(t) /\ t.rc = "ok" /\ Consistent(t, I, leaky) /\ Sound(t, I)
      /\ \A ino : logfs_inode_read(t, ino) = logfs_inode_read(Now, ino)
      /\ \A p \in Seq(Names) : logfs_path_lookup(t, p) = logfs_path_lookup(Now, p)
  BY Begins
<1>9. t = Begin(fail) OBVIOUS
<1> HIDE DEF t
<1>4. logfs_path_lookup(t, path) = 0 /\ logfs_inode_read(t, logfs_path_lookup(t, Front(path))).type = "dir"
  BY <1>1, <1>2, <1>3 DEF Creatable
<1>5. /\ s.rc = "ok" => \E I2, n : /\ OpOK(t, s, I, I2, leaky, {})
                                    /\ IsExt(I, I2, path, n) /\ IsDir(s, n) /\ SameNodes(t, s, I)
      /\ s.rc # "ok" => \/ s.rc = "EIO" /\ logfs_path_lookup(s, path) # 0
                        \/ OpOK(t, s, I, I, TRUE, {}) /\ SameNodes(t, s, I)
  BY <1>3, <1>4, MkdirOp
<1> HIDE DEF s
<1>6. /\ Finish(s) /\ (s.rc = "EIO" /\ logfs_path_lookup(s, path) # 0 => "halfway" \in Conditions)
      /\ open' = open /\ touched' = touched
  BY <1>1 DEF s, t
<1>7. ~(s.rc = "EIO" /\ logfs_path_lookup(s, path) # 0) BY <1>6 DEF FsQuiet
<1>8. (s.rc = "ok" => leaky' = leaky) /\ (s.rc # "ok" => leaky' = TRUE) BY <1>6, FinishLeaky
<1>10. Naming(I) BY <1>3 DEF Sound
<1>11. Front(path) \in DOMAIN I /\ IsDir(t, I[Front(path)]) BY <1>3, <1>4, FreePath
<1>12. CASE s.rc = "ok"
  <2>1. PICK I2, n : /\ OpOK(t, s, I, I2, leaky', {})
                     /\ IsExt(I, I2, path, n) /\ IsDir(s, n) /\ SameNodes(t, s, I)
    BY <1>5, <1>8, <1>12
  <2>2. FilesKept(t, s, I, I2) BY <2>1, ExtFiles
  <2>3. OpDone(t, s, I, I2, J) BY <1>6, <1>9, <2>1, <2>2, OpStep
  <2>4. StepOK(I2, J) BY <1>3, <1>10, <1>11, <2>1, <2>3, OpAdds
  <2> QED BY <2>4
<1>13. CASE s.rc # "ok"
  <2>1. OpOK(t, s, I, I, leaky', {}) /\ SameNodes(t, s, I) BY <1>5, <1>7, <1>8, <1>13
  <2>2. FilesKept(t, s, I, I) BY <2>1, PartFiles
  <2>3. OpDone(t, s, I, I, J) BY <1>6, <1>9, <2>1, <2>2, OpStep
  <2>4. StepOK(I, J) BY <1>3, <1>10, <2>1, <2>3, OpHidden
  <2> QED BY <2>4
<1> QED BY <1>12, <1>13

(* A path that leads to a file leads to a live file.                        *)
LEMMA FileAt ==
  ASSUME NEW s, NEW I, Sound(s, I), NEW q \in Paths, logfs_inode_read(s, logfs_path_lookup(s, q)).type = "file"
  PROVE  LiveFile(s, I, logfs_path_lookup(s, q)) /\ logfs_path_lookup(s, q) \in Inodes
<1>1. q \in Seq(Names) BY PathFacts
<1>2. logfs_path_lookup(s, q) = IF q \in DOMAIN I THEN I[q] ELSE 0 BY <1>1, PathLookup
<1>3. logfs_inode_read(s, 0).type # "file" BY DEF logfs_inode_read, Inodes, NoInode
<1>4. q \in DOMAIN I BY <1>2, <1>3
<1>5. I[q] \in Inodes BY <1>4 DEF Sound, Naming
<1> QED BY <1>2, <1>4, <1>5 DEF LiveFile

(* rmdir preserves the invariant, and removes a directory without children. *)
LEMMA RmdirStep ==
  ASSUME FsQuiet, leaky \in BOOLEAN, NEW I, NEW J, GoodNow(I, J), MemoryNow(I, J), tree = TreeOf(Now),
         NEW path \in Paths, Rmdir(path)
  PROVE  \E I2 : StepOK(I2, J)
<1>1. PICK fail : LET s == logfs_op_rmdir(Begin(fail), path) IN
        Finish(s) /\ (s.rc = "EIO" => "halfway" \in Conditions) /\ open' = open /\ touched' = touched
  BY DEF Rmdir, Calls
<1> DEFINE t == Begin(fail)
           s == logfs_op_rmdir(t, path)
<1>2. /\ StorageOK(t) /\ t.rc = "ok" /\ Consistent(t, I, leaky) /\ Sound(t, I)
      /\ t.staged = staged /\ t.home = home
  BY Begins
<1>3. t = Begin(fail) OBVIOUS
<1> HIDE DEF t
<1>4. /\ s.rc = "ok" => \E I2 : /\ OpOK(t, s, I, I2, leaky, {}) /\ SameNodes(t, s, I2)
                                /\ path \in DOMAIN I /\ IsCut(I, I2, path) /\ Childless(I, path)
      /\ s.rc \in {"ok", "EIO"} \/ (s.staged = t.staged /\ s.home = t.home)
  BY <1>2, RmdirOp
<1>5. Finish(s) /\ (s.rc = "EIO" => "halfway" \in Conditions) /\ open' = open /\ touched' = touched
  BY <1>1 DEF t
<1> HIDE DEF s
<1>6. s.rc = "ok" BY <1>2, <1>4, <1>5 DEF FsQuiet, Finish
<1>7. leaky' = leaky BY <1>5, <1>6, FinishLeaky
<1>8. PICK I2 : /\ OpOK(t, s, I, I2, leaky', {}) /\ SameNodes(t, s, I2)
                /\ path \in DOMAIN I /\ IsCut(I, I2, path) /\ Childless(I, path)
  BY <1>4, <1>6, <1>7
<1>9. FilesKept(t, s, I, I2)
  <2>1. \A p \in DOMAIN I2 : p \in DOMAIN I /\ I2[p] = I[p] BY <1>8 DEF IsCut
  <2> QED BY <1>8, <2>1, PartFiles
<1>10. OpDone(t, s, I, I2, J) BY <1>3, <1>5, <1>8, <1>9, OpStep
<1>11. Naming(I) BY <1>2 DEF Sound
<1>12. StepOK(I2, J) BY <1>2, <1>8, <1>10, <1>11, OpRemoves
<1> QED BY <1>12

(* create preserves the invariant, and adds an empty file or nothing; the   *)
(* handle it returns is of a live file.                                     *)
LEMMA CreateStep ==
  ASSUME leaky \in BOOLEAN, NEW I, NEW J, GoodNow(I, J), MemoryNow(I, J), tree = TreeOf(Now),
         NEW path \in Paths, Create(path)
  PROVE  \E I2 : StepOK(I2, J)
<1>1. PICK fail : LET s == logfs_op_create(Begin(fail), path) IN
        /\ Finish(s) /\ (open' = IF s.rc = "ok" THEN open \cup {s.out} ELSE open)
        /\ touched' = touched /\ Creatable(path)
  BY DEF Create, Calls
<1> DEFINE t == Begin(fail)
           s == logfs_op_create(t, path)
<1>2. path \in Seq(Names) /\ Front(path) \in Seq(Names) BY PathFacts
<1>3. /\ StorageOK(t) /\ t.rc = "ok" /\ Consistent(t, I, leaky) /\ Sound(t, I)
      /\ \A ino : logfs_inode_read(t, ino) = logfs_inode_read(Now, ino)
      /\ \A ino \in open : LiveFile(t, I, ino)
      /\ \A p \in Seq(Names) : logfs_path_lookup(t, p) = logfs_path_lookup(Now, p)
  BY Begins
<1>4. t = Begin(fail) OBVIOUS
<1> HIDE DEF t
<1>5. logfs_path_lookup(t, path) = 0 /\ logfs_inode_read(t, logfs_path_lookup(t, Front(path))).type = "dir"
  BY <1>1, <1>2, <1>3 DEF Creatable
<1>6. /\ s.rc = "ok" => \E I2, n : /\ OpOK(t, s, I, I2, leaky, {}) /\ LiveFile(s, I2, s.out)
                                    /\ IsExt(I, I2, path, n) /\ logfs_inode_read(s, n) = NewFile
                                    /\ SameNodes(t, s, I)
      /\ s.rc # "ok" => OpOK(t, s, I, I, TRUE, {}) /\ SameNodes(t, s, I)
  <2>1. StorageOK(t) /\ t.rc = "ok" /\ Consistent(t, I, leaky) BY <1>3
  <2> QED BY ONLY <1>5, <2>1, leaky \in BOOLEAN, path \in Paths, CreateOp
<1>7. /\ Finish(s) /\ (open' = IF s.rc = "ok" THEN open \cup {s.out} ELSE open) /\ touched' = touched
  BY <1>1 DEF t
<1> HIDE DEF s
<1>8. leaky' \in BOOLEAN /\ (leaky => leaky') /\ (s.rc = "ok" => leaky' = leaky) /\ (s.rc # "ok" => leaky' = TRUE)
  BY <1>7, FinishLeaky
<1>9. Naming(I) BY <1>3 DEF Sound
<1>10. Front(path) \in DOMAIN I /\ IsDir(t, I[Front(path)]) BY <1>3, <1>5, FreePath
<1>11. CASE s.rc = "ok"
  <2>1. PICK I2, n : /\ OpOK(t, s, I, I2, leaky', {}) /\ LiveFile(s, I2, s.out)
                     /\ IsExt(I, I2, path, n) /\ logfs_inode_read(s, n) = NewFile
                     /\ SameNodes(t, s, I)
    BY <1>6, <1>8, <1>11
  <2>2. \A ino \in open' : LiveFile(s, I2, ino) BY <1>3, <1>7, <1>11, <2>1 DEF OpOK, Kept
  <2>3. FilesKept(t, s, I, I2) BY <2>1, ExtFiles
  <2>4. OpDone(t, s, I, I2, J) BY <1>4, <1>7, <1>8, <2>1, <2>2, <2>3, FinishOp
  <2>5. StepOK(I2, J) BY <1>3, <1>9, <1>10, <2>1, <2>4, OpAdds
  <2> QED BY <2>5
<1>12. CASE s.rc # "ok"
  <2>1. OpOK(t, s, I, I, leaky', {}) /\ SameNodes(t, s, I) BY <1>6, <1>8, <1>12
  <2>2. FilesKept(t, s, I, I) BY <2>1, PartFiles
  <2>3. OpDone(t, s, I, I, J) BY <1>4, <1>7, <1>12, <2>1, <2>2, OpStep
  <2>4. StepOK(I, J) BY <1>3, <1>9, <2>1, <2>3, OpHidden
  <2> QED BY <2>4
<1> QED BY <1>11, <1>12

(* unlink preserves the invariant, and removes a file or nothing; files     *)
(* that are open stay live.                                                 *)
LEMMA UnlinkStep ==
  ASSUME FsQuiet, leaky \in BOOLEAN, NEW I, NEW J, GoodNow(I, J), MemoryNow(I, J), tree = TreeOf(Now),
         NEW path \in Paths, Unlink(path)
  PROVE  \E I2 : StepOK(I2, J)
<1> DEFINE ino == logfs_path_lookup(Now, path)
<1>1. PICK fail : Finish(logfs_op_unlink(Begin(fail), path))
  BY DEF Unlink, Calls
<1>2. open' = open /\ touched' = touched /\ ino \notin open /\ logfs_inode_read(Now, ino).type = "file"
  BY DEF Unlink, IsFile, FsQuiet
<1> DEFINE t == Begin(fail)
           s == logfs_op_unlink(t, path)
<1>3. path \in Seq(Names) BY PathFacts
<1>4. /\ StorageOK(t) /\ t.rc = "ok" /\ Consistent(t, I, leaky) /\ Sound(t, I)
      /\ \A j : logfs_inode_read(t, j) = logfs_inode_read(Now, j)
      /\ \A p \in Seq(Names) : logfs_path_lookup(t, p) = logfs_path_lookup(Now, p)
  BY Begins
<1>5. t = Begin(fail) OBVIOUS
<1> HIDE DEF t
<1>6. logfs_path_lookup(t, path) = ino /\ logfs_inode_read(t, logfs_path_lookup(t, path)).type = "file"
  BY <1>2, <1>3, <1>4
<1> HIDE DEF ino
<1>7. \E I2 : /\ OpOK(t, s, I, I2, leaky \/ s.rc # "ok", {logfs_path_lookup(t, path)})
              /\ SameNodes(t, s, I2)
              /\ I2 = I \/ (IsCut(I, I2, path) /\ Childless(I, path))
  BY <1>4, <1>6, UnlinkOp
<1>8. Finish(s) BY <1>1 DEF t
<1> HIDE DEF s
<1>9. PICK I2 : /\ OpOK(t, s, I, I2, leaky \/ s.rc # "ok", {ino}) /\ SameNodes(t, s, I2)
                /\ I2 = I \/ (IsCut(I, I2, path) /\ Childless(I, path))
  BY <1>6, <1>7
<1>10. leaky' = (leaky \/ s.rc # "ok") BY <1>8 DEF Finish
<1>11. OpOK(t, s, I, I2, leaky', {ino}) BY <1>9, <1>10
<1>12. FilesKept(t, s, I, I2)
  <2>1. \A p \in DOMAIN I2 : p \in DOMAIN I /\ I2[p] = I[p] BY <1>9 DEF IsCut
  <2> QED BY <1>9, <2>1, PartFiles
<1>13. OpDone(t, s, I, I2, J) BY <1>2, <1>5, <1>8, <1>11, <1>12, OpStep
<1>14. Naming(I) BY <1>4 DEF Sound
<1>15. CASE I2 = I
  <2>1. StepOK(I, J) BY <1>4, <1>9, <1>13, <1>14, <1>15, OpHidden
  <2> QED BY <2>1
<1>16. CASE IsCut(I, I2, path) /\ Childless(I, path)
  <2>1. path \in DOMAIN I
    <3>1. ino # 0 BY <1>4, <1>6 DEF logfs_inode_read, Inodes, NoInode
    <3> QED BY <1>3, <1>4, <1>6, <3>1, PathLookup
  <2>2. StepOK(I2, J) BY <1>4, <1>9, <1>13, <1>14, <1>16, <2>1, OpRemoves
  <2> QED BY <2>2
<1> QED BY <1>9, <1>15, <1>16

(* The guard of Write and Truncate, in terms of what the call began with.   *)
LEMMA NotExposed ==
  ASSUME NEW fail, NEW t, t = Begin(fail), NEW s, NEW ino, NEW first, NEW last, ~Exposes(s, ino, first, last)
  PROVE  Shown(t, s, ino, first, last)
<1>1. SameStore(Now, t) BY DEF SameStore, Now, Begin
<1>2. \A b : R(t, b) = R(Now, b) BY <1>1, SameStoreReads
<1>3. logfs_inode_read(t, ino) = logfs_inode_read(Now, ino) BY <1>1, SameStoreReads
<1>4. logfs_op_read(t, ino) = logfs_op_read(Now, ino) BY <1>2, <1>3 DEF logfs_op_read, R
<1> DEFINE old == logfs_op_read(Now, ino)
           new == logfs_op_read(s, ino)
<1>5. \A i \in DOMAIN new \ (first .. last) : new[i] = IF i \in DOMAIN old THEN old[i] ELSE Zero
  BY DEF Exposes
<1> HIDE DEF old, new
<1>6. Shown(t, s, ino, first, last)
      <=> \A i \in DOMAIN new \ (first .. last) : new[i] = IF i \in DOMAIN old THEN old[i] ELSE Zero
  BY <1>4 DEF Shown, old, new
<1> QED BY <1>5, <1>6

(* truncate preserves the invariant, and cuts the file or extends it by     *)
(* zeros.                                                                   *)
LEMMA TruncateStep ==
  ASSUME FsQuiet, leaky \in BOOLEAN, NEW I, NEW J, GoodNow(I, J), MemoryNow(I, J), tree = TreeOf(Now),
         NEW path \in Paths, NEW size \in Sizes, Truncate(path, size)
  PROVE  StepOK(I, J)
<1> DEFINE ino == logfs_path_lookup(Now, path)
<1>1. PICK fail : LET s == logfs_op_truncate(Begin(fail), ino, size) IN
        /\ Finish(s) /\ (s.rc = "EIO" => "halfway" \in Conditions)
        /\ Exposes(s, ino, 0, 0) => "expose" \in Conditions
  BY DEF Truncate, Calls
<1>2. open' = open /\ touched' = touched /\ logfs_inode_read(Now, ino).type = "file"
  BY DEF Truncate, IsFile
<1> DEFINE t == Begin(fail)
           s == logfs_op_truncate(t, ino, size)
<1>3. path \in Seq(Names) /\ size \in 0 .. MaxSize BY PathFacts, FileSystemAssumption
<1>4. /\ StorageOK(t) /\ t.rc = "ok" /\ Consistent(t, I, leaky) /\ Sound(t, I)
      /\ \A j : logfs_inode_read(t, j) = logfs_inode_read(Now, j)
      /\ \A p \in Seq(Names) : logfs_path_lookup(t, p) = logfs_path_lookup(Now, p)
  BY Begins
<1>5. t = Begin(fail) OBVIOUS
<1> HIDE DEF t
<1>6. logfs_path_lookup(t, path) = ino /\ logfs_inode_read(t, logfs_path_lookup(t, path)).type = "file"
  BY <1>2, <1>3, <1>4
<1>7. LiveFile(t, I, ino) BY <1>4, <1>6, FileAt
<1> HIDE DEF ino
<1>8. /\ s.rc = "ok" => /\ OpOK(t, s, I, I, leaky, {}) /\ NoNewBlocks(t, s, ino)
                        /\ \A r \in DOMAIN I : I[r] = ino => OthersSame(t, s, I, r)
                        /\ logfs_inode_read(s, ino).type = "file"
                        /\ logfs_inode_read(s, ino).size = size
      /\ s.rc \in {"ok", "EIO"}
  BY <1>3, <1>4, <1>7, TruncateOp
<1>9. /\ Finish(s) /\ (s.rc = "EIO" => "halfway" \in Conditions)
      /\ Exposes(s, ino, 0, 0) => "expose" \in Conditions
  BY <1>1 DEF t, ino
<1> HIDE DEF s
<1>10. s.rc = "ok" BY <1>8, <1>9 DEF FsQuiet
<1>11. leaky' = leaky BY <1>9, <1>10, FinishLeaky
<1>12. path \in DOMAIN I /\ ino = I[path]
  <2>1. ino # 0 BY <1>4, <1>6 DEF logfs_inode_read, Inodes, NoInode
  <2> QED BY <1>3, <1>4, <1>6, <2>1, PathLookup
<1>13. logfs_inode_read(t, ino).type = "file" BY <1>6
<1>14. OpOK(t, s, I, I, leaky', {}) /\ NoNewBlocks(t, s, ino) /\ OthersSame(t, s, I, path)
  BY <1>8, <1>10, <1>11, <1>12
<1>15. FilesKept(t, s, I, I) BY <1>12, <1>13, <1>14, ShrunkFiles
<1>16. OpDone(t, s, I, I, J) BY <1>2, <1>5, <1>9, <1>14, <1>15, OpStep
<1>17. UNCHANGED <<mode, saved, touched>> /\ TreeIs(t, I, tree) BY <1>16 DEF OpDone
<1>18. ASSUME "expose" \notin Conditions, Sees PROVE Tree!Truncate(path, size)
  <2>1. TreeIs(s, I, tree') BY <1>16, <1>18 DEF OpDone
  <2>2. Shown(t, s, ino, 0, 0) BY <1>5, <1>9, <1>18, NotExposed
  <2>3. logfs_inode_read(s, ino).type = "file" /\ logfs_inode_read(s, ino).size = size BY <1>8, <1>10
  <2>4. DOMAIN logfs_op_read(s, ino) = 1 .. size BY <2>3, NodeData
  <2>5. \A i \in 1 .. size : logfs_op_read(s, ino)[i] =
          IF i \in DOMAIN logfs_op_read(t, ino) THEN logfs_op_read(t, ino)[i] ELSE Zero
    <3>1. \A i \in 1 .. size : i \in DOMAIN logfs_op_read(s, ino) \ (0 .. 0) BY <2>4
    <3> QED BY <2>2, <3>1 DEF Shown
  <2>6. StorageOK(s) /\ Naming(I) BY <1>4, <1>14 DEF OpOK, Stable, Sound
  <2>7. UNCHANGED <<saved, touched>> BY <1>17
  <2> QED BY <1>4, <1>12, <1>13, <1>14, <1>17, <2>1, <2>3, <2>5, <2>6, <2>7, TruncateTree
<1>19. TreeStep BY <1>3, <1>17, <1>18 DEF TreeStep, Tree!Forward, Tree!Call
<1> QED BY <1>16, <1>19 DEF OpDone, StepOK

(* What is committed, in the terms of the invariant.                        *)
LEMMA CommittedOver == \A f : Committed(f) = Over(logged, f)
<1> TAKE f
<1> DEFINE s == Now
           t == [s EXCEPT !.staged = <<>>]
           u == [t EXCEPT !.home = Settled(f)]
<1>1. /\ IsCall(s) /\ s.rc = "ok" /\ s.out = 0 /\ s.logged = logged /\ s.fresh = {}
      /\ s.calls = 0 /\ s.fail = 0
  BY DEF Now, Begin, IsCall
<1>2. u = Committed(f) BY DEF Committed
<1> HIDE DEF s
<1>3. /\ IsCall(t) /\ t.rc = "ok" /\ t.out = 0 /\ t.logged = logged /\ t.fresh = {}
      /\ t.calls = 0 /\ t.fail = 0 /\ t.staged = <<>>
  BY <1>1 DEF IsCall
<1> HIDE DEF t
<1>4. /\ IsCall(u) /\ u.rc = "ok" /\ u.out = 0 /\ u.logged = logged /\ u.fresh = {}
      /\ u.calls = 0 /\ u.fail = 0 /\ u.staged = <<>> /\ u.home = Settled(f)
  BY <1>3 DEF IsCall
<1> HIDE DEF u
<1>5. u = Over(logged, f) BY <1>4 DEF IsCall, Over, At
<1> QED BY <1>2, <1>5

(* The guard of Write, in the terms of the invariant.                       *)
LEMMA NotReused ==
  ASSUME NEW I, NEW J, GoodNow(I, J), mode \in Modes, NEW s, ~Reuses(s)
  PROVE  NoReuse(s, logged, home)
<1>1. Committed(home.cur) = Over(logged, home.cur) BY CommittedOver
<1>2. mode # "journal" => mode = "ordered" BY FileSystemAssumption
<1>3. BB(Over(logged, home.cur)) = logfs_txn_read_block(Committed(home.cur), block_bitmap_start)
  BY <1>1 DEF BB
<1> QED BY <1>2, <1>3 DEF NoReuse, Reuses, Uncovered

(* The offset and the size of a write() call.                               *)
LEMMA SpanFacts ==
  ASSUME NEW span \in Spans
  PROVE  span[1] \in Nat /\ span[2] \in Nat \ {0}
<1>1. span \in (0 .. MaxSize) \X (1 .. MaxSize) BY FileSystemAssumption
<1>2. span[1] \in 0 .. MaxSize /\ span[2] \in 1 .. MaxSize BY <1>1
<1> QED BY <1>2, MaxSizeNat

(* A live file has one path.                                                *)
LEMMA OnePath ==
  ASSUME NEW I, Sound(Now, I), NEW ino, LiveFile(Now, I, ino)
  PROVE  \E r \in DOMAIN I : r \in Paths /\ ino = I[r] /\ PathsOf(ino) = {r}
<1>1. PICK r \in DOMAIN I : I[r] = ino BY DEF LiveFile
<1>2. /\ <<>> \in DOMAIN I /\ DOMAIN I \subseteq {<<>>} \cup Paths /\ \A p, q \in DOMAIN I : I[p] = I[q] => p = q
      /\ ino \in Inodes
  BY <1>1 DEF Sound, Naming
<1>3. r # <<>>
  <2>1. IsDir(Now, I[<<>>])
    <3>1. Above(<<>>) = <<>> BY DEF Above
    <3> QED BY <1>2, <3>1 DEF Sound, Placed
  <2> QED BY <1>1, <2>1 DEF IsDir, LiveFile
<1>4. r \in Paths BY <1>2, <1>3
<1>5. ASSUME NEW p \in Paths PROVE logfs_path_lookup(Now, p) = ino <=> p = r
  <2>1. p \in Seq(Names) BY PathFacts
  <2>2. logfs_path_lookup(Now, p) = IF p \in DOMAIN I THEN I[p] ELSE 0 BY <2>1, PathLookup
  <2>3. ino # 0 BY <1>2 DEF Inodes
  <2> QED BY <1>1, <1>2, <2>2, <2>3
<1> QED BY <1>1, <1>4, <1>5 DEF PathsOf

(* No journaled copy hides the data written to the blocks of the file.      *)
LEMMA WriteUncovered ==
  ASSUME NEW I, NEW J, GoodNow(I, J), NEW t, SameStore(At(staged, logged, home), t), NEW ino, LiveFile(t, I, ino),
         Sound(t, I), StorageOK(t),
         NEW s, NEW in, NEW lk, WriteOK(t, s, I, in, lk), NoReuse(s, logged, home),
         NEW offset, NEW size, NEW v, WriteShows(t, s, I, ino, offset, size, v)
  PROVE  mode # "journal" => \A k \in Ks : Ptr(s, ino, k) # 0 => Uncovered(t, Ptr(s, ino, k))
<1> SUFFICES ASSUME mode # "journal", NEW k \in Ks, Ptr(s, ino, k) # 0 PROVE Uncovered(t, Ptr(s, ino, k))
  OBVIOUS
<1> DEFINE b == Ptr(s, ino, k)
           a == At(staged, logged, home)
<1>1. b = Ptr(t, ino, k) \/ b \in s.fresh BY DEF WriteShows
<1>2. CASE b = Ptr(t, ino, k)
  <2>1. PICK p \in DOMAIN I : I[p] = ino BY DEF LiveFile
  <2>2. IsFileBlock(t, I, b) BY <1>2, <2>1 DEF LiveFile, IsFileBlock
  <2>3. Good(mode, staged, logged, home, open, leaky, I, J) BY DEF GoodNow
  <2>4. Consistent(a, I, leaky) BY <2>3, GoodParts
  <2>5. IsFileBlock(a, I, b) BY <2>2, <2>4, SameStoreConsistent
  <2>6. b \in DataBlocks
    <3>1. ino \in Inodes BY <2>1 DEF Sound, Naming
    <3>2. FileOf(t, I, p, b) BY <1>2, <2>1 DEF FileOf, LiveFile
    <3> QED BY <3>2, OneFile
  <2>7. b \notin DOMAIN staged /\ Uncovered(a, b) BY <2>3, <2>5, <2>6, GoodParts
  <2>8. Copies(t, b) = Copies(a, b) BY SameStoreReads
  <2>9. t.staged = staged BY AtFields DEF SameStore
  <2> QED BY <2>7, <2>8, <2>9 DEF Uncovered
<1>3. CASE b \in s.fresh
  <2>1. Uncovered(s, b) BY <1>3 DEF NoReuse
  <2>2. s.logged = t.logged /\ StagedGrows(t, s) BY DEF WriteOK
  <2>3. Copies(t, b) = Copies(s, b) BY <2>2 DEF Copies
  <2> QED BY <2>1, <2>2, <2>3 DEF Uncovered, StagedGrows
<1> QED BY <1>1, <1>2, <1>3

(* write preserves the invariant, and writes to the file, in full if it     *)
(* succeeds.                                                                *)
LEMMA WriteStep ==
  ASSUME FsQuiet, mode \in Modes, leaky \in BOOLEAN, NEW I, NEW J, GoodNow(I, J), MemoryNow(I, J),
         tree = TreeOf(Now), NEW ino \in open,
         NEW offset \in Nat, NEW size \in Nat \ {0}, NEW v \in Vals, Write(ino, offset, size, v)
  PROVE  StepOK(I, J)
<1>1. PICK fail : LET s == logfs_op_write(Begin(fail), ino, offset, size, v) IN
        /\ Finish(s) /\ (Reuses(s) => "reuse" \in Conditions) /\ open' = open
        /\ Exposes(s, ino, offset + 1, offset + size) => "expose" \in Conditions
        /\ touched' = touched \cup PathsOf(ino)
  BY DEF Write, Calls
<1> DEFINE t == Begin(fail)
           s == logfs_op_write(t, ino, offset, size, v)
<1>2. /\ StorageOK(t) /\ t.rc = "ok" /\ t.fresh = {} /\ Consistent(t, I, leaky) /\ Sound(t, I)
      /\ SameStore(At(staged, logged, home), t) /\ t.staged = staged /\ t.home = home
      /\ LiveFile(t, I, ino) /\ Sound(Now, I) /\ StorageOK(Now)
      /\ logfs_inode_read(t, ino) = logfs_inode_read(Now, ino)
  BY Begins
<1>10. t = Begin(fail) OBVIOUS
<1> HIDE DEF t
<1>3. /\ Finish(s) /\ (Reuses(s) => "reuse" \in Conditions)
      /\ Exposes(s, ino, offset + 1, offset + size) => "expose" \in Conditions
  BY <1>1 DEF t
<1>4. offset + size <= MaxSize
  <2>1. SUFFICES ASSUME ~(offset + size <= MaxSize) PROVE FALSE OBVIOUS
  <2>2. offset + size > MaxSize BY <2>1, MaxSizeNat
  <2>3. s = Fail(t, "EFBIG") BY <2>2 DEF logfs_op_write
  <2>4. s.staged = t.staged /\ s.home = t.home BY <1>2, <2>3 DEF Fail, StorageOK, IsCall
  <2> QED BY <1>2, <1>3, <2>4 DEF Finish
<1>5. WriteOK(t, s, I, logfs_inode_read(t, ino), leaky) /\ WriteShows(t, s, I, ino, offset, size, v)
  BY <1>2, <1>4, WriteOp
<1> HIDE DEF s
<1>6. NoReuse(s, logged, home)
  <2>1. ~Reuses(s) BY <1>3 DEF FsQuiet
  <2> QED BY <2>1, NotReused
<1>11. Good(mode, staged, logged, home, open, leaky, I, J) BY DEF GoodNow
<1>7. Good(mode, s.staged, logged, s.home, open, leaky \/ s.rc # "ok", I, J)
  BY <1>2, <1>5, <1>6, <1>11, GoodWrite
<1>8. /\ staged' = s.staged /\ home' = s.home /\ logged' = logged /\ mode' = mode /\ open' = open
      /\ leaky' = (leaky \/ s.rc # "ok") /\ saved' = saved
  BY <1>1, <1>3 DEF Finish
<1>9. Good(mode', staged', logged', home', open', leaky', I, J) BY <1>7, <1>8
<1>12. GoodNow(I, J)' BY <1>9 DEF GoodNow
<1>13. PICK r \in DOMAIN I : r \in Paths /\ ino = I[r] /\ PathsOf(ino) = {r}
  <2>1. LiveFile(Now, I, ino) BY <1>2 DEF LiveFile
  <2> QED BY <1>2, <2>1, OnePath
<1>14. touched' = touched \cup {r} BY <1>1, <1>13
<1>15. MemoryNow(I, J)'
  <2>1. Memory(mode, staged, logged, home, I, J, saved, touched) BY DEF MemoryNow
  <2>2. SameStore(At(staged, logged, home), t) /\ LiveFile(t, I, ino) BY <1>2
  <2>3. r \in DOMAIN I /\ ino = I[r] BY <1>13
  <2>4. Memory(mode, s.staged, logged, s.home, I, J, saved, touched \cup {r})
    <3>1. WriteOK(t, s, I, logfs_inode_read(t, ino), leaky) BY <1>5
    <3>2. WriteShows(t, s, I, ino, offset, size, v) BY <1>5
    <3>3. SameStore(At(staged, logged, home), t) BY <2>2
    <3>4. LiveFile(t, I, ino) BY <2>2
    <3>5. r \in DOMAIN I BY <2>3
    <3>6. ino = I[r] BY <2>3
    <3> QED BY ONLY <1>6, <1>11, <2>1, <3>1, <3>2, <3>3, <3>4, <3>5, <3>6, leaky \in BOOLEAN, MemoryWrite, ZenonT(60)
  <2> QED BY <1>8, <1>14, <2>4 DEF MemoryNow
<1>16. TreeStep
  <2>1. SUFFICES ASSUME "expose" \notin Conditions, Sees PROVE Tree!Forward BY DEF TreeStep
  <2>2. Naming(I) /\ logfs_inode_read(t, ino).type = "file" BY <1>2 DEF Sound, LiveFile
  <2>3. TreeIs(t, I, tree)
    <3>1. Now = At(staged, logged, home) BY DEF At, Now, Begin
    <3>2. SameStore(t, Now) BY <1>2, <3>1 DEF SameStore
    <3> QED BY <1>2, <3>2, SeenAs
  <2>4. StorageOK(s) BY <1>5 DEF WriteOK
  <2>5. TreeIs(s, I, tree')
    <3> DEFINE z == At(staged', logged', home')
    <3>1. StorageOK(z) /\ Consistent(z, I, leaky') BY <1>9, GoodParts
    <3>2. tree' = TreeOf(z) BY <2>1 DEF Sees
    <3>3. s.logged = logged BY <1>2, <1>5, AtFields DEF WriteOK, SameStore
    <3>4. SameStore(z, s) /\ SameStore(s, z) BY <1>8, <3>3, AtFields DEF SameStore
    <3> HIDE DEF z
    <3>5. Consistent(s, I, leaky') BY <3>1, <3>4, SameStoreConsistent
    <3> QED BY <3>1, <3>2, <3>4, <3>5, SeenAs
  <2>6. CASE s.rc = "ok"
    <3>1. Shown(t, s, ino, offset + 1, offset + size) BY <1>3, <1>10, <2>1, NotExposed
    <3>2. mode # "journal" => \A k \in Ks : Ptr(s, ino, k) # 0 => Uncovered(t, Ptr(s, ino, k))
      BY <1>2, <1>5, <1>6, WriteUncovered
    <3>3. Tree!Write(r, offset, size, v)
      <4>1. StorageOK(t) BY <1>2
      <4>2. WriteShows(t, s, I, ino, offset, size, v) BY <1>5
      <4>3. r \in DOMAIN I /\ ino = I[r] BY <1>13
      <4> QED BY ONLY <1>4, <1>8, <1>14, <2>2, <2>3, <2>4, <2>5, <2>6, <3>1, <3>2, <4>1, <4>2, <4>3,
                      offset \in Nat, size \in Nat \ {0}, WriteTree
    <3>4. offset \in 0 .. MaxSize /\ size \in 1 .. MaxSize BY <1>4, MaxSizeNat
    <3> QED BY <1>8, <1>13, <3>3, <3>4 DEF Tree!Forward, Tree!Call
  <2>7. CASE s.rc # "ok"
    <3>1. Tree!WriteFails(r, v)
      <4>1. StorageOK(t) BY <1>2
      <4>2. WriteShows(t, s, I, ino, offset, size, v) BY <1>5
      <4>3. r \in DOMAIN I /\ ino = I[r] BY <1>13
      <4> QED BY ONLY <1>8, <1>14, <2>2, <2>3, <2>4, <2>5, <2>7, <4>1, <4>2, <4>3, WriteFailsTree
    <3> QED BY <1>8, <1>13, <3>1 DEF Tree!Forward, Tree!Call
  <2> QED BY <2>6, <2>7
<1> QED BY <1>12, <1>15, <1>16 DEF StepOK

(* The tree the running system shows, before a step ...                     *)
LEMMA TreeNow ==
  ASSUME NEW I, NEW J, GoodNow(I, J), tree = TreeOf(Now)
  PROVE  TreeIs(At(staged, logged, home), I, tree)
<1>1. Now = At(staged, logged, home) BY DEF At, Now, Begin
<1>2. Sound(Now, I) BY Begins
<1>3. TreeIs(Now, I, tree) BY <1>2, TreeNodes
<1> QED BY <1>1, <1>3

(* ... and after it. *)
LEMMA TreeNext ==
  ASSUME NEW I, NEW J, GoodNow(I, J)', Sees
  PROVE  TreeIs(At(staged', logged', home'), I, tree')
<1> DEFINE z == At(staged', logged', home')
<1>1. Good(mode', staged', logged', home', open', leaky', I, J) BY DEF GoodNow
<1>2. Consistent(z, I, leaky') BY <1>1, GoodParts
<1>3. Sound(z, I) BY <1>2 DEF Consistent
<1>4. tree' = TreeOf(z) BY DEF Sees
<1> HIDE DEF z
<1>5. TreeIs(z, I, tree') BY <1>3, <1>4, TreeNodes
<1> QED BY <1>5 DEF z

(* A naming and a structure have one tree.                                  *)
LEMMA OneTree ==
  ASSUME NEW s, NEW I, NEW tr, TreeIs(s, I, tr), NEW ts, TreeIs(s, I, ts)
  PROVE  ts = tr
BY DEF TreeIs

(* So does a change of the open handles that leads to live files only.      *)
LEMMA HandlesStep ==
  ASSUME NEW I, NEW J, GoodNow(I, J), MemoryNow(I, J), tree = TreeOf(Now),
         UNCHANGED <<mode, staged, logged, home, leaky, saved, touched>>,
         \A ino \in open' : ino \in open \/ LiveFile(Now, I, ino)
  PROVE  StepOK(I, J)
<1>1. Now = At(staged, logged, home) BY DEF At, Now, Begin
<1>2. HomeOK(mode, home) /\ LiveOK(mode, At(staged, logged, home), open, leaky, I)
  BY DEF GoodNow, Good
<1>3. LiveOK(mode, At(staged, logged, home), open', leaky, I) BY <1>1, <1>2 DEF LiveOK
<1>4. Good(mode, staged, logged, home, open', leaky, I, J) BY <1>3 DEF GoodNow, Good
<1>5. Good(mode', staged', logged', home', open', leaky', I, J) BY <1>4
<1>6. GoodNow(I, J)' BY <1>5 DEF GoodNow
<1>7. MemoryNow(I, J)' BY DEF MemoryNow
<1>8. Sees => tree' = tree BY <1>1 DEF Sees
<1>9. TreeStep BY <1>8, TreeStutters
<1> QED BY <1>6, <1>7, <1>9 DEF StepOK

(* open preserves the invariant, and shows nothing.                         *)
LEMMA OpenStep ==
  ASSUME NEW I, NEW J, GoodNow(I, J), MemoryNow(I, J), tree = TreeOf(Now), NEW path \in Paths, Open(path)
  PROVE  StepOK(I, J)
<1> DEFINE ino == logfs_path_lookup(Now, path)
<1>1. /\ open' = open \cup {ino} /\ UNCHANGED <<mode, staged, logged, home, leaky, saved, touched>>
      /\ logfs_inode_read(Now, ino).type = "file"
  BY DEF Open, IsFile
<1>2. Sound(Now, I) BY Begins
<1>3. LiveFile(Now, I, ino) BY <1>1, <1>2, FileAt
<1> HIDE DEF ino
<1>4. \A j \in open' : j \in open \/ LiveFile(Now, I, j) BY <1>1, <1>3
<1> QED BY <1>1, <1>4, HandlesStep

(* release preserves the invariant, and shows nothing.                      *)
LEMMA ReleaseStep ==
  ASSUME NEW I, NEW J, GoodNow(I, J), MemoryNow(I, J), tree = TreeOf(Now), NEW ino, Release(ino)
  PROVE  StepOK(I, J)
<1>1. open' = open \ {ino} /\ UNCHANGED <<mode, staged, logged, home, leaky, saved, touched>> BY DEF Release
<1> QED BY <1>1, HandlesStep

(* A commit preserves the invariant; what every crash recovers to is now    *)
(* what the running system sees.                                            *)
LEMMA CommitStep ==
  ASSUME NEW I, NEW J, GoodNow(I, J), MemoryNow(I, J), tree = TreeOf(Now), Commit
  PROVE  StepOK(I, I) /\ (Sees => tree' = tree)
<1>1. /\ home' = Settled(home.cur) /\ staged' = <<>> /\ UNCHANGED <<mode, open, leaky>>
      /\ logged' = IF staged = <<>> THEN logged ELSE Append(logged, staged)
      /\ saved' = tree /\ touched' = {}
  BY DEF Commit, logfs_bdev_flush
<1>2. Good(mode, staged, logged, home, open, leaky, I, J) BY DEF GoodNow
<1>3. (staged = <<>> => logged' = logged) /\ (staged # <<>> => logged' = Append(logged, staged)) BY <1>1
<1>4. \A log2 : (staged = <<>> => log2 = logged) /\ (staged # <<>> => log2 = Append(logged, staged)) =>
        Good(mode, <<>>, log2, Settled(home.cur), open, leaky, I, I)
  BY <1>2, GoodCommit
<1>5. Good(mode, <<>>, logged', Settled(home.cur), open, leaky, I, I) BY <1>3, <1>4
<1>6. Good(mode', staged', logged', home', open', leaky', I, I) BY <1>1, <1>5
<1>7. GoodNow(I, I)' BY <1>6 DEF GoodNow
<1>8. TreeIs(At(staged, logged, home), I, tree) BY TreeNow
<1>9. \A log2 : (staged = <<>> => log2 = logged) /\ (staged # <<>> => log2 = Append(logged, staged)) =>
        /\ Memory(mode, <<>>, log2, Settled(home.cur), I, I, tree, {})
        /\ TreeIs(At(<<>>, log2, Settled(home.cur)), I, tree)
  BY ONLY <1>2, <1>8, MemoryCommit
<1>10. /\ Memory(mode, <<>>, logged', Settled(home.cur), I, I, tree, {})
       /\ TreeIs(At(<<>>, logged', Settled(home.cur)), I, tree)
  BY ONLY <1>3, <1>9
<1>11. MemoryNow(I, I)' BY <1>1, <1>10 DEF MemoryNow
<1>12. Sees => tree' = tree
  <2>1. SUFFICES ASSUME Sees PROVE tree' = tree OBVIOUS
  <2>2. TreeIs(At(staged', logged', home'), I, tree') BY <1>7, <2>1, TreeNext
  <2>3. TreeIs(At(staged', logged', home'), I, tree) BY <1>1, <1>10
  <2> QED BY <2>2, <2>3, OneTree
<1>13. TreeStep BY <1>1, <1>12 DEF TreeStep, Tree!Forward, Tree!Commit
<1> QED BY <1>7, <1>11, <1>12, <1>13 DEF StepOK

(* What is remembered comes back: a step Revert of the tree.                *)
LEMMA RevertTree ==
  ASSUME NEW c, StorageOK(c), NEW J, Naming(J), Remembers(mode, c, J, saved, touched), TreeIs(c, J, tree'),
         \/ saved' = saved /\ touched' = touched
         \/ saved' = tree' /\ touched' = {}
  PROVE  Tree!Revert
<1>1. DOMAIN saved = DOMAIN J /\ DOMAIN tree' = DOMAIN J BY DEF Remembers, TreeIs
<1>2. ASSUME NEW p \in DOMAIN saved PROVE Tree!Restored(p)
  <2>1. p \in DOMAIN J /\ J[p] \in Inodes BY <1>1, <1>2 DEF Naming
  <2>2. tree'[p] = Node(c, J[p]) BY <2>1 DEF TreeIs
  <2>3. /\ saved[p].type = logfs_inode_read(c, J[p]).type
        /\ saved[p].type = "file" => Len(saved[p].data) = logfs_inode_read(c, J[p]).size
        /\ mode = "journal" \/ p \notin touched => Node(c, J[p]) = saved[p]
    BY <2>1 DEF Remembers
  <2>4. Node(c, J[p]).type = logfs_inode_read(c, J[p]).type BY DEF Node
  <2>5. logfs_inode_read(c, J[p]).type = "file" => Len(Node(c, J[p]).data) = logfs_inode_read(c, J[p]).size
    BY <2>1, DataFacts
  <2> QED BY <2>2, <2>3, <2>4, <2>5 DEF Tree!Restored
<1> QED BY <1>1, <1>2 DEF Tree!Revert

(* A commit that fails preserves the invariant; the running system falls    *)
(* back to what is committed.                                               *)
LEMMA CommitFailsStep ==
  ASSUME FsQuiet, NEW I, NEW J, GoodNow(I, J), MemoryNow(I, J), CommitFails
  PROVE  StepOK(J, J)
<1>1. staged' = <<>> /\ open = {} /\ UNCHANGED <<mode, logged, home, open, leaky, saved, touched>>
  BY DEF CommitFails, FsQuiet
<1>2. Good(mode, staged, logged, home, open, leaky, I, J) BY DEF GoodNow
<1>3. Good(mode, <<>>, logged, home, {}, leaky, J, J) BY <1>2, GoodDrop
<1>4. Good(mode', staged', logged', home', open', leaky', J, J) BY <1>1, <1>3
<1>5. GoodNow(J, J)' BY <1>4 DEF GoodNow
<1>6. /\ Memory(mode, <<>>, logged, home, J, J, saved, touched)
      /\ Remembers(mode, At(<<>>, logged, home), J, saved, touched)
  <2>1. Memory(mode, staged, logged, home, I, J, saved, touched) BY DEF MemoryNow
  <2> QED BY ONLY <1>2, <2>1, MemoryDrop
<1>7. MemoryNow(J, J)' BY <1>1, <1>6 DEF MemoryNow
<1>8. Sees => Tree!Revert
  <2>1. SUFFICES ASSUME Sees PROVE Tree!Revert OBVIOUS
  <2> DEFINE c == At(staged', logged', home')
  <2>2. TreeIs(c, J, tree') BY <1>5, <2>1, TreeNext
  <2>3. Remembers(mode, c, J, saved, touched) BY <1>1, <1>6
  <2>4. StorageOK(c) /\ Consistent(c, J, leaky') BY <1>4, GoodParts
  <2>5. Naming(J) BY <2>4 DEF Consistent, Sound
  <2> HIDE DEF c
  <2>6. saved' = saved /\ touched' = touched BY <1>1
  <2> QED BY <2>2, <2>3, <2>4, <2>5, <2>6, RevertTree
<1>9. TreeStep BY <1>1, <1>8 DEF TreeStep, Undone
<1> QED BY <1>5, <1>7, <1>9 DEF StepOK

(* A checkpoint preserves the invariant, and shows nothing.                 *)
LEMMA CheckpointStep ==
  ASSUME NEW I, NEW J, GoodNow(I, J), MemoryNow(I, J), tree = TreeOf(Now), Checkpoint
  PROVE  StepOK(I, J) /\ (Sees => tree' = tree)
<1> DEFINE e == Overlay(home.cur, Head(logged))
<1>1. /\ logged # <<>> /\ home' = Settled(e) /\ logged' = Tail(logged)
      /\ UNCHANGED <<mode, staged, open, leaky, saved, touched>>
  BY DEF Checkpoint
<1>2. Good(mode, staged, logged, home, open, leaky, I, J) BY DEF GoodNow
<1>3. e = Overlay(home.cur, Head(logged)) OBVIOUS
<1> HIDE DEF e
<1>4. Good(mode, staged, Tail(logged), Settled(e), open, leaky, I, J) BY <1>1, <1>2, <1>3, GoodCheckpoint
<1>5. Good(mode', staged', logged', home', open', leaky', I, J) BY <1>1, <1>4
<1>6. GoodNow(I, J)' BY <1>5 DEF GoodNow
<1>7. /\ Memory(mode, staged, Tail(logged), Settled(e), I, J, saved, touched)
      /\ \A tr : TreeIs(At(staged, logged, home), I, tr) => TreeIs(At(staged, Tail(logged), Settled(e)), I, tr)
  <2>1. Memory(mode, staged, logged, home, I, J, saved, touched) BY DEF MemoryNow
  <2>2. logged # <<>> BY <1>1
  <2> QED BY ONLY <1>2, <1>3, <2>1, <2>2, MemoryCheckpoint
<1>8. MemoryNow(I, J)' BY <1>1, <1>7 DEF MemoryNow
<1>9. Sees => tree' = tree
  <2>1. SUFFICES ASSUME Sees PROVE tree' = tree OBVIOUS
  <2>2. TreeIs(At(staged, logged, home), I, tree) BY TreeNow
  <2>3. TreeIs(At(staged', logged', home'), I, tree) BY <1>1, <1>7, <2>2
  <2>4. TreeIs(At(staged', logged', home'), I, tree') BY <1>6, <2>1, TreeNext
  <2> QED BY <2>3, <2>4, OneTree
<1>10. TreeStep BY <1>1, <1>9, TreeStutters
<1> QED BY <1>6, <1>8, <1>9, <1>10 DEF StepOK

(* What a mount recovers, in the terms of the invariant.                    *)
LEMMA RecoveredOver ==
  ASSUME NEW f
  PROVE  Recovered(f) = Over(<<>>, [b \in Device |-> R(Over(logged, f), b)])
<1> DEFINE g == [b \in Device |-> R(Over(logged, f), b)]
           s == Now
           t == [s EXCEPT !.staged = <<>>]
           u == [t EXCEPT !.logged = <<>>]
           w == [u EXCEPT !.home = Settled(g)]
<1>1. IsCall(s) /\ s.rc = "ok" /\ s.out = 0 /\ s.fresh = {} /\ s.calls = 0 /\ s.fail = 0
  BY DEF Now, Begin, IsCall
<1>2. w = Recovered(f)
  <2>1. Committed(f) = Over(logged, f) BY CommittedOver
  <2> QED BY <2>1 DEF Recovered, R
<1> HIDE DEF s, g
<1>3. /\ IsCall(t) /\ t.rc = "ok" /\ t.out = 0 /\ t.fresh = {} /\ t.calls = 0 /\ t.fail = 0 /\ t.staged = <<>>
  BY <1>1 DEF IsCall
<1> HIDE DEF t
<1>4. /\ IsCall(u) /\ u.rc = "ok" /\ u.out = 0 /\ u.fresh = {} /\ u.calls = 0 /\ u.fail = 0
      /\ u.staged = <<>> /\ u.logged = <<>>
  BY <1>3 DEF IsCall
<1> HIDE DEF u
<1>5. /\ IsCall(w) /\ w.rc = "ok" /\ w.out = 0 /\ w.fresh = {} /\ w.calls = 0 /\ w.fail = 0
      /\ w.staged = <<>> /\ w.logged = <<>> /\ w.home = Settled(g)
  BY <1>4 DEF IsCall
<1> HIDE DEF w
<1>6. w = Over(<<>>, g) BY <1>5 DEF IsCall, Over, At
<1> QED BY <1>2, <1>6 DEF g

(* A crash and the mount after it preserve the invariant, and bring back    *)
(* what is remembered.                                                      *)
LEMMA CrashStep ==
  ASSUME NEW I, NEW J, GoodNow(I, J), MemoryNow(I, J), Crash
  PROVE  StepOK(J, J)
<1>1. PICK f \in PowerLossImages(home) :
        /\ staged' = Recovered(f).staged /\ logged' = Recovered(f).logged /\ home' = Recovered(f).home
        /\ saved' = TreeOf(Recovered(f))
  BY DEF Crash
<1>2. open' = {} /\ touched' = {} /\ UNCHANGED <<mode, leaky>> BY DEF Crash
<1>3. Good(mode, staged, logged, home, open, leaky, I, J) BY DEF GoodNow
<1>4. IsImage(home, f)
  <2>1. HomeOK(mode, home) /\ RegionOK(home) BY <1>3, GoodParts
  <2> QED BY <2>1, PowerLoss
<1> DEFINE g == [b \in Device |-> R(Over(logged, f), b)]
           c == Over(<<>>, g)
<1>5. Recovered(f) = c BY RecoveredOver
<1>6. Good(mode, <<>>, <<>>, Settled(g), {}, leaky, J, J) BY <1>3, <1>4, GoodCrash
<1>7. g = [b \in Device |-> R(Over(logged, f), b)] OBVIOUS
<1> HIDE DEF g
<1>8. c.staged = <<>> /\ c.logged = <<>> /\ c.home = Settled(g) BY AtFields DEF Over
<1>9. c = At(<<>>, <<>>, Settled(g)) BY DEF Over
<1>10. /\ Remembers(mode, Over(<<>>, g), J, saved, touched)
       /\ \A tr : TreeIs(Over(<<>>, g), J, tr) => Memory(mode, <<>>, <<>>, Settled(g), J, J, tr, {})
  <2>1. Memory(mode, staged, logged, home, I, J, saved, touched) BY DEF MemoryNow
  <2> QED BY ONLY <1>3, <1>4, <1>7, <2>1, MemoryCrash
<1> HIDE DEF c
<1>11. staged' = <<>> /\ logged' = <<>> /\ home' = Settled(g) /\ saved' = TreeOf(c)
  BY <1>1, <1>5, <1>8
<1>12. Good(mode', staged', logged', home', open', leaky', J, J) BY <1>2, <1>6, <1>11
<1>13. GoodNow(J, J)' BY <1>12 DEF GoodNow
<1>14. StorageOK(c) /\ Consistent(c, J, leaky)
  <2>1. StorageOK(At(<<>>, <<>>, Settled(g))) /\ Consistent(At(<<>>, <<>>, Settled(g)), J, leaky)
    BY <1>6, GoodParts
  <2> QED BY <1>9, <2>1
<1>15. Sound(c, J) /\ Naming(J) BY <1>14 DEF Consistent, Sound
<1>16. TreeIs(c, J, saved') BY <1>11, <1>15, TreeNodes
<1>17. Memory(mode, <<>>, <<>>, Settled(g), J, J, saved', {}) BY <1>10, <1>16 DEF c
<1>18. MemoryNow(J, J)' BY <1>2, <1>11, <1>17 DEF MemoryNow
<1>19. Sees => Tree!Revert
  <2>1. SUFFICES ASSUME Sees PROVE Tree!Revert OBVIOUS
  <2>2. At(staged', logged', home') = c BY <1>9, <1>11
  <2>3. tree' = saved' BY <1>11, <2>1, <2>2 DEF Sees
  <2>4. TreeIs(c, J, tree') BY <1>16, <2>3
  <2>5. Remembers(mode, c, J, saved, touched) BY <1>10 DEF c
  <2>6. saved' = tree' /\ touched' = {} BY <1>2, <2>3
  <2> QED BY <1>14, <1>15, <2>4, <2>5, <2>6, RevertTree
<1>20. TreeStep BY <1>2, <1>19 DEF TreeStep, Undone
<1> QED BY <1>13, <1>18, <1>20 DEF StepOK

(* The invariant holds initially, and the tree is an empty root directory.  *)
LEMMA InitGood ==
  ASSUME Init
  PROVE  GoodNow(RootOnly, RootOnly) /\ MemoryNow(RootOnly, RootOnly) /\ Tree!Init
<1>1. /\ home = Settled(Formatted) /\ staged = <<>> /\ logged = <<>> /\ open = {} /\ leaky = FALSE
      /\ tree = TreeOf(Now) /\ saved = tree /\ touched = {} /\ mode \in Modes
  BY DEF Init, Formatted
<1>2. Good(mode, <<>>, <<>>, Settled(Formatted), {}, FALSE, RootOnly, RootOnly) BY GoodInit
<1>3. GoodNow(RootOnly, RootOnly) BY <1>1, <1>2 DEF GoodNow
<1> DEFINE c == At(<<>>, <<>>, Settled(Formatted))
<1>4. c = Over(<<>>, Formatted) BY DEF Over
<1>5. TreeIs(c, RootOnly, tree)
  <2>1. TreeIs(At(staged, logged, home), RootOnly, tree) BY <1>1, <1>3, TreeNow
  <2> QED BY <1>1, <2>1
<1>6. StorageOK(c) /\ Consistent(c, RootOnly, FALSE) BY <1>2, GoodParts
<1>7. Sound(c, RootOnly) BY <1>6 DEF Consistent
<1>8. logfs_inode_read(c, ROOT_INO) = NewDir(data_start) BY <1>4, FormattedReads
<1>9. Formatted = [b \in Device |-> Formatted[b]] BY FormattedTyped
<1> HIDE DEF c
<1>10. Memory(mode, <<>>, <<>>, Settled(Formatted), RootOnly, RootOnly, tree, {})
  <2>1. StorageOK(Over(<<>>, Formatted)) /\ Sound(Over(<<>>, Formatted), RootOnly)
        /\ TreeIs(Over(<<>>, Formatted), RootOnly, tree)
    BY <1>4, <1>5, <1>6, <1>7
  <2> QED BY ONLY <1>9, <2>1, MemorySettled
<1>11. MemoryNow(RootOnly, RootOnly) BY <1>1, <1>10 DEF MemoryNow
<1>12. Node(c, ROOT_INO) = Tree!Dir BY <1>8 DEF Node, NewDir, Tree!Dir
<1>13. tree = [p \in {<<>>} |-> Tree!Dir] BY <1>5, <1>12 DEF TreeIs, RootOnly
<1>14. Tree!Init BY <1>1, <1>13, FileSystemAssumption DEF Tree!Init, Tree!Root
<1> QED BY <1>3, <1>11, <1>14

(* The inductive invariant of the specification.                            *)
FsInv ==
  /\ mode \in Modes /\ leaky \in BOOLEAN /\ touched \subseteq Paths /\ tree = TreeOf(Now)
  /\ \E I, J : GoodNow(I, J) /\ MemoryNow(I, J)

(* The data mode is chosen at mount; the histories keep their types.        *)
LEMMA StepFrame ==
  ASSUME mode \in Modes, leaky \in BOOLEAN, touched \subseteq Paths, Step
  PROVE  mode' \in Modes /\ leaky' \in BOOLEAN /\ touched' \subseteq Paths
<1>1. ASSUME NEW path \in Paths, Mkdir(path) \/ Rmdir(path) \/ Create(path) \/ Unlink(path)
      PROVE  mode' \in Modes /\ leaky' \in BOOLEAN /\ touched' \subseteq Paths
  <2>1. CASE Mkdir(path) BY <2>1 DEF Mkdir, Finish
  <2>2. CASE Rmdir(path) BY <2>2 DEF Rmdir, Finish
  <2>3. CASE Create(path) BY <2>3 DEF Create, Finish
  <2>4. CASE Unlink(path) BY <2>4 DEF Unlink, Finish
  <2> QED BY <1>1, <2>1, <2>2, <2>3, <2>4
<1>2. ASSUME NEW path \in Paths, NEW size \in Sizes, Truncate(path, size)
      PROVE  mode' \in Modes /\ leaky' \in BOOLEAN /\ touched' \subseteq Paths
  BY <1>2 DEF Truncate, Finish
<1>3. ASSUME NEW path \in Paths, Open(path)
      PROVE  mode' \in Modes /\ leaky' \in BOOLEAN /\ touched' \subseteq Paths
  BY <1>3 DEF Open
<1>4. ASSUME NEW ino \in open, NEW span \in Spans, NEW v \in Vals, Write(ino, span[1], span[2], v)
      PROVE  mode' \in Modes /\ leaky' \in BOOLEAN /\ touched' \subseteq Paths
  BY <1>4 DEF Write, Finish, PathsOf
<1>5. ASSUME NEW ino \in open, Release(ino)
      PROVE  mode' \in Modes /\ leaky' \in BOOLEAN /\ touched' \subseteq Paths
  BY <1>5 DEF Release
<1>6. ASSUME Commit \/ CommitFails \/ Checkpoint \/ Crash
      PROVE  mode' \in Modes /\ leaky' \in BOOLEAN /\ touched' \subseteq Paths
  BY <1>6 DEF Commit, CommitFails, Checkpoint, Crash
<1> QED BY <1>1, <1>2, <1>3, <1>4, <1>5, <1>6 DEF Step

(* Every step preserves the invariant, and is one of the tree.              *)
LEMMA StepGood ==
  ASSUME FsQuiet, mode \in Modes, leaky \in BOOLEAN, tree = TreeOf(Now),
         NEW I, NEW J, GoodNow(I, J), MemoryNow(I, J), Step
  PROVE  \E I2, J2 : StepOK(I2, J2)
<1>1. ASSUME NEW path \in Paths, Mkdir(path) PROVE \E I2, J2 : StepOK(I2, J2)
  BY <1>1, MkdirStep
<1>2. ASSUME NEW path \in Paths, Rmdir(path) PROVE \E I2, J2 : StepOK(I2, J2)
  BY <1>2, RmdirStep
<1>3. ASSUME NEW path \in Paths, Create(path) PROVE \E I2, J2 : StepOK(I2, J2)
  BY <1>3, CreateStep
<1>4. ASSUME NEW path \in Paths, Unlink(path) PROVE \E I2, J2 : StepOK(I2, J2)
  BY <1>4, UnlinkStep
<1>5. ASSUME NEW path \in Paths, Open(path) PROVE \E I2, J2 : StepOK(I2, J2)
  BY <1>5, OpenStep
<1>6. ASSUME NEW path \in Paths, NEW size \in Sizes, Truncate(path, size) PROVE \E I2, J2 : StepOK(I2, J2)
  BY <1>6, TruncateStep
<1>7. ASSUME NEW ino \in open, NEW span \in Spans, NEW v \in Vals, Write(ino, span[1], span[2], v)
      PROVE  \E I2, J2 : StepOK(I2, J2)
  <2>1. span[1] \in Nat /\ span[2] \in Nat \ {0} BY SpanFacts
  <2>2. StepOK(I, J) BY <1>7, <2>1, WriteStep
  <2> QED BY <2>2
<1>8. ASSUME NEW ino \in open, Release(ino) PROVE \E I2, J2 : StepOK(I2, J2)
  BY <1>8, ReleaseStep
<1>9. ASSUME Commit PROVE \E I2, J2 : StepOK(I2, J2)
  BY <1>9, CommitStep
<1>10. ASSUME CommitFails PROVE \E I2, J2 : StepOK(I2, J2)
  BY <1>10, CommitFailsStep
<1>11. ASSUME Checkpoint PROVE \E I2, J2 : StepOK(I2, J2)
  BY <1>11, CheckpointStep
<1>12. ASSUME Crash PROVE \E I2, J2 : StepOK(I2, J2)
  BY <1>12, CrashStep
<1> QED
  BY <1>1, <1>2, <1>3, <1>4, <1>5, <1>6, <1>7, <1>8, <1>9, <1>10, <1>11, <1>12 DEF Step

(* The invariant holds initially, with the histories.                       *)
LEMMA InitInv == Init => FsInv /\ Tree!Init
<1> SUFFICES ASSUME Init PROVE FsInv /\ Tree!Init OBVIOUS
<1>1. mode \in Modes /\ leaky \in BOOLEAN /\ touched \subseteq Paths /\ tree = TreeOf(Now) BY DEF Init
<1>2. GoodNow(RootOnly, RootOnly) /\ MemoryNow(RootOnly, RootOnly) /\ Tree!Init BY InitGood
<1> QED BY <1>1, <1>2 DEF FsInv

(* The history records what a walk sees.                                    *)
LEMMA NextSees == ASSUME Next PROVE Sees
<1>1. Now' = At(staged', logged', home') BY DEF At, Now, Begin
<1>2. tree' = TreeOf(Now') BY DEF Next
<1> QED BY <1>1, <1>2 DEF Sees

(* The invariant is inductive, and under it every step is one of the tree.  *)
LEMMA NextInv ==
  ASSUME FsQuiet, FsInv, [Next]_vars
  PROVE  FsInv' /\ ("expose" \notin Conditions => [Tree!Forward]_(Tree!vars) \/ Undone)
<1>1. PICK I, J : GoodNow(I, J) /\ MemoryNow(I, J) BY DEF FsInv
<1>2. mode \in Modes /\ leaky \in BOOLEAN /\ touched \subseteq Paths /\ tree = TreeOf(Now) BY DEF FsInv
<1>3. CASE Next
  <2>1. Step /\ tree' = TreeOf(Now)' BY <1>3 DEF Next
  <2>2. PICK I2, J2 : StepOK(I2, J2) BY <1>1, <1>2, <2>1, StepGood
  <2>3. mode' \in Modes /\ leaky' \in BOOLEAN /\ touched' \subseteq Paths BY <1>2, <2>1, StepFrame
  <2>4. GoodNow(I2, J2)' /\ MemoryNow(I2, J2)' /\ TreeStep BY <2>2 DEF StepOK
  <2>5. FsInv' BY <2>1, <2>3, <2>4 DEF FsInv
  <2>6. Sees BY <1>3, NextSees
  <2> QED BY <2>4, <2>5, <2>6 DEF TreeStep
<1>4. CASE UNCHANGED vars
  <2>1. mode' = mode /\ staged' = staged /\ logged' = logged /\ home' = home /\ open' = open /\ tree' = tree
        /\ touched' = touched /\ leaky' = leaky /\ saved' = saved
    BY <1>4 DEF vars
  <2>2. GoodNow(I, J)' BY <1>1, <2>1 DEF GoodNow
  <2>3. MemoryNow(I, J)' BY <1>1, <2>1 DEF MemoryNow
  <2>4. Now' = Now BY <2>1 DEF Now, Begin
  <2>5. tree' = TreeOf(Now)' BY <1>2, <2>1, <2>4 DEF TreeOf
  <2>6. FsInv' BY <1>2, <2>1, <2>2, <2>3, <2>5 DEF FsInv
  <2>7. [Tree!Forward]_(Tree!vars) BY <2>1 DEF Tree!vars
  <2> QED BY <2>6, <2>7
<1> QED BY <1>3, <1>4

(* The inductive invariant holds in every reachable state, in both data     *)
(* modes, for every number of inodes, data blocks, directory entries and    *)
(* units of a block, for all paths and bounds, with an inode table that     *)
(* holds its inodes: the structure the running system sees and the one      *)
(* every crash image recovers to are both consistent.                       *)
THEOREM FsInvariant == ASSUME FsQuiet PROVE Spec => []FsInv
<1>1. Init => FsInv BY InitInv
<1>2. FsInv /\ [Next]_vars => FsInv' BY NextInv
<1> QED BY <1>1, <1>2, PTL DEF Spec

(* The file system implements the tree of module FileTree, in both data     *)
(* modes, for every layout whose inode table holds its inodes (fs.c:60 has  *)
(* others), and all paths and bounds: through bitmaps, inodes, directory    *)
(* blocks, staging table, log and device, every callback has the effect of  *)
(* one operation of the tree or none, and a crash or a failed commit brings *)
(* back the committed tree with the guarantee of the data mode              *)
(* (docs/DESIGN.md section 9), if no file shows old bytes of a reused       *)
(* block.                                                                   *)
THEOREM FsImplementsTree ==
  ASSUME FsQuiet, "expose" \notin Conditions PROVE Spec => ImplementsFileTree
<1>1. Init => FsInv /\ Tree!Init BY InitInv
<1>2. FsInv /\ [Next]_vars => FsInv' /\ [Tree!Next]_(Tree!vars) BY NextInv DEF Undone, Tree!Next
<1> QED BY <1>1, <1>2, PTL DEF Spec, ImplementsFileTree, Tree!Spec

(* Commits and checkpoints show nothing.                                    *)
LEMMA Invisible ==
  ASSUME FsInv, [Next]_vars, Commit \/ Checkpoint
  PROVE  UNCHANGED tree
<1>1. CASE Next
  <2>1. PICK I, J : GoodNow(I, J) /\ MemoryNow(I, J) BY DEF FsInv
  <2>2. tree = TreeOf(Now) BY DEF FsInv
  <2>3. Sees BY <1>1, NextSees
  <2>4. CASE Commit BY <2>1, <2>2, <2>3, <2>4, CommitStep
  <2>5. CASE Checkpoint BY <2>1, <2>2, <2>3, <2>5, CheckpointStep
  <2> QED BY <2>4, <2>5
<1>2. CASE UNCHANGED vars BY <1>2 DEF vars
<1> QED BY <1>1, <1>2

(* Only a failed commit and a crash take anything back, for every layout    *)
(* whose table holds its inodes and all paths and bounds: every other step  *)
(* goes forward in the tree or leaves it alone, and commits and checkpoints *)
(* are invisible.                                                           *)
THEOREM FailuresAloneRevert ==
  ASSUME FsQuiet, "expose" \notin Conditions PROVE Spec => OnlyFailuresRevert
<1>1. Init => FsInv BY InitInv
<1>2. FsInv /\ [Next]_vars => FsInv' BY NextInv
<1>3. FsInv /\ [Next]_vars =>
        [/\ Tree!Forward \/ UNCHANGED Tree!vars \/ CommitFails \/ Crash
         /\ Commit \/ Checkpoint => UNCHANGED tree]_vars
  <2>1. SUFFICES ASSUME FsInv, [Next]_vars
                 PROVE  /\ Tree!Forward \/ UNCHANGED Tree!vars \/ CommitFails \/ Crash
                        /\ Commit \/ Checkpoint => UNCHANGED tree
    OBVIOUS
  <2>2. Tree!Forward \/ UNCHANGED Tree!vars \/ CommitFails \/ Crash BY <2>1, NextInv DEF Undone
  <2> QED BY <2>1, <2>2, Invisible
<1> QED BY <1>1, <1>2, <1>3, PTL DEF Spec, OnlyFailuresRevert

-----------------------------------------------------------------------------
(* The properties. *)

(* What the properties speak of, in terms of a naming: the walk that makes  *)
(* the tree finds the paths of I, and their inodes.                         *)
View(I) ==
  /\ StorageOK(Now) /\ Sound(Now, I) /\ Linked(Now, I) /\ (leaky \/ Tight(Now, I))
  /\ DOMAIN tree = DOMAIN I /\ Reachable = {I[p] : p \in DOMAIN I}
  /\ \A p \in DOMAIN I : Lookup(p) = I[p] /\ tree[p].type = Attr(I[p]).type

(* The tree a walk sees is that of the naming.                              *)
LEMMA TreeView ==
  ASSUME NEW I, Sound(Now, I), tree = TreeOf(Now)
  PROVE  /\ DOMAIN tree = DOMAIN I /\ Reachable = {I[p] : p \in DOMAIN I}
         /\ \A p \in DOMAIN I : Lookup(p) = I[p] /\ tree[p].type = Attr(I[p]).type
<1>1. Naming(I) BY DEF Sound
<1>2. \A p \in {<<>>} \cup Paths : p \in Seq(Names)
  <2>1. <<>> \in Seq(Names) OBVIOUS
  <2> QED BY <2>1, PathFacts
<1>3. \A p \in {<<>>} \cup Paths : Lookup(p) = IF p \in DOMAIN I THEN I[p] ELSE 0
  BY <1>2, PathLookup DEF Lookup
<1>4. \A p \in DOMAIN I : I[p] # 0 BY <1>1 DEF Naming, Inodes
<1>5. DOMAIN I = {<<>>} \cup {q \in Paths : Lookup(q) # 0}
  BY <1>1, <1>3, <1>4 DEF Naming
<1>6. DOMAIN tree = DOMAIN I BY <1>5 DEF TreeOf, Lookup
<1>7. \A p \in DOMAIN I : Lookup(p) = I[p] BY <1>1, <1>3 DEF Naming
<1>8. Reachable = {I[p] : p \in DOMAIN I} BY <1>6, <1>7 DEF Reachable
<1>9. ASSUME NEW p \in DOMAIN I PROVE tree[p].type = Attr(I[p]).type
  <2> DEFINE type == logfs_inode_read(Now, logfs_path_lookup(Now, p)).type
             data == logfs_op_read(Now, logfs_path_lookup(Now, p))
  <2>1. p \in DOMAIN tree BY <1>6
  <2>2. tree[p] = IF type = "file" THEN [type |-> type, data |-> data] ELSE [type |-> type]
    BY <2>1 DEF TreeOf
  <2> HIDE DEF type, data
  <2>3. tree[p].type = type BY <2>2
  <2> QED BY <1>7, <2>3 DEF type, Attr, Lookup
<1> QED BY <1>6, <1>7, <1>8, <1>9

(* The invariant gives such a naming.                                       *)
LEMMA InvView == ASSUME FsInv PROVE \E I : View(I)
<1>1. PICK I, J : GoodNow(I, J) BY DEF FsInv
<1>2. Good(mode, staged, logged, home, open, leaky, I, J) BY <1>1 DEF GoodNow
<1>3. Now = At(staged, logged, home) BY DEF Now, Begin, At
<1>4. StorageOK(Now) /\ Consistent(Now, I, leaky) BY <1>2, <1>3, GoodParts
<1>5. Sound(Now, I) /\ Linked(Now, I) /\ (leaky \/ Tight(Now, I)) BY <1>4 DEF Consistent
<1>6. tree = TreeOf(Now) BY DEF FsInv
<1>7. View(I) BY <1>4, <1>5, <1>6, TreeView DEF View
<1> QED BY <1>7

(* The type invariant follows from the invariant.                           *)
LEMMA InvTypes == FsInv => TypeOK
<1> SUFFICES ASSUME FsInv PROVE TypeOK OBVIOUS
<1>1. PICK I, J : GoodNow(I, J) BY DEF FsInv
<1>2. Good(mode, staged, logged, home, open, leaky, I, J) BY <1>1 DEF GoodNow
<1>3. /\ CopiesOK(staged) /\ LogOK(logged) /\ RegionOK(home)
      /\ Consistent(At(staged, logged, home), I, leaky)
      /\ \A ino \in open : LiveFile(At(staged, logged, home), I, ino)
  BY <1>2, GoodParts
<1>4. Naming(I) BY <1>3 DEF Consistent, Sound
<1>5. open \subseteq Inodes BY <1>3, <1>4 DEF LiveFile, Naming
<1>6. mode \in Modes /\ leaky \in BOOLEAN /\ touched \subseteq Paths BY DEF FsInv
<1>7. /\ DOMAIN home.cur = Device /\ DOMAIN home.alt = Device
      /\ \A b \in Device : \A c \in home.alt[b] \cup {home.cur[b]} : ContentOK(b, c)
  BY <1>3 DEF RegionOK
<1>8. DOMAIN staged \subseteq Device /\ \A b \in DOMAIN staged : ContentOK(b, staged[b])
  BY <1>3 DEF CopiesOK
<1>9. \A i \in DOMAIN logged : /\ DOMAIN logged[i] \subseteq Device
                               /\ \A b \in DOMAIN logged[i] : ContentOK(b, logged[i][b])
  BY <1>3 DEF LogOK, CopiesOK
<1> QED BY <1>5, <1>6, <1>7, <1>8, <1>9 DEF TypeOK

(* A pointer of a reachable inode is one of a named inode.                  *)
LEMMA PointerOf ==
  ASSUME NEW I, View(I), NEW x \in Pointers
  PROVE  \E p \in DOMAIN I, k \in Ks : /\ x = <<I[p], k>> /\ Target(x) = Ptr(Now, I[p], k)
                                       /\ Ptr(Now, I[p], k) # 0
<1>1. x \in Reachable \X (1 .. NDirBlocks) /\ Target(x) # 0 BY DEF Pointers
<1>2. x[1] \in Reachable /\ x[2] \in Ks /\ x = <<x[1], x[2]>> BY <1>1 DEF Ks
<1>3. PICK p \in DOMAIN I : x[1] = I[p] BY <1>2 DEF View
<1>4. Target(x) = Ptr(Now, I[p], x[2]) BY <1>3 DEF Target, Attr, Ptr
<1> QED BY <1>1, <1>2, <1>3, <1>4

(* ... and the other way round.                                             *)
LEMMA PointerIn ==
  ASSUME NEW I, View(I), NEW p \in DOMAIN I, NEW k \in Ks, Ptr(Now, I[p], k) # 0
  PROVE  <<I[p], k>> \in Pointers /\ Target(<<I[p], k>>) = Ptr(Now, I[p], k)
<1>1. I[p] \in Reachable BY DEF View
<1>2. Target(<<I[p], k>>) = Ptr(Now, I[p], k) BY DEF Target, Attr, Ptr
<1> QED BY <1>1, <1>2 DEF Pointers, Ks

(* BlocksOwned follows from the invariant.                                  *)
LEMMA InvOwned == FsInv => BlocksOwned
<1> SUFFICES ASSUME FsInv PROVE BlocksOwned OBVIOUS
<1>1. PICK I : View(I) BY InvView
<1>2. Owners(Now, I) BY <1>1 DEF View, Sound
<1>3. ASSUME NEW x \in Pointers, NEW y \in Pointers, Target(x) = Target(y) PROVE x = y
  <2>1. PICK p \in DOMAIN I, k \in Ks : /\ x = <<I[p], k>> /\ Target(x) = Ptr(Now, I[p], k)
                                        /\ Ptr(Now, I[p], k) # 0
    BY <1>1, PointerOf
  <2>2. PICK q \in DOMAIN I, j \in Ks : y = <<I[q], j>> /\ Target(y) = Ptr(Now, I[q], j)
    BY <1>1, PointerOf
  <2>3. Owner(Now, I, p, k) BY <1>2 DEF Owners
  <2>4. q = p /\ j = k BY <1>3, <2>1, <2>2, <2>3 DEF Owner
  <2> QED BY <2>1, <2>2, <2>4
<1>4. ASSUME NEW x \in Pointers PROVE Target(x) \in Allocated(block_bitmap_start)
  <2>1. PICK p \in DOMAIN I, k \in Ks : Target(x) = Ptr(Now, I[p], k) /\ Ptr(Now, I[p], k) # 0
    BY <1>1, PointerOf
  <2>2. Owner(Now, I, p, k) BY <1>2 DEF Owners
  <2> QED BY <2>1, <2>2 DEF Owner, BB, Allocated
<1> QED BY <1>3, <1>4 DEF BlocksOwned

(* BlockKinds follows from the invariant.                                   *)
LEMMA InvKinds == FsInv => BlockKinds
<1> SUFFICES ASSUME FsInv, NEW x \in Pointers
             PROVE  logfs_txn_read_block(Now, Target(x)).kind = Attr(x[1]).type
  BY DEF BlockKinds
<1>1. PICK I : View(I) BY InvView
<1>2. PICK p \in DOMAIN I, k \in Ks : /\ x = <<I[p], k>> /\ Target(x) = Ptr(Now, I[p], k)
                                      /\ Ptr(Now, I[p], k) # 0
  BY <1>1, PointerOf
<1>3. Owner(Now, I, p, k) BY <1>1 DEF View, Sound, Owners
<1>4. x[1] = I[p] BY <1>2
<1> QED BY <1>2, <1>3, <1>4 DEF Owner, R, Attr

(* NoLeakWithoutError follows from the invariant.                           *)
LEMMA InvTight == FsInv => NoLeakWithoutError
<1> SUFFICES ASSUME FsInv, ~leaky
             PROVE  /\ Allocated(inode_bitmap_start) = Reachable
                    /\ Allocated(block_bitmap_start) = {Target(x) : x \in Pointers}
  BY DEF NoLeakWithoutError
<1>1. PICK I : View(I) BY InvView
<1>2. Placed(Now, I) /\ Owners(Now, I) /\ Tight(Now, I) BY <1>1 DEF View, Sound
<1>3. Reachable = {I[p] : p \in DOMAIN I} BY <1>1 DEF View
<1>4. IB(Now) = Reachable BY <1>2, <1>3 DEF Placed, Tight
<1>5. ASSUME NEW b \in BB(Now) PROVE \E x \in Pointers : Target(x) = b
  <2>1. PICK p \in DOMAIN I, k \in Ks : Ptr(Now, I[p], k) = b BY <1>2 DEF Tight
  <2>2. b # 0
    <3>1. BB(Now) \subseteq DataBlocks BY <1>1, BitmapsTyped DEF View
    <3> QED BY <3>1, Layout
  <2> QED BY <1>1, <2>1, <2>2, PointerIn
<1>6. ASSUME NEW x \in Pointers PROVE Target(x) \in BB(Now)
  <2>1. PICK p \in DOMAIN I, k \in Ks : Target(x) = Ptr(Now, I[p], k) /\ Ptr(Now, I[p], k) # 0
    BY <1>1, PointerOf
  <2>2. Owner(Now, I, p, k) BY <1>2 DEF Owners
  <2> QED BY <2>1, <2>2 DEF Owner
<1>7. BB(Now) = {Target(x) : x \in Pointers} BY <1>5, <1>6
<1> QED BY <1>4, <1>7 DEF Allocated, IB, BB

(* LinkCounts follows from the invariant.                                   *)
LEMMA InvLinks == FsInv => LinkCounts
<1> SUFFICES ASSUME FsInv, NEW p \in DOMAIN tree
             PROVE  LET subdirs == {q \in DOMAIN tree \ {<<>>} : Front(q) = p /\ tree[q].type = "dir"}
                    IN  Attr(Lookup(p)).nlink = IF tree[p].type = "dir" THEN 2 + Cardinality(subdirs) ELSE 1
  BY DEF LinkCounts
<1> DEFINE subdirs == {q \in DOMAIN tree \ {<<>>} : Front(q) = p /\ tree[q].type = "dir"}
<1>1. PICK I : View(I) BY InvView
<1>2. /\ DOMAIN tree = DOMAIN I /\ Linked(Now, I)
      /\ \A q \in DOMAIN I : Lookup(q) = I[q] /\ tree[q].type = Attr(I[q]).type
  BY <1>1 DEF View
<1>3. subdirs = Subdirs(Now, I, p) BY <1>2 DEF Subdirs, Child, IsDir, Attr
<1>4. Attr(I[p]).nlink = LinkCount(Now, I, p) BY <1>2 DEF Linked, Attr
<1>5. IsDir(Now, I[p]) <=> tree[p].type = "dir" BY <1>2 DEF IsDir, Attr
<1> HIDE DEF subdirs
<1>6. LinkCount(Now, I, p) = IF tree[p].type = "dir" THEN 2 + Cardinality(subdirs) ELSE 1
  BY <1>3, <1>5 DEF LinkCount
<1> QED BY <1>2, <1>4, <1>6 DEF subdirs

(* DirectoriesSound follows from the invariant.                             *)
LEMMA InvDirectories == FsInv => DirectoriesSound
<1> SUFFICES ASSUME FsInv PROVE DirectoriesSound OBVIOUS
<1>1. PICK I : View(I) BY InvView
<1>2. /\ DOMAIN tree = DOMAIN I /\ Sound(Now, I) /\ Reachable = {I[p] : p \in DOMAIN I}
      /\ \A q \in DOMAIN I : Lookup(q) = I[q] /\ tree[q].type = Attr(I[q]).type
  BY <1>1 DEF View
<1>3. Naming(I) /\ Placed(Now, I) BY <1>2 DEF Sound
<1>4. Cardinality(Reachable) = Cardinality(DOMAIN tree) BY <1>2, <1>3, FiniteNaming
<1>5. Reachable \subseteq Allocated(inode_bitmap_start) BY <1>2, <1>3 DEF Placed, Allocated, IB
<1>6. ASSUME NEW p \in DOMAIN tree
      PROVE LET ino == Lookup(p)
                parent == IF p = <<>> THEN ino ELSE Lookup(Front(p))
                names == logfs_op_readdir(Now, ino)
            IN  /\ p # <<>> => logfs_dir_lookup(Now, parent, Last(p)).type = tree[p].type
                /\ tree[p].type = "dir" =>
                     /\ \A i, k \in DOMAIN names : names[i] = names[k] => i = k
                     /\ logfs_dir_lookup(Now, ino, ".").ino = ino
                     /\ logfs_dir_lookup(Now, ino, "..").ino = parent
  <2> DEFINE ino == Lookup(p)
             parent == IF p = <<>> THEN ino ELSE Lookup(Front(p))
             names == logfs_op_readdir(Now, ino)
             in == logfs_inode_read(Now, I[p])
  <2>1. p \in DOMAIN I /\ ino = I[p] /\ tree[p].type = in.type BY <1>2 DEF Attr
  <2>2. Above(p) \in DOMAIN I /\ IsDir(Now, I[Above(p)]) BY <1>3, <2>1 DEF Placed
  <2>3. parent = I[Above(p)] BY <1>2, <2>1, <2>2 DEF Above
  <2>4. ASSUME p # <<>> PROVE logfs_dir_lookup(Now, parent, Last(p)).type = tree[p].type
    <3>1. Child(I, Above(p), p) BY <2>1, <2>4 DEF Child, Above
    <3>2. logfs_dir_lookup(Now, I[Above(p)], Last(p)).type = in.type BY <1>2, <2>2, <3>1, DirLookup
    <3> QED BY <2>1, <2>3, <3>2
  <2>5. ASSUME tree[p].type = "dir"
        PROVE  /\ logfs_dir_lookup(Now, ino, ".").ino = ino
               /\ logfs_dir_lookup(Now, ino, "..").ino = parent
    <3>1. IsDir(Now, I[p]) BY <2>1, <2>5 DEF IsDir
    <3> QED BY <1>2, <2>1, <2>3, <3>1, DirLookup
  <2>6. ASSUME tree[p].type = "dir", NEW i \in DOMAIN names, NEW k \in DOMAIN names, names[i] = names[k]
        PROVE  i = k
    <3>1. IsDir(Now, I[p]) BY <2>1, <2>6 DEF IsDir
    <3>2. OneEach(Now, in) BY <1>2, <2>1, <3>1 DEF Sound, Listed
    <3>3. names = [x \in Used(Now, in) |-> Entry(Now, in, x).name]
      BY <2>1 DEF logfs_op_readdir, Used
    <3> HIDE DEF names, in
    <3>4. /\ i \in Used(Now, in) /\ k \in Used(Now, in)
          /\ names[i] = Entry(Now, in, i).name /\ names[k] = Entry(Now, in, k).name
      BY <2>6, <3>3
    <3> QED BY <2>6, <3>2, <3>4 DEF OneEach
  <2> HIDE DEF ino, parent, names
  <2> QED BY <2>4, <2>5, <2>6 DEF ino, parent, names
<1> QED BY <1>4, <1>5, <1>6 DEF DirectoriesSound

(* Whatever is staged, logged, replayed, written in place or torn by a      *)
(* power loss, every block holds what its place in the layout says, if the  *)
(* layout's inode table holds its inodes.                                   *)
THEOREM TypesHold == ASSUME FsQuiet PROVE Spec => []TypeOK
BY FsInvariant, InvTypes, PTL

(* No sequence of operations, errors, commits, failed commits, checkpoints  *)
(* and crashes gives a block two owners, or leaves a reachable inode with a *)
(* block that the bitmap shows as free.                                     *)
THEOREM BlocksAreOwned == ASSUME FsQuiet PROVE Spec => []BlocksOwned
BY FsInvariant, InvOwned, PTL

(* The directories always form a tree of live inodes, also after every      *)
(* crash.                                                                   *)
THEOREM DirectoriesStaySound == ASSUME FsQuiet PROVE Spec => []DirectoriesSound
BY FsInvariant, InvDirectories, PTL

(* Link counts are always those of the tree, so that unlink frees a file    *)
(* exactly when its last name goes.                                         *)
THEOREM LinksAreCounted == ASSUME FsQuiet PROVE Spec => []LinkCounts
BY FsInvariant, InvLinks, PTL

(* A directory's blocks always read as entries and a file's as data, also   *)
(* after the replay of old copies over a device that kept any mixture of    *)
(* old, new and torn data.                                                  *)
THEOREM BlocksKeepTheirKind == ASSUME FsQuiet PROVE Spec => []BlockKinds
BY FsInvariant, InvKinds, PTL

(* Until an operation has reported an error, nothing is allocated that no   *)
(* path leads to, in the running system and after every crash.              *)
THEOREM ErrorsAloneLeak == ASSUME FsQuiet PROVE Spec => []NoLeakWithoutError
BY FsInvariant, InvTight, PTL
=============================================================================
