-------------------------- MODULE DirectoryProofs ---------------------------
(***************************************************************************)
(* What the helpers of inode.c and the namespace operations of fs_ops.c do *)
(* to the structure of the file system: from storage whose blocks are of   *)
(* the right kinds and a tree of names that is sound, each leads to such   *)
(* storage and such a tree, whichever of its calls fails.  Module          *)
(* FileSystemProofs builds the invariant of the specification on these     *)
(* lemmas.                                                                 *)
(***************************************************************************)
EXTENDS FileSystem, TLAPS, FiniteSetTheorems, NaturalsInduction, WellFoundedInduction

-----------------------------------------------------------------------------
(* Storage, bitmaps, inodes, the structure of the tree, lookups. *)

(* A nonempty set of numbers has a least element: find_free_bit returns a   *)
(* clear bit if there is one, and the lowest.                               *)
LEMMA LeastNat ==
  ASSUME NEW S, S \subseteq Nat, S # {}
  PROVE  Least(S) \in S /\ \A y \in S : Least(S) <= y
<1>1. \E x \in S : \A y \in S : x <= y
  <2>1. PICK m \in S : \A z \in S : ~(<<z, m>> \in OpToRel(<, Nat))
    BY NatLessThanWellFounded, WFMin
  <2>2. ASSUME NEW y \in S PROVE m <= y
    <3>1. OpToRel(<, Nat) = {ss \in Nat \X Nat : ss[1] < ss[2]}
      BY Zenon DEF OpToRel
    <3>2. ~(<<y, m>> \in {ss \in Nat \X Nat : ss[1] < ss[2]})
      BY <2>1, <3>1
    <3> QED BY <3>2
  <2> QED BY <2>2
<1> QED BY <1>1 DEF Least

(* The first slot of a nonempty set of slots is one of them: the loops over *)
(* a directory stop at a slot that qualifies, block by block and entry by   *)
(* entry.                                                                   *)
LEMMA FirstOfSlots ==
  ASSUME NEW S, S \subseteq (1 .. NDirBlocks) \X (1 .. DirentsPerBlock), S # {}
  PROVE  FirstSlot(S) \in S
<1> DEFINE Rows == {x[1] : x \in S}
           k == Least(Rows)
           Cols == {x[2] : x \in {y \in S : y[1] = k}}
           e == Least(Cols)
<1>1. k \in Rows /\ \A y \in Rows : k <= y
  <2>1. Rows \subseteq Nat /\ Rows # {}
    BY FileSystemAssumption
  <2> HIDE DEF Rows
  <2> QED BY <2>1, LeastNat DEF k
<1>2. e \in Cols /\ \A y \in Cols : e <= y
  <2>1. Cols \subseteq Nat /\ Cols # {}
    <3> HIDE DEF k
    <3> QED BY <1>1, FileSystemAssumption
  <2> HIDE DEF Cols
  <2> QED BY <2>1, LeastNat DEF e
<1>3. PICK x \in S : x[1] = k /\ x[2] = e
  <2> HIDE DEF k, e
  <2> QED BY <1>2
<1>4. ASSUME NEW y \in S PROVE x[1] < y[1] \/ (x[1] = y[1] /\ x[2] <= y[2])
  <2>1. k \in Nat /\ y[1] \in Nat /\ k <= y[1]
    BY <1>1 DEF Rows
  <2>2. CASE y[1] = k
    <3>1. y[2] \in Cols BY <2>2
    <3> HIDE DEF k, e
    <3> QED BY <1>2, <1>3, <2>2, <3>1
  <2>3. CASE y[1] # k
    <3> HIDE DEF k, e
    <3> QED BY <1>3, <2>1, <2>3
  <2> QED BY <2>2, <2>3
<1> HIDE DEF k, e
<1>5. \E z \in S : \A y \in S : z[1] < y[1] \/ (z[1] = y[1] /\ z[2] <= y[2])
  BY <1>4
<1> QED BY <1>5 DEF FirstSlot
-----------------------------------------------------------------------------
(* inode_location() stays inside the inode table, before the data blocks,   *)
(* for every inode number mkfs provided for.                                *)
LEMMA LocationOK ==
  ASSUME NEW i \in Inodes
  PROVE  /\ inode_location(i) \in Nat /\ inode_location(i) >= 3
         /\ inode_location(i) < data_start
         /\ inode_location(i) \in Table
<1>1. inode_location(i) \in Nat /\ inode_location(i) >= 3
  BY FileSystemAssumption DEF inode_location, Inodes, inode_table_start
<1>2. TotalInodes \in Inodes /\ i <= TotalInodes
  BY FileSystemAssumption DEF Inodes
<1>3. inode_location(i) <= inode_location(TotalInodes)
  BY <1>2, FileSystemAssumption DEF inode_location, Inodes, inode_table_start
<1>4. inode_location(TotalInodes) \in Nat
  BY <1>2, FileSystemAssumption DEF inode_location, Inodes, inode_table_start
<1> QED BY <1>1, <1>3, <1>4 DEF data_start, Table

(* The two bitmaps, the inode table and the data blocks do not overlap and  *)
(* make up the device; no block of the table or of the data is block 0,     *)
(* which stands for a null pointer.                                         *)
LEMMA Layout ==
  /\ data_start \in Nat /\ data_start > 3
  /\ inode_bitmap_start = 1 /\ block_bitmap_start = 2
  /\ DataBlocks \subseteq Nat /\ 0 \notin DataBlocks
  /\ DataBlocks \cap Table = {} /\ 1 \notin DataBlocks /\ 2 \notin DataBlocks
  /\ 1 \notin Table /\ 2 \notin Table /\ 0 \notin Table
  /\ DataBlocks \subseteq Device /\ Table \subseteq Device /\ 1 \in Device /\ 2 \in Device
  /\ \A b \in Device : b = 1 \/ b = 2 \/ b \in Table \/ b \in DataBlocks
<1>1. data_start \in Nat /\ data_start > 3
  <2>1. TotalInodes \in Inodes BY FileSystemAssumption DEF Inodes
  <2> QED BY <2>1, LocationOK DEF data_start
<1>2. \A b \in Table : b \in Nat /\ b >= 3 /\ b < data_start
  BY LocationOK DEF Table
<1>3. DataBlocks \subseteq Nat /\ \A b \in DataBlocks : b >= data_start
  BY <1>1, FileSystemAssumption DEF DataBlocks
<1> QED BY <1>1, <1>2, <1>3 DEF Device, inode_bitmap_start, block_bitmap_start
-----------------------------------------------------------------------------
(* What logfs_txn_read_block returns for block b.                           *)
R(s, b) == logfs_txn_read_block(s, b)

(* s has the fields of a call in progress, and no others.                   *)
IsCall(s) ==
  s = [rc |-> s.rc, out |-> s.out, staged |-> s.staged, logged |-> s.logged,
       home |-> s.home, fresh |-> s.fresh, calls |-> s.calls, fail |-> s.fail]

(* Every content the device has, or may have after a power loss, is of the  *)
(* kind its place in the layout says.                                       *)
RegionOK(h) ==
  /\ h = [cur |-> h.cur, alt |-> h.alt]
  /\ DOMAIN h.cur = Device /\ DOMAIN h.alt = Device /\ h.cur = [b \in Device |-> h.cur[b]]
  /\ \A b \in Device : ContentOK(b, h.cur[b]) /\ \A c \in h.alt[b] : ContentOK(b, c)

(* So is every staged or logged copy in f.                                  *)
CopiesOK(f) == DOMAIN f \subseteq Device /\ \A b \in DOMAIN f : ContentOK(b, f[b])

(* So is every transaction of the log.                                      *)
LogOK(log) ==
  /\ Len(log) \in Nat /\ log = [i \in 1 .. Len(log) |-> log[i]]
  /\ \A i \in DOMAIN log : CopiesOK(log[i])

(* So is every block, wherever it is, in what call s sees.                  *)
StorageOK(s) == IsCall(s) /\ CopiesOK(s.staged) /\ LogOK(s.logged) /\ RegionOK(s.home)

(* Among the logged copies of a block one is the newest, and it is the one  *)
(* that logfs_txn_read_block takes.                                         *)
LEMMA NewestCopy ==
  ASSUME NEW s, LogOK(s.logged), NEW b, Copies(s, b) # {}
  PROVE  \E i \in Copies(s, b) : /\ \A k \in Copies(s, b) : k <= i
                                 /\ i = CHOOSE j \in Copies(s, b) : \A k \in Copies(s, b) : k <= j
<1> DEFINE T == {Len(s.logged) - i : i \in Copies(s, b)}
<1>1. Copies(s, b) \subseteq 1 .. Len(s.logged) /\ Len(s.logged) \in Nat
  BY DEF Copies, LogOK
<1>2. T \subseteq Nat /\ T # {}
  BY <1>1
<1>3. Least(T) \in T /\ \A y \in T : Least(T) <= y
  <2> HIDE DEF T
  <2> QED BY <1>2, LeastNat
<1>4. PICK i \in Copies(s, b) : Least(T) = Len(s.logged) - i
  BY <1>3
<1>5. \A k \in Copies(s, b) : k <= i
  <2> TAKE k \in Copies(s, b)
  <2>1. Len(s.logged) - k \in T OBVIOUS
  <2>2. Least(T) <= Len(s.logged) - k BY <1>3, <2>1
  <2> HIDE DEF T
  <2> QED BY <1>1, <1>4, <2>2
<1> QED BY <1>5

(* A read returns content of the kind the block's place in the layout says, *)
(* whether it comes from the staging table, from the log or from the        *)
(* device.                                                                  *)
LEMMA ReadTyped ==
  ASSUME NEW s, CopiesOK(s.staged), LogOK(s.logged), RegionOK(s.home), NEW b \in Device
  PROVE  ContentOK(b, R(s, b))
<1>1. CASE b \in DOMAIN s.staged
  BY <1>1 DEF R, logfs_txn_read_block, CopiesOK
<1>2. CASE b \notin DOMAIN s.staged /\ Copies(s, b) = {}
  BY <1>2 DEF R, logfs_txn_read_block, RegionOK
<1>3. CASE b \notin DOMAIN s.staged /\ Copies(s, b) # {}
  <2>1. PICK i \in Copies(s, b) : i = CHOOSE j \in Copies(s, b) : \A k \in Copies(s, b) : k <= j
    BY <1>3, NewestCopy
  <2>2. R(s, b) = s.logged[i][b]
    BY <1>3, <2>1 DEF R, logfs_txn_read_block
  <2> QED BY <2>2 DEF Copies, LogOK, CopiesOK
<1> QED BY <1>1, <1>2, <1>3

(* logfs_txn_get_write_access stages a copy of the block, or fails, and     *)
(* changes nothing that a reader sees.                                      *)
LEMMA AccessEffect ==
  ASSUME NEW s, StorageOK(s), NEW b \in Device,
         NEW t, t = logfs_txn_get_write_access(s, b)
  PROVE  /\ StorageOK(t) /\ t.home = s.home /\ t.logged = s.logged
         /\ t.out = s.out /\ t.fresh = s.fresh
         /\ s.rc # "ok" => t = s
         /\ t.rc \in {s.rc, "EIO"}
         /\ DOMAIN s.staged \subseteq DOMAIN t.staged
         /\ DOMAIN t.staged \subseteq DOMAIN s.staged \cup {b}
         /\ t.rc = "ok" => b \in DOMAIN t.staged
         /\ \A x \in Device : R(t, x) = R(s, x)
<1>1. CASE s.rc # "ok" \/ b \in DOMAIN s.staged
  BY <1>1 DEF logfs_txn_get_write_access
<1>2. CASE s.rc = "ok" /\ b \notin DOMAIN s.staged /\ Fallible(s).rc # "ok"
  <2>1. t = Fallible(s) BY <1>2 DEF logfs_txn_get_write_access
  <2>2. /\ IsCall(t) /\ t.home = s.home /\ t.logged = s.logged /\ t.staged = s.staged
        /\ t.out = s.out /\ t.fresh = s.fresh /\ t.rc = "EIO"
    BY <1>2, <2>1 DEF Fallible, IsCall, StorageOK
  <2>3. \A x : R(t, x) = R(s, x)
    BY <2>2 DEF R, logfs_txn_read_block, Copies
  <2> QED BY <1>2, <2>2, <2>3 DEF StorageOK
<1>3. CASE s.rc = "ok" /\ b \notin DOMAIN s.staged /\ Fallible(s).rc = "ok"
  <2> DEFINE g == [x \in DOMAIN s.staged \cup {b} |-> R(s, x)]
  <2>1. /\ IsCall(t) /\ t.home = s.home /\ t.logged = s.logged /\ t.staged = g
        /\ t.out = s.out /\ t.fresh = s.fresh /\ t.rc = "ok"
    BY <1>3 DEF Fallible, IsCall, StorageOK, logfs_txn_get_write_access, R
  <2>2. CopiesOK(g)
    BY ReadTyped DEF CopiesOK, StorageOK
  <2>3. ASSUME NEW x \in Device PROVE R(t, x) = R(s, x)
    <3>1. CASE x \in DOMAIN g
      BY <2>1, <3>1 DEF R, logfs_txn_read_block
    <3>2. CASE x \notin DOMAIN g
      BY <2>1, <3>2 DEF R, logfs_txn_read_block, Copies
    <3> QED BY <3>1, <3>2
  <2> QED BY <1>3, <2>1, <2>2, <2>3 DEF StorageOK
<1> QED BY <1>1, <1>2, <1>3

(* From s to t block b was made writable and given content c, or nothing a  *)
(* reader sees has changed.                                                 *)
PutOK(s, t, b, c) ==
  /\ StorageOK(t) /\ t.home = s.home /\ t.logged = s.logged
  /\ t.out = s.out /\ t.fresh = s.fresh
  /\ DOMAIN t.staged \subseteq DOMAIN s.staged \cup {b}
  /\ s.rc # "ok" => t = s
  /\ t.rc = "ok" \/ t.rc = s.rc \/ t.rc = "EIO"
  /\ t.rc = "ok" => s.rc = "ok" /\ b \in DOMAIN t.staged /\ R(t, b) = c
                    /\ \A x \in Device \ {b} : R(t, x) = R(s, x)
  /\ t.rc # "ok" => \A x \in Device : R(t, x) = R(s, x)

(* Put does that, for content of the right kind.                            *)
LEMMA PutEffect ==
  ASSUME NEW s, StorageOK(s), NEW b \in Device, NEW c, ContentOK(b, c)
  PROVE  PutOK(s, Put(s, b, c), b, c)
<1> DEFINE t == logfs_txn_get_write_access(s, b)
           u == Put(s, b, c)
<1>1. /\ StorageOK(t) /\ t.home = s.home /\ t.logged = s.logged
      /\ t.out = s.out /\ t.fresh = s.fresh
      /\ s.rc # "ok" => t = s
      /\ t.rc \in {s.rc, "EIO"}
      /\ DOMAIN t.staged \subseteq DOMAIN s.staged \cup {b}
      /\ t.rc = "ok" => b \in DOMAIN t.staged
      /\ \A x \in Device : R(t, x) = R(s, x)
  BY AccessEffect
<1>2. u = IF t.rc # "ok" THEN t ELSE [t EXCEPT !.staged[b] = c]
  BY DEF Put
<1> HIDE DEF t, u
<1>3. CASE t.rc # "ok"
  BY <1>1, <1>2, <1>3 DEF PutOK, u
<1>4. CASE t.rc = "ok"
  <2>1. /\ IsCall(u) /\ u.home = s.home /\ u.logged = t.logged /\ u.logged = s.logged
        /\ u.out = s.out /\ u.fresh = s.fresh /\ u.rc = "ok"
        /\ u.staged = [t.staged EXCEPT ![b] = c]
    BY <1>1, <1>2, <1>4 DEF IsCall, StorageOK
  <2>2. DOMAIN u.staged = DOMAIN t.staged /\ u.staged[b] = c
        /\ \A x \in DOMAIN u.staged \ {b} : u.staged[x] = t.staged[x]
    BY <1>1, <1>4, <2>1
  <2>3. CopiesOK(u.staged)
    BY <1>1, <2>2 DEF CopiesOK, StorageOK
  <2>4. R(u, b) = c
    BY <1>1, <1>4, <2>2 DEF R, logfs_txn_read_block
  <2>5. ASSUME NEW x \in Device \ {b} PROVE R(u, x) = R(t, x)
    <3>1. u.home = t.home /\ u.logged = t.logged BY <1>1, <2>1
    <3>2. Copies(u, x) = Copies(t, x) BY <3>1 DEF Copies
    <3> QED BY <2>2, <3>1, <3>2 DEF R, logfs_txn_read_block
  <2>6. StorageOK(u)
    BY <1>1, <2>1, <2>3 DEF StorageOK
  <2>7. b \in DOMAIN u.staged /\ s.rc = "ok"
    BY <1>1, <1>4, <2>2
  <2> QED BY <1>1, <2>1, <2>2, <2>4, <2>5, <2>6, <2>7 DEF PutOK, u
<1> QED BY <1>3, <1>4
-----------------------------------------------------------------------------
(* The inode bitmap.                                                        *)
IB(s) == logfs_txn_read_block(s, inode_bitmap_start)

(* The block bitmap.                                                        *)
BB(s) == logfs_txn_read_block(s, block_bitmap_start)

(* From s to t only blocks of B have changed or were staged; after an       *)
(* error, none has changed.                                                 *)
Within(s, t, B) ==
  /\ StorageOK(t) /\ t.home = s.home /\ t.logged = s.logged
  /\ DOMAIN t.staged \subseteq DOMAIN s.staged \cup B
  /\ s.rc # "ok" => t = s
  /\ \A x \in Device \ B : R(t, x) = R(s, x)
  /\ t.rc # "ok" => \A x \in Device : R(t, x) = R(s, x)

(* The only new error is that of a failing malloc or device.                *)
OnlyEIO(s, t) == t.rc = "ok" \/ t.rc = s.rc \/ t.rc = "EIO"

(* One change of one block, as a change within {b}.                         *)
LEMMA PutWithin ==
  ASSUME NEW s, StorageOK(s), NEW b \in Device, NEW c, ContentOK(b, c), NEW t, t = Put(s, b, c)
  PROVE  /\ Within(s, t, {b}) /\ OnlyEIO(s, t) /\ t.fresh = s.fresh /\ t.out = s.out
         /\ t.rc = "ok" => s.rc = "ok" /\ R(t, b) = c
<1>1. PutOK(s, t, b, c) BY PutEffect
<1> QED BY <1>1 DEF PutOK, Within, OnlyEIO

(* What ContentOK says of each kind of block.                               *)
LEMMA BitmapTypes ==
  /\ \A c : ContentOK(inode_bitmap_start, c) <=> c \subseteq Inodes
  /\ \A c : ContentOK(block_bitmap_start, c) <=> c \subseteq DataBlocks
  /\ \A b \in Table : \A c : ContentOK(b, c) <=> c \in [InTable(b) -> Inode]
  /\ \A b \in DataBlocks : \A c : ContentOK(b, c) <=>
       \/ c \in [kind : {"dir"}, ents : [1 .. DirentsPerBlock -> Slot]]
       \/ c \in [kind : {"file"}, units : [1 .. BlockUnits -> Unit]]
<1> USE Layout
<1>1. \A c : ContentOK(inode_bitmap_start, c) <=> c \subseteq Inodes
  BY DEF ContentOK
<1>2. \A c : ContentOK(block_bitmap_start, c) <=> c \subseteq DataBlocks
  BY DEF ContentOK
<1>3. \A b \in Table : \A c : ContentOK(b, c) <=> c \in [InTable(b) -> Inode]
  BY DEF ContentOK
<1>4. \A b \in DataBlocks : \A c : ContentOK(b, c) <=>
       \/ c \in [kind : {"dir"}, ents : [1 .. DirentsPerBlock -> Slot]]
       \/ c \in [kind : {"file"}, units : [1 .. BlockUnits -> Unit]]
  BY DEF ContentOK
<1> QED BY <1>1, <1>2, <1>3, <1>4

(* The bitmaps mark inodes of the table and blocks of the data area only.   *)
LEMMA BitmapsTyped ==
  ASSUME NEW s, StorageOK(s)
  PROVE  IB(s) \subseteq Inodes /\ BB(s) \subseteq DataBlocks
BY ReadTyped, BitmapTypes, Layout DEF IB, BB, R, StorageOK

(* logfs_inode_read returns an inode: its pointers are null or lead into    *)
(* the data area, its size is at most that of NDirBlocks blocks.            *)
LEMMA InodeTyped ==
  ASSUME NEW s, StorageOK(s), NEW ino \in Inodes
  PROVE  logfs_inode_read(s, ino) \in Inode
<1>1. R(s, inode_location(ino)) \in [InTable(inode_location(ino)) -> Inode]
  BY ReadTyped, BitmapTypes, Layout, LocationOK DEF StorageOK
<1>2. ino \in InTable(inode_location(ino)) BY DEF InTable
<1> QED BY <1>1, <1>2 DEF logfs_inode_read, R

(* The inodes are what the blocks of the table say.                         *)
LEMMA InodesSame ==
  ASSUME NEW s, NEW t, \A b \in Table : R(t, b) = R(s, b)
  PROVE  \A ino : logfs_inode_read(t, ino) = logfs_inode_read(s, ino)
BY LocationOK DEF logfs_inode_read, R

(* Block b holds a bitmap over S.                                           *)
IsBitmapOf(b, S) == S \subseteq Nat /\ \A c : ContentOK(b, c) <=> c \subseteq S

(* SetBit takes a bit that was clear, and sets it and no other.             *)
LEMMA SetBitEffect ==
  ASSUME NEW s, StorageOK(s), NEW b \in Device, NEW S,
         IsBitmapOf(b, S), NEW t, t = SetBit(s, b, S)
  PROVE  /\ Within(s, t, {b}) /\ t.fresh = s.fresh
         /\ t.rc = "ok" => /\ s.rc = "ok" /\ t.out \in S /\ t.out \notin R(s, b)
                           /\ R(t, b) = R(s, b) \cup {t.out}
<1> DEFINE a == logfs_txn_get_write_access(s, b)
           used == R(a, b)
           bit == Least(S \ used)
           u == Put(a, b, used \cup {bit})
<1>1. /\ StorageOK(a) /\ a.home = s.home /\ a.logged = s.logged /\ a.fresh = s.fresh
      /\ s.rc # "ok" => a = s
      /\ a.rc \in {s.rc, "EIO"}
      /\ DOMAIN a.staged \subseteq DOMAIN s.staged \cup {b}
      /\ \A x \in Device : R(a, x) = R(s, x)
  BY AccessEffect
<1>2. t = IF a.rc # "ok" THEN a ELSE IF S \ used = {} THEN Fail(a, "ENOSPC")
          ELSE [u EXCEPT !.out = bit]
  BY DEF SetBit, R
<1>3. CASE a.rc # "ok"
  <2> HIDE DEF a
  <2> QED BY <1>1, <1>2, <1>3 DEF Within
<1>4. CASE a.rc = "ok" /\ S \ used = {}
  <2> HIDE DEF a
  <2>1. t = [a EXCEPT !.rc = "ENOSPC"] BY <1>2, <1>4 DEF Fail
  <2>2. /\ IsCall(t) /\ t.staged = a.staged /\ t.home = a.home /\ t.logged = a.logged
        /\ t.fresh = a.fresh /\ t.rc = "ENOSPC"
    BY <1>1, <2>1 DEF IsCall, StorageOK
  <2>3. \A x : R(t, x) = R(a, x)
    BY <2>2 DEF R, logfs_txn_read_block, Copies
  <2>4. StorageOK(t) BY <1>1, <2>2 DEF StorageOK
  <2> QED BY <1>1, <1>4, <2>2, <2>3, <2>4 DEF Within
<1>5. CASE a.rc = "ok" /\ S \ used # {}
  <2>1. bit \in S \ used
    <3> HIDE DEF used
    <3>1. S \ used \subseteq Nat BY DEF IsBitmapOf
    <3> QED BY <1>5, <3>1, LeastNat
  <2>2. ContentOK(b, used \cup {bit})
    <3>1. used \subseteq S BY <1>1, ReadTyped DEF StorageOK, IsBitmapOf
    <3> HIDE DEF used, bit
    <3> QED BY <2>1, <3>1 DEF IsBitmapOf
  <2>3. PutOK(a, u, b, used \cup {bit})
    BY <1>1, <2>2, PutEffect
  <2>4. t = [u EXCEPT !.out = bit] BY <1>2, <1>5
  <2> HIDE DEF a, used, bit, u
  <2>5. /\ IsCall(t) /\ t.staged = u.staged /\ t.home = u.home /\ t.logged = u.logged
        /\ t.fresh = u.fresh /\ t.rc = u.rc /\ t.out = bit
    BY <2>3, <2>4 DEF IsCall, StorageOK, PutOK
  <2>6. \A x : R(t, x) = R(u, x)
    BY <2>5 DEF R, logfs_txn_read_block, Copies
  <2>7. StorageOK(t) BY <2>3, <2>5 DEF StorageOK, PutOK
  <2>8. s.rc = "ok" BY <1>1, <1>5
  <2>9. used = R(s, b) BY <1>1 DEF used
  <2>10. Within(s, t, {b})
    BY <1>1, <2>3, <2>5, <2>6, <2>7, <2>8 DEF Within, PutOK
  <2> QED BY <1>1, <2>1, <2>3, <2>5, <2>6, <2>8, <2>9, <2>10 DEF PutOK
<1> QED BY <1>3, <1>4, <1>5

(* logfs_alloc_inode takes an inode number that was free.                   *)
LEMMA AllocInode ==
  ASSUME NEW s, StorageOK(s), NEW t, t = logfs_alloc_inode(s)
  PROVE  /\ Within(s, t, {inode_bitmap_start}) /\ t.fresh = s.fresh
         /\ t.rc = "ok" => /\ s.rc = "ok" /\ t.out \in Inodes /\ t.out \notin IB(s)
                           /\ IB(t) = IB(s) \cup {t.out}
<1>1. Inodes \subseteq Nat BY DEF Inodes
<1>2. t = SetBit(s, inode_bitmap_start, Inodes) BY DEF logfs_alloc_inode
<1>3. inode_bitmap_start \in Device BY Layout
<1>4. IsBitmapOf(inode_bitmap_start, Inodes) BY <1>1, BitmapTypes DEF IsBitmapOf
<1>5. /\ Within(s, t, {inode_bitmap_start}) /\ t.fresh = s.fresh
      /\ t.rc = "ok" => /\ s.rc = "ok" /\ t.out \in Inodes /\ t.out \notin R(s, inode_bitmap_start)
                        /\ R(t, inode_bitmap_start) = R(s, inode_bitmap_start) \cup {t.out}
  BY <1>1, <1>2, <1>3, <1>4, SetBitEffect
<1> QED BY <1>5 DEF IB, R

(* logfs_alloc_block takes a data block that was free.                      *)
LEMMA AllocBlock ==
  ASSUME NEW s, StorageOK(s), NEW t, t = logfs_alloc_block(s)
  PROVE  /\ Within(s, t, {block_bitmap_start})
         /\ t.rc # "ok" => t.fresh = s.fresh
         /\ t.rc = "ok" => /\ s.rc = "ok" /\ t.out \in DataBlocks /\ t.out \notin BB(s)
                           /\ BB(t) = BB(s) \cup {t.out} /\ t.fresh = s.fresh \cup {t.out}
<1> DEFINE a == SetBit(s, block_bitmap_start, DataBlocks)
<1>1. DataBlocks \subseteq Nat /\ block_bitmap_start \in Device BY Layout
<1>2. /\ Within(s, a, {block_bitmap_start}) /\ a.fresh = s.fresh
      /\ a.rc = "ok" => /\ s.rc = "ok" /\ a.out \in DataBlocks /\ a.out \notin BB(s)
                        /\ BB(a) = BB(s) \cup {a.out}
  <2>1. IsBitmapOf(block_bitmap_start, DataBlocks) BY <1>1, BitmapTypes DEF IsBitmapOf
  <2>2. /\ Within(s, a, {block_bitmap_start}) /\ a.fresh = s.fresh
        /\ a.rc = "ok" => /\ s.rc = "ok" /\ a.out \in DataBlocks
                          /\ a.out \notin R(s, block_bitmap_start)
                          /\ R(a, block_bitmap_start) = R(s, block_bitmap_start) \cup {a.out}
    BY <1>1, <2>1, SetBitEffect
  <2> QED BY <2>2 DEF BB, R
<1>3. t = IF a.rc # "ok" THEN a ELSE [a EXCEPT !.fresh = @ \cup {a.out}]
  BY DEF logfs_alloc_block
<1> HIDE DEF a
<1>4. CASE a.rc # "ok"
  BY <1>2, <1>3, <1>4
<1>5. CASE a.rc = "ok"
  <2>1. /\ IsCall(t) /\ t.staged = a.staged /\ t.home = a.home /\ t.logged = a.logged
        /\ t.fresh = a.fresh \cup {a.out} /\ t.rc = a.rc /\ t.out = a.out
    BY <1>2, <1>3, <1>5 DEF IsCall, StorageOK, Within
  <2>2. \A x : R(t, x) = R(a, x)
    BY <2>1 DEF R, logfs_txn_read_block, Copies
  <2>3. StorageOK(t) BY <1>2, <2>1 DEF StorageOK, Within
  <2>4. BB(t) = BB(a) BY <2>2 DEF BB, R
  <2>5. Within(s, t, {block_bitmap_start})
    BY <1>2, <1>5, <2>1, <2>2, <2>3 DEF Within
  <2> QED BY <1>2, <1>5, <2>1, <2>4, <2>5
<1> QED BY <1>4, <1>5

(* logfs_free_inode clears the inode's bit and no other.                    *)
LEMMA FreeInode ==
  ASSUME NEW s, StorageOK(s), NEW ino \in Inodes, NEW t, t = logfs_free_inode(s, ino)
  PROVE  /\ Within(s, t, {inode_bitmap_start}) /\ OnlyEIO(s, t)
         /\ t.rc = "ok" => s.rc = "ok" /\ IB(t) = IB(s) \ {ino}
<1>1. t = Put(s, inode_bitmap_start, IB(s) \ {ino}) BY DEF logfs_free_inode, IB
<1>2. ContentOK(inode_bitmap_start, IB(s) \ {ino}) BY BitmapTypes, BitmapsTyped
<1>3. inode_bitmap_start \in Device BY Layout
<1> QED BY <1>1, <1>2, <1>3, PutWithin DEF IB, R

(* logfs_free_block clears the blocks' bits and no others.                  *)
LEMMA FreeBlocks ==
  ASSUME NEW s, StorageOK(s), NEW S \in SUBSET DataBlocks, NEW t, t = logfs_free_block(s, S)
  PROVE  /\ Within(s, t, {block_bitmap_start}) /\ OnlyEIO(s, t)
         /\ t.rc = "ok" => s.rc = "ok" /\ BB(t) = BB(s) \ S
<1>1. CASE S = {}
  BY <1>1 DEF logfs_free_block, Within, OnlyEIO
<1>2. CASE S # {}
  <2>1. t = Put(s, block_bitmap_start, BB(s) \ S) BY <1>2 DEF logfs_free_block, BB
  <2>2. ContentOK(block_bitmap_start, BB(s) \ S) BY BitmapTypes, BitmapsTyped
  <2>3. block_bitmap_start \in Device BY Layout
  <2> QED BY <2>1, <2>2, <2>3, PutWithin DEF BB, R
<1> QED BY <1>1, <1>2

(* logfs_inode_write changes one inode; the others of its table block stay  *)
(* what they were (the block is read, changed in one place and staged       *)
(* whole).                                                                  *)
LEMMA InodeWrite ==
  ASSUME NEW s, StorageOK(s), NEW ino \in Inodes, NEW in \in Inode,
         NEW t, t = logfs_inode_write(s, ino, in)
  PROVE  /\ Within(s, t, {inode_location(ino)}) /\ OnlyEIO(s, t) /\ t.fresh = s.fresh
         /\ t.rc = "ok" => /\ s.rc = "ok" /\ logfs_inode_read(t, ino) = in
                           /\ \A j \in Inodes \ {ino} :
                                logfs_inode_read(t, j) = logfs_inode_read(s, j)
<1> DEFINE b == inode_location(ino)
           c == [R(s, b) EXCEPT ![ino] = in]
<1>1. b \in Table /\ b \in Device BY LocationOK, Layout
<1>2. R(s, b) \in [InTable(b) -> Inode] /\ ino \in InTable(b)
  BY <1>1, ReadTyped, BitmapTypes DEF StorageOK, InTable
<1>3. c \in [InTable(b) -> Inode] /\ c[ino] = in /\ \A j \in InTable(b) \ {ino} : c[j] = R(s, b)[j]
  <2> HIDE DEF b
  <2> QED BY <1>2
<1>4. t = Put(s, b, c) BY DEF logfs_inode_write, R
<1>5. ContentOK(b, c) BY <1>1, <1>3, BitmapTypes
<1>6. /\ Within(s, t, {b}) /\ OnlyEIO(s, t) /\ t.fresh = s.fresh
      /\ t.rc = "ok" => s.rc = "ok" /\ R(t, b) = c
  BY <1>1, <1>4, <1>5, PutWithin
<1>7. ASSUME t.rc = "ok", NEW j \in Inodes
      PROVE  logfs_inode_read(t, j) = IF j = ino THEN in ELSE logfs_inode_read(s, j)
  <2>1. CASE inode_location(j) = b
    <3>1. j \in InTable(b) BY <2>1 DEF InTable
    <3> HIDE DEF c
    <3> QED BY <1>3, <1>6, <1>7, <2>1, <3>1 DEF logfs_inode_read, R
  <2>2. CASE inode_location(j) # b
    <3>1. inode_location(j) \in Device BY LocationOK, Layout
    <3>2. R(t, inode_location(j)) = R(s, inode_location(j))
      BY <1>6, <2>2, <3>1 DEF Within
    <3> QED BY <2>2, <3>2 DEF logfs_inode_read, R
  <2> QED BY <2>1, <2>2
<1> QED BY <1>6, <1>7
-----------------------------------------------------------------------------
(* The indices of an inode's block pointers.                                *)
Ks == 1 .. NDirBlocks

(* The k-th block pointer of inode ino.                                     *)
Ptr(s, ino, k) == logfs_inode_read(s, ino).blocks[k]

(* Inode ino is a directory.                                                *)
IsDir(s, ino) == logfs_inode_read(s, ino).type = "dir"

(* The path of the parent; the root is its own parent.                      *)
Above(p) == IF p = <<>> THEN p ELSE Front(p)

(* Path q is named in the directory at p.                                   *)
Child(I, p, q) == q \in DOMAIN I /\ q # <<>> /\ Front(q) = p

(* I gives the inode of every path that names something: the root's is      *)
(* ROOT_INO, and no inode has two names.                                    *)
Naming(I) ==
  /\ I \in [DOMAIN I -> Inodes] /\ <<>> \in DOMAIN I /\ I[<<>>] = ROOT_INO
  /\ DOMAIN I \subseteq {<<>>} \cup Paths
  /\ \A p, q \in DOMAIN I : I[p] = I[q] => p = q

(* Every path has a directory above it and names an allocated inode.        *)
Placed(s, I) ==
  \A p \in DOMAIN I :
    /\ Above(p) \in DOMAIN I /\ IsDir(s, I[Above(p)])
    /\ I[p] \in IB(s) /\ logfs_inode_read(s, I[p]).type \in {"dir", "file"}

(* What the k-th pointer of the inode at p leads to: an allocated block, of *)
(* the inode's kind, that no other pointer leads to.                        *)
Owner(s, I, p, k) ==
  Ptr(s, I[p], k) # 0 =>
    /\ Ptr(s, I[p], k) \in BB(s)
    /\ R(s, Ptr(s, I[p], k)).kind = logfs_inode_read(s, I[p]).type
    /\ \A q \in DOMAIN I, j \in Ks : Ptr(s, I[q], j) = Ptr(s, I[p], k) => q = p /\ j = k

(* No block has two owners or none, and every block is of its owner's kind. *)
Owners(s, I) == \A p \in DOMAIN I, k \in Ks : Owner(s, I, p, k)

(* A directory's blocks come without a gap, and its size is within them:    *)
(* the loops over its slots stop at the first null pointer.                 *)
Filled(in) ==
  \A k \in Ks : in.blocks[k] = 0 =>
    /\ \A j \in k .. NDirBlocks : in.blocks[j] = 0
    /\ in.size <= (k - 1) * BlockUnits

(* Entry e of the directory at p is "." or "..", or the name of a child     *)
(* with the child's inode and type.                                         *)
EntryOK(s, I, p, e) ==
  \/ e.name = "." /\ e.ino = I[p]
  \/ e.name = ".." /\ e.ino = I[Above(p)]
  \/ \E q \in DOMAIN I : /\ Child(I, p, q) /\ Last(q) = e.name /\ e.ino = I[q]
                         /\ e.type = logfs_inode_read(s, e.ino).type

(* The slots that hold an entry.                                            *)
Used(s, in) == {x \in Slots(in) : Entry(s, in, x).ino # 0}

(* No name is in two slots.                                                 *)
OneEach(s, in) ==
  \A x, y \in Used(s, in) : Entry(s, in, x).name = Entry(s, in, y).name => x = y

(* Some slot holds the name.                                                *)
HasName(s, in, name) == \E x \in Used(s, in) : Entry(s, in, x).name = name

(* The directory at p lists itself, its parent and each child once, and     *)
(* nothing else.                                                            *)
Listed(s, I, p) ==
  LET in == logfs_inode_read(s, I[p]) IN
  /\ Filled(in) /\ OneEach(s, in)
  /\ \A x \in Used(s, in) : EntryOK(s, I, p, Entry(s, in, x))
  /\ HasName(s, in, ".") /\ HasName(s, in, "..")
  /\ \A q : Child(I, p, q) => HasName(s, in, Last(q))

(* The paths of I, and no others, lead from the root to live inodes that    *)
(* own their blocks.                                                        *)
Sound(s, I) ==
  /\ Naming(I) /\ Placed(s, I) /\ Owners(s, I)
  /\ \A p \in DOMAIN I : IsDir(s, I[p]) => Listed(s, I, p)

(* The directories named in the directory at p.                             *)
Subdirs(s, I, p) == {q \in DOMAIN I : Child(I, p, q) /\ IsDir(s, I[q])}

(* What the link count of the inode at p has to be.                         *)
LinkCount(s, I, p) == IF IsDir(s, I[p]) THEN 2 + Cardinality(Subdirs(s, I, p)) ELSE 1

(* Every link count is right.                                               *)
Linked(s, I) ==
  \A p \in DOMAIN I : logfs_inode_read(s, I[p]).nlink = LinkCount(s, I, p)

(* Nothing is allocated that no path leads to.                              *)
Tight(s, I) ==
  /\ \A ino \in IB(s) : \E p \in DOMAIN I : I[p] = ino
  /\ \A b \in BB(s) : \E p \in DOMAIN I, k \in Ks : Ptr(s, I[p], k) = b

(* The structure of the file system in what call s sees, as named by I;     *)
(* nothing is leaked unless lk.                                             *)
Consistent(s, I, lk) == Sound(s, I) /\ Linked(s, I) /\ (lk \/ Tight(s, I))
-----------------------------------------------------------------------------
(* From s to t the inodes named by I are the same and stay allocated with   *)
(* their blocks, which keep their kind, and directories their entries.      *)
Alike(s, t, I) ==
  \A p \in DOMAIN I :
    /\ logfs_inode_read(t, I[p]) = logfs_inode_read(s, I[p])
    /\ I[p] \in IB(t)
    /\ \A k \in Ks : Ptr(s, I[p], k) # 0 =>
         /\ Ptr(s, I[p], k) \in BB(t)
         /\ R(t, Ptr(s, I[p], k)).kind = logfs_inode_read(s, I[p]).type
         /\ IsDir(s, I[p]) => R(t, Ptr(s, I[p], k)) = R(s, Ptr(s, I[p], k))

(* The slots the loops visit lie behind pointers that are not null.         *)
LEMMA SlotFacts ==
  ASSUME NEW in, NEW x \in Slots(in)
  PROVE  x[1] \in Ks /\ x[2] \in 1 .. DirentsPerBlock /\ in.blocks[x[1]] # 0
BY FileSystemAssumption DEF Slots, Ks

(* Two inodes with the same pointers to the same contents have the same     *)
(* slots with the same entries.                                             *)
LEMMA SameEntries ==
  ASSUME NEW s, NEW t, NEW in, NEW jn, jn.blocks = in.blocks,
         \A k \in Ks : in.blocks[k] # 0 => R(t, in.blocks[k]) = R(s, in.blocks[k])
  PROVE  /\ Slots(jn) = Slots(in)
         /\ \A x \in Slots(in) : Entry(t, jn, x) = Entry(s, in, x)
         /\ Used(t, jn) = Used(s, in)
         /\ OneEach(t, jn) = OneEach(s, in)
         /\ \A name : HasName(t, jn, name) = HasName(s, in, name)
<1>0. Slots(jn) = Slots(in) BY DEF Slots
<1>1. \A x \in Slots(in) : Entry(t, jn, x) = Entry(s, in, x)
  BY SlotFacts DEF Entry, R
<1>2. Used(t, jn) = Used(s, in)
  BY <1>0, <1>1 DEF Used
<1>3. OneEach(t, jn) = OneEach(s, in)
  BY <1>1, <1>2 DEF OneEach, Used
<1>4. \A name : HasName(t, jn, name) = HasName(s, in, name)
  BY <1>1, <1>2 DEF HasName, Used
<1> QED BY <1>0, <1>1, <1>2, <1>3, <1>4

(* The same types, and the same directories. *)
DirsAlike(s, t, I) ==
  \A p \in DOMAIN I :
    /\ logfs_inode_read(t, I[p]).type = logfs_inode_read(s, I[p]).type
    /\ I[p] \in IB(t)
    /\ IsDir(s, I[p]) =>
         /\ logfs_inode_read(t, I[p]).blocks = logfs_inode_read(s, I[p]).blocks
         /\ logfs_inode_read(t, I[p]).size = logfs_inode_read(s, I[p]).size
         /\ \A k \in Ks : Ptr(s, I[p], k) # 0 => R(t, Ptr(s, I[p], k)) = R(s, Ptr(s, I[p], k))

(* The link counts of the inodes named by I are the same in s and t.        *)
SameLinks(s, t, I) ==
  \A p \in DOMAIN I : logfs_inode_read(t, I[p]).nlink = logfs_inode_read(s, I[p]).nlink

(* Directories that keep their blocks, and owners that are still sound,     *)
(* keep the structure: whatever a file's inode does to its own blocks, the  *)
(* tree of names stays what it was.                                         *)
LEMMA FrameDirs ==
  ASSUME NEW s, NEW t, NEW I, Sound(s, I), DirsAlike(s, t, I), Owners(t, I)
  PROVE  /\ Sound(t, I)
         /\ \A p \in DOMAIN I : LinkCount(t, I, p) = LinkCount(s, I, p)
         /\ Linked(s, I) /\ SameLinks(s, t, I) => Linked(t, I)
<1>1. \A p \in DOMAIN I : /\ logfs_inode_read(t, I[p]).type = logfs_inode_read(s, I[p]).type
                          /\ I[p] \in IB(t)
  BY DEF DirsAlike
<1>2. Naming(I) BY DEF Sound
<1>3. Placed(t, I)
  BY <1>1 DEF Sound, Placed, IsDir
<1>5. ASSUME NEW p \in DOMAIN I, IsDir(t, I[p]) PROVE Listed(t, I, p)
  <2> DEFINE in == logfs_inode_read(s, I[p])
             jn == logfs_inode_read(t, I[p])
  <2>1. IsDir(s, I[p])
    BY <1>1, <1>5 DEF IsDir
  <2>2. Listed(s, I, p) BY <2>1 DEF Sound
  <2>3. /\ jn.blocks = in.blocks /\ jn.size = in.size
        /\ \A k \in Ks : in.blocks[k] # 0 => R(t, in.blocks[k]) = R(s, in.blocks[k])
    BY <2>1 DEF DirsAlike, Ptr
  <2>4. /\ Slots(jn) = Slots(in)
        /\ \A x \in Slots(in) : Entry(t, jn, x) = Entry(s, in, x)
        /\ Used(t, jn) = Used(s, in)
        /\ OneEach(t, jn) = OneEach(s, in)
        /\ \A name : HasName(t, jn, name) = HasName(s, in, name)
    <3> HIDE DEF in, jn
    <3> QED BY <2>3, SameEntries
  <2>5. ASSUME NEW x \in Used(t, jn) PROVE EntryOK(t, I, p, Entry(t, jn, x))
    <3>1. EntryOK(s, I, p, Entry(s, in, x)) BY <2>2, <2>4 DEF Listed
    <3>2. Entry(t, jn, x) = Entry(s, in, x) BY <2>4 DEF Used
    <3> HIDE DEF in, jn
    <3> QED BY <1>1, <3>1, <3>2 DEF EntryOK
  <2>6. Filled(jn) BY <2>2, <2>3 DEF Listed, Filled
  <2> HIDE DEF in, jn
  <2> QED BY <2>2, <2>4, <2>5, <2>6 DEF Listed, in, jn
<1>6. Sound(t, I) BY <1>2, <1>3, <1>5 DEF Sound
<1>7. \A p \in DOMAIN I : LinkCount(t, I, p) = LinkCount(s, I, p)
  <2>1. \A p \in DOMAIN I : IsDir(t, I[p]) = IsDir(s, I[p])
    BY <1>1 DEF IsDir
  <2>2. \A p \in DOMAIN I : Subdirs(t, I, p) = Subdirs(s, I, p)
    BY <2>1 DEF Subdirs
  <2> QED BY <2>1, <2>2 DEF LinkCount
<1> QED BY <1>6, <1>7 DEF Linked, SameLinks

(* What is allocated, changed or freed outside of the inodes named by I and *)
(* their blocks leaves the structure as it was.                             *)
LEMMA Frame ==
  ASSUME NEW s, NEW t, NEW I, Sound(s, I), Alike(s, t, I)
  PROVE  /\ Sound(t, I)
         /\ Linked(s, I) => Linked(t, I)
         /\ (Tight(s, I) /\ IB(t) \subseteq IB(s) /\ BB(t) \subseteq BB(s)) => Tight(t, I)
<1>1. \A p \in DOMAIN I : /\ logfs_inode_read(t, I[p]) = logfs_inode_read(s, I[p])
                          /\ I[p] \in IB(t)
  BY DEF Alike
<1>2. DirsAlike(s, t, I) /\ SameLinks(s, t, I) BY DEF Alike, DirsAlike, SameLinks
<1>4. Owners(t, I)
  <2> SUFFICES ASSUME NEW p \in DOMAIN I, NEW k \in Ks, Ptr(t, I[p], k) # 0
               PROVE  Owner(t, I, p, k)
    BY DEF Owners, Owner
  <2>1. \A q \in DOMAIN I : \A j \in Ks : Ptr(t, I[q], j) = Ptr(s, I[q], j)
    BY <1>1 DEF Ptr
  <2>2. Owner(s, I, p, k) /\ Ptr(s, I[p], k) # 0
    BY <2>1 DEF Sound, Owners
  <2>3. /\ Ptr(s, I[p], k) \in BB(t)
        /\ R(t, Ptr(s, I[p], k)).kind = logfs_inode_read(s, I[p]).type
    BY <2>2 DEF Alike
  <2> QED BY <1>1, <2>1, <2>2, <2>3 DEF Owner
<1>8. ASSUME Tight(s, I), IB(t) \subseteq IB(s), BB(t) \subseteq BB(s) PROVE Tight(t, I)
  BY <1>1, <1>8 DEF Tight, Ptr
<1> QED BY <1>2, <1>4, <1>8, FrameDirs
-----------------------------------------------------------------------------
(* split_parent takes the last name off a path.                             *)
LEMMA FrontLast ==
  ASSUME NEW p \in Seq(Names), p # <<>>
  PROVE  /\ Front(p) \in Seq(Names) /\ Len(Front(p)) = Len(p) - 1 /\ Last(p) \in Names
         /\ Len(p) \in Nat \ {0}
         /\ \A i \in 1 .. Len(p) - 1 : Front(p)[i] = p[i]
<1>1. Len(p) \in Nat /\ Len(p) # 0
  OBVIOUS
<1>2. Front(p) \in Seq(Names)
  BY DEF Front
<1>3. Len(Front(p)) = Len(p) - 1
  <2>1. DOMAIN Front(p) = 1 .. Len(p) - 1
    BY <1>1 DEF Front
  <2>2. DOMAIN Front(p) = 1 .. Len(Front(p)) /\ Len(Front(p)) \in Nat
    BY <1>2
  <2> QED BY <1>1, <2>1, <2>2
<1>4. Last(p) \in Names
  BY <1>1 DEF Last
<1>5. \A i \in 1 .. Len(p) - 1 : Front(p)[i] = p[i]
  BY <1>1 DEF Front
<1> QED BY <1>1, <1>2, <1>3, <1>4, <1>5

(* A path is its parent's path and its last name.                           *)
LEMMA FrontLastUnique ==
  ASSUME NEW p \in Seq(Names), p # <<>>, NEW q \in Seq(Names), q # <<>>,
         Front(p) = Front(q), Last(p) = Last(q)
  PROVE  p = q
BY DEF Front, Last

(* A path a call may name has a parent and a last name that is neither "."  *)
(* nor "..".                                                                *)
LEMMA PathFacts ==
  ASSUME NEW p \in Paths
  PROVE  p \in Seq(Names) /\ p # <<>> /\ Last(p) \notin {".", ".."} /\ Front(p) \in Seq(Names)
BY FileSystemAssumption, FrontLast

(* The lookup loop of logfs_dir_lookup finds a used slot with the name,     *)
(* exactly when there is one.                                               *)
LEMMA Nameds ==
  ASSUME NEW s, NEW in, NEW name
  PROVE  /\ HasName(s, in, name) => /\ FirstSlot(Named(s, in, name)) \in Used(s, in)
                                    /\ Entry(s, in, FirstSlot(Named(s, in, name))).name = name
         /\ HasName(s, in, name) <=> Named(s, in, name) # {}
<1>1. HasName(s, in, name) <=> Named(s, in, name) # {}
  BY DEF HasName, Named, Used
<1>2. Named(s, in, name) \subseteq (1 .. NDirBlocks) \X (1 .. DirentsPerBlock)
  BY DEF Named, Slots
<1>3. ASSUME HasName(s, in, name) PROVE FirstSlot(Named(s, in, name)) \in Named(s, in, name)
  BY <1>1, <1>2, <1>3, FirstOfSlots
<1> QED BY <1>1, <1>3 DEF Named, Used

(* logfs_dir_lookup returns the entry with the name, or none.               *)
LEMMA LookupSlot ==
  ASSUME NEW s, NEW dir, NEW name
  PROVE  LET in == logfs_inode_read(s, dir)
             e == logfs_dir_lookup(s, dir, name) IN
         /\ in.type = "dir" /\ HasName(s, in, name) =>
              \E x \in Used(s, in) : e = Entry(s, in, x) /\ e.name = name
         /\ ~(in.type = "dir" /\ HasName(s, in, name)) => e = FreeSlot
BY Nameds DEF logfs_dir_lookup

(* In a sound tree a lookup finds "." and ".." where they belong, the inode *)
(* and the type of every child, and no other name.                          *)
LEMMA DirLookup ==
  ASSUME NEW s, NEW I, Sound(s, I), NEW p \in DOMAIN I, IsDir(s, I[p])
  PROVE  /\ logfs_dir_lookup(s, I[p], ".").ino = I[p]
         /\ logfs_dir_lookup(s, I[p], "..").ino = I[Above(p)]
         /\ \A q : Child(I, p, q) =>
              LET e == logfs_dir_lookup(s, I[p], Last(q))
              IN  e.ino = I[q] /\ e.type = logfs_inode_read(s, I[q]).type
         /\ \A name \in Names : (\A q : Child(I, p, q) => Last(q) # name) =>
              logfs_dir_lookup(s, I[p], name) = FreeSlot
<1> DEFINE in == logfs_inode_read(s, I[p])
<1>1. /\ in.type = "dir" /\ Listed(s, I, p) /\ Naming(I)
  BY DEF Sound, IsDir
<1>2. /\ \A x \in Used(s, in) : EntryOK(s, I, p, Entry(s, in, x))
      /\ HasName(s, in, ".") /\ HasName(s, in, "..")
      /\ \A q : Child(I, p, q) => HasName(s, in, Last(q))
  BY <1>1 DEF Listed
<1> HIDE DEF in
<1>3. ASSUME NEW q, Child(I, p, q)
      PROVE  q \in Seq(Names) /\ q # <<>> /\ Last(q) \notin {".", ".."} /\ Front(q) = p
  BY <1>1, <1>3, PathFacts DEF Naming, Child
<1>4. ASSUME NEW name, HasName(s, in, name)
      PROVE  LET e == logfs_dir_lookup(s, I[p], name)
             IN  EntryOK(s, I, p, e) /\ e.name = name
  <2>1. \E x \in Used(s, in) : /\ logfs_dir_lookup(s, I[p], name) = Entry(s, in, x)
                               /\ logfs_dir_lookup(s, I[p], name).name = name
    BY <1>1, <1>4, LookupSlot DEF in
  <2> QED BY <1>2, <2>1
<1>5. logfs_dir_lookup(s, I[p], ".").ino = I[p]
  BY <1>2, <1>3, <1>4 DEF EntryOK
<1>6. logfs_dir_lookup(s, I[p], "..").ino = I[Above(p)]
  BY <1>2, <1>3, <1>4 DEF EntryOK
<1>7. ASSUME NEW q, Child(I, p, q)
      PROVE  LET e == logfs_dir_lookup(s, I[p], Last(q))
             IN  e.ino = I[q] /\ e.type = logfs_inode_read(s, I[q]).type
  <2> DEFINE e == logfs_dir_lookup(s, I[p], Last(q))
  <2>1. EntryOK(s, I, p, e) /\ e.name = Last(q)
    BY <1>2, <1>4, <1>7
  <2> HIDE DEF e
  <2>2. Last(q) \notin {".", ".."} BY <1>3, <1>7
  <2>3. PICK r \in DOMAIN I : /\ Child(I, p, r) /\ Last(r) = e.name /\ e.ino = I[r]
                              /\ e.type = logfs_inode_read(s, e.ino).type
    BY <2>1, <2>2 DEF EntryOK
  <2>4. r = q
    BY <1>3, <1>7, <2>1, <2>3, FrontLastUnique
  <2> QED BY <2>3, <2>4 DEF e
<1>8. ASSUME NEW name \in Names, \A q : Child(I, p, q) => Last(q) # name
      PROVE  logfs_dir_lookup(s, I[p], name) = FreeSlot
  <2>1. name \notin {".", ".."} BY FileSystemAssumption
  <2>2. ~HasName(s, in, name)
    <3> SUFFICES ASSUME NEW x \in Used(s, in), Entry(s, in, x).name = name PROVE FALSE
      BY DEF HasName
    <3> QED BY <1>2, <1>8, <2>1 DEF EntryOK
  <2> QED BY <2>2, LookupSlot DEF in
<1> QED BY <1>5, <1>6, <1>7, <1>8

(* g is the walk along the first n names of the path.                       *)
WalkFrom(s, path, n, g) ==
  g = [k \in 0 .. n |-> IF k = 0 THEN ROOT_INO ELSE logfs_dir_lookup(s, g[k - 1], path[k]).ino]

(* The recursive definition of the walk has a solution, by induction on the *)
(* number of names.                                                         *)
LEMMA WalkDefined ==
  ASSUME NEW s, NEW path, Len(path) \in Nat
  PROVE  WalkFrom(s, path, Len(path), Walk(s, path))
<1> DEFINE Bad == {n \in Nat : ~\E g : WalkFrom(s, path, n, g)}
<1>1. Bad = {}
  <2> SUFFICES ASSUME Bad # {} PROVE FALSE OBVIOUS
  <2> DEFINE n == Least(Bad)
  <2>1. n \in Bad /\ \A m \in Bad : n <= m
    <3> HIDE DEF Bad
    <3>1. Bad \subseteq Nat BY DEF Bad
    <3> QED BY <3>1, LeastNat
  <2>2. n \in Nat /\ ~\E g : WalkFrom(s, path, n, g) BY <2>1
  <2>3. n # 0 => \E g : WalkFrom(s, path, n - 1, g)
    <3> HIDE DEF n
    <3> SUFFICES ASSUME n # 0 PROVE n - 1 \notin Bad BY <2>2
    <3> HIDE DEF Bad
    <3> QED BY <2>1, <2>2
  <2> HIDE DEF n, Bad
  <2>4. CASE n = 0
    <3> DEFINE h == [k \in 0 .. 0 |-> ROOT_INO]
    <3>1. WalkFrom(s, path, 0, h) BY DEF WalkFrom
    <3> QED BY <2>2, <2>4, <3>1
  <2>5. CASE n # 0
    <3>1. PICK g : WalkFrom(s, path, n - 1, g) BY <2>3, <2>5
    <3> DEFINE h == [k \in 0 .. n |-> IF k = n THEN logfs_dir_lookup(s, g[n - 1], path[n]).ino
                                      ELSE g[k]]
    <3>2. ASSUME NEW k \in 0 .. n
          PROVE  h[k] = IF k = 0 THEN ROOT_INO ELSE logfs_dir_lookup(s, h[k - 1], path[k]).ino
      <4>1. CASE k = n
        <5>1. h[n - 1] = g[n - 1] BY <2>2, <2>5
        <5> QED BY <2>2, <2>5, <4>1, <5>1
      <4>2. CASE k # n
        <5>1. k \in 0 .. n - 1 BY <2>2, <4>2
        <5>2. g[k] = IF k = 0 THEN ROOT_INO ELSE logfs_dir_lookup(s, g[k - 1], path[k]).ino
          BY <3>1, <5>1 DEF WalkFrom
        <5>3. h[k] = g[k] /\ (k # 0 => h[k - 1] = g[k - 1]) BY <2>2, <5>1
        <5> QED BY <5>2, <5>3
      <4> QED BY <4>1, <4>2
    <3>3. WalkFrom(s, path, n, h)
      <4>1. h = [k \in 0 .. n |-> h[k]] OBVIOUS
      <4> HIDE DEF h
      <4> QED BY <3>2, <4>1 DEF WalkFrom
    <3> QED BY <2>2, <3>3
  <2> QED BY <2>4, <2>5
<1>2. \E g : WalkFrom(s, path, Len(path), g)
  BY <1>1
<1>3. Walk(s, path) = CHOOSE g : WalkFrom(s, path, Len(path), g)
  BY DEF Walk, WalkFrom
<1> QED BY <1>2, <1>3

(* One turn of logfs_path_lookup's loop: the next name is looked up in the  *)
(* inode reached so far.                                                    *)
LEMMA WalkSteps ==
  ASSUME NEW s, NEW path, Len(path) \in Nat, NEW n \in 0 .. Len(path)
  PROVE  Walk(s, path)[n] = IF n = 0 THEN ROOT_INO
                            ELSE logfs_dir_lookup(s, Walk(s, path)[n - 1], path[n]).ino
BY WalkDefined DEF WalkFrom

(* A path leads where its last name leads from the inode its parent leads   *)
(* to.                                                                      *)
LEMMA LookupStep ==
  ASSUME NEW s, NEW path \in Seq(Names)
  PROVE  /\ path = <<>> => logfs_path_lookup(s, path) = ROOT_INO
         /\ path # <<>> => logfs_path_lookup(s, path) =
              logfs_dir_lookup(s, logfs_path_lookup(s, Front(path)), Last(path)).ino
<1>1. Len(path) \in Nat OBVIOUS
<1>2. CASE path = <<>>
  BY <1>1, <1>2, WalkSteps DEF logfs_path_lookup
<1>3. CASE path # <<>>
  <2> DEFINE q == Front(path)
             Bad == {n \in 0 .. Len(q) : Walk(s, q)[n] # Walk(s, path)[n]}
  <2>1. q \in Seq(Names) /\ Len(q) = Len(path) - 1 /\ \A i \in 1 .. Len(q) : q[i] = path[i]
    BY <1>3, FrontLast
  <2> HIDE DEF q
  <2>2. Bad = {}
    <3> SUFFICES ASSUME Bad # {} PROVE FALSE OBVIOUS
    <3> DEFINE n == Least(Bad)
    <3>1. Bad \subseteq Nat OBVIOUS
    <3>2. n \in Bad /\ \A m \in Bad : n <= m
      <4> HIDE DEF Bad
      <4> QED BY <3>1, LeastNat
    <3> HIDE DEF n
    <3>3. n \in 0 .. Len(q) /\ Walk(s, q)[n] # Walk(s, path)[n] BY <3>2
    <3>4. n # 0 => Walk(s, q)[n - 1] = Walk(s, path)[n - 1]
      <4> SUFFICES ASSUME n # 0, Walk(s, q)[n - 1] # Walk(s, path)[n - 1] PROVE FALSE
        OBVIOUS
      <4>1. n - 1 \in Bad BY <2>1, <3>3
      <4> HIDE DEF Bad
      <4> QED BY <3>2, <3>3, <4>1
    <3>5. Walk(s, q)[n] = IF n = 0 THEN ROOT_INO
                          ELSE logfs_dir_lookup(s, Walk(s, q)[n - 1], q[n]).ino
      BY <2>1, <3>3, WalkSteps
    <3>6. Walk(s, path)[n] = IF n = 0 THEN ROOT_INO
                             ELSE logfs_dir_lookup(s, Walk(s, path)[n - 1], path[n]).ino
      BY <1>1, <2>1, <3>3, WalkSteps
    <3>7. n # 0 => q[n] = path[n] BY <2>1, <3>3
    <3> QED BY <3>3, <3>4, <3>5, <3>6, <3>7
  <2>3. Walk(s, q)[Len(q)] = Walk(s, path)[Len(q)] BY <2>1, <2>2
  <2>4. Walk(s, path)[Len(path)] =
          logfs_dir_lookup(s, Walk(s, path)[Len(path) - 1], path[Len(path)]).ino
    BY <1>1, <1>3, WalkSteps
  <2> QED BY <1>3, <2>1, <2>3, <2>4 DEF logfs_path_lookup, q, Last
<1> QED BY <1>2, <1>3

(* In a sound tree logfs_path_lookup finds the inode of every path that     *)
(* names something, and returns 0 for every other path: by induction on the *)
(* length of the path.                                                      *)
LEMMA PathLookup ==
  ASSUME NEW s, NEW I, Sound(s, I), NEW path \in Seq(Names)
  PROVE  logfs_path_lookup(s, path) = IF path \in DOMAIN I THEN I[path] ELSE 0
<1> DEFINE Good(q) == logfs_path_lookup(s, q) = IF q \in DOMAIN I THEN I[q] ELSE 0
           Bad == {Len(q) : q \in {r \in Seq(Names) : ~Good(r)}}
<1> SUFFICES ASSUME Bad # {} PROVE FALSE OBVIOUS
<1> DEFINE n == Least(Bad)
<1>1. n \in Bad /\ \A m \in Bad : n <= m
  <2>1. Bad \subseteq Nat OBVIOUS
  <2> HIDE DEF Bad
  <2> QED BY <2>1, LeastNat
<1> HIDE DEF n
<1>2. PICK q \in Seq(Names) : ~Good(q) /\ Len(q) = n BY <1>1
<1>3. Naming(I) /\ Placed(s, I) BY DEF Sound
<1>4. CASE q = <<>>
  BY <1>2, <1>3, <1>4, LookupStep DEF Naming
<1>5. CASE q # <<>>
  <2> DEFINE p == Front(q)
  <2>1. p \in Seq(Names) /\ Len(p) = Len(q) - 1 /\ Last(q) \in Names /\ Len(q) \in Nat
    BY <1>5, FrontLast
  <2>2. Good(p)
    <3> SUFFICES ASSUME ~Good(p) PROVE FALSE OBVIOUS
    <3>1. Len(p) \in Bad BY <2>1
    <3> HIDE DEF Bad, Good, p
    <3> QED BY <1>1, <1>2, <2>1, <3>1
  <2>3. logfs_path_lookup(s, q) = logfs_dir_lookup(s, logfs_path_lookup(s, p), Last(q)).ino
    BY <1>5, LookupStep
  <2>4. FreeSlot.ino = 0 BY DEF FreeSlot
  <2>5. CASE q \in DOMAIN I
    <3>1. p \in DOMAIN I /\ IsDir(s, I[p]) BY <1>3, <1>5, <2>5 DEF Placed, Above
    <3>2. Child(I, p, q) BY <1>5, <2>5 DEF Child
    <3>3. logfs_dir_lookup(s, I[p], Last(q)).ino = I[q]
      BY <3>1, <3>2, DirLookup
    <3> QED BY <1>2, <2>2, <2>3, <2>5, <3>1, <3>3
  <2>6. CASE q \notin DOMAIN I /\ p \in DOMAIN I /\ IsDir(s, I[p])
    <3>1. ASSUME NEW r, Child(I, p, r) PROVE Last(r) # Last(q)
      <4>1. r \in Seq(Names) /\ r # <<>> /\ Front(r) = Front(q) /\ r # q
        BY <1>3, <2>6, <3>1, PathFacts DEF Child, Naming
      <4> QED BY <1>5, <4>1, FrontLastUnique
    <3>2. logfs_dir_lookup(s, I[p], Last(q)) = FreeSlot
      BY <2>1, <2>6, <3>1, DirLookup
    <3> QED BY <1>2, <2>2, <2>3, <2>4, <2>6, <3>2
  <2>7. CASE q \notin DOMAIN I /\ ~(p \in DOMAIN I /\ IsDir(s, I[p]))
    <3>1. logfs_inode_read(s, logfs_path_lookup(s, p)).type # "dir"
      BY <2>2, <2>7, FileSystemAssumption DEF IsDir, logfs_inode_read, Inodes, NoInode
    <3>2. logfs_dir_lookup(s, logfs_path_lookup(s, p), Last(q)) = FreeSlot
      BY <3>1, LookupSlot
    <3> QED BY <1>2, <2>3, <2>4, <2>7, <3>2
  <2> QED BY <2>5, <2>6, <2>7
<1> QED BY <1>4, <1>5
-----------------------------------------------------------------------------
(* The indices of the entries of a directory block.                         *)
Es == 1 .. DirentsPerBlock

(* The contents of directory blocks.                                        *)
DirContent == [kind : {"dir"}, ents : [Es -> Slot]]

(* The contents of file blocks.                                             *)
FileContent == [kind : {"file"}, units : [1 .. BlockUnits -> Unit]]

(* A data block reads as directory entries or as file data; read as the     *)
(* other kind it has no entries, or bytes that mean nothing.                *)
LEMMA DataTyped ==
  ASSUME NEW s, StorageOK(s), NEW b \in DataBlocks
  PROVE  /\ R(s, b) \in DirContent \/ R(s, b) \in FileContent
         /\ Ents(R(s, b)) \in [Es -> Slot]
         /\ Units(R(s, b)) \in [1 .. BlockUnits -> Unit]
<1>1. R(s, b) \in DirContent \/ R(s, b) \in FileContent
  BY ReadTyped, BitmapTypes, Layout DEF StorageOK, DirContent, FileContent, Es
<1>2. [e \in Es |-> FreeSlot] \in [Es -> Slot]
  BY DEF FreeSlot, Slot
<1>3. DirBlock(<<>>).ents = [e \in Es |-> FreeSlot]
  BY DEF DirBlock, Es
<1>4. TornBlock.units \in [1 .. BlockUnits -> Unit]
  BY DEF TornBlock, FileBlock, Unit
<1>5. Ents(R(s, b)) \in [Es -> Slot]
  BY <1>1, <1>2, <1>3 DEF Ents, DirContent, FileContent
<1>6. Units(R(s, b)) \in [1 .. BlockUnits -> Unit]
  BY <1>1, <1>4 DEF Units, DirContent, FileContent
<1> QED BY <1>1, <1>5, <1>6

(* The directory blocks the code writes: all entries of an old block, a     *)
(* single first entry, or "." and "..".                                     *)
LEMMA DirBlockFacts ==
  /\ \A ents \in [Es -> Slot] : /\ DirBlock(ents) \in DirContent /\ DirBlock(ents).kind = "dir"
                                /\ Ents(DirBlock(ents)) = ents
  /\ \A e \in Slot : /\ DirBlock(<<e>>) \in DirContent /\ DirBlock(<<e>>).kind = "dir"
                     /\ Ents(DirBlock(<<e>>)) = [i \in Es |-> IF i = 1 THEN e ELSE FreeSlot]
  /\ \A d, e \in Slot : /\ DirBlock(<<d, e>>) \in DirContent /\ DirBlock(<<d, e>>).kind = "dir"
                        /\ Ents(DirBlock(<<d, e>>)) =
                             [i \in Es |-> IF i = 1 THEN d ELSE IF i = 2 THEN e ELSE FreeSlot]
<1>0. FreeSlot \in Slot BY DEF FreeSlot, Slot
<1>1. ASSUME NEW ents \in [Es -> Slot]
      PROVE  /\ DirBlock(ents) \in DirContent /\ DirBlock(ents).kind = "dir"
             /\ Ents(DirBlock(ents)) = ents
  <2>1. DirBlock(ents) = [kind |-> "dir", ents |-> ents]
    BY DEF DirBlock, Es
  <2> QED BY <2>1 DEF DirContent, Ents
<1>2. ASSUME NEW e \in Slot
      PROVE  /\ DirBlock(<<e>>) \in DirContent /\ DirBlock(<<e>>).kind = "dir"
             /\ Ents(DirBlock(<<e>>)) = [i \in Es |-> IF i = 1 THEN e ELSE FreeSlot]
  <2> DEFINE w == <<e>>
  <2>0. DOMAIN w = {1} /\ w[1] = e OBVIOUS
  <2> HIDE DEF w
  <2>2. \A i \in Es : (IF i \in DOMAIN w THEN w[i] ELSE FreeSlot) = IF i = 1 THEN e ELSE FreeSlot
    BY <2>0
  <2>3. DirBlock(w) = [kind |-> "dir", ents |-> [i \in Es |-> IF i = 1 THEN e ELSE FreeSlot]]
    BY <2>2 DEF DirBlock, Es
  <2>1. DirBlock(<<e>>) = [kind |-> "dir", ents |-> [i \in Es |-> IF i = 1 THEN e ELSE FreeSlot]]
    BY <2>3 DEF w
  <2> QED BY <1>0, <2>1 DEF DirContent, Ents
<1>3. ASSUME NEW d \in Slot, NEW e \in Slot
      PROVE  /\ DirBlock(<<d, e>>) \in DirContent /\ DirBlock(<<d, e>>).kind = "dir"
             /\ Ents(DirBlock(<<d, e>>)) =
                  [i \in Es |-> IF i = 1 THEN d ELSE IF i = 2 THEN e ELSE FreeSlot]
  <2> DEFINE w == <<d, e>>
             f == [i \in Es |-> IF i = 1 THEN d ELSE IF i = 2 THEN e ELSE FreeSlot]
  <2>0. DOMAIN w = {1, 2} /\ w[1] = d /\ w[2] = e OBVIOUS
  <2> HIDE DEF w
  <2>2. \A i \in Es : (IF i \in DOMAIN w THEN w[i] ELSE FreeSlot)
                    = IF i = 1 THEN d ELSE IF i = 2 THEN e ELSE FreeSlot
    BY <2>0
  <2>3. DirBlock(w) = [kind |-> "dir", ents |-> f]
    BY <2>2 DEF DirBlock, Es
  <2>1. DirBlock(<<d, e>>) = [kind |-> "dir", ents |-> f]
    BY <2>3 DEF w
  <2> QED BY <1>0, <2>1 DEF DirContent, Ents
<1> QED BY <1>1, <1>2, <1>3

(* Either kind of content may be put in any data block.                     *)
LEMMA ContentData ==
  ASSUME NEW b \in DataBlocks, NEW c
  PROVE  c \in DirContent \/ c \in FileContent => ContentOK(b, c)
BY BitmapTypes DEF DirContent, FileContent, Es

(* A pointer is null or leads to a data block.                              *)
LEMMA InodeBlocks ==
  ASSUME NEW in \in Inode, NEW k \in Ks
  PROVE  in.blocks[k] \in DataBlocks \cup {0}
BY DEF Inode, Ks

(* SetSlot changes one entry of one directory block.                        *)
LEMMA SetSlotEffect ==
  ASSUME NEW s, StorageOK(s), NEW in \in Inode, NEW x \in Slots(in), NEW ent \in Slot,
         NEW t, t = SetSlot(s, in, x, ent)
  PROVE  LET b == in.blocks[x[1]] IN
         /\ b \in DataBlocks /\ Within(s, t, {b}) /\ OnlyEIO(s, t) /\ t.fresh = s.fresh
         /\ t.rc = "ok" =>
              /\ s.rc = "ok" /\ R(t, b).kind = "dir"
              /\ Ents(R(t, b)) = [Ents(R(s, b)) EXCEPT ![x[2]] = ent]
<1> DEFINE b == in.blocks[x[1]]
           ents == [Ents(R(s, b)) EXCEPT ![x[2]] = ent]
<1>1. b \in DataBlocks /\ b \in Device
  BY SlotFacts, InodeBlocks, Layout
<1>2. Ents(R(s, b)) \in [Es -> Slot] BY <1>1, DataTyped
<1>3. ents \in [Es -> Slot]
  <2> HIDE DEF b
  <2> QED BY <1>2
<1>4. t = Put(s, b, DirBlock(ents)) BY DEF SetSlot, R
<1>5. /\ ContentOK(b, DirBlock(ents)) /\ DirBlock(ents).kind = "dir"
      /\ Ents(DirBlock(ents)) = ents
  <2> HIDE DEF b, ents
  <2> QED BY <1>1, <1>3, DirBlockFacts, ContentData
<1>6. /\ Within(s, t, {b}) /\ OnlyEIO(s, t) /\ t.fresh = s.fresh
      /\ t.rc = "ok" => s.rc = "ok" /\ R(t, b) = DirBlock(ents)
  <2> HIDE DEF b, ents
  <2> QED BY <1>1, <1>4, <1>5, PutWithin
<1> HIDE DEF b
<1> QED BY <1>1, <1>5, <1>6 DEF b
-----------------------------------------------------------------------------
(* A call's effect so far is on the staging table only.                     *)
Stable(s, t) == StorageOK(t) /\ t.home = s.home /\ t.logged = s.logged

(* From s to t nothing that was allocated has changed or was freed.         *)
Extends(s, t) ==
  /\ IB(s) \subseteq IB(t) /\ BB(s) \subseteq BB(t)
  /\ \A ino \in IB(s) : logfs_inode_read(t, ino) = logfs_inode_read(s, ino)
  /\ \A b \in BB(s) : R(t, b) = R(s, b)
(* New staged copies of data blocks are of blocks in B. *)
Stages(s, t, B) ==
  \A b \in DOMAIN t.staged : b \in DataBlocks => b \in DOMAIN s.staged \/ b \in B

(* After an error every callee returns at once.                             *)
LEMMA Dead ==
  ASSUME NEW s, s.rc # "ok"
  PROVE  /\ \A b, c : Put(s, b, c) = s
         /\ \A ino, in : logfs_inode_write(s, ino, in) = s
         /\ \A d, n, i, y : logfs_dir_add(s, d, n, i, y) = s
         /\ \A rc : Fail(s, rc) = s
<1>1. \A b, c : Put(s, b, c) = s BY DEF Put, logfs_txn_get_write_access
<1>2. \A rc : Fail(s, rc) = s BY DEF Fail
<1>3. \A ino, in : logfs_inode_write(s, ino, in) = s BY <1>1, <1>2 DEF logfs_inode_write
<1>4. \A d, n, i, y : logfs_dir_add(s, d, n, i, y) = s BY DEF logfs_dir_add
<1> QED BY <1>1, <1>2, <1>3, <1>4

(* An error return changes nothing that is stored.                          *)
LEMMA FailStable ==
  ASSUME NEW s, StorageOK(s), NEW rc
  PROVE  LET t == Fail(s, rc) IN
         /\ StorageOK(t) /\ t.home = s.home /\ t.logged = s.logged /\ t.staged = s.staged
         /\ \A x : R(t, x) = R(s, x)
         /\ t.rc = IF s.rc = "ok" THEN rc ELSE s.rc
<1> DEFINE t == Fail(s, rc)
<1>1. CASE s.rc = "ok"
  <2>1. t = [s EXCEPT !.rc = rc] BY <1>1 DEF Fail
  <2>2. /\ IsCall(t) /\ t.staged = s.staged /\ t.home = s.home /\ t.logged = s.logged
        /\ t.rc = rc
    <3> HIDE DEF t
    <3> QED BY <2>1 DEF IsCall, StorageOK
  <2>3. \A x : R(t, x) = R(s, x)
    <3> HIDE DEF t
    <3> QED BY <2>2 DEF R, logfs_txn_read_block, Copies
  <2>4. StorageOK(t)
    <3> HIDE DEF t
    <3> QED BY <2>2 DEF StorageOK
  <2> QED BY <1>1, <2>2, <2>3, <2>4
<1>2. CASE s.rc # "ok"
  BY <1>2 DEF Fail
<1> QED BY <1>1, <1>2

(* A change of one bitmap leaves the inodes, the data blocks and the other  *)
(* bitmap alone.                                                            *)
LEMMA WithinBitmap ==
  ASSUME NEW s, NEW t, NEW b \in {inode_bitmap_start, block_bitmap_start}, Within(s, t, {b})
  PROVE  /\ \A ino : logfs_inode_read(t, ino) = logfs_inode_read(s, ino)
         /\ \A x \in DataBlocks : R(t, x) = R(s, x)
         /\ b = inode_bitmap_start => BB(t) = BB(s)
         /\ b = block_bitmap_start => IB(t) = IB(s)
         /\ \A B : Stages(s, t, B)
         /\ Stable(s, t)
<1>1. \A x \in Table \cup DataBlocks : R(t, x) = R(s, x) BY Layout DEF Within
<1>2. \A ino : logfs_inode_read(t, ino) = logfs_inode_read(s, ino) BY <1>1, InodesSame
<1>3. b = inode_bitmap_start => BB(t) = BB(s) BY Layout DEF Within, BB, R
<1>4. b = block_bitmap_start => IB(t) = IB(s) BY Layout DEF Within, IB, R
<1>5. \A B : Stages(s, t, B) BY Layout DEF Within, Stages
<1> QED BY <1>1, <1>2, <1>3, <1>4, <1>5 DEF Stable, Within

(* A change in the inode table leaves the bitmaps and the data blocks       *)
(* alone.                                                                   *)
LEMMA WithinTable ==
  ASSUME NEW s, NEW t, NEW b \in Table, Within(s, t, {b})
  PROVE  /\ \A x \in DataBlocks : R(t, x) = R(s, x)
         /\ IB(t) = IB(s) /\ BB(t) = BB(s)
         /\ \A B : Stages(s, t, B)
         /\ Stable(s, t)
BY Layout DEF Within, IB, BB, R, Stages, Stable

(* A change of a data block leaves the bitmaps and the inodes alone.        *)
LEMMA WithinData ==
  ASSUME NEW s, NEW t, NEW b \in DataBlocks, Within(s, t, {b})
  PROVE  /\ \A ino : logfs_inode_read(t, ino) = logfs_inode_read(s, ino)
         /\ \A x \in DataBlocks \ {b} : R(t, x) = R(s, x)
         /\ IB(t) = IB(s) /\ BB(t) = BB(s)
         /\ \A B : b \in B => Stages(s, t, B)
         /\ Stable(s, t)
<1>1. \A x \in Table : R(t, x) = R(s, x) BY Layout DEF Within
<1>2. \A ino : logfs_inode_read(t, ino) = logfs_inode_read(s, ino) BY <1>1, InodesSame
<1>3. IB(t) = IB(s) /\ BB(t) = BB(s) BY Layout DEF Within, IB, BB, R
<1>4. \A x \in DataBlocks \ {b} : R(t, x) = R(s, x) BY Layout DEF Within
<1>5. \A B : b \in B => Stages(s, t, B) BY DEF Within, Stages
<1> QED BY <1>2, <1>3, <1>4, <1>5 DEF Stable, Within

(* The blocks staged by one step after another.                             *)
LEMMA StagesTrans ==
  ASSUME NEW s, NEW t, NEW u, NEW B, Stages(s, t, B), Stages(t, u, B)
  PROVE  Stages(s, u, B)
BY DEF Stages

(* A call that changed nothing a reader sees has changed nothing allocated. *)
LEMMA SameReadsExtend ==
  ASSUME NEW s, NEW t, StorageOK(s), \A x \in Device : R(t, x) = R(s, x)
  PROVE  /\ Extends(s, t) /\ IB(t) = IB(s) /\ BB(t) = BB(s)
         /\ \A ino : logfs_inode_read(t, ino) = logfs_inode_read(s, ino)
         /\ \A b \in DataBlocks : R(t, b) = R(s, b)
<1>1. IB(t) = IB(s) /\ BB(t) = BB(s) BY Layout DEF IB, BB, R
<1>2. \A ino : logfs_inode_read(t, ino) = logfs_inode_read(s, ino) BY Layout, InodesSame
<1>3. \A b \in DataBlocks : R(t, b) = R(s, b) BY Layout
<1>4. BB(s) \subseteq DataBlocks BY BitmapsTyped
<1> QED BY <1>1, <1>2, <1>3, <1>4 DEF Extends

(* One allocation after another.                                            *)
LEMMA ExtendsTrans ==
  ASSUME NEW s, NEW t, NEW u, Extends(s, t), Extends(t, u)
  PROVE  Extends(s, u)
BY DEF Extends

(* What only adds to the allocated inodes and blocks leaves those in use    *)
(* alone.                                                                   *)
LEMMA ExtendsAlike ==
  ASSUME NEW s, NEW t, NEW I, Sound(s, I), Extends(s, t)
  PROVE  Alike(s, t, I)
<1> SUFFICES ASSUME NEW p \in DOMAIN I
             PROVE  /\ logfs_inode_read(t, I[p]) = logfs_inode_read(s, I[p])
                    /\ I[p] \in IB(t)
                    /\ \A k \in Ks : Ptr(s, I[p], k) # 0 =>
                         /\ Ptr(s, I[p], k) \in BB(t)
                         /\ R(t, Ptr(s, I[p], k)).kind = logfs_inode_read(s, I[p]).type
                         /\ IsDir(s, I[p]) => R(t, Ptr(s, I[p], k)) = R(s, Ptr(s, I[p], k))
  BY DEF Alike
<1>1. I[p] \in IB(s) BY DEF Sound, Placed
<1>2. ASSUME NEW k \in Ks, Ptr(s, I[p], k) # 0
      PROVE  /\ Ptr(s, I[p], k) \in BB(s)
             /\ R(s, Ptr(s, I[p], k)).kind = logfs_inode_read(s, I[p]).type
  BY <1>2 DEF Sound, Owners, Owner
<1> QED BY <1>1, <1>2 DEF Extends

(* Arithmetic on sizes: more blocks hold more units.                        *)
LEMMA Monotone ==
  ASSUME NEW a \in Nat, NEW b \in Nat, NEW c \in Nat, a <= b
  PROVE  a * c <= b * c /\ a * c \in Nat
OBVIOUS
-----------------------------------------------------------------------------
(* No two pointers of an inode lead to the same block.                      *)
Injective(in) == \A j, k \in Ks : in.blocks[j] # 0 /\ in.blocks[j] = in.blocks[k] => j = k

(* The inode of a directory as logfs_dir_add expects it.                    *)
GoodDir(s, in) ==
  /\ Filled(in) /\ Injective(in)
  /\ \A k \in Ks : in.blocks[k] # 0 => in.blocks[k] \in BB(s)

(* jn: the directory in s's inode in, with one more entry in t. *)
NewPointers(s, t, in, jn) ==
  /\ \A k \in Ks : \/ jn.blocks[k] = in.blocks[k]
                   \/ in.blocks[k] = 0 /\ jn.blocks[k] \in BB(t) \ BB(s)
  /\ \A j, k \in Ks : in.blocks[j] # jn.blocks[j] /\ in.blocks[k] # jn.blocks[k] => j = k
  /\ \A b \in BB(t) \ BB(s) : \E k \in Ks : jn.blocks[k] = b
  /\ \A k \in Ks : jn.blocks[k] # 0 /\ (in.blocks[k] # 0 => R(s, in.blocks[k]).kind = "dir") =>
                     R(t, jn.blocks[k]).kind = "dir"

(* The entries of the directory: ent is in a slot that was free, in an old  *)
(* block or the first of a new one.                                         *)
NewEntry(s, t, in, jn, ent) ==
  /\ Slots(in) \subseteq Slots(jn)
  /\ \E z \in Slots(jn) :
       /\ Entry(t, jn, z) = ent
       /\ z \in Slots(in) => Entry(s, in, z).ino = 0
       /\ \A x \in Slots(jn) \ {z} :
            IF x \in Slots(in) THEN Entry(t, jn, x) = Entry(s, in, x) ELSE Entry(t, jn, x).ino = 0

(* From s to t the directory dir has the entry ent besides those it had;    *)
(* nobody else has changed.                                                 *)
Grown(s, t, dir, ent) ==
  LET in == logfs_inode_read(s, dir)
      jn == logfs_inode_read(t, dir)
  IN  /\ IB(t) = IB(s) /\ BB(s) \subseteq BB(t)
      /\ \A j \in Inodes \ {dir} : logfs_inode_read(t, j) = logfs_inode_read(s, j)
      /\ \A b \in DataBlocks : (\A k \in Ks : jn.blocks[k] # b) => R(t, b) = R(s, b)
      /\ jn.type = in.type /\ jn.nlink = in.nlink /\ Filled(jn)
      /\ NewPointers(s, t, in, jn) /\ NewEntry(s, t, in, jn, ent)

(* logfs_dir_add into a free slot of a block the directory has.             *)
LEMMA AddInSlot ==
  ASSUME NEW s, StorageOK(s), NEW dir \in Inodes, NEW ent \in Slot,
         NEW in, in = logfs_inode_read(s, dir), GoodDir(s, in),
         NEW z \in FreeSlots(s, in), NEW t, t = SetSlot(s, in, z, ent)
  PROVE  /\ Stable(s, t) /\ Stages(s, t, {in.blocks[k] : k \in Ks})
         /\ t.rc = "ok" => s.rc = "ok" /\ Grown(s, t, dir, ent)
         /\ t.rc # "ok" => Extends(s, t)
<1> DEFINE b == in.blocks[z[1]]
<1>1. in \in Inode BY InodeTyped
<1>2. z \in Slots(in) /\ Entry(s, in, z).ino = 0 BY DEF FreeSlots
<1>3. /\ b \in DataBlocks /\ Within(s, t, {b})
      /\ t.rc = "ok" => /\ s.rc = "ok" /\ R(t, b).kind = "dir"
                        /\ Ents(R(t, b)) = [Ents(R(s, b)) EXCEPT ![z[2]] = ent]
  BY <1>1, <1>2, SetSlotEffect
<1>4. z[1] \in Ks /\ z[2] \in Es /\ b # 0 BY <1>2, SlotFacts DEF Es
<1>5. /\ \A ino : logfs_inode_read(t, ino) = logfs_inode_read(s, ino)
      /\ \A x \in DataBlocks \ {b} : R(t, x) = R(s, x)
      /\ IB(t) = IB(s) /\ BB(t) = BB(s)
      /\ Stages(s, t, {in.blocks[k] : k \in Ks}) /\ Stable(s, t)
  <2>1. b \in {in.blocks[k] : k \in Ks} BY <1>4
  <2> HIDE DEF b
  <2> QED BY <1>3, <2>1, WithinData
<1>6. Ents(R(s, b)) \in [Es -> Slot] BY <1>3, DataTyped
<1>7. ASSUME t.rc # "ok" PROVE Extends(s, t)
  <2>1. \A x \in Device : R(t, x) = R(s, x) BY <1>3, <1>7 DEF Within
  <2> QED BY <2>1, SameReadsExtend
<1>8. ASSUME t.rc = "ok" PROVE Grown(s, t, dir, ent)
  <2>1. logfs_inode_read(t, dir) = in BY <1>5
  <2>2. ASSUME NEW x \in Slots(in)
        PROVE  Entry(t, in, x) = IF x = z THEN ent ELSE Entry(s, in, x)
    <3>1. x[1] \in Ks /\ x[2] \in Es /\ in.blocks[x[1]] # 0 BY SlotFacts DEF Es
    <3>2. CASE x[1] = z[1]
      <4>1. x = <<x[1], x[2]>> /\ z = <<z[1], z[2]>> BY <1>2 DEF Slots
      <4>2. x = z <=> x[2] = z[2] BY <3>2, <4>1
      <4>3. Entry(t, in, x) = [Ents(R(s, b)) EXCEPT ![z[2]] = ent][x[2]]
        BY <1>3, <1>8, <3>2 DEF Entry, R
      <4>4. Entry(s, in, x) = Ents(R(s, b))[x[2]]
        BY <3>2 DEF Entry, R
      <4> HIDE DEF b
      <4> QED BY <1>4, <1>6, <3>1, <4>2, <4>3, <4>4
    <3>3. CASE x[1] # z[1]
      <4>1. in.blocks[x[1]] \in DataBlocks /\ in.blocks[x[1]] # b
        BY <1>1, <1>4, <3>1, <3>3, InodeBlocks DEF GoodDir, Injective
      <4>2. R(t, in.blocks[x[1]]) = R(s, in.blocks[x[1]]) BY <1>5, <4>1
      <4> QED BY <3>3, <4>2 DEF Entry, R
    <3> QED BY <3>2, <3>3
  <2>3. NewEntry(s, t, in, in, ent)
    BY <1>2, <2>2 DEF NewEntry
  <2>4. NewPointers(s, t, in, in)
    <3>1. ASSUME NEW k \in Ks, in.blocks[k] # 0, R(s, in.blocks[k]).kind = "dir"
          PROVE  R(t, in.blocks[k]).kind = "dir"
      <4>1. in.blocks[k] \in DataBlocks BY <1>1, <3>1, InodeBlocks
      <4> QED BY <1>3, <1>5, <1>8, <3>1, <4>1
    <3> QED BY <1>5, <3>1 DEF NewPointers
  <2>5. \A c \in DataBlocks : (\A k \in Ks : in.blocks[k] # c) => R(t, c) = R(s, c)
    BY <1>4, <1>5
  <2> QED BY <1>5, <2>1, <2>3, <2>4, <2>5 DEF Grown, GoodDir
<1> QED BY <1>3, <1>5, <1>7, <1>8

(* The inode in with block b at its first null pointer k. *)
GrowsBy(in, jn, k, b) ==
  /\ k \in Ks /\ in.blocks[k] = 0 /\ \A j \in Ks : in.blocks[j] = 0 => k <= j
  /\ jn.type = in.type /\ jn.nlink = in.nlink /\ jn.size = in.size + BlockUnits
  /\ \A j \in Ks : jn.blocks[j] = IF j = k THEN b ELSE in.blocks[j]

(* The fields of an inode.                                                  *)
LEMMA InodeRecord ==
  ASSUME NEW in \in Inode
  PROVE  /\ in = [type |-> in.type, nlink |-> in.nlink, size |-> in.size, blocks |-> in.blocks]
         /\ in.type \in {"none", "dir", "file"} /\ in.nlink \in Nat /\ in.size \in 0 .. MaxSize
         /\ in.blocks \in [Ks -> DataBlocks \cup {0}]
BY DEF Inode, Ks

(* An inode from its fields.                                                *)
LEMMA InodeMade ==
  ASSUME NEW type \in {"none", "dir", "file"}, NEW nlink \in Nat, NEW size \in 0 .. MaxSize,
         NEW blocks \in [Ks -> DataBlocks \cup {0}]
  PROVE  [type |-> type, nlink |-> nlink, size |-> size, blocks |-> blocks] \in Inode
BY DEF Inode, Ks

(* An inode with one pointer and its size changed.                          *)
LEMMA SetPointer ==
  ASSUME NEW in \in Inode, NEW k \in Ks, NEW b \in DataBlocks, NEW n
  PROVE  LET jn == [in EXCEPT !.blocks[k] = b, !.size = n] IN
         /\ jn.type = in.type /\ jn.nlink = in.nlink /\ jn.size = n
         /\ \A j \in Ks : jn.blocks[j] = IF j = k THEN b ELSE in.blocks[j]
         /\ n \in 0 .. MaxSize => jn \in Inode
<1> DEFINE mn == [in EXCEPT !.blocks[k] = b]
           jn == [in EXCEPT !.blocks[k] = b, !.size = n]
           ptrs == [in.blocks EXCEPT ![k] = b]
<1>0. in = [type |-> in.type, nlink |-> in.nlink, size |-> in.size, blocks |-> in.blocks]
  BY InodeRecord
<1>1. jn = [type |-> in.type, nlink |-> in.nlink, size |-> n, blocks |-> ptrs]
  <2>1. mn = [type |-> in.type, nlink |-> in.nlink, size |-> in.size, blocks |-> ptrs]
    BY <1>0
  <2>2. jn = [mn EXCEPT !.size = n] OBVIOUS
  <2> HIDE DEF mn, jn, ptrs
  <2> QED BY <2>1, <2>2
<1>2. /\ \A j \in Ks : ptrs[j] = IF j = k THEN b ELSE in.blocks[j]
      /\ ptrs \in [Ks -> DataBlocks \cup {0}]
  <2>1. in.blocks \in [Ks -> DataBlocks \cup {0}] BY InodeRecord
  <2> QED BY <2>1
<1> HIDE DEF jn, ptrs
<1>3. jn.type = in.type /\ jn.nlink = in.nlink /\ jn.size = n /\ jn.blocks = ptrs BY <1>1
<1>4. n \in 0 .. MaxSize => jn \in Inode BY <1>1, <1>2, InodeRecord, InodeMade
<1> QED BY <1>2, <1>3, <1>4 DEF jn

(* The inode logfs_dir_add writes when no slot is free, with a block behind *)
(* its first null pointer: the directory's blocks still come without a gap. *)
LEMMA GrowInode ==
  ASSUME NEW in \in Inode, Filled(in), NEW b \in DataBlocks
  PROVE  LET null == {k \in 1 .. NDirBlocks : in.blocks[k] = 0}
             jn == [in EXCEPT !.blocks[Least(null)] = b, !.size = @ + BlockUnits]
         IN  null # {} => jn \in Inode /\ Filled(jn) /\ GrowsBy(in, jn, Least(null), b)
<1> DEFINE null == {i \in 1 .. NDirBlocks : in.blocks[i] = 0}
           k == Least(null)
           n == in.size + BlockUnits
           jn == [in EXCEPT !.blocks[k] = b, !.size = @ + BlockUnits]
<1> SUFFICES ASSUME null # {} PROVE jn \in Inode /\ Filled(jn) /\ GrowsBy(in, jn, k, b)
  OBVIOUS
<1>1. k \in Ks /\ in.blocks[k] = 0 /\ \A j \in Ks : in.blocks[j] = 0 => k <= j
  <2>1. null \subseteq Nat BY DEF Ks
  <2> HIDE DEF null
  <2>2. Least(null) \in null /\ \A y \in null : Least(null) <= y BY <2>1, LeastNat
  <2> QED BY <2>2 DEF Ks, null
<1> HIDE DEF k
<1>3. /\ jn.type = in.type /\ jn.nlink = in.nlink /\ jn.size = in.size + BlockUnits
      /\ \A j \in Ks : jn.blocks[j] = IF j = k THEN b ELSE in.blocks[j]
      /\ in.size + BlockUnits \in 0 .. MaxSize => jn \in Inode
  BY <1>1, SetPointer
<1> HIDE DEF jn
<1>4. in.size \in Nat /\ in.size <= (k - 1) * BlockUnits
  BY <1>1 DEF Filled, Inode
<1>5. k - 1 \in Nat /\ k \in Nat /\ BlockUnits \in Nat /\ NDirBlocks \in Nat /\ k <= NDirBlocks
  BY <1>1, FileSystemAssumption DEF Ks
<1>6. (k - 1) * BlockUnits + BlockUnits = k * BlockUnits BY <1>5
<1>7. (k - 1) * BlockUnits \in Nat /\ k * BlockUnits \in Nat BY <1>5
<1>8. in.size + BlockUnits <= k * BlockUnits BY <1>4, <1>5, <1>6, <1>7
<1>9. jn \in Inode
  <2>1. in.size + BlockUnits \in 0 .. MaxSize
    <3>1. k * BlockUnits <= NDirBlocks * BlockUnits /\ NDirBlocks * BlockUnits \in Nat
      BY <1>5, Monotone
    <3> QED BY <1>4, <1>5, <1>7, <1>8, <3>1 DEF MaxSize
  <2> QED BY <1>3, <2>1
<1>10. Filled(jn)
  <2> SUFFICES ASSUME NEW i \in Ks, jn.blocks[i] = 0
               PROVE  /\ \A j \in i .. NDirBlocks : jn.blocks[j] = 0
                      /\ jn.size <= (i - 1) * BlockUnits
    BY DEF Filled
  <2>1. i # k /\ in.blocks[i] = 0 BY <1>3, Layout
  <2>2. k < i /\ i \in Nat BY <1>1, <1>5, <2>1 DEF Ks
  <2>3. \A j \in i .. NDirBlocks : in.blocks[j] = 0 /\ j # k /\ j \in Ks
    BY <1>5, <2>1, <2>2 DEF Filled, Ks
  <2>4. i - 1 \in Nat /\ k <= i - 1 BY <1>5, <2>2
  <2>5. k * BlockUnits <= (i - 1) * BlockUnits BY <1>5, <2>4, Monotone
  <2>6. (i - 1) * BlockUnits \in Nat BY <1>5, <2>4
  <2>7. in.size + BlockUnits <= (i - 1) * BlockUnits BY <1>4, <1>5, <1>7, <1>8, <2>5, <2>6
  <2> QED BY <1>3, <2>3, <2>7
<1> QED BY <1>1, <1>3, <1>9, <1>10 DEF GrowsBy

(* The slots it gains are those of the new block.                           *)
LEMMA GrowSlots ==
  ASSUME NEW in, NEW jn, NEW k, NEW b, GrowsBy(in, jn, k, b), b # 0, Filled(in)
  PROVE  /\ Slots(in) \subseteq Slots(jn)
         /\ <<k, 1>> \in Slots(jn) /\ <<k, 1>> \notin Slots(in)
         /\ \A x \in Slots(jn) \ Slots(in) : x[1] = k /\ x[2] \in Es /\ x = <<k, x[2]>>
         /\ \A x \in Slots(in) : x[1] # k
<1>1. k \in Nat /\ k >= 1 /\ k <= NDirBlocks /\ NDirBlocks \in Nat /\ 1 \in Es
  BY FileSystemAssumption DEF GrowsBy, Ks, Es
<1>2. /\ \A j \in Ks : j < k => in.blocks[j] # 0
      /\ \A j \in Ks : j > k => in.blocks[j] = 0
      /\ in.blocks[k] = 0 /\ jn.blocks[k] = b
      /\ \A j \in Ks : j # k => jn.blocks[j] = in.blocks[j]
  <2>1. \A j \in Ks : j < k => in.blocks[j] # 0 BY <1>1 DEF GrowsBy, Ks
  <2>2. \A j \in Ks : j > k => in.blocks[j] = 0 BY <1>1 DEF GrowsBy, Filled, Ks
  <2> QED BY <2>1, <2>2 DEF GrowsBy
<1>3. ASSUME NEW x
      PROVE  /\ x \in Slots(in) <=> x \in Ks \X Es /\ x[1] < k
             /\ x \in Slots(jn) <=> x \in Ks \X Es /\ x[1] <= k
  <2>1. x \in Slots(in) <=> x \in Ks \X Es /\ \A j \in 1 .. x[1] : in.blocks[j] # 0
    BY DEF Slots, Ks, Es
  <2>2. x \in Slots(jn) <=> x \in Ks \X Es /\ \A j \in 1 .. x[1] : jn.blocks[j] # 0
    BY DEF Slots, Ks, Es
  <2>3. CASE x \notin Ks \X Es BY <2>1, <2>2, <2>3
  <2>4. CASE x \in Ks \X Es
    <3>1. x[1] \in Ks /\ x[1] \in Nat /\ x[1] <= NDirBlocks /\ x[1] >= 1
      BY <1>1, <2>4 DEF Ks
    <3>2. (\A j \in 1 .. x[1] : in.blocks[j] # 0) <=> x[1] < k
      <4>1. ASSUME x[1] < k, NEW j \in 1 .. x[1] PROVE in.blocks[j] # 0
        <5>1. j \in Ks /\ j < k BY <1>1, <3>1, <4>1 DEF Ks
        <5> QED BY <1>2, <5>1
      <4>2. ASSUME ~(x[1] < k) PROVE k \in 1 .. x[1] BY <1>1, <3>1, <4>2
      <4> QED BY <1>2, <4>1, <4>2
    <3>3. (\A j \in 1 .. x[1] : jn.blocks[j] # 0) <=> x[1] <= k
      <4>1. ASSUME x[1] <= k, NEW j \in 1 .. x[1] PROVE jn.blocks[j] # 0
        <5>1. j \in Ks /\ (j < k \/ j = k) BY <1>1, <3>1, <4>1 DEF Ks
        <5>2. j < k => j # k BY <1>1, <5>1 DEF Ks
        <5> QED BY <1>2, <5>1, <5>2
      <4>2. ASSUME ~(x[1] <= k) PROVE x[1] \in 1 .. x[1] /\ x[1] > k /\ x[1] # k
        BY <1>1, <3>1, <4>2
      <4> QED BY <1>2, <3>1, <4>1, <4>2
    <3> QED BY <2>1, <2>2, <2>4, <3>2, <3>3
  <2> QED BY <2>3, <2>4
<1>4. <<k, 1>> \in Ks \X Es BY <1>1 DEF Ks
<1>5. <<k, 1>>[1] = k OBVIOUS
<1>6. <<k, 1>> \in Slots(jn) /\ <<k, 1>> \notin Slots(in) BY <1>1, <1>3, <1>4, <1>5
<1>7. ASSUME NEW x \in Slots(jn) \ Slots(in)
      PROVE  x[1] = k /\ x[2] \in Es /\ x = <<k, x[2]>>
  <2>1. x \in Ks \X Es /\ x[1] <= k /\ ~(x[1] < k) BY <1>3
  <2>2. x[1] \in Nat BY <1>1, <2>1 DEF Ks
  <2>3. x[1] = k BY <1>1, <2>1, <2>2
  <2> QED BY <2>1, <2>3
<1>8. ASSUME NEW x \in Slots(in) PROVE x \in Slots(jn) /\ x[1] # k
  <2>1. x \in Ks \X Es /\ x[1] < k BY <1>3
  <2>2. x[1] \in Nat BY <1>1, <2>1 DEF Ks
  <2> QED BY <1>1, <1>3, <2>1, <2>2
<1> QED BY <1>6, <1>7, <1>8

(* logfs_dir_add into a new block, which is allocated, cleared and then     *)
(* pointed to; if one of the three steps fails, nothing that was allocated  *)
(* has changed.                                                             *)
LEMMA AddInBlock ==
  ASSUME NEW s, StorageOK(s), NEW dir \in Inodes, NEW ent \in Slot,
         NEW in, in = logfs_inode_read(s, dir), GoodDir(s, in),
         NEW a, a = logfs_alloc_block(s), a.rc = "ok",
         NEW jn \in Inode, Filled(jn), NEW k, GrowsBy(in, jn, k, a.out),
         NEW c, c = Put(a, a.out, DirBlock(<<ent>>)),
         NEW t, t = logfs_inode_write(c, dir, jn)
  PROVE  /\ Stable(s, t) /\ Stages(s, t, DataBlocks \ BB(s))
         /\ t.rc = "ok" => s.rc = "ok" /\ Grown(s, t, dir, ent)
         /\ t.rc # "ok" => Extends(s, t)
<1> DEFINE B == DataBlocks \ BB(s)
<1>1. in \in Inode BY InodeTyped
<1>2. k \in Ks /\ in.blocks[k] = 0 BY DEF GrowsBy
<1>3. /\ Within(s, a, {block_bitmap_start})
      /\ s.rc = "ok" /\ a.out \in DataBlocks /\ a.out \notin BB(s)
      /\ BB(a) = BB(s) \cup {a.out}
  BY AllocBlock
<1>4. /\ \A ino : logfs_inode_read(a, ino) = logfs_inode_read(s, ino)
      /\ \A x \in DataBlocks : R(a, x) = R(s, x)
      /\ IB(a) = IB(s) /\ Stages(s, a, B) /\ Stable(s, a)
  BY <1>3, WithinBitmap
<1>5. BB(s) \subseteq DataBlocks BY BitmapsTyped
<1>6. DirBlock(<<ent>>).kind = "dir" /\ ContentOK(a.out, DirBlock(<<ent>>))
      /\ Ents(DirBlock(<<ent>>)) = [i \in Es |-> IF i = 1 THEN ent ELSE FreeSlot]
  BY <1>3, DirBlockFacts, ContentData
<1>7. a.out \in Device /\ a.out # 0 BY <1>3, Layout
<1>8. /\ Within(a, c, {a.out})
      /\ c.rc = "ok" => R(c, a.out) = DirBlock(<<ent>>)
  BY <1>4, <1>6, <1>7, PutWithin DEF Stable
<1>9. /\ \A ino : logfs_inode_read(c, ino) = logfs_inode_read(a, ino)
      /\ \A x \in DataBlocks \ {a.out} : R(c, x) = R(a, x)
      /\ IB(c) = IB(a) /\ BB(c) = BB(a) /\ Stages(a, c, B) /\ Stable(a, c)
  BY <1>3, <1>8, WithinData
<1>10. Stages(s, c, B) /\ Stable(s, c)
  BY <1>4, <1>9, StagesTrans DEF Stable
<1>11. Extends(s, c)
  BY <1>3, <1>4, <1>5, <1>9 DEF Extends
<1>12. /\ Within(c, t, {inode_location(dir)})
       /\ t.rc = "ok" => /\ c.rc = "ok" /\ logfs_inode_read(t, dir) = jn
                         /\ \A j \in Inodes \ {dir} :
                              logfs_inode_read(t, j) = logfs_inode_read(c, j)
  <2>1. StorageOK(c) BY <1>10 DEF Stable
  <2> QED BY <2>1, InodeWrite
<1>13. /\ \A x \in DataBlocks : R(t, x) = R(c, x)
       /\ IB(t) = IB(c) /\ BB(t) = BB(c) /\ Stages(c, t, B) /\ Stable(c, t)
  <2>1. inode_location(dir) \in Table BY LocationOK
  <2> QED BY <1>12, <2>1, WithinTable
<1>14. Stages(s, t, B) /\ Stable(s, t)
  BY <1>10, <1>13, StagesTrans DEF Stable
<1>15. ASSUME t.rc # "ok" PROVE Extends(s, t)
  <2>1. \A x \in Device : R(t, x) = R(c, x) BY <1>12, <1>15 DEF Within
  <2>2. Extends(c, t) BY <1>10, <2>1, SameReadsExtend DEF Stable
  <2> QED BY <1>11, <2>2, ExtendsTrans
<1>16. ASSUME t.rc = "ok" PROVE Grown(s, t, dir, ent)
  <2>1. c.rc = "ok" /\ logfs_inode_read(t, dir) = jn BY <1>12, <1>16
  <2>2. /\ jn.type = in.type /\ jn.nlink = in.nlink
        /\ \A j \in Ks : jn.blocks[j] = IF j = k THEN a.out ELSE in.blocks[j]
    BY DEF GrowsBy
  <2>3. BB(t) = BB(s) \cup {a.out} BY <1>3, <1>9, <1>13
  <2>4. R(t, a.out) = DirBlock(<<ent>>) BY <1>3, <1>8, <1>13, <2>1
  <2>5. \A x \in DataBlocks \ {a.out} : R(t, x) = R(s, x) BY <1>4, <1>9, <1>13
  <2>6. \A j \in Ks : in.blocks[j] # 0 => in.blocks[j] \in DataBlocks \ {a.out}
    BY <1>1, <1>3, InodeBlocks DEF GoodDir
  <2>7. NewPointers(s, t, in, jn)
    <3>1. ASSUME NEW j \in Ks, jn.blocks[j] # 0, in.blocks[j] # 0 => R(s, in.blocks[j]).kind = "dir"
          PROVE  R(t, jn.blocks[j]).kind = "dir"
      <4>1. CASE j = k BY <1>6, <2>2, <2>4, <4>1
      <4>2. CASE j # k
        <5>1. jn.blocks[j] = in.blocks[j] /\ in.blocks[j] \in DataBlocks \ {a.out}
          BY <2>2, <2>6, <3>1, <4>2
        <5> QED BY <2>5, <3>1, <5>1
      <4> QED BY <4>1, <4>2
    <3>2. \A j \in Ks : \/ jn.blocks[j] = in.blocks[j]
                        \/ in.blocks[j] = 0 /\ jn.blocks[j] \in BB(t) \ BB(s)
      BY <1>2, <1>3, <2>2, <2>3
    <3>3. \A j, i \in Ks : in.blocks[j] # jn.blocks[j] /\ in.blocks[i] # jn.blocks[i] => j = i
      BY <2>2
    <3>4. \A b \in BB(t) \ BB(s) : \E j \in Ks : jn.blocks[j] = b
      BY <1>2, <2>2, <2>3
    <3> QED BY <3>1, <3>2, <3>3, <3>4 DEF NewPointers
  <2>8. NewEntry(s, t, in, jn, ent)
    <3> DEFINE z == <<k, 1>>
    <3>1. /\ Slots(in) \subseteq Slots(jn)
          /\ z \in Slots(jn) /\ z \notin Slots(in)
          /\ \A x \in Slots(jn) \ Slots(in) : x[1] = k /\ x[2] \in Es /\ x = <<k, x[2]>>
          /\ \A x \in Slots(in) : x[1] # k
      BY <1>7, GrowSlots DEF GoodDir
    <3>2. ASSUME NEW x \in Slots(jn), x \in Slots(in) PROVE Entry(t, jn, x) = Entry(s, in, x)
      <4>1. x[1] \in Ks /\ in.blocks[x[1]] # 0 /\ x[1] # k BY <3>1, <3>2, SlotFacts
      <4>2. jn.blocks[x[1]] = in.blocks[x[1]] BY <2>2, <4>1
      <4>3. R(t, in.blocks[x[1]]) = R(s, in.blocks[x[1]]) BY <2>5, <2>6, <4>1
      <4> QED BY <4>2, <4>3 DEF Entry, R
    <3>3. ASSUME NEW x \in Slots(jn), x \notin Slots(in)
          PROVE  Entry(t, jn, x) = IF x = z THEN ent ELSE FreeSlot
      <4>1. x[1] = k /\ x[2] \in Es /\ x = <<k, x[2]>> BY <3>1, <3>3
      <4>2. jn.blocks[x[1]] = a.out BY <1>2, <2>2, <4>1
      <4>3. Entry(t, jn, x) = Ents(DirBlock(<<ent>>))[x[2]] BY <2>4, <4>2 DEF Entry, R
      <4>4. Entry(t, jn, x) = IF x[2] = 1 THEN ent ELSE FreeSlot BY <1>6, <4>1, <4>3
      <4> QED BY <4>1, <4>4
    <3>4. FreeSlot.ino = 0 BY DEF FreeSlot
    <3> HIDE DEF z
    <3> QED BY <3>1, <3>2, <3>3, <3>4 DEF NewEntry
  <2>9. \A x \in DataBlocks : (\A j \in Ks : jn.blocks[j] # x) => R(t, x) = R(s, x)
    BY <1>2, <2>2, <2>5
  <2>10. \A j \in Inodes \ {dir} : logfs_inode_read(t, j) = logfs_inode_read(s, j)
    BY <1>4, <1>9, <1>12, <1>16
  <2>11. IB(t) = IB(s) /\ BB(s) \subseteq BB(t) BY <1>4, <1>9, <1>13, <2>3
  <2> QED BY <2>1, <2>2, <2>7, <2>8, <2>9, <2>10, <2>11 DEF Grown
<1> QED BY <1>3, <1>14, <1>15, <1>16

(* logfs_dir_add adds the entry, to a directory that did not have the name, *)
(* or leaves all that was allocated as it was.                              *)
LEMMA DirAdd ==
  ASSUME NEW s, StorageOK(s), NEW dir \in Inodes, NEW name, NEW ino, NEW type,
         Dirent(name, ino, type) \in Slot, GoodDir(s, logfs_inode_read(s, dir)),
         NEW t, t = logfs_dir_add(s, dir, name, ino, type)
  PROVE  /\ Stable(s, t)
         /\ Stages(s, t, {Ptr(s, dir, k) : k \in Ks} \cup (DataBlocks \ BB(s)))
         /\ t.rc = "ok" => /\ s.rc = "ok" /\ IsDir(s, dir)
                           /\ ~HasName(s, logfs_inode_read(s, dir), name)
                           /\ Grown(s, t, dir, Dirent(name, ino, type))
         /\ t.rc # "ok" => Extends(s, t)
<1> DEFINE in == logfs_inode_read(s, dir)
           null == {k \in 1 .. NDirBlocks : in.blocks[k] = 0}
           a == logfs_alloc_block(s)
           ent == Dirent(name, ino, type)
           jn == [in EXCEPT !.blocks[Least(null)] = a.out, !.size = @ + BlockUnits]
           c == Put(a, a.out, DirBlock(<<ent>>))
           w == logfs_inode_write(c, dir, jn)
           B == {Ptr(s, dir, k) : k \in Ks} \cup (DataBlocks \ BB(s))
<1>1. t = IF s.rc # "ok" THEN s
          ELSE IF in.type # "dir" THEN Fail(s, "ENOTDIR")
          ELSE IF Named(s, in, name) # {} THEN Fail(s, "EEXIST")
          ELSE IF FreeSlots(s, in) # {} THEN SetSlot(s, in, FirstSlot(FreeSlots(s, in)), ent)
          ELSE IF null = {} THEN Fail(s, "ENOSPC")
          ELSE w
  BY DEF logfs_dir_add
<1>2. in \in Inode /\ Filled(in) BY InodeTyped DEF GoodDir
<1>3. \A b \in {in.blocks[k] : k \in Ks} : b \in B BY DEF Ptr
<1>4. ASSUME t.staged = s.staged, Stable(s, t), t.rc # "ok", \A x : R(t, x) = R(s, x)
      PROVE  Stages(s, t, B) /\ Extends(s, t)
  <2>1. Extends(s, t) BY <1>4, SameReadsExtend
  <2> HIDE DEF B
  <2> QED BY <1>4, <2>1 DEF Stages
<1>5. CASE s.rc # "ok"
  <2>1. t = s BY <1>1, <1>5
  <2>2. Stable(s, t) BY <2>1 DEF Stable
  <2> QED BY <1>4, <1>5, <2>1, <2>2
<1>6. ASSUME NEW rc, rc # "ok", s.rc = "ok", t = Fail(s, rc)
      PROVE  Stable(s, t) /\ Stages(s, t, B) /\ t.rc # "ok" /\ Extends(s, t)
  <2>1. /\ StorageOK(t) /\ t.home = s.home /\ t.logged = s.logged /\ t.staged = s.staged
        /\ (\A x : R(t, x) = R(s, x)) /\ t.rc = rc
    BY <1>6, FailStable
  <2>2. Stable(s, t) BY <2>1 DEF Stable
  <2> HIDE DEF B
  <2> QED BY <1>4, <1>6, <2>1, <2>2
<1>7. CASE s.rc = "ok" /\ in.type # "dir"
  BY <1>1, <1>6, <1>7
<1>8. CASE s.rc = "ok" /\ in.type = "dir" /\ Named(s, in, name) # {}
  BY <1>1, <1>6, <1>8
<1>9. CASE s.rc = "ok" /\ in.type = "dir" /\ Named(s, in, name) = {} /\ FreeSlots(s, in) # {}
  <2> DEFINE z == FirstSlot(FreeSlots(s, in))
  <2>1. z \in FreeSlots(s, in)
    <3>1. FreeSlots(s, in) \subseteq (1 .. NDirBlocks) \X (1 .. DirentsPerBlock)
      BY DEF FreeSlots, Slots
    <3> HIDE DEF in
    <3> QED BY <1>9, <3>1, FirstOfSlots
  <2>2. t = SetSlot(s, in, z, ent) BY <1>1, <1>9
  <2>3. ~HasName(s, in, name) /\ IsDir(s, dir) BY <1>9, Nameds DEF IsDir
  <2>4. /\ Stable(s, t) /\ Stages(s, t, {in.blocks[k] : k \in Ks})
        /\ t.rc = "ok" => s.rc = "ok" /\ Grown(s, t, dir, ent)
        /\ t.rc # "ok" => Extends(s, t)
    <3> HIDE DEF z, ent
    <3>1. ent \in Slot BY DEF ent
    <3> QED BY <2>1, <2>2, <3>1, AddInSlot
  <2>5. Stages(s, t, B)
    <3> HIDE DEF B, in
    <3> QED BY <1>3, <2>4 DEF Stages
  <2> QED BY <2>3, <2>4, <2>5
<1>10. CASE s.rc = "ok" /\ in.type = "dir" /\ Named(s, in, name) = {} /\ FreeSlots(s, in) = {}
            /\ null = {}
  BY <1>1, <1>6, <1>10
<1>11. CASE s.rc = "ok" /\ in.type = "dir" /\ Named(s, in, name) = {} /\ FreeSlots(s, in) = {}
            /\ null # {}
  <2>1. t = w BY <1>1, <1>11
  <2>2. ~HasName(s, in, name) /\ IsDir(s, dir) BY <1>11, Nameds DEF IsDir
  <2>3. CASE a.rc # "ok"
    <3>1. c = a /\ w = a
      <4> HIDE DEF a, jn
      <4> QED BY <2>3, Dead
    <3>2. Within(s, a, {block_bitmap_start}) BY AllocBlock
    <3>3. Stages(s, a, B) /\ Stable(s, a)
      <4> HIDE DEF B, a
      <4> QED BY <3>2, WithinBitmap
    <3>4. \A x \in Device : R(a, x) = R(s, x)
      <4> HIDE DEF a
      <4> QED BY <2>3, <3>2 DEF Within
    <3>5. Extends(s, a)
      <4> HIDE DEF a
      <4> QED BY <3>4, SameReadsExtend
    <3>6. t = a BY <2>1, <3>1
    <3> HIDE DEF a, B
    <3> QED BY <2>3, <3>3, <3>5, <3>6 DEF B
  <2>4. CASE a.rc = "ok"
    <3>1. a.out \in DataBlocks BY <2>4, AllocBlock
    <3>2. jn \in Inode /\ Filled(jn) /\ GrowsBy(in, jn, Least(null), a.out)
      <4> DEFINE b == a.out
      <4>0. b \in DataBlocks BY <3>1
      <4> HIDE DEF b
      <4>1. null # {} => [in EXCEPT !.blocks[Least(null)] = b, !.size = @ + BlockUnits] \in Inode
                         /\ Filled([in EXCEPT !.blocks[Least(null)] = b, !.size = @ + BlockUnits])
                         /\ GrowsBy(in, [in EXCEPT !.blocks[Least(null)] = b, !.size = @ + BlockUnits],
                                    Least(null), b)
        <5> HIDE DEF in
        <5> QED BY <1>2, <4>0, GrowInode
      <4> QED BY <1>11, <4>1 DEF b
    <3> HIDE DEF jn, a, null, ent, c
    <3>3. ent \in Slot BY DEF ent
    <3>4. /\ Stable(s, w) /\ Stages(s, w, DataBlocks \ BB(s))
          /\ w.rc = "ok" => s.rc = "ok" /\ Grown(s, w, dir, ent)
          /\ w.rc # "ok" => Extends(s, w)
      BY <2>4, <3>2, <3>3, AddInBlock DEF a, c
    <3>5. Stages(s, w, B)
      <4>1. \A b \in DataBlocks \ BB(s) : b \in B OBVIOUS
      <4> HIDE DEF B, w
      <4> QED BY <3>4, <4>1 DEF Stages
    <3> HIDE DEF w, B
    <3> QED BY <2>1, <2>2, <3>4, <3>5 DEF ent, B
  <2> QED BY <2>3, <2>4
<1> HIDE DEF B
<1> QED BY <1>5, <1>7, <1>8, <1>9, <1>10, <1>11, <1>4, <1>6 DEF B

-----------------------------------------------------------------------------
(* A new name: mkdir and create. *)

(* J is the naming I and one more path, q, which names n. *)
IsExt(I, J, q, n) ==
  /\ J = [r \in DOMAIN J |-> J[r]] /\ DOMAIN J = DOMAIN I \cup {q} /\ J[q] = n
  /\ \A p \in DOMAIN I : J[p] = I[p] /\ p # q

(* No path names inode n.                                                   *)
Unnamed(I, n) == n \in Inodes /\ \A p \in DOMAIN I : I[p] # n
(* An allocated inode no path names, with its own blocks; if it is a        *)
(* directory it is an empty one whose parent is dir.                        *)
Leaf(s, I, dir, n) ==
  /\ Unnamed(I, n) /\ n \in IB(s)
  /\ logfs_inode_read(s, n).type \in {"dir", "file"}
  /\ \A k \in Ks : Ptr(s, n, k) # 0 =>
       /\ Ptr(s, n, k) \in BB(s) /\ R(s, Ptr(s, n, k)).kind = logfs_inode_read(s, n).type
       /\ \A p \in DOMAIN I, j \in Ks : Ptr(s, I[p], j) # Ptr(s, n, k)
       /\ \A j \in Ks : Ptr(s, n, j) = Ptr(s, n, k) => j = k
  /\ IsDir(s, n) =>
       LET in == logfs_inode_read(s, n) IN
       /\ Filled(in) /\ OneEach(s, in) /\ HasName(s, in, ".") /\ HasName(s, in, "..")
       /\ \A x \in Used(s, in) : \/ Entry(s, in, x).name = "." /\ Entry(s, in, x).ino = n
                                 \/ Entry(s, in, x).name = ".." /\ Entry(s, in, x).ino = dir

(* A naming can be given one more path.                                     *)
LEMMA ExtExists ==
  ASSUME NEW I, NEW q, q \notin DOMAIN I, NEW n
  PROVE  \E J : IsExt(I, J, q, n)
<1> DEFINE J == [r \in DOMAIN I \cup {q} |-> IF r = q THEN n ELSE I[r]]
<1>1. IsExt(I, J, q, n) BY DEF IsExt
<1> QED BY <1>1

(* ... and is still a naming if the inode had no name.                      *)
LEMMA ExtNaming ==
  ASSUME NEW I, Naming(I), NEW q \in Paths, NEW n, Unnamed(I, n), NEW J, IsExt(I, J, q, n)
  PROVE  Naming(J)
<1>1. DOMAIN J = DOMAIN I \cup {q} /\ J[q] = n BY DEF IsExt
<1>2. \A p \in DOMAIN I : J[p] = I[p] /\ p # q BY DEF IsExt
<1>4. J \in [DOMAIN J -> Inodes]
  <2>1. \A p \in DOMAIN J : J[p] \in Inodes BY <1>1, <1>2 DEF Naming, Unnamed
  <2> QED BY <2>1 DEF IsExt
<1>5. \A p, r \in DOMAIN J : J[p] = J[r] => p = r BY <1>1, <1>2 DEF Naming, Unnamed
<1>6. <<>> \in DOMAIN J /\ J[<<>>] = ROOT_INO /\ DOMAIN J \subseteq {<<>>} \cup Paths
  BY <1>1, <1>2 DEF Naming
<1> QED BY <1>4, <1>5, <1>6 DEF Naming

(* The owners of the blocks, with a new inode's own blocks among them.      *)
LEMMA ExtOwners ==
  ASSUME NEW s, NEW I, Sound(s, I), NEW q,
         NEW dir, NEW n, Leaf(s, I, dir, n), NEW J, IsExt(I, J, q, n)
  PROVE  Owners(s, J)
<1>1. /\ DOMAIN J = DOMAIN I \cup {q} /\ J[q] = n
      /\ \A p \in DOMAIN I : J[p] = I[p] /\ p # q
  BY DEF IsExt
<1>2. \A p \in DOMAIN I, k \in Ks : Owner(s, I, p, k) BY DEF Sound, Owners
<1>3. \A k \in Ks : Ptr(s, n, k) # 0 =>
       /\ Ptr(s, n, k) \in BB(s) /\ R(s, Ptr(s, n, k)).kind = logfs_inode_read(s, n).type
       /\ \A p \in DOMAIN I, j \in Ks : Ptr(s, I[p], j) # Ptr(s, n, k)
       /\ \A j \in Ks : Ptr(s, n, j) = Ptr(s, n, k) => j = k
  BY DEF Leaf
<1>4. ASSUME NEW p \in DOMAIN J, NEW k \in Ks PROVE Owner(s, J, p, k)
  <2>1. CASE p = q BY <1>1, <1>3, <2>1 DEF Owner
  <2>2. CASE p # q
    <3>1. p \in DOMAIN I /\ J[p] = I[p] BY <1>1, <2>2
    <3>2. Owner(s, I, p, k) BY <1>2, <3>1
    <3>3. ASSUME NEW r \in DOMAIN J, NEW j \in Ks, Ptr(s, I[p], k) # 0,
                 Ptr(s, J[r], j) = Ptr(s, I[p], k)
          PROVE  r = p /\ j = k
      <4>1. CASE r = q BY <1>1, <1>3, <3>1, <3>3, <4>1
      <4>2. CASE r # q BY <1>1, <3>2, <3>3, <4>2 DEF Owner
      <4> QED BY <4>1, <4>2
    <3> QED BY <3>1, <3>2, <3>3 DEF Owner
  <2> QED BY <2>1, <2>2
<1> QED BY <1>4 DEF Owners

(* An entry that was right stays right when paths are added.                *)
LEMMA EntryMono ==
  ASSUME NEW s, NEW t, NEW I, NEW J, NEW p \in DOMAIN I, Above(p) \in DOMAIN I,
         \A r \in DOMAIN I : r \in DOMAIN J /\ J[r] = I[r],
         \A r \in DOMAIN I : logfs_inode_read(t, I[r]).type = logfs_inode_read(s, I[r]).type,
         NEW e, EntryOK(s, I, p, e)
  PROVE  EntryOK(t, J, p, e)
BY DEF EntryOK, Child

(* What dir_add does to the pointers, for everyone. *)
LEMMA GrownPointers ==
  ASSUME NEW s, StorageOK(s), NEW t, NEW J, Naming(J), Owners(s, J),
         NEW par \in DOMAIN J, IsDir(s, J[par]), NEW ent, Grown(s, t, J[par], ent)
  PROVE  /\ Owners(t, J)
         /\ \A p \in DOMAIN J \ {par} :
              /\ logfs_inode_read(t, J[p]) = logfs_inode_read(s, J[p])
              /\ \A k \in Ks : Ptr(s, J[p], k) # 0 => R(t, Ptr(s, J[p], k)) = R(s, Ptr(s, J[p], k))
<1> DEFINE d == J[par]
           in == logfs_inode_read(s, d)
           jn == logfs_inode_read(t, d)
<1>1. /\ BB(s) \subseteq BB(t) /\ jn.type = in.type
      /\ \A j \in Inodes \ {d} : logfs_inode_read(t, j) = logfs_inode_read(s, j)
      /\ \A b \in DataBlocks : (\A k \in Ks : jn.blocks[k] # b) => R(t, b) = R(s, b)
      /\ NewPointers(s, t, in, jn)
  BY DEF Grown
<1>2. /\ \A k \in Ks : \/ jn.blocks[k] = in.blocks[k]
                       \/ in.blocks[k] = 0 /\ jn.blocks[k] \in BB(t) \ BB(s)
      /\ \A j, k \in Ks : in.blocks[j] # jn.blocks[j] /\ in.blocks[k] # jn.blocks[k] => j = k
      /\ \A k \in Ks : jn.blocks[k] # 0 /\ (in.blocks[k] # 0 => R(s, in.blocks[k]).kind = "dir") =>
                         R(t, jn.blocks[k]).kind = "dir"
  BY <1>1 DEF NewPointers
<1>3. \A k \in Ks : Ptr(s, d, k) = in.blocks[k] /\ Ptr(t, d, k) = jn.blocks[k] BY DEF Ptr
<1>4. \A p \in DOMAIN J, k \in Ks : Owner(s, J, p, k) BY DEF Owners
<1>5. d \in Inodes /\ in.type = "dir" BY DEF Naming, IsDir
<1>6. \A p \in DOMAIN J \ {par} : J[p] \in Inodes \ {d} BY DEF Naming
<1> HIDE DEF in, jn, d
<1>7. \A p \in DOMAIN J \ {par} : /\ logfs_inode_read(t, J[p]) = logfs_inode_read(s, J[p])
                                  /\ \A k \in Ks : Ptr(t, J[p], k) = Ptr(s, J[p], k)
  BY <1>1, <1>6 DEF Ptr
<1>8. ASSUME NEW k \in Ks, in.blocks[k] # 0
      PROVE  /\ in.blocks[k] \in BB(s) /\ R(s, in.blocks[k]).kind = "dir"
             /\ jn.blocks[k] = in.blocks[k]
             /\ \A r \in DOMAIN J, j \in Ks : Ptr(s, J[r], j) = in.blocks[k] => r = par /\ j = k
  <2>1. Owner(s, J, par, k) BY <1>4
  <2> QED BY <1>2, <1>3, <1>5, <1>8, <2>1 DEF Owner, d, in
<1>9. ASSUME NEW p \in DOMAIN J \ {par}, NEW k \in Ks, Ptr(s, J[p], k) # 0
      PROVE  /\ Ptr(s, J[p], k) \in BB(s) /\ \A j \in Ks : jn.blocks[j] # Ptr(s, J[p], k)
             /\ R(t, Ptr(s, J[p], k)) = R(s, Ptr(s, J[p], k))
  <2> DEFINE b == Ptr(s, J[p], k)
  <2>1. Owner(s, J, p, k) BY <1>4
  <2>2. b \in BB(s) BY <1>9, <2>1 DEF Owner
  <2> HIDE DEF b
  <2>3. ASSUME NEW j \in Ks, jn.blocks[j] = b PROVE FALSE
    <3>1. in.blocks[j] = b BY <1>2, <2>2, <2>3
    <3>2. in.blocks[j] # 0 BY <1>9, <3>1 DEF b
    <3> QED BY <1>8, <3>1, <3>2 DEF b
  <2>4. b \in DataBlocks BY <2>2, BitmapsTyped
  <2>5. R(t, b) = R(s, b) BY <1>1, <2>3, <2>4
  <2> QED BY <2>2, <2>3, <2>5 DEF b
<1>10. ASSUME NEW p \in DOMAIN J, NEW k \in Ks, Ptr(t, J[p], k) # 0 PROVE Owner(t, J, p, k)
  <2> DEFINE b == Ptr(t, J[p], k)
  <2>1. CASE p # par
    <3>1. Owner(s, J, p, k) /\ Ptr(s, J[p], k) = b BY <1>4, <1>7, <2>1
    <3>2. b \in BB(s) /\ (\A j \in Ks : jn.blocks[j] # b) /\ R(t, b) = R(s, b)
      BY <1>9, <1>10, <2>1, <3>1
    <3>3. ASSUME NEW r \in DOMAIN J, NEW j \in Ks, Ptr(t, J[r], j) = b PROVE r = p /\ j = k
      <4>1. r # par BY <1>3, <3>2, <3>3 DEF d
      <4>2. Ptr(s, J[r], j) = Ptr(s, J[p], k) BY <1>7, <3>1, <3>3, <4>1
      <4> QED BY <1>10, <3>1, <4>2 DEF Owner
    <3> HIDE DEF b
    <3>4. b # 0 BY <1>10 DEF b
    <3>5. R(t, b).kind = logfs_inode_read(t, J[p]).type BY <1>7, <2>1, <3>1, <3>2, <3>4 DEF Owner
    <3> QED BY <1>1, <3>2, <3>3, <3>5 DEF Owner, b
  <2>2. CASE p = par
    <3>0. b = jn.blocks[k] BY <1>3, <2>2 DEF d
    <3> HIDE DEF b
    <3>00. b # 0 BY <1>10 DEF b
    <3>1. R(t, b).kind = logfs_inode_read(t, J[p]).type
      <4>1. R(t, b).kind = "dir" BY <1>2, <1>8, <3>0, <3>00
      <4> QED BY <1>1, <1>5, <2>2, <4>1 DEF d, jn
    <3>2. b \in BB(t) BY <1>1, <1>2, <1>8, <3>0, <3>00
    <3>3. ASSUME NEW r \in DOMAIN J, NEW j \in Ks, Ptr(t, J[r], j) = b PROVE r = p /\ j = k
      <4>1. CASE r # par
        <5>1. Ptr(s, J[r], j) = b BY <1>7, <3>3, <4>1
        <5> QED BY <1>9, <3>0, <3>00, <4>1, <5>1
      <4>2. CASE r = par
        <5>1. jn.blocks[j] = b BY <1>3, <3>3, <4>2 DEF d
        <5>2. CASE in.blocks[k] # 0
          <6>1. b \in BB(s) /\ in.blocks[k] = b BY <1>8, <3>0, <5>2
          <6>2. in.blocks[j] = b BY <1>2, <5>1, <6>1
          <6> QED BY <1>3, <1>8, <2>2, <4>2, <5>2, <6>1, <6>2 DEF d
        <5>3. CASE in.blocks[k] = 0
          <6>1. b \notin BB(s) /\ in.blocks[k] # jn.blocks[k] BY <1>2, <3>0, <3>00, <5>3
          <6>2. in.blocks[j] # jn.blocks[j] BY <1>8, <3>00, <5>1, <6>1
          <6> QED BY <1>2, <2>2, <4>2, <6>1, <6>2
        <5> QED BY <5>2, <5>3
      <4> QED BY <4>1, <4>2
    <3> QED BY <3>1, <3>2, <3>3 DEF Owner, b
  <2> QED BY <2>1, <2>2
<1>11. Owners(t, J) BY <1>10 DEF Owners, Owner
<1> QED BY <1>7, <1>9, <1>11

(* An entry for an inode that is ready, but has no name yet, makes a sound  *)
(* tree with one path more.                                                 *)
LEMMA Link ==
  ASSUME NEW s, StorageOK(s), NEW t, NEW I, Sound(s, I),
         NEW q \in Paths, q \notin DOMAIN I, Front(q) \in DOMAIN I, IsDir(s, I[Front(q)]),
         NEW n, Leaf(s, I, I[Front(q)], n), NEW J, IsExt(I, J, q, n),
         Grown(s, t, I[Front(q)], Dirent(Last(q), n, logfs_inode_read(s, n).type))
  PROVE  Sound(t, J)
<1> DEFINE par == Front(q)
           d == I[par]
           in == logfs_inode_read(s, d)
           jn == logfs_inode_read(t, d)
           ent == Dirent(Last(q), n, logfs_inode_read(s, n).type)
<1>1. Naming(I) /\ Placed(s, I) /\ Unnamed(I, n) BY DEF Sound, Leaf
<1>2. /\ DOMAIN J = DOMAIN I \cup {q} /\ J[q] = n /\ Naming(J)
      /\ \A p \in DOMAIN I : J[p] = I[p] /\ p # q
  BY <1>1, ExtNaming DEF IsExt
<1>3. Owners(s, J) BY ExtOwners
<1>4. par \in DOMAIN J /\ J[par] = d /\ par # q BY <1>2
<1>5. /\ Owners(t, J)
      /\ \A p \in DOMAIN J \ {par} :
           /\ logfs_inode_read(t, J[p]) = logfs_inode_read(s, J[p])
           /\ \A k \in Ks : Ptr(s, J[p], k) # 0 => R(t, Ptr(s, J[p], k)) = R(s, Ptr(s, J[p], k))
  <2>1. IsDir(s, J[par]) /\ Grown(s, t, J[par], ent) BY <1>4
  <2> HIDE DEF ent, par
  <2> QED BY <1>2, <1>3, <1>4, <2>1, GrownPointers
<1>6. IB(t) = IB(s) /\ jn.type = "dir" /\ Filled(jn) /\ NewEntry(s, t, in, jn, ent)
  BY DEF Grown, IsDir
<1>7. \A p \in DOMAIN J : logfs_inode_read(t, J[p]).type = logfs_inode_read(s, J[p]).type
  <2>1. in.type = "dir" BY DEF IsDir
  <2> HIDE DEF in, jn
  <2>2. logfs_inode_read(t, J[par]).type = logfs_inode_read(s, J[par]).type
    BY <1>4, <1>6, <2>1 DEF in, jn
  <2> HIDE DEF par
  <2> QED BY <1>5, <2>2
<1>8. \A r \in DOMAIN I : r \in DOMAIN J /\ J[r] = I[r] /\ Above(r) \in DOMAIN I
  BY <1>1, <1>2 DEF Placed
<1>9. \A r \in DOMAIN I : logfs_inode_read(t, I[r]).type = logfs_inode_read(s, I[r]).type
  BY <1>7, <1>8
<1>10. q # <<>> /\ Above(q) = par /\ Last(q) \notin {".", ".."} /\ q \in Seq(Names)
  BY PathFacts DEF Above
<1>11. Placed(t, J)
  <2> SUFFICES ASSUME NEW p \in DOMAIN J
               PROVE  /\ Above(p) \in DOMAIN J /\ IsDir(t, J[Above(p)])
                      /\ J[p] \in IB(t) /\ logfs_inode_read(t, J[p]).type \in {"dir", "file"}
    BY DEF Placed
  <2>1. CASE p = q
    <3>1. J[p] \in IB(t) /\ logfs_inode_read(t, J[p]).type \in {"dir", "file"}
      BY <1>2, <1>6, <1>7, <2>1 DEF Leaf
    <3>2. IsDir(t, J[par]) BY <1>4, <1>6 DEF IsDir
    <3> QED BY <1>4, <1>10, <2>1, <3>1, <3>2
  <2>2. CASE p # q
    <3>1. p \in DOMAIN I BY <1>2, <2>2
    <3>2. /\ Above(p) \in DOMAIN I /\ IsDir(s, I[Above(p)])
          /\ I[p] \in IB(s) /\ logfs_inode_read(s, I[p]).type \in {"dir", "file"}
      BY <1>1, <3>1 DEF Placed
    <3> QED BY <1>6, <1>8, <1>9, <3>1, <3>2 DEF IsDir
  <2> QED BY <2>1, <2>2
<1>12. Listed(t, J, par)
  <2>0. Listed(s, I, par) /\ logfs_inode_read(t, J[par]) = jn BY <1>4 DEF Sound
  <2>1. /\ OneEach(s, in)
        /\ \A x \in Used(s, in) : EntryOK(s, I, par, Entry(s, in, x))
        /\ HasName(s, in, ".") /\ HasName(s, in, "..")
        /\ \A r : Child(I, par, r) => HasName(s, in, Last(r))
    BY <2>0 DEF Listed
  <2>2. PICK z \in Slots(jn) :
           /\ Entry(t, jn, z) = ent
           /\ z \in Slots(in) => Entry(s, in, z).ino = 0
           /\ \A x \in Slots(jn) \ {z} :
                IF x \in Slots(in) THEN Entry(t, jn, x) = Entry(s, in, x)
                ELSE Entry(t, jn, x).ino = 0
    BY <1>6 DEF NewEntry
  <2>3. Slots(in) \subseteq Slots(jn) BY <1>6 DEF NewEntry
  <2>4. n # 0 /\ ent.ino = n /\ ent.name = Last(q) /\ ent.type = logfs_inode_read(s, n).type
    BY <1>1 DEF Unnamed, Inodes, Dirent
  <2> HIDE DEF in, jn, ent, par
  <2>5. z \in Used(t, jn) BY <2>2, <2>4 DEF Used
  <2>6. \A x \in Used(t, jn) : x # z => x \in Used(s, in) /\ Entry(t, jn, x) = Entry(s, in, x)
    BY <2>2 DEF Used
  <2>7. \A x \in Used(s, in) : x # z /\ x \in Used(t, jn) /\ Entry(t, jn, x) = Entry(s, in, x)
    BY <2>2, <2>3 DEF Used
  <2>8. ~HasName(s, in, Last(q))
    <3> SUFFICES ASSUME NEW x \in Used(s, in), Entry(s, in, x).name = Last(q) PROVE FALSE
      BY DEF HasName
    <3>1. PICK r \in DOMAIN I : Child(I, par, r) /\ Last(r) = Last(q)
      BY <1>10, <2>1 DEF EntryOK
    <3>2. r \in Seq(Names) /\ r # <<>> /\ Front(r) = Front(q)
      BY <1>1, <3>1, PathFacts DEF Child, Naming, par
    <3>3. r = q BY <1>10, <3>1, <3>2, FrontLastUnique
    <3> QED BY <3>1, <3>3
  <2>9. OneEach(t, jn)
    BY <2>1, <2>2, <2>4, <2>5, <2>6, <2>8 DEF OneEach, HasName
  <2>10. ASSUME NEW x \in Used(t, jn) PROVE EntryOK(t, J, par, Entry(t, jn, x))
    <3>1. CASE x = z
      <4>1. Child(J, par, q) BY <1>2, <1>10 DEF Child, par
      <4>2. ent.type = logfs_inode_read(t, n).type BY <1>2, <1>7, <2>4
      <4> QED BY <1>2, <2>2, <2>4, <3>1, <4>1, <4>2 DEF EntryOK
    <3>2. CASE x # z
      <4>1. EntryOK(s, I, par, Entry(t, jn, x)) BY <2>1, <2>6, <3>2
      <4> DEFINE e == Entry(t, jn, x)
      <4> HIDE DEF e
      <4>2. par \in DOMAIN I /\ Above(par) \in DOMAIN I BY <1>8 DEF par
      <4>3. EntryOK(s, I, par, e) BY <4>1 DEF e
      <4>4. EntryOK(t, J, par, e) BY <1>8, <1>9, <4>2, <4>3, EntryMono
      <4> QED BY <4>4 DEF e
    <3> QED BY <3>1, <3>2
  <2>11. \A name : HasName(s, in, name) => HasName(t, jn, name)
    BY <2>7 DEF HasName
  <2>12. HasName(t, jn, Last(q)) BY <2>2, <2>4, <2>5 DEF HasName
  <2>13. \A r : Child(J, par, r) => HasName(t, jn, Last(r))
    BY <1>2, <2>1, <2>11, <2>12 DEF Child
  <2> QED BY <1>6, <2>0, <2>1, <2>9, <2>10, <2>11, <2>13 DEF Listed, jn
<1>13. ASSUME NEW p \in DOMAIN J, p # par, IsDir(t, J[p]) PROVE Listed(t, J, p)
  <2> DEFINE kn == logfs_inode_read(s, J[p])
  <2> HIDE DEF par, in, jn, ent
  <2>1. logfs_inode_read(t, J[p]) = kn /\ IsDir(s, J[p]) BY <1>5, <1>13 DEF IsDir
  <2>2. \A k \in Ks : kn.blocks[k] # 0 => R(t, kn.blocks[k]) = R(s, kn.blocks[k])
    BY <1>5, <1>13 DEF Ptr
  <2> HIDE DEF kn
  <2>3. /\ \A x \in Slots(kn) : Entry(t, kn, x) = Entry(s, kn, x)
        /\ Used(t, kn) = Used(s, kn)
        /\ OneEach(t, kn) = OneEach(s, kn)
        /\ \A name : HasName(t, kn, name) = HasName(s, kn, name)
    BY <2>2, SameEntries
  <2>4. \A x \in Used(t, kn) : Entry(t, kn, x) = Entry(s, kn, x) BY <2>3 DEF Used
  <2>5. CASE p = q
    <3>1. /\ Filled(kn) /\ OneEach(s, kn) /\ HasName(s, kn, ".") /\ HasName(s, kn, "..")
          /\ \A x \in Used(s, kn) : \/ Entry(s, kn, x).name = "." /\ Entry(s, kn, x).ino = n
                                    \/ Entry(s, kn, x).name = ".." /\ Entry(s, kn, x).ino = I[Front(q)]
      BY <1>2, <2>1, <2>5 DEF Leaf, kn
    <3>2. ASSUME NEW x \in Used(t, kn) PROVE EntryOK(t, J, p, Entry(t, kn, x))
      <4>1. J[p] = n /\ J[Above(p)] = I[Front(q)] BY <1>2, <1>4, <1>10, <2>5 DEF d, par
      <4> QED BY <2>3, <2>4, <3>1, <4>1 DEF EntryOK
    <3>3. ASSUME NEW r, Child(J, p, r) PROVE FALSE
      <4>1. CASE r = q BY <1>4, <2>5, <3>3, <4>1 DEF Child, par
      <4>2. CASE r # q
        <5>1. r \in DOMAIN I /\ r # <<>> /\ Front(r) = q BY <1>2, <2>5, <3>3, <4>2 DEF Child
        <5>2. Above(r) = q BY <5>1 DEF Above
        <5> QED BY <1>8, <5>1, <5>2
      <4> QED BY <4>1, <4>2
    <3> QED BY <2>1, <2>3, <3>1, <3>2, <3>3 DEF Listed
  <2>6. CASE p # q
    <3>0. p \in DOMAIN I /\ J[p] = I[p] /\ Above(p) \in DOMAIN I BY <1>2, <1>8, <2>6
    <3>1. Listed(s, I, p) BY <2>1, <3>0 DEF Sound
    <3>2. /\ Filled(kn) /\ OneEach(s, kn)
          /\ \A x \in Used(s, kn) : EntryOK(s, I, p, Entry(s, kn, x))
          /\ HasName(s, kn, ".") /\ HasName(s, kn, "..")
          /\ \A r : Child(I, p, r) => HasName(s, kn, Last(r))
      BY <3>0, <3>1 DEF Listed, kn
    <3>3. ASSUME NEW x \in Used(t, kn) PROVE EntryOK(t, J, p, Entry(t, kn, x))
      <4> DEFINE e == Entry(t, kn, x)
      <4>1. EntryOK(s, I, p, e) BY <2>3, <2>4, <3>2
      <4> HIDE DEF e
      <4>2. EntryOK(t, J, p, e) BY <1>8, <1>9, <3>0, <4>1, EntryMono
      <4> QED BY <4>2 DEF e
    <3>4. \A r : Child(J, p, r) => Child(I, p, r)
      BY <1>2, <1>13 DEF Child, par
    <3> QED BY <2>1, <2>3, <3>2, <3>3, <3>4 DEF Listed
  <2> QED BY <2>5, <2>6
<1> HIDE DEF par
<1> QED BY <1>2, <1>5, <1>11, <1>12, <1>13 DEF Sound

(* There are at most as many paths as inodes, so link counts are numbers;   *)
(* and as many inodes in use as paths.                                      *)
LEMMA FiniteNaming ==
  ASSUME NEW I, Naming(I)
  PROVE  /\ IsFiniteSet(DOMAIN I)
         /\ Cardinality({I[p] : p \in DOMAIN I}) = Cardinality(DOMAIN I)
         /\ \A s, p : IsFiniteSet(Subdirs(s, I, p)) /\ Cardinality(Subdirs(s, I, p)) \in Nat
<1> DEFINE T == {I[p] : p \in DOMAIN I}
<1>1. IsFiniteSet(Inodes)
  <2>1. 1 \in Int /\ TotalInodes \in Int BY FileSystemAssumption
  <2> QED BY <2>1, FS_Interval DEF Inodes
<1>2. T \in SUBSET Inodes BY DEF Naming
<1>3. IsFiniteSet(T)
  <2> HIDE DEF T
  <2> QED BY <1>1, <1>2, FS_Subset
<1>4. I \in [DOMAIN I -> T] BY DEF Naming
<1>5. I \in Injection(DOMAIN I, T)
  <2> HIDE DEF T
  <2> QED BY <1>4 DEF Injection, IsInjective, Naming
<1>6. I \in Surjection(DOMAIN I, T)
  <2>1. \A y \in T : \E x \in DOMAIN I : I[x] = y OBVIOUS
  <2> HIDE DEF T
  <2> QED BY <1>4, <2>1 DEF Surjection
<1> HIDE DEF T
<1>7. IsFiniteSet(DOMAIN I) /\ Cardinality(DOMAIN I) = Cardinality(T)
  BY <1>3, <1>5, <1>6, FS_Injection
<1>8. ASSUME NEW s, NEW p PROVE IsFiniteSet(Subdirs(s, I, p)) /\ Cardinality(Subdirs(s, I, p)) \in Nat
  <2>1. Subdirs(s, I, p) \in SUBSET DOMAIN I BY DEF Subdirs
  <2>2. IsFiniteSet(Subdirs(s, I, p)) BY <1>7, <2>1, FS_Subset
  <2> QED BY <2>2, FS_CardinalityType
<1> QED BY <1>7, <1>8 DEF T

(* Every directory of a sound tree is as logfs_dir_add expects it.          *)
LEMMA SoundGoodDir ==
  ASSUME NEW s, NEW I, Sound(s, I), NEW p \in DOMAIN I, IsDir(s, I[p])
  PROVE  GoodDir(s, logfs_inode_read(s, I[p]))
<1> DEFINE in == logfs_inode_read(s, I[p])
<1>1. Filled(in) BY DEF Sound, Listed
<1>2. \A k \in Ks : Owner(s, I, p, k) BY DEF Sound, Owners
<1>3. \A k \in Ks : Ptr(s, I[p], k) = in.blocks[k] BY DEF Ptr
<1> HIDE DEF in
<1>4. Injective(in) BY <1>2, <1>3 DEF Injective, Owner
<1>5. \A k \in Ks : in.blocks[k] # 0 => in.blocks[k] \in BB(s) BY <1>2, <1>3 DEF Owner
<1> QED BY <1>1, <1>4, <1>5 DEF GoodDir, in

(* The inodes named by J have the same types in s and t.                    *)
SameTypes(s, t, J) ==
  \A p \in DOMAIN J : logfs_inode_read(t, J[p]).type = logfs_inode_read(s, J[p]).type

(* The same types: the same subdirectories, and q if it is one. *)
LEMMA ExtSubdirs ==
  ASSUME NEW s, NEW t, NEW I, Sound(s, I), NEW q \in Paths, q \notin DOMAIN I,
         Front(q) \in DOMAIN I, NEW n, Unnamed(I, n),
         NEW J, IsExt(I, J, q, n), SameTypes(s, t, J)
  PROVE  /\ Subdirs(t, J, q) = {}
         /\ \A p \in DOMAIN I :
              Subdirs(t, J, p) = IF p = Front(q) /\ IsDir(t, n) THEN Subdirs(s, I, p) \cup {q}
                                 ELSE Subdirs(s, I, p)
<1>1. Naming(I) /\ Placed(s, I) /\ Unnamed(I, n) BY DEF Sound
<1>2. /\ DOMAIN J = DOMAIN I \cup {q} /\ J[q] = n
      /\ \A p \in DOMAIN I : J[p] = I[p] /\ p # q
  BY DEF IsExt
<1>3. q # <<>> BY PathFacts
<1>4. \A r \in DOMAIN I : r # <<>> => Front(r) \in DOMAIN I BY <1>1 DEF Placed, Above
<1>5. \A r \in DOMAIN I : IsDir(t, J[r]) = IsDir(s, I[r]) BY <1>2 DEF IsDir, SameTypes
<1>6. \A r : Child(J, q, r) => FALSE BY <1>2, <1>4 DEF Child
<1>7. \A p \in DOMAIN I : \A r : Child(J, p, r) <=> Child(I, p, r) \/ (r = q /\ p = Front(q))
  BY <1>2, <1>3 DEF Child
<1>8. ASSUME NEW p \in DOMAIN I, NEW r
      PROVE  r \in Subdirs(t, J, p) <=> r \in Subdirs(s, I, p) \/ (r = q /\ p = Front(q) /\ IsDir(t, n))
  <2>1. r \in Subdirs(t, J, p) <=> Child(J, p, r) /\ IsDir(t, J[r]) BY DEF Subdirs, Child
  <2>2. r \in Subdirs(s, I, p) <=> Child(I, p, r) /\ IsDir(s, I[r]) BY DEF Subdirs, Child
  <2>3. Child(I, p, r) => r \in DOMAIN I BY DEF Child
  <2> QED BY <1>2, <1>5, <1>7, <2>1, <2>2, <2>3
<1>9. Subdirs(t, J, q) = {} BY <1>6 DEF Subdirs
<1> QED BY <1>8, <1>9

(* logfs_dir_add leaks nothing: the block it allocates is the one it points *)
(* to.                                                                      *)
LEMMA GrownTight ==
  ASSUME NEW s, StorageOK(s), NEW t, NEW J, Naming(J), Owners(s, J), NEW par \in DOMAIN J,
         IsDir(s, J[par]), NEW ent, Grown(s, t, J[par], ent), Tight(s, J)
  PROVE  Tight(t, J)
<1> DEFINE in == logfs_inode_read(s, J[par])
           jn == logfs_inode_read(t, J[par])
<1>1. IB(t) = IB(s) /\ NewPointers(s, t, in, jn) BY DEF Grown
<1>2. /\ \A k \in Ks : jn.blocks[k] = in.blocks[k] \/ in.blocks[k] = 0
      /\ \A b \in BB(t) \ BB(s) : \E k \in Ks : jn.blocks[k] = b
  BY <1>1 DEF NewPointers
<1>3. \A p \in DOMAIN J \ {par} : logfs_inode_read(t, J[p]) = logfs_inode_read(s, J[p])
  BY GrownPointers
<1>4. ASSUME NEW b \in BB(t) PROVE \E p \in DOMAIN J, k \in Ks : Ptr(t, J[p], k) = b
  <2>1. CASE b \notin BB(s)
    <3>1. PICK k \in Ks : jn.blocks[k] = b BY <1>2, <2>1
    <3> QED BY <3>1 DEF Ptr
  <2>2. CASE b \in BB(s)
    <3>1. PICK p \in DOMAIN J, k \in Ks : Ptr(s, J[p], k) = b BY <2>2 DEF Tight
    <3>2. b # 0 BY <2>2, BitmapsTyped, Layout
    <3>3. CASE p = par
      <4>1. in.blocks[k] = b BY <3>1, <3>3 DEF Ptr
      <4>2. jn.blocks[k] = b BY <1>2, <3>2, <4>1
      <4> QED BY <3>3, <4>2 DEF Ptr
    <3>4. CASE p # par BY <1>3, <3>1, <3>4 DEF Ptr
    <3> QED BY <3>3, <3>4
  <2> QED BY <2>1, <2>2
<1> QED BY <1>1, <1>4 DEF Tight

(* The data blocks that an operation on the directory at p may stage: its   *)
(* own and free ones.                                                       *)
DirArea(s, I, p) == {Ptr(s, I[p], k) : k \in Ks} \cup (DataBlocks \ BB(s))

(* The inodes named by J are the same in s and t, but for that at r.        *)
SameExcept(s, t, J, r) ==
  \A p \in DOMAIN J \ {r} : logfs_inode_read(t, J[p]) = logfs_inode_read(s, J[p])

(* What getattr and read show of inode ino is the same in s and t.          *)
SameNode(s, t, ino) ==
  LET in == logfs_inode_read(s, ino)
      jn == logfs_inode_read(t, ino)
  IN  /\ jn.type = in.type
      /\ in.type = "file" =>
           /\ jn.size = in.size /\ jn.blocks = in.blocks
           /\ \A k \in Ks : in.blocks[k] # 0 => R(t, in.blocks[k]) = R(s, in.blocks[k])
SameNodes(s, t, I) == \A p \in DOMAIN I : SameNode(s, t, I[p])

(* This is transitive. *)
LEMMA NodesTrans ==
  ASSUME NEW s, NEW t, NEW u, NEW I, SameNodes(s, t, I), SameNodes(t, u, I)
  PROVE  SameNodes(s, u, I)
BY DEF SameNodes, SameNode

(* What changes only what is free shows the same everywhere.                *)
LEMMA ExtendsNodes ==
  ASSUME NEW s, NEW I, Sound(s, I), NEW t, Extends(s, t)
  PROVE  SameNodes(s, t, I)
<1> SUFFICES ASSUME NEW p \in DOMAIN I PROVE SameNode(s, t, I[p]) BY DEF SameNodes
<1>1. I[p] \in IB(s) BY DEF Sound, Placed
<1>2. logfs_inode_read(t, I[p]) = logfs_inode_read(s, I[p]) BY <1>1 DEF Extends
<1>3. \A k \in Ks : Ptr(s, I[p], k) # 0 => Ptr(s, I[p], k) \in BB(s) BY DEF Sound, Owners, Owner
<1>4. \A k \in Ks : Ptr(s, I[p], k) # 0 => R(t, Ptr(s, I[p], k)) = R(s, Ptr(s, I[p], k))
  BY <1>3 DEF Extends
<1> QED BY <1>2, <1>4 DEF SameNode, Ptr

(* State d of a call that has made inode n and is about to name it q.       *)
AddReady(s, I, q, d, n, type) ==
  /\ StorageOK(s) /\ Sound(s, I) /\ q \in Paths /\ q \notin DOMAIN I
  /\ Front(q) \in DOMAIN I /\ IsDir(s, I[Front(q)])
  /\ Stable(s, d) /\ Extends(s, d) /\ Stages(s, d, DataBlocks \ BB(s))
  /\ d.rc = "ok" => Leaf(d, I, I[Front(q)], n) /\ type = logfs_inode_read(d, n).type

(* What logfs_dir_add makes of that: the structure of J, or, after an       *)
(* error, at most leaked blocks.                                            *)
AddDone(s, I, J, q, d, e) ==
  /\ Stable(s, e) /\ Stages(s, e, DirArea(s, I, Front(q)))
  /\ e.rc # "ok" => Extends(s, e)
  /\ e.rc = "ok" => /\ d.rc = "ok" /\ Sound(e, J) /\ SameTypes(d, e, J) /\ SameLinks(d, e, J)
                    /\ SameExcept(d, e, J, Front(q)) /\ SameNodes(d, e, J)
                    /\ Tight(d, J) => Tight(e, J)

(* logfs_dir_add for a new inode, as mkdir and create use it.               *)
LEMMA AddName ==
  ASSUME NEW s, NEW I, NEW q, NEW d, NEW n, NEW type, AddReady(s, I, q, d, n, type),
         NEW J, IsExt(I, J, q, n),
         NEW e, e = logfs_dir_add(d, I[Front(q)], Last(q), n, type)
  PROVE  AddDone(s, I, J, q, d, e)
<1> SUFFICES
         /\ Stable(s, e) /\ Stages(s, e, DirArea(s, I, Front(q)))
         /\ e.rc # "ok" => Extends(s, e)
         /\ e.rc = "ok" => /\ d.rc = "ok" /\ Sound(e, J) /\ SameTypes(d, e, J) /\ SameLinks(d, e, J)
                           /\ SameExcept(d, e, J, Front(q)) /\ SameNodes(d, e, J)
                           /\ Tight(d, J) => Tight(e, J)
  BY DEF AddDone
<1> USE DEF AddReady
<1> DEFINE par == Front(q)
           dir == I[par]
           A == DirArea(s, I, par)
<1>1. Sound(d, I) /\ \A p \in DOMAIN I : logfs_inode_read(d, I[p]) = logfs_inode_read(s, I[p])
  <2>1. Alike(s, d, I) BY ExtendsAlike
  <2> QED BY <2>1, Frame DEF Alike
<1>2. Stages(s, d, A)
  <2>1. \A b \in DataBlocks \ BB(s) : b \in A BY DEF DirArea
  <2> HIDE DEF A
  <2> QED BY <2>1 DEF Stages
<1>3. CASE d.rc # "ok"
  <2>1. e = d BY <1>3, Dead
  <2> QED BY <1>2, <1>3, <2>1
<1>4. CASE d.rc = "ok"
  <2> DEFINE ent == Dirent(Last(q), n, type)
  <2>1. Leaf(d, I, dir, n) /\ type = logfs_inode_read(d, n).type BY <1>4
  <2>2. Naming(I) /\ Unnamed(I, n) BY <1>1, <2>1 DEF Sound, Leaf
  <2>3. dir \in Inodes /\ IsDir(d, dir) /\ StorageOK(d) BY <1>1, <2>2 DEF Naming, IsDir, Stable
  <2>4. ent \in Slot
    <3>1. n \in Inodes /\ type \in {"none", "dir", "file"} BY <2>1, <2>2 DEF Leaf, Unnamed
    <3>2. Last(q) \in Names BY PathFacts, FrontLast
    <3> QED BY <3>1, <3>2 DEF Slot, Dirent
  <2>5. GoodDir(d, logfs_inode_read(d, dir)) BY <1>1, <2>3, SoundGoodDir
  <2> HIDE DEF dir, ent
  <2>6. e = logfs_dir_add(d, dir, Last(q), n, type) BY DEF dir
  <2>7. /\ Stable(d, e)
        /\ Stages(d, e, {Ptr(d, dir, k) : k \in Ks} \cup (DataBlocks \ BB(d)))
        /\ e.rc = "ok" => Grown(d, e, dir, ent)
        /\ e.rc # "ok" => Extends(d, e)
    BY <2>3, <2>4, <2>5, <2>6, DirAdd DEF ent
  <2>8. Stages(d, e, A)
    <3>1. \A k \in Ks : Ptr(d, dir, k) = Ptr(s, dir, k) BY <1>1 DEF Ptr, dir
    <3>2. \A b \in {Ptr(d, dir, k) : k \in Ks} \cup (DataBlocks \ BB(d)) : b \in A
      BY <3>1 DEF DirArea, dir, Extends
    <3> HIDE DEF A
    <3> QED BY <2>7, <3>2 DEF Stages
  <2>9. Stages(s, e, A) /\ Stable(s, e)
    <3> HIDE DEF A
    <3> QED BY <1>2, <2>7, <2>8, StagesTrans DEF Stable
  <2>10. e.rc # "ok" => Extends(s, e) BY <2>7, ExtendsTrans
  <2>11. ASSUME e.rc = "ok" PROVE Sound(e, J)
    <3>1. Grown(d, e, I[Front(q)], Dirent(Last(q), n, logfs_inode_read(d, n).type))
      BY <2>1, <2>7, <2>11 DEF dir, ent
    <3>2. IsDir(d, I[Front(q)]) /\ Leaf(d, I, I[Front(q)], n) BY <2>1, <2>3 DEF dir
    <3> QED BY <1>1, <2>3, <3>1, <3>2, Link
  <2>12. /\ par \in DOMAIN J /\ J[par] = dir /\ Naming(J) /\ Owners(d, J)
    <3>1. Naming(J) BY <2>2, ExtNaming
    <3>2. Owners(d, J) BY <1>1, <2>1, ExtOwners
    <3> QED BY <3>1, <3>2 DEF IsExt, dir
  <2>13. ASSUME e.rc = "ok"
         PROVE  /\ SameTypes(d, e, J) /\ SameLinks(d, e, J) /\ (Tight(d, J) => Tight(e, J))
                /\ SameExcept(d, e, J, par) /\ SameNodes(d, e, J)
    <3>1. Grown(d, e, J[par], ent) /\ IsDir(d, J[par]) BY <2>3, <2>7, <2>12, <2>13
    <3> HIDE DEF par
    <3>2. \A p \in DOMAIN J \ {par} :
             /\ logfs_inode_read(e, J[p]) = logfs_inode_read(d, J[p])
             /\ \A k \in Ks : Ptr(d, J[p], k) # 0 => R(e, Ptr(d, J[p], k)) = R(d, Ptr(d, J[p], k))
      <4>1. StorageOK(d) /\ Naming(J) /\ Owners(d, J) /\ par \in DOMAIN J BY <2>3, <2>12
      <4> QED BY <3>1, <4>1, GrownPointers
    <3>3. /\ logfs_inode_read(e, J[par]).type = logfs_inode_read(d, J[par]).type
          /\ logfs_inode_read(e, J[par]).nlink = logfs_inode_read(d, J[par]).nlink
      BY <3>1 DEF Grown
    <3>4. Tight(d, J) => Tight(e, J) BY <2>3, <2>12, <3>1, GrownTight
    <3>5. SameNodes(d, e, J)
      <4> SUFFICES ASSUME NEW p \in DOMAIN J PROVE SameNode(d, e, J[p]) BY DEF SameNodes
      <4>1. CASE p = par BY <3>1, <3>3, <4>1 DEF SameNode, IsDir
      <4>2. CASE p # par BY <3>2, <4>2 DEF SameNode, Ptr
      <4> QED BY <4>1, <4>2
    <3> QED BY <3>2, <3>3, <3>4, <3>5 DEF SameTypes, SameLinks, SameExcept
  <2> QED BY <1>4, <2>9, <2>10, <2>11, <2>13
<1> QED BY <1>3, <1>4

(* Link counts after a new name. *)
LEMMA LinkedExt ==
  ASSUME NEW s, NEW t, NEW I, Sound(s, I), Linked(s, I), NEW q \in Paths, q \notin DOMAIN I,
         Front(q) \in DOMAIN I, IsDir(s, I[Front(q)]), NEW n, Unnamed(I, n),
         NEW J, IsExt(I, J, q, n), SameTypes(s, t, J),
         logfs_inode_read(t, n).nlink = (IF IsDir(t, n) THEN 2 ELSE 1),
         \A p \in DOMAIN I : logfs_inode_read(t, I[p]).nlink =
            IF p = Front(q) /\ IsDir(t, n) THEN logfs_inode_read(s, I[p]).nlink + 1
            ELSE logfs_inode_read(s, I[p]).nlink
  PROVE  Linked(t, J)
<1>1. /\ DOMAIN J = DOMAIN I \cup {q} /\ J[q] = n
      /\ \A p \in DOMAIN I : J[p] = I[p] /\ p # q
  BY DEF IsExt
<1>2. /\ Subdirs(t, J, q) = {}
      /\ \A p \in DOMAIN I :
           Subdirs(t, J, p) = IF p = Front(q) /\ IsDir(t, n) THEN Subdirs(s, I, p) \cup {q}
                              ELSE Subdirs(s, I, p)
  BY ExtSubdirs
<1>3. \A p \in DOMAIN I : IsDir(t, J[p]) = IsDir(s, I[p]) BY <1>1 DEF SameTypes, IsDir
<1>4. Naming(I) BY DEF Sound
<1>5. LinkCount(t, J, q) = IF IsDir(t, n) THEN 2 ELSE 1
  BY <1>1, <1>2, FS_EmptySet DEF LinkCount
<1>6. ASSUME NEW p \in DOMAIN I PROVE logfs_inode_read(t, J[p]).nlink = LinkCount(t, J, p)
  <2> DEFINE S == Subdirs(s, I, p)
  <2>1. logfs_inode_read(s, I[p]).nlink = IF IsDir(s, I[p]) THEN 2 + Cardinality(S) ELSE 1
    BY DEF Linked, LinkCount
  <2>2. IsFiniteSet(S) /\ Cardinality(S) \in Nat BY <1>4, FiniteNaming
  <2>3. q \notin S BY DEF Subdirs
  <2>4. Cardinality(S \cup {q}) = Cardinality(S) + 1
    <3> HIDE DEF S
    <3> QED BY <2>2, <2>3, FS_AddElement
  <2> HIDE DEF S
  <2>5. J[p] = I[p] /\ IsDir(t, J[p]) = IsDir(s, I[p]) BY <1>1, <1>3
  <2>6. CASE p = Front(q) /\ IsDir(t, n)
    <3>1. Subdirs(t, J, p) = S \cup {q} BY <1>2, <2>6 DEF S
    <3>2. logfs_inode_read(t, I[p]).nlink = logfs_inode_read(s, I[p]).nlink + 1 BY <2>6
    <3> QED BY <2>1, <2>2, <2>4, <2>5, <2>6, <3>1, <3>2 DEF LinkCount
  <2>7. CASE ~(p = Front(q) /\ IsDir(t, n))
    <3>1. Subdirs(t, J, p) = S BY <1>2, <2>7 DEF S
    <3>2. logfs_inode_read(t, I[p]).nlink = logfs_inode_read(s, I[p]).nlink BY <2>7
    <3> QED BY <2>1, <2>5, <3>1, <3>2 DEF LinkCount
  <2> QED BY <2>6, <2>7
<1> QED BY <1>1, <1>5, <1>6 DEF Linked

(* From s to t inode ino was given the fields in, or nothing has changed.   *)
Wrote(s, t, ino, in) ==
  /\ Within(s, t, {inode_location(ino)}) /\ OnlyEIO(s, t) /\ t.fresh = s.fresh
  /\ t.rc = "ok" => /\ s.rc = "ok" /\ logfs_inode_read(t, ino) = in
                    /\ \A j \in Inodes \ {ino} : logfs_inode_read(t, j) = logfs_inode_read(s, j)

(* logfs_inode_write does that.                                             *)
LEMMA InodeWrote ==
  ASSUME NEW s, StorageOK(s), NEW ino \in Inodes, NEW in \in Inode
  PROVE  Wrote(s, logfs_inode_write(s, ino, in), ino, in)
<1>1. ASSUME NEW t, t = logfs_inode_write(s, ino, in) PROVE Wrote(s, t, ino, in)
  BY <1>1, InodeWrite DEF Wrote
<1> QED BY <1>1

(* AddLinks changes the link count and nothing else.                        *)
LEMMA AddLinksEffect ==
  ASSUME NEW s, StorageOK(s), NEW ino \in Inodes, NEW n \in Int,
         logfs_inode_read(s, ino).nlink + n \in Nat,
         NEW t, t = AddLinks(s, ino, n)
  PROVE  /\ Within(s, t, {inode_location(ino)}) /\ OnlyEIO(s, t)
         /\ t.rc = "ok" =>
              LET in == logfs_inode_read(s, ino)
                  jn == logfs_inode_read(t, ino) IN
              /\ s.rc = "ok" /\ jn.type = in.type /\ jn.size = in.size /\ jn.blocks = in.blocks
              /\ jn.nlink = in.nlink + n
              /\ \A j \in Inodes \ {ino} : logfs_inode_read(t, j) = logfs_inode_read(s, j)
<1> DEFINE in == logfs_inode_read(s, ino)
           kn == [type |-> in.type, nlink |-> in.nlink + n, size |-> in.size, blocks |-> in.blocks]
<1>1. in \in Inode BY InodeTyped
<1>2. t = logfs_inode_write(s, ino, [in EXCEPT !.nlink = @ + n]) BY DEF AddLinks
<1>3. in.nlink + n \in Nat OBVIOUS
<1> HIDE DEF in
<1>4. [in EXCEPT !.nlink = @ + n] = kn
  <2>1. in = [type |-> in.type, nlink |-> in.nlink, size |-> in.size, blocks |-> in.blocks]
    BY <1>1, InodeRecord
  <2> QED BY <2>1
<1>5. kn \in Inode BY <1>1, <1>3, InodeRecord, InodeMade
<1>6. kn.type = in.type /\ kn.nlink = in.nlink + n /\ kn.size = in.size /\ kn.blocks = in.blocks
  OBVIOUS
<1> HIDE DEF kn
<1>7. Wrote(s, t, ino, kn)
  <2>1. Wrote(s, logfs_inode_write(s, ino, kn), ino, kn) BY <1>5, InodeWrote
  <2> QED BY <1>2, <1>4, <2>1
<1> QED BY <1>6, <1>7 DEF in, Wrote

(* A changed link count leaves the structure alone, apart from the count.   *)
LEMMA Relink ==
  ASSUME NEW s, StorageOK(s), NEW J, Sound(s, J), NEW r \in DOMAIN J, NEW n \in Int,
         logfs_inode_read(s, J[r]).nlink + n \in Nat, NEW t, t = AddLinks(s, J[r], n)
  PROVE  /\ Stable(s, t) /\ OnlyEIO(s, t) /\ \A B : Stages(s, t, B)
         /\ t.rc # "ok" => \A x \in Device : R(t, x) = R(s, x)
         /\ t.rc = "ok" => /\ s.rc = "ok" /\ Sound(t, J) /\ SameTypes(s, t, J)
                           /\ Tight(s, J) => Tight(t, J)
                           /\ SameExcept(s, t, J, r) /\ SameNodes(s, t, J)
                           /\ \A p \in DOMAIN J : logfs_inode_read(t, J[p]).nlink =
                                IF p = r THEN logfs_inode_read(s, J[p]).nlink + n
                                ELSE logfs_inode_read(s, J[p]).nlink
<1> DEFINE ino == J[r]
<1>0. Naming(J) BY DEF Sound
<1>1. ino \in Inodes /\ \A p \in DOMAIN J \ {r} : J[p] \in Inodes \ {ino} BY <1>0 DEF Naming
<1>2. inode_location(ino) \in Table BY <1>1, LocationOK
<1>3. /\ Within(s, t, {inode_location(ino)}) /\ OnlyEIO(s, t)
      /\ t.rc = "ok" =>
           LET in == logfs_inode_read(s, ino)
               jn == logfs_inode_read(t, ino) IN
           /\ s.rc = "ok" /\ jn.type = in.type /\ jn.size = in.size /\ jn.blocks = in.blocks
           /\ jn.nlink = in.nlink + n
           /\ \A j \in Inodes \ {ino} : logfs_inode_read(t, j) = logfs_inode_read(s, j)
  BY <1>1, AddLinksEffect
<1> HIDE DEF ino
<1>4. /\ \A x \in DataBlocks : R(t, x) = R(s, x)
      /\ IB(t) = IB(s) /\ BB(t) = BB(s) /\ (\A B : Stages(s, t, B)) /\ Stable(s, t)
  BY <1>2, <1>3, WithinTable
<1>5. t.rc # "ok" => \A x \in Device : R(t, x) = R(s, x) BY <1>3 DEF Within
<1>6. ASSUME t.rc = "ok"
      PROVE  /\ Sound(t, J) /\ SameTypes(s, t, J)
             /\ Tight(s, J) => Tight(t, J)
             /\ SameExcept(s, t, J, r) /\ SameNodes(s, t, J)
             /\ \A p \in DOMAIN J : logfs_inode_read(t, J[p]).nlink =
                  IF p = r THEN logfs_inode_read(s, J[p]).nlink + n
                  ELSE logfs_inode_read(s, J[p]).nlink
  <2>1. ASSUME NEW p \in DOMAIN J
        PROVE  /\ logfs_inode_read(t, J[p]).type = logfs_inode_read(s, J[p]).type
               /\ logfs_inode_read(t, J[p]).size = logfs_inode_read(s, J[p]).size
               /\ logfs_inode_read(t, J[p]).blocks = logfs_inode_read(s, J[p]).blocks
               /\ logfs_inode_read(t, J[p]).nlink =
                     IF p = r THEN logfs_inode_read(s, J[p]).nlink + n
                     ELSE logfs_inode_read(s, J[p]).nlink
    <3>1. CASE p = r BY <1>3, <1>6, <3>1 DEF ino
    <3>2. CASE p # r
      <4>1. J[p] \in Inodes \ {ino} BY <1>1, <3>2
      <4>2. logfs_inode_read(t, J[p]) = logfs_inode_read(s, J[p]) BY <1>3, <1>6, <4>1
      <4> QED BY <3>2, <4>2
    <3> QED BY <3>1, <3>2
  <2>2. \A p \in DOMAIN J, k \in Ks : Ptr(t, J[p], k) = Ptr(s, J[p], k) BY <2>1 DEF Ptr
  <2>3. ASSUME NEW p \in DOMAIN J, NEW k \in Ks, Ptr(s, J[p], k) # 0
        PROVE  R(t, Ptr(s, J[p], k)) = R(s, Ptr(s, J[p], k)) /\ Owner(s, J, p, k)
    <3>1. Owner(s, J, p, k) BY DEF Sound, Owners
    <3>2. Ptr(s, J[p], k) \in DataBlocks BY <2>3, <3>1, BitmapsTyped DEF Owner
    <3> QED BY <1>4, <3>1, <3>2
  <2>4. Owners(t, J) BY <1>4, <2>1, <2>2, <2>3 DEF Owners, Owner
  <2>5. DirsAlike(s, t, J)
    <3>1. \A p \in DOMAIN J : J[p] \in IB(t) BY <1>4 DEF Sound, Placed
    <3> QED BY <2>1, <2>3, <3>1 DEF DirsAlike
  <2>6. Sound(t, J) BY <2>4, <2>5, FrameDirs
  <2>7. Tight(s, J) => Tight(t, J) BY <1>4, <2>2 DEF Tight
  <2>8. SameTypes(s, t, J) BY <2>1 DEF SameTypes
  <2>9. SameExcept(s, t, J, r) BY <1>1, <1>3, <1>6 DEF SameExcept
  <2>10. SameNodes(s, t, J) BY <2>1, <2>3 DEF SameNodes, SameNode, Ptr
  <2> QED BY <2>1, <2>2, <2>6, <2>7, <2>8, <2>9, <2>10
<1> QED BY <1>3, <1>4, <1>5, <1>6

(* The inode of a new directory has one block.                              *)
LEMMA NewDirFacts ==
  ASSUME NEW b \in DataBlocks
  PROVE  LET in == NewDir(b) IN
         /\ in \in Inode /\ in.type = "dir" /\ in.nlink = 2
         /\ \A k \in Ks : in.blocks[k] = IF k = 1 THEN b ELSE 0
         /\ Filled(in) /\ 1 \in Ks
         /\ \A x : x \in Slots(in) <=> x \in Ks \X Es /\ x[1] = 1
<1> DEFINE in == NewDir(b)
           ptrs == [NoBlocks EXCEPT ![1] = b]
<1>1. in = [type |-> "dir", nlink |-> 2, size |-> BlockUnits, blocks |-> ptrs] BY DEF NewDir
<1>2. ptrs \in [Ks -> DataBlocks \cup {0}] /\ \A k \in Ks : ptrs[k] = IF k = 1 THEN b ELSE 0
  BY DEF NoBlocks, Ks
<1>3. 1 \in Ks /\ BlockUnits \in 0 .. MaxSize
  <2>1. 1 \in Nat /\ NDirBlocks \in Nat /\ BlockUnits \in Nat /\ 1 <= NDirBlocks
    BY FileSystemAssumption
  <2>2. 1 * BlockUnits <= NDirBlocks * BlockUnits /\ NDirBlocks * BlockUnits \in Nat
    BY <2>1, Monotone
  <2>3. 1 * BlockUnits = BlockUnits BY <2>1
  <2> QED BY <2>1, <2>2, <2>3 DEF Ks, MaxSize
<1> HIDE DEF ptrs, in
<1>4. in \in Inode BY <1>1, <1>2, <1>3, InodeMade
<1>5. in.type = "dir" /\ in.nlink = 2 /\ in.size = BlockUnits /\ in.blocks = ptrs BY <1>1
<1>6. \A k \in Ks : in.blocks[k] = IF k = 1 THEN b ELSE 0 BY <1>2, <1>5
<1>7. b # 0 BY Layout
<1>8. Filled(in)
  <2> SUFFICES ASSUME NEW k \in Ks, in.blocks[k] = 0
               PROVE  /\ \A j \in k .. NDirBlocks : in.blocks[j] = 0
                      /\ in.size <= (k - 1) * BlockUnits
    BY DEF Filled
  <2>1. k \in Nat /\ k # 1 /\ k >= 1 /\ k - 1 \in Nat /\ 1 <= k - 1 /\ BlockUnits \in Nat
    BY <1>6, <1>7, FileSystemAssumption DEF Ks
  <2>2. 1 * BlockUnits <= (k - 1) * BlockUnits BY <2>1, Monotone
  <2>3. \A j \in k .. NDirBlocks : j \in Ks /\ j # 1 BY <2>1, FileSystemAssumption DEF Ks
  <2> QED BY <1>5, <1>6, <2>1, <2>2, <2>3
<1>9. ASSUME NEW x PROVE x \in Slots(in) <=> x \in Ks \X Es /\ x[1] = 1
  <2>1. x \in Slots(in) <=> x \in Ks \X Es /\ \A j \in 1 .. x[1] : in.blocks[j] # 0
    BY DEF Slots, Ks, Es
  <2>2. CASE x \in Ks \X Es
    <3>1. x[1] \in Ks /\ x[1] \in Nat /\ x[1] >= 1 BY <2>2, FileSystemAssumption DEF Ks
    <3>2. CASE x[1] = 1
      <4>1. \A j \in 1 .. x[1] : j = 1 BY <3>2
      <4> QED BY <1>3, <1>6, <1>7, <2>1, <2>2, <3>2, <4>1
    <3>3. CASE x[1] # 1
      <4>1. x[1] \in 1 .. x[1] BY <3>1
      <4> QED BY <1>6, <2>1, <3>1, <3>3, <4>1
    <3> QED BY <3>2, <3>3
  <2> QED BY <2>1, <2>2
<1> QED BY <1>3, <1>4, <1>5, <1>6, <1>8, <1>9 DEF in

(* The block of a new directory lists the directory and its parent.         *)
LEMMA NewDirEntries ==
  ASSUME NEW s, NEW b \in DataBlocks, NEW n \in Inodes, NEW parent \in Inodes,
         R(s, b) = NewDirBlock(n, parent)
  PROVE  LET in == NewDir(b) IN
         /\ OneEach(s, in) /\ HasName(s, in, ".") /\ HasName(s, in, "..")
         /\ \A x \in Used(s, in) : \/ Entry(s, in, x).name = "." /\ Entry(s, in, x).ino = n
                                   \/ Entry(s, in, x).name = ".." /\ Entry(s, in, x).ino = parent
<1> DEFINE in == NewDir(b)
           d == Dirent(".", n, "dir")
           e == Dirent("..", parent, "dir")
           u == <<1, 1>>
           w == <<1, 2>>
<1>1. /\ \A k \in Ks : in.blocks[k] = IF k = 1 THEN b ELSE 0
      /\ 1 \in Ks /\ \A x : x \in Slots(in) <=> x \in Ks \X Es /\ x[1] = 1
  BY NewDirFacts
<1>2. d \in Slot /\ e \in Slot /\ d.ino # 0 /\ e.ino # 0 /\ d.name = "." /\ e.name = ".."
      /\ d.ino = n /\ e.ino = parent
  BY DEF Slot, Dirent, Inodes
<1>3. 1 \in Es /\ 2 \in Es BY FileSystemAssumption DEF Es
<1>4. R(s, b) = DirBlock(<<d, e>>) BY DEF NewDirBlock
<1> HIDE DEF d, e, in
<1>5. Ents(R(s, b)) = [i \in Es |-> IF i = 1 THEN d ELSE IF i = 2 THEN e ELSE FreeSlot]
  BY <1>2, <1>4, DirBlockFacts
<1>6. ASSUME NEW x \in Slots(in)
      PROVE  /\ x = <<1, x[2]>> /\ x[2] \in Es
             /\ Entry(s, in, x) = IF x[2] = 1 THEN d ELSE IF x[2] = 2 THEN e ELSE FreeSlot
  <2>1. x \in Ks \X Es /\ x[1] = 1 BY <1>1
  <2>2. x = <<1, x[2]>> /\ x[2] \in Es BY <2>1
  <2>3. in.blocks[x[1]] = b BY <1>1, <2>1
  <2>4. Entry(s, in, x) = Ents(R(s, b))[x[2]] BY <2>3 DEF Entry, R
  <2> QED BY <1>5, <2>2, <2>4
<1>7. u \in Slots(in) /\ w \in Slots(in) /\ u[2] = 1 /\ w[2] = 2 BY <1>1, <1>3
<1> HIDE DEF u, w
<1>8. FreeSlot.ino = 0 BY DEF FreeSlot
<1>9. \A x \in Used(s, in) : \/ x[2] = 1 /\ Entry(s, in, x) = d
                             \/ x[2] = 2 /\ Entry(s, in, x) = e
  BY <1>6, <1>8 DEF Used
<1>10. OneEach(s, in)
  <2> SUFFICES ASSUME NEW x \in Used(s, in), NEW y \in Used(s, in),
                      Entry(s, in, x).name = Entry(s, in, y).name
               PROVE  x = y
    BY DEF OneEach
  <2>1. x[2] = y[2] BY <1>2, <1>9
  <2>2. x = <<1, x[2]>> /\ y = <<1, y[2]>> BY <1>6 DEF Used
  <2> QED BY <2>1, <2>2
<1>11. Entry(s, in, u) = d /\ Entry(s, in, w) = e BY <1>6, <1>7
<1>12. u \in Used(s, in) /\ w \in Used(s, in) BY <1>2, <1>7, <1>11 DEF Used
<1>13. HasName(s, in, ".") /\ HasName(s, in, "..") BY <1>2, <1>11, <1>12 DEF HasName
<1> QED BY <1>2, <1>9, <1>10, <1>13 DEF in

(* From s to d, inode n and block b were taken and made a directory, of no  *)
(* name yet, below parent.                                                  *)
MadeDir(s, d, n, b, parent) ==
  /\ n \in Inodes \ IB(s) /\ b \in DataBlocks \ BB(s)
  /\ IB(d) = IB(s) \cup {n} /\ BB(d) = BB(s) \cup {b}
  /\ logfs_inode_read(d, n) = NewDir(b)
  /\ \A j \in Inodes \ {n} : logfs_inode_read(d, j) = logfs_inode_read(s, j)
  /\ R(d, b) = NewDirBlock(n, parent)

(* logfs_op_mkdir up to its logfs_dir_add: it touches nothing that was      *)
(* allocated before, error or not.                                          *)
LEMMA MkdirPrefix ==
  ASSUME NEW s, StorageOK(s), NEW parent \in Inodes,
         NEW a, a = logfs_alloc_inode(s), NEW b, b = logfs_alloc_block(a),
         NEW c, c = Put(b, b.out, NewDirBlock(a.out, parent)),
         NEW d, d = logfs_inode_write(c, a.out, NewDir(b.out))
  PROVE  /\ Stable(s, d) /\ Extends(s, d) /\ Stages(s, d, DataBlocks \ BB(s))
         /\ d.rc = "ok" => s.rc = "ok" /\ MadeDir(s, d, a.out, b.out, parent)
<1> DEFINE B == DataBlocks \ BB(s)
           n == a.out
           blk == b.out
<1>1. /\ Within(s, a, {inode_bitmap_start})
      /\ a.rc = "ok" => /\ s.rc = "ok" /\ a.out \in Inodes /\ a.out \notin IB(s)
                        /\ IB(a) = IB(s) \cup {a.out}
  BY AllocInode
<1>2. /\ \A ino : logfs_inode_read(a, ino) = logfs_inode_read(s, ino)
      /\ \A x \in DataBlocks : R(a, x) = R(s, x)
      /\ BB(a) = BB(s) /\ Stages(s, a, B) /\ Stable(s, a)
  BY <1>1, WithinBitmap
<1>3. BB(s) \subseteq DataBlocks BY BitmapsTyped
<1>4. Extends(s, a)
  <2>1. IB(s) \subseteq IB(a)
    <3>1. CASE a.rc = "ok" BY <1>1, <3>1
    <3>2. CASE a.rc # "ok" BY <1>1, <3>2, SameReadsExtend DEF Within
    <3> QED BY <3>1, <3>2
  <2> QED BY <1>2, <1>3, <2>1 DEF Extends
<1>5. StorageOK(a) BY <1>2 DEF Stable
<1>6. /\ Within(a, b, {block_bitmap_start})
      /\ b.rc = "ok" => /\ a.rc = "ok" /\ b.out \in DataBlocks /\ b.out \notin BB(a)
                        /\ BB(b) = BB(a) \cup {b.out}
  BY <1>5, AllocBlock
<1>7. /\ \A ino : logfs_inode_read(b, ino) = logfs_inode_read(a, ino)
      /\ \A x \in DataBlocks : R(b, x) = R(a, x)
      /\ IB(b) = IB(a) /\ Stages(a, b, B) /\ Stable(a, b)
  BY <1>6, WithinBitmap
<1>8. Extends(s, b)
  <2>1. BB(a) \subseteq BB(b)
    <3>1. CASE b.rc = "ok" BY <1>6, <3>1
    <3>2. CASE b.rc # "ok" BY <1>5, <1>6, <3>2, SameReadsExtend DEF Within
    <3> QED BY <3>1, <3>2
  <2>2. Extends(a, b) BY <1>2, <1>3, <1>7, <2>1 DEF Extends
  <2> QED BY <1>4, <2>2, ExtendsTrans
<1>9. Stages(s, b, B) /\ Stable(s, b) BY <1>2, <1>7, StagesTrans DEF Stable
<1>10. CASE b.rc # "ok"
  <2>1. c = b /\ d = b BY <1>10, Dead
  <2> QED BY <1>8, <1>9, <1>10, <2>1
<1>11. CASE b.rc = "ok"
  <2>1. /\ s.rc = "ok" /\ n \in Inodes /\ n \notin IB(s) /\ IB(b) = IB(s) \cup {n}
        /\ blk \in DataBlocks /\ blk \notin BB(s) /\ BB(b) = BB(s) \cup {blk} /\ StorageOK(b)
    BY <1>1, <1>2, <1>6, <1>7, <1>9, <1>11 DEF Stable
  <2> DEFINE new == NewDirBlock(n, parent)
  <2>2. ContentOK(blk, new)
    <3>1. Dirent(".", n, "dir") \in Slot /\ Dirent("..", parent, "dir") \in Slot
      BY <2>1 DEF Slot, Dirent
    <3>2. new \in DirContent BY <3>1, DirBlockFacts DEF NewDirBlock
    <3> HIDE DEF new
    <3> QED BY <2>1, <3>2, ContentData
  <2>3. c = Put(b, blk, new) /\ d = logfs_inode_write(c, n, NewDir(blk)) OBVIOUS
  <2>4. blk \in Device BY <2>1, Layout
  <2> HIDE DEF n, blk, new, B
  <2>5. /\ Within(b, c, {blk})
        /\ c.rc = "ok" => R(c, blk) = new
    BY <2>1, <2>2, <2>3, <2>4, PutWithin
  <2>6. /\ \A ino : logfs_inode_read(c, ino) = logfs_inode_read(b, ino)
        /\ \A x \in DataBlocks \ {blk} : R(c, x) = R(b, x)
        /\ IB(c) = IB(b) /\ BB(c) = BB(b) /\ Stages(b, c, B) /\ Stable(b, c)
    <3>1. blk \in B BY <2>1 DEF B
    <3> QED BY <2>1, <2>5, <3>1, WithinData
  <2>7. NewDir(blk) \in Inode /\ StorageOK(c) BY <2>1, <2>6, NewDirFacts DEF Stable
  <2>8. Wrote(c, d, n, NewDir(blk)) BY <2>1, <2>3, <2>7, InodeWrote
  <2>9. /\ \A x \in DataBlocks : R(d, x) = R(c, x)
        /\ IB(d) = IB(c) /\ BB(d) = BB(c) /\ Stages(c, d, B) /\ Stable(c, d)
    <3>1. inode_location(n) \in Table BY <2>1, LocationOK
    <3>2. Within(c, d, {inode_location(n)}) BY <2>8 DEF Wrote
    <3> QED BY <3>1, <3>2, WithinTable
  <2>10. Stages(s, d, B) /\ Stable(s, d)
    <3>1. Stages(s, c, B) BY <1>9, <2>6, StagesTrans
    <3> QED BY <1>9, <2>6, <2>9, <3>1, StagesTrans DEF Stable, B
  <2>11. \A j \in Inodes \ {n} : logfs_inode_read(d, j) = logfs_inode_read(c, j)
    <3>1. CASE d.rc = "ok" BY <2>8, <3>1 DEF Wrote
    <3>2. CASE d.rc # "ok"
      <4>1. \A x \in Device : R(d, x) = R(c, x) BY <2>8, <3>2 DEF Wrote, Within
      <4> QED BY <2>7, <4>1, SameReadsExtend
    <3> QED BY <3>1, <3>2
  <2>12. \A j \in Inodes \ {n} : logfs_inode_read(d, j) = logfs_inode_read(s, j)
    BY <1>2, <1>7, <2>6, <2>11
  <2>13. IB(s) \subseteq Inodes BY BitmapsTyped
  <2>14. \A x \in BB(s) : R(d, x) = R(s, x)
    BY <1>2, <1>3, <1>7, <2>1, <2>6, <2>9
  <2>15. Extends(s, d) BY <2>1, <2>6, <2>9, <2>12, <2>13, <2>14 DEF Extends
  <2>16. ASSUME d.rc = "ok" PROVE MadeDir(s, d, n, blk, parent)
    <3>1. c.rc = "ok" /\ logfs_inode_read(d, n) = NewDir(blk) BY <2>8, <2>16 DEF Wrote
    <3>2. R(d, blk) = NewDirBlock(n, parent) BY <2>1, <2>5, <2>9, <3>1 DEF new
    <3> QED BY <2>1, <2>6, <2>9, <2>12, <3>1, <3>2 DEF MadeDir
  <2> QED BY <2>1, <2>10, <2>15, <2>16 DEF n, blk, B
<1> QED BY <1>10, <1>11

(* What it has made is ready to be named; naming it leaves no leak.         *)
LEMMA MadeDirLeaf ==
  ASSUME NEW s, StorageOK(s), NEW I, Sound(s, I), NEW d, Extends(s, d),
         NEW n, NEW b, NEW parent \in Inodes, MadeDir(s, d, n, b, parent)
  PROVE  /\ Leaf(d, I, parent, n) /\ IsDir(d, n) /\ logfs_inode_read(d, n).nlink = 2
         /\ \A J, q : Tight(s, I) /\ IsExt(I, J, q, n) => Tight(d, J)
<1> DEFINE in == NewDir(b)
<1>1. /\ n \in Inodes /\ n \notin IB(s) /\ b \in DataBlocks /\ b \notin BB(s)
      /\ IB(d) = IB(s) \cup {n} /\ BB(d) = BB(s) \cup {b}
      /\ logfs_inode_read(d, n) = in /\ R(d, b) = NewDirBlock(n, parent)
  BY DEF MadeDir
<1>2. /\ in.type = "dir" /\ in.nlink = 2 /\ Filled(in) /\ 1 \in Ks
      /\ \A k \in Ks : in.blocks[k] = IF k = 1 THEN b ELSE 0
  BY <1>1, NewDirFacts
<1>3. /\ OneEach(d, in) /\ HasName(d, in, ".") /\ HasName(d, in, "..")
      /\ \A x \in Used(d, in) : \/ Entry(d, in, x).name = "." /\ Entry(d, in, x).ino = n
                                \/ Entry(d, in, x).name = ".." /\ Entry(d, in, x).ino = parent
  BY <1>1, NewDirEntries
<1> HIDE DEF in
<1>4. \A p \in DOMAIN I : I[p] \in IB(s) BY DEF Sound, Placed
<1>5. Unnamed(I, n) BY <1>1, <1>4 DEF Unnamed
<1>6. \A p \in DOMAIN I, k \in Ks : Ptr(d, I[p], k) = Ptr(s, I[p], k)
  BY <1>4 DEF Extends, Ptr
<1>7. \A p \in DOMAIN I, k \in Ks : Ptr(d, I[p], k) # b
  <2> SUFFICES ASSUME NEW p \in DOMAIN I, NEW k \in Ks, Ptr(s, I[p], k) = b PROVE FALSE
    BY <1>6
  <2>1. Owner(s, I, p, k) BY DEF Sound, Owners
  <2>2. b # 0 BY <1>1, Layout
  <2> QED BY <1>1, <2>1, <2>2 DEF Owner
<1>8. \A k \in Ks : Ptr(d, n, k) = IF k = 1 THEN b ELSE 0 BY <1>1, <1>2 DEF Ptr
<1>9. R(d, b).kind = "dir"
  <2>1. Dirent(".", n, "dir") \in Slot /\ Dirent("..", parent, "dir") \in Slot
    BY <1>1 DEF Slot, Dirent
  <2> QED BY <1>1, <2>1, DirBlockFacts DEF NewDirBlock
<1>10. b # 0 BY <1>1, Layout
<1>11. \A k \in Ks : Ptr(d, n, k) # 0 =>
         /\ Ptr(d, n, k) \in BB(d) /\ R(d, Ptr(d, n, k)).kind = logfs_inode_read(d, n).type
         /\ \A p \in DOMAIN I, j \in Ks : Ptr(d, I[p], j) # Ptr(d, n, k)
         /\ \A j \in Ks : Ptr(d, n, j) = Ptr(d, n, k) => j = k
  BY <1>1, <1>2, <1>7, <1>8, <1>9, <1>10
<1>12. Leaf(d, I, parent, n)
  BY <1>1, <1>2, <1>3, <1>5, <1>11 DEF Leaf
<1>13. ASSUME NEW J, NEW q, Tight(s, I), IsExt(I, J, q, n) PROVE Tight(d, J)
  <2>1. \A ino \in IB(d) : \E p \in DOMAIN J : J[p] = ino
    BY <1>1, <1>13 DEF Tight, IsExt
  <2>2. ASSUME NEW x \in BB(d) PROVE \E p \in DOMAIN J, k \in Ks : Ptr(d, J[p], k) = x
    <3>1. CASE x = b BY <1>2, <1>8, <1>13, <3>1 DEF IsExt
    <3>2. CASE x # b
      <4>1. x \in BB(s) BY <1>1, <3>2
      <4>2. PICK p \in DOMAIN I, k \in Ks : Ptr(s, I[p], k) = x BY <1>13, <4>1 DEF Tight
      <4> QED BY <1>6, <1>13, <4>2 DEF IsExt
    <3> QED BY <3>1, <3>2
  <2> QED BY <2>1, <2>2 DEF Tight
<1> QED BY <1>1, <1>2, <1>12, <1>13 DEF IsDir
-----------------------------------------------------------------------------
(* Block b belongs to a file.                                               *)
IsFileBlock(s, I, b) ==
  \E p \in DOMAIN I, k \in Ks : logfs_inode_read(s, I[p]).type = "file" /\ Ptr(s, I[p], k) = b

(* Inode ino is a file that some path names.                                *)
LiveFile(s, I, ino) == logfs_inode_read(s, ino).type = "file" /\ \E p \in DOMAIN I : I[p] = ino
(* From s, named by I, to t, named by J: no block becomes a file's, no block *)
(* of a file is staged, and every file but those of gone is still there.     *)
Kept(s, t, I, J, gone) ==
  /\ \A b \in DataBlocks : IsFileBlock(t, J, b) => IsFileBlock(s, I, b)
  /\ \A b \in DataBlocks : IsFileBlock(s, I, b) /\ b \in DOMAIN t.staged => b \in DOMAIN s.staged
  /\ \A ino : LiveFile(s, I, ino) /\ ino \notin gone => LiveFile(t, J, ino)

(* What a namespace operation or a truncate leaves: J names a consistent    *)
(* structure, and the device is as before.                                  *)
OpOK(s, t, I, J, lk, gone) == Stable(s, t) /\ Consistent(t, J, lk) /\ Kept(s, t, I, J, gone)

(* The blocks a directory operation stages are not a file's.                *)
LEMMA AreaNotFile ==
  ASSUME NEW s, NEW I, Sound(s, I), NEW r \in DOMAIN I, IsDir(s, I[r]), NEW t,
         Stages(s, t, DirArea(s, I, r))
  PROVE  \A b \in DataBlocks : IsFileBlock(s, I, b) /\ b \in DOMAIN t.staged => b \in DOMAIN s.staged
<1> SUFFICES ASSUME NEW b \in DataBlocks, IsFileBlock(s, I, b), b \in DirArea(s, I, r) PROVE FALSE
  BY DEF Stages
<1>1. PICK p \in DOMAIN I, k \in Ks : logfs_inode_read(s, I[p]).type = "file" /\ Ptr(s, I[p], k) = b
  BY DEF IsFileBlock
<1>2. Owner(s, I, p, k) BY DEF Sound, Owners
<1>3. b # 0 BY Layout
<1>4. b \in BB(s) /\ \A q \in DOMAIN I, j \in Ks : Ptr(s, I[q], j) = b => q = p /\ j = k
  BY <1>1, <1>2, <1>3 DEF Owner
<1>5. PICK j \in Ks : Ptr(s, I[r], j) = b BY <1>4 DEF DirArea
<1>6. r = p BY <1>4, <1>5
<1> QED BY <1>1, <1>6 DEF IsDir

(* An operation that fails before it changes anything in use leaves the old *)
(* structure, with a leak perhaps.                                          *)
LEMMA ExtendsOp ==
  ASSUME NEW s, StorageOK(s), NEW I, Sound(s, I), Linked(s, I), NEW r \in DOMAIN I, IsDir(s, I[r]),
         NEW t, Stable(s, t), Extends(s, t), Stages(s, t, DirArea(s, I, r))
  PROVE  OpOK(s, t, I, I, TRUE, {}) /\ SameNodes(s, t, I)
<1>0. SameNodes(s, t, I) BY ExtendsNodes
<1>1. Alike(s, t, I) BY ExtendsAlike
<1>2. Consistent(t, I, TRUE) BY <1>1, Frame DEF Consistent
<1>3. \A p \in DOMAIN I : logfs_inode_read(t, I[p]) = logfs_inode_read(s, I[p]) BY <1>1 DEF Alike
<1>4. \A b \in DataBlocks : IsFileBlock(t, I, b) => IsFileBlock(s, I, b)
  BY <1>3 DEF IsFileBlock, Ptr
<1>5. \A ino : LiveFile(s, I, ino) => LiveFile(t, I, ino) BY <1>3 DEF LiveFile
<1>6. \A b \in DataBlocks : IsFileBlock(s, I, b) /\ b \in DOMAIN t.staged => b \in DOMAIN s.staged
  BY AreaNotFile
<1> QED BY <1>0, <1>2, <1>4, <1>5, <1>6 DEF OpOK, Kept

(* When mkdir or create is called, the path is free and its parent is a     *)
(* directory.                                                               *)
LEMMA FreePath ==
  ASSUME NEW s, NEW I, Sound(s, I), NEW q \in Paths, logfs_path_lookup(s, q) = 0,
         logfs_inode_read(s, logfs_path_lookup(s, Front(q))).type = "dir"
  PROVE  /\ q \notin DOMAIN I /\ Front(q) \in DOMAIN I /\ IsDir(s, I[Front(q)])
         /\ logfs_path_lookup(s, Front(q)) = I[Front(q)] /\ I[Front(q)] \in Inodes
<1>1. Naming(I) BY DEF Sound
<1>2. 0 \notin Inodes /\ logfs_inode_read(s, 0).type = "none"
  BY DEF Inodes, logfs_inode_read, NoInode
<1>3. q \in Seq(Names) /\ Front(q) \in Seq(Names) BY PathFacts
<1>4. logfs_path_lookup(s, q) = IF q \in DOMAIN I THEN I[q] ELSE 0 BY <1>3, PathLookup
<1>5. logfs_path_lookup(s, Front(q)) = IF Front(q) \in DOMAIN I THEN I[Front(q)] ELSE 0
  BY <1>3, PathLookup
<1>6. q \notin DOMAIN I BY <1>1, <1>2, <1>4 DEF Naming
<1>7. Front(q) \in DOMAIN I BY <1>2, <1>5
<1> QED BY <1>1, <1>5, <1>6, <1>7 DEF IsDir, Naming

(* A new name keeps the files there were.                                   *)
LEMMA KeptExt ==
  ASSUME NEW s, NEW I, Sound(s, I), NEW q, Front(q) \in DOMAIN I, IsDir(s, I[Front(q)]),
         NEW d, Extends(s, d), NEW n, NEW J, IsExt(I, J, q, n), NEW t,
         SameTypes(d, t, J), SameExcept(d, t, J, Front(q)),
         \A k \in Ks : logfs_inode_read(d, n).type = "file" => Ptr(d, n, k) = 0,
         Stages(s, t, DirArea(s, I, Front(q)))
  PROVE  Kept(s, t, I, J, {})
<1>1. /\ DOMAIN J = DOMAIN I \cup {q} /\ J[q] = n
      /\ \A p \in DOMAIN I : J[p] = I[p] /\ p # q
  BY DEF IsExt
<1>2. \A p \in DOMAIN I : logfs_inode_read(d, I[p]) = logfs_inode_read(s, I[p])
  <2>1. Alike(s, d, I) BY ExtendsAlike
  <2> QED BY <2>1 DEF Alike
<1>3. Front(q) # q /\ J[Front(q)] = I[Front(q)] BY <1>1
<1>4. IsDir(t, J[Front(q)]) BY <1>1, <1>2, <1>3 DEF SameTypes, IsDir
<1>5. logfs_inode_read(t, n) = logfs_inode_read(d, n) BY <1>1, <1>3 DEF SameExcept
<1>6. ASSUME NEW b \in DataBlocks, IsFileBlock(t, J, b) PROVE IsFileBlock(s, I, b)
  <2>1. PICK p \in DOMAIN J, k \in Ks :
          logfs_inode_read(t, J[p]).type = "file" /\ Ptr(t, J[p], k) = b
    BY <1>6 DEF IsFileBlock
  <2>2. p # Front(q) BY <1>4, <2>1 DEF IsDir
  <2>3. b # 0 BY Layout
  <2>4. p # q
    <3> SUFFICES ASSUME p = q PROVE FALSE OBVIOUS
    <3>1. logfs_inode_read(d, n).type = "file" /\ Ptr(d, n, k) = b BY <1>1, <1>5, <2>1 DEF Ptr
    <3> QED BY <2>3, <3>1
  <2>5. p \in DOMAIN I /\ J[p] = I[p] BY <1>1, <2>4
  <2>6. logfs_inode_read(t, J[p]) = logfs_inode_read(s, I[p]) BY <1>2, <2>2, <2>5 DEF SameExcept
  <2> QED BY <2>1, <2>5, <2>6 DEF IsFileBlock, Ptr
<1>7. \A ino : LiveFile(s, I, ino) => LiveFile(t, J, ino)
  BY <1>1, <1>2 DEF LiveFile, SameTypes
<1>8. \A b \in DataBlocks : IsFileBlock(s, I, b) /\ b \in DOMAIN t.staged => b \in DOMAIN s.staged
  BY AreaNotFile
<1> QED BY <1>6, <1>7, <1>8 DEF Kept

(* logfs_op_mkdir makes a consistent tree with the new directory in it; if  *)
(* it fails before the entry is written, the old tree is intact, though an  *)
(* inode and a block may have leaked.                                       *)
LEMMA MkdirOp ==
  ASSUME NEW s, StorageOK(s), s.rc = "ok", NEW I, NEW lk \in BOOLEAN, Consistent(s, I, lk),
         NEW q \in Paths, logfs_path_lookup(s, q) = 0,
         logfs_inode_read(s, logfs_path_lookup(s, Front(q))).type = "dir",
         NEW t, t = logfs_op_mkdir(s, q)
  PROVE  /\ t.rc = "ok" => \E J, n : /\ OpOK(s, t, I, J, lk, {})
                                      /\ IsExt(I, J, q, n) /\ IsDir(t, n) /\ SameNodes(s, t, I)
         /\ t.rc # "ok" => \/ t.rc = "EIO" /\ logfs_path_lookup(t, q) # 0
                           \/ OpOK(s, t, I, I, TRUE, {}) /\ SameNodes(s, t, I)
<1> DEFINE par == Front(q)
           parent == I[par]
           a == logfs_alloc_inode(s)
           b == logfs_alloc_block(a)
           c == Put(b, b.out, NewDirBlock(a.out, parent))
           d == logfs_inode_write(c, a.out, NewDir(b.out))
           n == a.out
           e == logfs_dir_add(d, parent, Last(q), n, "dir")
           A == DirArea(s, I, par)
<1>1. Sound(s, I) /\ Linked(s, I) /\ (lk \/ Tight(s, I)) BY DEF Consistent
<1>2. /\ q \notin DOMAIN I /\ par \in DOMAIN I /\ IsDir(s, parent)
      /\ logfs_path_lookup(s, par) = parent /\ parent \in Inodes
  BY <1>1, FreePath
<1>3. t = IF e.rc # "ok" THEN e ELSE AddLinks(e, parent, 1)
  <2>1. parent # 0 BY <1>2 DEF Inodes
  <2> QED BY <1>2, <2>1 DEF logfs_op_mkdir
<1>4. /\ Stable(s, d) /\ Extends(s, d) /\ Stages(s, d, DataBlocks \ BB(s))
      /\ d.rc = "ok" => s.rc = "ok" /\ MadeDir(s, d, n, b.out, parent)
  <2> HIDE DEF parent
  <2> QED BY <1>2, MkdirPrefix
<1> HIDE DEF d, n
<1>5. d.rc = "ok" => /\ Leaf(d, I, parent, n) /\ IsDir(d, n) /\ logfs_inode_read(d, n).nlink = 2
                     /\ \A J : Tight(s, I) /\ IsExt(I, J, q, n) => Tight(d, J)
  <2> DEFINE blk == b.out
  <2> HIDE DEF parent, blk
  <2> QED BY <1>1, <1>2, <1>4, MadeDirLeaf DEF blk
<1>6. PICK J : IsExt(I, J, q, n) BY <1>2, ExtExists
<1>70. AddReady(s, I, q, d, n, "dir")
  <2>1. d.rc = "ok" => Leaf(d, I, I[Front(q)], n) /\ "dir" = logfs_inode_read(d, n).type
    BY <1>5 DEF IsDir
  <2> HIDE DEF e, A
  <2> QED BY <1>1, <1>2, <1>4, <2>1 DEF AddReady
<1>71. e = logfs_dir_add(d, I[Front(q)], Last(q), n, "dir") OBVIOUS
<1>7. /\ Stable(s, e) /\ Stages(s, e, A)
      /\ e.rc # "ok" => Extends(s, e)
      /\ e.rc = "ok" => /\ d.rc = "ok" /\ Sound(e, J) /\ SameTypes(d, e, J) /\ SameLinks(d, e, J)
                        /\ SameExcept(d, e, J, Front(q)) /\ SameNodes(d, e, J)
                        /\ Tight(d, J) => Tight(e, J)
  <2> HIDE DEF e
  <2>1. AddDone(s, I, J, q, d, e) BY <1>6, <1>70, <1>71, AddName
  <2> QED BY <2>1 DEF AddDone
<1> HIDE DEF e, A, par, parent
<1>8. CASE e.rc # "ok"
  <2>1. t = e /\ Extends(s, e) BY <1>3, <1>7, <1>8
  <2>2. Stages(s, e, DirArea(s, I, par)) BY <1>7 DEF A
  <2>3. OpOK(s, e, I, I, TRUE, {}) /\ SameNodes(s, e, I)
    BY <1>1, <1>2, <1>7, <2>1, <2>2, ExtendsOp DEF parent
  <2> QED BY <1>8, <2>1, <2>3
<1>9. CASE e.rc = "ok"
  <2>1. t = AddLinks(e, J[par], 1) /\ par \in DOMAIN J /\ J[par] = parent /\ StorageOK(e)
    BY <1>2, <1>3, <1>6, <1>7, <1>9 DEF IsExt, parent, Stable
  <2>2. logfs_inode_read(e, J[par]).nlink + 1 \in Nat
    <3>1. logfs_inode_read(e, parent) \in Inode BY <1>2, <2>1, InodeTyped
    <3> QED BY <2>1, <3>1, InodeRecord
  <2>3. /\ Stable(e, t) /\ OnlyEIO(e, t) /\ (\A B : Stages(e, t, B))
        /\ t.rc # "ok" => \A x \in Device : R(t, x) = R(e, x)
        /\ t.rc = "ok" => /\ Sound(t, J) /\ SameTypes(e, t, J)
                          /\ Tight(e, J) => Tight(t, J)
                          /\ SameExcept(e, t, J, par) /\ SameNodes(e, t, J)
                          /\ \A p \in DOMAIN J : logfs_inode_read(t, J[p]).nlink =
                               IF p = par THEN logfs_inode_read(e, J[p]).nlink + 1
                               ELSE logfs_inode_read(e, J[p]).nlink
    <3>1. Sound(e, J) BY <1>7, <1>9
    <3> QED BY <2>1, <2>2, <3>1, Relink
  <2>4. Stable(s, t) /\ Stages(s, t, A) BY <1>7, <2>3, StagesTrans DEF Stable
  <2>5. t.rc \in {"ok", "EIO"}
    <3> QED BY <1>9, <2>3 DEF OnlyEIO
  <2>6. CASE t.rc # "ok"
    <3>1. Extends(e, t) BY <2>1, <2>3, <2>6, SameReadsExtend
    <3>2. Sound(t, J) BY <1>7, <1>9, <3>1, ExtendsAlike, Frame
    <3>3. q \in Seq(Names) BY PathFacts
    <3>4. logfs_path_lookup(t, q) = J[q] BY <1>6, <3>2, <3>3, PathLookup DEF IsExt
    <3>5. J[q] = n /\ n \in Inodes BY <1>5, <1>6, <1>7, <1>9 DEF IsExt, Leaf, Unnamed
    <3>6. n # 0 BY <3>5 DEF Inodes
    <3> QED BY <2>5, <2>6, <3>4, <3>5, <3>6
  <2>7. CASE t.rc = "ok"
    <3>1. Sound(d, I) /\ Linked(d, I) /\ IsDir(d, I[par])
          /\ \A p \in DOMAIN I : logfs_inode_read(d, I[p]) = logfs_inode_read(s, I[p])
      <4>1. Alike(s, d, I) BY <1>1, <1>4, ExtendsAlike
      <4> QED BY <1>1, <1>2, <4>1, Frame DEF Alike, IsDir, parent
    <3>2. SameTypes(d, t, J) BY <1>7, <1>9, <2>3, <2>7 DEF SameTypes
    <3>3. SameExcept(d, t, J, par) BY <1>7, <1>9, <2>3, <2>7 DEF SameExcept, par
    <3>4. Leaf(d, I, parent, n) /\ IsDir(d, n) /\ logfs_inode_read(d, n).nlink = 2 /\ Unnamed(I, n)
      BY <1>5, <1>7, <1>9 DEF Leaf
    <3>5. q \in DOMAIN J /\ J[q] = n /\ q # par /\ \A p \in DOMAIN I : p \in DOMAIN J /\ J[p] = I[p]
      BY <1>2, <1>6 DEF IsExt
    <3>6. IsDir(t, n) /\ logfs_inode_read(t, n).nlink = 2
      BY <3>2, <3>3, <3>4, <3>5 DEF SameTypes, SameExcept, IsDir
    <3>7. logfs_inode_read(t, n).nlink = (IF IsDir(t, n) THEN 2 ELSE 1) BY <3>6
    <3>8. \A p \in DOMAIN I : logfs_inode_read(t, I[p]).nlink =
            IF p = par /\ IsDir(t, n) THEN logfs_inode_read(d, I[p]).nlink + 1
            ELSE logfs_inode_read(d, I[p]).nlink
      <4>1. \A p \in DOMAIN I : logfs_inode_read(e, I[p]).nlink = logfs_inode_read(d, I[p]).nlink
        BY <1>7, <1>9, <3>5 DEF SameLinks
      <4> QED BY <2>3, <2>7, <3>5, <3>6, <4>1
    <3>9. Linked(t, J) BY <1>2, <1>6, <3>1, <3>2, <3>4, <3>7, <3>8, LinkedExt DEF par
    <3>10. lk \/ Tight(t, J) BY <1>1, <1>5, <1>6, <1>7, <1>9, <2>3, <2>7
    <3>11. Consistent(t, J, lk) BY <2>3, <2>7, <3>9, <3>10 DEF Consistent
    <3>12. Kept(s, t, I, J, {})
      <4>1. \A k \in Ks : logfs_inode_read(d, n).type = "file" => Ptr(d, n, k) = 0
        BY <3>4 DEF IsDir
      <4>2. Stages(s, t, DirArea(s, I, Front(q))) /\ SameExcept(d, t, J, Front(q))
            /\ Front(q) \in DOMAIN I /\ IsDir(s, I[Front(q)])
        BY <1>2, <2>4, <3>3 DEF A, par, parent
      <4> QED BY <1>1, <1>4, <1>6, <3>2, <4>1, <4>2, KeptExt
    <3>13. SameNodes(s, t, I)
      <4>1. SameNodes(s, d, I) BY <1>1, <1>4, ExtendsNodes
      <4>2. SameNodes(d, e, I) /\ SameNodes(e, t, I)
        BY <1>7, <1>9, <2>3, <2>7, <3>5 DEF SameNodes
      <4> QED BY <4>1, <4>2, NodesTrans
    <3>14. OpOK(s, t, I, J, lk, {}) BY <2>4, <3>11, <3>12 DEF OpOK
    <3> QED BY <1>6, <2>7, <3>6, <3>13, <3>14
  <2> QED BY <2>6, <2>7
<1> QED BY <1>8, <1>9

(* Calls s and t see the same storage.                                      *)
SameStore(s, t) == t.staged = s.staged /\ t.logged = s.logged /\ t.home = s.home

(* Such calls read the same.                                                *)
LEMMA SameStoreReads ==
  ASSUME NEW s, NEW t, SameStore(s, t)
  PROVE  /\ \A b : R(t, b) = R(s, b) /\ Copies(t, b) = Copies(s, b)
         /\ \A ino : logfs_inode_read(t, ino) = logfs_inode_read(s, ino)
         /\ IB(t) = IB(s) /\ BB(t) = BB(s)
         /\ \A B : Stages(s, t, B)
<1>1. \A b : Copies(t, b) = Copies(s, b) BY DEF SameStore, Copies
<1> DEFINE Newest(S) == CHOOSE i \in S : \A k \in S : k <= i
<1>2. \A b : R(t, b) = R(s, b)
  <2> SUFFICES ASSUME NEW b PROVE R(t, b) = R(s, b) OBVIOUS
  <2>1. \A x : R(x, b) = IF b \in DOMAIN x.staged THEN x.staged[b]
                         ELSE IF Copies(x, b) = {} THEN x.home.cur[b]
                         ELSE x.logged[Newest(Copies(x, b))][b]
    BY DEF R, logfs_txn_read_block
  <2> HIDE DEF Newest
  <2>2. Copies(t, b) = Copies(s, b) BY <1>1
  <2> QED BY <2>1, <2>2 DEF SameStore
<1>3. \A ino : logfs_inode_read(t, ino) = logfs_inode_read(s, ino)
  BY <1>2, InodesSame
<1> QED BY <1>1, <1>2, <1>3 DEF IB, BB, R, Stages, SameStore

(* So they see the same structure.                                          *)
LEMMA SameStoreConsistent ==
  ASSUME NEW s, NEW t, SameStore(s, t), NEW J, NEW lk, Consistent(s, J, lk)
  PROVE  /\ Consistent(t, J, lk)
         /\ \A b : IsFileBlock(t, J, b) <=> IsFileBlock(s, J, b)
         /\ \A ino : LiveFile(t, J, ino) <=> LiveFile(s, J, ino)
<1>1. /\ \A b : R(t, b) = R(s, b)
      /\ \A ino : logfs_inode_read(t, ino) = logfs_inode_read(s, ino)
      /\ IB(t) = IB(s) /\ BB(t) = BB(s)
  BY SameStoreReads
<1>2. Sound(s, J) BY DEF Consistent
<1>3. Extends(s, t) BY <1>1 DEF Extends
<1>4. Alike(s, t, J) BY <1>2, <1>3, ExtendsAlike
<1>5. Consistent(t, J, lk)
  <2>1. IB(t) \subseteq IB(s) /\ BB(t) \subseteq BB(s) BY <1>1
  <2> QED BY <1>2, <1>4, <2>1, Frame DEF Consistent
<1> QED BY <1>1, <1>5 DEF IsFileBlock, LiveFile, Ptr

(* And an operation has left it in the one if it has in the other.          *)
LEMMA SameStoreOp ==
  ASSUME NEW s, NEW t, NEW u, SameStore(t, u), StorageOK(u), NEW I, NEW J, NEW lk, NEW gone,
         OpOK(s, t, I, J, lk, gone)
  PROVE  OpOK(s, u, I, J, lk, gone)
<1>1. Stable(s, t) /\ Consistent(t, J, lk) /\ Kept(s, t, I, J, gone) BY DEF OpOK
<1>2. /\ Consistent(u, J, lk)
      /\ \A b : IsFileBlock(u, J, b) <=> IsFileBlock(t, J, b)
      /\ \A ino : LiveFile(u, J, ino) <=> LiveFile(t, J, ino)
  BY <1>1, SameStoreConsistent
<1>3. Kept(s, u, I, J, gone) BY <1>1, <1>2 DEF Kept, SameStore
<1>4. Stable(s, u) BY <1>1 DEF Stable, SameStore
<1> QED BY <1>2, <1>3, <1>4 DEF OpOK

(* The inode of a new file has no blocks.                                   *)
LEMMA NewFileFacts ==
  /\ NewFile \in Inode /\ NewFile.type = "file" /\ NewFile.nlink = 1
  /\ \A k \in Ks : NewFile.blocks[k] = 0
<1>1. NewFile = [type |-> "file", nlink |-> 1, size |-> 0, blocks |-> NoBlocks]
  BY DEF NewFile
<1>2. NoBlocks \in [Ks -> DataBlocks \cup {0}] /\ \A k \in Ks : NoBlocks[k] = 0
  BY DEF NoBlocks, Ks
<1>3. 0 \in 0 .. MaxSize
  <2>1. NDirBlocks \in Nat /\ BlockUnits \in Nat /\ 0 <= NDirBlocks /\ 0 \in Nat BY FileSystemAssumption
  <2>2. NDirBlocks * BlockUnits \in Nat BY <2>1, Monotone
  <2> QED BY <2>2 DEF MaxSize
<1>4. NewFile \in Inode BY <1>1, <1>2, <1>3, InodeMade
<1> QED BY <1>1, <1>2, <1>4

(* From s to d inode n was taken and made an empty file of no name yet.     *)
MadeFile(s, d, n) ==
  /\ n \in Inodes \ IB(s) /\ IB(d) = IB(s) \cup {n} /\ BB(d) = BB(s)
  /\ logfs_inode_read(d, n) = NewFile

(* logfs_op_create up to its logfs_dir_add: it touches nothing that was     *)
(* allocated before, error or not.                                          *)
LEMMA CreatePrefix ==
  ASSUME NEW s, StorageOK(s), NEW a, a = logfs_alloc_inode(s),
         NEW d, d = logfs_inode_write(a, a.out, NewFile)
  PROVE  /\ Stable(s, d) /\ Extends(s, d) /\ Stages(s, d, DataBlocks \ BB(s))
         /\ d.rc = "ok" => s.rc = "ok" /\ MadeFile(s, d, a.out)
<1> DEFINE B == DataBlocks \ BB(s)
           n == a.out
<1>1. /\ Within(s, a, {inode_bitmap_start})
      /\ a.rc = "ok" => /\ s.rc = "ok" /\ a.out \in Inodes /\ a.out \notin IB(s)
                        /\ IB(a) = IB(s) \cup {a.out}
  BY AllocInode
<1>2. /\ \A ino : logfs_inode_read(a, ino) = logfs_inode_read(s, ino)
      /\ \A x \in DataBlocks : R(a, x) = R(s, x)
      /\ BB(a) = BB(s) /\ Stages(s, a, B) /\ Stable(s, a)
  BY <1>1, WithinBitmap
<1>3. BB(s) \subseteq DataBlocks /\ IB(s) \subseteq Inodes BY BitmapsTyped
<1>4. Extends(s, a)
  <2>1. IB(s) \subseteq IB(a)
    <3>1. CASE a.rc = "ok" BY <1>1, <3>1
    <3>2. CASE a.rc # "ok" BY <1>1, <3>2, SameReadsExtend DEF Within
    <3> QED BY <3>1, <3>2
  <2> QED BY <1>2, <1>3, <2>1 DEF Extends
<1>5. StorageOK(a) BY <1>2 DEF Stable
<1>6. CASE a.rc # "ok"
  <2>1. d = a BY <1>6, Dead
  <2> QED BY <1>2, <1>4, <1>6, <2>1
<1>7. CASE a.rc = "ok"
  <2>1. n \in Inodes /\ n \notin IB(s) /\ d = logfs_inode_write(a, n, NewFile) /\ s.rc = "ok"
    BY <1>1, <1>7
  <2> HIDE DEF n, B
  <2>2. Wrote(a, d, n, NewFile)
    <3>1. Wrote(a, logfs_inode_write(a, n, NewFile), n, NewFile)
      BY <1>5, <2>1, NewFileFacts, InodeWrote
    <3> QED BY <2>1, <3>1
  <2>3. /\ \A x \in DataBlocks : R(d, x) = R(a, x)
        /\ IB(d) = IB(a) /\ BB(d) = BB(a) /\ Stages(a, d, B) /\ Stable(a, d)
    <3>1. inode_location(n) \in Table BY <2>1, LocationOK
    <3>2. Within(a, d, {inode_location(n)}) BY <2>2 DEF Wrote
    <3> QED BY <3>1, <3>2, WithinTable
  <2>4. \A j \in Inodes \ {n} : logfs_inode_read(d, j) = logfs_inode_read(a, j)
    <3>1. CASE d.rc = "ok" BY <2>2, <3>1 DEF Wrote
    <3>2. CASE d.rc # "ok"
      <4>1. \A x \in Device : R(d, x) = R(a, x) BY <2>2, <3>2 DEF Wrote, Within
      <4> QED BY <1>5, <4>1, SameReadsExtend
    <3> QED BY <3>1, <3>2
  <2>5. IB(d) = IB(s) \cup {n} /\ BB(d) = BB(s) BY <1>1, <1>2, <1>7, <2>3 DEF n
  <2>6. Extends(s, d) BY <1>2, <1>3, <2>1, <2>3, <2>4, <2>5 DEF Extends
  <2>7. Stages(s, d, B) /\ Stable(s, d) BY <1>2, <2>3, StagesTrans DEF Stable
  <2>8. d.rc = "ok" => MadeFile(s, d, n) BY <2>1, <2>2, <2>5 DEF MadeFile, Wrote
  <2> QED BY <2>1, <2>6, <2>7, <2>8 DEF n, B
<1> QED BY <1>6, <1>7

(* What it has made is ready to be named; naming it leaves no leak.         *)
LEMMA MadeFileLeaf ==
  ASSUME NEW s, StorageOK(s), NEW I, Sound(s, I), NEW d, Extends(s, d),
         NEW n, NEW parent, MadeFile(s, d, n)
  PROVE  /\ Leaf(d, I, parent, n) /\ logfs_inode_read(d, n).type = "file"
         /\ logfs_inode_read(d, n).nlink = 1 /\ \A k \in Ks : Ptr(d, n, k) = 0
         /\ \A J, q : Tight(s, I) /\ IsExt(I, J, q, n) => Tight(d, J)
<1>1. /\ n \in Inodes /\ n \notin IB(s) /\ IB(d) = IB(s) \cup {n} /\ BB(d) = BB(s)
      /\ logfs_inode_read(d, n) = NewFile
  BY DEF MadeFile
<1>2. \A p \in DOMAIN I : I[p] \in IB(s) BY DEF Sound, Placed
<1>3. Unnamed(I, n) BY <1>1, <1>2 DEF Unnamed
<1>4. \A k \in Ks : Ptr(d, n, k) = 0 BY <1>1, NewFileFacts DEF Ptr
<1>5. logfs_inode_read(d, n).type = "file" /\ logfs_inode_read(d, n).nlink = 1
  BY <1>1, NewFileFacts
<1>6. Leaf(d, I, parent, n) BY <1>1, <1>3, <1>4, <1>5 DEF Leaf, IsDir
<1>7. \A p \in DOMAIN I, k \in Ks : Ptr(d, I[p], k) = Ptr(s, I[p], k)
  BY <1>2 DEF Extends, Ptr
<1>8. ASSUME NEW J, NEW q, Tight(s, I), IsExt(I, J, q, n) PROVE Tight(d, J)
  BY <1>1, <1>7, <1>8 DEF Tight, IsExt
<1> QED BY <1>4, <1>5, <1>6, <1>8

(* logfs_op_create makes a consistent tree with the new file in it; if it   *)
(* fails, the old tree is intact, with a leak perhaps.                      *)
LEMMA CreateOp ==
  ASSUME NEW s, StorageOK(s), s.rc = "ok", NEW I, NEW lk \in BOOLEAN, Consistent(s, I, lk),
         NEW q \in Paths, logfs_path_lookup(s, q) = 0,
         logfs_inode_read(s, logfs_path_lookup(s, Front(q))).type = "dir",
         NEW t, t = logfs_op_create(s, q)
  PROVE  /\ t.rc = "ok" => \E J, n : /\ OpOK(s, t, I, J, lk, {}) /\ LiveFile(t, J, t.out)
                                      /\ IsExt(I, J, q, n) /\ logfs_inode_read(t, n) = NewFile
                                      /\ SameNodes(s, t, I)
         /\ t.rc # "ok" => OpOK(s, t, I, I, TRUE, {}) /\ SameNodes(s, t, I)
<1> DEFINE par == Front(q)
           parent == I[par]
           a == logfs_alloc_inode(s)
           d == logfs_inode_write(a, a.out, NewFile)
           n == a.out
           e == logfs_dir_add(d, parent, Last(q), n, "file")
<1>1. Sound(s, I) /\ Linked(s, I) /\ (lk \/ Tight(s, I)) BY DEF Consistent
<1>2. /\ q \notin DOMAIN I /\ par \in DOMAIN I /\ IsDir(s, parent)
      /\ logfs_path_lookup(s, par) = parent /\ parent \in Inodes
  BY <1>1, FreePath
<1>3. t = [e EXCEPT !.out = n]
  <2>1. parent # 0 BY <1>2 DEF Inodes
  <2> QED BY <1>2, <2>1 DEF logfs_op_create
<1>4. /\ Stable(s, d) /\ Extends(s, d) /\ Stages(s, d, DataBlocks \ BB(s))
      /\ d.rc = "ok" => s.rc = "ok" /\ MadeFile(s, d, n)
  BY CreatePrefix
<1> HIDE DEF d, n
<1>5. d.rc = "ok" => /\ Leaf(d, I, parent, n) /\ logfs_inode_read(d, n).type = "file"
                     /\ logfs_inode_read(d, n).nlink = 1 /\ \A k \in Ks : Ptr(d, n, k) = 0
                     /\ \A J : Tight(s, I) /\ IsExt(I, J, q, n) => Tight(d, J)
  <2> HIDE DEF parent
  <2> QED BY <1>1, <1>4, MadeFileLeaf
<1>6. PICK J : IsExt(I, J, q, n) BY <1>2, ExtExists
<1>7. AddReady(s, I, q, d, n, "file")
  <2>1. d.rc = "ok" => Leaf(d, I, I[Front(q)], n) /\ "file" = logfs_inode_read(d, n).type
    BY <1>5
  <2> HIDE DEF e
  <2> QED BY <1>1, <1>2, <1>4, <2>1 DEF AddReady
<1>8. e = logfs_dir_add(d, I[Front(q)], Last(q), n, "file") OBVIOUS
<1> HIDE DEF e
<1>9. AddDone(s, I, J, q, d, e) BY <1>6, <1>7, <1>8, AddName
<1>10. /\ Stable(s, e) /\ Stages(s, e, DirArea(s, I, Front(q)))
       /\ e.rc # "ok" => Extends(s, e)
       /\ e.rc = "ok" => /\ d.rc = "ok" /\ Sound(e, J) /\ SameTypes(d, e, J) /\ SameLinks(d, e, J)
                         /\ SameExcept(d, e, J, Front(q)) /\ SameNodes(d, e, J)
                         /\ Tight(d, J) => Tight(e, J)
  BY <1>9 DEF AddDone
<1>11. StorageOK(t) /\ SameStore(e, t) /\ t.rc = e.rc /\ t.out = n
  <2>1. StorageOK(e) BY <1>10 DEF Stable
  <2>2. e = [rc |-> e.rc, out |-> e.out, staged |-> e.staged, logged |-> e.logged,
             home |-> e.home, fresh |-> e.fresh, calls |-> e.calls, fail |-> e.fail]
    BY <2>1 DEF StorageOK, IsCall
  <2>3. t = [rc |-> e.rc, out |-> n, staged |-> e.staged, logged |-> e.logged,
             home |-> e.home, fresh |-> e.fresh, calls |-> e.calls, fail |-> e.fail]
    BY <1>3, <2>2
  <2> QED BY <2>1, <2>3 DEF StorageOK, IsCall, SameStore
<1> HIDE DEF par, parent
<1>12. CASE e.rc # "ok"
  <2>1. OpOK(s, e, I, I, TRUE, {}) /\ SameNodes(s, e, I)
    <3>1. Front(q) \in DOMAIN I /\ IsDir(s, I[Front(q)]) BY <1>2 DEF par, parent
    <3> QED BY <1>1, <1>10, <1>12, <3>1, ExtendsOp
  <2>2. OpOK(s, t, I, I, TRUE, {}) BY <1>11, <2>1, SameStoreOp
  <2>3. SameNodes(s, t, I)
    <3>1. SameNodes(e, t, I) BY <1>11, SameStoreReads DEF SameNodes, SameNode
    <3> QED BY <2>1, <3>1, NodesTrans
  <2> QED BY <1>11, <1>12, <2>2, <2>3
<1>13. CASE e.rc = "ok"
  <2>1. Sound(d, I) /\ Linked(d, I) /\ IsDir(d, I[Front(q)])
        /\ \A p \in DOMAIN I : logfs_inode_read(d, I[p]) = logfs_inode_read(s, I[p])
    <3>1. Alike(s, d, I) BY <1>1, <1>4, ExtendsAlike
    <3> QED BY <1>1, <1>2, <3>1, Frame DEF Alike, IsDir, par, parent
  <2>2. /\ d.rc = "ok" /\ Sound(e, J) /\ SameTypes(d, e, J) /\ SameLinks(d, e, J)
        /\ SameExcept(d, e, J, Front(q)) /\ SameNodes(d, e, J)
        /\ Tight(d, J) => Tight(e, J)
    BY <1>10, <1>13
  <2>3. /\ Leaf(d, I, parent, n) /\ logfs_inode_read(d, n).type = "file" /\ Unnamed(I, n)
        /\ logfs_inode_read(d, n).nlink = 1 /\ \A k \in Ks : Ptr(d, n, k) = 0
    BY <1>5, <2>2 DEF Leaf
  <2>4. q \in DOMAIN J /\ J[q] = n /\ q # Front(q) /\ \A p \in DOMAIN I : p \in DOMAIN J /\ J[p] = I[p]
    BY <1>2, <1>6 DEF IsExt, par
  <2>5. logfs_inode_read(e, n).type = "file" /\ logfs_inode_read(e, n).nlink = 1 /\ ~IsDir(e, n)
    BY <2>2, <2>3, <2>4 DEF SameTypes, SameLinks, IsDir
  <2>6. logfs_inode_read(e, n).nlink = (IF IsDir(e, n) THEN 2 ELSE 1) BY <2>5
  <2>7. \A p \in DOMAIN I : logfs_inode_read(e, I[p]).nlink =
          IF p = Front(q) /\ IsDir(e, n) THEN logfs_inode_read(d, I[p]).nlink + 1
          ELSE logfs_inode_read(d, I[p]).nlink
    BY <2>2, <2>4, <2>5 DEF SameLinks
  <2>8. Linked(e, J)
    <3>1. Front(q) \in DOMAIN I /\ q \notin DOMAIN I BY <1>2 DEF par
    <3> QED BY <1>6, <2>1, <2>2, <2>3, <2>6, <2>7, <3>1, LinkedExt
  <2>9. ASSUME ~lk PROVE Tight(e, J)
    <3>1. Tight(s, I) BY <1>1, <2>9
    <3>2. Tight(d, J) BY <1>5, <1>6, <2>2, <3>1
    <3> QED BY <2>2, <3>2
  <2>10. Consistent(e, J, lk) BY <2>2, <2>8, <2>9 DEF Consistent
  <2>11. Kept(s, e, I, J, {})
    <3>1. \A k \in Ks : logfs_inode_read(d, n).type = "file" => Ptr(d, n, k) = 0 BY <2>3
    <3>2. Front(q) \in DOMAIN I /\ IsDir(s, I[Front(q)]) BY <1>2 DEF par, parent
    <3>3. Extends(s, d) /\ SameTypes(d, e, J) /\ SameExcept(d, e, J, Front(q)) BY <1>4, <2>2
    <3>4. Stages(s, e, DirArea(s, I, Front(q))) BY <1>10
    <3>5. Sound(s, I) BY <1>1
    <3> QED BY <1>6, <3>1, <3>2, <3>3, <3>4, <3>5, KeptExt
  <2>12. OpOK(s, e, I, J, lk, {}) BY <1>10, <2>10, <2>11 DEF OpOK
  <2>13. OpOK(s, t, I, J, lk, {}) BY <1>11, <2>12, SameStoreOp
  <2>14. LiveFile(e, J, n) BY <2>4, <2>5 DEF LiveFile
  <2>15. LiveFile(t, J, t.out) BY <1>11, <2>10, <2>14, SameStoreConsistent
  <2>16. SameNodes(s, t, I)
    <3>1. SameNodes(s, d, I) BY <1>1, <1>4, ExtendsNodes
    <3>2. SameNodes(d, e, I) BY <2>2, <2>4 DEF SameNodes
    <3>3. SameNodes(e, t, I) BY <1>11, SameStoreReads DEF SameNodes, SameNode
    <3> QED BY <3>1, <3>2, <3>3, NodesTrans
  <2>17. logfs_inode_read(t, n) = NewFile
    <3>1. logfs_inode_read(d, n) = NewFile BY <1>4, <2>2 DEF MadeFile
    <3>2. logfs_inode_read(e, n) = logfs_inode_read(d, n) BY <2>2, <2>4 DEF SameExcept
    <3> QED BY <1>11, <3>1, <3>2, SameStoreReads
  <2> QED BY <1>6, <1>11, <1>13, <2>13, <2>15, <2>16, <2>17
<1> QED BY <1>12, <1>13

-----------------------------------------------------------------------------
(* A name that goes: unlink and rmdir. *)

(* Entry x of the directory with inode in is free in t, all else as in s. *)
Cleared(s, t, in, x) ==
  /\ R(t, in.blocks[x[1]]).kind = "dir"
  /\ Ents(R(t, in.blocks[x[1]])) =
       [Ents(R(s, in.blocks[x[1]])) EXCEPT ![x[2]] = [Entry(s, in, x) EXCEPT !.ino = 0]]
  /\ \A b \in DataBlocks \ {in.blocks[x[1]]} : R(t, b) = R(s, b)

(* An entry is a struct logfs_dirent of a data block.                       *)
LEMMA EntryTyped ==
  ASSUME NEW s, StorageOK(s), NEW in \in Inode, NEW x \in Slots(in)
  PROVE  Entry(s, in, x) \in Slot /\ in.blocks[x[1]] \in DataBlocks
         /\ Ents(R(s, in.blocks[x[1]])) \in [Es -> Slot] /\ x[2] \in Es
<1>1. x[1] \in Ks /\ x[2] \in Es /\ in.blocks[x[1]] # 0 BY SlotFacts DEF Es
<1>2. in.blocks[x[1]] \in DataBlocks BY <1>1, InodeBlocks
<1>3. Ents(R(s, in.blocks[x[1]])) \in [Es -> Slot] BY <1>2, DataTyped
<1> QED BY <1>1, <1>2, <1>3 DEF Entry, R

(* So is one whose inode number was cleared.                                *)
LEMMA SlotFreed ==
  ASSUME NEW ent \in Slot
  PROVE  [ent EXCEPT !.ino = 0] \in Slot /\ [ent EXCEPT !.ino = 0].ino = 0
BY DEF Slot

(* logfs_dir_remove has cleared entry x, or has failed and changed nothing. *)
Removed(s, t, in, x) ==
  /\ Within(s, t, {in.blocks[x[1]]}) /\ OnlyEIO(s, t)
  /\ t.rc = "ok" => s.rc = "ok" /\ Cleared(s, t, in, x)

(* logfs_dir_remove clears the entry with the name, and no other.           *)
LEMMA DirRemove ==
  ASSUME NEW s, StorageOK(s), NEW dir \in Inodes, NEW name,
         NEW in, in = logfs_inode_read(s, dir), in.type = "dir", HasName(s, in, name)
  PROVE  \E x \in Used(s, in) : /\ Entry(s, in, x).name = name
                                /\ Removed(s, logfs_dir_remove(s, dir, name), in, x)
<1> DEFINE x == FirstSlot(Named(s, in, name))
           ent == [Entry(s, in, x) EXCEPT !.ino = 0]
           t == logfs_dir_remove(s, dir, name)
           b == in.blocks[x[1]]
<1>1. x \in Used(s, in) /\ Entry(s, in, x).name = name /\ Named(s, in, name) # {} BY Nameds
<1>2. in \in Inode /\ x \in Slots(in) BY <1>1, InodeTyped DEF Used
<1>3. t = IF s.rc # "ok" THEN s ELSE SetSlot(s, in, x, ent)
  BY <1>1 DEF logfs_dir_remove
<1> HIDE DEF x
<1>4. ent \in Slot /\ b \in DataBlocks BY <1>2, EntryTyped, SlotFreed
<1> HIDE DEF t
<1>5. CASE s.rc # "ok"
  <2>1. t = s BY <1>3, <1>5
  <2>2. Removed(s, s, in, x) BY <1>5 DEF Removed, Within, OnlyEIO
  <2> QED BY <1>1, <2>1, <2>2 DEF t
<1>6. CASE s.rc = "ok"
  <2> HIDE DEF ent
  <2>1. t = SetSlot(s, in, x, ent) BY <1>3, <1>6
  <2>2. /\ Within(s, t, {b}) /\ OnlyEIO(s, t)
        /\ t.rc = "ok" => /\ R(t, b).kind = "dir"
                          /\ Ents(R(t, b)) = [Ents(R(s, b)) EXCEPT ![x[2]] = ent]
    BY <1>2, <1>4, <2>1, SetSlotEffect
  <2> HIDE DEF b
  <2>3. \A y \in DataBlocks \ {b} : R(t, y) = R(s, y) BY <1>4, <2>2, WithinData
  <2>4. Removed(s, t, in, x) BY <1>6, <2>2, <2>3 DEF Removed, Cleared, b, ent
  <2> QED BY <1>1, <2>4 DEF t
<1> QED BY <1>5, <1>6
-----------------------------------------------------------------------------
(* J is the naming I without path q.                                        *)
IsCut(I, J, q) ==
  /\ J = [r \in DOMAIN J |-> J[r]] /\ DOMAIN J = DOMAIN I \ {q}
  /\ \A p \in DOMAIN J : J[p] = I[p]

(* A path can be taken from a naming.                                       *)
LEMMA CutExists ==
  ASSUME NEW I, NEW q
  PROVE  \E J : IsCut(I, J, q)
<1> DEFINE J == [r \in DOMAIN I \ {q} |-> I[r]]
<1>1. IsCut(I, J, q) BY DEF IsCut
<1> QED BY <1>1

(* ... and the rest is still a naming.                                      *)
LEMMA CutNaming ==
  ASSUME NEW I, Naming(I), NEW q, q # <<>>, NEW J, IsCut(I, J, q)
  PROVE  Naming(J)
<1>1. \A p \in DOMAIN J : p \in DOMAIN I /\ J[p] = I[p] /\ J[p] \in Inodes BY DEF IsCut, Naming
<1>2. J \in [DOMAIN J -> Inodes]
  <2>1. J = [r \in DOMAIN J |-> J[r]] BY DEF IsCut
  <2> QED BY <1>1, <2>1
<1>3. <<>> \in DOMAIN J BY DEF Naming, IsCut
<1> QED BY <1>1, <1>2, <1>3 DEF Naming

(* Nothing is named below q.                                                *)
Childless(I, q) == \A r : ~Child(I, q, r)
(* What t keeps of s when the name q goes: the other inodes' types and      *)
(* blocks, everything allocated to them, and the parent's other entries.    *)
CutKeeps(s, t, I, J, q, x) ==
  /\ \A p \in DOMAIN J :
       /\ logfs_inode_read(t, J[p]).type = logfs_inode_read(s, J[p]).type
       /\ logfs_inode_read(t, J[p]).size = logfs_inode_read(s, J[p]).size
       /\ logfs_inode_read(t, J[p]).blocks = logfs_inode_read(s, J[p]).blocks
  /\ Cleared(s, t, logfs_inode_read(s, I[Front(q)]), x)
  /\ \A ino \in IB(s) : ino = I[q] \/ ino \in IB(t)
  /\ \A b \in BB(s) : (\E k \in Ks : Ptr(s, I[q], k) = b) \/ b \in BB(t)

(* Entry x names q, below which nothing is named.                           *)
CutReady(s, I, q, x) ==
  /\ StorageOK(s) /\ Sound(s, I) /\ q \in DOMAIN I /\ q # <<>> /\ Childless(I, q)
  /\ x \in Used(s, logfs_inode_read(s, I[Front(q)]))
  /\ Entry(s, logfs_inode_read(s, I[Front(q)]), x).name = Last(q)

(* The other paths keep their parents: nothing hangs below q.               *)
LEMMA CutOthers ==
  ASSUME NEW s, NEW I, NEW q, NEW x, CutReady(s, I, q, x), NEW J, IsCut(I, J, q)
  PROVE  /\ Front(q) \in DOMAIN J /\ IsDir(s, I[Front(q)]) /\ Naming(I) /\ Naming(J) /\ q \in Paths
         /\ \A p \in DOMAIN J : p \in DOMAIN I /\ p # q /\ J[p] = I[p] /\ Above(p) \in DOMAIN J
<1>1. Sound(s, I) /\ Naming(I) /\ Placed(s, I) /\ q \in DOMAIN I /\ q # <<>> BY DEF CutReady, Sound
<1>2. Naming(J) /\ q \in Paths BY <1>1, CutNaming DEF Naming
<1>3. ASSUME NEW p \in DOMAIN J
      PROVE  p \in DOMAIN I /\ p # q /\ J[p] = I[p] /\ Above(p) \in DOMAIN J
  <2>1. p \in DOMAIN I /\ p # q /\ J[p] = I[p] BY DEF IsCut
  <2>2. Above(p) \in DOMAIN I BY <1>1, <2>1 DEF Placed
  <2>3. Above(p) # q
    <3>1. CASE p = <<>> BY <2>1, <3>1 DEF Above
    <3>2. CASE p # <<>>
      <4>1. ~Child(I, q, p) BY DEF CutReady, Childless
      <4> QED BY <2>1, <3>2, <4>1 DEF Above, Child
    <3> QED BY <3>1, <3>2
  <2> QED BY <2>1, <2>2, <2>3 DEF IsCut
<1>4. Front(q) # q
  <2>1. q \in Seq(Names) BY <1>2, PathFacts
  <2>2. Len(Front(q)) = Len(q) - 1 /\ Len(q) \in Nat BY <1>1, <2>1, FrontLast
  <2> QED BY <2>2
<1>5. Front(q) \in DOMAIN I /\ IsDir(s, I[Front(q)]) BY <1>1 DEF Placed, Above
<1> QED BY <1>1, <1>2, <1>3, <1>4, <1>5 DEF IsCut

(* The entries of the parent, without the one that was cleared.             *)
LEMMA CutSlots ==
  ASSUME NEW s, StorageOK(s), NEW t, NEW in \in Inode, Injective(in), NEW jn, jn.blocks = in.blocks,
         NEW x \in Used(s, in), OneEach(s, in), Cleared(s, t, in, x)
  PROVE  /\ Slots(jn) = Slots(in)
         /\ \A y \in Used(t, jn) : y \in Used(s, in) /\ y # x /\ Entry(t, jn, y) = Entry(s, in, y)
         /\ \A y \in Used(s, in) \ {x} : y \in Used(t, jn) /\ Entry(t, jn, y) = Entry(s, in, y)
         /\ OneEach(t, jn)
<1> DEFINE b == in.blocks[x[1]]
           old == Ents(R(s, b))
<1>1. x \in Slots(in) BY DEF Used
<1>2. x[1] \in Ks /\ b \in DataBlocks /\ old \in [Es -> Slot] /\ x[2] \in Es /\ Entry(s, in, x) \in Slot
  BY <1>1, EntryTyped, SlotFacts
<1>3. Slots(jn) = Slots(in) BY DEF Slots
<1> DEFINE ent == [Entry(s, in, x) EXCEPT !.ino = 0]
<1>4. ent.ino = 0 BY <1>2, SlotFreed
<1>5. Ents(R(t, b)) = [old EXCEPT ![x[2]] = ent] /\ \A y \in DataBlocks \ {b} : R(t, y) = R(s, y)
  BY DEF Cleared
<1> HIDE DEF ent, old
<1>6. /\ Ents(R(t, b))[x[2]] = ent
      /\ \A e \in Es : e # x[2] => Ents(R(t, b))[e] = old[e]
  BY <1>2, <1>5
<1>7. Entry(t, jn, x).ino = 0
  BY <1>4, <1>6 DEF Entry, R
<1>8. ASSUME NEW y \in Slots(in), y # x PROVE Entry(t, jn, y) = Entry(s, in, y)
  <2>1. y[1] \in Ks /\ y[2] \in Es /\ in.blocks[y[1]] \in DataBlocks /\ in.blocks[y[1]] # 0
    BY EntryTyped, SlotFacts
  <2>2. CASE in.blocks[y[1]] # b
    <3>1. R(t, in.blocks[y[1]]) = R(s, in.blocks[y[1]]) BY <1>5, <2>1, <2>2
    <3> QED BY <3>1 DEF Entry, R
  <2>3. CASE in.blocks[y[1]] = b
    <3>1. y[1] = x[1] BY <1>2, <2>1, <2>3 DEF Injective
    <3>2. y[2] # x[2]
      <4>1. x \in (1 .. NDirBlocks) \X (1 .. DirentsPerBlock)
            /\ y \in (1 .. NDirBlocks) \X (1 .. DirentsPerBlock)
        BY <1>1, <1>8 DEF Slots
      <4>2. x = <<x[1], x[2]>> /\ y = <<y[1], y[2]>> BY <4>1
      <4> QED BY <1>8, <3>1, <4>2
    <3>3. Ents(R(t, b))[y[2]] = Ents(R(s, b))[y[2]] BY <1>6, <2>1, <3>2 DEF old
    <3> QED BY <2>3, <3>3 DEF Entry, R
  <2> QED BY <2>2, <2>3
<1>9. \A y \in Used(t, jn) : y \in Used(s, in) /\ y # x /\ Entry(t, jn, y) = Entry(s, in, y)
  BY <1>3, <1>7, <1>8 DEF Used
<1>10. \A y \in Used(s, in) \ {x} : y \in Used(t, jn) /\ Entry(t, jn, y) = Entry(s, in, y)
  BY <1>3, <1>8 DEF Used
<1>11. OneEach(t, jn) BY <1>9 DEF OneEach
<1> QED BY <1>3, <1>9, <1>10, <1>11

(* An entry that was right, and is not q's, stays right when q goes.        *)
LEMMA CutEntry ==
  ASSUME NEW s, NEW t, NEW I, NEW J, NEW q, NEW p \in DOMAIN J,
         \A r \in DOMAIN J : r \in DOMAIN I /\ J[r] = I[r] /\ Above(r) \in DOMAIN J,
         \A r \in DOMAIN I : r = q \/ r \in DOMAIN J,
         SameTypes(s, t, J), NEW e, EntryOK(s, I, p, e),
         Child(I, p, q) => e.name # Last(q)
  PROVE  EntryOK(t, J, p, e)
<1>1. J[p] = I[p] /\ J[Above(p)] = I[Above(p)] OBVIOUS
<1>2. CASE e.name = "." /\ e.ino = I[p] BY <1>1, <1>2 DEF EntryOK
<1>3. CASE e.name = ".." /\ e.ino = I[Above(p)] BY <1>1, <1>3 DEF EntryOK
<1>4. CASE \E r \in DOMAIN I : /\ Child(I, p, r) /\ Last(r) = e.name /\ e.ino = I[r]
                               /\ e.type = logfs_inode_read(s, e.ino).type
  <2>1. PICK r \in DOMAIN I : /\ Child(I, p, r) /\ Last(r) = e.name /\ e.ino = I[r]
                              /\ e.type = logfs_inode_read(s, e.ino).type
    BY <1>4
  <2>2. r \in DOMAIN J BY <2>1
  <2>3. Child(J, p, r) /\ e.ino = J[r] BY <2>1, <2>2 DEF Child
  <2>4. logfs_inode_read(t, e.ino).type = logfs_inode_read(s, e.ino).type
    BY <2>2, <2>3 DEF SameTypes
  <2> QED BY <2>1, <2>2, <2>3, <2>4 DEF EntryOK
<1> QED BY <1>2, <1>3, <1>4 DEF EntryOK

(* The blocks of the remaining inodes keep their owners and their contents. *)
LEMMA CutOwners ==
  ASSUME NEW s, NEW I, NEW q, NEW x, CutReady(s, I, q, x), NEW J, IsCut(I, J, q),
         NEW t, CutKeeps(s, t, I, J, q, x)
  PROVE  /\ Owners(t, J)
         /\ \A p \in DOMAIN J, k \in Ks : p # Front(q) /\ Ptr(s, J[p], k) # 0 =>
              R(t, Ptr(s, J[p], k)) = R(s, Ptr(s, J[p], k))
<1> DEFINE par == Front(q)
           in == logfs_inode_read(s, I[par])
           b == in.blocks[x[1]]
<1>1. /\ par \in DOMAIN J /\ IsDir(s, I[par])
      /\ \A p \in DOMAIN J : p \in DOMAIN I /\ p # q /\ J[p] = I[p]
  BY CutOthers
<1>2. StorageOK(s) /\ Sound(s, I) /\ q \in DOMAIN I /\ x \in Used(s, in) BY DEF CutReady
<1>3. \A p \in DOMAIN I, k \in Ks : Owner(s, I, p, k) BY <1>2 DEF Sound, Owners
<1>4. x[1] \in Ks /\ b # 0 /\ b = Ptr(s, I[par], x[1]) BY <1>2, SlotFacts DEF Used, Ptr
<1>5. /\ \A p \in DOMAIN J : /\ logfs_inode_read(t, J[p]).type = logfs_inode_read(s, J[p]).type
                             /\ \A k \in Ks : Ptr(t, J[p], k) = Ptr(s, J[p], k)
      /\ R(t, b).kind = "dir" /\ \A y \in DataBlocks \ {b} : R(t, y) = R(s, y)
      /\ \A y \in BB(s) : (\E k \in Ks : Ptr(s, I[q], k) = y) \/ y \in BB(t)
  BY DEF CutKeeps, Cleared, Ptr
<1>6. BB(s) \subseteq DataBlocks BY <1>2, BitmapsTyped
<1> HIDE DEF par, b, in
<1>7. ASSUME NEW p \in DOMAIN J, NEW k \in Ks, Ptr(s, J[p], k) # 0
      PROVE  /\ Ptr(s, J[p], k) \in BB(t)
             /\ p # par => R(t, Ptr(s, J[p], k)) = R(s, Ptr(s, J[p], k))
             /\ R(t, Ptr(s, J[p], k)).kind = logfs_inode_read(t, J[p]).type
             /\ \A r \in DOMAIN J, j \in Ks : Ptr(t, J[r], j) = Ptr(s, J[p], k) => r = p /\ j = k
  <2> DEFINE y == Ptr(s, J[p], k)
  <2>1. p \in DOMAIN I /\ p # q /\ y = Ptr(s, I[p], k) /\ y # 0 BY <1>1, <1>7
  <2>2. /\ y \in BB(s) /\ R(s, y).kind = logfs_inode_read(s, I[p]).type
        /\ \A r \in DOMAIN I, j \in Ks : Ptr(s, I[r], j) = y => r = p /\ j = k
    <3>1. Owner(s, I, p, k) BY <1>3, <2>1
    <3> QED BY <2>1, <3>1 DEF Owner
  <2> HIDE DEF y
  <2>3. y \in BB(t) BY <1>2, <1>5, <2>1, <2>2
  <2>4. p # par => y # b BY <1>1, <1>4, <2>2
  <2>5. p # par => R(t, y) = R(s, y) BY <1>5, <1>6, <2>2, <2>4
  <2>6. R(t, y).kind = logfs_inode_read(t, J[p]).type
    <3>1. CASE y = b
      <4>1. p = par BY <2>4, <3>1
      <4> QED BY <1>1, <1>5, <3>1, <4>1 DEF IsDir
    <3>2. CASE y # b
      <4>1. R(t, y) = R(s, y) BY <1>5, <1>6, <2>2, <3>2
      <4> QED BY <1>1, <1>5, <2>2, <4>1
    <3> QED BY <3>1, <3>2
  <2>7. \A r \in DOMAIN J, j \in Ks : Ptr(t, J[r], j) = y => r = p /\ j = k
    BY <1>1, <1>5, <2>2
  <2> QED BY <2>3, <2>5, <2>6, <2>7 DEF y
<1>8. ASSUME NEW p \in DOMAIN J, NEW k \in Ks PROVE Owner(t, J, p, k)
  BY <1>5, <1>7 DEF Owner
<1> QED BY <1>7, <1>8 DEF Owners, par

(* Without q the tree is sound.                                             *)
LEMMA CutSound ==
  ASSUME NEW s, NEW I, NEW q, NEW x, CutReady(s, I, q, x), NEW J, IsCut(I, J, q),
         NEW t, CutKeeps(s, t, I, J, q, x)
  PROVE  Sound(t, J)
<1> DEFINE par == Front(q)
<1>1. /\ par \in DOMAIN J /\ IsDir(s, I[par]) /\ Naming(I) /\ Naming(J) /\ q \in Paths
      /\ \A p \in DOMAIN J : p \in DOMAIN I /\ p # q /\ J[p] = I[p] /\ Above(p) \in DOMAIN J
  BY CutOthers
<1>2. /\ Owners(t, J)
      /\ \A p \in DOMAIN J, k \in Ks : p # par /\ Ptr(s, J[p], k) # 0 =>
           R(t, Ptr(s, J[p], k)) = R(s, Ptr(s, J[p], k))
  BY CutOwners
<1>3. /\ StorageOK(s) /\ Sound(s, I) /\ q \in DOMAIN I /\ q # <<>>
      /\ x \in Used(s, logfs_inode_read(s, I[par]))
      /\ Entry(s, logfs_inode_read(s, I[par]), x).name = Last(q)
  BY DEF CutReady
<1>4. \A p \in DOMAIN J :
        /\ logfs_inode_read(t, J[p]).type = logfs_inode_read(s, J[p]).type
        /\ logfs_inode_read(t, J[p]).size = logfs_inode_read(s, J[p]).size
        /\ logfs_inode_read(t, J[p]).blocks = logfs_inode_read(s, J[p]).blocks
  BY DEF CutKeeps
<1>5. SameTypes(s, t, J) BY <1>4 DEF SameTypes
<1>6. \A r \in DOMAIN I : r = q \/ r \in DOMAIN J BY DEF IsCut
<1>7. Placed(t, J)
  <2> SUFFICES ASSUME NEW p \in DOMAIN J
               PROVE  /\ Above(p) \in DOMAIN J /\ IsDir(t, J[Above(p)])
                      /\ J[p] \in IB(t) /\ logfs_inode_read(t, J[p]).type \in {"dir", "file"}
    BY DEF Placed
  <2>1. p \in DOMAIN I /\ p # q /\ J[p] = I[p] /\ Above(p) \in DOMAIN J /\ J[Above(p)] = I[Above(p)]
    BY <1>1
  <2>2. IsDir(s, I[Above(p)]) /\ I[p] \in IB(s) /\ logfs_inode_read(s, I[p]).type \in {"dir", "file"}
    BY <1>3, <2>1 DEF Sound, Placed
  <2>3. I[p] # I[q] BY <1>1, <1>3, <2>1 DEF Naming
  <2>4. I[p] \in IB(t) BY <2>2, <2>3 DEF CutKeeps
  <2> QED BY <1>4, <2>1, <2>2, <2>4 DEF IsDir
<1>8. ASSUME NEW p \in DOMAIN J, IsDir(t, J[p]) PROVE Listed(t, J, p)
  <2> DEFINE in == logfs_inode_read(s, I[p])
             jn == logfs_inode_read(t, J[p])
  <2>1. p \in DOMAIN I /\ J[p] = I[p] /\ IsDir(s, I[p]) BY <1>1, <1>4, <1>8 DEF IsDir
  <2>2. Listed(s, I, p) BY <1>3, <2>1 DEF Sound
  <2>3. /\ Filled(in) /\ OneEach(s, in)
        /\ \A y \in Used(s, in) : EntryOK(s, I, p, Entry(s, in, y))
        /\ HasName(s, in, ".") /\ HasName(s, in, "..")
        /\ \A r : Child(I, p, r) => HasName(s, in, Last(r))
    BY <2>2 DEF Listed
  <2>4. jn.blocks = in.blocks /\ jn.size = in.size BY <1>4, <2>1
  <2>5. Filled(jn) BY <2>3, <2>4 DEF Filled
  <2>6. \A r : Child(J, p, r) => Child(I, p, r) /\ r # q BY <1>1 DEF Child
  <2>7. CASE p # par
    <3> HIDE DEF in, jn
    <3>1. \A k \in Ks : in.blocks[k] # 0 => R(t, in.blocks[k]) = R(s, in.blocks[k])
      BY <1>2, <2>1, <2>7 DEF Ptr, in
    <3>2. /\ \A y \in Slots(in) : Entry(t, jn, y) = Entry(s, in, y)
          /\ Used(t, jn) = Used(s, in) /\ OneEach(t, jn) = OneEach(s, in)
          /\ \A name : HasName(t, jn, name) = HasName(s, in, name)
      BY <2>4, <3>1, SameEntries
    <3>3. ASSUME NEW y \in Used(t, jn) PROVE EntryOK(t, J, p, Entry(t, jn, y))
      <4>1. y \in Used(s, in) /\ Entry(t, jn, y) = Entry(s, in, y) BY <3>2, <3>3 DEF Used
      <4>2. EntryOK(s, I, p, Entry(t, jn, y)) BY <2>3, <4>1
      <4>3. ~Child(I, p, q) BY <2>7 DEF Child
      <4> HIDE DEF par
      <4> QED BY <1>1, <1>5, <1>6, <4>2, <4>3, CutEntry
    <3>4. \A r : Child(J, p, r) => HasName(t, jn, Last(r)) BY <2>3, <2>6, <3>2
    <3>5. OneEach(t, jn) /\ HasName(t, jn, ".") /\ HasName(t, jn, "..") BY <2>3, <3>2
    <3> QED BY <2>5, <3>3, <3>4, <3>5 DEF Listed, jn
  <2>8. CASE p = par
    <3>1. in \in Inode BY <1>1, <1>3, <2>1, InodeTyped DEF Naming
    <3>2. Injective(in) BY <1>3, <2>1, SoundGoodDir DEF GoodDir
    <3>3. Cleared(s, t, in, x) /\ x \in Used(s, in) /\ Entry(s, in, x).name = Last(q)
      BY <1>3, <2>8 DEF CutKeeps
    <3> HIDE DEF in, jn
    <3>4. /\ \A y \in Used(t, jn) : y \in Used(s, in) /\ y # x /\ Entry(t, jn, y) = Entry(s, in, y)
          /\ \A y \in Used(s, in) \ {x} : y \in Used(t, jn) /\ Entry(t, jn, y) = Entry(s, in, y)
          /\ OneEach(t, jn)
      BY <1>3, <2>3, <2>4, <3>1, <3>2, <3>3, CutSlots
    <3>5. ASSUME NEW y \in Used(t, jn) PROVE EntryOK(t, J, p, Entry(t, jn, y))
      <4>1. y \in Used(s, in) /\ y # x /\ Entry(t, jn, y) = Entry(s, in, y) BY <3>4
      <4>2. EntryOK(s, I, p, Entry(t, jn, y)) BY <2>3, <4>1
      <4>3. Entry(t, jn, y).name # Last(q) BY <2>3, <3>3, <4>1 DEF OneEach
      <4> HIDE DEF par
      <4> QED BY <1>1, <1>5, <1>6, <4>2, <4>3, CutEntry
    <3>6. ASSUME NEW name, name # Last(q), HasName(s, in, name) PROVE HasName(t, jn, name)
      <4>1. PICK y \in Used(s, in) : Entry(s, in, y).name = name BY <3>6 DEF HasName
      <4>2. y # x BY <3>3, <3>6, <4>1
      <4> QED BY <3>4, <4>1, <4>2 DEF HasName
    <3>7. HasName(t, jn, ".") /\ HasName(t, jn, "..")
      <4>1. Last(q) \notin {".", ".."} BY <1>1, PathFacts
      <4> QED BY <2>3, <3>6, <4>1
    <3>8. ASSUME NEW r, Child(J, p, r) PROVE HasName(t, jn, Last(r))
      <4>1. Child(I, p, r) /\ r # q BY <2>6, <3>8
      <4>2. r \in Paths /\ r # <<>> /\ Front(r) = Front(q) BY <1>1, <2>8, <4>1 DEF Child, Naming
      <4>3. r \in Seq(Names) /\ q \in Seq(Names) BY <1>1, <4>2, PathFacts
      <4>4. Last(r) # Last(q) BY <1>3, <4>1, <4>2, <4>3, FrontLastUnique
      <4> QED BY <2>3, <3>6, <4>1, <4>4
    <3> QED BY <2>5, <3>4, <3>5, <3>7, <3>8 DEF Listed, jn
  <2> QED BY <2>7, <2>8
<1> QED BY <1>1, <1>2, <1>7, <1>8 DEF Sound

(* Nothing is leaked if the inode and its blocks were freed.                *)
LEMMA CutTight ==
  ASSUME NEW s, NEW I, NEW q, NEW x, CutReady(s, I, q, x), NEW J, IsCut(I, J, q),
         NEW t, CutKeeps(s, t, I, J, q, x), Tight(s, I),
         IB(t) \subseteq IB(s) \ {I[q]}, BB(t) \subseteq BB(s),
         \A b \in BB(t), k \in Ks : Ptr(s, I[q], k) # b
  PROVE  Tight(t, J)
<1>1. \A p \in DOMAIN J : p \in DOMAIN I /\ J[p] = I[p] BY CutOthers
<1>2. \A r \in DOMAIN I : r = q \/ r \in DOMAIN J BY DEF IsCut
<1>3. \A p \in DOMAIN J, k \in Ks : Ptr(t, J[p], k) = Ptr(s, J[p], k) BY DEF CutKeeps, Ptr
<1>4. ASSUME NEW ino \in IB(t) PROVE \E p \in DOMAIN J : J[p] = ino
  <2>1. PICK p \in DOMAIN I : I[p] = ino BY <1>4 DEF Tight
  <2> QED BY <1>1, <1>2, <2>1
<1>5. ASSUME NEW b \in BB(t) PROVE \E p \in DOMAIN J, k \in Ks : Ptr(t, J[p], k) = b
  <2>1. PICK p \in DOMAIN I, k \in Ks : Ptr(s, I[p], k) = b BY <1>5 DEF Tight
  <2> QED BY <1>1, <1>2, <1>3, <2>1
<1> QED BY <1>4, <1>5 DEF Tight

(* The link counts after a name has gone: one less for the parent of a      *)
(* directory.                                                               *)
LEMMA LinkedCut ==
  ASSUME NEW s, NEW t, NEW I, NEW q, NEW x, CutReady(s, I, q, x), Linked(s, I),
         NEW J, IsCut(I, J, q), SameTypes(s, t, J),
         \A p \in DOMAIN J : logfs_inode_read(t, J[p]).nlink =
            IF p = Front(q) /\ IsDir(s, I[q]) THEN logfs_inode_read(s, J[p]).nlink - 1
            ELSE logfs_inode_read(s, J[p]).nlink
  PROVE  Linked(t, J)
<1>1. /\ Naming(I) /\ q \in DOMAIN I /\ q # <<>>
      /\ \A p \in DOMAIN J : p \in DOMAIN I /\ p # q /\ J[p] = I[p]
  <2>1. q \in DOMAIN I /\ q # <<>> BY DEF CutReady
  <2>2. /\ Naming(I)
        /\ \A p \in DOMAIN J : p \in DOMAIN I /\ p # q /\ J[p] = I[p] /\ Above(p) \in DOMAIN J
    BY CutOthers
  <2> QED BY <2>1, <2>2
<1>2. \A r \in DOMAIN I : r = q \/ r \in DOMAIN J BY DEF IsCut
<1>3. \A p \in DOMAIN J : IsDir(t, J[p]) = IsDir(s, I[p]) BY <1>1 DEF SameTypes, IsDir
<1>4. ASSUME NEW p \in DOMAIN J PROVE logfs_inode_read(t, J[p]).nlink = LinkCount(t, J, p)
  <2> DEFINE S == Subdirs(s, I, p)
  <2>1. logfs_inode_read(s, I[p]).nlink = IF IsDir(s, I[p]) THEN 2 + Cardinality(S) ELSE 1
    BY <1>1 DEF Linked, LinkCount
  <2>2. IsFiniteSet(S) /\ Cardinality(S) \in Nat BY <1>1, FiniteNaming
  <2>3. J[p] = I[p] /\ IsDir(t, J[p]) = IsDir(s, I[p]) BY <1>1, <1>3
  <2>4. CASE p = Front(q) /\ IsDir(s, I[q])
    <3>1. Subdirs(t, J, p) = S \ {q} BY <1>1, <1>2, <1>3 DEF Subdirs, Child
    <3>2. q \in S BY <1>1, <2>4 DEF Subdirs, Child
    <3> HIDE DEF S
    <3>3. Cardinality(S \ {q}) = Cardinality(S) - 1 BY <2>2, <3>2, FS_RemoveElement
    <3>4. logfs_inode_read(t, J[p]).nlink = logfs_inode_read(s, J[p]).nlink - 1 BY <2>4
    <3>5. CASE IsDir(s, I[p]) BY <2>1, <2>2, <2>3, <3>1, <3>3, <3>4, <3>5 DEF LinkCount
    <3>6. IsDir(s, I[p])
      <4>1. Above(q) = Front(q) BY <1>1 DEF Above
      <4> QED BY <1>1, <2>4, <4>1 DEF CutReady, Sound, Placed
    <3> QED BY <3>5, <3>6
  <2>5. CASE ~(p = Front(q) /\ IsDir(s, I[q]))
    <3>1. Subdirs(t, J, p) = S BY <1>1, <1>2, <1>3, <2>5 DEF Subdirs, Child
    <3>2. logfs_inode_read(t, J[p]).nlink = logfs_inode_read(s, J[p]).nlink BY <2>5
    <3> HIDE DEF S
    <3> QED BY <2>1, <2>3, <3>1, <3>2 DEF LinkCount
  <2> QED BY <2>4, <2>5
<1> QED BY <1>4 DEF Linked

(* From s to t the blocks of in from index keep + 1 on are free.            *)
Truncated(s, t, in, keep) ==
  /\ Within(s, t, {block_bitmap_start}) /\ OnlyEIO(s, t)
  /\ t.rc = "ok" => /\ s.rc = "ok" /\ \A b \in BB(t) : b \in BB(s)
                    /\ \A b \in BB(s) : b \in BB(t) <=> \A k \in Ks : k > keep => in.blocks[k] # b

(* truncate_blocks does that.                                               *)
LEMMA TruncateBlocks ==
  ASSUME NEW s, StorageOK(s), NEW in \in Inode, NEW keep \in Nat
  PROVE  Truncated(s, truncate_blocks(s, in, keep), in, keep)
<1> DEFINE S == {in.blocks[k] : k \in keep + 1 .. NDirBlocks} \ {0}
           t == truncate_blocks(s, in, keep)
<1>1. \A k : k \in keep + 1 .. NDirBlocks <=> k \in Ks /\ k > keep BY FileSystemAssumption DEF Ks
<1>2. S \in SUBSET DataBlocks BY <1>1, InodeBlocks
<1>3. t = logfs_free_block(s, S) BY DEF truncate_blocks
<1>4. \A b : b \in S <=> b # 0 /\ \E k \in Ks : k > keep /\ in.blocks[k] = b BY <1>1
<1> HIDE DEF S, t
<1>5. /\ Within(s, t, {block_bitmap_start}) /\ OnlyEIO(s, t)
      /\ t.rc = "ok" => s.rc = "ok" /\ BB(t) = BB(s) \ S
  BY <1>2, <1>3, FreeBlocks
<1>6. 0 \notin BB(s) BY BitmapsTyped, Layout
<1>7. Truncated(s, t, in, keep) BY <1>4, <1>5, <1>6 DEF Truncated
<1> QED BY <1>7 DEF t

(* From s to t inode ino is free.                                           *)
FreedInode(s, t, ino) ==
  /\ Within(s, t, {inode_bitmap_start}) /\ OnlyEIO(s, t)
  /\ t.rc = "ok" => s.rc = "ok" /\ IB(t) = IB(s) \ {ino}

(* logfs_free_inode does that.                                              *)
LEMMA InodeFreed ==
  ASSUME NEW s, StorageOK(s), NEW ino \in Inodes
  PROVE  FreedInode(s, logfs_free_inode(s, ino), ino)
<1>1. ASSUME NEW t, t = logfs_free_inode(s, ino) PROVE FreedInode(s, t, ino)
  BY <1>1, FreeInode DEF FreedInode
<1> QED BY <1>1

(* Inode ino and its blocks are freed, or some of it before an error. *)
Shed(s, t, in, ino) ==
  /\ Stable(s, t) /\ OnlyEIO(s, t) /\ \A B : Stages(s, t, B)
  /\ \A j : logfs_inode_read(t, j) = logfs_inode_read(s, j)
  /\ \A b \in DataBlocks : R(t, b) = R(s, b)
  /\ IB(t) \subseteq IB(s) /\ \A j \in IB(s) : j = ino \/ j \in IB(t)
  /\ BB(t) \subseteq BB(s) /\ \A b \in BB(s) : (\E k \in Ks : in.blocks[k] = b) \/ b \in BB(t)
  /\ s.rc # "ok" => t = s
  /\ t.rc = "ok" => s.rc = "ok" /\ ino \notin IB(t) /\ \A b \in BB(t), k \in Ks : in.blocks[k] # b

(* truncate_blocks and logfs_free_inode, one after the other.               *)
LEMMA Sheds ==
  ASSUME NEW s, StorageOK(s), NEW in \in Inode, NEW ino \in Inodes
  PROVE  Shed(s, logfs_free_inode(truncate_blocks(s, in, 0), ino), in, ino)
<1> DEFINE a == truncate_blocks(s, in, 0)
           t == logfs_free_inode(a, ino)
<1>1. Truncated(s, a, in, 0) BY TruncateBlocks
<1> HIDE DEF a
<1>2. /\ \A j : logfs_inode_read(a, j) = logfs_inode_read(s, j)
      /\ \A x \in DataBlocks : R(a, x) = R(s, x)
      /\ IB(a) = IB(s) /\ (\A B : Stages(s, a, B)) /\ Stable(s, a)
  BY <1>1, WithinBitmap DEF Truncated
<1>3. StorageOK(a) BY <1>2 DEF Stable
<1>4. FreedInode(a, t, ino) BY <1>3, InodeFreed
<1> HIDE DEF t
<1>5. /\ \A j : logfs_inode_read(t, j) = logfs_inode_read(a, j)
      /\ \A x \in DataBlocks : R(t, x) = R(a, x)
      /\ BB(t) = BB(a) /\ (\A B : Stages(a, t, B)) /\ Stable(a, t)
  BY <1>4, WithinBitmap DEF FreedInode
<1>6. Stable(s, t) /\ (\A B : Stages(s, t, B)) BY <1>2, <1>5, StagesTrans DEF Stable
<1>7. OnlyEIO(s, t) BY <1>1, <1>4 DEF Truncated, FreedInode, OnlyEIO
<1>8. s.rc # "ok" => t = s BY <1>1, <1>4 DEF Truncated, FreedInode, Within
<1>9. \A k \in Ks : k > 0 BY FileSystemAssumption DEF Ks
<1>10. /\ a.rc = "ok" => /\ \A b \in BB(a) : b \in BB(s)
                         /\ \A b \in BB(s) : b \in BB(a) <=> \A k \in Ks : in.blocks[k] # b
       /\ a.rc # "ok" => BB(a) = BB(s)
  BY <1>1, <1>9, SameReadsExtend DEF Truncated, Within
<1>11. /\ BB(t) \subseteq BB(s) /\ \A b \in BB(s) : (\E k \in Ks : in.blocks[k] = b) \/ b \in BB(t)
       /\ t.rc = "ok" => \A b \in BB(t), k \in Ks : in.blocks[k] # b
  <2>1. t.rc = "ok" => a.rc = "ok" BY <1>4 DEF FreedInode
  <2> QED BY <1>5, <1>10, <2>1
<1>12. /\ IB(t) \subseteq IB(s) /\ \A j \in IB(s) : j = ino \/ j \in IB(t)
       /\ t.rc = "ok" => ino \notin IB(t)
  <2>1. t.rc # "ok" => IB(t) = IB(a) BY <1>3, <1>4, SameReadsExtend DEF FreedInode, Within
  <2>2. t.rc = "ok" => IB(t) = IB(a) \ {ino} BY <1>4 DEF FreedInode
  <2> QED BY <1>2, <2>1, <2>2
<1>13. t.rc = "ok" => s.rc = "ok" BY <1>1, <1>4 DEF Truncated, FreedInode
<1>14. /\ \A j : logfs_inode_read(t, j) = logfs_inode_read(s, j)
       /\ \A b \in DataBlocks : R(t, b) = R(s, b)
  BY <1>2, <1>5
<1>15. Shed(s, t, in, ino) BY <1>6, <1>7, <1>8, <1>11, <1>12, <1>13, <1>14 DEF Shed
<1> QED BY <1>15 DEF t, a
-----------------------------------------------------------------------------
(* A path that is found has a parent directory with an entry for it, of its *)
(* inode and type.                                                          *)
LEMMA FoundPath ==
  ASSUME NEW s, NEW I, Sound(s, I), NEW q \in Paths, logfs_path_lookup(s, q) # 0
  PROVE  /\ q \in DOMAIN I /\ q # <<>> /\ I[q] = logfs_path_lookup(s, q) /\ I[q] \in Inodes
         /\ Front(q) \in DOMAIN I /\ IsDir(s, I[Front(q)]) /\ I[Front(q)] \in Inodes
         /\ logfs_path_lookup(s, Front(q)) = I[Front(q)]
         /\ logfs_dir_lookup(s, I[Front(q)], Last(q)).ino = I[q]
         /\ logfs_dir_lookup(s, I[Front(q)], Last(q)).type = logfs_inode_read(s, I[q]).type
         /\ HasName(s, logfs_inode_read(s, I[Front(q)]), Last(q))
<1>1. Naming(I) /\ Placed(s, I) BY DEF Sound
<1>2. q \in Seq(Names) /\ q # <<>> /\ Front(q) \in Seq(Names) BY PathFacts
<1>3. logfs_path_lookup(s, q) = IF q \in DOMAIN I THEN I[q] ELSE 0 BY <1>2, PathLookup
<1>4. q \in DOMAIN I /\ I[q] = logfs_path_lookup(s, q) /\ I[q] \in Inodes BY <1>1, <1>3 DEF Naming
<1>5. Front(q) \in DOMAIN I /\ IsDir(s, I[Front(q)]) BY <1>1, <1>2, <1>4 DEF Placed, Above
<1>6. logfs_path_lookup(s, Front(q)) = I[Front(q)] /\ I[Front(q)] \in Inodes
  BY <1>1, <1>2, <1>5, PathLookup DEF Naming
<1>7. Child(I, Front(q), q) BY <1>2, <1>4 DEF Child
<1>8. LET e == logfs_dir_lookup(s, I[Front(q)], Last(q))
      IN  e.ino = I[q] /\ e.type = logfs_inode_read(s, I[q]).type
  BY <1>5, <1>7, DirLookup
<1>9. HasName(s, logfs_inode_read(s, I[Front(q)]), Last(q)) BY <1>5, <1>7 DEF Sound, Listed
<1> QED BY <1>2, <1>4, <1>5, <1>6, <1>8, <1>9

(* Nothing is named below a file.                                           *)
LEMMA FileChildless ==
  ASSUME NEW s, NEW I, Sound(s, I), NEW q \in DOMAIN I, ~IsDir(s, I[q])
  PROVE  Childless(I, q)
<1> SUFFICES ASSUME NEW r, Child(I, q, r) PROVE FALSE BY DEF Childless
<1>1. r \in DOMAIN I /\ Above(r) = q BY DEF Child, Above
<1> QED BY <1>1 DEF Sound, Placed

(* Nothing is named below a directory that logfs_dir_is_empty calls empty.  *)
LEMMA EmptyChildless ==
  ASSUME NEW s, NEW I, Sound(s, I), NEW q \in DOMAIN I, IsDir(s, I[q]),
         logfs_dir_is_empty(s, I[q])
  PROVE  Childless(I, q)
<1> SUFFICES ASSUME NEW r, Child(I, q, r) PROVE FALSE BY DEF Childless
<1> DEFINE in == logfs_inode_read(s, I[q])
<1>1. HasName(s, in, Last(r)) BY DEF Sound, Listed
<1>2. PICK x \in Slots(in) : Entry(s, in, x).ino # 0 /\ Entry(s, in, x).name = Last(r)
  BY <1>1 DEF HasName, Used
<1>3. Last(r) \in {".", ".."} BY <1>2 DEF logfs_dir_is_empty
<1>4. r \in Paths BY DEF Sound, Naming, Child
<1> QED BY <1>3, <1>4, PathFacts

(* Dropping a name keeps the files other than its own. *)
LEMMA KeptCut ==
  ASSUME NEW s, NEW I, NEW q, NEW x, CutReady(s, I, q, x), NEW J, IsCut(I, J, q),
         NEW t, CutKeeps(s, t, I, J, q, x), Stages(s, t, DirArea(s, I, Front(q)))
  PROVE  Kept(s, t, I, J, {I[q]})
<1>1. /\ Front(q) \in DOMAIN J /\ IsDir(s, I[Front(q)])
      /\ \A p \in DOMAIN J : p \in DOMAIN I /\ p # q /\ J[p] = I[p]
  BY CutOthers
<1>2. \A p \in DOMAIN J :
        /\ logfs_inode_read(t, J[p]).type = logfs_inode_read(s, J[p]).type
        /\ logfs_inode_read(t, J[p]).blocks = logfs_inode_read(s, J[p]).blocks
  BY DEF CutKeeps
<1>3. \A b \in DataBlocks : IsFileBlock(t, J, b) => IsFileBlock(s, I, b)
  BY <1>1, <1>2 DEF IsFileBlock, Ptr
<1>4. \A ino : LiveFile(s, I, ino) /\ ino \notin {I[q]} => LiveFile(t, J, ino)
  <2>1. \A r \in DOMAIN I : r = q \/ r \in DOMAIN J BY DEF IsCut
  <2> QED BY <1>1, <1>2, <2>1 DEF LiveFile
<1>5. \A b \in DataBlocks : IsFileBlock(s, I, b) /\ b \in DOMAIN t.staged => b \in DOMAIN s.staged
  <2>1. Sound(s, I) /\ Front(q) \in DOMAIN I BY <1>1 DEF CutReady
  <2> QED BY <1>1, <2>1, AreaNotFile
<1> QED BY <1>3, <1>4, <1>5 DEF Kept

(* The other paths show the same. *)
LEMMA CutNodes ==
  ASSUME NEW s, NEW I, NEW q, NEW x, CutReady(s, I, q, x), NEW J, IsCut(I, J, q),
         NEW t, CutKeeps(s, t, I, J, q, x)
  PROVE  SameNodes(s, t, J)
<1>1. /\ Front(q) \in DOMAIN J /\ IsDir(s, I[Front(q)])
      /\ \A p \in DOMAIN J : p \in DOMAIN I /\ p # q /\ J[p] = I[p]
  BY CutOthers
<1>2. \A p \in DOMAIN J, k \in Ks : p # Front(q) /\ Ptr(s, J[p], k) # 0 =>
        R(t, Ptr(s, J[p], k)) = R(s, Ptr(s, J[p], k))
  BY CutOwners
<1> SUFFICES ASSUME NEW p \in DOMAIN J PROVE SameNode(s, t, J[p]) BY DEF SameNodes
<1>3. /\ logfs_inode_read(t, J[p]).type = logfs_inode_read(s, J[p]).type
      /\ logfs_inode_read(t, J[p]).size = logfs_inode_read(s, J[p]).size
      /\ logfs_inode_read(t, J[p]).blocks = logfs_inode_read(s, J[p]).blocks
  BY DEF CutKeeps
<1>4. CASE p = Front(q) BY <1>1, <1>3, <1>4 DEF SameNode, IsDir
<1>5. CASE p # Front(q) BY <1>2, <1>3, <1>5 DEF SameNode, Ptr
<1> QED BY <1>4, <1>5

(* logfs_op_unlink makes a consistent tree without the file; if it fails,   *)
(* the old or the new tree is intact, with a leak perhaps (the entry goes   *)
(* first).                                                                  *)
LEMMA UnlinkOp ==
  ASSUME NEW s, StorageOK(s), s.rc = "ok", NEW I, NEW lk \in BOOLEAN, Consistent(s, I, lk),
         NEW q \in Paths, logfs_inode_read(s, logfs_path_lookup(s, q)).type = "file",
         NEW t, t = logfs_op_unlink(s, q)
  PROVE  \E J : /\ OpOK(s, t, I, J, lk \/ t.rc # "ok", {logfs_path_lookup(s, q)})
                /\ SameNodes(s, t, J)
                /\ J = I \/ (IsCut(I, J, q) /\ Childless(I, q))
<1> DEFINE ino == logfs_path_lookup(s, q)
           in == logfs_inode_read(s, ino)
           par == Front(q)
           pin == logfs_inode_read(s, I[par])
           a == logfs_dir_remove(s, I[par], Last(q))
<1>1. Sound(s, I) /\ Linked(s, I) /\ (lk \/ Tight(s, I)) BY DEF Consistent
<1>2. ino # 0 BY DEF logfs_inode_read, Inodes, NoInode
<1>3. /\ q \in DOMAIN I /\ q # <<>> /\ I[q] = ino /\ ino \in Inodes
      /\ par \in DOMAIN I /\ IsDir(s, I[par]) /\ I[par] \in Inodes
      /\ logfs_path_lookup(s, par) = I[par]
      /\ logfs_dir_lookup(s, I[par], Last(q)).ino = ino
      /\ HasName(s, pin, Last(q))
  BY <1>1, <1>2, FoundPath
<1>4. in.nlink = 1 /\ ~IsDir(s, I[q])
  BY <1>1, <1>3 DEF Linked, LinkCount, IsDir
<1>5. t = logfs_free_inode(truncate_blocks(a, in, 0), ino)
  BY <1>2, <1>3, <1>4 DEF logfs_op_unlink
<1>6. in \in Inode /\ pin.type = "dir" BY <1>3, InodeTyped DEF IsDir
<1>7. PICK x \in Used(s, pin) : Entry(s, pin, x).name = Last(q) /\ Removed(s, a, pin, x)
  BY <1>3, <1>6, DirRemove
<1> DEFINE blk == pin.blocks[x[1]]
<1>8. blk \in DataBlocks /\ x[1] \in Ks /\ blk = Ptr(s, I[par], x[1])
  <2>1. pin \in Inode /\ x \in Slots(pin) BY <1>3, InodeTyped DEF Used
  <2> QED BY <2>1, EntryTyped, SlotFacts DEF Ptr
<1>9. CutReady(s, I, q, x)
  <2>1. Childless(I, q) BY <1>1, <1>3, <1>4, FileChildless
  <2> QED BY <1>1, <1>3, <1>7, <2>1 DEF CutReady
<1> HIDE DEF a
<1>10. /\ \A j : logfs_inode_read(a, j) = logfs_inode_read(s, j)
       /\ IB(a) = IB(s) /\ BB(a) = BB(s) /\ Stages(s, a, DirArea(s, I, par)) /\ Stable(s, a)
  <2>1. blk \in DirArea(s, I, par) BY <1>8 DEF DirArea
  <2>2. Within(s, a, {blk}) BY <1>7 DEF Removed
  <2> HIDE DEF blk, par
  <2> QED BY <1>8, <2>1, <2>2, WithinData
<1>11. StorageOK(a) BY <1>10 DEF Stable
<1>12. Shed(a, t, in, ino)
  <2> HIDE DEF in, ino
  <2> QED BY <1>3, <1>5, <1>6, <1>11, Sheds
<1> HIDE DEF ino, in
<1>13. Stable(s, t) /\ Stages(s, t, DirArea(s, I, par))
  <2>1. Stable(a, t) /\ Stages(a, t, DirArea(s, I, par)) BY <1>12 DEF Shed
  <2> QED BY <1>10, <2>1, StagesTrans DEF Stable
<1>14. CASE a.rc # "ok"
  <2>1. t = a BY <1>12, <1>14 DEF Shed
  <2>2. \A y \in Device : R(t, y) = R(s, y) BY <1>7, <1>14, <2>1 DEF Removed, Within
  <2>3. Extends(s, t) BY <2>2, SameReadsExtend
  <2>4. OpOK(s, t, I, I, TRUE, {}) /\ SameNodes(s, t, I) BY <1>1, <1>3, <1>13, <2>3, ExtendsOp
  <2>5. (lk \/ t.rc # "ok") = TRUE BY <1>14, <2>1
  <2>6. OpOK(s, t, I, I, TRUE, {ino}) BY <2>4 DEF OpOK, Kept
  <2> QED BY <2>4, <2>5, <2>6 DEF ino
<1>15. CASE a.rc = "ok"
  <2>1. PICK J : IsCut(I, J, q) BY CutExists
  <2>2. \A p \in DOMAIN J : J[p] = I[p] BY <2>1 DEF IsCut
  <2>3. /\ \A j : logfs_inode_read(t, j) = logfs_inode_read(s, j)
        /\ \A b \in DataBlocks : R(t, b) = R(a, b)
    BY <1>10, <1>12 DEF Shed
  <2>4. Cleared(s, t, pin, x)
    <3>1. Cleared(s, a, pin, x) BY <1>7, <1>15 DEF Removed
    <3> HIDE DEF pin
    <3> QED BY <1>8, <2>3, <3>1 DEF Cleared
  <2>5. CutKeeps(s, t, I, J, q, x)
    <3>1. \A j \in IB(s) : j = I[q] \/ j \in IB(t) BY <1>3, <1>10, <1>12 DEF Shed
    <3>2. \A k \in Ks : Ptr(s, I[q], k) = in.blocks[k] BY <1>3 DEF Ptr, in
    <3>3. \A b \in BB(s) : (\E k \in Ks : Ptr(s, I[q], k) = b) \/ b \in BB(t)
      BY <1>10, <1>12, <3>2 DEF Shed
    <3> QED BY <2>3, <2>4, <3>1, <3>3 DEF CutKeeps
  <2>6. Sound(t, J) BY <1>9, <2>1, <2>5, CutSound
  <2>7. Linked(t, J)
    <3>1. SameTypes(s, t, J) BY <2>3 DEF SameTypes
    <3>2. \A p \in DOMAIN J : logfs_inode_read(t, J[p]).nlink =
            IF p = Front(q) /\ IsDir(s, I[q]) THEN logfs_inode_read(s, J[p]).nlink - 1
            ELSE logfs_inode_read(s, J[p]).nlink
      BY <1>4, <2>3
    <3> QED BY <1>1, <1>9, <2>1, <3>1, <3>2, LinkedCut
  <2>8. ASSUME t.rc = "ok", Tight(s, I) PROVE Tight(t, J)
    <3>1. \A k \in Ks : Ptr(s, I[q], k) = in.blocks[k] BY <1>3 DEF Ptr, in
    <3>2. IB(t) \subseteq IB(s) \ {I[q]} /\ BB(t) \subseteq BB(s)
      BY <1>3, <1>10, <1>12, <2>8 DEF Shed
    <3>3. \A b \in BB(t), k \in Ks : Ptr(s, I[q], k) # b
      BY <1>12, <2>8, <3>1 DEF Shed
    <3> QED BY <1>9, <2>1, <2>5, <2>8, <3>2, <3>3, CutTight
  <2>9. Consistent(t, J, lk \/ t.rc # "ok") BY <1>1, <2>6, <2>7, <2>8 DEF Consistent
  <2>10. Kept(s, t, I, J, {I[q]}) BY <1>9, <1>13, <2>1, <2>5, KeptCut
  <2>11. OpOK(s, t, I, J, lk \/ t.rc # "ok", {logfs_path_lookup(s, q)})
    BY <1>3, <1>13, <2>9, <2>10 DEF OpOK, ino
  <2>12. SameNodes(s, t, J) BY <1>9, <2>1, <2>5, CutNodes
  <2>13. Childless(I, q) BY <1>9 DEF CutReady
  <2> QED BY <2>1, <2>11, <2>12, <2>13
<1> QED BY <1>14, <1>15

(* What rmdir of q leaves, when no call in it fails.                        *)
RmdirDone(s, t, I, lk, q) ==
  /\ t.rc = "ok" => \E J : OpOK(s, t, I, J, lk, {}) /\ IsCut(I, J, q) /\ SameNodes(s, t, J)
  /\ t.rc \in {"ok", "EIO"}

(* logfs_op_rmdir after its checks.                                         *)
LEMMA RmdirBody ==
  ASSUME NEW s, StorageOK(s), s.rc = "ok", NEW I, NEW lk \in BOOLEAN, Consistent(s, I, lk),
         NEW q \in Paths, logfs_path_lookup(s, q) # 0, IsDir(s, I[q]), Childless(I, q),
         NEW b, Shed(s, b, logfs_inode_read(s, I[q]), I[q]),
         NEW c, c = logfs_dir_remove(b, I[Front(q)], Last(q)),
         NEW t, t = IF c.rc # "ok" THEN c ELSE AddLinks(c, I[Front(q)], -1)
  PROVE  RmdirDone(s, t, I, lk, q)
<1> SUFFICES /\ t.rc = "ok" => \E J : OpOK(s, t, I, J, lk, {}) /\ IsCut(I, J, q) /\ SameNodes(s, t, J)
             /\ t.rc \in {"ok", "EIO"}
  BY DEF RmdirDone
<1> DEFINE ino == I[q]
           in == logfs_inode_read(s, ino)
           par == Front(q)
           pin == logfs_inode_read(s, I[par])
<1>1. Sound(s, I) /\ Linked(s, I) /\ (lk \/ Tight(s, I)) BY DEF Consistent
<1>2. /\ q \in DOMAIN I /\ q # <<>> /\ ino \in Inodes
      /\ par \in DOMAIN I /\ IsDir(s, I[par]) /\ I[par] \in Inodes
      /\ HasName(s, pin, Last(q))
  BY <1>1, FoundPath
<1>3. pin \in Inode /\ pin.type = "dir" BY <1>2, InodeTyped DEF IsDir
<1>4. /\ Stable(s, b) /\ OnlyEIO(s, b) /\ (\A B : Stages(s, b, B))
      /\ \A j : logfs_inode_read(b, j) = logfs_inode_read(s, j)
      /\ \A y \in DataBlocks : R(b, y) = R(s, y)
      /\ IB(b) \subseteq IB(s) /\ \A j \in IB(s) : j = ino \/ j \in IB(b)
      /\ BB(b) \subseteq BB(s) /\ \A y \in BB(s) : (\E k \in Ks : in.blocks[k] = y) \/ y \in BB(b)
      /\ b.rc = "ok" => ino \notin IB(b) /\ \A y \in BB(b), k \in Ks : in.blocks[k] # y
  BY DEF Shed
<1>5. pin = logfs_inode_read(b, I[par]) /\ StorageOK(b) BY <1>4 DEF Stable
<1> HIDE DEF pin
<1>6. /\ \A y \in Slots(pin) : Entry(b, pin, y) = Entry(s, pin, y)
      /\ Used(b, pin) = Used(s, pin)
      /\ HasName(b, pin, Last(q)) = HasName(s, pin, Last(q))
  <2>1. \A k \in Ks : pin.blocks[k] # 0 => R(b, pin.blocks[k]) = R(s, pin.blocks[k])
    BY <1>3, <1>4, InodeBlocks
  <2> QED BY <2>1, SameEntries
<1>7. PICK x \in Used(b, pin) : Entry(b, pin, x).name = Last(q) /\ Removed(b, c, pin, x)
  <2>1. HasName(b, pin, Last(q)) BY <1>2, <1>6
  <2> QED BY <1>2, <1>3, <1>5, <2>1, DirRemove
<1>8. x \in Used(s, pin) /\ x \in Slots(pin) /\ Entry(s, pin, x).name = Last(q)
      /\ Entry(s, pin, x) = Entry(b, pin, x)
  BY <1>6, <1>7 DEF Used
<1> DEFINE blk == pin.blocks[x[1]]
<1>9. blk \in DataBlocks /\ x[1] \in Ks /\ blk = Ptr(s, I[par], x[1])
  BY <1>3, <1>8, EntryTyped, SlotFacts DEF Ptr, pin
<1>10. CutReady(s, I, q, x) BY <1>1, <1>2, <1>8 DEF CutReady, pin
<1>11. /\ \A j : logfs_inode_read(c, j) = logfs_inode_read(b, j)
       /\ IB(c) = IB(b) /\ BB(c) = BB(b) /\ Stages(b, c, DirArea(s, I, par)) /\ Stable(b, c)
       /\ \A y \in DataBlocks \ {blk} : R(c, y) = R(b, y)
  <2>1. blk \in DirArea(s, I, par) BY <1>9 DEF DirArea
  <2>2. Within(b, c, {blk}) BY <1>7 DEF Removed
  <2> HIDE DEF blk, par
  <2> QED BY <1>9, <2>1, <2>2, WithinData
<1>12. Stable(s, c) /\ Stages(s, c, DirArea(s, I, par)) /\ StorageOK(c)
  BY <1>4, <1>11, StagesTrans DEF Stable
<1>13. OnlyEIO(b, c) BY <1>7 DEF Removed
<1>14. CASE c.rc # "ok"
  <2>1. t = c BY <1>14
  <2> QED BY <1>4, <1>13, <1>14, <2>1 DEF OnlyEIO
<1>15. CASE c.rc = "ok"
  <2>0. b.rc = "ok" /\ Cleared(b, c, pin, x) BY <1>7, <1>15 DEF Removed
  <2>1. PICK J : IsCut(I, J, q) BY CutExists
  <2>2. /\ par \in DOMAIN J /\ J[par] = I[par]
        /\ \A p \in DOMAIN J : p \in DOMAIN I /\ J[p] = I[p]
    BY <1>10, <2>1, CutOthers
  <2>3. \A j : logfs_inode_read(c, j) = logfs_inode_read(s, j) BY <1>4, <1>11
  <2>4. Cleared(s, c, pin, x)
    <3>1. R(b, blk) = R(s, blk) BY <1>4, <1>9
    <3> QED BY <1>4, <1>8, <2>0, <3>1 DEF Cleared
  <2>5. CutKeeps(s, c, I, J, q, x)
    <3>1. \A j \in IB(s) : j = I[q] \/ j \in IB(c) BY <1>4, <1>11
    <3>2. \A k \in Ks : Ptr(s, I[q], k) = in.blocks[k] BY DEF Ptr
    <3>3. \A y \in BB(s) : (\E k \in Ks : Ptr(s, I[q], k) = y) \/ y \in BB(c)
      BY <1>4, <1>11, <3>2
    <3>4. Cleared(s, c, logfs_inode_read(s, I[Front(q)]), x) BY <2>4 DEF pin
    <3> QED BY <2>3, <3>1, <3>3, <3>4 DEF CutKeeps
  <2>6. Sound(c, J) BY <1>10, <2>1, <2>5, CutSound
  <2>7. Tight(s, I) => Tight(c, J)
    <3>1. \A k \in Ks : Ptr(s, I[q], k) = in.blocks[k] BY DEF Ptr
    <3>2. IB(c) \subseteq IB(s) \ {I[q]} /\ BB(c) \subseteq BB(s)
      BY <1>4, <1>11, <2>0
    <3>3. \A y \in BB(c), k \in Ks : Ptr(s, I[q], k) # y
      BY <1>4, <1>11, <2>0, <3>1
    <3> QED BY <1>10, <2>1, <2>5, <3>2, <3>3, CutTight
  <2>8. Kept(s, c, I, J, {I[q]}) BY <1>10, <1>12, <2>1, <2>5, KeptCut
  <2>9. t = AddLinks(c, J[par], -1) BY <1>15, <2>2
  <2>10. logfs_inode_read(c, J[par]).nlink + (-1) \in Nat
    <3>1. logfs_inode_read(c, J[par]).nlink = 2 + Cardinality(Subdirs(s, I, par))
      BY <1>1, <1>2, <2>2, <2>3 DEF Linked, LinkCount
    <3>2. Cardinality(Subdirs(s, I, par)) \in Nat BY <1>1, FiniteNaming DEF Sound
    <3> QED BY <3>1, <3>2
  <2> HIDE DEF par
  <2>11. /\ Stable(c, t) /\ OnlyEIO(c, t) /\ (\A B : Stages(c, t, B))
         /\ t.rc = "ok" => /\ Sound(t, J) /\ SameTypes(c, t, J)
                           /\ Tight(c, J) => Tight(t, J)
                           /\ SameExcept(c, t, J, par) /\ SameNodes(c, t, J)
                           /\ \A p \in DOMAIN J : logfs_inode_read(t, J[p]).nlink =
                                IF p = par THEN logfs_inode_read(c, J[p]).nlink + (-1)
                                ELSE logfs_inode_read(c, J[p]).nlink
    <3>1. -1 \in Int OBVIOUS
    <3> QED BY <1>12, <2>2, <2>6, <2>9, <2>10, <3>1, Relink
  <2>12. t.rc \in {"ok", "EIO"} BY <1>15, <2>11 DEF OnlyEIO
  <2>13. ASSUME t.rc = "ok" PROVE OpOK(s, t, I, J, lk, {}) /\ SameNodes(s, t, J)
    <3>1. /\ Sound(t, J) /\ SameTypes(c, t, J) /\ SameExcept(c, t, J, par)
          /\ Tight(c, J) => Tight(t, J)
      BY <2>11, <2>13
    <3>2. SameTypes(s, t, J) BY <2>3, <3>1 DEF SameTypes
    <3>3. \A p \in DOMAIN J : logfs_inode_read(t, J[p]).nlink =
            IF p = Front(q) /\ IsDir(s, I[q]) THEN logfs_inode_read(s, J[p]).nlink - 1
            ELSE logfs_inode_read(s, J[p]).nlink
      <4>1. \A p \in DOMAIN J : logfs_inode_read(s, J[p]).nlink \in Nat
        <5>1. \A p \in DOMAIN J : J[p] \in Inodes BY <1>1, <2>2 DEF Sound, Naming
        <5> QED BY <5>1, InodeTyped, InodeRecord
      <4>2. \A p \in DOMAIN J : logfs_inode_read(t, J[p]).nlink =
              IF p = par THEN logfs_inode_read(s, J[p]).nlink + (-1)
              ELSE logfs_inode_read(s, J[p]).nlink
        BY <2>3, <2>11, <2>13
      <4> QED BY <4>1, <4>2 DEF par
    <3>4. Linked(t, J) BY <1>1, <1>10, <2>1, <3>2, <3>3, LinkedCut
    <3>5. Consistent(t, J, lk) BY <1>1, <2>7, <3>1, <3>4 DEF Consistent
    <3>6. Stable(s, t) BY <1>12, <2>11 DEF Stable
    <3>7. Kept(s, t, I, J, {})
      <4>1. \A y \in DataBlocks : IsFileBlock(t, J, y) => IsFileBlock(c, J, y)
        <5>1. IsDir(t, J[par]) BY <1>2, <2>2, <3>2 DEF SameTypes, IsDir
        <5> QED BY <3>1, <5>1 DEF IsFileBlock, Ptr, SameExcept, IsDir
      <4>2. \A j : LiveFile(c, J, j) => LiveFile(t, J, j) BY <3>1 DEF LiveFile, SameTypes
      <4>3. ~LiveFile(s, I, I[q]) BY DEF LiveFile, IsDir
      <4>4. \A y \in DataBlocks : y \in DOMAIN t.staged => y \in DOMAIN c.staged
        <5>1. Stages(c, t, {}) BY <2>11
        <5> QED BY <5>1 DEF Stages
      <4> QED BY <2>8, <4>1, <4>2, <4>3, <4>4 DEF Kept
    <3>8. SameNodes(s, t, J)
      <4>1. SameNodes(s, c, J) BY <1>10, <2>1, <2>5, CutNodes
      <4> QED BY <2>11, <2>13, <4>1, NodesTrans
    <3> QED BY <3>5, <3>6, <3>7, <3>8 DEF OpOK
  <2> QED BY <2>1, <2>12, <2>13
<1> QED BY <1>14, <1>15

(* logfs_op_rmdir makes a consistent tree without the directory, when no    *)
(* call in it fails; if it refuses, nothing is changed.                     *)
LEMMA RmdirOp ==
  ASSUME NEW s, StorageOK(s), s.rc = "ok", NEW I, NEW lk \in BOOLEAN, Consistent(s, I, lk),
         NEW q \in Paths, NEW t, t = logfs_op_rmdir(s, q)
  PROVE  /\ t.rc = "ok" => \E J : /\ OpOK(s, t, I, J, lk, {}) /\ SameNodes(s, t, J)
                                   /\ q \in DOMAIN I /\ IsCut(I, J, q) /\ Childless(I, q)
         /\ t.rc \in {"ok", "EIO"} \/ (t.staged = s.staged /\ t.home = s.home)
<1> DEFINE parent == logfs_path_lookup(s, Front(q))
           ent == logfs_dir_lookup(s, parent, Last(q))
           a == truncate_blocks(s, logfs_inode_read(s, ent.ino), 0)
           b == logfs_free_inode(a, ent.ino)
           c == logfs_dir_remove(b, parent, Last(q))
<1>1. Sound(s, I) BY DEF Consistent
<1>2. t = IF ent.ino = 0 THEN Fail(s, "ENOENT")
          ELSE IF ent.type # "dir" THEN Fail(s, "ENOTDIR")
          ELSE IF ~logfs_dir_is_empty(s, ent.ino) THEN Fail(s, "ENOTEMPTY")
          ELSE IF c.rc # "ok" THEN c ELSE AddLinks(c, parent, -1)
  BY DEF logfs_op_rmdir
<1> HIDE DEF a, b, c, ent
<1>3. CASE t = Fail(s, "ENOENT") \/ t = Fail(s, "ENOTDIR") \/ t = Fail(s, "ENOTEMPTY")
  <2>1. t.staged = s.staged /\ t.home = s.home /\ t.rc \in {"ENOENT", "ENOTDIR", "ENOTEMPTY"}
    BY <1>3, FailStable
  <2> QED BY <2>1
<1>4. CASE ent.ino # 0 /\ ent.type = "dir" /\ logfs_dir_is_empty(s, ent.ino)
  <2>1. logfs_path_lookup(s, q) = ent.ino BY PathFacts, LookupStep DEF ent
  <2>2. /\ q \in DOMAIN I /\ I[q] = ent.ino /\ I[q] \in Inodes /\ parent = I[Front(q)]
        /\ ent.type = logfs_inode_read(s, I[q]).type
    <3>1. logfs_path_lookup(s, q) # 0 BY <1>4, <2>1
    <3> QED BY <1>1, <2>1, <3>1, FoundPath DEF ent
  <2>3. IsDir(s, I[q]) BY <1>4, <2>2 DEF IsDir
  <2>4. Childless(I, q) BY <1>1, <1>4, <2>2, <2>3, EmptyChildless
  <2>5. Shed(s, b, logfs_inode_read(s, I[q]), I[q])
    <3>1. logfs_inode_read(s, I[q]) \in Inode BY <2>2, InodeTyped
    <3>2. b = logfs_free_inode(truncate_blocks(s, logfs_inode_read(s, I[q]), 0), I[q])
      BY <2>2 DEF a, b
    <3> QED BY <2>2, <3>1, <3>2, Sheds
  <2>6. c = logfs_dir_remove(b, I[Front(q)], Last(q)) BY <2>2 DEF c
  <2>7. t = IF c.rc # "ok" THEN c ELSE AddLinks(c, I[Front(q)], -1) BY <1>2, <1>4, <2>2
  <2>8. logfs_path_lookup(s, q) # 0 BY <1>4, <2>1
  <2> HIDE DEF parent
  <2>9. ASSUME NEW u, u = IF c.rc # "ok" THEN c ELSE AddLinks(c, I[Front(q)], -1)
        PROVE  RmdirDone(s, u, I, lk, q)
    BY <2>3, <2>4, <2>5, <2>6, <2>8, <2>9, RmdirBody
  <2>10. RmdirDone(s, t, I, lk, q) BY <2>7, <2>9
  <2> QED BY <2>2, <2>4, <2>10 DEF RmdirDone
<1> QED BY <1>2, <1>3, <1>4

-----------------------------------------------------------------------------
(* A file that changes its own blocks: truncate. *)

(* From s to t only the file named r changes: its inode, its blocks, and    *)
(* blocks that were free before.                                            *)
Rewritten(s, t, I, r) ==
  LET in == logfs_inode_read(s, I[r])
      jn == logfs_inode_read(t, I[r])
  IN  /\ IB(t) = IB(s) /\ in.type = "file" /\ jn.type = "file" /\ jn.nlink = in.nlink
      /\ \A p \in DOMAIN I \ {r} :
           /\ logfs_inode_read(t, I[p]) = logfs_inode_read(s, I[p])
           /\ \A k \in Ks : Ptr(s, I[p], k) # 0 =>
                Ptr(s, I[p], k) \in BB(t) /\ R(t, Ptr(s, I[p], k)) = R(s, Ptr(s, I[p], k))
      /\ \A k \in Ks : jn.blocks[k] # 0 =>
           /\ jn.blocks[k] \in BB(t) /\ R(t, jn.blocks[k]).kind = "file"
           /\ jn.blocks[k] = in.blocks[k] \/ jn.blocks[k] \notin BB(s)
      /\ \A j, k \in Ks : jn.blocks[j] # 0 /\ jn.blocks[j] = jn.blocks[k] => j = k

(* A file that changes its own inode and blocks, and takes only blocks that *)
(* were free, leaves the tree sound.                                        *)
LEMMA RewriteSound ==
  ASSUME NEW s, NEW t, NEW I, Sound(s, I), NEW r \in DOMAIN I, Rewritten(s, t, I, r)
  PROVE  Sound(t, I) /\ (Linked(s, I) => Linked(t, I))
<1> DEFINE in == logfs_inode_read(s, I[r])
           jn == logfs_inode_read(t, I[r])
<1>1. /\ IB(t) = IB(s) /\ in.type = "file" /\ jn.type = "file" /\ jn.nlink = in.nlink
      /\ \A p \in DOMAIN I \ {r} :
           /\ logfs_inode_read(t, I[p]) = logfs_inode_read(s, I[p])
           /\ \A k \in Ks : Ptr(s, I[p], k) # 0 =>
                Ptr(s, I[p], k) \in BB(t) /\ R(t, Ptr(s, I[p], k)) = R(s, Ptr(s, I[p], k))
      /\ \A k \in Ks : Ptr(t, I[r], k) # 0 =>
           /\ Ptr(t, I[r], k) \in BB(t) /\ R(t, Ptr(t, I[r], k)).kind = "file"
           /\ Ptr(t, I[r], k) = Ptr(s, I[r], k) \/ Ptr(t, I[r], k) \notin BB(s)
      /\ \A j, k \in Ks : Ptr(t, I[r], j) # 0 /\ Ptr(t, I[r], j) = Ptr(t, I[r], k) => j = k
  BY DEF Rewritten, Ptr
<1>2. \A p \in DOMAIN I, k \in Ks : Owner(s, I, p, k) BY DEF Sound, Owners
<1>3. \A p \in DOMAIN I \ {r}, k \in Ks : Ptr(t, I[p], k) = Ptr(s, I[p], k) BY <1>1 DEF Ptr
<1> HIDE DEF in, jn
<1>4. ASSUME NEW p \in DOMAIN I, p # r, NEW k \in Ks, Ptr(s, I[p], k) # 0, NEW j \in Ks
      PROVE  Ptr(t, I[r], j) # Ptr(s, I[p], k)
  <2>1. Owner(s, I, p, k) BY <1>2
  <2>2. Ptr(s, I[p], k) \in BB(s) /\ Ptr(s, I[r], j) # Ptr(s, I[p], k) BY <1>4, <2>1 DEF Owner
  <2> QED BY <1>1, <1>4, <2>2
<1>5. ASSUME NEW p \in DOMAIN I, NEW k \in Ks, Ptr(t, I[p], k) # 0
      PROVE  /\ Ptr(t, I[p], k) \in BB(t)
             /\ R(t, Ptr(t, I[p], k)).kind = logfs_inode_read(t, I[p]).type
             /\ \A q \in DOMAIN I, j \in Ks : Ptr(t, I[q], j) = Ptr(t, I[p], k) => q = p /\ j = k
  <2>1. CASE p = r
    <3>1. \A q \in DOMAIN I, j \in Ks : Ptr(t, I[q], j) = Ptr(t, I[p], k) => q = p /\ j = k
      BY <1>1, <1>3, <1>4, <1>5, <2>1
    <3> QED BY <1>1, <1>5, <2>1, <3>1 DEF jn
  <2>2. CASE p # r
    <3>1. Ptr(s, I[p], k) # 0 /\ Ptr(t, I[p], k) = Ptr(s, I[p], k) BY <1>3, <1>5, <2>2
    <3>2. /\ R(s, Ptr(s, I[p], k)).kind = logfs_inode_read(s, I[p]).type
          /\ \A q \in DOMAIN I, j \in Ks : Ptr(s, I[q], j) = Ptr(s, I[p], k) => q = p /\ j = k
      <4>1. Owner(s, I, p, k) BY <1>2
      <4> QED BY <3>1, <4>1 DEF Owner
    <3>3. Ptr(s, I[p], k) \in BB(t) /\ R(t, Ptr(s, I[p], k)) = R(s, Ptr(s, I[p], k))
          /\ logfs_inode_read(t, I[p]) = logfs_inode_read(s, I[p])
      BY <1>1, <2>2, <3>1
    <3>4. ASSUME NEW q \in DOMAIN I, NEW j \in Ks, Ptr(t, I[q], j) = Ptr(s, I[p], k)
          PROVE q = p /\ j = k
      <4>1. q # r BY <1>4, <2>2, <3>1, <3>4
      <4> QED BY <1>3, <3>2, <3>4, <4>1
    <3> QED BY <3>1, <3>2, <3>3, <3>4
  <2> QED BY <2>1, <2>2
<1>6. Owners(t, I) BY <1>5 DEF Owners, Owner
<1>7. DirsAlike(s, t, I)
  <2> SUFFICES ASSUME NEW p \in DOMAIN I
               PROVE  /\ logfs_inode_read(t, I[p]).type = logfs_inode_read(s, I[p]).type
                      /\ I[p] \in IB(t)
                      /\ IsDir(s, I[p]) =>
                           /\ logfs_inode_read(t, I[p]).blocks = logfs_inode_read(s, I[p]).blocks
                           /\ logfs_inode_read(t, I[p]).size = logfs_inode_read(s, I[p]).size
                           /\ \A k \in Ks : Ptr(s, I[p], k) # 0 =>
                                R(t, Ptr(s, I[p], k)) = R(s, Ptr(s, I[p], k))
    BY DEF DirsAlike
  <2>1. I[p] \in IB(t) BY <1>1 DEF Sound, Placed
  <2>2. CASE p = r BY <1>1, <2>1, <2>2 DEF IsDir, in, jn
  <2>3. CASE p # r BY <1>1, <2>1, <2>3
  <2> QED BY <2>2, <2>3
<1>8. SameLinks(s, t, I)
  <2>1. ASSUME NEW p \in DOMAIN I
        PROVE  logfs_inode_read(t, I[p]).nlink = logfs_inode_read(s, I[p]).nlink
    <3>1. CASE p = r BY <1>1, <3>1 DEF in, jn
    <3>2. CASE p # r BY <1>1, <3>2
    <3> QED BY <3>1, <3>2
  <2> QED BY <2>1 DEF SameLinks
<1> QED BY <1>6, <1>7, <1>8, FrameDirs

(* Nothing is leaked if what it no longer points to is free.                *)
LEMMA RewriteTight ==
  ASSUME NEW s, NEW t, NEW I, Sound(s, I), NEW r \in DOMAIN I, Rewritten(s, t, I, r), Tight(s, I),
         \A b \in BB(t) : \/ \E k \in Ks : Ptr(t, I[r], k) = b
                          \/ b \in BB(s) /\ \A k \in Ks : Ptr(s, I[r], k) # b
  PROVE  Tight(t, I)
<1>1. IB(t) = IB(s) BY DEF Rewritten
<1>2. \A p \in DOMAIN I \ {r}, k \in Ks : Ptr(t, I[p], k) = Ptr(s, I[p], k) BY DEF Rewritten, Ptr
<1>3. ASSUME NEW b \in BB(t) PROVE \E p \in DOMAIN I, k \in Ks : Ptr(t, I[p], k) = b
  <2>1. CASE \E k \in Ks : Ptr(t, I[r], k) = b BY <2>1
  <2>2. CASE b \in BB(s) /\ \A k \in Ks : Ptr(s, I[r], k) # b
    <3>1. PICK p \in DOMAIN I, k \in Ks : Ptr(s, I[p], k) = b BY <2>2 DEF Tight
    <3>2. p # r BY <2>2, <3>1
    <3> QED BY <1>2, <3>1, <3>2
  <2> QED BY <2>1, <2>2
<1> QED BY <1>1, <1>3 DEF Tight

(* Where a live inode's own blocks are. *)
LEMMA OwnBlocks ==
  ASSUME NEW s, StorageOK(s), NEW I, Sound(s, I), NEW r \in DOMAIN I, NEW k \in Ks, Ptr(s, I[r], k) # 0
  PROVE  /\ Ptr(s, I[r], k) \in BB(s) /\ Ptr(s, I[r], k) \in DataBlocks
         /\ R(s, Ptr(s, I[r], k)).kind = logfs_inode_read(s, I[r]).type
         /\ \A q \in DOMAIN I, j \in Ks : Ptr(s, I[q], j) = Ptr(s, I[r], k) => q = r /\ j = k
<1>1. Owner(s, I, r, k) BY DEF Sound, Owners
<1> QED BY <1>1, BitmapsTyped DEF Owner

(* Only the file named r shows anything new, and it has no new blocks.      *)
OthersSame(s, t, I, r) == \A p \in DOMAIN I \ {r} : SameNode(s, t, I[p])
NoNewBlocks(s, t, ino) == \A k \in Ks : Ptr(t, ino, k) # 0 => Ptr(t, ino, k) = Ptr(s, ino, k)

(* truncate: fewer blocks, in the inode and in the bitmap.  *)
LEMMA ShrinkOp ==
  ASSUME NEW s, StorageOK(s), s.rc = "ok", NEW I, NEW lk \in BOOLEAN, Consistent(s, I, lk),
         NEW r \in DOMAIN I, NEW in, in = logfs_inode_read(s, I[r]), in.type = "file",
         NEW keep \in Nat, NEW a, Truncated(s, a, in, keep),
         NEW jn \in Inode, jn.type = "file", jn.nlink = in.nlink,
         \A k \in Ks : jn.blocks[k] = IF k > keep THEN 0 ELSE in.blocks[k],
         NEW t, Wrote(a, t, I[r], jn), t.rc = "ok"
  PROVE  /\ OpOK(s, t, I, I, lk, {}) /\ OthersSame(s, t, I, r) /\ NoNewBlocks(s, t, I[r])
         /\ logfs_inode_read(t, I[r]) = jn
<1>1. Sound(s, I) /\ Linked(s, I) /\ (lk \/ Tight(s, I)) BY DEF Consistent
<1>2. Naming(I) /\ I[r] \in Inodes BY <1>1 DEF Sound, Naming
<1>3. /\ \A j : logfs_inode_read(a, j) = logfs_inode_read(s, j)
      /\ \A x \in DataBlocks : R(a, x) = R(s, x)
      /\ IB(a) = IB(s) /\ (\A B : Stages(s, a, B)) /\ Stable(s, a)
  BY WithinBitmap DEF Truncated
<1>4. /\ \A x \in DataBlocks : R(t, x) = R(a, x)
      /\ IB(t) = IB(a) /\ BB(t) = BB(a) /\ (\A B : Stages(a, t, B)) /\ Stable(a, t)
  <2>1. inode_location(I[r]) \in Table BY <1>2, LocationOK
  <2>2. Within(a, t, {inode_location(I[r])}) BY DEF Wrote
  <2> QED BY <2>1, <2>2, WithinTable
<1>5. /\ a.rc = "ok" /\ logfs_inode_read(t, I[r]) = jn
      /\ \A j \in Inodes \ {I[r]} : logfs_inode_read(t, j) = logfs_inode_read(s, j)
  BY <1>3 DEF Wrote
<1>6. /\ \A b \in BB(t) : b \in BB(s)
      /\ \A b \in BB(s) : b \in BB(t) <=> \A k \in Ks : k > keep => in.blocks[k] # b
  BY <1>4, <1>5 DEF Truncated
<1>7. \A x \in DataBlocks : R(t, x) = R(s, x) BY <1>3, <1>4
<1>8. \A k \in Ks : Ptr(s, I[r], k) = in.blocks[k] /\ Ptr(t, I[r], k) = jn.blocks[k]
  BY <1>5 DEF Ptr
<1>9. \A p \in DOMAIN I \ {r} : logfs_inode_read(t, I[p]) = logfs_inode_read(s, I[p])
  BY <1>2, <1>5 DEF Naming
<1>10. Rewritten(s, t, I, r)
  <2>1. IB(t) = IB(s) BY <1>3, <1>4
  <2>2. ASSUME NEW p \in DOMAIN I \ {r}, NEW k \in Ks, Ptr(s, I[p], k) # 0
        PROVE  Ptr(s, I[p], k) \in BB(t) /\ R(t, Ptr(s, I[p], k)) = R(s, Ptr(s, I[p], k))
    <3>1. /\ Ptr(s, I[p], k) \in BB(s) /\ Ptr(s, I[p], k) \in DataBlocks
          /\ \A q \in DOMAIN I, j \in Ks : Ptr(s, I[q], j) = Ptr(s, I[p], k) => q = p /\ j = k
      BY <1>1, <2>2, OwnBlocks
    <3> QED BY <1>6, <1>7, <1>8, <3>1
  <2>3. ASSUME NEW k \in Ks, jn.blocks[k] # 0
        PROVE  /\ jn.blocks[k] \in BB(t) /\ R(t, jn.blocks[k]).kind = "file"
               /\ jn.blocks[k] = in.blocks[k]
    <3>1. ~(k > keep) /\ jn.blocks[k] = in.blocks[k] BY <2>3
    <3>2. /\ in.blocks[k] \in BB(s) /\ in.blocks[k] \in DataBlocks /\ R(s, in.blocks[k]).kind = "file"
          /\ \A j \in Ks : in.blocks[j] = in.blocks[k] => j = k
      <4>1. Ptr(s, I[r], k) # 0 BY <1>8, <2>3, <3>1
      <4> QED BY <1>1, <1>8, <4>1, OwnBlocks
    <3> QED BY <1>6, <1>7, <3>1, <3>2
  <2>4. ASSUME NEW j \in Ks, NEW k \in Ks, jn.blocks[j] # 0, jn.blocks[j] = jn.blocks[k] PROVE j = k
    <3>1. jn.blocks[j] = in.blocks[j] /\ jn.blocks[k] = in.blocks[k] BY <2>3, <2>4
    <3>2. Ptr(s, I[r], j) # 0 /\ Ptr(s, I[r], k) = Ptr(s, I[r], j) BY <1>8, <2>4, <3>1
    <3> QED BY <1>1, <3>2, OwnBlocks
  <2> QED BY <1>5, <1>9, <2>1, <2>2, <2>3, <2>4 DEF Rewritten
<1>11. Sound(t, I) /\ Linked(t, I) BY <1>1, <1>10, RewriteSound
<1>12. lk \/ Tight(t, I)
  <2>1. ASSUME NEW b \in BB(t)
        PROVE  \/ \E k \in Ks : Ptr(t, I[r], k) = b
               \/ b \in BB(s) /\ \A k \in Ks : Ptr(s, I[r], k) # b
    <3>1. b \in BB(s) /\ \A k \in Ks : k > keep => in.blocks[k] # b BY <1>6, <2>1
    <3> QED BY <1>8, <3>1
  <2> QED BY <1>1, <1>10, <2>1, RewriteTight
<1>13. Kept(s, t, I, I, {})
  <2>1. ASSUME NEW b \in DataBlocks, IsFileBlock(t, I, b) PROVE IsFileBlock(s, I, b)
    <3>1. PICK p \in DOMAIN I, k \in Ks : logfs_inode_read(t, I[p]).type = "file" /\ Ptr(t, I[p], k) = b
      BY <2>1 DEF IsFileBlock
    <3>2. CASE p = r
      <4>1. b # 0 BY Layout
      <4>2. Ptr(s, I[r], k) = b BY <1>8, <3>1, <3>2, <4>1
      <4> QED BY <4>2 DEF IsFileBlock
    <3>3. CASE p # r BY <1>9, <3>1, <3>3 DEF IsFileBlock, Ptr
    <3> QED BY <3>2, <3>3
  <2>2. \A j : LiveFile(s, I, j) => LiveFile(t, I, j) BY <1>5, <1>9 DEF LiveFile
  <2>3. Stages(s, t, {}) BY <1>3, <1>4, StagesTrans
  <2> QED BY <2>1, <2>2, <2>3 DEF Kept, Stages
<1>14. Stable(s, t) BY <1>3, <1>4 DEF Stable
<1>15. OthersSame(s, t, I, r) BY <1>10 DEF Rewritten, OthersSame, SameNode, Ptr
<1>16. NoNewBlocks(s, t, I[r]) BY <1>8 DEF NoNewBlocks
<1> QED BY <1>5, <1>11, <1>12, <1>13, <1>14, <1>15, <1>16 DEF OpOK, Consistent

(* logfs_op_truncate leaves a consistent tree, when no call in it fails.    *)
LEMMA TruncateOp ==
  ASSUME NEW s, StorageOK(s), s.rc = "ok", NEW I, NEW lk \in BOOLEAN, Consistent(s, I, lk),
         NEW ino, LiveFile(s, I, ino), NEW size \in 0 .. MaxSize, NEW t, t = logfs_op_truncate(s, ino, size)
  PROVE  /\ t.rc = "ok" => /\ OpOK(s, t, I, I, lk, {}) /\ NoNewBlocks(s, t, ino)
                           /\ \A r \in DOMAIN I : I[r] = ino => OthersSame(s, t, I, r)
                           /\ logfs_inode_read(t, ino).type = "file"
                           /\ logfs_inode_read(t, ino).size = size
         /\ t.rc \in {"ok", "EIO"}
<1> DEFINE in == logfs_inode_read(s, ino)
           keep == (size + BlockUnits - 1) \div BlockUnits
           a == truncate_blocks(s, in, keep)
<1>1. PICK r \in DOMAIN I : I[r] = ino BY DEF LiveFile
<1>2. Sound(s, I) BY DEF Consistent
<1>3. ino \in Inodes BY <1>1, <1>2 DEF Sound, Naming
<1>4. in \in Inode /\ in.type = "file" /\ in = logfs_inode_read(s, I[r])
  BY <1>1, <1>3, InodeTyped DEF LiveFile
<1>5. keep \in Nat
  <2>1. size + BlockUnits - 1 \in Nat /\ BlockUnits \in Nat \ {0} BY FileSystemAssumption
  <2> QED BY <2>1
<1>6. MaxSize \in Nat
  <2>1. NDirBlocks \in Nat /\ BlockUnits \in Nat /\ 0 <= NDirBlocks /\ 0 \in Nat BY FileSystemAssumption
  <2> QED BY <2>1, Monotone DEF MaxSize
<1>7. t = IF size < in.size
          THEN logfs_inode_write(a, ino, [Shrunk(in, keep) EXCEPT !.size = size])
          ELSE logfs_inode_write(s, ino, [in EXCEPT !.size = size])
  <2>1. ~(size > MaxSize) BY <1>6
  <2> QED BY <2>1 DEF logfs_op_truncate
<1>8. in = [type |-> in.type, nlink |-> in.nlink, size |-> in.size, blocks |-> in.blocks]
      /\ in.nlink \in Nat /\ in.blocks \in [Ks -> DataBlocks \cup {0}]
  BY <1>4, InodeRecord
<1>80. \A p \in DOMAIN I : I[p] = ino => p = r BY <1>1, <1>2 DEF Sound, Naming
<1> HIDE DEF in, keep
<1>9. CASE size < in.size
  <2> DEFINE ptrs == [k \in Ks |-> IF k > keep THEN 0 ELSE in.blocks[k]]
             jn == [type |-> "file", nlink |-> in.nlink, size |-> size, blocks |-> ptrs]
  <2>1. ptrs \in [Ks -> DataBlocks \cup {0}] BY <1>8
  <2>2. [Shrunk(in, keep) EXCEPT !.size = size] = jn
    <3>1. Shrunk(in, keep) = [in EXCEPT !.blocks = ptrs] BY DEF Shrunk, Ks
    <3> HIDE DEF ptrs
    <3>2. Shrunk(in, keep) = [type |-> "file", nlink |-> in.nlink, size |-> in.size, blocks |-> ptrs]
      BY <1>4, <1>8, <3>1
    <3> QED BY <3>2
  <2>3. \A k \in Ks : jn.blocks[k] = IF k > keep THEN 0 ELSE in.blocks[k] OBVIOUS
  <2> HIDE DEF ptrs
  <2>4. jn \in Inode /\ jn.type = "file" /\ jn.nlink = in.nlink /\ jn.size = size
    BY <1>8, <2>1, InodeMade
  <2>5. t = logfs_inode_write(a, ino, jn) BY <1>7, <1>9, <2>2
  <2> HIDE DEF jn
  <2>6. Truncated(s, a, in, keep) BY <1>4, <1>5, TruncateBlocks
  <2> HIDE DEF a
  <2>7. StorageOK(a) BY <2>6 DEF Truncated, Within
  <2>8. Wrote(a, t, ino, jn)
    <3>1. Wrote(a, logfs_inode_write(a, ino, jn), ino, jn) BY <1>3, <2>4, <2>7, InodeWrote
    <3> QED BY <2>5, <3>1
  <2>9. t.rc = "ok" => /\ OpOK(s, t, I, I, lk, {}) /\ OthersSame(s, t, I, r)
                       /\ NoNewBlocks(s, t, I[r]) /\ logfs_inode_read(t, I[r]) = jn
    <3>1. Wrote(a, t, I[r], jn) BY <1>1, <2>8
    <3> QED BY <1>4, <1>5, <2>3, <2>4, <2>6, <3>1, ShrinkOp
  <2>10. t.rc \in {"ok", "EIO"} BY <2>6, <2>8 DEF Truncated, Wrote, OnlyEIO
  <2> QED BY <1>1, <1>80, <2>4, <2>9, <2>10
<1>10. CASE ~(size < in.size)
  <2> DEFINE jn == [type |-> "file", nlink |-> in.nlink, size |-> size, blocks |-> in.blocks]
             all == NDirBlocks
  <2>1. [in EXCEPT !.size = size] = jn
    <3>1. in = [type |-> "file", nlink |-> in.nlink, size |-> in.size, blocks |-> in.blocks]
      BY <1>4, <1>8
    <3> QED BY <3>1
  <2>2. all \in Nat /\ \A k \in Ks : ~(k > all) BY FileSystemAssumption DEF Ks
  <2>3. /\ jn \in Inode /\ jn.type = "file" /\ jn.nlink = in.nlink /\ jn.blocks = in.blocks
        /\ jn.size = size
    BY <1>8, InodeMade
  <2>4. t = logfs_inode_write(s, ino, jn) BY <1>7, <1>10, <2>1
  <2> HIDE DEF jn, all
  <2>5. \A k \in Ks : jn.blocks[k] = IF k > all THEN 0 ELSE in.blocks[k] BY <2>2, <2>3
  <2>6. Truncated(s, s, in, all) BY <2>2 DEF Truncated, Within, OnlyEIO
  <2>7. Wrote(s, t, ino, jn)
    <3>1. Wrote(s, logfs_inode_write(s, ino, jn), ino, jn) BY <1>3, <2>3, InodeWrote
    <3> QED BY <2>4, <3>1
  <2>8. t.rc = "ok" => /\ OpOK(s, t, I, I, lk, {}) /\ OthersSame(s, t, I, r)
                       /\ NoNewBlocks(s, t, I[r]) /\ logfs_inode_read(t, I[r]) = jn
    <3>1. Wrote(s, t, I[r], jn) BY <1>1, <2>7
    <3> QED BY <1>4, <2>2, <2>3, <2>5, <2>6, <3>1, ShrinkOp
  <2>9. t.rc \in {"ok", "EIO"} BY <2>7 DEF Wrote, OnlyEIO
  <2> QED BY <1>1, <1>80, <2>3, <2>8, <2>9
<1> QED BY <1>9, <1>10
=============================================================================
