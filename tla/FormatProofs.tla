---------------------------- MODULE FormatProofs ----------------------------
(***************************************************************************)
(* Proofs about module Format: the layout arithmetic of logfs_fs_format,   *)
(* the progress of a format, and what logfs_fs_mount accepts after formats *)
(* and power losses, for every image size and journal length.              *)
(***************************************************************************)
EXTENDS Format, SequenceTheorems, TLAPS

(* The table is the byte count of the inodes, rounded up to whole blocks.   *)
LEMMA TableRoundsUp ==
  ASSUME NEW n \in Nat
  PROVE  LET len == (n * InodeSize + LOGFS_BLOCK_SIZE - 1) \div LOGFS_BLOCK_SIZE
         IN  /\ len \in Nat
             /\ n * InodeSize <= len * LOGFS_BLOCK_SIZE
             /\ len * LOGFS_BLOCK_SIZE < n * InodeSize + LOGFS_BLOCK_SIZE
  BY DEF InodeSize, LOGFS_BLOCK_SIZE

(* The clamp keeps every inode number a bit of the bitmap block.            *)
LEMMA InodeCountClamped ==
  ASSUME NEW total \in Nat
  PROVE  /\ TotalInodes(total) \in Nat
         /\ TotalInodes(total) >= 16
         /\ TotalInodes(total) < LOGFS_FS_MAX_BITMAP_UNITS
  BY DEF TotalInodes, LOGFS_FS_MAX_BITMAP_UNITS, LOGFS_BLOCK_SIZE

(* Every layout that passes the three checks of logfs_fs_format with a      *)
(* journal of at least one block has its regions in order, disjoint and     *)
(* inside the image, and one bitmap block for the inodes and one for the    *)
(* data are enough.                                                         *)
THEOREM AcceptedLayoutIsSound ==
  ASSUME NEW total \in Nat, NEW len \in Nat, len >= 1,
         HasRoom(total, len), Fits(Layout(total, len))
  PROVE  SoundLayout(Layout(total, len))
<1> DEFINE sb == Layout(total, len)
<1> DEFINE n == TotalInodes(total)
<1>1. /\ n \in Nat /\ n >= 16 /\ n < LOGFS_FS_MAX_BITMAP_UNITS
  BY InodeCountClamped
<1>2. /\ sb.inode_table_len \in Nat
      /\ n * InodeSize <= sb.inode_table_len * LOGFS_BLOCK_SIZE
  BY <1>1, TableRoundsUp DEF Layout
<1>3. /\ sb.total_inodes = n
      /\ sb.journal_start = 3 /\ sb.journal_len = len
      /\ sb.inode_bitmap_start = 3 + len
      /\ sb.block_bitmap_start = 4 + len
      /\ sb.inode_table_start = 5 + len
      /\ sb.data_start = 5 + len + sb.inode_table_len
      /\ sb.total_blocks = total
  BY DEF Layout, LOGFS_JOURNAL_REGION_START
<1>4. sb.data_start < total /\ total - sb.data_start <= LOGFS_FS_MAX_BITMAP_UNITS
  BY <1>3 DEF Fits
<1> HIDE DEF sb, n
<1>5. SoundLayout(sb)
  BY <1>1, <1>2, <1>3, <1>4 DEF SoundLayout, LOGFS_JSUPER_BLOCKNO
<1> QED
  BY <1>5 DEF sb

(* The inodes of an image of fewer than 340 blocks all lie in the inode     *)
(* table, although its length is computed from bytes and inode_location     *)
(* counts whole inodes: 340 is the smallest size for which they do not      *)
(* (run layout_inodes).                                                     *)
THEOREM SmallImagesHoldTheirInodes ==
  ASSUME NEW total \in Nat, total < 340, NEW len \in Nat,
         NEW ino \in 1 .. TotalInodes(total)
  PROVE  inode_location(Layout(total, len), ino) < Layout(total, len).data_start
<1> DEFINE n == TotalInodes(total)
<1> DEFINE tableLen == (n * InodeSize + LOGFS_BLOCK_SIZE - 1) \div LOGFS_BLOCK_SIZE
<1>1. n \in Nat /\ n <= 84
  BY DEF TotalInodes, LOGFS_FS_MAX_BITMAP_UNITS, LOGFS_BLOCK_SIZE
<1>2. tableLen \in Nat /\ n <= 28 * tableLen
  BY <1>1, TableRoundsUp DEF InodeSize, LOGFS_BLOCK_SIZE
<1>3. (ino - 1) \div 28 < tableLen
  BY <1>1, <1>2
<1>4. /\ inode_location(Layout(total, len), ino) = 5 + len + (ino - 1) \div (LOGFS_BLOCK_SIZE \div InodeSize)
      /\ Layout(total, len).data_start = 5 + len + tableLen
  BY DEF inode_location, Layout, LOGFS_JOURNAL_REGION_START
<1>5. LOGFS_BLOCK_SIZE \div InodeSize = 28
  BY DEF LOGFS_BLOCK_SIZE, InodeSize
<1>6. (ino - 1) \div 28 \in Int
  BY <1>1
<1> QED
  BY <1>1, <1>2, <1>3, <1>4, <1>5, <1>6
-----------------------------------------------------------------------------
(* The state machine: what mkfs has done so far, and what an image keeps of *)
(* it.                                                                      *)

Cells == [kind : Kinds, arg : Seq(Nat), used : BOOLEAN]
Steps == [op : {"write", "flush"}, at : Nat, cell : Cells, torn : Cells]
PartsOf(sb) == sb.inode_bitmap_start .. sb.data_start

TypeInv ==
  /\ dev \in Region(Blocks, Cells) /\ \A a \in Blocks : dev.cur[a] \in dev.alt[a]
  /\ size \in Region({SizeCell}, Totals \cup {0}) /\ nblocks \in size.alt[SizeCell]
  /\ todo \in Seq(Steps) /\ \A i \in DOMAIN todo : todo[i].op = "write" => todo[i].at \in Blocks
  /\ status \in {"new", "running", "ok", "failed"}
  /\ status = "running" <=> todo # <<>>
  /\ count \in [formats : Nat, crashes : Nat]

(* After k operations of the format of layout sb: every block written holds *)
(* what was written to it last, and from the first flush on the size is     *)
(* durable.                                                                 *)
Running(sb, k) ==
  LET script == Script(sb) IN
  /\ Len(todo) = Len(script) - k
  /\ \A i \in 1 .. Len(todo) : todo[i] = script[k + i]
  /\ nblocks = sb.total_blocks
  /\ k >= 2 => size.alt[SizeCell] = {nblocks}
  /\ \A i \in 1 .. k :
       script[i].op = "write" /\ (\A m \in i + 1 .. k : script[m].at # script[i].at)
         => dev.cur[script[i].at] = script[i].cell

(* The blocks of layout sb are complete, and on stable storage.             *)
Holds(sb) ==
  /\ Complete(dev.cur, sb.total_blocks, sb)
  /\ \A a \in PartsOf(sb) : dev.alt[a] = {dev.cur[a]}

(* The image mkfs reported as done.                                         *)
Done(sb) ==
  /\ dev.cur[LOGFS_SUPER_BLOCKNO] = Super(sb) /\ dev.cur[LOGFS_JSUPER_BLOCKNO].kind = "jsuper"
  /\ \A a \in {LOGFS_SUPER_BLOCKNO, LOGFS_JSUPER_BLOCKNO} : dev.alt[a] = {dev.cur[a]}
  /\ size.alt[SizeCell] = {sb.total_blocks}
  /\ Holds(sb)

FormatInv ==
  /\ TypeInv
  /\ todo # <<>> => \E sb \in Accepted, k \in Nat : Running(sb, k)
  /\ status = "ok" => \E sb \in Accepted : Done(sb)

(* The superblock on the image: it appears only after the size is durable,  *)
(* and an image whose size it names is complete; in every crash image too   *)
(* once the superblock is flushed.                                          *)
Named(sb) == dev.cur[LOGFS_SUPER_BLOCKNO] = Super(sb)
SuperInv ==
  /\ \A c \in dev.alt[LOGFS_SUPER_BLOCKNO] :
       c \in {Blank, Torn} \cup {Super(sb) : sb \in Accepted}
  /\ 0 \in size.alt[SizeCell] \/ dev.cur[LOGFS_SUPER_BLOCKNO] = Blank
       => dev.alt[LOGFS_SUPER_BLOCKNO] = {Blank}
  /\ \A sb \in Accepted : Named(sb) /\ nblocks = sb.total_blocks =>
       Len(todo) <= 1 /\ Complete(dev.cur, nblocks, sb)
  /\ \A sb \in Accepted :
       Named(sb) /\ dev.alt[LOGFS_SUPER_BLOCKNO] = {dev.cur[LOGFS_SUPER_BLOCKNO]}
         /\ sb.total_blocks \in size.alt[SizeCell] => Holds(sb)

(* One format so far, one size.                                             *)
SizeInv ==
  /\ count.formats = 0 => size.alt[SizeCell] = {0}
  /\ count.formats < 2 => \A m, n \in size.alt[SizeCell] \ {0} : m = n
  /\ count.formats <= 2
  /\ \A m \in size.alt[SizeCell] : m = 0 \/ m > 2
MountInv == FormatInv /\ SuperInv /\ SizeInv

(* The conditions under which fs.h promises that a superblock is not ahead  *)
(* of the file system: mkfs is given an image of another size, the power    *)
(* does not fail between the write and the flush of the superblock, and the *)
(* journal has a block.                                                     *)
Quiet == "reformat" \notin Conditions /\ "unordered" \notin Conditions /\ 0 \notin JournalLens

-----------------------------------------------------------------------------
(* The layouts and scripts. *)

(* An accepted layout is that of its size and journal length.               *)
LEMMA AcceptedShape ==
  ASSUME NEW sb \in Accepted
  PROVE  /\ sb.total_blocks \in Totals /\ sb.total_blocks \in Nat
         /\ sb.journal_len \in JournalLens /\ sb.journal_len \in Nat
         /\ sb = Layout(sb.total_blocks, sb.journal_len)
         /\ HasRoom(sb.total_blocks, sb.journal_len) /\ Fits(sb)
         /\ sb.inode_bitmap_start = 3 + sb.journal_len
         /\ sb.block_bitmap_start = 4 + sb.journal_len
         /\ sb.inode_table_start = 5 + sb.journal_len
         /\ sb.inode_table_len \in Nat /\ sb.inode_table_len >= 1
         /\ sb.data_start = 5 + sb.journal_len + sb.inode_table_len
         /\ sb.data_start < sb.total_blocks
<1>1. PICK total \in Totals, len \in JournalLens : sb = Layout(total, len)
  BY DEF Accepted
<1>2. total \in Nat /\ len \in Nat
  BY FormatAssumption
<1>3. /\ sb.total_blocks = total /\ sb.journal_len = len
      /\ sb.inode_bitmap_start = 3 + len
      /\ sb.block_bitmap_start = 4 + len
      /\ sb.inode_table_start = 5 + len
      /\ sb.data_start = 5 + len + sb.inode_table_len
  BY <1>1, <1>2 DEF Layout, LOGFS_JOURNAL_REGION_START
<1>4. TotalInodes(total) \in Nat /\ TotalInodes(total) >= 16
  BY <1>2, InodeCountClamped
<1>5. /\ sb.inode_table_len \in Nat
      /\ TotalInodes(total) * InodeSize <= sb.inode_table_len * LOGFS_BLOCK_SIZE
  BY <1>1, <1>4, TableRoundsUp DEF Layout
<1>6. sb.inode_table_len >= 1
  BY <1>4, <1>5 DEF InodeSize, LOGFS_BLOCK_SIZE
<1>7. HasRoom(sb.total_blocks, sb.journal_len) /\ Fits(sb)
  BY DEF Accepted
<1>8. sb.data_start < sb.total_blocks
  BY <1>7 DEF Fits
<1> QED
  BY <1>1, <1>2, <1>3, <1>5, <1>6, <1>7, <1>8

(* A superblock names its layout.                                           *)
LEMMA SuperNames ==
  ASSUME NEW sb \in Accepted
  PROVE  /\ Super(sb).kind = "super" /\ Super(sb).used = FALSE
         /\ Super(sb).arg[1] = sb.total_blocks
         /\ Layout(Super(sb).arg[1], Super(sb).arg[2]) = sb
         /\ Super(sb) \in Cells
         /\ Super(sb) # Blank /\ Super(sb) # Torn
  BY AcceptedShape DEF Super, Cell, Blank, Torn, Cells, Kinds

(* Two accepted layouts with the same superblock are the same.              *)
LEMMA SuperInjective ==
  ASSUME NEW s1 \in Accepted, NEW s2 \in Accepted, Super(s1) = Super(s2)
  PROVE  s1 = s2
  BY SuperNames

(* The elements of three sequences put together.                            *)
LEMMA ConcatThree ==
  ASSUME NEW S, NEW s \in Seq(S), NEW t \in Seq(S), NEW u \in Seq(S)
  PROVE  /\ s \o t \o u \in Seq(S) /\ Len(s \o t \o u) = Len(s) + Len(t) + Len(u)
         /\ \A i \in 1 .. Len(s) : (s \o t \o u)[i] = s[i]
         /\ \A i \in 1 .. Len(t) : (s \o t \o u)[i + Len(s)] = t[i]
         /\ \A i \in 1 .. Len(u) : (s \o t \o u)[i + Len(s) + Len(t)] = u[i]
<1>0. Len(s) \in Nat /\ Len(t) \in Nat /\ Len(u) \in Nat
  BY LenProperties
<1> DEFINE st == s \o t
<1>a. st \in Seq(S)
  BY ConcatProperties
<1>1. /\ Len(st) = Len(s) + Len(t)
      /\ \A i \in 1 .. Len(s) + Len(t) : st[i] = IF i <= Len(s) THEN s[i] ELSE t[i - Len(s)]
  BY ConcatProperties
<1> HIDE DEF st
<1>2. /\ st \o u \in Seq(S) /\ Len(st \o u) = Len(st) + Len(u)
      /\ \A i \in 1 .. Len(st) + Len(u) : (st \o u)[i] = IF i <= Len(st) THEN st[i] ELSE u[i - Len(st)]
  BY <1>a, ConcatProperties
<1> DEFINE x == st \o u
<1> HIDE DEF x
<1>3. \A i \in 1 .. Len(s) + Len(t) : x[i] = st[i]
  BY <1>0, <1>1, <1>2 DEF x
<1>4. \A i \in 1 .. Len(s) : x[i] = s[i]
  BY <1>0, <1>1, <1>3
<1>5. ASSUME NEW i \in 1 .. Len(t) PROVE x[i + Len(s)] = t[i]
  BY <1>0, <1>1, <1>3
<1>6. ASSUME NEW i \in 1 .. Len(u) PROVE x[i + Len(s) + Len(t)] = u[i]
  BY <1>0, <1>1, <1>2 DEF x
<1> QED
  BY <1>0, <1>1, <1>2, <1>4, <1>5, <1>6 DEF st, x

(* The device operations of a format by number, L blocks of inode table.    *)
LEMMA ScriptShape ==
  ASSUME NEW sb \in Accepted
  PROVE  LET L == sb.inode_table_len
             script == Script(sb)
         IN  /\ script \in Seq(Steps) /\ Len(script) = L + 8
             /\ script[1] = Put(2, Cell("jsuper", <<>>)) /\ script[2] = Flush
             /\ script[3] = Put(sb.inode_bitmap_start, Cell("inodes", <<>>))
             /\ script[4] = Put(sb.block_bitmap_start, Cell("blocks", <<>>))
             /\ \A i \in 1 .. L :
                  script[i + 4] = Put(sb.inode_table_start + i - 1, Cell("table", <<>>))
             /\ script[L + 5] = Put(sb.inode_table_start, RootInode(sb))
             /\ script[L + 6] = Put(sb.data_start, Cell("dir", <<>>))
             /\ script[L + 7] = Put(1, Super(sb)) /\ script[L + 8] = Flush
<1> DEFINE L == sb.inode_table_len
<1> DEFINE A == <<Put(sb.inode_bitmap_start, Cell("inodes", <<>>)),
                  Put(sb.block_bitmap_start, Cell("blocks", <<>>))>>
<1> DEFINE T == [i \in 1 .. L |-> Put(sb.inode_table_start + i - 1, Cell("table", <<>>))]
<1> DEFINE B == <<Put(sb.inode_table_start, RootInode(sb)), Put(sb.data_start, Cell("dir", <<>>))>>
<1> DEFINE J == <<Put(2, Cell("jsuper", <<>>)), Flush>>
<1> DEFINE W == <<Put(1, Super(sb)), Flush>>
<1>0. /\ L \in Nat /\ sb.inode_bitmap_start \in Nat /\ sb.block_bitmap_start \in Nat
      /\ sb.inode_table_start \in Nat /\ sb.data_start \in Nat
  BY AcceptedShape
<1>1. \A a \in Nat, c \in Cells : Put(a, c) \in Steps
  BY DEF Put, Steps, Torn, Cell, Cells, Kinds
<1>2. Flush \in Steps
  BY DEF Flush, Steps, Blank, Cell, Cells, Kinds
<1>3. /\ Cell("jsuper", <<>>) \in Cells /\ Cell("inodes", <<>>) \in Cells
      /\ Cell("blocks", <<>>) \in Cells /\ Cell("table", <<>>) \in Cells
      /\ Cell("dir", <<>>) \in Cells
  BY DEF Cell, Cells, Kinds
<1>4. RootInode(sb) \in Cells
  BY <1>0 DEF RootInode, Cell, Cells, Kinds
<1>5. Super(sb) \in Cells
  BY SuperNames
<1>6. A \in Seq(Steps) /\ Len(A) = 2 /\ J \in Seq(Steps) /\ Len(J) = 2
  BY <1>0, <1>1, <1>2, <1>3
<1>7. B \in Seq(Steps) /\ Len(B) = 2 /\ W \in Seq(Steps) /\ Len(W) = 2
  BY <1>0, <1>1, <1>2, <1>3, <1>4, <1>5
<1>8. T \in Seq(Steps) /\ Len(T) = L
  <2>1. \A i \in 1 .. L : T[i] \in Steps
    BY <1>0, <1>1, <1>3
  <2>2. T \in [1 .. L -> Steps]
    BY <2>1
  <2>3. T \in Seq(Steps)
    BY <1>0, <2>2, SeqDef
  <2>4. QED
    BY <1>0, <2>2, <2>3, LenProperties
<1>9. Script(sb) = J \o (A \o T \o B) \o W
  BY DEF Script, JournalSuper, Parts, write_super, LOGFS_JSUPER_BLOCKNO, LOGFS_SUPER_BLOCKNO
<1> DEFINE P == A \o T \o B
<1>10. /\ A[1] = Put(sb.inode_bitmap_start, Cell("inodes", <<>>))
       /\ A[2] = Put(sb.block_bitmap_start, Cell("blocks", <<>>))
       /\ B[1] = Put(sb.inode_table_start, RootInode(sb))
       /\ B[2] = Put(sb.data_start, Cell("dir", <<>>))
       /\ J[1] = Put(2, Cell("jsuper", <<>>)) /\ J[2] = Flush
       /\ W[1] = Put(1, Super(sb)) /\ W[2] = Flush
       /\ \A i \in 1 .. L : T[i] = Put(sb.inode_table_start + i - 1, Cell("table", <<>>))
  OBVIOUS
<1> HIDE DEF A, B, J, W, T, L
<1>11. /\ P \in Seq(Steps) /\ Len(P) = L + 4
       /\ P[1] = A[1] /\ P[2] = A[2]
       /\ \A i \in 1 .. L : P[i + 2] = T[i]
       /\ P[L + 3] = B[1] /\ P[L + 4] = B[2]
  <2>a. A \in Seq(Steps) /\ T \in Seq(Steps) /\ B \in Seq(Steps)
    BY <1>6, <1>7, <1>8
  <2>0. /\ P \in Seq(Steps) /\ Len(P) = Len(A) + Len(T) + Len(B)
        /\ \A i \in 1 .. Len(A) : P[i] = A[i]
        /\ \A i \in 1 .. Len(T) : P[i + Len(A)] = T[i]
        /\ \A i \in 1 .. Len(B) : P[i + Len(A) + Len(T)] = B[i]
    BY <2>a, ConcatThree, SMTT(60)
  <2> HIDE DEF P
  <2>1. /\ P \in Seq(Steps) /\ Len(P) = 2 + L + 2
        /\ \A i \in 1 .. 2 : P[i] = A[i]
        /\ \A i \in 1 .. L : P[i + 2] = T[i]
        /\ \A i \in 1 .. 2 : P[i + 2 + L] = B[i]
    BY <2>0, <1>6, <1>7, <1>8
  <2>2. P[1 + 2 + L] = B[1] /\ P[2 + 2 + L] = B[2] /\ P[1] = A[1] /\ P[2] = A[2]
    BY <2>1
  <2>3. 1 + 2 + L = L + 3 /\ 2 + 2 + L = L + 4 /\ 2 + L + 2 = L + 4
    BY <1>0 DEF L
  <2> QED
    BY <2>1, <2>2, <2>3
<1> HIDE DEF P
<1>12. /\ J \o P \o W \in Seq(Steps) /\ Len(J \o P \o W) = L + 8
       /\ (J \o P \o W)[1] = J[1] /\ (J \o P \o W)[2] = J[2]
       /\ \A i \in 1 .. L + 4 : (J \o P \o W)[i + 2] = P[i]
       /\ (J \o P \o W)[L + 7] = W[1] /\ (J \o P \o W)[L + 8] = W[2]
  <2>a. J \in Seq(Steps) /\ P \in Seq(Steps) /\ W \in Seq(Steps)
    BY <1>6, <1>7, <1>11
  <2> DEFINE X == J \o P \o W
  <2>0. /\ X \in Seq(Steps) /\ Len(X) = Len(J) + Len(P) + Len(W)
        /\ \A i \in 1 .. Len(J) : X[i] = J[i]
        /\ \A i \in 1 .. Len(P) : X[i + Len(J)] = P[i]
        /\ \A i \in 1 .. Len(W) : X[i + Len(J) + Len(P)] = W[i]
    BY <2>a, ConcatThree
  <2> HIDE DEF X
  <2>1. /\ X \in Seq(Steps) /\ Len(X) = 2 + Len(P) + 2
        /\ \A i \in 1 .. 2 : X[i] = J[i]
        /\ \A i \in 1 .. Len(P) : X[i + 2] = P[i]
        /\ \A i \in 1 .. 2 : X[i + 2 + Len(P)] = W[i]
    BY <2>0, <1>6, <1>7
  <2>2. X[1 + 2 + Len(P)] = W[1] /\ X[2 + 2 + Len(P)] = W[2] /\ X[1] = J[1] /\ X[2] = J[2]
    BY <2>1
  <2>3. 1 + 2 + Len(P) = L + 7 /\ 2 + 2 + Len(P) = L + 8 /\ 2 + Len(P) + 2 = L + 8
    BY <1>0, <1>11 DEF L
  <2> QED
    BY <2>1, <2>2, <2>3, <1>11 DEF X
<1>13. Script(sb) = J \o P \o W
  BY <1>9 DEF P
<1>14. /\ Script(sb)[3] = A[1] /\ Script(sb)[4] = A[2]
       /\ \A i \in 1 .. L : Script(sb)[i + 4] = T[i]
       /\ Script(sb)[L + 5] = B[1] /\ Script(sb)[L + 6] = B[2]
  <2>1. \A i \in 1 .. L + 4 : Script(sb)[i + 2] = P[i]
    BY <1>12, <1>13
  <2>2. \A i \in 1 .. L : Script(sb)[i + 4] = T[i]
    <3> TAKE i \in 1 .. L
    <3>1. Script(sb)[(i + 2) + 2] = P[i + 2]
      BY <2>1, <1>0 DEF L
    <3> QED
      BY <3>1, <1>11, <1>0 DEF L
  <2>3. /\ Script(sb)[1 + 2] = P[1] /\ Script(sb)[2 + 2] = P[2]
        /\ Script(sb)[(L + 3) + 2] = P[L + 3] /\ Script(sb)[(L + 4) + 2] = P[L + 4]
    BY <2>1, <1>0 DEF L
  <2> QED
    BY <2>2, <2>3, <1>11, <1>0 DEF L
<1> QED
  BY <1>10, <1>12, <1>13, <1>14 DEF L

(* Where operation i of a format writes, with L blocks of inode table and J *)
(* of journal (0 for a flush).                                              *)
Where(L, J, i) ==
  IF i = 1 THEN 2 ELSE IF i = 2 \/ i = L + 8 THEN 0
  ELSE IF i <= L + 4 THEN J + i
  ELSE IF i = L + 5 THEN J + 5 ELSE IF i = L + 6 THEN J + L + 5 ELSE 1

(* Only the second and the last operation are flushes.                      *)
LEMMA ScriptAt ==
  ASSUME NEW sb \in Accepted, NEW L \in Nat, L = sb.inode_table_len,
         NEW J \in Nat, J = sb.journal_len, NEW i \in 1 .. L + 8
  PROVE  /\ Script(sb)[i].at = Where(L, J, i)
         /\ i # 2 /\ i # L + 8 => Script(sb)[i].op = "write"
         /\ i = 2 \/ i = L + 8 => Script(sb)[i] = Flush /\ Script(sb)[i].op = "flush"
         /\ 5 <= i /\ i <= L + 4 => Script(sb)[i].cell = Cell("table", <<>>)
<1>0. /\ L >= 1
      /\ sb.inode_bitmap_start = J + 3 /\ sb.block_bitmap_start = J + 4
      /\ sb.inode_table_start = J + 5 /\ sb.data_start = J + L + 5
  BY AcceptedShape
<1>1. \A a, c : Put(a, c).op = "write" /\ Put(a, c).at = a /\ Put(a, c).cell = c
  BY DEF Put
<1>2. Flush.op = "flush" /\ Flush.at = 0
  BY DEF Flush
<1> DEFINE step == Script(sb)[i]
<1>3. CASE i = 1
  <2>1. step = Put(2, Cell("jsuper", <<>>))
    BY <1>3, ScriptShape
  <2>2. step.op = "write" /\ step.at = 2
    BY <1>1, <2>1
  <2>3. i # 2 /\ i # L + 8 /\ ~(5 <= i /\ i <= L + 4) /\ Where(L, J, i) = 2
    BY <1>0, <1>3 DEF Where
  <2> QED
    BY <2>1, <2>2, <2>3
<1>4. CASE i = 2 \/ i = L + 8
  <2>1. step = Flush
    BY <1>4, ScriptShape
  <2>2. step.op = "flush" /\ step.at = 0
    BY <1>1, <1>2, <1>4, <2>1
  <2>3. ~(5 <= i /\ i <= L + 4) /\ Where(L, J, i) = 0
    BY <1>0, <1>4 DEF Where
  <2> QED
    BY <1>4, <2>1, <2>2, <2>3
<1>5. CASE i = 3
  <2>1. step = Put(J + 3, Cell("inodes", <<>>))
    BY <1>0, <1>5, ScriptShape
  <2>2. step.op = "write" /\ step.at = J + i
    BY <1>1, <1>2, <1>5, <2>1
  <2>3. i # 2 /\ i # L + 8 /\ ~(5 <= i /\ i <= L + 4) /\ Where(L, J, i) = J + i
    BY <1>0, <1>5 DEF Where
  <2> QED
    BY <2>1, <2>2, <2>3
<1>6. CASE i = 4
  <2>1. step = Put(J + 4, Cell("blocks", <<>>))
    BY <1>0, <1>6, ScriptShape
  <2>2. step.op = "write" /\ step.at = J + i
    BY <1>1, <1>2, <1>6, <2>1
  <2>3. i # 2 /\ i # L + 8 /\ ~(5 <= i /\ i <= L + 4) /\ Where(L, J, i) = J + i
    BY <1>0, <1>6 DEF Where
  <2> QED
    BY <2>1, <2>2, <2>3
<1>7. CASE 5 <= i /\ i <= L + 4
  <2>1. i - 4 \in 1 .. L /\ (i - 4) + 4 = i
    BY <1>7
  <2>2. Script(sb)[(i - 4) + 4] = Put(sb.inode_table_start + (i - 4) - 1, Cell("table", <<>>))
    BY <2>1, ScriptShape
  <2>3. sb.inode_table_start + (i - 4) - 1 = J + i
    BY <1>0
  <2>4. step = Put(J + i, Cell("table", <<>>))
    BY <2>1, <2>2, <2>3
  <2>5. step.op = "write" /\ step.at = J + i /\ step.cell = Cell("table", <<>>)
    BY <1>1, <2>4
  <2>6. i # 2 /\ i # L + 8 /\ Where(L, J, i) = J + i
    BY <1>7 DEF Where
  <2> QED
    BY <2>5, <2>6
<1>8. CASE i = L + 5
  <2>1. step = Put(J + 5, RootInode(sb))
    BY <1>0, <1>8, ScriptShape
  <2>2. step.op = "write" /\ step.at = J + 5
    BY <1>1, <1>2, <1>8, <2>1
  <2>3. i # 2 /\ i # L + 8 /\ ~(5 <= i /\ i <= L + 4) /\ Where(L, J, i) = J + 5
    BY <1>0, <1>8 DEF Where
  <2> QED
    BY <2>1, <2>2, <2>3
<1>9. CASE i = L + 6
  <2>1. step = Put(J + L + 5, Cell("dir", <<>>))
    BY <1>0, <1>9, ScriptShape
  <2>2. step.op = "write" /\ step.at = J + L + 5
    BY <1>1, <1>2, <1>9, <2>1
  <2>3. i # 2 /\ i # L + 8 /\ ~(5 <= i /\ i <= L + 4) /\ Where(L, J, i) = J + L + 5
    BY <1>0, <1>9 DEF Where
  <2> QED
    BY <2>1, <2>2, <2>3
<1>10. CASE i = L + 7
  <2>1. step = Put(1, Super(sb))
    BY <1>10, ScriptShape
  <2>2. step.op = "write" /\ step.at = 1
    BY <1>1, <1>2, <1>10, <2>1
  <2>3. i # 2 /\ i # L + 8 /\ ~(5 <= i /\ i <= L + 4) /\ Where(L, J, i) = 1
    BY <1>0, <1>10 DEF Where
  <2> QED
    BY <2>1, <2>2, <2>3
<1>11. i = 1 \/ i = 3 \/ i = 4 \/ i = L + 5 \/ i = L + 6 \/ i = L + 7
         \/ (5 <= i /\ i <= L + 4) \/ i = 2 \/ i = L + 8
  OBVIOUS
<1> QED
  BY <1>3, <1>4, <1>5, <1>6, <1>7, <1>8, <1>9, <1>10, <1>11

(* Everything a format writes is a block of the model.                      *)
LEMMA ScriptBlocks ==
  ASSUME NEW sb \in Accepted
  PROVE  /\ \A i \in 1 .. Len(Script(sb)) : Script(sb)[i].op = "write" => Script(sb)[i].at \in Blocks
         /\ 1 \in Blocks /\ 2 \in Blocks
         /\ \A a \in PartsOf(sb) : a \in Blocks /\ a > 2 /\ a < sb.total_blocks
<1>a. PICK L \in Nat : L = sb.inode_table_len
  BY AcceptedShape
<1>b. PICK J \in Nat : J = sb.journal_len
  BY AcceptedShape
<1>0. /\ L >= 1 /\ Len(Script(sb)) = L + 8
      /\ sb.inode_bitmap_start = J + 3 /\ sb.data_start = J + L + 5
      /\ sb.data_start < sb.total_blocks /\ sb.total_blocks \in Nat
  <2>1. Len(Script(sb)) = L + 8
    BY <1>a, ScriptShape
  <2> QED
    BY <1>a, <1>b, <2>1, AcceptedShape
<1>1. ASSUME NEW i \in 1 .. Len(Script(sb)), Script(sb)[i].op = "write"
      PROVE  Script(sb)[i].at \in Blocks
  <2>1. DOMAIN Script(sb) = 1 .. Len(Script(sb))
    BY ScriptShape, LenProperties
  <2>2. Script(sb)[i] \in {x \in ToSet(Script(sb)) : x.op = "write"}
    BY <1>1, <2>1 DEF ToSet
  <2>3. Script(sb)[i].at \in {step.at : step \in {x \in ToSet(Script(sb)) : x.op = "write"}}
    BY <2>2
  <2> QED
    BY <2>3 DEF Blocks
<1>2. 1 \in Blocks /\ 2 \in Blocks
  BY DEF Blocks, LOGFS_SUPER_BLOCKNO, LOGFS_JSUPER_BLOCKNO
<1>3. ASSUME NEW a \in PartsOf(sb)
      PROVE  a \in Blocks /\ a > 2 /\ a < sb.total_blocks
  <2>1. /\ a \in Int /\ J + 3 <= a /\ a <= J + L + 5
    BY <1>0, <1>3 DEF PartsOf
  <2>2. PICK i \in 1 .. L + 8 :
          (i = a - J /\ 3 <= i /\ i <= L + 4) \/ (i = L + 6 /\ a = J + L + 5)
    <3>1. CASE a = J + L + 5
      BY <3>1, L + 6 \in 1 .. L + 8
    <3>2. CASE a # J + L + 5
      BY <2>1, <3>2, a - J \in 1 .. L + 8
    <3> QED
      BY <3>1, <3>2
  <2>3. Script(sb)[i].op = "write" /\ Script(sb)[i].at = a
    <3>1. i # 2 /\ i # L + 8 /\ Where(L, J, i) = a
      BY <1>0, <2>1, <2>2 DEF Where
    <3> QED
      BY <1>a, <1>b, <3>1, ScriptAt
  <2>4. a \in Blocks
    BY <1>0, <1>1, <2>3
  <2> QED
    BY <1>0, <2>1, <2>4
<1> QED
  BY <1>1, <1>2, <1>3

(* Where each operation writes.                                             *)
LEMMA WhereValues ==
  ASSUME NEW L \in Nat, NEW J \in Nat, L >= 1
  PROVE  /\ Where(L, J, 1) = 2 /\ Where(L, J, 3) = J + 3 /\ Where(L, J, 4) = J + 4
         /\ \A i \in 3 .. L + 4 : Where(L, J, i) = J + i
         /\ Where(L, J, L + 5) = J + 5 /\ Where(L, J, L + 6) = J + L + 5
         /\ Where(L, J, L + 7) = 1
  BY DEF Where

(* Only the first block of the inode table, cleared by operation 5, is      *)
(* written again before the last flush.                                     *)
LEMMA WhereLast ==
  ASSUME NEW L \in Nat, NEW J \in Nat, L >= 1,
         NEW i \in 1 .. L + 7, i # 2, i # 5, NEW m \in i + 1 .. L + 7
  PROVE  Where(L, J, m) # Where(L, J, i)
  BY DEF Where

(* When only the superblock is left to write, or to flush, f is complete.   *)
LEMMA ScriptDone ==
  ASSUME NEW sb \in Accepted, NEW f,
         NEW k \in {sb.inode_table_len + 6, sb.inode_table_len + 7},
         \A i \in 1 .. k :
           Script(sb)[i].op = "write"
             /\ (\A m \in i + 1 .. k : Script(sb)[m].at # Script(sb)[i].at)
             => f[Script(sb)[i].at] = Script(sb)[i].cell
  PROVE  /\ Complete(f, sb.total_blocks, sb) /\ f[2].kind = "jsuper"
         /\ k = sb.inode_table_len + 7 => f[1] = Super(sb)
<1>a. PICK L \in Nat : L = sb.inode_table_len
  BY AcceptedShape
<1>b. PICK J \in Nat : J = sb.journal_len
  BY AcceptedShape
<1> DEFINE at(i) == Script(sb)[i].at
<1>0. /\ L >= 1 /\ Len(Script(sb)) = L + 8 /\ (k = L + 6 \/ k = L + 7) /\ k \in Nat
      /\ sb.inode_bitmap_start = J + 3 /\ sb.block_bitmap_start = J + 4
      /\ sb.inode_table_start = J + 5 /\ sb.data_start = J + L + 5
      /\ sb.data_start < sb.total_blocks /\ sb.total_blocks \in Nat
  <2>1. Len(Script(sb)) = L + 8
    BY <1>a, ScriptShape
  <2>2. (k = L + 6 \/ k = L + 7) /\ k \in Nat
    BY <1>a
  <2>3. /\ L >= 1 /\ sb.inode_bitmap_start = J + 3 /\ sb.block_bitmap_start = J + 4
        /\ sb.inode_table_start = J + 5 /\ sb.data_start = J + L + 5
        /\ sb.data_start < sb.total_blocks /\ sb.total_blocks \in Nat
    BY <1>a, <1>b, AcceptedShape
  <2> QED
    BY <2>1, <2>2, <2>3
<1>1. \A i \in 1 .. k : at(i) = Where(L, J, i)
  <2> TAKE i \in 1 .. k
  <2>1. i \in 1 .. L + 8
    BY <1>0
  <2> QED
    BY <1>a, <1>b, <2>1, ScriptAt
<1>2. \A i \in 1 .. k : i # 2 => Script(sb)[i].op = "write"
  <2> TAKE i \in 1 .. k
  <2>1. i \in 1 .. L + 8 /\ i # L + 8
    BY <1>0
  <2> QED
    BY <1>a, <1>b, <2>1, ScriptAt
<1>3. ASSUME NEW i \in 1 .. k, i # 2, \A m \in i + 1 .. k : at(m) # at(i)
      PROVE  f[at(i)] = Script(sb)[i].cell
  BY <1>2, <1>3
<1>4. \A a, c : Put(a, c).cell = c
  BY DEF Put
<1>n. L >= 1 /\ (k = L + 6 \/ k = L + 7)
  BY <1>0
<1>5. ASSUME NEW i \in 1 .. k, i # 2, i # 5
      PROVE  f[Where(L, J, i)] = Script(sb)[i].cell
  <2>1. ASSUME NEW m \in i + 1 .. k PROVE at(m) # at(i)
    <3>1. i \in 1 .. L + 7 /\ m \in i + 1 .. L + 7 /\ m \in 1 .. k
      BY <1>n
    <3>2. Where(L, J, m) # Where(L, J, i)
      BY <1>n, <1>5, <3>1, WhereLast
    <3> QED
      BY <1>1, <3>1, <3>2
  <2>2. f[at(i)] = Script(sb)[i].cell
    BY <1>3, <1>5, <2>1
  <2>3. at(i) = Where(L, J, i)
    BY <1>1
  <2> HIDE DEF at
  <2> QED
    BY <2>2, <2>3
<1> HIDE DEF at
<1>6. f[2] = Cell("jsuper", <<>>)
  <2>1. 1 \in 1 .. k /\ 1 # 2 /\ 1 # 5
    BY <1>n
  <2>2. Script(sb)[1].cell = Cell("jsuper", <<>>)
    BY <1>a, <1>4, ScriptShape
  <2>3. Where(L, J, 1) = 2
    BY <1>n, WhereValues
  <2> QED
    BY <1>5, <2>1, <2>2, <2>3
<1>7. f[J + 3] = Cell("inodes", <<>>)
  <2>1. 3 \in 1 .. k /\ 3 # 2 /\ 3 # 5
    BY <1>n
  <2>2. Script(sb)[3].cell = Cell("inodes", <<>>)
    BY <1>a, <1>4, ScriptShape
  <2>3. Where(L, J, 3) = J + 3
    BY <1>n, WhereValues
  <2> QED
    BY <1>5, <2>1, <2>2, <2>3
<1>8. f[J + 4] = Cell("blocks", <<>>)
  <2>1. 4 \in 1 .. k /\ 4 # 2 /\ 4 # 5
    BY <1>n
  <2>2. Script(sb)[4].cell = Cell("blocks", <<>>)
    BY <1>a, <1>4, ScriptShape
  <2>3. Where(L, J, 4) = J + 4
    BY <1>n, WhereValues
  <2> QED
    BY <1>5, <2>1, <2>2, <2>3
<1>9. ASSUME NEW a \in J + 6 .. J + L + 4
      PROVE  f[a] = Cell("table", <<>>)
  <2> DEFINE i == a - J
  <2>1. i \in 1 .. k /\ i # 2 /\ i # 5 /\ i \in 1 .. L + 8 /\ 5 <= i /\ i <= L + 4 /\ J + i = a
    BY <1>n
  <2> HIDE DEF i
  <2>2. Script(sb)[i].cell = Cell("table", <<>>)
    BY <1>a, <1>b, <2>1, ScriptAt
  <2>3. Where(L, J, i) = a
    <3>1. i \in 3 .. L + 4
      BY <2>1
    <3>2. Where(L, J, i) = J + i
      BY <1>n, <3>1, WhereValues
    <3> QED
      BY <2>1, <3>2
  <2> QED
    BY <1>5, <2>1, <2>2, <2>3
<1>10. f[J + 5] = RootInode(sb)
  <2>1. L + 5 \in 1 .. k /\ L + 5 # 2 /\ L + 5 # 5
    BY <1>n
  <2>2. Script(sb)[L + 5].cell = RootInode(sb)
    BY <1>a, <1>4, ScriptShape
  <2>3. Where(L, J, L + 5) = J + 5
    BY <1>n, WhereValues
  <2> QED
    BY <1>5, <2>1, <2>2, <2>3
<1>11. f[J + L + 5] = Cell("dir", <<>>)
  <2>1. L + 6 \in 1 .. k /\ L + 6 # 2 /\ L + 6 # 5
    BY <1>n
  <2>2. Script(sb)[L + 6].cell = Cell("dir", <<>>)
    BY <1>a, <1>4, ScriptShape
  <2>3. Where(L, J, L + 6) = J + L + 5
    BY <1>n, WhereValues
  <2> QED
    BY <1>5, <2>1, <2>2, <2>3
<1>12. ASSUME k = L + 7 PROVE f[1] = Super(sb)
  <2>1. L + 7 \in 1 .. k /\ L + 7 # 2 /\ L + 7 # 5
    BY <1>n, <1>12
  <2>2. Script(sb)[L + 7].cell = Super(sb)
    BY <1>a, <1>4, ScriptShape
  <2>3. Where(L, J, L + 7) = 1
    BY <1>n, WhereValues
  <2> QED
    BY <1>5, <2>1, <2>2, <2>3
<1>13. ASSUME NEW a \in PartsOf(sb)
       PROVE  Read(f, sb.total_blocks, a) = f[a] /\ f[a].used = FALSE
  <2>1. /\ a \in Int /\ J + 3 <= a /\ a <= J + L + 5 /\ a < sb.total_blocks
        /\ a \in {J + 3, J + 4, J + 5, J + L + 5} \/ a \in J + 6 .. J + L + 4
    <3>1. PartsOf(sb) = J + 3 .. J + L + 5 /\ J + L + 5 < sb.total_blocks /\ sb.total_blocks \in Nat
      BY <1>0 DEF PartsOf
    <3>2. a \in J + 3 .. J + L + 5
      BY <1>13, <3>1
    <3>3. a \in Int /\ J + 3 <= a /\ a <= J + L + 5
      BY <3>2
    <3>4. a < sb.total_blocks
      BY <3>1, <3>3
    <3>5. a = J + 3 \/ a = J + 4 \/ a = J + 5 \/ a = J + L + 5 \/ (J + 6 <= a /\ a <= J + L + 4)
      BY <3>3
    <3> QED
      BY <3>3, <3>4, <3>5
  <2>2. \A kind, arg : Cell(kind, arg).used = FALSE
    BY DEF Cell
  <2>3. RootInode(sb).used = FALSE
    BY <2>2 DEF RootInode
  <2>4. f[a].used = FALSE
    BY <1>7, <1>8, <1>9, <1>10, <1>11, <2>1, <2>2, <2>3
  <2> QED
    BY <2>1, <2>4 DEF Read
<1>14. \A kind, arg : Cell(kind, arg).kind = kind /\ Cell(kind, arg).arg = arg
  BY DEF Cell
<1>15. \A a \in {J + 3, J + 4, J + 5, J + L + 5} \cup (J + 6 .. J + L + 4) : a \in PartsOf(sb)
  BY <1>0 DEF PartsOf
<1>16. Complete(f, sb.total_blocks, sb)
  <2>1. /\ Read(f, sb.total_blocks, sb.inode_bitmap_start).kind = "inodes"
        /\ Read(f, sb.total_blocks, sb.block_bitmap_start).kind = "blocks"
        /\ Read(f, sb.total_blocks, sb.inode_table_start).kind = "root"
        /\ Read(f, sb.total_blocks, sb.inode_table_start).arg = <<sb.data_start>>
        /\ Read(f, sb.total_blocks, sb.data_start).kind = "dir"
    BY <1>0, <1>7, <1>8, <1>10, <1>11, <1>13, <1>14, <1>15 DEF RootInode, Read
  <2>2. \A a \in sb.inode_table_start + 1 .. sb.data_start - 1 :
          Read(f, sb.total_blocks, a).kind = "table"
    <3> TAKE a \in sb.inode_table_start + 1 .. sb.data_start - 1
    <3>0. sb.inode_table_start + 1 = J + 6 /\ sb.data_start - 1 = J + L + 4
      BY <1>0
    <3>1. a \in J + 6 .. J + L + 4
      BY <3>0
    <3>2. a \in PartsOf(sb)
      BY <3>1, <1>15
    <3>3. f[a] = Cell("table", <<>>)
      BY <3>1, <1>9
    <3>4. Read(f, sb.total_blocks, a) = f[a]
      BY <3>2, <1>13
    <3>5. f[a].kind = "table"
      BY <3>3 DEF Cell
    <3> QED
      BY <3>4, <3>5
  <2>3. \A a, b \in PartsOf(sb) : Read(f, sb.total_blocks, a).used = Read(f, sb.total_blocks, b).used
    BY <1>13
  <2> QED
    BY <2>1, <2>2, <2>3 DEF Complete, PartsOf
<1> QED
  BY <1>6, <1>12, <1>14, <1>16, <1>a

-----------------------------------------------------------------------------
(* The device and the type invariant. *)

(* What a write changes in a region.                                        *)
LEMMA RegionWrite ==
  ASSUME NEW A, NEW V, NEW r \in Region(A, V), NEW a \in A, NEW v \in V, NEW torn \in V,
         \A x \in A : r.cur[x] \in r.alt[x]
  PROVE  LET w == logfs_bdev_write(r, a, v, torn)
         IN  /\ w \in Region(A, V) /\ \A x \in A : w.cur[x] \in w.alt[x]
             /\ w.cur[a] = v /\ w.alt[a] = r.alt[a] \cup {v, torn}
             /\ \A x \in A : x # a => w.cur[x] = r.cur[x] /\ w.alt[x] = r.alt[x]
  BY DEF Region, logfs_bdev_write

(* A region on stable storage.                                              *)
LEMMA RegionSettled ==
  ASSUME NEW A, NEW V, NEW f \in [A -> V]
  PROVE  /\ Settled(f) \in Region(A, V) /\ Settled(f).cur = f
         /\ \A x \in A : Settled(f).alt[x] = {f[x]}
  BY DEF Region, Settled

(* What a power loss leaves is one of the contents it may leave.            *)
LEMMA ImagesSound ==
  ASSUME NEW A, NEW V, NEW r \in Region(A, V), \A x \in A : r.cur[x] \in r.alt[x],
         NEW f \in Images(r)
  PROVE  f \in [A -> V] /\ \A x \in A : f[x] \in r.alt[x]
<1> DEFINE even == {a \in Unflushed(r) : a % 2 = 0}
<1> DEFINE odd == Unflushed(r) \ even
<1> DEFINE image(g, h) ==
      [a \in DOMAIN r.cur |-> IF a \in even THEN g[a] ELSE IF a \in odd THEN h[a] ELSE r.cur[a]]
<1>0. Images(r) = {image(g, h) : g \in PartImages(r, even), h \in PartImages(r, odd)}
  BY DEF Images
<1> HIDE DEF image, even, odd
<1>1. PICK g \in PartImages(r, even), h \in PartImages(r, odd) : f = image(g, h)
  BY <1>0
<1>2. DOMAIN r.cur = A /\ r.cur \in [A -> V] /\ r.alt \in [A -> SUBSET V]
  BY DEF Region
<1>3. /\ \A a \in even : g[a] \in r.alt[a]
      /\ \A a \in odd : h[a] \in r.alt[a]
  BY <1>1 DEF PartImages
<1>4. \A a \in A : f[a] \in r.alt[a]
  BY <1>1, <1>2, <1>3 DEF image
<1>5. \A a \in A : f[a] \in V
  BY <1>2, <1>4
<1> QED
  BY <1>1, <1>2, <1>4, <1>5 DEF image

(* The same for the size of the file.                                       *)
LEMMA PowerLossSound ==
  ASSUME NEW A, NEW V, NEW r \in Region(A, V), \A x \in A : r.cur[x] \in r.alt[x],
         NEW f \in PowerLossImages(r)
  PROVE  f \in [A -> V] /\ \A x \in A : f[x] \in r.alt[x]
<1> DEFINE U == Unflushed(r)
<1>1. PICK g \in {g \in [U -> UNION {r.alt[a] : a \in U}] : \A a \in U : g[a] \in r.alt[a]} :
        f = [a \in DOMAIN r.cur |-> IF a \in U THEN g[a] ELSE r.cur[a]]
  BY DEF PowerLossImages
<1>2. DOMAIN r.cur = A /\ r.cur \in [A -> V] /\ r.alt \in [A -> SUBSET V]
  BY DEF Region
<1>3. \A a \in U : g[a] \in r.alt[a]
  OBVIOUS
<1> HIDE DEF U
<1>4. \A a \in A : f[a] \in r.alt[a]
  BY <1>1, <1>2, <1>3
<1>5. \A a \in A : f[a] \in V
  BY <1>2, <1>4
<1> QED
  BY <1>1, <1>2, <1>4, <1>5

(* Blocks are block numbers.                                                *)
LEMMA BlocksNat == \A a \in Blocks : a \in Nat
<1>1. ASSUME NEW sb \in Accepted, NEW x \in ToSet(Script(sb)) PROVE x.at \in Nat
  <2>1. Script(sb) \in Seq(Steps)
    BY ScriptShape
  <2>2. x \in Steps
    BY <2>1, LenProperties DEF ToSet
  <2> QED
    BY <2>2 DEF Steps
<1> QED
  BY <1>1 DEF Blocks, LOGFS_SUPER_BLOCKNO, LOGFS_JSUPER_BLOCKNO

(* The size of the file is one that some mkfs gave it, or 0.                *)
LEMMA SizeNat ==
  ASSUME TypeInv
  PROVE  /\ nblocks \in Nat /\ nblocks \in Totals \cup {0}
         /\ size.alt[SizeCell] \subseteq Totals \cup {0} /\ size.alt[SizeCell] \subseteq Nat
<1>1. size.alt \in [{SizeCell} -> SUBSET (Totals \cup {0})]
  BY DEF TypeInv, Region
<1>2. size.alt[SizeCell] \subseteq Totals \cup {0}
  BY <1>1
<1>3. nblocks \in size.alt[SizeCell]
  BY DEF TypeInv
<1>4. Totals \cup {0} \subseteq Nat
  BY FormatAssumption
<1>5. nblocks \in Totals \cup {0}
  BY <1>2, <1>3
<1> QED
  BY <1>2, <1>4, <1>5

(* The image before any format has its type.                                *)
LEMMA TypeInit ==
  ASSUME Init
  PROVE  TypeInv
<1>1. Blank \in Cells
  BY DEF Blank, Cell, Cells, Kinds
<1>2. [a \in Blocks |-> Blank] \in [Blocks -> Cells]
  BY <1>1
<1>3. dev \in Region(Blocks, Cells) /\ \A a \in Blocks : dev.cur[a] \in dev.alt[a]
  BY <1>2, RegionSettled DEF Init
<1>4. [x \in {SizeCell} |-> 0] \in [{SizeCell} -> Totals \cup {0}]
  OBVIOUS
<1>5. size \in Region({SizeCell}, Totals \cup {0}) /\ nblocks \in size.alt[SizeCell]
  BY <1>4, RegionSettled DEF Init, nblocks
<1>6. /\ todo \in Seq(Steps) /\ todo = <<>> /\ status = "new"
      /\ count \in [formats : Nat, crashes : Nat]
  BY DEF Init
<1> QED
  BY <1>3, <1>5, <1>6 DEF TypeInv

(* What mkfs does to the device before its first write.                     *)
LEMMA FormatStarts ==
  ASSUME TypeInv, NEW total \in Totals, NEW len \in JournalLens, logfs_fs_format(total, len)
  PROVE  /\ dev' \in Region(Blocks, Cells)
         /\ \A a \in Blocks :
              /\ dev'.cur[a] \in dev'.alt[a] /\ dev.alt[a] \subseteq dev'.alt[a]
              /\ a < nblocks => dev'.cur[a] = dev.cur[a] /\ dev'.alt[a] = dev.alt[a]
              /\ dev'.cur[a] \in {Blank, dev.cur[a]} /\ dev'.alt[a] \subseteq dev.alt[a] \cup {Blank}
         /\ size' \in Region({SizeCell}, Totals \cup {0})
         /\ size'.alt[SizeCell] = size.alt[SizeCell] \cup {total} /\ nblocks' = total
         /\ Fits(Layout(total, len)) => Layout(total, len) \in Accepted
<1>1. Blank \in Cells
  BY DEF Blank, Cell, Cells, Kinds
<1>2. /\ dev.cur \in [Blocks -> Cells] /\ dev.alt \in [Blocks -> SUBSET Cells]
      /\ \A a \in Blocks : dev.cur[a] \in dev.alt[a]
  BY DEF TypeInv, Region
<1>3. nblocks \in Nat /\ total \in Nat /\ len \in Nat
  BY SizeNat, FormatAssumption
<1> DEFINE gained == {a \in Blocks : nblocks <= a /\ a < total}
<1>4. /\ dev'.cur = [a \in Blocks |-> IF a \in gained THEN Blank ELSE dev.cur[a]]
      /\ dev'.alt = [a \in Blocks |-> dev.alt[a] \cup (IF a \in gained THEN {Blank} ELSE {})]
      /\ dev' = [cur |-> dev'.cur, alt |-> dev'.alt]
  BY DEF logfs_fs_format, Resized
<1> HIDE DEF gained
<1>5. dev' \in Region(Blocks, Cells)
  <2>1. dev'.cur \in [Blocks -> Cells] /\ dev'.alt \in [Blocks -> SUBSET Cells]
    BY <1>1, <1>2, <1>4
  <2> QED
    BY <1>4, <2>1 DEF Region
<1>6. ASSUME NEW a \in Blocks
      PROVE  /\ dev'.cur[a] \in dev'.alt[a] /\ dev.alt[a] \subseteq dev'.alt[a]
             /\ a < nblocks => dev'.cur[a] = dev.cur[a] /\ dev'.alt[a] = dev.alt[a]
             /\ dev'.cur[a] \in {Blank, dev.cur[a]} /\ dev'.alt[a] \subseteq dev.alt[a] \cup {Blank}
  <2>1. a \in Nat
    BY BlocksNat
  <2>2. a < nblocks => a \notin gained
    BY <1>3, <2>1 DEF gained
  <2> QED
    BY <1>2, <1>4, <2>2
<1>7. /\ size' \in Region({SizeCell}, Totals \cup {0})
      /\ size'.alt[SizeCell] = size.alt[SizeCell] \cup {total} /\ nblocks' = total
  <2>1. size' = logfs_bdev_write(size, SizeCell, total, total)
    BY DEF logfs_fs_format
  <2>2. /\ size \in Region({SizeCell}, Totals \cup {0})
        /\ \A x \in {SizeCell} : size.cur[x] \in size.alt[x]
    BY DEF TypeInv, nblocks
  <2> QED
    BY <2>1, <2>2, RegionWrite DEF nblocks
<1>8. ASSUME Fits(Layout(total, len)) PROVE Layout(total, len) \in Accepted
  <2>1. Layout(total, len).total_blocks = total /\ Layout(total, len).journal_len = len
    BY DEF Layout
  <2> QED
    BY <1>8, <2>1 DEF Accepted, logfs_fs_format
<1> QED
  BY <1>5, <1>6, <1>7, <1>8

(* The next operation of mkfs and the ones after it.                        *)
LEMMA NextOperation ==
  ASSUME TypeInv, todo # <<>>
  PROVE  /\ Head(todo) = todo[1] /\ Head(todo) \in Steps /\ Len(todo) \in Nat /\ Len(todo) >= 1
         /\ Head(todo).op = "write" => Head(todo).at \in Blocks
         /\ Head(todo).cell \in Cells /\ Head(todo).torn \in Cells
         /\ Tail(todo) \in Seq(Steps) /\ Len(Tail(todo)) = Len(todo) - 1
         /\ \A i \in 1 .. Len(Tail(todo)) : Tail(todo)[i] = todo[i + 1]
         /\ \A i \in DOMAIN Tail(todo) : Tail(todo)[i].op = "write" => Tail(todo)[i].at \in Blocks
         /\ Len(todo) = 1 <=> Tail(todo) = <<>>
<1>1. todo \in Seq(Steps) /\ \A i \in DOMAIN todo : todo[i].op = "write" => todo[i].at \in Blocks
  BY DEF TypeInv
<1>2. /\ Head(todo) \in Steps /\ Tail(todo) \in Seq(Steps)
      /\ Len(Tail(todo)) = Len(todo) - 1
      /\ \A i \in 1 .. Len(Tail(todo)) : Tail(todo)[i] = todo[i + 1]
  BY <1>1, HeadTailProperties
<1>3. Len(todo) \in Nat /\ DOMAIN todo = 1 .. Len(todo) /\ Len(todo) >= 1
  BY <1>1, LenProperties, EmptySeq
<1>4. Head(todo) = todo[1]
  BY <1>1, <1>3
<1>5. Head(todo).op = "write" => Head(todo).at \in Blocks
  BY <1>1, <1>3, <1>4
<1>6. Head(todo).cell \in Cells /\ Head(todo).torn \in Cells
  BY <1>2 DEF Steps
<1>7. Len(todo) = 1 <=> Tail(todo) = <<>>
  <2>1. Len(todo) = 1 <=> Len(Tail(todo)) = 0
    BY <1>2, <1>3
  <2>2. Tail(todo) = <<>> <=> Len(Tail(todo)) = 0
    BY <1>2, EmptySeq
  <2> QED
    BY <2>1, <2>2
<1>8. \A i \in DOMAIN Tail(todo) : Tail(todo)[i].op = "write" => Tail(todo)[i].at \in Blocks
  <2> TAKE i \in DOMAIN Tail(todo)
  <2>1. i \in 1 .. Len(Tail(todo))
    BY <1>2, LenProperties
  <2>2. i + 1 \in DOMAIN todo /\ Tail(todo)[i] = todo[i + 1]
    BY <1>2, <1>3, <2>1
  <2> QED
    BY <1>1, <2>2
<1> QED
  BY <1>2, <1>3, <1>4, <1>5, <1>6, <1>7, <1>8

(* What an operation of mkfs does to the device and to the size.            *)
LEMMA StepEffect ==
  ASSUME TypeInv, FormatStep
  PROVE  /\ dev' \in Region(Blocks, Cells) /\ \A a \in Blocks : dev'.cur[a] \in dev'.alt[a]
         /\ size' \in Region({SizeCell}, Totals \cup {0}) /\ nblocks' = nblocks
         /\ Head(todo).op = "write" =>
              /\ size' = size
              /\ dev'.cur[Head(todo).at] = Head(todo).cell
              /\ dev'.alt[Head(todo).at] = dev.alt[Head(todo).at] \cup {Head(todo).cell, Head(todo).torn}
              /\ \A a \in Blocks : a # Head(todo).at =>
                   dev'.cur[a] = dev.cur[a] /\ dev'.alt[a] = dev.alt[a]
         /\ Head(todo).op = "flush" =>
              /\ size'.alt[SizeCell] = {nblocks}
              /\ dev'.cur = dev.cur /\ \A a \in Blocks : dev'.alt[a] = {dev.cur[a]}
<1>1. /\ dev \in Region(Blocks, Cells) /\ \A a \in Blocks : dev.cur[a] \in dev.alt[a]
      /\ size \in Region({SizeCell}, Totals \cup {0})
  BY DEF TypeInv
<1>2. todo # <<>>
  BY DEF FormatStep
<1>3. CASE Head(todo).op = "write"
  <2>1. size' = size /\ dev' = logfs_bdev_write(dev, Head(todo).at, Head(todo).cell, Head(todo).torn)
    BY <1>3 DEF FormatStep
  <2>2. /\ Head(todo).at \in Blocks /\ Head(todo).cell \in Cells /\ Head(todo).torn \in Cells
    BY <1>2, <1>3, NextOperation
  <2>3. nblocks' = nblocks
    BY <2>1 DEF nblocks
  <2> QED
    BY <1>1, <1>3, <2>1, <2>2, <2>3, RegionWrite
<1>4. CASE Head(todo).op = "flush"
  <2>1. dev' = Settled(dev.cur) /\ size' = Settled(size.cur)
    BY <1>4 DEF FormatStep, logfs_bdev_flush
  <2>2. dev.cur \in [Blocks -> Cells] /\ size.cur \in [{SizeCell} -> Totals \cup {0}]
    BY <1>1 DEF Region
  <2>3. /\ dev' \in Region(Blocks, Cells) /\ dev'.cur = dev.cur
        /\ \A a \in Blocks : dev'.alt[a] = {dev.cur[a]}
    BY <2>1, <2>2, RegionSettled
  <2>4. /\ size' \in Region({SizeCell}, Totals \cup {0}) /\ size'.cur = size.cur
        /\ size'.alt[SizeCell] = {size.cur[SizeCell]}
    BY <2>1, <2>2, RegionSettled
  <2> QED
    BY <1>4, <2>3, <2>4 DEF nblocks
<1> QED
  BY <1>3, <1>4 DEF FormatStep

(* What a power loss leaves.                                                *)
LEMMA LossEffect ==
  ASSUME TypeInv, PowerLoss
  PROVE  /\ dev' \in Region(Blocks, Cells)
         /\ \A a \in Blocks : dev'.cur[a] \in dev.alt[a] /\ dev'.alt[a] = {dev'.cur[a]}
         /\ size' \in Region({SizeCell}, Totals \cup {0})
         /\ nblocks' \in size.alt[SizeCell] /\ size'.alt[SizeCell] = {nblocks'}
<1>1. /\ dev \in Region(Blocks, Cells) /\ \A a \in Blocks : dev.cur[a] \in dev.alt[a]
      /\ size \in Region({SizeCell}, Totals \cup {0})
      /\ \A x \in {SizeCell} : size.cur[x] \in size.alt[x]
  BY DEF TypeInv, nblocks
<1>2. PICK image \in Images(dev) : dev' = Settled(image)
  BY DEF PowerLoss
<1>3. PICK s \in PowerLossImages(size) : size' = Settled(s)
  BY DEF PowerLoss
<1>4. image \in [Blocks -> Cells] /\ \A a \in Blocks : image[a] \in dev.alt[a]
  BY <1>1, ImagesSound
<1>5. s \in [{SizeCell} -> Totals \cup {0}] /\ s[SizeCell] \in size.alt[SizeCell]
  BY <1>1, PowerLossSound
<1>6. /\ dev' \in Region(Blocks, Cells) /\ dev'.cur = image
      /\ \A a \in Blocks : dev'.alt[a] = {image[a]}
  BY <1>2, <1>4, RegionSettled
<1>7. /\ size' \in Region({SizeCell}, Totals \cup {0}) /\ size'.cur = s
      /\ size'.alt[SizeCell] = {s[SizeCell]}
  BY <1>3, <1>5, RegionSettled
<1> QED
  BY <1>4, <1>5, <1>6, <1>7 DEF nblocks

(* What mounting, use and unmounting leave.                                 *)
LEMMA MountEffect ==
  ASSUME TypeInv, logfs_fs_mount
  PROVE  /\ dev' \in Region(Blocks, Cells)
         /\ \A a \in Blocks :
              /\ dev'.cur[a].kind = dev.cur[a].kind /\ dev'.cur[a].arg = dev.cur[a].arg
              /\ dev'.cur[a].used = (a \in PartsOf(SuperLayout(dev.cur)) \/ dev.cur[a].used)
              /\ dev'.alt[a] = {dev'.cur[a]}
<1>1. dev.cur \in [Blocks -> Cells]
  BY DEF TypeInv, Region
<1> DEFINE parts == PartsOf(SuperLayout(dev.cur))
<1> DEFINE f == [a \in Blocks |-> [dev.cur[a] EXCEPT !.used = (a \in parts \/ @)]]
<1>2. dev' = Settled(f)
  BY DEF logfs_fs_mount, PartsOf
<1> HIDE DEF parts
<1>3. ASSUME NEW a \in Blocks
      PROVE  /\ f[a] \in Cells /\ f[a].kind = dev.cur[a].kind /\ f[a].arg = dev.cur[a].arg
             /\ f[a].used = (a \in parts \/ dev.cur[a].used)
  <2>1. dev.cur[a] \in Cells
    BY <1>1
  <2> QED
    BY <2>1 DEF Cells
<1>4. f \in [Blocks -> Cells]
  BY <1>3
<1> HIDE DEF f
<1>5. dev' \in Region(Blocks, Cells) /\ dev'.cur = f /\ \A a \in Blocks : dev'.alt[a] = {f[a]}
  BY <1>2, <1>4, RegionSettled
<1> QED
  BY <1>3, <1>5 DEF parts

(* What an operation that fails leaves.                                     *)
LEMMA StopEffect ==
  ASSUME TypeInv, FormatStops
  PROVE  /\ dev' \in Region(Blocks, Cells) /\ \A a \in Blocks : dev'.cur[a] \in dev'.alt[a]
         /\ \/ dev' = dev
            \/ /\ Head(todo).op = "write" /\ Head(todo).at \in Blocks
               /\ dev'.cur[Head(todo).at] = Head(todo).torn
               /\ dev'.alt[Head(todo).at] = dev.alt[Head(todo).at] \cup {Head(todo).torn}
               /\ \A a \in Blocks : a # Head(todo).at =>
                    dev'.cur[a] = dev.cur[a] /\ dev'.alt[a] = dev.alt[a]
<1>1. dev \in Region(Blocks, Cells) /\ \A a \in Blocks : dev.cur[a] \in dev.alt[a]
  BY DEF TypeInv
<1>2. todo # <<>>
  BY DEF FormatStops
<1>3. CASE dev' = dev
  BY <1>1, <1>3
<1>4. CASE /\ Head(todo).op = "write"
           /\ dev' = logfs_bdev_write(dev, Head(todo).at, Head(todo).torn, Head(todo).torn)
  <2>1. Head(todo).at \in Blocks /\ Head(todo).torn \in Cells
    BY <1>2, <1>4, NextOperation
  <2> QED
    BY <1>1, <1>4, <2>1, RegionWrite
<1> QED
  BY <1>3, <1>4 DEF FormatStops

(* Every step keeps the type.                                               *)
LEMMA TypeStep ==
  ASSUME TypeInv, [Next]_vars
  PROVE  TypeInv'
<1>1. CASE \E total \in Totals, len \in JournalLens : logfs_fs_format(total, len)
  <2>1. PICK total \in Totals, len \in JournalLens : logfs_fs_format(total, len)
    BY <1>1
  <2> DEFINE sb == Layout(total, len)
  <2>2. /\ dev' \in Region(Blocks, Cells) /\ \A a \in Blocks : dev'.cur[a] \in dev'.alt[a]
        /\ size' \in Region({SizeCell}, Totals \cup {0}) /\ nblocks' \in size'.alt[SizeCell]
        /\ Fits(sb) => sb \in Accepted
    BY <2>1, FormatStarts
  <2>3. /\ todo' = (IF Fits(sb) THEN Script(sb) ELSE <<>>)
        /\ status' = (IF Fits(sb) THEN "running" ELSE "failed")
        /\ count' = [count EXCEPT !.formats = @ + 1]
    BY <2>1 DEF logfs_fs_format
  <2>4. count' \in [formats : Nat, crashes : Nat]
    BY <2>3 DEF TypeInv
  <2>5. CASE Fits(sb)
    <3>1. /\ Script(sb) \in Seq(Steps) /\ Len(Script(sb)) = sb.inode_table_len + 8
          /\ sb.inode_table_len \in Nat
      BY <2>2, <2>5, ScriptShape, AcceptedShape
    <3>2. Script(sb) # <<>>
      BY <3>1, EmptySeq
    <3>3. \A i \in DOMAIN Script(sb) : Script(sb)[i].op = "write" => Script(sb)[i].at \in Blocks
      BY <2>2, <2>5, <3>1, ScriptBlocks, LenProperties
    <3> QED
      BY <2>2, <2>3, <2>4, <2>5, <3>1, <3>2, <3>3 DEF TypeInv
  <2>6. CASE ~Fits(sb)
    BY <2>2, <2>3, <2>4, <2>6, EmptySeq DEF TypeInv
  <2> QED
    BY <2>5, <2>6
<1>2. CASE FormatStep
  <2>1. /\ todo # <<>> /\ todo' = Tail(todo) /\ count' = count
        /\ status' = IF Len(todo) = 1 THEN "ok" ELSE "running"
    BY <1>2 DEF FormatStep
  <2>2. /\ Tail(todo) \in Seq(Steps)
        /\ \A i \in DOMAIN Tail(todo) : Tail(todo)[i].op = "write" => Tail(todo)[i].at \in Blocks
        /\ Len(todo) = 1 <=> Tail(todo) = <<>>
    BY <2>1, NextOperation
  <2>3. size'.alt[SizeCell] = {nblocks} \/ size' = size
    BY <1>2, StepEffect DEF FormatStep
  <2>4. nblocks' \in size'.alt[SizeCell]
    BY <1>2, <2>3, StepEffect DEF TypeInv
  <2> QED
    BY <1>2, <2>1, <2>2, <2>4, StepEffect DEF TypeInv
<1>3. CASE FormatStops
  <2>1. todo' = <<>> /\ status' = "failed" /\ size' = size /\ count' = count
    BY <1>3 DEF FormatStops
  <2>2. nblocks' = nblocks
    BY <2>1 DEF nblocks
  <2> QED
    BY <1>3, <2>1, <2>2, StopEffect, EmptySeq DEF TypeInv
<1>4. CASE PowerLoss
  <2>1. /\ todo' = <<>> /\ status' = (IF todo = <<>> THEN status ELSE "failed")
        /\ count' = [count EXCEPT !.crashes = @ + 1]
    BY <1>4 DEF PowerLoss
  <2>2. count' \in [formats : Nat, crashes : Nat]
    BY <2>1 DEF TypeInv
  <2>3. \A a \in Blocks : dev'.cur[a] \in dev'.alt[a]
    BY <1>4, LossEffect
  <2> QED
    BY <1>4, <2>1, <2>2, <2>3, LossEffect, EmptySeq DEF TypeInv
<1>5. CASE logfs_fs_mount
  <2>1. UNCHANGED <<size, todo, status, count>>
    BY <1>5 DEF logfs_fs_mount
  <2>2. nblocks' = nblocks
    BY <2>1 DEF nblocks
  <2>3. \A a \in Blocks : dev'.cur[a] \in dev'.alt[a]
    BY <1>5, MountEffect
  <2> QED
    BY <1>5, <2>1, <2>2, <2>3, MountEffect DEF TypeInv
<1>6. CASE UNCHANGED vars
  BY <1>6 DEF TypeInv, vars, nblocks
<1> QED
  BY <1>1, <1>2, <1>3, <1>4, <1>5, <1>6 DEF Next

(* Every block of the image holds something mkfs writes, the size is one    *)
(* that mkfs was given, and mkfs runs exactly while it has something to do. *)
THEOREM TypeCorrect == Spec => []TypeOK
<1>1. TypeInv => TypeOK
  <2> SUFFICES ASSUME TypeInv PROVE TypeOK
    OBVIOUS
  <2>1. /\ dev.cur \in [Blocks -> Cells] /\ dev.alt \in [Blocks -> SUBSET Cells]
        /\ \A a \in Blocks : dev.cur[a] \in dev.alt[a]
    BY DEF TypeInv, Region
  <2>2. \A c \in Cells : IsCell(c)
    BY DEF Cells, IsCell
  <2>3. size.alt[SizeCell] \subseteq Totals \cup {0} /\ nblocks \in size.alt[SizeCell]
    BY SizeNat DEF TypeInv
  <2> QED
    BY <2>1, <2>2, <2>3 DEF TypeInv, TypeOK
<1> QED
  BY <1>1, TypeInit, TypeStep, PTL DEF Spec

-----------------------------------------------------------------------------
(* The progress of mkfs. *)

(* The parts of a layout are among its blocks.                              *)
LEMMA PartsHold ==
  ASSUME NEW sb \in Accepted
  PROVE  /\ sb.inode_bitmap_start \in PartsOf(sb) /\ sb.block_bitmap_start \in PartsOf(sb)
         /\ sb.inode_table_start \in PartsOf(sb) /\ sb.data_start \in PartsOf(sb)
         /\ \A a \in sb.inode_table_start + 1 .. sb.data_start - 1 : a \in PartsOf(sb)
<1>a. PICK L \in Nat : L = sb.inode_table_len
  BY AcceptedShape
<1>b. PICK J \in Nat : J = sb.journal_len
  BY AcceptedShape
<1>1. /\ L >= 1 /\ sb.inode_bitmap_start = J + 3 /\ sb.block_bitmap_start = J + 4
      /\ sb.inode_table_start = J + 5 /\ sb.data_start = J + L + 5
  BY <1>a, <1>b, AcceptedShape
<1>2. PartsOf(sb) = J + 3 .. J + L + 5
  BY <1>1 DEF PartsOf
<1>3. sb.inode_table_start + 1 = J + 6 /\ sb.data_start - 1 = J + L + 4
  BY <1>1
<1>4. J + 3 \in PartsOf(sb) /\ J + 4 \in PartsOf(sb) /\ J + 5 \in PartsOf(sb) /\ J + L + 5 \in PartsOf(sb)
  BY <1>1, <1>2
<1>5. \A a \in J + 6 .. J + L + 4 : a \in PartsOf(sb)
  BY <1>2
<1> QED
  BY <1>1, <1>3, <1>4, <1>5

(* Only the blocks of the layout decide whether an image is complete.       *)
LEMMA CompleteSame ==
  ASSUME NEW sb \in Accepted, NEW f, NEW g,
         \A a \in PartsOf(sb) : f[a] = g[a], Complete(f, sb.total_blocks, sb)
  PROVE  Complete(g, sb.total_blocks, sb)
<1>1. \A a \in PartsOf(sb) : Read(g, sb.total_blocks, a) = Read(f, sb.total_blocks, a)
  BY DEF Read
<1>2. /\ sb.inode_bitmap_start \in PartsOf(sb) /\ sb.block_bitmap_start \in PartsOf(sb)
      /\ sb.inode_table_start \in PartsOf(sb) /\ sb.data_start \in PartsOf(sb)
      /\ \A a \in sb.inode_table_start + 1 .. sb.data_start - 1 : a \in PartsOf(sb)
  BY PartsHold
<1> QED
  BY <1>1, <1>2 DEF Complete, PartsOf

(* A use of the file system marks all of its blocks.                        *)
LEMMA CompleteUsed ==
  ASSUME NEW sb \in Accepted, NEW f, NEW g, Complete(f, sb.total_blocks, sb),
         \A a \in PartsOf(sb) : g[a].kind = f[a].kind /\ g[a].arg = f[a].arg /\ g[a].used = TRUE
  PROVE  Complete(g, sb.total_blocks, sb)
<1>1. \A a \in PartsOf(sb) : /\ Read(f, sb.total_blocks, a) = f[a]
                             /\ Read(g, sb.total_blocks, a) = g[a]
  BY ScriptBlocks DEF Read
<1>2. /\ sb.inode_bitmap_start \in PartsOf(sb) /\ sb.block_bitmap_start \in PartsOf(sb)
      /\ sb.inode_table_start \in PartsOf(sb) /\ sb.data_start \in PartsOf(sb)
      /\ \A a \in sb.inode_table_start + 1 .. sb.data_start - 1 : a \in PartsOf(sb)
  BY PartsHold
<1>3. /\ f[sb.inode_bitmap_start].kind = "inodes" /\ f[sb.block_bitmap_start].kind = "blocks"
      /\ f[sb.inode_table_start].kind = "root"
      /\ f[sb.inode_table_start].arg = <<sb.data_start>>
      /\ \A a \in sb.inode_table_start + 1 .. sb.data_start - 1 : f[a].kind = "table"
      /\ f[sb.data_start].kind = "dir"
  BY <1>1, <1>2 DEF Complete
<1>4. /\ Read(g, sb.total_blocks, sb.inode_bitmap_start).kind = "inodes"
      /\ Read(g, sb.total_blocks, sb.block_bitmap_start).kind = "blocks"
      /\ Read(g, sb.total_blocks, sb.inode_table_start).kind = "root"
      /\ Read(g, sb.total_blocks, sb.inode_table_start).arg = <<sb.data_start>>
      /\ Read(g, sb.total_blocks, sb.data_start).kind = "dir"
  BY <1>1, <1>2, <1>3
<1>5. \A a \in sb.inode_table_start + 1 .. sb.data_start - 1 :
        Read(g, sb.total_blocks, a).kind = "table"
  BY <1>1, <1>2, <1>3
<1>6. \A a, b \in PartsOf(sb) : Read(g, sb.total_blocks, a).used = Read(g, sb.total_blocks, b).used
  BY <1>1
<1> QED
  BY <1>4, <1>5, <1>6 DEF Complete, PartsOf

(* The first flush makes the size durable; an operation leaves what earlier *)
(* ones wrote elsewhere.                                                    *)
LEMMA RunningStep ==
  ASSUME TypeInv, FormatStep, NEW sb \in Accepted, NEW k \in Nat, Running(sb, k)
  PROVE  Running(sb, k + 1)'
<1> DEFINE script == Script(sb)
<1>0. /\ script \in Seq(Steps) /\ Len(script) = sb.inode_table_len + 8 /\ sb.inode_table_len \in Nat
      /\ sb.inode_table_len >= 1 /\ Len(script) \in Nat
  BY ScriptShape, AcceptedShape
<1>1. todo # <<>> /\ todo' = Tail(todo)
  BY DEF FormatStep
<1>2. /\ Len(todo) = Len(script) - k /\ nblocks = sb.total_blocks
      /\ \A i \in 1 .. Len(todo) : todo[i] = script[k + i]
      /\ k >= 2 => size.alt[SizeCell] = {nblocks}
  BY DEF Running
<1>3. /\ Head(todo) = todo[1] /\ Len(todo) \in Nat /\ Len(todo) >= 1
      /\ Len(Tail(todo)) = Len(todo) - 1
      /\ \A i \in 1 .. Len(Tail(todo)) : Tail(todo)[i] = todo[i + 1]
      /\ Head(todo).op = "write" => Head(todo).at \in Blocks
      /\ Head(todo) \in Steps
  BY <1>1, NextOperation
<1>4. Head(todo) = script[k + 1] /\ k + 1 \in 1 .. Len(script)
  BY <1>0, <1>2, <1>3
<1> HIDE DEF script
<1>5. Len(todo') = Len(script) - (k + 1)
  <2>1. Len(todo') = (Len(script) - k) - 1
    BY <1>1, <1>2, <1>3
  <2> QED
    BY <1>0, <2>1
<1>6. ASSUME NEW i \in 1 .. Len(todo') PROVE todo'[i] = script[(k + 1) + i]
  <2>1. i \in 1 .. Len(Tail(todo)) /\ i + 1 \in 1 .. Len(todo)
    BY <1>1, <1>3
  <2>2. todo'[i] = script[k + (i + 1)]
    BY <1>1, <1>2, <1>3, <2>1
  <2>3. k + (i + 1) = (k + 1) + i
    BY <2>1
  <2> QED
    BY <2>2, <2>3
<1>7. nblocks' = sb.total_blocks
  BY <1>2, StepEffect
<1>8. ASSUME k + 1 >= 2 PROVE size'.alt[SizeCell] = {nblocks'}
  <2>1. CASE k = 1
    <3>1. Head(todo).op = "flush"
      BY <1>4, <2>1, ScriptShape DEF script, Flush
    <3> QED
      BY <1>2, <3>1, StepEffect
  <2>2. CASE k # 1
    <3>1. size.alt[SizeCell] = {nblocks}
      BY <1>2, <1>8, <2>2
    <3>2. Head(todo).op = "write" \/ Head(todo).op = "flush"
      BY DEF FormatStep
    <3> QED
      BY <3>1, <3>2, StepEffect
  <2> QED
    BY <2>1, <2>2
<1>9. ASSUME NEW i \in 1 .. k + 1, script[i].op = "write",
             \A m \in i + 1 .. k + 1 : script[m].at # script[i].at
      PROVE  dev'.cur[script[i].at] = script[i].cell
  <2>1. CASE i = k + 1
    BY <1>4, <1>9, <2>1, StepEffect
  <2>2. CASE i # k + 1
    <3>1. i \in 1 .. k /\ k + 1 \in i + 1 .. k + 1 /\ \A m \in i + 1 .. k : m \in i + 1 .. k + 1
      BY <2>2
    <3>2. dev.cur[script[i].at] = script[i].cell
      BY <1>9, <3>1 DEF Running, script
    <3>3. script[i].at # Head(todo).at
      BY <1>4, <1>9, <3>1
    <3>4. script[i].at \in Blocks
      <4>1. i \in 1 .. Len(script)
        BY <1>0, <1>4, <3>1
      <4> QED
        BY <1>9, <4>1, ScriptBlocks DEF script
    <3>5. Head(todo).op = "write" \/ Head(todo).op = "flush"
      BY DEF FormatStep
    <3> QED
      BY <3>2, <3>3, <3>4, <3>5, StepEffect
  <2> QED
    BY <2>1, <2>2
<1> QED
  BY <1>5, <1>6, <1>7, <1>8, <1>9 DEF Running, script

(* The last flush of a format.                                              *)
LEMMA LastStep ==
  ASSUME TypeInv, FormatStep, NEW sb \in Accepted, NEW k \in Nat, Running(sb, k), Len(todo) = 1
  PROVE  Done(sb)'
<1>0. /\ Len(Script(sb)) = sb.inode_table_len + 8 /\ sb.inode_table_len \in Nat
  BY ScriptShape, AcceptedShape
<1>1. k = sb.inode_table_len + 7
  BY <1>0 DEF Running
<1>2. Complete(dev.cur, sb.total_blocks, sb) /\ dev.cur[2].kind = "jsuper" /\ dev.cur[1] = Super(sb)
  BY <1>1, ScriptDone DEF Running
<1>3. Head(todo).op = "flush"
  <2>1. todo[1] = Script(sb)[k + 1]
    <3>1. 1 \in 1 .. Len(todo)
      OBVIOUS
    <3> QED
      BY <3>1 DEF Running
  <2>2. Script(sb)[k + 1] = Flush
    <3>1. k + 1 = sb.inode_table_len + 8
      BY <1>0, <1>1
    <3> QED
      BY <3>1, ScriptShape
  <2>3. Head(todo) = todo[1]
    BY NextOperation DEF FormatStep
  <2> QED
    BY <2>1, <2>2, <2>3 DEF Flush
<1>4. /\ dev'.cur = dev.cur /\ \A a \in Blocks : dev'.alt[a] = {dev.cur[a]}
      /\ size'.alt[SizeCell] = {sb.total_blocks}
  BY <1>3, StepEffect DEF Running
<1>5. 1 \in Blocks /\ 2 \in Blocks /\ \A a \in PartsOf(sb) : a \in Blocks
  BY ScriptBlocks
<1>6. Holds(sb)'
  BY <1>2, <1>4, <1>5 DEF Holds
<1> QED
  BY <1>2, <1>4, <1>5, <1>6 DEF Done, LOGFS_SUPER_BLOCKNO, LOGFS_JSUPER_BLOCKNO

(* A block is its three fields.                                             *)
LEMMA CellsEqual ==
  ASSUME NEW c \in Cells, NEW d \in Cells, c.kind = d.kind, c.arg = d.arg, c.used = d.used
  PROVE  c = d
  BY DEF Cells

(* A finished image stays as it is through power losses and mounts.         *)
LEMMA DoneStays ==
  ASSUME TypeInv, NEW sb \in Accepted, Done(sb), PowerLoss \/ logfs_fs_mount
  PROVE  Done(sb)'
<1>1. 1 \in Blocks /\ 2 \in Blocks /\ \A a \in PartsOf(sb) : a \in Blocks /\ a > 2
  BY ScriptBlocks
<1>2. /\ dev.cur[1] = Super(sb) /\ dev.cur[2].kind = "jsuper"
      /\ dev.alt[1] = {dev.cur[1]} /\ dev.alt[2] = {dev.cur[2]}
      /\ size.alt[SizeCell] = {sb.total_blocks}
      /\ Complete(dev.cur, sb.total_blocks, sb)
      /\ \A a \in PartsOf(sb) : dev.alt[a] = {dev.cur[a]}
  BY DEF Done, Holds, LOGFS_SUPER_BLOCKNO, LOGFS_JSUPER_BLOCKNO
<1>3. CASE PowerLoss
  <2>1. \A a \in PartsOf(sb) \cup {1, 2} : dev'.cur[a] = dev.cur[a] /\ dev'.alt[a] = {dev'.cur[a]}
    BY <1>1, <1>2, <1>3, LossEffect
  <2>2. size'.alt[SizeCell] = {sb.total_blocks}
    BY <1>2, <1>3, LossEffect
  <2>3. Complete(dev'.cur, sb.total_blocks, sb)
    <3>1. \A a \in PartsOf(sb) : dev.cur[a] = dev'.cur[a]
      BY <2>1
    <3> QED
      BY <1>2, <3>1, CompleteSame
  <2> QED
    BY <1>2, <2>1, <2>2, <2>3 DEF Done, Holds, LOGFS_SUPER_BLOCKNO, LOGFS_JSUPER_BLOCKNO
<1>4. CASE logfs_fs_mount
  <2>1. SuperLayout(dev.cur) = sb
    BY <1>2, SuperNames DEF SuperLayout, LOGFS_SUPER_BLOCKNO
  <2>2. \A a \in Blocks :
          /\ dev'.cur[a].kind = dev.cur[a].kind /\ dev'.cur[a].arg = dev.cur[a].arg
          /\ dev'.cur[a].used = (a \in PartsOf(sb) \/ dev.cur[a].used)
          /\ dev'.alt[a] = {dev'.cur[a]}
    BY <1>4, <2>1, MountEffect
  <2>3. dev'.cur[1] = Super(sb)
    <3>1. dev.cur[1] \in Cells /\ dev'.cur[1] \in Cells
      BY <1>1, <1>4, MountEffect DEF TypeInv, Region
    <3>2. 1 \notin PartsOf(sb)
      BY <1>1
    <3>3. dev'.cur[1].used = dev.cur[1].used
      BY <1>1, <2>2, <3>1, <3>2 DEF Cells
    <3>4. dev'.cur[1].kind = dev.cur[1].kind /\ dev'.cur[1].arg = dev.cur[1].arg
      BY <1>1, <2>2
    <3>5. dev'.cur[1] = dev.cur[1]
      BY <3>1, <3>3, <3>4, CellsEqual
    <3> QED
      BY <1>2, <3>5
  <2>4. Complete(dev'.cur, sb.total_blocks, sb)
    <3>1. \A a \in PartsOf(sb) :
            /\ dev'.cur[a].kind = dev.cur[a].kind /\ dev'.cur[a].arg = dev.cur[a].arg
            /\ dev'.cur[a].used = TRUE
      BY <1>1, <2>2
    <3> QED
      BY <1>2, <3>1, CompleteUsed
  <2>5. size' = size
    BY <1>4 DEF logfs_fs_mount
  <2> QED
    BY <1>1, <1>2, <2>2, <2>3, <2>4, <2>5 DEF Done, Holds, LOGFS_SUPER_BLOCKNO, LOGFS_JSUPER_BLOCKNO
<1> QED
  BY <1>3, <1>4

(* Before the first format nothing is promised.                             *)
LEMMA FormatInvInit ==
  ASSUME Init
  PROVE  FormatInv
  BY TypeInit DEF FormatInv, Init

(* Every step keeps the inductive invariant of FormattedStaysDurable.       *)
LEMMA FormatInvStep ==
  ASSUME FormatInv, [Next]_vars
  PROVE  FormatInv'
<1>0. /\ TypeInv /\ TypeInv'
      /\ todo # <<>> => \E sb \in Accepted, k \in Nat : Running(sb, k)
      /\ status = "ok" => \E sb \in Accepted : Done(sb)
  BY TypeStep DEF FormatInv
<1>1. ASSUME NEW total \in Totals, NEW len \in JournalLens, logfs_fs_format(total, len)
      PROVE  FormatInv'
  <2> DEFINE sb == Layout(total, len)
  <2>1. /\ todo' = (IF Fits(sb) THEN Script(sb) ELSE <<>>)
        /\ status' = (IF Fits(sb) THEN "running" ELSE "failed")
    BY <1>1 DEF logfs_fs_format
  <2>2. nblocks' = total /\ (Fits(sb) => sb \in Accepted)
    BY <1>0, <1>1, FormatStarts
  <2>3. sb.total_blocks = total
    BY DEF Layout
  <2> HIDE DEF sb
  <2>4. CASE Fits(sb)
    <3>1. sb \in Accepted /\ todo' = Script(sb) /\ status' = "running"
      BY <2>1, <2>2, <2>4
    <3>2. Len(Script(sb)) \in Nat
      BY <3>1, ScriptShape, AcceptedShape
    <3>3. \A i \in 1 .. Len(Script(sb)) : Script(sb)[i] = Script(sb)[0 + i]
      BY <3>2
    <3>4. Running(sb, 0)'
      BY <2>2, <2>3, <3>1, <3>2, <3>3 DEF Running
    <3> QED
      BY <1>0, <3>1, <3>4 DEF FormatInv
  <2>5. CASE ~ Fits(sb)
    BY <1>0, <2>1, <2>5 DEF FormatInv
  <2> QED
    BY <2>4, <2>5
<1>2. CASE FormatStep
  <2>1. todo # <<>> /\ status' = (IF Len(todo) = 1 THEN "ok" ELSE "running")
    BY <1>2 DEF FormatStep
  <2>2. PICK sb \in Accepted, k \in Nat : Running(sb, k)
    BY <1>0, <2>1
  <2>3. Running(sb, k + 1)' /\ k + 1 \in Nat
    BY <1>0, <1>2, <2>2, RunningStep
  <2>4. status' = "ok" => Done(sb)'
    BY <1>0, <1>2, <2>1, <2>2, LastStep
  <2> QED
    BY <1>0, <2>3, <2>4 DEF FormatInv
<1>3. CASE FormatStops
  BY <1>0, <1>3 DEF FormatInv, FormatStops
<1>4. CASE PowerLoss
  <2>1. todo' = <<>> /\ status' = (IF todo = <<>> THEN status ELSE "failed")
    BY <1>4 DEF PowerLoss
  <2>2. ASSUME status' = "ok" PROVE \E sb \in Accepted : Done(sb)'
    <3>1. PICK sb \in Accepted : Done(sb)
      BY <1>0, <2>1, <2>2
    <3> QED
      BY <1>0, <1>4, <3>1, DoneStays
  <2> QED
    BY <1>0, <2>1, <2>2 DEF FormatInv
<1>5. CASE logfs_fs_mount
  <2>1. todo' = <<>> /\ status' = status
    BY <1>5 DEF logfs_fs_mount
  <2>2. ASSUME status' = "ok" PROVE \E sb \in Accepted : Done(sb)'
    <3>1. PICK sb \in Accepted : Done(sb)
      BY <1>0, <2>1, <2>2
    <3> QED
      BY <1>0, <1>5, <3>1, DoneStays
  <2> QED
    BY <1>0, <2>1, <2>2 DEF FormatInv
<1>6. CASE UNCHANGED vars
  <2>1. dev' = dev /\ size' = size /\ todo' = todo /\ status' = status
    BY <1>6 DEF vars
  <2>2. \A sb, k : Running(sb, k)' <=> Running(sb, k)
    BY <2>1 DEF Running, nblocks
  <2>3. \A sb : Done(sb)' <=> Done(sb)
    BY <2>1 DEF Done, Holds
  <2> QED
    BY <1>0, <2>1, <2>2, <2>3 DEF FormatInv
<1> QED
  BY <1>1, <1>2, <1>3, <1>4, <1>5, <1>6 DEF Next

(* fs.h, logfs_fs_format: once mkfs has reported success, every image that  *)
(* a power loss may leave is accepted by logfs_fs_mount and is a complete   *)
(* file system, whatever was on the device before, and after any number of  *)
(* mounts; no condition is excluded.                                        *)
THEOREM FormattedStaysDurable == Spec => []FormattedIsDurable
<1>1. FormatInv => FormattedIsDurable
  <2>1. SUFFICES ASSUME FormatInv, status = "ok",
                        NEW image \in Images(dev), NEW s \in PowerLossImages(size)
                 PROVE  /\ Mountable(image, s[SizeCell])
                        /\ Complete(image, s[SizeCell], SuperLayout(image))
    BY DEF FormattedIsDurable
  <2>2. PICK sb \in Accepted : Done(sb)
    BY <2>1 DEF FormatInv
  <2>3. /\ dev.cur[1] = Super(sb) /\ dev.cur[2].kind = "jsuper"
        /\ dev.alt[1] = {dev.cur[1]} /\ dev.alt[2] = {dev.cur[2]}
        /\ size.alt[SizeCell] = {sb.total_blocks}
        /\ Complete(dev.cur, sb.total_blocks, sb)
        /\ \A a \in PartsOf(sb) : dev.alt[a] = {dev.cur[a]}
    BY <2>2 DEF Done, Holds, LOGFS_SUPER_BLOCKNO, LOGFS_JSUPER_BLOCKNO
  <2>4. /\ dev \in Region(Blocks, Cells) /\ \A a \in Blocks : dev.cur[a] \in dev.alt[a]
        /\ size \in Region({SizeCell}, Totals \cup {0})
        /\ \A x \in {SizeCell} : size.cur[x] \in size.alt[x]
    BY <2>1 DEF FormatInv, TypeInv, nblocks
  <2>5. \A a \in Blocks : image[a] \in dev.alt[a]
    BY <2>4, ImagesSound
  <2>6. s[SizeCell] = sb.total_blocks
    <3>1. \A x \in {SizeCell} : s[x] \in size.alt[x]
      BY <2>4, PowerLossSound
    <3> QED
      BY <2>3, <3>1
  <2>7. 1 \in Blocks /\ 2 \in Blocks /\ \A a \in PartsOf(sb) : a \in Blocks
    BY ScriptBlocks
  <2>8. /\ image[1] = Super(sb) /\ image[2] = dev.cur[2]
        /\ \A a \in PartsOf(sb) : dev.cur[a] = image[a]
    BY <2>3, <2>5, <2>7
  <2>9. SuperLayout(image) = sb
    BY <2>8, SuperNames DEF SuperLayout, LOGFS_SUPER_BLOCKNO
  <2>10. Complete(image, sb.total_blocks, sb)
    BY <2>3, <2>8, CompleteSame
  <2>11. 1 < sb.total_blocks /\ 2 < sb.total_blocks
    BY AcceptedShape DEF HasRoom, LOGFS_JOURNAL_REGION_START
  <2>12. Mountable(image, sb.total_blocks)
    BY <2>3, <2>8, <2>11, SuperNames DEF Mountable, Read, LOGFS_SUPER_BLOCKNO, LOGFS_JSUPER_BLOCKNO
  <2> QED
    BY <2>6, <2>9, <2>10, <2>12
<1> QED
  BY <1>1, FormatInvInit, FormatInvStep, PTL DEF Spec

-----------------------------------------------------------------------------
(* What logfs_fs_mount accepts. *)

(* The operation mkfs does next: only the first one and the superblock's    *)
(* write lie outside the parts, and the size is durable from the first      *)
(* flush on.                                                                *)
LEMMA NextStepOf ==
  ASSUME TypeInv, todo # <<>>, NEW sb \in Accepted, NEW k \in Nat, Running(sb, k)
  PROVE  LET step == Head(todo) IN
         /\ nblocks = sb.total_blocks /\ nblocks > 2
         /\ k >= 2 => size.alt[SizeCell] = {nblocks}
         /\ step.op = "write" => Len(todo) > 1
         /\ step.op = "write" /\ step.at = 1 =>
              /\ k >= 2 /\ k = sb.inode_table_len + 6 /\ Len(todo) = 2
              /\ step.cell = Super(sb) /\ step.torn = Torn
         /\ step.op = "write" /\ step.at # 1 /\ step.at # 2 => k >= 2
<1>a. PICK L \in Nat : L = sb.inode_table_len
  BY AcceptedShape
<1>b. PICK J \in Nat : J = sb.journal_len
  BY AcceptedShape
<1>0. L >= 1 /\ Len(Script(sb)) = L + 8
  <2>1. Len(Script(sb)) = L + 8
    BY <1>a, ScriptShape
  <2> QED
    BY <1>a, <2>1, AcceptedShape
<1>1. /\ Len(todo) = L + 8 - k /\ nblocks = sb.total_blocks
      /\ k >= 2 => size.alt[SizeCell] = {nblocks}
      /\ \A i \in 1 .. Len(todo) : todo[i] = Script(sb)[k + i]
  BY <1>0 DEF Running
<1>2. Head(todo) = todo[1] /\ Len(todo) \in Nat /\ Len(todo) >= 1
  BY NextOperation
<1>3. Head(todo) = Script(sb)[k + 1] /\ k + 1 \in 1 .. L + 8
  <2>1. 1 \in 1 .. Len(todo)
    BY <1>2
  <2> QED
    BY <1>1, <1>2, <2>1
<1>4. nblocks > 2
  <2>1. sb.total_blocks \in Nat /\ sb.total_blocks >= 3 + J + 4
    BY <1>b, AcceptedShape DEF HasRoom, LOGFS_JOURNAL_REGION_START
  <2>2. sb.total_blocks > 2
    BY <2>1
  <2> QED
    BY <1>1, <2>2
<1> DEFINE step == Head(todo)
<1>5. /\ step.at = Where(L, J, k + 1)
      /\ k + 1 # 2 /\ k + 1 # L + 8 => step.op = "write"
      /\ k + 1 = 2 \/ k + 1 = L + 8 => step.op = "flush"
  <2> DEFINE i == k + 1
  <2>1. i \in 1 .. L + 8 /\ step = Script(sb)[i]
    BY <1>3
  <2> HIDE DEF i
  <2>2. /\ step.at = Where(L, J, i) /\ (i # 2 /\ i # L + 8 => step.op = "write")
        /\ i = 2 \/ i = L + 8 => step.op = "flush"
    BY <1>a, <1>b, <2>1, ScriptAt
  <2> QED
    BY <2>2 DEF i
<1>6. step.op = "write" => k # 1 /\ k # L + 7 /\ Len(todo) > 1
  <2>1. step.op = "write" => k + 1 # 2 /\ k + 1 # L + 8
    BY <1>5
  <2> QED
    BY <1>1, <1>2, <2>1
<1>7. ASSUME step.op = "write", step.at = 1
      PROVE  /\ k >= 2 /\ k = L + 6 /\ Len(todo) = 2
             /\ step.cell = Super(sb) /\ step.torn = Torn
  <2>1. k = L + 6
    <3>1. k \in 0 .. L + 7 /\ Where(L, J, k + 1) = 1
      BY <1>3, <1>5, <1>7
    <3> QED
      BY <1>0, <1>6, <1>7, <3>1 DEF Where
  <2>2. k + 1 = L + 7
    BY <2>1
  <2>3. step = Put(1, Super(sb))
    BY <1>a, <1>3, <2>2, ScriptShape
  <2>4. Super(sb).kind # "jsuper"
    BY SuperNames
  <2> QED
    BY <1>0, <1>1, <2>1, <2>3, <2>4 DEF Put
<1>8. ASSUME step.op = "write", step.at # 1, step.at # 2 PROVE k >= 2
  <2>1. k # 0
    BY <1>5, <1>8 DEF Where
  <2> QED
    BY <1>6, <1>8, <2>1
<1> QED
  BY <1>a, <1>1, <1>4, <1>6, <1>7, <1>8

(* SuperInv, with the block numbers spelled out.                            *)
LEMMA SuperFacts ==
  SuperInv <=>
    /\ \A c \in dev.alt[1] : c \in {Blank, Torn} \cup {Super(sb) : sb \in Accepted}
    /\ 0 \in size.alt[SizeCell] \/ dev.cur[1] = Blank => dev.alt[1] = {Blank}
    /\ \A sb \in Accepted : dev.cur[1] = Super(sb) /\ nblocks = sb.total_blocks =>
         Len(todo) <= 1 /\ Complete(dev.cur, nblocks, sb)
    /\ \A sb \in Accepted :
         dev.cur[1] = Super(sb) /\ dev.alt[1] = {dev.cur[1]}
           /\ sb.total_blocks \in size.alt[SizeCell] => Holds(sb)
  BY DEF SuperInv, Named, LOGFS_SUPER_BLOCKNO

(* Only mkfs at its start adds a size.                                      *)
LEMMA SizeInvStep ==
  ASSUME TypeInv, TypeInv', SizeInv, [Next]_vars
  PROVE  SizeInv'
<1>0. /\ nblocks \in size.alt[SizeCell] /\ nblocks' \in size'.alt[SizeCell]
      /\ count.formats \in Nat
  BY DEF TypeInv
<1>1. ASSUME NEW total \in Totals, NEW len \in JournalLens, logfs_fs_format(total, len)
      PROVE  SizeInv'
  <2>1. size'.alt[SizeCell] = size.alt[SizeCell] \cup {total}
    BY <1>1, FormatStarts
  <2>2. /\ count.formats < MaxFormats /\ HasRoom(total, len)
        /\ count' = [count EXCEPT !.formats = @ + 1]
    BY <1>1 DEF logfs_fs_format
  <2>3. count'.formats = count.formats + 1 /\ count.formats < 2
    BY <1>0, <2>2, FormatAssumption DEF TypeInv
  <2>4. total > 2
    BY <2>2, FormatAssumption DEF HasRoom, LOGFS_JOURNAL_REGION_START
  <2>5. count.formats + 1 < 2 => size'.alt[SizeCell] \ {0} = {total}
    <3>1. count.formats + 1 < 2 => count.formats = 0
      BY <1>0
    <3>2. total # 0
      BY <2>4
    <3> QED
      BY <2>1, <3>1, <3>2 DEF SizeInv
  <2>6. \A m \in size'.alt[SizeCell] : m = 0 \/ m > 2
    BY <2>1, <2>4 DEF SizeInv
  <2>7. count.formats + 1 # 0 /\ count.formats + 1 <= 2
    BY <1>0, <2>3
  <2> QED
    BY <2>3, <2>5, <2>6, <2>7 DEF SizeInv
<1>2. ASSUME size'.alt[SizeCell] \subseteq size.alt[SizeCell], count'.formats = count.formats
      PROVE  SizeInv'
  <2>1. count'.formats = 0 => size'.alt[SizeCell] = {0}
    BY <1>0, <1>2 DEF SizeInv
  <2> QED
    BY <1>2, <2>1 DEF SizeInv
<1>3. CASE FormatStep
  <2>1. Head(todo).op = "write" \/ Head(todo).op = "flush"
    BY <1>3 DEF FormatStep
  <2> QED
    BY <1>0, <1>2, <1>3, <2>1, StepEffect DEF FormatStep
<1>4. CASE FormatStops
  BY <1>2, <1>4 DEF FormatStops
<1>5. CASE PowerLoss
  <2>1. size'.alt[SizeCell] \subseteq size.alt[SizeCell]
    BY <1>5, LossEffect
  <2>2. count'.formats = count.formats
    BY <1>5 DEF PowerLoss, TypeInv
  <2> QED
    BY <1>2, <2>1, <2>2
<1>6. CASE logfs_fs_mount
  BY <1>2, <1>6 DEF logfs_fs_mount
<1>7. CASE UNCHANGED vars
  BY <1>2, <1>7 DEF vars
<1> QED
  BY <1>1, <1>3, <1>4, <1>5, <1>6, <1>7 DEF Next

(* The size an accepted superblock names.                                   *)
LEMMA NamedSize ==
  ASSUME NEW sb \in Accepted
  PROVE  sb.total_blocks \in Nat /\ sb.total_blocks > 2 /\ sb.total_blocks # 0
<1>1. PICK J \in Nat : J = sb.journal_len
  BY AcceptedShape
<1>2. sb.total_blocks \in Nat /\ sb.total_blocks >= 3 + J + 4
  BY <1>1, AcceptedShape DEF HasRoom, LOGFS_JOURNAL_REGION_START
<1> QED
  BY <1>2

(* What is durable and untouched stays so.                                  *)
LEMMA HoldsSame ==
  ASSUME NEW sb \in Accepted, Holds(sb),
         \A a \in PartsOf(sb) : dev'.cur[a] = dev.cur[a] /\ dev'.alt[a] = dev.alt[a]
  PROVE  Holds(sb)'
<1>1. /\ Complete(dev.cur, sb.total_blocks, sb)
      /\ \A a \in PartsOf(sb) : dev.alt[a] = {dev.cur[a]}
  BY DEF Holds
<1>2. \A a \in PartsOf(sb) : dev.cur[a] = dev'.cur[a]
  OBVIOUS
<1>3. Complete(dev'.cur, sb.total_blocks, sb)
  BY <1>1, <1>2, CompleteSame
<1> QED
  BY <1>1, <1>3 DEF Holds

(* A format begins: a superblock on the image names another size.           *)
LEMMA SuperAtStart ==
  ASSUME Quiet, MountInv, TypeInv', NEW total \in Totals, NEW len \in JournalLens,
         logfs_fs_format(total, len)
  PROVE  SuperInv'
<1>0. TypeInv /\ SuperInv /\ SizeInv
  BY DEF MountInv, FormatInv
<1>1. /\ \A c \in dev.alt[1] : c \in {Blank, Torn} \cup {Super(sb) : sb \in Accepted}
      /\ 0 \in size.alt[SizeCell] \/ dev.cur[1] = Blank => dev.alt[1] = {Blank}
      /\ \A sb \in Accepted :
           dev.cur[1] = Super(sb) /\ dev.alt[1] = {dev.cur[1]}
             /\ sb.total_blocks \in size.alt[SizeCell] => Holds(sb)
  BY <1>0, SuperFacts
<1>2. 1 \in Blocks /\ \A a \in Blocks : a \in Nat
  BY BlocksNat DEF Blocks, LOGFS_SUPER_BLOCKNO
<1>3. /\ dev.cur[1] \in dev.alt[1] /\ nblocks \in size.alt[SizeCell] /\ nblocks \in Nat
      /\ dev'.cur[1] \in dev'.alt[1]
  BY <1>0, <1>2, SizeNat DEF TypeInv
<1>4. /\ \A a \in Blocks :
           /\ dev.alt[a] \subseteq dev'.alt[a]
           /\ a < nblocks => dev'.cur[a] = dev.cur[a] /\ dev'.alt[a] = dev.alt[a]
           /\ dev'.cur[a] \in {Blank, dev.cur[a]} /\ dev'.alt[a] \subseteq dev.alt[a] \cup {Blank}
      /\ size'.alt[SizeCell] = size.alt[SizeCell] \cup {total} /\ nblocks' = total
  BY <1>0, FormatStarts
<1>5. /\ dev.cur[1].kind = "super" => dev.cur[1].arg[1] # total
      /\ count.formats < MaxFormats /\ HasRoom(total, len)
  BY DEF logfs_fs_format, Quiet, LOGFS_SUPER_BLOCKNO
<1>6. count.formats < 2 /\ total # 0
  BY <1>0, <1>5, FormatAssumption DEF TypeInv, HasRoom, LOGFS_JOURNAL_REGION_START
<1>7. \A c \in dev'.alt[1] : c \in {Blank, Torn} \cup {Super(sb) : sb \in Accepted}
  BY <1>1, <1>2, <1>4
<1>8. ASSUME 0 \in size'.alt[SizeCell] \/ dev'.cur[1] = Blank PROVE dev'.alt[1] = {Blank}
  <2>1. CASE 0 \in size.alt[SizeCell] \/ dev.cur[1] = Blank
    BY <1>1, <1>2, <1>3, <1>4, <2>1
  <2>2. CASE ~(0 \in size.alt[SizeCell] \/ dev.cur[1] = Blank)
    <3>1. dev'.cur[1] # dev.cur[1]
      BY <1>4, <1>6, <1>8, <2>2
    <3>2. ~(1 < nblocks)
      BY <1>2, <1>4, <3>1
    <3>3. nblocks = 0 \/ nblocks > 2
      BY <1>0, <1>3 DEF SizeInv
    <3> QED
      BY <1>3, <2>2, <3>2, <3>3
  <2> QED
    BY <2>1, <2>2
<1>9. ASSUME NEW sb \in Accepted, dev'.cur[1] = Super(sb)
      PROVE  dev.cur[1] = Super(sb) /\ sb.total_blocks # total
  <2>1. dev.cur[1] = Super(sb)
    BY <1>2, <1>4, <1>9, SuperNames
  <2> QED
    BY <1>5, <2>1, SuperNames
<1>10. ASSUME NEW sb \in Accepted, dev'.cur[1] = Super(sb), dev'.alt[1] = {dev'.cur[1]},
              sb.total_blocks \in size'.alt[SizeCell]
       PROVE  Holds(sb)'
  <2>1. dev.cur[1] = Super(sb) /\ sb.total_blocks \in size.alt[SizeCell]
    BY <1>4, <1>9, <1>10
  <2>2. dev.alt[1] = {dev.cur[1]}
    BY <1>2, <1>3, <1>4, <1>9, <1>10
  <2>3. Holds(sb)
    BY <1>1, <2>1, <2>2
  <2>4. sb.total_blocks = nblocks
    <3>1. 0 \notin size.alt[SizeCell]
      BY <1>1, <1>3, <2>1, SuperNames
    <3> QED
      BY <1>0, <1>3, <1>6, <2>1, <3>1 DEF SizeInv
  <2>5. \A a \in PartsOf(sb) : dev'.cur[a] = dev.cur[a] /\ dev'.alt[a] = dev.alt[a]
    BY <1>4, <2>4, ScriptBlocks
  <2> QED
    BY <2>3, <2>5, HoldsSame
<1> QED
  BY <1>4, <1>7, <1>8, <1>9, <1>10, SuperFacts DEF SuperInv, Named, LOGFS_SUPER_BLOCKNO

(* A write of mkfs outside block 1, whole or torn.                          *)
LEMMA SuperAtWrite ==
  ASSUME MountInv, todo # <<>>, Head(todo).op = "write", Head(todo).at # 1, size' = size,
         \A a \in Blocks : a # Head(todo).at => dev'.cur[a] = dev.cur[a] /\ dev'.alt[a] = dev.alt[a]
  PROVE  SuperInv'
<1>0. TypeInv /\ SuperInv
  BY DEF MountInv, FormatInv
<1>1. /\ \A c \in dev.alt[1] : c \in {Blank, Torn} \cup {Super(sb) : sb \in Accepted}
      /\ 0 \in size.alt[SizeCell] \/ dev.cur[1] = Blank => dev.alt[1] = {Blank}
      /\ \A sb \in Accepted : dev.cur[1] = Super(sb) /\ nblocks = sb.total_blocks => Len(todo) <= 1
      /\ \A sb \in Accepted :
           dev.cur[1] = Super(sb) /\ dev.alt[1] = {dev.cur[1]}
             /\ sb.total_blocks \in size.alt[SizeCell] => Holds(sb)
  BY <1>0, SuperFacts
<1>2. 1 \in Blocks
  BY DEF Blocks, LOGFS_SUPER_BLOCKNO
<1>3. dev'.cur[1] = dev.cur[1] /\ dev'.alt[1] = dev.alt[1] /\ nblocks' = nblocks
  BY <1>2 DEF nblocks
<1>4. PICK sb0 \in Accepted, k \in Nat : Running(sb0, k)
  BY DEF MountInv, FormatInv
<1>5. /\ Len(todo) > 1 /\ (k >= 2 => size.alt[SizeCell] = {nblocks})
      /\ Head(todo).at # 2 => k >= 2
  BY <1>0, <1>4, NextStepOf
<1>6. \A sb \in Accepted : ~(dev.cur[1] = Super(sb) /\ nblocks = sb.total_blocks)
  <2>1. Len(todo) \in Nat /\ ~(Len(todo) <= 1)
    BY <1>0, <1>5, NextOperation
  <2> QED
    BY <1>1, <2>1
<1>7. ASSUME NEW sb \in Accepted, dev.cur[1] = Super(sb), dev.alt[1] = {dev.cur[1]},
             sb.total_blocks \in size.alt[SizeCell]
      PROVE  Holds(sb)'
  <2>1. Holds(sb)
    BY <1>1, <1>7
  <2>2. Head(todo).at = 2
    BY <1>5, <1>6, <1>7
  <2>3. \A a \in PartsOf(sb) : a \in Blocks /\ a # 2
    BY ScriptBlocks
  <2> QED
    BY <2>1, <2>2, <2>3, HoldsSame
<1> QED
  BY <1>1, <1>3, <1>6, <1>7 DEF SuperInv, Named, LOGFS_SUPER_BLOCKNO

(* One operation of mkfs: the superblock comes when the rest is written.    *)
LEMMA SuperAtStep ==
  ASSUME MountInv, FormatStep
  PROVE  SuperInv'
<1>0. TypeInv /\ SuperInv /\ todo # <<>> /\ todo' = Tail(todo)
  BY DEF MountInv, FormatInv, FormatStep
<1>1. /\ \A c \in dev.alt[1] : c \in {Blank, Torn} \cup {Super(sb) : sb \in Accepted}
      /\ \A sb \in Accepted : dev.cur[1] = Super(sb) /\ nblocks = sb.total_blocks =>
           Len(todo) <= 1 /\ Complete(dev.cur, nblocks, sb)
  BY <1>0, SuperFacts
<1>2. 1 \in Blocks /\ dev.cur[1] \in dev.alt[1]
  BY <1>0 DEF Blocks, LOGFS_SUPER_BLOCKNO, TypeInv
<1>3. PICK sb0 \in Accepted, k \in Nat : Running(sb0, k)
  BY <1>0 DEF MountInv, FormatInv
<1>4. /\ nblocks = sb0.total_blocks /\ nblocks' = nblocks
      /\ Len(todo) \in Nat /\ Len(todo') = Len(todo) - 1
  BY <1>0, <1>3, NextStepOf, NextOperation, StepEffect
<1>5. CASE Head(todo).op = "write" /\ Head(todo).at # 1
  BY <1>0, <1>5, StepEffect, SuperAtWrite
<1>6. CASE Head(todo).op = "write" /\ Head(todo).at = 1
  <2>1. /\ k >= 2 /\ k = sb0.inode_table_len + 6 /\ Len(todo) = 2
        /\ Head(todo).cell = Super(sb0) /\ Head(todo).torn = Torn
        /\ size.alt[SizeCell] = {nblocks}
    BY <1>0, <1>3, <1>6, NextStepOf
  <2>2. /\ dev'.cur[1] = Super(sb0) /\ dev'.alt[1] = dev.alt[1] \cup {Super(sb0), Torn}
        /\ size' = size
        /\ \A a \in Blocks : a # 1 => dev'.cur[a] = dev.cur[a]
    BY <1>0, <1>6, <2>1, StepEffect
  <2>3. Complete(dev.cur, sb0.total_blocks, sb0)
    BY <1>3, <2>1, ScriptDone DEF Running
  <2>4. Complete(dev'.cur, sb0.total_blocks, sb0)
    <3>1. \A a \in PartsOf(sb0) : a \in Blocks /\ a > 2
      BY ScriptBlocks
    <3>2. \A a \in PartsOf(sb0) : dev.cur[a] = dev'.cur[a]
      BY <2>2, <3>1
    <3> QED
      BY <2>3, <3>2, CompleteSame
  <2>5. 0 \notin size'.alt[SizeCell]
    BY <1>4, <2>1, <2>2, NamedSize
  <2>6. \A c \in dev'.alt[1] : c \in {Blank, Torn} \cup {Super(sb) : sb \in Accepted}
    BY <1>1, <2>2
  <2>7. \A sb \in Accepted : dev'.cur[1] = Super(sb) => sb = sb0
    BY <2>2, SuperInjective
  <2>8. dev'.cur[1] # Blank /\ dev'.alt[1] # {dev'.cur[1]}
    BY <2>2, SuperNames
  <2>9. Len(todo') <= 1
    BY <1>4, <2>1
  <2> QED
    BY <1>4, <2>4, <2>5, <2>6, <2>7, <2>8, <2>9 DEF SuperInv, Named, LOGFS_SUPER_BLOCKNO
<1>7. CASE Head(todo).op = "flush"
  <2>1. /\ size'.alt[SizeCell] = {nblocks} /\ dev'.cur = dev.cur
        /\ \A a \in Blocks : dev'.alt[a] = {dev.cur[a]}
    BY <1>0, <1>7, StepEffect
  <2>2. 0 \notin size'.alt[SizeCell]
    BY <1>4, <2>1, NamedSize
  <2>3. \A sb \in Accepted : dev'.cur[1] = Super(sb) /\ nblocks' = sb.total_blocks =>
          Len(todo') <= 1 /\ Complete(dev'.cur, nblocks', sb)
    BY <1>1, <1>4, <2>1
  <2>4. ASSUME NEW sb \in Accepted, dev'.cur[1] = Super(sb), sb.total_blocks \in size'.alt[SizeCell]
        PROVE  Holds(sb)'
    <3>1. nblocks' = sb.total_blocks
      BY <1>4, <2>1, <2>4
    <3>2. \A a \in PartsOf(sb) : dev'.alt[a] = {dev'.cur[a]}
      BY <2>1, ScriptBlocks
    <3> QED
      BY <2>3, <2>4, <3>1, <3>2 DEF Holds
  <2>5. \A c \in dev'.alt[1] : c \in {Blank, Torn} \cup {Super(sb) : sb \in Accepted}
    BY <1>1, <1>2, <2>1
  <2>6. dev'.cur[1] = Blank => dev'.alt[1] = {Blank}
    BY <1>2, <2>1
  <2> QED
    BY <2>2, <2>3, <2>4, <2>5, <2>6 DEF SuperInv, Named, LOGFS_SUPER_BLOCKNO
<1> QED
  BY <1>5, <1>6, <1>7 DEF FormatStep

(* mkfs stops, with the block it was writing perhaps torn.                  *)
LEMMA SuperAtStop ==
  ASSUME MountInv, FormatStops
  PROVE  SuperInv'
<1>0. TypeInv /\ SuperInv /\ todo # <<>> /\ todo' = <<>> /\ size' = size
  BY DEF MountInv, FormatInv, FormatStops
<1>1. /\ \A c \in dev.alt[1] : c \in {Blank, Torn} \cup {Super(sb) : sb \in Accepted}
      /\ 0 \in size.alt[SizeCell] \/ dev.cur[1] = Blank => dev.alt[1] = {Blank}
      /\ \A sb \in Accepted : dev.cur[1] = Super(sb) /\ nblocks = sb.total_blocks =>
           Complete(dev.cur, nblocks, sb)
      /\ \A sb \in Accepted :
           dev.cur[1] = Super(sb) /\ dev.alt[1] = {dev.cur[1]}
             /\ sb.total_blocks \in size.alt[SizeCell] => Holds(sb)
  BY <1>0, SuperFacts
<1>2. nblocks' = nblocks /\ Len(todo') <= 1
  BY <1>0 DEF nblocks
<1>3. CASE dev' = dev
  <2>1. \A sb \in Accepted : Holds(sb)' <=> Holds(sb)
    BY <1>3 DEF Holds
  <2> QED
    BY <1>0, <1>1, <1>2, <1>3, <2>1 DEF SuperInv, Named, LOGFS_SUPER_BLOCKNO
<1>4. CASE /\ Head(todo).op = "write" /\ Head(todo).at # 1
           /\ \A a \in Blocks : a # Head(todo).at =>
                dev'.cur[a] = dev.cur[a] /\ dev'.alt[a] = dev.alt[a]
  BY <1>0, <1>4, SuperAtWrite
<1>5. CASE /\ Head(todo).op = "write" /\ Head(todo).at = 1
           /\ dev'.cur[1] = Head(todo).torn /\ dev'.alt[1] = dev.alt[1] \cup {Head(todo).torn}
  <2>1. PICK sb0 \in Accepted, k \in Nat : Running(sb0, k)
    BY <1>0 DEF MountInv, FormatInv
  <2>2. /\ Head(todo).torn = Torn /\ size.alt[SizeCell] = {nblocks} /\ nblocks = sb0.total_blocks
    BY <1>0, <1>5, <2>1, NextStepOf
  <2>3. 0 \notin size'.alt[SizeCell]
    BY <1>0, <2>2, NamedSize
  <2>4. Torn # Blank /\ \A sb \in Accepted : Super(sb) # Torn
    BY SuperNames DEF Torn, Blank, Cell
  <2> QED
    BY <1>1, <1>5, <2>2, <2>3, <2>4 DEF SuperInv, Named, LOGFS_SUPER_BLOCKNO
<1> QED
  BY <1>0, <1>3, <1>4, <1>5, StopEffect

(* A power loss leaves the superblock, and what is durable under it.        *)
LEMMA SuperAtLoss ==
  ASSUME Quiet, MountInv, PowerLoss
  PROVE  SuperInv'
<1>0. TypeInv /\ SuperInv /\ todo' = <<>>
  BY DEF MountInv, FormatInv, PowerLoss
<1>1. /\ \A c \in dev.alt[1] : c \in {Blank, Torn} \cup {Super(sb) : sb \in Accepted}
      /\ 0 \in size.alt[SizeCell] \/ dev.cur[1] = Blank => dev.alt[1] = {Blank}
      /\ \A sb \in Accepted :
           dev.cur[1] = Super(sb) /\ dev.alt[1] = {dev.cur[1]}
             /\ sb.total_blocks \in size.alt[SizeCell] => Holds(sb)
  BY <1>0, SuperFacts
<1>2. 1 \in Blocks /\ dev.cur[1] \in dev.alt[1] /\ 1 \in DOMAIN dev.cur
  BY <1>0 DEF Blocks, LOGFS_SUPER_BLOCKNO, TypeInv, Region
<1>3. /\ \A a \in Blocks : dev'.cur[a] \in dev.alt[a] /\ dev'.alt[a] = {dev'.cur[a]}
      /\ nblocks' \in size.alt[SizeCell] /\ size'.alt[SizeCell] = {nblocks'}
  BY <1>0, LossEffect
<1>4. dev.cur[1] # Blank => dev.alt[1] = {dev.cur[1]}
  BY <1>2 DEF PowerLoss, Quiet, Unflushed, LOGFS_SUPER_BLOCKNO
<1>5. dev.alt[1] = {dev.cur[1]} /\ dev'.cur[1] = dev.cur[1] /\ dev'.alt[1] = {dev'.cur[1]}
  BY <1>1, <1>2, <1>3, <1>4
<1>6. ASSUME NEW sb \in Accepted, dev'.cur[1] = Super(sb), nblocks' = sb.total_blocks
      PROVE  Holds(sb)'
  <2>1. Holds(sb)
    BY <1>1, <1>3, <1>5, <1>6
  <2>2. \A a \in PartsOf(sb) : a \in Blocks /\ dev.alt[a] = {dev.cur[a]}
    BY <2>1, ScriptBlocks DEF Holds
  <2>3. \A a \in PartsOf(sb) : dev'.cur[a] = dev.cur[a] /\ dev'.alt[a] = dev.alt[a]
    BY <1>3, <2>2
  <2> QED
    BY <2>1, <2>3, HoldsSame
<1>7. Len(todo') <= 1
  BY <1>0
<1>8. \A sb \in Accepted : dev'.cur[1] = Super(sb) /\ nblocks' = sb.total_blocks =>
        Complete(dev'.cur, nblocks', sb)
  BY <1>6 DEF Holds
<1> QED
  BY <1>1, <1>3, <1>5, <1>6, <1>7, <1>8 DEF SuperInv, Named, LOGFS_SUPER_BLOCKNO

(* An image with a superblock that mount accepts has an accepted layout.    *)
LEMMA MountFinds ==
  ASSUME MountInv, Mountable(dev.cur, nblocks)
  PROVE  \E sb \in Accepted :
           /\ dev.cur[1] = Super(sb) /\ nblocks = sb.total_blocks
           /\ SuperLayout(dev.cur) = sb /\ Complete(dev.cur, nblocks, sb)
<1>0. TypeInv /\ SuperInv
  BY DEF MountInv, FormatInv
<1>1. 1 \in Blocks /\ dev.cur[1] \in dev.alt[1] /\ nblocks \in Nat
  BY <1>0, SizeNat DEF Blocks, LOGFS_SUPER_BLOCKNO, TypeInv
<1>2. dev.cur[1].kind = "super" /\ dev.cur[1].arg[1] = nblocks
  BY DEF Mountable, Read, Blank, Cell, LOGFS_SUPER_BLOCKNO
<1>3. PICK sb \in Accepted : dev.cur[1] = Super(sb)
  <2>1. dev.cur[1] \in {Blank, Torn} \cup {Super(sb) : sb \in Accepted}
    BY <1>0, <1>1, SuperFacts
  <2> QED
    BY <1>2, <2>1 DEF Blank, Torn, Cell
<1>4. nblocks = sb.total_blocks /\ SuperLayout(dev.cur) = sb
  BY <1>2, <1>3, SuperNames DEF SuperLayout, LOGFS_SUPER_BLOCKNO
<1>5. Complete(dev.cur, nblocks, sb)
  BY <1>0, <1>3, <1>4, SuperFacts
<1> QED
  BY <1>3, <1>4, <1>5

(* A mounted file system uses its own blocks only.                          *)
LEMMA SuperAtMount ==
  ASSUME MountInv, logfs_fs_mount
  PROVE  SuperInv'
<1>0. TypeInv /\ SuperInv /\ todo' = <<>> /\ size' = size
  BY DEF MountInv, FormatInv, logfs_fs_mount
<1>1. PICK sb0 \in Accepted :
        /\ dev.cur[1] = Super(sb0) /\ nblocks = sb0.total_blocks
        /\ SuperLayout(dev.cur) = sb0 /\ Complete(dev.cur, nblocks, sb0)
  BY MountFinds DEF logfs_fs_mount
<1>2. 1 \in Blocks /\ dev.cur[1] \in dev.alt[1]
  BY <1>0 DEF Blocks, LOGFS_SUPER_BLOCKNO, TypeInv
<1>3. 0 \notin size'.alt[SizeCell]
  BY <1>0, <1>1, <1>2, SuperFacts, SuperNames
<1>4. \A a \in Blocks :
        /\ dev'.cur[a].kind = dev.cur[a].kind /\ dev'.cur[a].arg = dev.cur[a].arg
        /\ dev'.cur[a].used = (a \in PartsOf(sb0) \/ dev.cur[a].used)
        /\ dev'.alt[a] = {dev'.cur[a]}
  BY <1>0, <1>1, MountEffect
<1>5. \A a \in PartsOf(sb0) : a \in Blocks /\ a > 2
  BY ScriptBlocks
<1>6. dev'.cur[1] = Super(sb0)
  <2>1. dev.cur[1] \in Cells /\ dev'.cur[1] \in Cells
    BY <1>0, <1>2, MountEffect DEF TypeInv, Region
  <2>2. 1 \notin PartsOf(sb0)
    BY <1>5
  <2>3. dev'.cur[1].used = dev.cur[1].used
    BY <1>2, <1>4, <2>1, <2>2 DEF Cells
  <2>4. dev'.cur[1].kind = dev.cur[1].kind /\ dev'.cur[1].arg = dev.cur[1].arg
    BY <1>2, <1>4
  <2>5. dev'.cur[1] = dev.cur[1]
    BY <2>1, <2>3, <2>4, CellsEqual
  <2> QED
    BY <1>1, <2>5
<1>7. Complete(dev'.cur, sb0.total_blocks, sb0)
  <2>1. \A a \in PartsOf(sb0) :
          /\ dev'.cur[a].kind = dev.cur[a].kind /\ dev'.cur[a].arg = dev.cur[a].arg
          /\ dev'.cur[a].used = TRUE
    BY <1>4, <1>5
  <2> QED
    BY <1>1, <2>1, CompleteUsed
<1>8. Holds(sb0)' /\ nblocks' = sb0.total_blocks
  BY <1>0, <1>1, <1>4, <1>5, <1>7 DEF Holds, nblocks
<1>9. \A sb \in Accepted : dev'.cur[1] = Super(sb) => sb = sb0
  BY <1>6, SuperInjective
<1>10. Super(sb0) # Blank /\ dev'.alt[1] = {Super(sb0)}
  BY <1>2, <1>4, <1>6, SuperNames
<1>11. Len(todo') <= 1
  BY <1>0
<1> QED
  BY <1>3, <1>6, <1>7, <1>8, <1>9, <1>10, <1>11 DEF SuperInv, Named, LOGFS_SUPER_BLOCKNO

(* The image before the first format.                                       *)
LEMMA MountInvInit ==
  ASSUME Init
  PROVE  MountInv
<1>1. 1 \in Blocks
  BY DEF Blocks, LOGFS_SUPER_BLOCKNO
<1>2. dev.cur[1] = Blank /\ dev.alt[1] = {Blank} /\ todo = <<>>
  BY <1>1 DEF Init, Settled
<1>3. size.alt[SizeCell] = {0} /\ nblocks = 0
  BY DEF Init, Settled, nblocks
<1>4. SizeInv
  BY <1>3 DEF SizeInv, Init
<1>5. SuperInv
  BY <1>2, <1>3, SuperNames DEF SuperInv, Named, LOGFS_SUPER_BLOCKNO
<1> QED
  BY <1>4, <1>5, FormatInvInit DEF MountInv

(* Every step keeps the inductive invariant of MountableStaysComplete.      *)
LEMMA MountInvStep ==
  ASSUME Quiet, MountInv, [Next]_vars
  PROVE  MountInv'
<1>1. FormatInv' /\ TypeInv /\ TypeInv' /\ SizeInv
  BY FormatInvStep DEF MountInv, FormatInv
<1>2. SizeInv'
  BY <1>1, SizeInvStep
<1>3. UNCHANGED vars => SuperInv'
  BY DEF MountInv, SuperInv, Named, Holds, nblocks, vars
<1>4. SuperInv'
  BY <1>1, <1>3, SuperAtStart, SuperAtStep, SuperAtStop, SuperAtLoss, SuperAtMount DEF Next
<1> QED
  BY <1>1, <1>2, <1>4 DEF MountInv

(* fs.h, logfs_fs_format: "a crash mid-format never leaves a superblock     *)
(* claiming a filesystem that isn't actually fully laid out yet".  For      *)
(* every image size and journal length, and formats, failures, kills and    *)
(* power losses in any order, what logfs_fs_mount accepts is complete and   *)
(* has a sound layout, provided mkfs is not run over a file system of the   *)
(* same size, the power does not fail before the superblock is flushed, and *)
(* the journal has at least one block.                                      *)
THEOREM MountableStaysComplete ==
  ASSUME Quiet
  PROVE  Spec => []MountableIsComplete
<1>1. MountInv => MountableIsComplete
  <2>1. SUFFICES ASSUME MountInv, Mountable(dev.cur, nblocks)
                 PROVE  /\ SoundLayout(SuperLayout(dev.cur))
                        /\ Complete(dev.cur, nblocks, SuperLayout(dev.cur))
    BY DEF MountableIsComplete
  <2>2. PICK sb \in Accepted :
          SuperLayout(dev.cur) = sb /\ Complete(dev.cur, nblocks, sb)
    BY <2>1, MountFinds
  <2>3. /\ sb.total_blocks \in Nat /\ sb.journal_len \in Nat
        /\ sb = Layout(sb.total_blocks, sb.journal_len) /\ sb.journal_len # 0
        /\ HasRoom(sb.total_blocks, sb.journal_len) /\ Fits(sb)
    BY AcceptedShape DEF Quiet
  <2>4. SoundLayout(sb)
    <3>1. sb.journal_len >= 1
      BY <2>3
    <3> QED
      BY <2>3, <3>1, AcceptedLayoutIsSound
  <2> QED
    BY <2>2, <2>4
<1>2. MountInv /\ [Next]_vars => MountInv'
  BY MountInvStep
<1> QED
  BY <1>1, <1>2, MountInvInit, PTL DEF Spec
=============================================================================
