------------------------------- MODULE Format -------------------------------
(***************************************************************************)
(* mkfs (mkfs.c, logfs_fs_format of fs.c) and the checks of logfs_fs_mount *)
(* that decide whether an image is a file system.                          *)
(*                                                                         *)
(* The layout is computed with the numbers of disk_format.h.  mkfs is the  *)
(* list of its device operations, one step each, over an image that may be *)
(* new or hold an older file system of any size; it may be killed, fail or *)
(* lose power at every step.  A block is what mkfs put there, and whether  *)
(* a mounted file system has changed it since.  Arguments are far below    *)
(* 2^64, so no sum wraps.                                                  *)
(***************************************************************************)
EXTENDS Integers, Sequences, SequencesExt, BlockDev

CONSTANTS
  Totals, JournalLens,  \* the total_blocks and journal_len mkfs may be given
  MaxFormats,       \* bound: runs of mkfs.  At most 2: with two lost changes of the
                    \* file's size the model no longer knows which zeros are lost too
  MaxCrashes,       \* bound: power losses
  Conditions        \* what may happen besides the quiet case, a subset of:
                    \*   "reformat"   mkfs runs over a file system of the same size
                    \*   "unordered"  power fails before the superblock is flushed

ASSUME FormatAssumption ==
  Totals \subseteq Nat /\ JournalLens \subseteq Nat /\ MaxFormats \in 0 .. 2

LOGFS_BLOCK_SIZE == 4096
LOGFS_SUPER_BLOCKNO == 1
LOGFS_JSUPER_BLOCKNO == 2
LOGFS_JOURNAL_REGION_START == 3
InodeSize == 144                      \* sizeof(struct logfs_inode)
LOGFS_FS_MAX_BITMAP_UNITS == LOGFS_BLOCK_SIZE * 8
-----------------------------------------------------------------------------
(* The layout, as the superblock records it. *)

TotalInodes(total) ==
  IF total \div 4 > LOGFS_FS_MAX_BITMAP_UNITS - 1 THEN LOGFS_FS_MAX_BITMAP_UNITS - 1
  ELSE IF total \div 4 < 16 THEN 16 ELSE total \div 4

Layout(total, len) ==
  LET inodes == TotalInodes(total)
      table == LOGFS_JOURNAL_REGION_START + len + 2
      tableLen == (inodes * InodeSize + LOGFS_BLOCK_SIZE - 1) \div LOGFS_BLOCK_SIZE
  IN  [total_blocks |-> total, journal_start |-> LOGFS_JOURNAL_REGION_START,
       journal_len |-> len, inode_bitmap_start |-> table - 2,
       block_bitmap_start |-> table - 1, inode_table_start |-> table,
       inode_table_len |-> tableLen, data_start |-> table + tableLen,
       total_inodes |-> inodes]

HasRoom(total, len) == total >= LOGFS_JOURNAL_REGION_START + len + 4
(* Not -ENOSPC, not -EFBIG.                                                 *)
Fits(sb) ==
  /\ sb.data_start < sb.total_blocks
  /\ sb.total_blocks - sb.data_start <= LOGFS_FS_MAX_BITMAP_UNITS

(* inode_location (inode.c): whole inodes to a block.                       *)
inode_location(sb, ino) ==
  sb.inode_table_start + (ino - 1) \div (LOGFS_BLOCK_SIZE \div InodeSize)
-----------------------------------------------------------------------------
(* What mkfs writes. *)

Cell(kind, arg) == [kind |-> kind, arg |-> arg, used |-> FALSE]
Blank == Cell("blank", <<>>)
Torn == Cell("torn", <<>>)
Super(sb) == Cell("super", <<sb.total_blocks, sb.journal_len>>)
RootInode(sb) == Cell("root", <<sb.data_start>>)      \* in the first block of the table

(* The journal superblock, which has no checksum, is 48 bytes in the first  *)
(* sector of its block: it is never half written.                           *)
Put(a, cell) == [op |-> "write", at |-> a, cell |-> cell,
                 torn |-> IF cell.kind = "jsuper" THEN cell ELSE Torn]
Flush == [op |-> "flush", at |-> 0, cell |-> Blank, torn |-> Blank]

(* The device operations of a format, in order: the two superblocks are     *)
(* written with logfs_bdev_write_fua, the rest is not flushed.              *)
JournalSuper == <<Put(LOGFS_JSUPER_BLOCKNO, Cell("jsuper", <<>>)), Flush>>
Parts(sb) ==
  <<Put(sb.inode_bitmap_start, Cell("inodes", <<>>)),
    Put(sb.block_bitmap_start, Cell("blocks", <<>>))>>
  \o [i \in 1 .. sb.inode_table_len |-> Put(sb.inode_table_start + i - 1, Cell("table", <<>>))]
  \o <<Put(sb.inode_table_start, RootInode(sb)), Put(sb.data_start, Cell("dir", <<>>))>>
write_super(sb) == <<Put(LOGFS_SUPER_BLOCKNO, Super(sb)), Flush>>

MutSuperFirst(sb) == write_super(sb) \o JournalSuper \o Parts(sb) \o <<Flush>>
MutSuperUnflushed(sb) == JournalSuper \o Parts(sb) \o <<Head(write_super(sb))>>
Script(sb) == JournalSuper \o Parts(sb) \o write_super(sb)

(* The layouts mkfs accepts, and the blocks it writes for some of them: the *)
(* rest of the image stays as it was.                                       *)
Accepted ==
  {sb \in {Layout(total, len) : total \in Totals, len \in JournalLens} :
     HasRoom(sb.total_blocks, sb.journal_len) /\ Fits(sb)}
Blocks ==
  {LOGFS_SUPER_BLOCKNO, LOGFS_JSUPER_BLOCKNO} \cup
  UNION {{step.at : step \in {x \in ToSet(Script(sb)) : x.op = "write"}} : sb \in Accepted}
-----------------------------------------------------------------------------
VARIABLES
  dev,      \* region: the blocks of the backing file
  size,     \* region of one cell: its length in blocks, 0 before it exists
  todo,     \* the operations mkfs has still to do
  status,   \* "new", or how the last mkfs stands: "running", "ok", "failed"
  count     \* history: formats begun, power losses (bounds)

vars == <<dev, size, todo, status, count>>

SizeCell == "st_size"
nblocks == size.cur[SizeCell]

(* What a read finds, in an image of n blocks: nothing past the end.        *)
Read(image, n, a) == IF a < n THEN image[a] ELSE Blank

(* The superblock has its magic and checksum and names the size of the      *)
(* image, and logfs_journal_open knows the journal superblock.  A torn      *)
(* block fails the checksum.                                                *)
Mountable(image, n) ==
  /\ Read(image, n, LOGFS_SUPER_BLOCKNO).kind = "super"
  /\ Read(image, n, LOGFS_SUPER_BLOCKNO).arg[1] = n
  /\ Read(image, n, LOGFS_JSUPER_BLOCKNO).kind = "jsuper"

(* The layout a superblock on the image names.                              *)
SuperLayout(image) ==
  Layout(image[LOGFS_SUPER_BLOCKNO].arg[1], image[LOGFS_SUPER_BLOCKNO].arg[2])

Init ==
  /\ dev = Settled([a \in Blocks |-> Blank]) /\ size = Settled([x \in {SizeCell} |-> 0])
  /\ todo = <<>> /\ status = "new"
  /\ count = [formats |-> 0, crashes |-> 0]

(* ftruncate(): the blocks a longer file gains are zeros.                   *)
Resized(n) ==
  LET gained == {a \in Blocks : nblocks <= a /\ a < n}
  IN  [cur |-> [a \in Blocks |-> IF a \in gained THEN Blank ELSE dev.cur[a]],
       alt |-> [a \in Blocks |-> dev.alt[a] \cup (IF a \in gained THEN {Blank} ELSE {})]]

(* mkfs opens the image, or creates it, and sets its size before it knows   *)
(* that the layout fits: on -ENOSPC and -EFBIG the new size stays.          *)
logfs_fs_format(total, len) ==
  LET sb == Layout(total, len)
      old == dev.cur[LOGFS_SUPER_BLOCKNO]
  IN
  /\ todo = <<>> /\ count.formats < MaxFormats
  /\ HasRoom(total, len)
  /\ old.kind = "super" => (old.arg[1] = total => "reformat" \in Conditions)
  /\ dev' = Resized(total) /\ size' = logfs_bdev_write(size, SizeCell, total, total)
  /\ todo' = IF Fits(sb) THEN Script(sb) ELSE <<>>
  /\ status' = IF Fits(sb) THEN "running" ELSE "failed"
  /\ count' = [count EXCEPT !.formats = @ + 1]

MutReportsEarly ==
  LET step == Head(todo) IN
  /\ todo # <<>>
  /\ \/ /\ step.op = "write"
        /\ dev' = logfs_bdev_write(dev, step.at, step.cell, step.torn)
        /\ UNCHANGED size
     \/ /\ step.op = "flush"
        /\ dev' = logfs_bdev_flush(dev) /\ size' = logfs_bdev_flush(size)
  /\ todo' = Tail(todo)
  /\ status' = IF Len(todo) <= 2 THEN "ok" ELSE "running"
  /\ UNCHANGED count

FormatStep ==
  LET step == Head(todo) IN
  /\ todo # <<>>
  /\ \/ /\ step.op = "write"
        /\ dev' = logfs_bdev_write(dev, step.at, step.cell, step.torn)
        /\ UNCHANGED size
     \/ /\ step.op = "flush"
        /\ dev' = logfs_bdev_flush(dev) /\ size' = logfs_bdev_flush(size)
  /\ todo' = Tail(todo)
  /\ status' = IF Len(todo) = 1 THEN "ok" ELSE "running"
  /\ UNCHANGED count

(* A device operation fails, or mkfs is killed: the page cache stays, with  *)
(* the block being written as it was or half written.                       *)
FormatStops ==
  LET step == Head(todo) IN
  /\ todo # <<>>
  /\ \/ UNCHANGED dev
     \/ step.op = "write" /\ dev' = logfs_bdev_write(dev, step.at, step.torn, step.torn)
  /\ todo' = <<>> /\ status' = "failed"
  /\ UNCHANGED <<size, count>>

(* Every content r may have after a power loss: PowerLossImages(r), with    *)
(* the even and the odd blocks apart, which keeps the sets to choose from   *)
(* small.                                                                   *)
PartImages(r, U) ==
  {g \in [U -> UNION {r.alt[a] : a \in U}] : \A a \in U : g[a] \in r.alt[a]}
Images(r) ==
  LET even == {a \in Unflushed(r) : a % 2 = 0}
      odd == Unflushed(r) \ even
  IN  {[a \in DOMAIN r.cur |-> IF a \in even THEN g[a] ELSE IF a \in odd THEN h[a] ELSE r.cur[a]] :
         g \in PartImages(r, even), h \in PartImages(r, odd)}

PowerLoss ==
  /\ count.crashes < MaxCrashes
  /\ dev.cur[LOGFS_SUPER_BLOCKNO] # Blank /\ LOGFS_SUPER_BLOCKNO \in Unflushed(dev)
       => "unordered" \in Conditions
  /\ \E image \in Images(dev) : dev' = Settled(image)
  /\ \E s \in PowerLossImages(size) : size' = Settled(s)
  /\ todo' = <<>> /\ status' = IF todo = <<>> THEN status ELSE "failed"
  /\ count' = [count EXCEPT !.crashes = @ + 1]

(* A mount, operations and a clean unmount: bitmaps, inodes and directories *)
(* change together (module FileSystem), and all of it reaches the device.   *)
logfs_fs_mount ==
  LET sb == SuperLayout(dev.cur)
      parts == sb.inode_bitmap_start .. sb.data_start
  IN
  /\ todo = <<>> /\ Mountable(dev.cur, nblocks)
  /\ dev' = Settled([a \in Blocks |-> [dev.cur[a] EXCEPT !.used = (a \in parts \/ @)]])
  /\ UNCHANGED <<size, todo, status, count>>

Next ==
  \/ \E total \in Totals, len \in JournalLens : logfs_fs_format(total, len)
  \/ FormatStep \/ FormatStops \/ PowerLoss \/ logfs_fs_mount

Spec == Init /\ [][Next]_vars
-----------------------------------------------------------------------------
(* Properties. *)

Kinds == {"blank", "torn", "super", "jsuper", "inodes", "blocks", "table", "root", "dir"}
IsCell(c) == c.kind \in Kinds /\ c.arg \in Seq(Nat) /\ c.used \in BOOLEAN

(* Every block holds something mkfs writes.                                 *)
TypeOK ==
  /\ DOMAIN dev.cur = Blocks /\ DOMAIN dev.alt = Blocks
  /\ \A a \in Blocks : dev.cur[a] \in dev.alt[a] /\ \A c \in dev.alt[a] : IsCell(c)
  /\ nblocks \in size.alt[SizeCell] /\ size.alt[SizeCell] \subseteq Totals \cup {0}
  /\ status \in {"new", "running", "ok", "failed"}
  /\ status = "running" <=> todo # <<>>

(* The regions follow each other without overlap, inside the image, the     *)
(* journal and the data area are not empty, and one block of bits is enough *)
(* for the inodes (bit 0 included) and for the data blocks.                 *)
SoundLayout(sb) ==
  /\ LOGFS_JSUPER_BLOCKNO < sb.journal_start /\ sb.journal_len >= 1
  /\ sb.journal_start + sb.journal_len <= sb.inode_bitmap_start
  /\ sb.inode_bitmap_start < sb.block_bitmap_start
  /\ sb.block_bitmap_start < sb.inode_table_start
  /\ sb.inode_table_start + sb.inode_table_len <= sb.data_start
  /\ sb.data_start < sb.total_blocks
  /\ sb.total_inodes >= 16 /\ sb.total_inodes < LOGFS_FS_MAX_BITMAP_UNITS
  /\ sb.total_inodes * InodeSize <= sb.inode_table_len * LOGFS_BLOCK_SIZE
  /\ sb.total_blocks - sb.data_start <= LOGFS_FS_MAX_BITMAP_UNITS

(* An image holds all that superblock sb promises: both bitmaps, an inode   *)
(* table whose root points to the root directory, all from one format or    *)
(* all as one mounted file system left them.                                *)
Complete(image, n, sb) ==
  LET at(a) == Read(image, n, a)
      parts == sb.inode_bitmap_start .. sb.data_start
  IN
  /\ at(sb.inode_bitmap_start).kind = "inodes" /\ at(sb.block_bitmap_start).kind = "blocks"
  /\ at(sb.inode_table_start).kind = "root"
  /\ at(sb.inode_table_start).arg = <<sb.data_start>>
  /\ \A a \in sb.inode_table_start + 1 .. sb.data_start - 1 : at(a).kind = "table"
  /\ at(sb.data_start).kind = "dir"
  /\ \A a, b \in parts : at(a).used = at(b).used

(* fs.h: "a crash mid-format never leaves a superblock claiming a           *)
(* filesystem that isn't actually fully laid out yet".  Whatever an image   *)
(* went through (formats of other sizes cut short anywhere), logfs_fs_mount *)
(* accepts it only if it is a complete file system with a sound layout.     *)
MountableIsComplete ==
  Mountable(dev.cur, nblocks) =>
    /\ SoundLayout(SuperLayout(dev.cur))
    /\ Complete(dev.cur, nblocks, SuperLayout(dev.cur))

(* An image mkfs reported as formatted can be mounted, also after a power   *)
(* loss: the last write of mkfs is durable, and with it all the others.     *)
FormattedIsDurable ==
  status = "ok" =>
    \A image \in Images(dev), s \in PowerLossImages(size) :
      /\ Mountable(image, s[SizeCell])
      /\ Complete(image, s[SizeCell], SuperLayout(image))

(* disk_format.h: "[inode_table_start, +inode_table_len) struct logfs_inode *)
(* array": every inode mkfs allows for lies in the inode table.             *)
InodesInTable ==
  Mountable(dev.cur, nblocks) =>
    LET sb == SuperLayout(dev.cur)
    IN  \A ino \in 1 .. sb.total_inodes : inode_location(sb, ino) < sb.data_start
=============================================================================
