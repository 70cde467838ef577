# Formal verification of logfs

TLA+ models of logfs: the circular journal (`journal.c`), the transaction
manager that drives it (`txn.c`), the block device under it (`blockdev.c`), the
file system above it (`inode.c`, `fs_ops.c`), and mkfs and the mount path
(`fs.c`). TLC model-checks small instances, two refinements among them: the
journal implements a store that is updated by whole batches, the file system
implements a tree of names. TLAPS proves, for every instance, both refinements
and the safety invariants of the journal (crash atomicity and durability among
them), of the transaction manager, of the file system, and of mkfs with the
checks of mount.
Source paths below are relative to the repository root.

## 1. The system

logfs is a user-space (FUSE) file system in one backing file:

    | super | journal super | journal ring | inode bitmap | block bitmap | inode table | data |

| Part | State it keeps | Operations | Used by |
|---|---|---|---|
| Block device (`src/blockdev.c`) | file descriptor; behind it the host's page cache | read, write, flush (`fsync`), write+flush (`write_fua`) | everything |
| Journal (`src/journal.c`) | `head`, `tail`, `next_sequence`; on disk the journal superblock and the ring | format, open, commit, advance_tail, recover | commit thread; mount |
| Transaction manager (`src/txn.c`) | staging table, `generation_seq`, `completed_through`, freeze flag, checkpoint list, ordered-block count, writeback queue | start/stop of handles, get_write_access, dirty_metadata, write_data, read_block, commit_sync; commit thread; writeback thread | FUSE callbacks |
| Inodes, allocator, directories (`src/inode.c`) | bitmaps, inode table, directory blocks (all in blocks of the transaction manager) | allocate/free, read/write inode, dir lookup/add/remove, path lookup | FUSE callbacks |
| FUSE operations (`src/fs_ops.c`) | `g_fs_lock` | getattr, readdir, mkdir, rmdir, create, open, read, write, truncate, unlink, fsync | kernel |
| Mount, unmount, format (`src/fs.c`, `src/mkfs.c`) | superblock | mkfs layout; mount = open + recover + flush + start threads; unmount = stop threads | `main.c` |

**Interaction.** A FUSE callback takes `g_fs_lock`, opens a handle, stages
metadata blocks, writes data in one of three modes and closes the handle. The
commit thread freezes the running generation (waits until no handle is open,
new ones wait), takes the staging table, lets new handles in again, flushes
ordered data, commits the blocks to the ring and puts the transaction on the
checkpoint list. When the list is longer than `LOGFS_CKPT_LAG`, when the ring
is short of room, and at unmount, the oldest transaction is copied home and the
tail advances. Mount replays what the journal superblock points at.

**What is hard.** Crashes between any two writes, with writes reordered, lost
or torn; a ring that wraps over transactions that recovery may still need; I/O
errors in the middle of a commit or a checkpoint, after which the program goes
on; the freeze barrier and one condition variable shared by handles, fsync
callers and the commit thread; blocks that are, for a while, in neither of the
two in-memory tables; fsync callers that compare generation numbers.
`PROJECT.json` lists the hazards one by one, at their lines.

**What makes each part correct.**
- Journal: after any crash the mounted contents are the acknowledged
  transactions in order, plus at most one whole unacknowledged one; the ring
  never overwrites a transaction recovery needs; every loop ends.
- Transaction manager: an operation commits as a whole; no update is lost; a
  read is fresh; fsync means durable; ordered data precedes its metadata;
  nobody sleeps forever; unmount leaves everything at home.
- Inodes, directories and FUSE operations: bitmaps, inode references, link
  counts and directory entries agree after every operation and every crash, and
  what the user sees is a tree of names on which every call acts as a whole.
- Layout and mkfs: the regions mkfs lays out do not overlap and hold what the
  other parts index; an image that mounts is complete.

## 2. Modules

| Module | Models | State and actions |
|---|---|---|
| `BlockDev` | `blockdev.c` over the page cache | operators only: a region is `[cur, alt]`, `cur` what a read returns, `alt` every content a power loss may leave |
| `Journal` | `journal.c`; `do_commit`, `checkpoint_oldest`, `enforce_checkpoint_lag` and the drain of `txn.c`; mount/unmount of `fs.c` | one thread of control `pc`; each `pwrite` and each `fsync` is an action |
| `AtomicStore` | what the journal promises (docs/DESIGN.md section 1) | `contents`, `committed`, `pending`; Begin, Acknowledge, Stop, Mount |
| `JournalStore` | the refinement mapping from `Journal` to `AtomicStore` | |
| `JournalMC` | instances | block and value sets, batches |
| `JournalProofs` | theorems about `Journal`: types and the ring, with every error | |
| `JournalRecoveryProofs` | theorems about `Journal`: crashes and recovery | |
| `JournalStoreProofs` | the theorem that `Journal` implements `AtomicStore` | |
| `TxnManager` | `txn.c`, with the FUSE callbacks as clients | each critical section of `mgr->lock` is an action; `cond_wait` is membership in `asleep` |
| `TxnMC` | instances | |
| `TxnProofs` | theorems about `TxnManager`: types, atomicity, data modes, fsync | |
| `TxnRecoveryProofs` | theorems about `TxnManager`: checkpoints, reads, unmount | |
| `FileSystem` | `inode.c`, `fs_ops.c`, over a coarse transaction manager | one action per FUSE callback; Commit, CommitFails, Checkpoint, Crash |
| `FileTree` | what the user is promised (docs/DESIGN.md section 9) | `tree`, `saved`, `touched`; one action per call, Commit, Revert |
| `FileSystemTree` | the refinement mapping from `FileSystem` to `FileTree` | |
| `FileSystemMC` | instances | paths, spans of writes |
| `DirectoryProofs` | lemmas about `FileSystem`: what the helpers of `inode.c` and the namespace operations do to the structure | |
| `FileSystemProofs` | theorems about `FileSystem`: writes, commits, checkpoints, crashes, the invariants, and the refinement of `FileTree` | |
| `Format` | `logfs_fs_format` with `mkfs.c`, and the checks of `logfs_fs_mount` | `todo` is the list of device operations mkfs has left; each one is a step |
| `FormatMC` | instances | image sizes, journal lengths |
| `FormatProofs` | theorems about `Format`: the layout, mkfs and what mount accepts | |

### Journal

`home`, `log` and `jsb` are the disk; `j` is `logfs_journal_t`; `txn`, `ck` and
`rec` are the locals of commit, checkpoint and recovery; `ckpt` is the
checkpoint list. `logical` (the contents after every acknowledged commit),
`limbo` (batches begun and not acknowledged) and `count` (bounds) are history.
The values of `pc`:

    down -> scan -> install -> settle -> ready      mount (OpenNonempty, Recover*)
    down -> ready                                   mount of an empty log (OpenEmpty)
    ready -> reserve -> body -> cblock -> cflush [-> jsuper -> jflush] -> publish -> lag
    ckwrite -> cktail -> cktflush -> (caller)       checkpoint_oldest, from reserve, lag or drain
    jcommit                                         reserve loop left after a failed checkpoint
    ready -> drain -> down                          unmount

`CommitError`, `CheckpointError` and `RecoverError` are the error returns, each
followed by what the caller does with it; a failing write may leave half a
block. `Kill` ends the process and keeps the page cache; `PowerLoss` chooses,
for every block written since the last `fsync`, any earlier or the new content
or a torn one, independently.

Abstractions: CRC-32 has no collisions (a checksum is the sequence of blocks it
covers); block contents are model values; the journal superblock is written
atomically (docs/DESIGN.md section 6 relies on it); offsets and sequence
numbers are unbounded (64-bit in the code); a failed `fsync` loses nothing by
itself. A data block whose bytes look like a revoke block is not represented.

`JournalStore` maps `Journal` to `AtomicStore`. The store's contents are what
the log and the home locations hold together (`LoggedView`): the device with
every live transaction copied over it, the one being checkpointed included. The
refinement says that no step of a checkpoint, a wrap, an error path or a
recovery changes these recoverable contents, and that a mount brings back the
acknowledged ones with at most one whole batch more. It is what lets
`FileSystem` treat a commit, a checkpoint and a crash with its recovery as one
step each.

What a read returns is another matter, and `ReadsCommitted` states it: the
lookup of `logfs_txn_read_block` goes through the checkpoint list, from which
`checkpoint_oldest` unlinks a transaction before it copies it. In between, a
block of that transaction reads as it was before, unless a later transaction
has it (the "known gap" of txn.c:205). `ReadsCommitted` says that this is the
only window and that it closes for each block with its own copy. `TxnManager`
has the same window, with clients that read and stage in it;
`FileSystem`, whose checkpoint is one step, has no calls in it.

### TxnManager

A block's content is the set of the operations whose changes it shows, so a
lost update is a missing element. `staged` is the hash table, `ckpt` the
checkpoint list, `commit` the commit thread, `wb` the writeback queue and
thread. A journal commit is one step here, which `Journal` takes apart; a
failing one is an action of its own. Checkpoints are taken apart block by
block, because readers see the disk in between. `truth`, `durable`, `stable`
and `volatile` are history.

Abstractions: the idle wait of the commit thread is a guard (the code waits
with a timeout and re-checks); `get_write_access`, the caller's change and
`dirty_metadata` are one step (the handle keeps the freeze away, and callers
serialize changes of one block, txn.h); the disk read of `read_block` after it
drops the lock happens with the lookup; the ordered write and its counting are
one step; memory exhaustion is left out. `written` is the last content written
to each data block, for the promise of the writeback queue.

### FileSystem

A block is a bitmap (a set of numbers), a block of the inode table (a function
from inode numbers to inodes), a block of directory entries or a block of file
data. It is looked up where the code looks it up: in the staging table, then in
the newest committed copy not yet checkpointed, then on the device. The
operators named after the functions of `inode.c` and `fs_ops.c` take and return
a call in progress: `rc`, the last number allocated, and the staging table and
device as this call has changed them. After an error they return it untouched,
as every callee's `if (rc != 0)` does. The loops over the slots of a directory
(pairs of a block index and an entry index), over the names of a path and over
the blocks of a write are a choice of the first slot and two recursive
functions. A call carries the index of the fallible
callee (a `malloc` in `find_or_create_dirty`, a device write) that fails, so
every error path is a step, with what was staged before it left staged, as the
code leaves it.

`g_fs_lock` makes a callback one step, but for its lookups, which change
nothing. Two histories, `tree` and `saved`, hold what a walk over the paths with
getattr and read sees, now and at the last commit. `FileSystemTree` maps them to
`FileTree`; the mapping is that walk, so the refinement compares the outcome of
each call with the abstract one through bitmaps, inodes, directory slots and
three levels of storage. `FileTree` lets a `Revert` happen at any step;
`OnlyFailuresRevert` says that in the code only a failed commit and a crash are
one, and that commits and checkpoints change nothing a walk sees.

The inode table is as long as its inodes need (`data_start`). `logfs_fs_format`
computes the length from bytes, which for some sizes is too short (run
`layout_inodes`); those layouts are in `Format` and left out here. Images of
fewer than 340 blocks are all covered (`SmallImagesHoldTheirInodes`). An error
may hit every fallible call of every callback, whatever the constants
(`MaxFallible`: six in mkdir, one per data block and two more in a write).

External: the kernel looks a name up before it forwards a call, so `mkdir` and
`create` get a free name in an existing directory, and `open`, `truncate` and
`unlink` an existing file (`Creatable`, `IsFile`). libfuse without `hard_remove`
turns an unlink of an open file into a rename, which logfs does not have, so the
call fails.

### Format

The layout is computed with the real numbers (4096-byte blocks, 144-byte
inodes, 32768 bits to a bitmap). mkfs is the list of its writes and flushes,
one step each, over a file that may not exist, be shorter or longer, or hold an
older file system, perhaps a used one. The size of the file is a region of its
own, because `ftruncate` is volatile until a flush too. mkfs may stop at every
step (an error, a kill), and power may fail at every step. External: the
journal superblock is 48 bytes in one sector and is not torn; a torn superblock
fails its checksum.

### Conditions

Some behaviours of the code break a promise the repository makes. They are
gated by constants: with a gate closed the passing runs show what holds, and
opening it shows what breaks. Five are opened by violation runs
(`layout_inodes`, the sixth, needs no gate); the others are reproduced by
changing one cfg as the table says.

| Gate | What it lets happen | Opened by |
|---|---|---|
| `ReopenUsedLog` | a log with old transactions in it is opened as empty | run `journal_reopen` |
| `PowerLossInRecovery` | power fails while replayed blocks and the new superblock are both unflushed | `JournalReopen.cfg` with the first gate closed, this one TRUE and 2 crashes: `MountRestores` fails (journal.c:484) |
| `Batches` with revokes and data | commit writes the revoke block before the data, recovery looks for it after the data (journal.c:336); no caller passes revokes today | `JournalReopen.cfg` with the gate closed and `Batches <- MCBatchesRevoke`: `MountRestores` fails |
| `ErrorSteps` with `"ckwrite"` | a checkpoint fails; the next one frees the failed transaction's log space (txn.c:234) | `JournalReopen.cfg` with the gate closed, one error at `"ckwrite"`: `MountRestores` fails |
| `ErrorSteps` with `"publish"` | the bookkeeping node cannot be allocated; the next tail advance skips the transaction (txn.c:294) | the same with `"publish"` |
| `ErrorSteps` with `"jsuper"` or `"jflush"` | the first transaction of an empty log is complete but the superblock that makes it findable is not written or not flushed; the head stays advanced, so later transactions are out of recovery's reach, or the failed one is replayed together with the next (journal.c:224) | the same with either |
| `ErrorSteps` with `"cktflush"` | the superblock that advances the tail is written and its flush fails: the device says empty, the tail in memory does not (journal.c:242) | the same with `"cktflush"` |
| `ErrorSteps` with `"cktail"` | the tail is not advanced and the transaction is forgotten all the same | the same with `"cktail"`: `LogTiled` fails, `MountRestores` holds |
| `ErrorSteps` with `"scan"` | an unreadable first descriptor makes recovery empty the log (journal.c:320) | the same with `"scan"` |
| `"overlap"` | an operation starts while a commit is under way | run `txn_lost_update`; with `AssertionHolds` as its invariant, the assertion of `get_write_access` fails (txn.c:529) |
| `"idleSync"` | fsync with nothing staged | run `txn_idle_sync` |
| `"dirtyStop"` | unmount with blocks staged | run `txn_dirty_unmount` |
| `"busySync"` | fsync during a commit shares its generation number and returns with it (txn.c:629) | `TxnIdleSync.cfg` with `{"overlap", "busySync"}`: `SyncMeansDurable` fails |
| `"failure"` | a commit fails and drops its generation; fsync still returns 0 (txn.c:323) | `TxnIdleSync.cfg` with `{"failure"}` |
| `Modes` with `"writeback"` | a read misses a data write that is still queued (txn.c:610) | `TxnLostUpdate.cfg` with that mode and no conditions: `IdleReadsFresh` fails |
| a block in both `Meta` and `Data` | a logged block is reused for ordered data, and the checkpoint of its old content overwrites it: `do_commit` never passes a revoke (txn.c:282) | `TxnDirtyUnmount.cfg` with `Data <- OneMeta` and no conditions: `UnmountComplete` fails |
| `"reuse"` (FileSystem) | ordered data goes to a block that has a journaled copy, or an owner in the committed bitmap (txn.c:572) | run `fs_reuse` |
| `"expose"` | a partial write to a new block, or a truncate that shrinks and then grows a file, shows what the block held before (fs_ops.c:486) | `FsTree.cfg` with it: `ImplementsFileTree` fails |
| `"halfway"` | an error inside mkdir after its name is in, or inside rmdir or truncate, leaves pointers to freed blocks (fs_ops.c:309) | `FsTree.cfg` with it: `BlocksOwned` fails |
| `"openUnlink"` | an open file is unlinked, and the handle writes to a freed inode (fs_ops.c:449); libfuse prevents it unless it is mounted with `hard_remove` | `FsTree.cfg` with it: `NoLeakWithoutError` fails |
| `"dropped"` | a commit fails and drops the creation of an open file (txn.c:318) | `FsTree.cfg` with it: `NoLeakWithoutError` fails |
| `"reformat"` (Format) | mkfs over a file system of the same size is cut short, and the old superblock still names a valid layout (fs.c:38) | `Format.cfg` with it: `MountableIsComplete` fails |
| `"unordered"` | power fails between the superblock's write and its flush, when nothing before it was flushed (fs.c:163) | `Format.cfg` with it: `MountableIsComplete` fails |
| `JournalLens` with 0 | mkfs accepts a journal of no blocks, and `phys_of` divides by zero (fs.c:33) | `Format.cfg` with it: `MountableIsComplete` fails |
| `FsLock` | operations not serialized by `g_fs_lock` | open in `txn_overlap`, for the contract of txn.h alone |

`UsedLog`, the condition of the first gate, is weaker than "some mount wrote to
the log": only a descriptor with a sequence number above 1, and a commit block
with such a number behind it, can be mistaken for the successor of a new
transaction. With the gate closed the model still remounts after crashes, after
unmounts and after failed mounts whenever no such block is left.
`journal_faults` and the theorems of `JournalProofs` have every error step open;
the properties they state hold nevertheless. The theorems about what recovery
brings back need the gates closed (section 4).

## 3. Runs

### Passing

| Run | Bounds | Shows |
|---|---|---|
| `journal_crash` | ring of 7, 2 blocks, 4 commits, 2 crashes, 1 error | the main run: durability and atomicity over commits, checkpoints, unmounts, kills, power losses, crashes in recovery, and errors in commits (before the commit point) and recoveries |
| `journal_faults` | ring of 6, lag 2, 3 commits, 1 crash, 2 errors at any step | the ring stays sound and every loop ends even after errors that lose acknowledged work; transactions too long for the ring (-ENOSPC) or a descriptor (-EINVAL) are rejected |
| `txn_quiet` | 2 clients, 3 operations, 2 fsyncs, ordered and journal mode | with operations and fsyncs between commits, nothing is lost, fsync and unmount keep their promises, everybody returns |
| `txn_overlap` | 2 clients, 2 operations, 1 fsync, all modes and conditions, no `g_fs_lock` | operations stay whole and ordered data comes first, whatever overlaps or fails; the checkpoint pipeline always holds the last committed content of each block; unmount in writeback mode leaves the last write at home; nobody sleeps forever; the writeback queue drains |
| `fs_tree` | 3 paths (one in a subdirectory), 3 inodes, 5 data blocks, 2 entries to a directory block, 4 operations, 2 commits, 1 crash, 1 error | after every sequence of calls, commits, checkpoints, failures and crashes the metadata agrees with itself, the file system implements `FileTree`, and only failures take anything back |
| `format` | images of 8, 9, 116 and 40000 blocks, journals of 1, 2 and 109, 2 formats, 1 power loss | an image that mounts is complete and has a sound layout, and one that mkfs reported done mounts after a power loss |

`journal_crash` also checks `ReadsCommitted`, what readers see during all this,
and `ImplementsAtomicStore`.

Why the bounds are enough: a ring of 7 holds two transactions of 3 and 4
blocks, so the third commit wraps, lands on slots of earlier ones and forces a
checkpoint, and a fourth does so with a wrapped tail; a ring of 6 is filled to
the last slot by two transactions; two crashes allow a crash in the recovery
from the first; two values besides the initial one tell an old transaction's
copy from a newer one's; two blocks let one transaction overlap another in
part. `CkptLag` is 1 where a short list makes more happen and 2, the program's
value, in `journal_faults` and `txn_quiet`. In `TxnManager` three operations
are one that is being checkpointed, one being committed and one running; each
block can be staged in all three places at once.

In `fs_tree` a directory block has two slots, taken by "." and "..", so the
first name needs a second directory block and the directory has grown; two
blocks, two inodes to a table block and three inodes mean that inode 3 is in
another block than the root; mkdir, create, rmdir and write in one generation,
in two, and across a crash all fit in four operations. Five data blocks are few
enough for -ENOSPC in the block bitmap and reuse of freed blocks, three inodes
for -ENOSPC in the inode bitmap. The crash leaves one more operation, which
finds what recovery left. A full directory (`null = {}`) and the -EEXIST and
-ENOTDIR branches behind the kernel's lookup are not reached.

In `format` 8 and 9 blocks are the least sizes for a journal of one and of two
blocks, with a single data block; 116 has 29 inodes, the first size with a
second block of them; with 109 blocks of journal it fails with -ENOSPC, after
the file was resized; 40000 fails with -EFBIG. Two formats are one cut short
over another; two lost resizings would be correlated with the
zeros they bring, which the regions cannot express, hence the assumption
`MaxFormats <= 2`.

Deadlock checking is off in every run: with the bounds used up the program
idles. Waiting that should end is covered by `PipelineReturns`, `CallsReturn`,
`StagedIsTaken` and `QueueDrains`.

Every property has a mutant in `PROJECT.json`: a definition (`Mut...`, next to
the one it replaces) with a plausible slip, such as a missing flush, a wrong
tail, a dropped wake-up, under which TLC finds the property violated.

### Violations

Each one checks a property that a doc or a comment of the repository states;
`PROJECT.json` quotes the line under `findings`.

| Run | What happens |
|---|---|
| `journal_reopen` | an empty log is reopened at offset 0, sequence 1; recovery walks from the new transaction into one of an earlier mount |
| `txn_lost_update` | a block staged during the commit (or checkpoint) of its last change starts from the stale disk copy |
| `txn_idle_sync` | after an fsync with nothing to do, the next one returns without a commit |
| `txn_dirty_unmount` | unmount drops what is staged |
| `fs_reuse` | mkdir, rmdir, create and write within a commit interval: the file's block still has a staged copy as a directory block, which reads find first and the commit writes over the data |
| `layout_inodes` | an image of 340 blocks has 85 inodes in 3 table blocks, which hold 84: inode 85 lies in the root directory's block |

### Fairness

`FileSystem` and `Format` make no fairness assumption; their properties are
safety.

`Journal!FairSpec`: weak fairness of `ThreadStep`, the steps the commit thread
or the mounting thread takes by itself. The thread never waits for anybody in
these steps, so the operating system's scheduler is all that is assumed. New
commits, unmounts, errors and crashes are not fair; neither is the mount of an
empty log.

`TxnManager!FairSpec`: weak fairness of the commit thread, of the writeback
thread, and of every call a client has begun (`InCall`): a thread that is not
asleep goes on. FUSE callbacks always reach `logfs_txn_stop`. Clients need not
begin a call. Only a broadcast wakes a sleeper, so a missing broadcast shows up
as a liveness violation (the mutants of `CallsReturn` and `StagedIsTaken`).

## 4. Proofs

Every theorem is about `Spec` with its constants arbitrary, within the
assumption named in the module that declares them. Where a theorem has a
hypothesis, it closes a gate of section 2, and the table there says which
configuration breaks a promise of the code without it: the hypotheses are the
limits of the code, not of the proofs. Each inductive invariant was checked with TLC
on the instance of the corresponding run before it was proved.

### The ring (`JournalProofs`)

From `JournalAssumption` alone: a ring of at least one block, batches with one
entry per block number, the initial value a value and the torn one not. The
theorems hold for every ring length, batch set (revokes included), lag and error
set, and with every gate open; the bounds on commits, crashes and errors are
arbitrary natural numbers.

| Theorem | Says |
|---|---|
| `TypeCorrect` | `Spec => []TypeOK` |
| `LogStaysOrdered` | `Spec => []LogOrdered`: head minus tail never exceeds the ring; the transactions that need the log lie between them in order, apart |
| `AckedStaysInLog` | `Spec => []AckedInLog`: no acknowledged transaction that is not yet checkpointed is overwritten, in any image a power loss may leave |

*Type correctness* needs `TypeInv`: `TypeOK`, that a checkpoint's caller is
recorded exactly while a checkpoint runs, and that its index starts at 1.

*The ring* needs `LogInv`. Neither `LogOrdered` nor `AckedInLog` is inductive:
whether the next write hits a live transaction depends on the room reserved
when the commit began and on how far it has come. `LogInv` adds:
`WritingInv` (a commit that writes has `txn.desc_offset = j.head`, fits the free
space and has written `txn.k` blocks), `CommittedInv` (after the commit point
the transaction's image is in the log and lies between the live ones and the
head), `CurInAlt` (what a read returns is among what a power loss may leave)
and `IdleInv` (no live transactions outside a mount). The heart is `ModApart`:
two offsets less than the ring's length apart have different slots; `ListWrite`
lifts it to "a write into the free region leaves every live transaction alone",
`ListFlush` to flushes, `ChainAppend`, `ChainTail` and `ChainRelax` follow the
checkpoint list through commit, checkpoint and error. `LogStep` then has one
case per action. The proof does not rely on the tail advance being right after
errors: it shows that the ring stays sound even in those runs that lose work.

### Crashes and recovery (`JournalRecoveryProofs`, `JournalStoreProofs`)

All under `Survivable`: the errors that occur are those of a commit up to the
flush of its commit block and of recovery after its scan, batches have no revokes
(no caller passes any), and the first two gates are closed. Each error step left
out has a row in the table of section 2. The constants of `journal_crash` satisfy
`Survivable`.

| Theorem | Says |
|---|---|
| `ViewStaysCommitted` | `[]ViewIsCommitted`: what log and home locations of a mounted file system hold together is the acknowledged transactions in order |
| `ReadsStayCommitted` | `[]ReadsCommitted`: a read returns the acknowledged content, except of a block whose transaction is unlinked, whose copy home is not made, and which no later transaction has |
| `EveryMountRestores` | `[]MountRestores`: a mount finds a committed state, with at most one whole unacknowledged batch, however often recovery is interrupted |
| `LogStaysTiled` | `[]LogTiled`: the live transactions follow each other without a gap in offsets and numbers |
| `SuperStaysTrue` | `[]SuperNamesOldest`: outside the steps that rewrite it, the durable superblock names the oldest transaction that recovery needs |
| `HomeStaysComplete` | `[]HomeHoldsRest`: what recovery is not bound to replay is durable at home |
| `JournalIsAtomic` | `Spec => ImplementsAtomicStore`, if there is a block at all (without blocks the mounted and the unmounted store cannot be told apart) |

The properties say what is true while mounted; a crash may come at any step, and
a crash in a recovery may come again, so the inductive invariant, `RecoveryInv`,
has a part for each side.

- *Mounted* (`UpInv`, `SuperInv`, `CopyInv`): the live list is tiled from tail to
  the end of the log; the newest copy of a block in it is the acknowledged
  content (`LastWrites`), and a block not in it is at home, in every image
  (`RestHome`); the superblocks that may be on the device name the first
  transaction of the list, or of the list before or after the step that rewrites
  it; and no commit block anywhere in the ring is newer than the list, unless it
  belongs to an attempt to extend it (`TailAt`).
- *Down* (`CrashInv`): for every image that a kill, or a power loss, leaves there
  is a list `L` and a content `e` the history allows such that the superblock
  names `L`, `L` is stored, and replaying it makes `e` (`Replays`).
- *In recovery* (`RecInv`): pass 1 has found a beginning of `L`, pass 2 has copied
  what lies behind its position and not been overwritten by a later copy.

The argument: the scan accepts a transaction only with the next number and a
commit block whose checksum fits its body. By `TailAt` a commit block with the
number behind the list belongs to a batch in `limbo`, so the scan finds the list,
or the list and one whole attempt; both are `Replays`. Copies are idempotent
because whatever pass 2 writes is content of `L`, so an interrupted recovery
leaves `Replays` true for the same `L`, as long as log and superblock are
unchanged: this is where `PowerLossInRecovery` is needed. After recovery the log
says empty and the ring is full of old blocks, none of which `UsedLog` allows to
be newer than the new first transaction: this is where `ReopenUsedLog` is needed.
That a block has a newest copy in a list is `FS_StrictSubsetOrderingWellFounded`
with `WFMin`, which avoid induction over the list.

Reads see the checkpoint list, not the live list. `NewestOf` says what the newest
copy in either is; a block in no transaction of the checkpoint list but in the one
being checkpointed has been written home by it (`CopiedIsHome`, from `CopyInv`) or
is in the window, and what was written is the acknowledged content (`LastWrites`).

The refinement (`JournalStoreProofs`) then only has to say what each step does to
the recoverable contents: `Begins`, `Acknowledges`, `Restores`, an end of the
mount, or nothing, and `RecoveryInv` that the contents the mapping uses are the
history.

### The transaction manager (`TxnProofs`, `TxnRecoveryProofs`)

For every set of clients and blocks, any number of operations and fsyncs and
every lag.

| Theorem | Hypothesis | Says |
|---|---|---|
| `TypeCorrect` | | `[]TypeOK` |
| `OperationsNeverSplit` | | `[]NoSplitOperation`, in every mode, with overlap and failing commits |
| `CheckpointsKeepCommitted` | | `[]CommittedRecoverable`: the last committed content of each block is on the checkpoint list or at home at every moment |
| `AssertionNeverFails` | no `"overlap"` | `[]AssertionHolds`: the assertion of `get_write_access` |
| `DataBeforeMetadata` | `Meta` and `Data` apart | `[]OrderedDataFirst` |
| `QueueReachesHome` | `Meta` and `Data` apart | `[]WritebackComplete` |
| `SyncedIsDurable` | no `"failure"`, `"busySync"`, `"idleSync"` | `[]SyncMeansDurable`, with operations that overlap commits |
| `ReadsAreFresh` | `QuietReads`: no `"overlap"`, no `"failure"`, not in writeback mode, `Meta` and `Data` apart | `[]IdleReadsFresh` |
| `UnmountLeavesAllHome` | `QuietReads`, no `"dirtyStop"` | `[]UnmountComplete` |

That `Meta` and `Data` are apart is not what the code guarantees over time (run
`fs_reuse`); within one life of a block it is what `BlockKinds` of `FileSystem`
checks.

The invariants are small, one per promise, over a common base (`TypeInv`, with
what each kind of call has in its locals; `ShutdownInv`, the order in which unmount
ends the two threads; `PhaseInv`, when the commit thread holds a transaction;
`ModeInv`, which tables may hold file data in which mode):

- `AtomicInv`: an operation with a handle is in no generation taken for commit.
  It relies on numbers never being reused and on the freeze waiting for the last
  handle.
- `HandleInv`: without overlap a handle lives only while the commit thread is idle
  or freezing, so the generation it recorded is the running one.
- `OrderedInv`, `WritebackInv`: where the last content of a data block is, from
  the client's buffer through the queue to its home.
- `SyncInv`: what an fsync waits for is in the running generation, then in the
  hands of the commit thread, and in the journal before `completed_through` says
  so; the numbers of journal and manager agree.
- `RecoverInv`: the content last committed is found by looking at the published
  transaction, the checkpoint list from its newest end, the transaction being
  checkpointed, and the device, in this order; a step moves a copy from one
  layer to the next.
- `FreshInv`: the true content of a block is staged, else in the commit thread's
  hands, else the last committed.

### mkfs and mount (`FormatProofs`)

For every set of sizes and journal lengths, from `FormatAssumption` (at most two
formats, section 3).

| Theorem | Hypothesis | Says |
|---|---|---|
| `AcceptedLayoutIsSound` | a journal of at least one block | a layout that passes both checks of `logfs_fs_format` satisfies `SoundLayout`: regions in order and apart, inside the image, bitmaps of one block large enough, table of enough bytes |
| `SmallImagesHoldTheirInodes` | fewer than 340 blocks | every inode lies in the table: the bound at which `layout_inodes` begins to fail is exact |
| `TypeCorrect` | | `[]TypeOK` |
| `FormattedStaysDurable` | | `[]FormattedIsDurable`: an image mkfs reported done mounts, and is complete, in every image a power loss may leave |
| `MountableStaysComplete` | `Quiet`: no `"reformat"`, no `"unordered"`, no journal of length 0 | `[]MountableIsComplete` |

The first two are arithmetic: `TableRoundsUp` and `InodeCountClamped` are the
facts on `\div` they rest on. The others relate `todo` to the image. `Running(sb,
k)`: mkfs has done `k` operations of the format of layout `sb`, and every block
they wrote holds what was written to it last. `ScriptShape` spells out the list of
operations, `ScriptDone` that it leaves a complete file system when only the
superblock is missing: the inode table is cleared before the root inode is written
into it. `Done(sb)` is what the last flush makes of `Running` and what mounts and
power losses keep.

`MountableIsComplete` also needs the old superblock, since a format of another
size may be cut short over it (`SuperInv`): it names the current size only if all
its parts are there, and if it is durable, so are they for every size the file may
come back with. The proof shows why the code is safe: while the new size is
volatile, mkfs has written only the journal superblock, so a power loss that
brings the old size back brings the old file system back whole; the flush after
that write settles the size, and the old superblock no longer fits it.

### The file system (`DirectoryProofs`, `FileSystemProofs`)

For every number of inodes, data blocks, pointers, entries and units, every set
of paths, spans and sizes, and both data modes, from `FileSystemAssumption` (the
sizes are at least one, a directory block has room for "." and "..", a path is a
non-empty sequence of names other than these two), and for layouts whose inode
table holds its inodes (section 2). All under `FsQuiet`: the gates
`"reuse"`, `"halfway"`, `"openUnlink"` and `"dropped"` of section 2 are closed;
`"expose"` may be open, except for the last two theorems. Errors at every call,
-ENOSPC, failed commits and crashes are included. The constants of `fs_tree` satisfy `FsQuiet` and have `"expose"` closed.

| Theorem | Says |
|---|---|
| `TypesHold` | `[]TypeOK`: every block, on the device, staged, logged or torn, holds what its place in the layout says |
| `BlocksAreOwned` | `[]BlocksOwned` |
| `DirectoriesStaySound` | `[]DirectoriesSound` |
| `LinksAreCounted` | `[]LinkCounts` |
| `BlocksKeepTheirKind` | `[]BlockKinds` |
| `ErrorsAloneLeak` | `[]NoLeakWithoutError` |
| `FsImplementsTree` | `Spec => ImplementsFileTree`, with `"expose"` closed too |
| `FailuresAloneRevert` | `Spec => OnlyFailuresRevert`, with `"expose"` closed too |

None of the six invariants is inductive. They speak of the paths that lead somewhere, which
are computed by a walk through the blocks, and a crash replaces those blocks by
what the log and the device hold. The inductive invariant (`FsInv`, its heart is
`Good`) names two structures, each by a function from paths to inodes:

- `I`, what the running system reads through staging table, log and device. It
  is `Consistent`: every path has a directory above it that lists it, once, with
  its inode and type, and lists nothing else (`Listed`); every block has one
  owner, is marked and is of its owner's kind (`Owners`); link counts are right
  (`Linked`); and, until an operation has failed, nothing else is allocated
  (`Tight`).
- `J`, what the log gives over *every* content the device may have after a power
  loss (`IsImage`). It is `Consistent` too (`DurableOK`).

Mode "ordered" needs more, because data passes the journal by: no block of a file
has a staged or a logged copy (else a reader, a checkpoint or a replay would find
the copy), and no block of a live file is a directory's in `J` (`Apart`), else the
data would hit a committed directory. The gate `"reuse"` is exactly what preserves
these two (`NoReuse`, used in `GoodWrite`); run `fs_reuse` shows what happens
without it.

The argument goes bottom up. `AccessEffect` and `PutEffect` say what one change of
one block does; from them come the effects of each helper of `inode.c`
(`SetBitEffect`, `InodeWrite`, `SetSlotEffect`, `DirAdd`, `DirRemove`), each with
its error case. `PathLookup` shows, by induction on the length of a path, that in
a `Sound` structure the code's walk finds exactly the paths of `I`. `Link` and
`CutSound` add and take a path; `Frame` and `RewriteSound` cover changes outside
of what the paths own and inside one file. The write loop has an invariant of its
own (`LoopOK`, preserved by `ChunkOK`, also by a turn that fails). Each callback
then has a lemma (`MkdirOp`, `CreateOp`, `UnlinkOp`, `RmdirOp`, `TruncateOp`,
`WriteOp`), and the steps that move blocks between the three places another
(`GoodCommit`, `GoodDrop`, `GoodCheckpoint`, `GoodCrash`): a commit makes `J` equal
to `I`, a failed commit and a crash make `I` equal to `J`, a checkpoint changes
what nobody reads.

*The refinement* needs the contents of files as well, and the past: `Revert` of
`FileTree` promises the tree of the last commit. `FsInv` therefore also says
(`Memory`), for every image a power loss may leave:

- `Remembers`: what the log gives over it, named by `J`, is the tree `saved`, in
  mode "ordered" except for the data of the paths in `touched`;
- `SameOwner` (mode "ordered"): a block that belongs to a file now and to a file
  in what is committed belongs to the same path. Data written in place thus
  changes no committed file but the one it is written to, which is in `touched`.

Each operation's lemma also says what the named inodes show afterwards
(`SameNodes`, `OthersSame`, `WriteShows`), so that `AddTree`, `DeleteTree`,
`TruncateTree`, `WriteTree` and `WriteFailsTree` make a step of the tree of it.
`MemoryOp` and `MemoryWrite` keep `Memory` through the operations (`FilesKept`: no
other operation gives a file a new block; a block `write` allocates is owned by
nobody in what is committed, by the gate `"reuse"`); `MemoryCommit` establishes it
anew, `MemoryDrop` and `MemoryCrash` give `Revert` (`RevertTree`), and
`MemoryCheckpoint` shows that a checkpoint is invisible. `TreeStep` keeps apart
which of these steps are a `Revert`, for `FailuresAloneRevert`. The gate `"expose"` enters
in one place, `NotExposed`: outside of what it writes, a write or a truncate shows
the old units and zeros.

### Model-checked only

Liveness (`PipelineReturns`, `CallsReturn`, `StagedIsTaken`, `QueueDrains`) is
out of the prover's reach, which has neither fairness nor ENABLED. Every other
property of a passing run is also stated by a theorem.

## 5. Not modelled

- In `FileSystem`: mode "writeback" (its reads and its queue are in
  `TxnManager`); half a block of ordered data left by a failed write;
  operations and reads that overlap a commit or a checkpoint (`TxnManager` has
  them, and `ReadsCommitted` of `Journal`); permission bits,
  owners, times, and the limits on the length of names and paths. A clean
  unmount is a Crash with nothing staged.
- Memory exhaustion except for the bookkeeping node of a commit (`Journal`) and
  the staging nodes (`FileSystem`). `flatten_and_clear` returning NULL with a
  non-zero count (txn.c:168) makes the commit read through a null pointer: that
  is a `Kill` of `Journal`.
- CRC-32 (`crc32.c`) and the byte layout of the on-disk structures: a checksum
  is the content it covers.
- Argument parsing (`main.c`, `mkfs.c`), the override of the data mode beyond
  its result, and sizes near 2^64, where the sum in the first check of
  `logfs_fs_format` wraps.
- `fsync` errors that drop dirty pages of the host.

## 6. Plan

1. (done) `BlockDev`, `Journal`, their runs, and the proofs of type
   correctness and of the ring.
2. (done) `TxnManager` and its runs.
3. (done) `AtomicStore`, implemented by `Journal`.
4. (done) `FileSystem`, and `FileTree`, implemented by it.
5. (done) `Format`: layout, mkfs and mount checks, and the layout's theorems.
6. (done) Proofs: every invariant of `Journal`, `TxnManager` and `Format`, and
   the refinement of `AtomicStore`.
7. (done) Proofs: every invariant of `FileSystem`.
8. (done) Proof: the refinement of `FileTree`.
