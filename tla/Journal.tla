------------------------------ MODULE Journal ------------------------------
(***************************************************************************)
(* The journal of logfs: journal.c (commit, tail advance, two-pass         *)
(* recovery over a circular log) driven, as in the program, by the commit  *)
(* thread's do_commit, checkpoint_oldest and enforce_checkpoint_lag of     *)
(* txn.c, and by the mount and unmount of fs.c.  Every block write and     *)
(* every flush is a step of its own; a kill of the process or a power loss *)
(* may come between any two of them.                                       *)
(*                                                                         *)
(* Only the commit thread (and, before it exists, the mounting thread)     *)
(* uses the journal, so this module has one thread of control, pc.         *)
(*                                                                         *)
(* CRC-32 is taken to have no collisions: the checksum of a transaction is *)
(* the sequence of the blocks it is computed over.  The journal superblock *)
(* is one block and is written atomically (docs/DESIGN.md section 6).      *)
(***************************************************************************)
EXTENDS Integers, Sequences, FiniteSets, BlockDev

CONSTANTS
  Blocks,       \* home-location block numbers
  Vals,         \* block contents
  InitVal,      \* content of every home block after mkfs
  TornVal,      \* content of a half-written home block
  Batches,      \* what one generation may hand to do_commit
  MaxLen,       \* journal_len, in blocks
  MaxTags,      \* LOGFS_MAX_TAGS_PER_DESC = LOGFS_MAX_REVOKES_PER_BLOCK
  CkptLag,      \* LOGFS_CKPT_LAG
  MaxCommits, MaxCrashes, MaxErrors,   \* bounds on the explored behaviours
  ErrorSteps,           \* the steps that may report an I/O or memory error
  ReopenUsedLog,        \* may a log that holds old transactions be reopened as empty?
  PowerLossInRecovery   \* may power fail between recovery's last write and its fsync?

Pending == [target : Blocks, data : Vals]
Batch == [data : Seq(Pending), revoke : Seq(Blocks)]

(* A batch comes from the staging hash table: one node per block number.    *)
ASSUME JournalAssumption ==
  /\ InitVal \in Vals /\ TornVal \notin Vals
  /\ Batches \subseteq Batch
  /\ \A b \in Batches : \A m, n \in DOMAIN b.data :
       b.data[m].target = b.data[n].target => m = n
  /\ MaxLen \in Nat \ {0} /\ MaxTags \in Nat /\ CkptLag \in Nat
  /\ MaxCommits \in Nat /\ MaxCrashes \in Nat /\ MaxErrors \in Nat
  /\ ReopenUsedLog \in BOOLEAN /\ PowerLossInRecovery \in BOOLEAN

VARIABLES
  home,     \* region: the home locations
  log,      \* region: the journal's slots 0..MaxLen-1
  jsb,      \* the journal superblock, [cur, alt] as in a region
  j,        \* logfs_journal_t: head, tail, next_sequence
  pc,       \* what the thread that owns the journal does next
  txn,      \* locals of do_commit / logfs_journal_commit
  ckpt,     \* mgr->ckpt_head list, oldest first
  ck,       \* locals of checkpoint_oldest: transaction, next block, caller
  rec,      \* locals of logfs_journal_recover
  logical,  \* history: home contents after every acknowledged commit
  limbo,    \* history: batches written to the log but not acknowledged
  count     \* history: commits, crashes and errors so far (bounds)

vars == <<home, log, jsb, j, pc, txn, ckpt, ck, rec, logical, limbo, count>>
-----------------------------------------------------------------------------
(* On-disk format (disk_format.h). *)

LOGFS_JOURNAL_EMPTY == -1      \* UINT64_MAX, no logical offset

Slots == 0 .. MaxLen - 1
phys_of(off) == off % MaxLen

ZeroBlock == [type |-> "zero"]
TornBlock == [type |-> "torn"]
DescBlock(t) == [type |-> "desc", sequence |-> t.sequence,
                 tags |-> [i \in DOMAIN t.data |-> t.data[i].target]]
RevokeBlock(t) == [type |-> "revoke", sequence |-> t.sequence, blocks |-> t.revoke]
DataBlock(p) == [type |-> "data", data |-> p.data]

(* The blocks logfs_journal_commit writes before the commit block, in order. *)
Body(t) == <<DescBlock(t)>>
           \o (IF t.revoke = <<>> THEN <<>> ELSE <<RevokeBlock(t)>>)
           \o [i \in DOMAIN t.data |-> DataBlock(t.data[i])]

(* checksum_transaction covers exactly the blocks of the body.              *)
CommitBlock(t) == [type |-> "commit", sequence |-> t.sequence, checksum |-> Body(t)]

MutFreeSpaceOffByOne == MaxLen - (j.head - j.tail) + 1
logfs_journal_free_space == MaxLen - (j.head - j.tail)

(* 0 when the transaction does not fit one descriptor and one revoke block. *)
logfs_journal_space_needed(b) ==
  IF Len(b.data) > MaxTags \/ Len(b.revoke) > MaxTags THEN 0
  ELSE 1 + Len(b.data) + (IF b.revoke = <<>> THEN 0 ELSE 1) + 1

Super(start, sequence) == [start |-> start, sequence |-> sequence]
jsuper_write(start, sequence) ==
  LET s == Super(start, sequence)
  IN  jsb' = [cur |-> s, alt |-> jsb.alt \cup {s}]

(* fsync() of the backing file: all three regions live in one file.         *)
FlushAll == /\ home' = logfs_bdev_flush(home)
            /\ log' = logfs_bdev_flush(log)
            /\ jsb' = [cur |-> jsb.cur, alt |-> {jsb.cur}]

write_logical(off, block) ==
  log' = logfs_bdev_write(log, phys_of(off), block, TornBlock)
read_logical(off) == log.cur[phys_of(off)]
-----------------------------------------------------------------------------
NoTxn == [data |-> <<>>, revoke |-> <<>>, sequence |-> 0, desc_offset |-> 0,
          was_empty |-> FALSE, k |-> 0]
NoLogged == [data |-> <<>>, revoke |-> <<>>, sequence |-> 0, desc_offset |-> 0]
NoCk == [t |-> NoLogged, i |-> 0, caller |-> "none"]
NoRec == [scan |-> 0, expect_seq |-> 0, txns |-> <<>>, revokes |-> {}, n |-> 1, i |-> 1]

(* What the blocks of one transaction make of home contents s.              *)
Apply(s, data) ==
  [b \in Blocks |-> IF \E i \in DOMAIN data : data[i].target = b
                    THEN data[CHOOSE i \in DOMAIN data : data[i].target = b].data
                    ELSE s[b]]

(* logfs_journal_format on a fresh image, before the first mount.           *)
Init ==
  /\ home = Settled([b \in Blocks |-> InitVal])
  /\ log = Settled([s \in Slots |-> ZeroBlock])
  /\ jsb = [cur |-> Super(LOGFS_JOURNAL_EMPTY, 0),
            alt |-> {Super(LOGFS_JOURNAL_EMPTY, 0)}]
  /\ j = [head |-> 0, tail |-> 0, next_sequence |-> 0]
  /\ pc = "down"
  /\ txn = NoTxn /\ ckpt = <<>> /\ ck = NoCk /\ rec = NoRec
  /\ logical = [b \in Blocks |-> InitVal]
  /\ limbo = {}
  /\ count = [commits |-> 0, crashes |-> 0, errors |-> 0]
-----------------------------------------------------------------------------
(* Mount: logfs_journal_open, then logfs_journal_recover, then a flush.     *)

(* Does the log hold a descriptor or a commit block that sequence numbers   *)
(* restarted at 1 could run into?                                           *)
UsedLog == \E s \in Slots : /\ log.cur[s].type \in {"desc", "commit"}
                            /\ log.cur[s].sequence > 1

(* The committed states a recovery may come back to. *)
Allowed == {logical} \cup {Apply(logical, data) : data \in limbo}

(* History only: the mount is complete, what it found is what was committed. *)
Mounted(h) == /\ logical' = IF h \in Allowed THEN h ELSE logical
              /\ limbo' = {}

(* The superblock says the log is empty: recovery returns at once.          *)
OpenEmpty ==
  /\ pc = "down"
  /\ jsb.cur.start = LOGFS_JOURNAL_EMPTY
  /\ UsedLog => ReopenUsedLog
  /\ j' = [head |-> 0, tail |-> 0, next_sequence |-> 1]
  /\ FlushAll
  /\ Mounted(home.cur)
  /\ pc' = "ready"
  /\ UNCHANGED <<txn, ckpt, ck, rec, count>>

OpenNonempty ==
  /\ pc = "down"
  /\ jsb.cur.start # LOGFS_JOURNAL_EMPTY
  /\ j' = [head |-> jsb.cur.start, tail |-> jsb.cur.start,
           next_sequence |-> jsb.cur.sequence]
  /\ rec' = [NoRec EXCEPT !.scan = jsb.cur.start, !.expect_seq = jsb.cur.sequence]
  /\ pc' = "scan"
  /\ UNCHANGED <<home, log, jsb, txn, ckpt, ck, logical, limbo, count>>

(* Pass 1 finds the revoke block, if any, after the data blocks.            *)
HaveRevoke(desc, scan) ==
  read_logical(scan + 1 + Len(desc.tags)).type = "revoke"
CommitOffset(desc, scan) ==
  scan + 1 + Len(desc.tags) + (IF HaveRevoke(desc, scan) THEN 1 ELSE 0)

ScannedBody(desc, scan) ==
  <<desc>>
  \o (IF HaveRevoke(desc, scan)
      THEN <<read_logical(scan + 1 + Len(desc.tags))>> ELSE <<>>)
  \o [i \in DOMAIN desc.tags |-> read_logical(scan + i)]

MutNoChecksum(desc, scan) ==
  /\ desc.type = "desc"
  /\ desc.sequence = rec.expect_seq
  /\ Len(desc.tags) <= MaxTags
  /\ LET cb == read_logical(CommitOffset(desc, scan))
     IN  cb.type = "commit" /\ cb.sequence = desc.sequence

(* The next transaction of pass 1 is complete and its checksum matches.     *)
ScanValid(desc, scan) ==
  /\ desc.type = "desc"
  /\ desc.sequence = rec.expect_seq
  /\ Len(desc.tags) <= MaxTags
  /\ LET cb == read_logical(CommitOffset(desc, scan))
     IN  /\ cb.type = "commit"
         /\ cb.sequence = desc.sequence
         /\ cb.checksum = ScannedBody(desc, scan)

RecoverScan ==
  LET desc == read_logical(rec.scan) IN
  /\ pc = "scan"
  /\ ScanValid(desc, rec.scan)
  /\ LET rv == read_logical(rec.scan + 1 + Len(desc.tags)) IN
     rec' = [rec EXCEPT
       !.txns = Append(@, [sequence |-> desc.sequence, tags |-> desc.tags,
                           data_offset |-> rec.scan + 1]),
       !.revokes = @ \cup (IF HaveRevoke(desc, rec.scan)
                           THEN {[block |-> rv.blocks[i], sequence |-> rv.sequence] :
                                   i \in DOMAIN rv.blocks}
                           ELSE {}),
       !.expect_seq = desc.sequence + 1,
       !.scan = CommitOffset(desc, rec.scan) + 1]
  /\ UNCHANGED <<home, log, jsb, j, pc, txn, ckpt, ck, logical, limbo, count>>

RecoverScanEnd ==
  /\ pc = "scan"
  /\ ~ScanValid(read_logical(rec.scan), rec.scan)
  /\ pc' = "install"
  /\ UNCHANGED <<home, log, jsb, j, txn, ckpt, ck, rec, logical, limbo, count>>

(* Pass 2: one block of the n-th recovered transaction, copied as it is.    *)
Content(block) == IF block.type = "data" THEN block.data ELSE TornVal

Revoked(block, sequence) ==
  \E r \in rec.revokes : r.block = block /\ r.sequence > sequence

RecoverInstall ==
  /\ pc = "install"
  /\ rec.n <= Len(rec.txns)
  /\ LET t == rec.txns[rec.n] IN
     IF rec.i > Len(t.tags)
     THEN /\ rec' = [rec EXCEPT !.n = @ + 1, !.i = 1]
          /\ UNCHANGED home
     ELSE /\ rec' = [rec EXCEPT !.i = @ + 1]
          /\ IF Revoked(t.tags[rec.i], t.sequence)
             THEN UNCHANGED home
             ELSE home' = logfs_bdev_write(home, t.tags[rec.i],
                            Content(read_logical(t.data_offset + rec.i - 1)), TornVal)
  /\ UNCHANGED <<log, jsb, j, pc, txn, ckpt, ck, logical, limbo, count>>

(* The log is replayed: jsuper_write(EMPTY) is a pwrite() ...               *)
RecoverEmpty ==
  /\ pc = "install"
  /\ rec.n > Len(rec.txns)
  /\ j' = [head |-> rec.scan, tail |-> rec.scan, next_sequence |-> rec.expect_seq]
  /\ jsuper_write(LOGFS_JOURNAL_EMPTY, 0)
  /\ pc' = "settle"
  /\ UNCHANGED <<home, log, txn, ckpt, ck, rec, logical, limbo, count>>

(* ... and an fsync(), which is also the first to cover the installed blocks. *)
RecoverFlush ==
  /\ pc = "settle"
  /\ FlushAll
  /\ Mounted(home.cur)
  /\ rec' = NoRec
  /\ pc' = "ready"
  /\ UNCHANGED <<j, txn, ckpt, ck, count>>
-----------------------------------------------------------------------------
(* do_commit and logfs_journal_commit. *)

DoCommit(b) ==
  /\ pc = "ready"
  /\ count.commits < MaxCommits
  /\ txn' = [NoTxn EXCEPT !.data = b.data, !.revoke = b.revoke]
  /\ count' = [count EXCEPT !.commits = @ + 1]
  /\ pc' = "reserve"
  /\ UNCHANGED <<home, log, jsb, j, ckpt, ck, rec, logical, limbo>>

MutNeedRoomSpins == logfs_journal_free_space < logfs_journal_space_needed(txn)

(* Checkpoint the oldest transaction while the log has too little room.     *)
(* (txn.c counts no revokes: its batches have none.)                        *)
NeedRoom == logfs_journal_free_space < logfs_journal_space_needed(txn) /\ ckpt # <<>>

MutKeepOldest(caller) ==
  /\ ckpt # <<>>
  /\ ck' = [t |-> Head(ckpt), i |-> 1, caller |-> caller]
  /\ pc' = "ckwrite"
  /\ UNCHANGED <<home, log, jsb, j, txn, ckpt, rec, logical, limbo, count>>

MutTakeNewest(caller) ==
  /\ ckpt # <<>>
  /\ ck' = [t |-> ckpt[Len(ckpt)], i |-> 1, caller |-> caller]
  /\ ckpt' = SubSeq(ckpt, 1, Len(ckpt) - 1)
  /\ pc' = "ckwrite"
  /\ UNCHANGED <<home, log, jsb, j, txn, rec, logical, limbo, count>>

(* checkpoint_oldest: unlink the oldest transaction, remember the caller.   *)
TakeOldest(caller) ==
  /\ ckpt # <<>>
  /\ ck' = [t |-> Head(ckpt), i |-> 1, caller |-> caller]
  /\ ckpt' = Tail(ckpt)
  /\ pc' = "ckwrite"
  /\ UNCHANGED <<home, log, jsb, j, txn, rec, logical, limbo, count>>

Reserve == pc = "reserve" /\ NeedRoom /\ TakeOldest("reserve")

Fits(b) == LET needed == logfs_journal_space_needed(b)
           IN  needed # 0 /\ needed <= logfs_journal_free_space

(* A transaction that does not fit is dropped: -EINVAL or -ENOSPC.          *)
CommitRejected ==
  /\ \/ pc = "reserve" /\ ~NeedRoom
     \/ pc = "jcommit"
  /\ ~Fits(txn)
  /\ txn' = NoTxn
  /\ pc' = "lag"
  /\ UNCHANGED <<home, log, jsb, j, ckpt, ck, rec, logical, limbo, count>>

CommitBegin ==
  /\ \/ pc = "reserve" /\ ~NeedRoom
     \/ pc = "jcommit"
  /\ Fits(txn)
  /\ txn' = [txn EXCEPT !.sequence = j.next_sequence, !.desc_offset = j.head,
                        !.was_empty = (j.tail = j.head)]
  /\ limbo' = limbo \cup {txn.data}
  /\ pc' = "body"
  /\ UNCHANGED <<home, log, jsb, j, ckpt, ck, rec, logical, count>>

(* Descriptor, revoke block and data blocks, one pwrite() each.             *)
CommitWriteBody ==
  /\ pc = "body"
  /\ txn.k < Len(Body(txn))
  /\ write_logical(txn.desc_offset + txn.k, Body(txn)[txn.k + 1])
  /\ txn' = [txn EXCEPT !.k = @ + 1]
  /\ UNCHANGED <<home, jsb, j, pc, ckpt, ck, rec, logical, limbo, count>>

CommitPreflush ==
  /\ pc = "body"
  /\ txn.k = Len(Body(txn))
  /\ FlushAll
  /\ pc' = "cblock"
  /\ UNCHANGED <<j, txn, ckpt, ck, rec, logical, limbo, count>>

CommitWriteBlock ==
  /\ pc = "cblock"
  /\ write_logical(txn.desc_offset + txn.k, CommitBlock(txn))
  /\ txn' = [txn EXCEPT !.k = @ + 1]
  /\ pc' = "cflush"
  /\ UNCHANGED <<home, jsb, j, ckpt, ck, rec, logical, limbo, count>>

MutSuperNotWritten ==
  /\ pc = "cflush"
  /\ FlushAll
  /\ j' = [j EXCEPT !.head = txn.desc_offset + txn.k,
                    !.next_sequence = txn.sequence + 1]
  /\ pc' = "publish"
  /\ UNCHANGED <<txn, ckpt, ck, rec, logical, limbo, count>>

CommitFlush ==
  /\ pc = "cflush"
  /\ FlushAll
  /\ j' = [j EXCEPT !.head = txn.desc_offset + txn.k,
                    !.next_sequence = txn.sequence + 1]
  /\ pc' = IF txn.was_empty THEN "jsuper" ELSE "publish"
  /\ UNCHANGED <<txn, ckpt, ck, rec, logical, limbo, count>>

CommitSuperWrite ==
  /\ pc = "jsuper"
  /\ jsuper_write(txn.desc_offset, txn.sequence)
  /\ pc' = "jflush"
  /\ UNCHANGED <<home, log, j, txn, ckpt, ck, rec, logical, limbo, count>>

CommitSuperFlush ==
  /\ pc = "jflush"
  /\ FlushAll
  /\ pc' = "publish"
  /\ UNCHANGED <<j, txn, ckpt, ck, rec, logical, limbo, count>>

(* do_commit links the transaction to the checkpoint list; fsync() callers  *)
(* waiting for it are released by the same critical section.                *)
Publish ==
  /\ pc = "publish"
  /\ ckpt' = Append(ckpt, [data |-> txn.data, revoke |-> txn.revoke,
                           sequence |-> txn.sequence, desc_offset |-> txn.desc_offset])
  /\ logical' = Apply(logical, txn.data)
  /\ limbo' = {}
  /\ txn' = NoTxn
  /\ pc' = "lag"
  /\ UNCHANGED <<home, log, jsb, j, ck, rec, count>>
-----------------------------------------------------------------------------
(* enforce_checkpoint_lag, the drain at shutdown, and checkpoint_oldest. *)

Lagging == Len(ckpt) > CkptLag

EnforceLag == pc = "lag" /\ Lagging /\ TakeOldest("lag")

EndCycle ==
  /\ pc = "lag"
  /\ ~Lagging
  /\ pc' = "ready"
  /\ UNCHANGED <<home, log, jsb, j, txn, ckpt, ck, rec, logical, limbo, count>>

Shutdown ==
  /\ pc = "ready"
  /\ pc' = "drain"
  /\ UNCHANGED <<home, log, jsb, j, txn, ckpt, ck, rec, logical, limbo, count>>

Drain == pc = "drain" /\ TakeOldest("drain")

Unmounted ==
  /\ pc = "drain"
  /\ ckpt = <<>>
  /\ pc' = "down"
  /\ UNCHANGED <<home, log, jsb, j, txn, ckpt, ck, rec, logical, limbo, count>>

CheckpointWrite ==
  /\ pc = "ckwrite"
  /\ ck.i <= Len(ck.t.data)
  /\ LET p == ck.t.data[ck.i]
     IN  home' = logfs_bdev_write(home, p.target, p.data, TornVal)
  /\ ck' = [ck EXCEPT !.i = @ + 1]
  /\ UNCHANGED <<log, jsb, j, pc, txn, ckpt, rec, logical, limbo, count>>

MutCheckpointUnflushed ==
  /\ pc = "ckwrite"
  /\ ck.i > Len(ck.t.data)
  /\ pc' = "cktail"
  /\ UNCHANGED <<home, log, jsb, j, txn, ckpt, ck, rec, logical, limbo, count>>

CheckpointFlush ==
  /\ pc = "ckwrite"
  /\ ck.i > Len(ck.t.data)
  /\ FlushAll
  /\ pc' = "cktail"
  /\ UNCHANGED <<j, txn, ckpt, ck, rec, logical, limbo, count>>

MutNewTailHead == j.head
NewTail == IF ckpt # <<>> THEN Head(ckpt).desc_offset ELSE j.head
MutNewTailSeq == j.next_sequence
NewTailSeq == IF ckpt # <<>> THEN Head(ckpt).sequence ELSE j.next_sequence

(* logfs_journal_advance_tail. *)
AdvanceTailWrite ==
  /\ pc = "cktail"
  /\ jsuper_write(IF NewTail = j.head THEN LOGFS_JOURNAL_EMPTY ELSE NewTail, NewTailSeq)
  /\ pc' = "cktflush"
  /\ UNCHANGED <<home, log, j, txn, ckpt, ck, rec, logical, limbo, count>>

MutTailIsStart ==
  /\ pc = "cktflush"
  /\ FlushAll
  /\ j' = [j EXCEPT !.tail = jsb.cur.start]
  /\ ck' = NoCk
  /\ pc' = ck.caller
  /\ UNCHANGED <<txn, ckpt, rec, logical, limbo, count>>

MutTailNotMoved ==
  /\ pc = "cktflush"
  /\ FlushAll
  /\ ck' = NoCk
  /\ pc' = ck.caller
  /\ UNCHANGED <<j, txn, ckpt, rec, logical, limbo, count>>

AdvanceTailFlush ==
  /\ pc = "cktflush"
  /\ FlushAll
  /\ j' = [j EXCEPT !.tail = NewTail]
  /\ ck' = NoCk
  /\ pc' = ck.caller
  /\ UNCHANGED <<txn, ckpt, rec, logical, limbo, count>>
-----------------------------------------------------------------------------
(* Errors and crashes. *)

CommitSteps == {"body", "cblock", "cflush", "jsuper", "jflush", "publish"}
PostCommit == {"jsuper", "jflush", "publish"}
CkptSteps == {"ckwrite", "cktail", "cktflush"}
MountSteps == {"scan", "install", "settle"}
AfterCkptError == [reserve |-> "jcommit", lag |-> "ready", drain |-> "down"]

(* A write or a flush fails, or (publish) malloc does.                      *)
Fault ==
  /\ pc \in ErrorSteps
  /\ count.errors < MaxErrors
  /\ count' = [count EXCEPT !.errors = @ + 1]

(* do_commit drops the generation; a failing write may leave half a block.  *)
(* When only the bookkeeping node is missing, the commit is acknowledged.   *)
CommitError ==
  /\ pc \in CommitSteps
  /\ Fault
  /\ \/ UNCHANGED log
     \/ /\ \/ pc = "body" /\ txn.k < Len(Body(txn))
           \/ pc = "cblock"
        /\ write_logical(txn.desc_offset + txn.k, TornBlock)
  /\ IF pc = "publish" THEN logical' = Apply(logical, txn.data) /\ limbo' = {}
     ELSE UNCHANGED <<logical, limbo>>
  /\ txn' = NoTxn
  /\ pc' = "lag"
  /\ UNCHANGED <<home, jsb, j, ckpt, ck, rec>>

(* checkpoint_oldest frees the transaction and its caller's loop ends; when *)
(* that is the drain, the rest of the list goes with the manager.           *)
CheckpointError ==
  /\ pc \in CkptSteps
  /\ Fault
  /\ \/ UNCHANGED home
     \/ /\ pc = "ckwrite" /\ ck.i <= Len(ck.t.data)
        /\ home' = logfs_bdev_write(home, ck.t.data[ck.i].target, TornVal, TornVal)
  /\ ckpt' = IF ck.caller = "drain" THEN <<>> ELSE ckpt
  /\ ck' = NoCk
  /\ pc' = AfterCkptError[ck.caller]
  /\ UNCHANGED <<log, jsb, j, txn, rec, logical, limbo>>

(* A failing read ends the scan; any other failure fails the whole mount.   *)
RecoverError ==
  /\ pc \in MountSteps
  /\ Fault
  /\ \/ pc = "scan" /\ pc' = "install" /\ UNCHANGED <<home, rec>>
     \/ pc' = "down" /\ rec' = NoRec /\ UNCHANGED home
     \/ /\ pc = "install" /\ rec.n <= Len(rec.txns) /\ rec.i <= Len(rec.txns[rec.n].tags)
        /\ ~Revoked(rec.txns[rec.n].tags[rec.i], rec.txns[rec.n].sequence)
        /\ home' = logfs_bdev_write(home, rec.txns[rec.n].tags[rec.i], TornVal, TornVal)
        /\ pc' = "down" /\ rec' = NoRec
  /\ UNCHANGED <<log, jsb, j, txn, ckpt, ck, logical, limbo>>

(* What a crash takes away: everything the process kept in memory. *)
LoseMemory ==
  /\ count.crashes < MaxCrashes
  /\ count' = [count EXCEPT !.crashes = @ + 1]
  /\ pc' = "down"
  /\ j' = [head |-> 0, tail |-> 0, next_sequence |-> 0]
  /\ txn' = NoTxn /\ ckpt' = <<>> /\ ck' = NoCk /\ rec' = NoRec
  /\ UNCHANGED <<logical, limbo>>

(* The process dies (assert, kill): the page cache survives. *)
Kill == pc # "down" /\ LoseMemory /\ UNCHANGED <<home, log, jsb>>

(* Blocks copied home, and the log or the superblock they were replayed     *)
(* under, are all still in the page cache: recovery flushes none of them    *)
(* before its last write.                                                   *)
ReplayUnflushed ==
  /\ pc \in MountSteps \cup {"down"}
  /\ Unflushed(home) # {}
  /\ jsb.alt # {jsb.cur} \/ Unflushed(log) # {}

PowerLoss ==
  /\ ReplayUnflushed => PowerLossInRecovery
  /\ LoseMemory
  /\ \E h \in PowerLossImages(home) : home' = Settled(h)
  /\ \E l \in PowerLossImages(log) : log' = Settled(l)
  /\ \E s \in jsb.alt : jsb' = [cur |-> s, alt |-> {s}]

ThreadStep ==
  \/ OpenNonempty \/ RecoverScan \/ RecoverScanEnd \/ RecoverInstall
  \/ RecoverEmpty \/ RecoverFlush
  \/ Reserve \/ CommitRejected \/ CommitBegin \/ CommitWriteBody \/ CommitPreflush
  \/ CommitWriteBlock \/ CommitFlush \/ CommitSuperWrite \/ CommitSuperFlush
  \/ Publish \/ EnforceLag \/ EndCycle \/ Drain \/ Unmounted
  \/ CheckpointWrite \/ CheckpointFlush \/ AdvanceTailWrite \/ AdvanceTailFlush

Next ==
  \/ ThreadStep
  \/ OpenEmpty
  \/ \E b \in Batches : DoCommit(b)
  \/ Shutdown
  \/ CommitError \/ CheckpointError \/ RecoverError
  \/ Kill \/ PowerLoss

Spec == Init /\ [][Next]_vars

(* The thread that owns the journal keeps running until the process dies.   *)
FairSpec == Spec /\ WF_vars(ThreadStep)
-----------------------------------------------------------------------------
(* Properties. *)

BodyBlock ==
  [type : {"desc"}, sequence : Nat, tags : Seq(Blocks)]
  \cup [type : {"revoke"}, sequence : Nat, blocks : Seq(Blocks)]
  \cup [type : {"data"}, data : Vals]
LogBlock ==
  {ZeroBlock, TornBlock} \cup BodyBlock
  \cup [type : {"commit"}, sequence : Nat, checksum : Seq(BodyBlock)]
SuperBlock == [start : Nat \cup {LOGFS_JOURNAL_EMPTY}, sequence : Nat]
LoggedTxn == [data : Seq(Pending), revoke : Seq(Blocks), sequence : Nat, desc_offset : Nat]
Steps == {"down", "ready", "reserve", "jcommit", "lag", "drain"}
         \cup MountSteps \cup CommitSteps \cup CkptSteps

(* Every variable of the journal and of its device keeps its type.          *)
TypeOK ==
  /\ home \in Region(Blocks, Vals \cup {TornVal})
  /\ log \in Region(Slots, LogBlock)
  /\ jsb \in [cur : SuperBlock, alt : SUBSET SuperBlock]
  /\ j \in [head : Nat, tail : Nat, next_sequence : Nat]
  /\ pc \in Steps
  /\ txn \in [data : Seq(Pending), revoke : Seq(Blocks), sequence : Nat,
              desc_offset : Nat, was_empty : BOOLEAN, k : Nat]
  /\ ckpt \in Seq(LoggedTxn)
  /\ ck \in [t : LoggedTxn, i : Nat, caller : {"none", "reserve", "lag", "drain"}]
  /\ rec \in [scan : Nat, expect_seq : Nat, n : Nat \ {0}, i : Nat \ {0},
              txns : Seq([sequence : Nat, tags : Seq(Blocks), data_offset : Nat]),
              revokes : SUBSET [block : Blocks, sequence : Nat]]
  /\ logical \in [Blocks -> Vals \cup {TornVal}]
  /\ limbo \subseteq Seq(Pending)
  /\ count \in [commits : 0..MaxCommits, crashes : 0..MaxCrashes, errors : 0..MaxErrors]

(* The file system is mounted: recovery is over. *)
Up == pc \notin {"down"} \cup MountSteps

(* The committed transactions recovery would replay, oldest first: the one  *)
(* being checkpointed, then the checkpoint list.                            *)
Live == (IF ck.caller = "none" THEN <<>> ELSE <<ck.t>>) \o ckpt

Writes(t, b) == \E i \in DOMAIN t.data : t.data[i].target = b

(* The log blocks of a whole transaction, and how many they are. *)
Image(t) == Append(Body(t), CommitBlock(t))
Size(t) == 2 + Len(t.data) + (IF t.revoke = <<>> THEN 0 ELSE 1)

(* Every block of t is in the log, whatever a power loss leaves of it.       *)
InLog(t) == \A k \in DOMAIN Image(t) :
              log.alt[phys_of(t.desc_offset + k - 1)] = {Image(t)[k]}

(* Where the live transactions end, and the sequence number after theirs: a *)
(* committed one that is not on the list yet lies between that and j.head.  *)
LogEnd == IF pc \in PostCommit THEN txn.desc_offset ELSE j.head
LogEndSeq == IF pc \in PostCommit THEN txn.sequence ELSE j.next_sequence

(* The transactions of list L lie between offsets lo and hi, in order of    *)
(* offset and of sequence number, and do not overlap.                       *)
Chain(L, lo, hi, seq) ==
  /\ \A i \in DOMAIN L : /\ lo <= L[i].desc_offset
                         /\ L[i].desc_offset + Size(L[i]) <= hi
                         /\ L[i].sequence < seq
  /\ \A i, k \in DOMAIN L :
       i < k => /\ L[i].desc_offset + Size(L[i]) <= L[k].desc_offset
                /\ L[i].sequence < L[k].sequence

(* The content of block b in the newest transaction of list L that writes   *)
(* it, else on the device.                                                  *)
Newest(L, b) ==
  LET W == {i \in DOMAIN L : Writes(L[i], b)}
  IN  IF W = {} THEN home.cur[b]
      ELSE Apply(home.cur, L[CHOOSE i \in W : \A m \in W : m <= i].data)[b]

(* What log and device hold together: home contents once every live         *)
(* transaction, the one being checkpointed included, is copied home.        *)
LoggedView == [b \in Blocks |-> Newest(Live, b)]

(* What a reader gets of a block that is not staged: the newest copy on the *)
(* checkpoint list, else the device.  The transaction being checkpointed is *)
(* no longer on the list.                                                   *)
logfs_txn_read_block(b) == Newest(ckpt, b)

(* Crash atomicity and durability (docs/DESIGN.md section 1): whenever the  *)
(* file system is mounted, also after any number of crashes and recoveries, *)
(* the contents its log and its device hold together are the acknowledged   *)
(* transactions applied in order, and at most one whole unacknowledged one  *)
(* that the crash cut off.  These are the contents recovery would restore;  *)
(* ReadsCommitted says what can be read.                                    *)
ViewIsCommitted == Up => LoggedView = logical

(* The block is in the transaction being checkpointed and not copied yet.   *)
Uncopied(b) ==
  pc = "ckwrite" /\ \E i \in DOMAIN ck.t.data : i >= ck.i /\ ck.t.data[i].target = b

(* A read returns the acknowledged content of its block, but for the window *)
(* checkpoint_oldest leaves between unlinking a transaction and copying its *)
(* blocks ("Known gap", txn.c:205): a block of it that no later transaction *)
(* has written reads as it was before, until its own copy is made and no    *)
(* longer.  No other step of a commit, a checkpoint, a wrap of the ring, an *)
(* error path or a recovery is visible to a reader.                         *)
ReadsCommitted ==
  Up => \A b \in Blocks :
          \/ logfs_txn_read_block(b) = logical[b]
          \/ Uncopied(b) /\ \A n \in DOMAIN ckpt : ~Writes(ckpt[n], b)

(* What a mount finds, by replay or in an empty log, is a committed state:  *)
(* every acknowledged transaction and at most one whole unacknowledged one. *)
MountRestores ==
  /\ pc = "settle" => home.cur \in Allowed
  /\ pc = "down" /\ jsb.cur.start = LOGFS_JOURNAL_EMPTY => home.cur \in Allowed

(* Every acknowledged transaction that is not yet safely at home is intact  *)
(* in the circular log in every image a power loss could leave: later       *)
(* commits, wrapping around the ring, never overwrite it.                   *)
AckedInLog == Up => \A n \in DOMAIN Live : InLog(Live[n])

(* The head never laps the tail (the space computation is unsigned) and the *)
(* live transactions lie between them, in commit order and apart.  Unlike   *)
(* LogTiled, this holds after every I/O error too.                          *)
LogOrdered ==
  Up => /\ j.tail <= LogEnd /\ j.head - j.tail <= MaxLen
        /\ Chain(Live, j.tail, LogEnd, LogEndSeq)

(* The live transactions tile the log from tail to head with consecutive    *)
(* sequence numbers, so that the scan of recovery walks all of them.        *)
LogTiled ==
  Up =>
    LET n == Len(Live) IN
    /\ j.tail <= j.head /\ j.head - j.tail <= MaxLen
    /\ n = 0 => j.tail = LogEnd
    /\ n > 0 => /\ Live[1].desc_offset = j.tail
                /\ Live[n].desc_offset + Size(Live[n]) = LogEnd
                /\ Live[n].sequence + 1 = LogEndSeq
    /\ \A i \in 1 .. n - 1 :
         /\ Live[i + 1].desc_offset = Live[i].desc_offset + Size(Live[i])
         /\ Live[i + 1].sequence = Live[i].sequence + 1

(* Unless it is being rewritten, the superblock on stable storage names the *)
(* oldest live transaction, and says "empty" only when there is none.       *)
SuperNamesOldest ==
  Up /\ pc \notin PostCommit \cup {"cktflush"} =>
    /\ jsb.alt = {jsb.cur}
    /\ IF Live = <<>> THEN jsb.cur.start = LOGFS_JOURNAL_EMPTY
       ELSE jsb.cur = Super(Live[1].desc_offset, Live[1].sequence)

(* A block that recovery is not bound to replay has its committed content   *)
(* at home on stable storage: checkpointing gives up a transaction's log    *)
(* space (from the first write of the new superblock on) only after the     *)
(* copies of all its blocks are durable.                                    *)
HomeHoldsRest ==
  LET needed == IF pc \in {"cktail", "cktflush"} THEN ckpt ELSE Live IN
  Up => \A b \in Blocks :
          (\A n \in DOMAIN needed : ~Writes(needed[n], b)) => home.alt[b] = {logical[b]}

(* The scan of recovery, the loop that frees log space, the checkpoint-lag  *)
(* loop and the drain at shutdown all end: the thread gets back to idle.    *)
PipelineReturns == pc \notin {"ready", "down"} ~> pc \in {"ready", "down"}
=============================================================================
