--------------------------- MODULE JournalProofs ---------------------------
(***************************************************************************)
(* Theorems about Journal for every size of the log, every set of blocks   *)
(* and batches, and any errors and crashes.                                *)
(***************************************************************************)
EXTENDS Journal, SequenceTheorems, TLAPS

-----------------------------------------------------------------------------
(* Arithmetic of the ring. *)

(* A positive multiple of N is at least N.                                  *)
LEMMA MultipleBounds ==
  ASSUME NEW N \in Nat \ {0}, NEW d \in Int
  PROVE  N * d \in Int /\ (d >= 1 => N * d >= N) /\ (d <= 0 => N * d <= 0)
BY Z3

(* Offsets less than N apart lie in different slots of a ring of N slots.   *)
LEMMA ModApart ==
  ASSUME NEW N \in Nat \ {0}, NEW a \in Nat, NEW b \in Nat, a < b, b < a + N
  PROVE  a % N # b % N
<1> DEFINE qa == a \div N
           qb == b \div N
<1>1. \A x \in Nat : x = N * (x \div N) + (x % N) /\ x \div N \in Nat
  BY Z3
<1>2. SUFFICES ASSUME a % N = b % N PROVE FALSE
  OBVIOUS
<1>3. qa \in Int /\ qb \in Int
  BY <1>1
<1>4. b - a = N * qb - N * qa
  BY <1>1, <1>2, <1>3
<1> HIDE DEF qa, qb
<1>5. N * qb - N * qa = N * (qb - qa)
  BY <1>3, Z3
<1>6. (qb - qa >= 1 => N * (qb - qa) >= N) /\ (qb - qa <= 0 => N * (qb - qa) <= 0)
  BY <1>3, MultipleBounds
<1>7. QED
  BY <1>3, <1>4, <1>5, <1>6

(* phys_of maps every offset to a slot of the log.                          *)
LEMMA PhysInSlots ==
  ASSUME NEW off \in Nat
  PROVE  phys_of(off) \in Slots
<1>1. MaxLen \in Nat \ {0}
  BY JournalAssumption
<1>2. \A N \in Nat \ {0}, x \in Nat : x % N \in 0 .. N - 1
  BY Z3
<1>3. QED
  BY <1>1, <1>2 DEF phys_of, Slots
-----------------------------------------------------------------------------
(* The blocks of a transaction. *)

(* What Body and Image need to know of a transaction.                       *)
IsTxn(t) == /\ t.data \in Seq(Pending) /\ t.revoke \in Seq(Blocks)
            /\ t.sequence \in Nat

(* Body has one block per write of logfs_journal_commit before the commit   *)
(* block, and Image one more: the space the reservation counts.             *)
LEMMA BodyProps ==
  ASSUME NEW t, IsTxn(t)
  PROVE  /\ Body(t) \in Seq(BodyBlock)
         /\ Len(Body(t)) = Size(t) - 1
         /\ Size(t) \in Nat /\ Size(t) >= 2
<1> DEFINE D == <<DescBlock(t)>>
           R == IF t.revoke = <<>> THEN <<>> ELSE <<RevokeBlock(t)>>
           S == [i \in DOMAIN t.data |-> DataBlock(t.data[i])]
<1>1. Len(t.data) \in Nat /\ DOMAIN t.data = 1 .. Len(t.data)
  BY DEF IsTxn
<1>2. DescBlock(t) \in BodyBlock
  <2>1. \A i \in 1 .. Len(t.data) : t.data[i] \in Pending
    BY <1>1 DEF IsTxn
  <2>2. \A i \in 1 .. Len(t.data) : t.data[i].target \in Blocks
    BY <2>1 DEF Pending
  <2>3. [i \in 1 .. Len(t.data) |-> t.data[i].target] \in Seq(Blocks)
    BY <1>1, <2>2
  <2>4. QED
    BY <1>1, <2>3 DEF DescBlock, BodyBlock, IsTxn
<1>3. R \in Seq(BodyBlock) /\ Len(R) = (IF t.revoke = <<>> THEN 0 ELSE 1)
  <2>1. RevokeBlock(t) \in BodyBlock
    BY DEF RevokeBlock, BodyBlock, IsTxn
  <2>2. CASE t.revoke = <<>>
    BY <2>2
  <2>3. CASE t.revoke # <<>>
    <3> HIDE DEF BodyBlock
    <3>1. R = <<RevokeBlock(t)>>
      BY <2>3
    <3>2. QED
      BY <2>1, <2>3, <3>1
  <2>4. QED
    BY <2>2, <2>3
<1>4. S \in Seq(BodyBlock) /\ Len(S) = Len(t.data)
  <2>1. \A i \in 1 .. Len(t.data) : t.data[i] \in Pending
    BY <1>1 DEF IsTxn
  <2>2. \A i \in 1 .. Len(t.data) : DataBlock(t.data[i]) \in BodyBlock
    BY <2>1 DEF Pending, DataBlock, BodyBlock
  <2>3. S = [i \in 1 .. Len(t.data) |-> DataBlock(t.data[i])]
    BY <1>1
  <2>4. QED
    BY <1>1, <2>2, <2>3
<1>5. D \in Seq(BodyBlock) /\ Len(D) = 1
  BY <1>2
<1> HIDE DEF D, R, S
<1>6. D \o R \in Seq(BodyBlock) /\ Len(D \o R) = Len(D) + Len(R)
  BY <1>3, <1>5, ConcatProperties
<1>7. (D \o R) \o S \in Seq(BodyBlock) /\ Len((D \o R) \o S) = Len(D \o R) + Len(S)
  BY <1>4, <1>6, ConcatProperties
<1>8. Body(t) = (D \o R) \o S
  BY DEF Body, D, R, S
<1>9. Len(Body(t)) = 1 + (IF t.revoke = <<>> THEN 0 ELSE 1) + Len(t.data)
  BY <1>3, <1>4, <1>5, <1>6, <1>7, <1>8
<1>10. Len(Body(t)) = Size(t) - 1 /\ Size(t) \in Nat /\ Size(t) >= 2
  <2> DEFINE r == IF t.revoke = <<>> THEN 0 ELSE 1
             d == Len(t.data)
  <2>1. r \in {0, 1} /\ d \in Nat
    BY <1>1
  <2>2. Len(Body(t)) = 1 + r + d /\ Size(t) = 2 + d + r
    BY <1>9 DEF Size
  <2> HIDE DEF r, d
  <2>3. QED
    BY <2>1, <2>2
<1>11. QED
  BY <1>7, <1>8, <1>10

(* The blocks of Image, the last of which is the commit block.              *)
LEMMA ImageProps ==
  ASSUME NEW t, IsTxn(t)
  PROVE  /\ DOMAIN Image(t) = 1 .. Size(t)
         /\ \A k \in 1 .. Size(t) - 1 : Image(t)[k] = Body(t)[k]
         /\ Image(t)[Size(t)] = CommitBlock(t)
         /\ CommitBlock(t) \in LogBlock
         /\ \A k \in 1 .. Size(t) : Image(t)[k] \in LogBlock
<1>1. /\ Body(t) \in Seq(BodyBlock) /\ Len(Body(t)) = Size(t) - 1
      /\ Size(t) \in Nat /\ Size(t) >= 2
  BY BodyProps
<1>2. CommitBlock(t) \in LogBlock
  BY <1>1 DEF CommitBlock, LogBlock, IsTxn
<1>3. BodyBlock \subseteq LogBlock
  BY DEF LogBlock
<1>4. Body(t) \in Seq(LogBlock)
  BY <1>1, <1>3
<1>5. /\ Len(Image(t)) = Size(t) /\ Image(t) \in Seq(LogBlock)
      /\ \A k \in 1 .. Len(Body(t)) : Image(t)[k] = Body(t)[k]
      /\ Image(t)[Len(Body(t)) + 1] = CommitBlock(t)
  BY <1>1, <1>2, <1>4, AppendProperties DEF Image
<1>6. QED
  BY <1>1, <1>2, <1>5
-----------------------------------------------------------------------------
(* Regions keep their type. *)

(* logfs_bdev_write: cur and alt change at the written block only.          *)
LEMMA RegionWrite ==
  ASSUME NEW A, NEW V, NEW r \in Region(A, V), NEW a \in A,
         NEW v \in V, NEW torn \in V
  PROVE  logfs_bdev_write(r, a, v, torn) \in Region(A, V)
BY DEF logfs_bdev_write, Region

(* A settled region holds its one content for sure.                         *)
LEMMA RegionSettled ==
  ASSUME NEW A, NEW V, NEW f \in [A -> V]
  PROVE  Settled(f) \in Region(A, V)
BY DEF Settled, Region

(* logfs_bdev_flush: every block is settled.                                *)
LEMMA RegionFlush ==
  ASSUME NEW A, NEW V, NEW r \in Region(A, V)
  PROVE  logfs_bdev_flush(r) \in Region(A, V)
BY RegionSettled DEF logfs_bdev_flush, Region

(* What a power loss leaves of a region is a content of that region.        *)
LEMMA RegionImages ==
  ASSUME NEW A, NEW V, NEW r \in Region(A, V), NEW f \in PowerLossImages(r)
  PROVE  f \in [A -> V]
<1> DEFINE U == Unflushed(r)
           choices == {g \in [U -> UNION {r.alt[a] : a \in U}] :
                         \A a \in U : g[a] \in r.alt[a]}
<1>1. DOMAIN r.cur = A /\ \A a \in A : r.cur[a] \in V /\ r.alt[a] \subseteq V
  BY DEF Region
<1>2. U \subseteq A
  BY <1>1 DEF Unflushed
<1>3. PICK g \in choices : f = [a \in DOMAIN r.cur |-> IF a \in U THEN g[a] ELSE r.cur[a]]
  BY DEF PowerLossImages
<1>4. \A a \in U : g[a] \in V
  BY <1>1, <1>2, <1>3
<1> HIDE DEF U
<1>5. QED
  BY <1>1, <1>3, <1>4

(* FlushAll keeps the type of the three regions.                            *)
LEMMA FlushAllType ==
  ASSUME TypeOK, FlushAll
  PROVE  /\ home' \in Region(Blocks, Vals \cup {TornVal})
         /\ log' \in Region(Slots, LogBlock)
         /\ jsb' \in [cur : SuperBlock, alt : SUBSET SuperBlock]
<1>1. jsb.cur \in SuperBlock
  BY DEF TypeOK
<1>2. QED
  BY <1>1, RegionFlush DEF TypeOK, FlushAll

(* Applying a transaction to home contents gives home contents.             *)
LEMMA ApplyType ==
  ASSUME NEW V, NEW s \in [Blocks -> V], NEW data, \A i \in DOMAIN data : data[i].data \in V
  PROVE  Apply(s, data) \in [Blocks -> V]
<1>1. ASSUME NEW b \in Blocks, \E i \in DOMAIN data : data[i].target = b
      PROVE  data[CHOOSE i \in DOMAIN data : data[i].target = b].data \in V
  BY <1>1
<1>2. QED
  BY <1>1 DEF Apply

(* The blocks of a transaction hold contents.                               *)
LEMMA PendingData ==
  ASSUME NEW data \in Seq(Pending)
  PROVE  \A i \in DOMAIN data : data[i].data \in Vals
<1>1. \A i \in DOMAIN data : data[i] \in Pending
  OBVIOUS
<1>2. QED
  BY <1>1 DEF Pending

(* jsuper_write keeps the type of the superblock.                           *)
LEMMA SuperType ==
  ASSUME TypeOK, NEW start \in Nat \cup {LOGFS_JOURNAL_EMPTY}, NEW sequence \in Nat,
         jsuper_write(start, sequence)
  PROVE  jsb' \in [cur : SuperBlock, alt : SUBSET SuperBlock]
<1>1. Super(start, sequence) \in SuperBlock
  BY DEF Super, SuperBlock
<1>2. QED
  BY <1>1 DEF TypeOK, jsuper_write

-----------------------------------------------------------------------------
(* Type correctness. *)

(* TypeOK is not inductive alone: AdvanceTailFlush goes back to ck.caller,   *)
(* so a checkpoint under way must have a caller, and CheckpointWrite reads   *)
(* ck.t.data[ck.i], so its index starts at 1.                               *)
TypeInv ==
  /\ TypeOK
  /\ pc \in CkptSteps <=> ck.caller # "none"
  /\ pc \in CkptSteps => ck.i >= 1

(* A freshly formatted journal has the types.                               *)
LEMMA TypeInit == Init => TypeInv
<1> SUFFICES ASSUME Init PROVE TypeInv
  OBVIOUS
<1>1. home \in Region(Blocks, Vals \cup {TornVal})
  BY RegionSettled, JournalAssumption DEF Init
<1>2. log \in Region(Slots, LogBlock)
  <2>1. [s \in Slots |-> ZeroBlock] \in [Slots -> LogBlock]
    BY DEF LogBlock
  <2>2. QED
    BY <2>1, RegionSettled DEF Init
<1>3. jsb \in [cur : SuperBlock, alt : SUBSET SuperBlock]
  BY DEF Init, Super, SuperBlock
<1>4. pc \in Steps /\ ck.caller = "none" /\ pc \notin CkptSteps
  BY DEF Init, Steps, CkptSteps, NoCk
<1>5. ckpt \in Seq(LoggedTxn) /\ ck \in [t : LoggedTxn, i : Nat,
                                        caller : {"none", "reserve", "lag", "drain"}]
  BY DEF Init, NoCk, NoLogged, LoggedTxn
<1>6. txn \in [data : Seq(Pending), revoke : Seq(Blocks), sequence : Nat,
              desc_offset : Nat, was_empty : BOOLEAN, k : Nat]
  BY DEF Init, NoTxn
<1>7. rec \in [scan : Nat, expect_seq : Nat, n : Nat \ {0}, i : Nat \ {0},
              txns : Seq([sequence : Nat, tags : Seq(Blocks), data_offset : Nat]),
              revokes : SUBSET [block : Blocks, sequence : Nat]]
  BY DEF Init, NoRec
<1>8. QED
  BY <1>1, <1>2, <1>3, <1>4, <1>5, <1>6, <1>7, JournalAssumption
  DEF Init, TypeInv, TypeOK

(* The state of a fresh process, which a crash leaves and NoTxn etc. name.  *)
LEMMA NoTypes ==
  /\ NoTxn \in [data : Seq(Pending), revoke : Seq(Blocks), sequence : Nat,
                desc_offset : Nat, was_empty : BOOLEAN, k : Nat]
  /\ NoCk \in [t : LoggedTxn, i : Nat, caller : {"none", "reserve", "lag", "drain"}]
  /\ NoCk.caller = "none"
  /\ NoRec \in [scan : Nat, expect_seq : Nat, n : Nat \ {0}, i : Nat \ {0},
                txns : Seq([sequence : Nat, tags : Seq(Blocks), data_offset : Nat]),
                revokes : SUBSET [block : Blocks, sequence : Nat]]
<1>1. NoLogged \in LoggedTxn
  BY DEF NoLogged, LoggedTxn
<1>2. QED
  BY <1>1 DEF NoTxn, NoCk, NoRec

(* The state the mount leaves in the history variables has their types.     *)
LEMMA MountedType ==
  ASSUME TypeOK, Mounted(home.cur)
  PROVE  logical' \in [Blocks -> Vals \cup {TornVal}] /\ limbo' \subseteq Seq(Pending)
<1>1. home.cur \in [Blocks -> Vals \cup {TornVal}]
  BY DEF TypeOK, Region
<1>2. QED
  BY <1>1 DEF TypeOK, Mounted

(* Mount and recovery keep the types.                                       *)
LEMMA TypeMount ==
  ASSUME TypeInv,
         \/ OpenEmpty \/ OpenNonempty \/ RecoverScan \/ RecoverScanEnd
         \/ RecoverInstall \/ RecoverEmpty \/ RecoverFlush
  PROVE  TypeInv'
<1> USE DEF TypeInv, Steps, CkptSteps, MountSteps
<1>1. CASE OpenEmpty
  BY <1>1, FlushAllType, MountedType DEF OpenEmpty, TypeOK
<1>2. CASE OpenNonempty
  <2>1. jsb.cur.start \in Nat /\ jsb.cur.sequence \in Nat
    BY <1>2 DEF OpenNonempty, TypeOK, SuperBlock
  <2>2. QED
    BY <1>2, <2>1, NoTypes DEF OpenNonempty, TypeOK, NoRec
<1>3. CASE RecoverScan
  <2> DEFINE desc == read_logical(rec.scan)
             rv == read_logical(rec.scan + 1 + Len(desc.tags))
             off == CommitOffset(desc, rec.scan)
             new == IF HaveRevoke(desc, rec.scan)
                    THEN {[block |-> rv.blocks[i], sequence |-> rv.sequence] :
                            i \in DOMAIN rv.blocks}
                    ELSE {}
  <2>1. \A o \in Nat : read_logical(o) \in LogBlock
    BY PhysInSlots DEF read_logical, TypeOK, Region
  <2>2. desc \in LogBlock /\ desc.type = "desc"
    BY <1>3, <2>1 DEF RecoverScan, ScanValid, TypeOK
  <2>3. desc.sequence \in Nat /\ desc.tags \in Seq(Blocks)
    BY <2>2 DEF LogBlock, BodyBlock, ZeroBlock, TornBlock
  <2>4. rec.scan \in Nat /\ Len(desc.tags) \in Nat
    BY <2>3 DEF TypeOK
  <2>5. off \in Nat
    BY <2>4 DEF CommitOffset
  <2>6. new \subseteq [block : Blocks, sequence : Nat]
    <3>1. CASE HaveRevoke(desc, rec.scan)
      <4>1. rv \in LogBlock /\ rv.type = "revoke"
        BY <2>1, <2>4, <3>1 DEF HaveRevoke
      <4>2. rv.sequence \in Nat /\ rv.blocks \in Seq(Blocks)
        BY <4>1 DEF LogBlock, BodyBlock, ZeroBlock, TornBlock
      <4>3. QED
        BY <3>1, <4>2
    <3>2. QED
      BY <3>1
  <2>7. rec' = [rec EXCEPT
       !.txns = Append(@, [sequence |-> desc.sequence, tags |-> desc.tags,
                           data_offset |-> rec.scan + 1]),
       !.revokes = @ \cup new,
       !.expect_seq = desc.sequence + 1,
       !.scan = off + 1]
    BY <1>3 DEF RecoverScan
  <2> HIDE DEF desc, rv, off, new
  <2>8. rec' \in [scan : Nat, expect_seq : Nat, n : Nat \ {0}, i : Nat \ {0},
              txns : Seq([sequence : Nat, tags : Seq(Blocks), data_offset : Nat]),
              revokes : SUBSET [block : Blocks, sequence : Nat]]
    <3>1. [sequence |-> desc.sequence, tags |-> desc.tags, data_offset |-> rec.scan + 1]
            \in [sequence : Nat, tags : Seq(Blocks), data_offset : Nat]
      BY <2>3, <2>4
    <3>2. Append(rec.txns, [sequence |-> desc.sequence, tags |-> desc.tags,
                            data_offset |-> rec.scan + 1])
            \in Seq([sequence : Nat, tags : Seq(Blocks), data_offset : Nat])
      BY <3>1, AppendProperties DEF TypeOK
    <3>3. rec.revokes \cup new \in SUBSET [block : Blocks, sequence : Nat]
      BY <2>6 DEF TypeOK
    <3>4. off + 1 \in Nat /\ desc.sequence + 1 \in Nat
      BY <2>3, <2>5
    <3>5. QED
      BY <2>7, <3>2, <3>3, <3>4 DEF TypeOK
  <2>9. QED
    BY <1>3, <2>8 DEF RecoverScan, TypeOK
<1>4. CASE RecoverScanEnd
  BY <1>4 DEF RecoverScanEnd, TypeOK
<1>5. CASE RecoverInstall
  <2> DEFINE t == rec.txns[rec.n]
  <2> DEFINE RTxn == [sequence : Nat, tags : Seq(Blocks), data_offset : Nat]
  <2>0. rec.n \in Nat \ {0} /\ rec.i \in Nat \ {0} /\ rec.txns \in Seq(RTxn)
    BY DEF TypeOK
  <2>1. t.tags \in Seq(Blocks) /\ t.data_offset \in Nat /\ Len(t.tags) \in Nat
    <3>1. rec.n \in 1 .. Len(rec.txns)
      BY <1>5, <2>0 DEF RecoverInstall
    <3> HIDE DEF RTxn
    <3>2. t \in RTxn
      BY <2>0, <3>1, ElementOfSeq
    <3>3. QED
      BY <3>2 DEF RTxn
  <2> HIDE DEF t
  <2>2. rec' \in [scan : Nat, expect_seq : Nat, n : Nat \ {0}, i : Nat \ {0},
              txns : Seq([sequence : Nat, tags : Seq(Blocks), data_offset : Nat]),
              revokes : SUBSET [block : Blocks, sequence : Nat]]
    <3>1. \/ rec' = [rec EXCEPT !.n = @ + 1, !.i = 1]
          \/ rec' = [rec EXCEPT !.i = @ + 1]
      BY <1>5 DEF RecoverInstall
    <3>2. rec.n + 1 \in Nat \ {0} /\ rec.i + 1 \in Nat \ {0} /\ 1 \in Nat \ {0}
      BY <2>0
    <3>3. CASE rec' = [rec EXCEPT !.n = @ + 1, !.i = 1]
      BY <3>2, <3>3 DEF TypeOK
    <3>4. CASE rec' = [rec EXCEPT !.i = @ + 1]
      BY <3>2, <3>4 DEF TypeOK
    <3>5. QED
      BY <3>1, <3>3, <3>4
  <2>3. home' \in Region(Blocks, Vals \cup {TornVal})
    <3>1. CASE rec.i <= Len(t.tags)
      <4>1. t.tags[rec.i] \in Blocks /\ t.data_offset + rec.i - 1 \in Nat
        BY <2>0, <2>1, <3>1
      <4>2. read_logical(t.data_offset + rec.i - 1) \in LogBlock
        BY <4>1, PhysInSlots DEF read_logical, TypeOK, Region
      <4>3. Content(read_logical(t.data_offset + rec.i - 1)) \in Vals \cup {TornVal}
        BY <4>2 DEF Content, LogBlock, BodyBlock, ZeroBlock, TornBlock
      <4>4. logfs_bdev_write(home, t.tags[rec.i],
              Content(read_logical(t.data_offset + rec.i - 1)), TornVal)
                \in Region(Blocks, Vals \cup {TornVal})
        BY <4>1, <4>3, RegionWrite DEF TypeOK
      <4>5. QED
        BY <1>5, <2>0, <2>1, <3>1, <4>4 DEF RecoverInstall, TypeOK, t
    <3>2. CASE rec.i > Len(t.tags)
      BY <1>5, <3>2 DEF RecoverInstall, TypeOK, t
    <3>3. QED
      BY <2>0, <2>1, <3>1, <3>2
  <2>4. QED
    BY <1>5, <2>2, <2>3 DEF RecoverInstall, TypeOK
<1>6. CASE RecoverEmpty
  BY <1>6, SuperType DEF RecoverEmpty, TypeOK
<1>7. CASE RecoverFlush
  BY <1>7, FlushAllType, MountedType, NoTypes DEF RecoverFlush, TypeOK
<1>8. QED
  BY <1>1, <1>2, <1>3, <1>4, <1>5, <1>6, <1>7

(* The bounds on commits, crashes and errors are respected.                 *)
LEMMA CountType ==
  ASSUME TypeInv
  PROVE  /\ count.commits < MaxCommits => [count EXCEPT !.commits = @ + 1] \in
           [commits : 0..MaxCommits, crashes : 0..MaxCrashes, errors : 0..MaxErrors]
         /\ count.crashes < MaxCrashes => [count EXCEPT !.crashes = @ + 1] \in
           [commits : 0..MaxCommits, crashes : 0..MaxCrashes, errors : 0..MaxErrors]
         /\ count.errors < MaxErrors => [count EXCEPT !.errors = @ + 1] \in
           [commits : 0..MaxCommits, crashes : 0..MaxCrashes, errors : 0..MaxErrors]
<1>1. MaxCommits \in Nat /\ MaxCrashes \in Nat /\ MaxErrors \in Nat
  BY JournalAssumption
<1>2. count \in [commits : 0..MaxCommits, crashes : 0..MaxCrashes, errors : 0..MaxErrors]
  BY DEF TypeInv, TypeOK
<1>3. /\ count.commits < MaxCommits => count.commits + 1 \in 0..MaxCommits
      /\ count.crashes < MaxCrashes => count.crashes + 1 \in 0..MaxCrashes
      /\ count.errors < MaxErrors => count.errors + 1 \in 0..MaxErrors
  BY <1>1, <1>2
<1>4. QED
  BY <1>2, <1>3

(* A checkpoint takes its transaction off a list of committed ones.         *)
LEMMA TypeTakeOldest ==
  ASSUME TypeInv, NEW caller \in {"reserve", "lag", "drain"}, TakeOldest(caller)
  PROVE  TypeInv'
<1>1. ckpt \in Seq(LoggedTxn) /\ ckpt # <<>>
  BY DEF TypeInv, TypeOK, TakeOldest
<1>2. Head(ckpt) \in LoggedTxn /\ Tail(ckpt) \in Seq(LoggedTxn)
  BY <1>1, HeadTailProperties
<1>3. ck' = [t |-> Head(ckpt), i |-> 1, caller |-> caller] /\ ckpt' = Tail(ckpt)
  BY DEF TakeOldest
<1>4. /\ ck' \in [t : LoggedTxn, i : Nat, caller : {"none", "reserve", "lag", "drain"}]
      /\ ck'.caller # "none" /\ ck'.i >= 1
  BY <1>2, <1>3
<1>5. pc' \in Steps /\ pc' \in CkptSteps
  BY DEF TakeOldest, Steps, CkptSteps
<1>6. QED
  BY <1>2, <1>3, <1>4, <1>5 DEF TypeInv, TypeOK, TakeOldest

(* do_commit and logfs_journal_commit keep the types.                       *)
LEMMA TypeCommit ==
  ASSUME TypeInv,
         \/ \E b \in Batches : DoCommit(b)
         \/ Reserve \/ CommitRejected \/ CommitBegin \/ CommitWriteBody
         \/ CommitPreflush \/ CommitWriteBlock \/ CommitFlush \/ CommitSuperWrite
         \/ CommitSuperFlush \/ Publish
  PROVE  TypeInv'
<1> USE DEF TypeInv, Steps, CkptSteps, CommitSteps
<1>1. ASSUME NEW b \in Batches, DoCommit(b) PROVE TypeInv'
  <2>1. b.data \in Seq(Pending) /\ b.revoke \in Seq(Blocks)
    BY JournalAssumption DEF Batch
  <2>2. txn' \in [data : Seq(Pending), revoke : Seq(Blocks), sequence : Nat,
                 desc_offset : Nat, was_empty : BOOLEAN, k : Nat]
    BY <1>1, <2>1, NoTypes DEF DoCommit
  <2>3. count' \in [commits : 0..MaxCommits, crashes : 0..MaxCrashes, errors : 0..MaxErrors]
    BY <1>1, CountType DEF DoCommit
  <2>4. QED
    BY <1>1, <2>2, <2>3 DEF DoCommit, TypeOK
<1>2. CASE Reserve
  BY <1>2, TypeTakeOldest DEF Reserve
<1>3. CASE CommitRejected
  BY <1>3, NoTypes DEF CommitRejected, TypeOK
<1>4. CASE CommitBegin
  <2>1. j.next_sequence \in Nat /\ j.head \in Nat /\ (j.tail = j.head) \in BOOLEAN
    BY DEF TypeOK
  <2>2. QED
    BY <1>4, <2>1 DEF CommitBegin, TypeOK
<1> DEFINE o == txn.desc_offset + txn.k
<1>5. IsTxn(txn) /\ txn.k \in Nat /\ o \in Nat
  BY DEF IsTxn, TypeOK
<1>6. ASSUME NEW block \in LogBlock, write_logical(o, block)
      PROVE  log' \in Region(Slots, LogBlock)
  <2>1. phys_of(o) \in Slots
    BY <1>5, PhysInSlots
  <2>2. TornBlock \in LogBlock
    BY DEF LogBlock
  <2>3. QED
    BY <1>6, <2>1, <2>2, RegionWrite DEF write_logical, TypeOK
<1>7. CASE CommitWriteBody
  <2>1. Body(txn) \in Seq(BodyBlock) /\ txn.k + 1 \in 1 .. Len(Body(txn))
    BY <1>5, <1>7, BodyProps DEF CommitWriteBody
  <2>2. Body(txn)[txn.k + 1] \in LogBlock
    BY <2>1, ElementOfSeq DEF LogBlock
  <2>3. log' \in Region(Slots, LogBlock)
    BY <1>6, <1>7, <2>2 DEF CommitWriteBody
  <2>4. txn' = [txn EXCEPT !.k = txn.k + 1] /\ txn.k + 1 \in Nat
    BY <1>5, <1>7 DEF CommitWriteBody
  <2>5. QED
    BY <1>7, <2>3, <2>4 DEF CommitWriteBody, TypeOK
<1>8. CASE CommitPreflush
  BY <1>8, FlushAllType DEF CommitPreflush, TypeOK
<1>9. CASE CommitWriteBlock
  <2>1. log' \in Region(Slots, LogBlock)
    BY <1>5, <1>6, <1>9, ImageProps DEF CommitWriteBlock
  <2>2. txn' = [txn EXCEPT !.k = txn.k + 1] /\ txn.k + 1 \in Nat
    BY <1>5, <1>9 DEF CommitWriteBlock
  <2>3. QED
    BY <1>9, <2>1, <2>2 DEF CommitWriteBlock, TypeOK
<1>10. CASE CommitFlush
  <2>1. j' \in [head : Nat, tail : Nat, next_sequence : Nat]
    <3>1. o \in Nat /\ txn.sequence + 1 \in Nat
      BY <1>5 DEF IsTxn
    <3>2. j' = [j EXCEPT !.head = o, !.next_sequence = txn.sequence + 1]
      BY <1>10 DEF CommitFlush
    <3> HIDE DEF o
    <3>3. QED
      BY <3>1, <3>2 DEF TypeOK
  <2>2. QED
    BY <1>10, <2>1, FlushAllType DEF CommitFlush, TypeOK
<1>11. CASE CommitSuperWrite
  BY <1>11, SuperType DEF CommitSuperWrite, TypeOK
<1>12. CASE CommitSuperFlush
  BY <1>12, FlushAllType DEF CommitSuperFlush, TypeOK
<1>13. CASE Publish
  <2>1. txn.data \in Seq(Pending) /\ txn.revoke \in Seq(Blocks)
        /\ txn.sequence \in Nat /\ txn.desc_offset \in Nat
    BY DEF TypeOK
  <2>2. [data |-> txn.data, revoke |-> txn.revoke, sequence |-> txn.sequence,
         desc_offset |-> txn.desc_offset] \in LoggedTxn
    BY <2>1 DEF LoggedTxn
  <2>3. ckpt' \in Seq(LoggedTxn)
    BY <1>13, <2>2, AppendProperties DEF Publish, TypeOK
  <2>4. \A i \in DOMAIN txn.data : txn.data[i].data \in Vals \cup {TornVal}
    BY <2>1, PendingData
  <2>5. logical' \in [Blocks -> Vals \cup {TornVal}]
    BY <1>13, <2>4, ApplyType DEF Publish, TypeOK
  <2>6. QED
    BY <1>13, <2>3, <2>5, NoTypes DEF Publish, TypeOK
<1>14. QED
  BY <1>1, <1>2, <1>3, <1>4, <1>7, <1>8, <1>9, <1>10, <1>11, <1>12, <1>13

(* The checkpoint path, the lag loop and the drain keep the types.          *)
LEMMA TypeCheckpoint ==
  ASSUME TypeInv,
         \/ EnforceLag \/ EndCycle \/ Shutdown \/ Drain \/ Unmounted
         \/ CheckpointWrite \/ CheckpointFlush \/ AdvanceTailWrite \/ AdvanceTailFlush
  PROVE  TypeInv'
<1> USE DEF TypeInv, Steps, CkptSteps
<1>1. CASE EnforceLag
  BY <1>1, TypeTakeOldest DEF EnforceLag
<1>2. CASE EndCycle
  BY <1>2 DEF EndCycle, TypeOK
<1>3. CASE Shutdown
  BY <1>3 DEF Shutdown, TypeOK
<1>4. CASE Drain
  BY <1>4, TypeTakeOldest DEF Drain
<1>5. CASE Unmounted
  BY <1>5 DEF Unmounted, TypeOK
<1>6. CASE CheckpointWrite
  <2>1. ck.t.data \in Seq(Pending) /\ ck.i \in Nat /\ ck.i >= 1
    BY <1>6 DEF CheckpointWrite, TypeOK, LoggedTxn
  <2>2. ck.t.data[ck.i] \in Pending
    BY <1>6, <2>1, ElementOfSeq DEF CheckpointWrite
  <2>3. home' \in Region(Blocks, Vals \cup {TornVal})
    BY <1>6, <2>2, RegionWrite DEF CheckpointWrite, TypeOK, Pending
  <2>4. ck' = [ck EXCEPT !.i = ck.i + 1] /\ ck.i + 1 \in Nat /\ ck.i + 1 >= 1
    BY <1>6, <2>1 DEF CheckpointWrite
  <2>5. QED
    BY <1>6, <2>3, <2>4 DEF CheckpointWrite, TypeOK
<1>7. CASE CheckpointFlush
  BY <1>7, FlushAllType DEF CheckpointFlush, TypeOK
<1>8. NewTail \in Nat /\ NewTailSeq \in Nat
  <2>1. CASE ckpt # <<>>
    <3>1. Head(ckpt) \in LoggedTxn
      BY <2>1, HeadTailProperties DEF TypeOK
    <3>2. QED
      BY <2>1, <3>1 DEF NewTail, NewTailSeq, LoggedTxn
  <2>2. CASE ckpt = <<>>
    BY <2>2 DEF NewTail, NewTailSeq, TypeOK
  <2>3. QED
    BY <2>1, <2>2
<1>9. CASE AdvanceTailWrite
  BY <1>8, <1>9, SuperType DEF AdvanceTailWrite, TypeOK
<1>10. CASE AdvanceTailFlush
  <2>1. ck.caller \in {"reserve", "lag", "drain"}
    BY <1>10 DEF AdvanceTailFlush, TypeOK
  <2>2. QED
    BY <1>8, <1>10, <2>1, FlushAllType, NoTypes DEF AdvanceTailFlush, TypeOK
<1>11. QED
  BY <1>1, <1>2, <1>3, <1>4, <1>5, <1>6, <1>7, <1>9, <1>10

(* Errors and crashes keep the types.                                       *)
LEMMA TypeFaults ==
  ASSUME TypeInv, CommitError \/ CheckpointError \/ RecoverError \/ Kill \/ PowerLoss
  PROVE  TypeInv'
<1> USE DEF TypeInv, Steps, CkptSteps
<1>1. ASSUME Fault
      PROVE  count' \in [commits : 0..MaxCommits, crashes : 0..MaxCrashes, errors : 0..MaxErrors]
  BY <1>1, CountType DEF Fault
<1>2. CASE CommitError
  <2>1. log' \in Region(Slots, LogBlock)
    <3>1. TornBlock \in LogBlock /\ phys_of(txn.desc_offset + txn.k) \in Slots
      BY PhysInSlots DEF LogBlock, TypeOK
    <3>2. QED
      BY <1>2, <3>1, RegionWrite DEF CommitError, write_logical, TypeOK
  <2>2. logical' \in [Blocks -> Vals \cup {TornVal}] /\ limbo' \subseteq Seq(Pending)
    <3>1. txn.data \in Seq(Pending)
      BY DEF TypeOK
    <3>2. \A i \in DOMAIN txn.data : txn.data[i].data \in Vals \cup {TornVal}
      BY <3>1, PendingData
    <3>3. Apply(logical, txn.data) \in [Blocks -> Vals \cup {TornVal}]
      BY <3>2, ApplyType DEF TypeOK
    <3>4. QED
      BY <1>2, <3>3 DEF CommitError, TypeOK
  <2>3. QED
    BY <1>1, <1>2, <2>1, <2>2, NoTypes DEF CommitError, CommitSteps, TypeOK
<1>3. CASE CheckpointError
  <2>1. ck.caller \in {"reserve", "lag", "drain"}
    BY <1>3 DEF CheckpointError, TypeOK
  <2>2. AfterCkptError[ck.caller] \in {"jcommit", "ready", "down"}
    BY <2>1 DEF AfterCkptError
  <2>3. home' \in Region(Blocks, Vals \cup {TornVal})
    <3>1. ASSUME pc = "ckwrite", ck.i <= Len(ck.t.data)
          PROVE  ck.t.data[ck.i].target \in Blocks
      <4>1. ck.t.data \in Seq(Pending) /\ ck.i \in Nat /\ ck.i >= 1
        BY <3>1 DEF TypeOK, LoggedTxn
      <4>2. ck.t.data[ck.i] \in Pending
        BY <3>1, <4>1, ElementOfSeq
      <4>3. QED
        BY <4>2 DEF Pending
    <3>2. CASE UNCHANGED home
      BY <3>2 DEF TypeOK
    <3>3. CASE /\ pc = "ckwrite" /\ ck.i <= Len(ck.t.data)
               /\ home' = logfs_bdev_write(home, ck.t.data[ck.i].target, TornVal, TornVal)
      <4>1. ck.t.data[ck.i].target \in Blocks /\ TornVal \in Vals \cup {TornVal}
        BY <3>1, <3>3
      <4>2. home \in Region(Blocks, Vals \cup {TornVal})
        BY DEF TypeOK
      <4>3. QED
        BY <3>3, <4>1, <4>2, RegionWrite
    <3>4. QED
      BY <1>3, <3>2, <3>3 DEF CheckpointError
  <2>4. ckpt' \in Seq(LoggedTxn)
    BY <1>3 DEF CheckpointError, TypeOK
  <2>5. QED
    BY <1>1, <1>3, <2>2, <2>3, <2>4, NoTypes DEF CheckpointError, TypeOK
<1>4. CASE RecoverError
  <2> DEFINE RTxn == [sequence : Nat, tags : Seq(Blocks), data_offset : Nat]
             tags == rec.txns[rec.n].tags
  <2>1. ASSUME rec.n <= Len(rec.txns), rec.i <= Len(tags)
        PROVE  tags[rec.i] \in Blocks
    <3>1. rec.n \in Nat \ {0} /\ rec.i \in Nat \ {0} /\ rec.txns \in Seq(RTxn)
      BY DEF TypeOK
    <3>2. rec.n \in 1 .. Len(rec.txns)
      BY <2>1, <3>1
    <3> HIDE DEF RTxn
    <3>3. rec.txns[rec.n] \in RTxn
      BY <3>1, <3>2, ElementOfSeq
    <3>4. tags \in Seq(Blocks)
      BY <3>3 DEF RTxn
    <3>5. QED
      BY <2>1, <3>1, <3>4, ElementOfSeq
  <2>2. home' \in Region(Blocks, Vals \cup {TornVal})
    <3>1. CASE UNCHANGED home
      BY <3>1 DEF TypeOK
    <3>2. CASE /\ rec.n <= Len(rec.txns) /\ rec.i <= Len(tags)
               /\ home' = logfs_bdev_write(home, tags[rec.i], TornVal, TornVal)
      <4>1. tags[rec.i] \in Blocks /\ TornVal \in Vals \cup {TornVal}
        BY <2>1, <3>2
      <4>2. home \in Region(Blocks, Vals \cup {TornVal})
        BY DEF TypeOK
      <4>3. QED
        BY <3>2, <4>1, <4>2, RegionWrite
    <3>3. QED
      BY <1>4, <3>1, <3>2 DEF RecoverError
  <2>3. QED
    BY <1>1, <1>4, <2>2, NoTypes DEF RecoverError, MountSteps, TypeOK
<1>5. ASSUME LoseMemory
      PROVE  /\ count' \in [commits : 0..MaxCommits, crashes : 0..MaxCrashes,
                            errors : 0..MaxErrors]
             /\ ckpt' \in Seq(LoggedTxn)
             /\ j' \in [head : Nat, tail : Nat, next_sequence : Nat]
  BY <1>5, CountType DEF LoseMemory
<1>6. CASE Kill
  BY <1>5, <1>6, NoTypes DEF Kill, LoseMemory, TypeOK
<1>7. CASE PowerLoss
  <2>1. home' \in Region(Blocks, Vals \cup {TornVal})
    BY <1>7, RegionImages, RegionSettled DEF PowerLoss, TypeOK
  <2>2. log' \in Region(Slots, LogBlock)
    BY <1>7, RegionImages, RegionSettled DEF PowerLoss, TypeOK
  <2>3. jsb' \in [cur : SuperBlock, alt : SUBSET SuperBlock]
    BY <1>7 DEF PowerLoss, TypeOK
  <2>4. QED
    BY <1>5, <1>7, <2>1, <2>2, <2>3, NoTypes DEF PowerLoss, LoseMemory, TypeOK
<1>8. QED
  BY <1>2, <1>3, <1>4, <1>6, <1>7

(* Every step keeps the types.                                              *)
LEMMA TypeStep == TypeInv /\ [Next]_vars => TypeInv'
<1> SUFFICES ASSUME TypeInv, [Next]_vars PROVE TypeInv'
  OBVIOUS
<1>1. CASE Next
  BY <1>1, TypeMount, TypeCommit, TypeCheckpoint, TypeFaults DEF Next, ThreadStep
<1>2. CASE UNCHANGED vars
  BY <1>2 DEF vars, TypeInv, TypeOK, CkptSteps
<1>3. QED
  BY <1>1, <1>2

(* Every variable of the journal and of its device keeps its type, for any  *)
(* size of the log, any batches, and any sequence of errors and crashes.    *)
THEOREM TypeCorrect == Spec => []TypeOK
<1>1. TypeInv => TypeOK
  BY DEF TypeInv
<1>2. QED
  BY <1>1, TypeInit, TypeStep, PTL DEF Spec

-----------------------------------------------------------------------------
(* The circular log.  LogOrdered and AckedInLog are not inductive: that the  *)
(* next commit does not run into the live transactions follows from the      *)
(* space reserved for it, that it is intact when it joins them follows from  *)
(* the blocks already written, and that a flush keeps what is in the log     *)
(* follows from a region's current content being one a power loss may leave. *)

Writing == {"body", "cblock", "cflush"}

(* What a read returns is among the contents a power loss may leave.         *)
CurInAlt == \A s \in Slots : log.cur[s] \in log.alt[s]

(* A transaction being written starts at the head, fits into the space it    *)
(* was given, and its first k blocks are what reads return.                  *)
WritingInv ==
  pc \in Writing =>
    /\ txn.desc_offset = j.head /\ txn.sequence = j.next_sequence
    /\ j.head + Size(txn) - j.tail <= MaxLen
    /\ pc = "body" => txn.k <= Size(txn) - 1
    /\ pc = "cblock" => txn.k = Size(txn) - 1
    /\ pc = "cflush" => txn.k = Size(txn)
    /\ \A m \in 1 .. txn.k : log.cur[phys_of(j.head + m - 1)] = Image(txn)[m]

(* A transaction that is written but not on the list ends at the head.       *)
CommittedInv ==
  pc \in PostCommit =>
    /\ txn.desc_offset + Size(txn) = j.head
    /\ txn.sequence + 1 = j.next_sequence
    /\ InLog(txn)

(* Between commits no block of one is written; a mount starts with no list   *)
(* and with an empty log.                                                    *)
IdleInv ==
  /\ pc \notin CommitSteps => txn.k = 0
  /\ ~Up => ckpt = <<>>
  /\ pc = "settle" => j.head = j.tail

LogInv ==
  /\ TypeInv
  /\ CurInAlt /\ WritingInv /\ CommittedInv /\ IdleInv
  /\ LogOrdered /\ AckedInLog

(* A committed transaction is one Body and Image are about.                  *)
LEMMA LoggedIsTxn ==
  ASSUME NEW t \in LoggedTxn
  PROVE  IsTxn(t) /\ t.desc_offset \in Nat /\ Size(t) \in Nat /\ Size(t) >= 2
<1>1. IsTxn(t) /\ t.desc_offset \in Nat
  BY DEF LoggedTxn, IsTxn
<1>2. QED
  BY <1>1, BodyProps

(* The blocks of a transaction depend on its data, revokes and sequence.     *)
LEMMA ImageOfSame ==
  ASSUME NEW t, NEW u, t.data = u.data, t.revoke = u.revoke, t.sequence = u.sequence
  PROVE  Image(t) = Image(u) /\ Body(t) = Body(u) /\ Size(t) = Size(u)
<1>1. Body(t) = Body(u)
  BY DEF Body, DescBlock, RevokeBlock
<1>2. CommitBlock(t) = CommitBlock(u)
  BY <1>1 DEF CommitBlock
<1>3. QED
  BY <1>1, <1>2 DEF Image, Size

(* InLog for any log region l, with the domain of Image spelt out.           *)
InLogOf(l, t) == \A k \in 1 .. Size(t) :
                   l.alt[phys_of(t.desc_offset + k - 1)] = {Image(t)[k]}

(* InLog is InLogOf the present log.                                         *)
LEMMA InLogIsOf ==
  ASSUME NEW t, IsTxn(t)
  PROVE  InLog(t) <=> InLogOf(log, t)
BY ImageProps DEF InLog, InLogOf

(* A flush keeps what every power loss would have kept.                      *)
LEMMA FlushKeeps ==
  ASSUME NEW l \in Region(Slots, LogBlock), \A s \in Slots : l.cur[s] \in l.alt[s],
         NEW t, IsTxn(t), t.desc_offset \in Nat, InLogOf(l, t)
  PROVE  InLogOf(logfs_bdev_flush(l), t)
<1> SUFFICES ASSUME NEW k \in 1 .. Size(t)
             PROVE  logfs_bdev_flush(l).alt[phys_of(t.desc_offset + k - 1)] = {Image(t)[k]}
  BY DEF InLogOf
<1> DEFINE s == phys_of(t.desc_offset + k - 1)
<1>1. Size(t) \in Nat
  BY BodyProps
<1>2. t.desc_offset + k - 1 \in Nat
  BY <1>1
<1>3. s \in Slots
  BY <1>2, PhysInSlots
<1>4. l.alt[s] = {Image(t)[k]} /\ l.cur[s] \in l.alt[s]
  BY <1>3 DEF InLogOf
<1>5. logfs_bdev_flush(l).alt[s] = {l.cur[s]}
  BY <1>3 DEF logfs_bdev_flush, Settled, Region
<1>6. QED
  BY <1>4, <1>5

(* A write at offset b keeps every transaction that ends at or before b and  *)
(* starts less than the length of the ring before it.                        *)
LEMMA WriteKeeps ==
  ASSUME NEW l \in Region(Slots, LogBlock), NEW v, NEW b \in Nat,
         NEW t, IsTxn(t), t.desc_offset \in Nat, InLogOf(l, t),
         t.desc_offset + Size(t) <= b, b < t.desc_offset + MaxLen
  PROVE  InLogOf(logfs_bdev_write(l, phys_of(b), v, TornBlock), t)
<1> SUFFICES ASSUME NEW k \in 1 .. Size(t)
             PROVE  logfs_bdev_write(l, phys_of(b), v, TornBlock).alt[phys_of(t.desc_offset + k - 1)]
                      = {Image(t)[k]}
  BY DEF InLogOf
<1> DEFINE a == t.desc_offset + k - 1
<1>1. Size(t) \in Nat /\ MaxLen \in Nat \ {0}
  BY BodyProps, JournalAssumption
<1>2. a \in Nat /\ a < b /\ b < a + MaxLen
  BY <1>1
<1>3. phys_of(a) # phys_of(b)
  BY <1>1, <1>2, ModApart DEF phys_of
<1>4. phys_of(a) \in Slots /\ l.alt[phys_of(a)] = {Image(t)[k]}
  BY <1>2, PhysInSlots DEF InLogOf
<1> HIDE DEF a
<1>5. logfs_bdev_write(l, phys_of(b), v, TornBlock).alt[phys_of(a)] = l.alt[phys_of(a)]
  BY <1>3, <1>4 DEF logfs_bdev_write, Region
<1>6. QED
  BY <1>4, <1>5 DEF a

(* A write and a flush keep CurInAlt.                                        *)
LEMMA CurInAltKept ==
  ASSUME NEW l \in Region(Slots, LogBlock), \A s \in Slots : l.cur[s] \in l.alt[s]
  PROVE  /\ \A s \in Slots : logfs_bdev_flush(l).cur[s] \in logfs_bdev_flush(l).alt[s]
         /\ \A v : \A a, s \in Slots :
              logfs_bdev_write(l, a, v, TornBlock).cur[s]
                \in logfs_bdev_write(l, a, v, TornBlock).alt[s]
<1>1. \A s \in Slots : logfs_bdev_flush(l).cur[s] \in logfs_bdev_flush(l).alt[s]
  BY DEF logfs_bdev_flush, Settled, Region
<1>2. \A v : \A a, s \in Slots :
        logfs_bdev_write(l, a, v, TornBlock).cur[s]
          \in logfs_bdev_write(l, a, v, TornBlock).alt[s]
  BY DEF logfs_bdev_write, Region
<1>3. QED
  BY <1>1, <1>2

-----------------------------------------------------------------------------
(* Lists of live transactions. *)

(* The properties of the log with their state passed as parameters.          *)
LiveOf(c, L) == (IF c.caller = "none" THEN <<>> ELSE <<c.t>>) \o L
AllInLog(l, L) == \A n \in DOMAIN L : InLogOf(l, L[n])
Ordered(L, tail, head, hi, seq) ==
  tail <= hi /\ head - tail <= MaxLen /\ Chain(L, tail, hi, seq)

(* The elements of the live list: the one being checkpointed comes first.    *)
LEMMA LiveOfProps ==
  ASSUME NEW c, c.t \in LoggedTxn, NEW L \in Seq(LoggedTxn)
  PROVE  /\ LiveOf(c, L) \in Seq(LoggedTxn)
         /\ c.caller = "none" => LiveOf(c, L) = L
         /\ c.caller # "none" => /\ Len(LiveOf(c, L)) = Len(L) + 1
                                 /\ LiveOf(c, L)[1] = c.t
                                 /\ \A i \in 1 .. Len(L) : LiveOf(c, L)[i + 1] = L[i]
<1>1. CASE c.caller = "none"
  <2>1. LiveOf(c, L) = <<>> \o L
    BY <1>1 DEF LiveOf
  <2>2. <<>> \o L = L
    BY ConcatEmptySeq
  <2>3. QED
    BY <1>1, <2>1, <2>2
<1>2. CASE c.caller # "none"
  <2> DEFINE o == <<c.t>>
  <2>1. LiveOf(c, L) = o \o L
    BY <1>2 DEF LiveOf
  <2>2. o \in Seq(LoggedTxn) /\ Len(o) = 1 /\ o[1] = c.t
    OBVIOUS
  <2> HIDE DEF o
  <2>3. /\ o \o L \in Seq(LoggedTxn) /\ Len(o \o L) = Len(o) + Len(L)
        /\ \A i \in 1 .. Len(o) + Len(L) :
             (o \o L)[i] = IF i <= Len(o) THEN o[i] ELSE L[i - Len(o)]
    BY <2>2, ConcatProperties
  <2>4. Len(L) \in Nat
    BY LenProperties
  <2>5. QED
    BY <1>2, <2>1, <2>2, <2>3, <2>4
<1>3. QED
  BY <1>1, <1>2

(* Unlinking the oldest transaction to checkpoint it leaves the list as is.  *)
LEMMA LiveTaken ==
  ASSUME NEW c, c.t \in LoggedTxn, c.caller = "none", NEW L \in Seq(LoggedTxn), L # <<>>,
         NEW d, d.t = Head(L), d.caller # "none"
  PROVE  LiveOf(d, Tail(L)) = LiveOf(c, L)
<1>1. /\ Head(L) \in LoggedTxn /\ Tail(L) \in Seq(LoggedTxn) /\ Len(Tail(L)) = Len(L) - 1
      /\ \A i \in 1 .. Len(Tail(L)) : Tail(L)[i] = L[i + 1]
  BY HeadTailProperties
<1>2. LiveOf(c, L) = L /\ Len(L) \in Nat /\ Head(L) = L[1]
  BY LiveOfProps, LenProperties
<1> DEFINE K == LiveOf(d, Tail(L))
<1>3. /\ K \in Seq(LoggedTxn) /\ Len(K) = Len(Tail(L)) + 1 /\ K[1] = Head(L)
      /\ \A i \in 1 .. Len(Tail(L)) : K[i + 1] = Tail(L)[i]
  BY <1>1, LiveOfProps
<1> HIDE DEF K
<1>4. Len(K) = Len(L) /\ \A i \in 1 .. Len(K) : K[i] = L[i]
  <2>1. Len(K) = Len(L)
    BY <1>1, <1>2, <1>3
  <2>2. ASSUME NEW i \in 1 .. Len(K) PROVE K[i] = L[i]
    <3>1. CASE i = 1
      BY <1>2, <1>3, <3>1
    <3>2. CASE i > 1
      <4>1. i - 1 \in 1 .. Len(Tail(L)) /\ (i - 1) + 1 = i
        BY <1>1, <1>2, <2>1, <3>2
      <4>2. K[(i - 1) + 1] = Tail(L)[i - 1] /\ Tail(L)[i - 1] = L[(i - 1) + 1]
        BY <1>1, <1>3, <4>1
      <4>3. QED
        BY <4>1, <4>2
    <3>3. QED
      BY <1>2, <2>1, <3>1, <3>2
  <2>3. QED
    BY <2>1, <2>2
<1>5. K = L
  BY <1>3, <1>4, SeqEqual
<1>6. QED
  BY <1>2, <1>5 DEF K

(* A flush of the log keeps the transactions of a list.                      *)
LEMMA ListFlush ==
  ASSUME NEW l \in Region(Slots, LogBlock), \A s \in Slots : l.cur[s] \in l.alt[s],
         NEW L \in Seq(LoggedTxn), AllInLog(l, L)
  PROVE  AllInLog(logfs_bdev_flush(l), L)
<1> SUFFICES ASSUME NEW n \in DOMAIN L PROVE InLogOf(logfs_bdev_flush(l), L[n])
  BY DEF AllInLog
<1>1. L[n] \in LoggedTxn
  OBVIOUS
<1>2. IsTxn(L[n]) /\ L[n].desc_offset \in Nat
  BY <1>1, LoggedIsTxn
<1>3. InLogOf(l, L[n])
  BY DEF AllInLog
<1>4. QED
  BY <1>2, <1>3, FlushKeeps

(* So does a write at an offset b between the end of the list and one ring   *)
(* after its start.                                                          *)
LEMMA ListWrite ==
  ASSUME NEW l \in Region(Slots, LogBlock), NEW L \in Seq(LoggedTxn), AllInLog(l, L),
         NEW v, NEW b \in Nat, NEW lo \in Nat, NEW hi \in Nat, NEW seq,
         Chain(L, lo, hi, seq), hi <= b, b < lo + MaxLen
  PROVE  AllInLog(logfs_bdev_write(l, phys_of(b), v, TornBlock), L)
<1> SUFFICES ASSUME NEW n \in DOMAIN L
             PROVE  InLogOf(logfs_bdev_write(l, phys_of(b), v, TornBlock), L[n])
  BY DEF AllInLog
<1>1. L[n] \in LoggedTxn
  OBVIOUS
<1>2. IsTxn(L[n]) /\ L[n].desc_offset \in Nat /\ Size(L[n]) \in Nat
  BY <1>1, LoggedIsTxn
<1>3. InLogOf(l, L[n])
  BY DEF AllInLog
<1>4. lo <= L[n].desc_offset /\ L[n].desc_offset + Size(L[n]) <= hi
  BY DEF Chain
<1>5. MaxLen \in Nat
  BY JournalAssumption
<1>6. L[n].desc_offset + Size(L[n]) <= b /\ b < L[n].desc_offset + MaxLen
  BY <1>2, <1>4, <1>5
<1>7. QED
  BY <1>2, <1>3, <1>6, WriteKeeps

(* The list without its oldest transaction starts where the next one does,   *)
(* which is where checkpoint_oldest moves the tail.                          *)
LEMMA ChainTail ==
  ASSUME NEW K \in Seq(LoggedTxn), NEW L \in Seq(LoggedTxn), Len(K) = Len(L) + 1,
         \A i \in 1 .. Len(L) : K[i + 1] = L[i],
         NEW lo \in Nat, NEW hi \in Nat, NEW seq \in Nat, Chain(K, lo, hi, seq)
  PROVE  /\ Chain(L, lo, hi, seq)
         /\ L # <<>> => /\ Chain(L, Head(L).desc_offset, hi, seq)
                        /\ Head(L).desc_offset \in Nat
                        /\ lo <= Head(L).desc_offset /\ Head(L).desc_offset <= hi
<1>1. Len(L) \in Nat /\ DOMAIN L = 1 .. Len(L) /\ DOMAIN K = 1 .. Len(L) + 1
  BY LenProperties
<1>2. \A i \in DOMAIN L : i + 1 \in DOMAIN K /\ K[i + 1] = L[i]
  BY <1>1
<1>3. \A i \in DOMAIN L : L[i].desc_offset \in Nat /\ Size(L[i]) \in Nat
  BY LoggedIsTxn
<1>4. Chain(L, lo, hi, seq)
  <2>1. ASSUME NEW i \in DOMAIN L
        PROVE  /\ lo <= L[i].desc_offset /\ L[i].desc_offset + Size(L[i]) <= hi
               /\ L[i].sequence < seq
    <3>1. i + 1 \in DOMAIN K /\ K[i + 1] = L[i]
      BY <1>2
    <3>2. QED
      BY <3>1 DEF Chain
  <2>2. ASSUME NEW i \in DOMAIN L, NEW k \in DOMAIN L, i < k
        PROVE  /\ L[i].desc_offset + Size(L[i]) <= L[k].desc_offset
               /\ L[i].sequence < L[k].sequence
    <3>1. /\ i + 1 \in DOMAIN K /\ k + 1 \in DOMAIN K /\ i + 1 < k + 1
          /\ K[i + 1] = L[i] /\ K[k + 1] = L[k]
      BY <1>1, <1>2, <2>2
    <3>2. QED
      BY <3>1 DEF Chain
  <2>3. QED
    BY <2>1, <2>2 DEF Chain
<1>5. ASSUME L # <<>>
      PROVE  /\ Chain(L, Head(L).desc_offset, hi, seq)
             /\ Head(L).desc_offset \in Nat
             /\ lo <= Head(L).desc_offset /\ Head(L).desc_offset <= hi
  <2>1. 1 \in DOMAIN L /\ Head(L) = L[1]
    BY <1>1, <1>5, EmptySeq
  <2>2. L[1].desc_offset \in Nat /\ Size(L[1]) \in Nat
    BY <1>3, <2>1
  <2>3. lo <= L[1].desc_offset /\ L[1].desc_offset + Size(L[1]) <= hi
    BY <1>4, <2>1 DEF Chain
  <2>4. \A i \in DOMAIN L : L[1].desc_offset <= L[i].desc_offset
    <3>1. ASSUME NEW i \in DOMAIN L, i # 1 PROVE L[1].desc_offset + Size(L[1]) <= L[i].desc_offset
      <4>1. 1 < i
        BY <1>1, <3>1
      <4>2. QED
        BY <1>4, <2>1, <4>1 DEF Chain
    <3>2. QED
      BY <1>3, <2>2, <3>1
  <2>5. Chain(L, L[1].desc_offset, hi, seq)
    BY <1>4, <2>4 DEF Chain
  <2>6. QED
    BY <2>1, <2>2, <2>3, <2>5
<1>6. QED
  BY <1>4, <1>5

(* A transaction that starts where the list ends may be appended to it.      *)
LEMMA ChainAppend ==
  ASSUME NEW L \in Seq(LoggedTxn), NEW t \in LoggedTxn, NEW lo \in Nat, NEW hi \in Nat,
         lo <= t.desc_offset, t.desc_offset + Size(t) = hi,
         Chain(L, lo, t.desc_offset, t.sequence)
  PROVE  Chain(Append(L, t), lo, hi, t.sequence + 1)
<1> DEFINE K == Append(L, t)
<1>1. /\ Len(L) \in Nat /\ DOMAIN L = 1 .. Len(L) /\ DOMAIN K = 1 .. Len(L) + 1
      /\ \A i \in 1 .. Len(L) : K[i] = L[i]
      /\ K[Len(L) + 1] = t
  BY LenProperties, AppendProperties
<1> HIDE DEF K
<1>2. t.desc_offset \in Nat /\ Size(t) \in Nat /\ t.sequence \in Nat
  BY LoggedIsTxn DEF LoggedTxn
<1>3. \A i \in DOMAIN L : /\ L[i].desc_offset \in Nat /\ Size(L[i]) \in Nat
                          /\ L[i].sequence \in Nat
  <2>1. \A i \in DOMAIN L : L[i] \in LoggedTxn
    OBVIOUS
  <2>2. QED
    BY <2>1, LoggedIsTxn DEF LoggedTxn
<1>4. \A i \in DOMAIN L : /\ lo <= L[i].desc_offset
                          /\ L[i].desc_offset + Size(L[i]) <= t.desc_offset
                          /\ L[i].sequence < t.sequence
  BY DEF Chain
<1>5. \A i \in DOMAIN K : /\ lo <= K[i].desc_offset
                          /\ K[i].desc_offset + Size(K[i]) <= hi
                          /\ K[i].sequence < t.sequence + 1
  <2>1. ASSUME NEW i \in DOMAIN K, i \in DOMAIN L
        PROVE  /\ lo <= K[i].desc_offset
               /\ K[i].desc_offset + Size(K[i]) <= hi
               /\ K[i].sequence < t.sequence + 1
    <3>1. K[i] = L[i]
      BY <1>1, <2>1
    <3>2. /\ lo <= L[i].desc_offset
          /\ L[i].desc_offset + Size(L[i]) <= hi
          /\ L[i].sequence < t.sequence + 1
      BY <1>2, <1>3, <1>4, <2>1
    <3>3. QED
      BY <3>1, <3>2
  <2>2. lo <= t.desc_offset /\ t.desc_offset + Size(t) <= hi /\ t.sequence < t.sequence + 1
    BY <1>2
  <2>3. ASSUME NEW i \in DOMAIN K, i \notin DOMAIN L PROVE K[i] = t
    BY <1>1, <2>3
  <2>4. QED
    BY <2>1, <2>2, <2>3
<1>6. ASSUME NEW i \in DOMAIN K, NEW k \in DOMAIN K, i < k
      PROVE  /\ K[i].desc_offset + Size(K[i]) <= K[k].desc_offset
             /\ K[i].sequence < K[k].sequence
  <2>1. i \in DOMAIN L /\ K[i] = L[i]
    BY <1>1, <1>6
  <2>2. CASE k \in DOMAIN L
    <3>1. K[k] = L[k]
      BY <1>1, <2>2
    <3>2. QED
      BY <1>6, <2>1, <2>2, <3>1 DEF Chain
  <2>3. CASE k \notin DOMAIN L
    <3>1. K[k] = t
      BY <1>1, <2>3
    <3>2. QED
      BY <1>4, <2>1, <3>1
  <2>4. QED
    BY <2>2, <2>3
<1>7. QED
  BY <1>5, <1>6 DEF Chain, K

(* The bounds of a list may be relaxed at its end.                           *)
LEMMA ChainRelax ==
  ASSUME NEW L \in Seq(LoggedTxn), NEW lo \in Nat, NEW hi \in Nat, NEW hi2 \in Nat,
         NEW seq \in Nat, NEW seq2 \in Nat, hi <= hi2, seq <= seq2,
         Chain(L, lo, hi, seq)
  PROVE  Chain(L, lo, hi2, seq2)
<1>1. \A i \in DOMAIN L : L[i] \in LoggedTxn
  OBVIOUS
<1>2. \A i \in DOMAIN L : /\ L[i].desc_offset \in Nat /\ Size(L[i]) \in Nat
                          /\ L[i].sequence \in Nat
  BY <1>1, LoggedIsTxn DEF LoggedTxn
<1>3. \A i \in DOMAIN L : L[i].desc_offset + Size(L[i]) <= hi2 /\ L[i].sequence < seq2
  BY <1>2 DEF Chain
<1>4. QED
  BY <1>3 DEF Chain

-----------------------------------------------------------------------------
(* The steps, grouped by what they do to the log and to the live list. *)

(* What LogInv says of the log while mounted, in terms of the parameterised  *)
(* definitions.                                                              *)
LEMMA LogFacts ==
  ASSUME LogInv, Up
  PROVE  /\ Live = LiveOf(ck, ckpt) /\ Live \in Seq(LoggedTxn)
         /\ ckpt \in Seq(LoggedTxn) /\ ck.t \in LoggedTxn
         /\ Ordered(Live, j.tail, j.head, LogEnd, LogEndSeq)
         /\ AllInLog(log, Live)
         /\ log \in Region(Slots, LogBlock) /\ \A s \in Slots : log.cur[s] \in log.alt[s]
         /\ j.tail \in Nat /\ j.head \in Nat /\ j.next_sequence \in Nat
         /\ LogEnd \in Nat /\ LogEndSeq \in Nat
         /\ IsTxn(txn) /\ txn.desc_offset \in Nat /\ txn.k \in Nat
         /\ Size(txn) \in Nat /\ Size(txn) >= 2 /\ MaxLen \in Nat
         /\ LogEnd <= j.head /\ LogEndSeq <= j.next_sequence
<1>1. TypeOK
  BY DEF LogInv, TypeInv
<1>2. ckpt \in Seq(LoggedTxn) /\ ck.t \in LoggedTxn
  BY <1>1 DEF TypeOK
<1>3. Live = LiveOf(ck, ckpt) /\ Live \in Seq(LoggedTxn)
  BY <1>2, LiveOfProps DEF Live, LiveOf
<1>4. Ordered(Live, j.tail, j.head, LogEnd, LogEndSeq)
  BY DEF LogInv, LogOrdered, Ordered
<1>5. AllInLog(log, Live)
  <2> SUFFICES ASSUME NEW n \in DOMAIN Live PROVE InLogOf(log, Live[n])
    BY DEF AllInLog
  <2>1. Live[n] \in LoggedTxn
    BY <1>3
  <2>2. IsTxn(Live[n]) /\ InLog(Live[n])
    BY <2>1, LoggedIsTxn DEF LogInv, AckedInLog
  <2>3. QED
    BY <2>2, InLogIsOf
<1>6. /\ IsTxn(txn) /\ txn.desc_offset \in Nat /\ txn.k \in Nat
      /\ Size(txn) \in Nat /\ Size(txn) >= 2
  <2>1. IsTxn(txn) /\ txn.desc_offset \in Nat /\ txn.k \in Nat
    BY <1>1 DEF TypeOK, IsTxn
  <2>2. QED
    BY <2>1, BodyProps
<1>7. j.tail \in Nat /\ j.head \in Nat /\ j.next_sequence \in Nat /\ MaxLen \in Nat
  BY <1>1, JournalAssumption DEF TypeOK
<1>8. LogEnd \in Nat /\ LogEndSeq \in Nat
  BY <1>6, <1>7 DEF LogEnd, LogEndSeq, IsTxn
<1>9. LogEnd <= j.head /\ LogEndSeq <= j.next_sequence
  <2>1. CASE pc \in PostCommit
    <3>1. txn.desc_offset + Size(txn) = j.head /\ txn.sequence + 1 = j.next_sequence
      BY <2>1 DEF LogInv, CommittedInv
    <3>2. txn.sequence \in Nat
      BY <1>6 DEF IsTxn
    <3>3. QED
      BY <1>6, <1>7, <2>1, <3>1, <3>2 DEF LogEnd, LogEndSeq
  <2>2. CASE pc \notin PostCommit
    BY <1>7, <2>2 DEF LogEnd, LogEndSeq
  <2>3. QED
    BY <2>1, <2>2
<1>10. log \in Region(Slots, LogBlock) /\ \A s \in Slots : log.cur[s] \in log.alt[s]
  BY <1>1 DEF LogInv, CurInAlt, TypeOK
<1>11. QED
  BY <1>2, <1>3, <1>4, <1>5, <1>6, <1>7, <1>8, <1>9, <1>10

(* How the two properties are shown after a step.                            *)
LEMMA LogGoal ==
  ASSUME NEW L \in Seq(LoggedTxn), LiveOf(ck', ckpt') = L,
         Ordered(L, j'.tail, j'.head, LogEnd', LogEndSeq'), AllInLog(log', L)
  PROVE  LogOrdered' /\ AckedInLog'
<1>1. Live' = L
  BY DEF Live, LiveOf
<1>2. LogOrdered'
  BY <1>1 DEF LogOrdered, Ordered
<1>3. ASSUME NEW n \in DOMAIN L, NEW k \in DOMAIN Image(L[n])
      PROVE  log'.alt[phys_of(L[n].desc_offset + k - 1)] = {Image(L[n])[k]}
  <2>1. L[n] \in LoggedTxn
    OBVIOUS
  <2>2. DOMAIN Image(L[n]) = 1 .. Size(L[n])
    BY <2>1, LoggedIsTxn, ImageProps
  <2>3. InLogOf(log', L[n])
    BY DEF AllInLog
  <2>4. QED
    BY <1>3, <2>2, <2>3 DEF InLogOf
<1>4. AckedInLog'
  BY <1>1, <1>3 DEF AckedInLog, InLog
<1>5. QED
  BY <1>2, <1>4

(* A step that at most flushes the log and moves no list or pointer.         *)
LEMMA LogQuiet ==
  ASSUME LogInv, Up, ckpt' = ckpt, ck'.t = ck.t, ck'.caller = ck.caller, j' = j,
         LogEnd' = LogEnd, LogEndSeq' = LogEndSeq,
         log' = log \/ log' = logfs_bdev_flush(log)
  PROVE  CurInAlt' /\ LogOrdered' /\ AckedInLog'
<1>1. LiveOf(ck', ckpt') = Live /\ Live \in Seq(LoggedTxn)
  BY LogFacts DEF LiveOf
<1>2. Ordered(Live, j'.tail, j'.head, LogEnd', LogEndSeq')
  BY LogFacts
<1>3. AllInLog(log', Live)
  BY LogFacts, ListFlush
<1>4. CurInAlt'
  BY LogFacts, CurInAltKept DEF CurInAlt
<1>5. QED
  BY <1>1, <1>2, <1>3, <1>4, LogGoal

(* The next block of the transaction being written goes to a slot that no    *)
(* live transaction and no block written before it occupies.                 *)
LEMMA LogWrite ==
  ASSUME LogInv, pc \in Writing, txn.k < Size(txn), NEW v \in LogBlock,
         write_logical(txn.desc_offset + txn.k, v)
  PROVE  /\ CurInAlt' /\ AllInLog(log', Live)
         /\ log'.cur[phys_of(j.head + txn.k)] = v
         /\ \A m \in 1 .. txn.k : log'.cur[phys_of(j.head + m - 1)] = Image(txn)[m]
<1> DEFINE b == j.head + txn.k
<1>1. Up /\ LogEnd = j.head
  BY DEF Up, Writing, LogEnd, MountSteps, PostCommit
<1>2. /\ j.head \in Nat /\ j.tail \in Nat /\ txn.k \in Nat /\ Size(txn) \in Nat
      /\ MaxLen \in Nat \ {0} /\ log \in Region(Slots, LogBlock)
      /\ \A s \in Slots : log.cur[s] \in log.alt[s]
  BY <1>1, LogFacts, JournalAssumption
<1>3. /\ txn.desc_offset = j.head /\ j.head + Size(txn) - j.tail <= MaxLen
      /\ \A m \in 1 .. txn.k : log.cur[phys_of(j.head + m - 1)] = Image(txn)[m]
  BY DEF LogInv, WritingInv
<1>4. j.tail <= j.head /\ Chain(Live, j.tail, j.head, LogEndSeq)
  BY <1>1, LogFacts DEF Ordered
<1>5. b \in Nat /\ j.head <= b /\ b < j.tail + MaxLen
  BY <1>2, <1>3
<1>6. log' = logfs_bdev_write(log, phys_of(b), v, TornBlock) /\ phys_of(b) \in Slots
  BY <1>3, <1>5, PhysInSlots DEF write_logical
<1> HIDE DEF b
<1>7. AllInLog(log', Live)
  BY <1>1, <1>2, <1>4, <1>5, <1>6, LogFacts, ListWrite
<1>8. CurInAlt'
  BY <1>2, <1>6, CurInAltKept DEF CurInAlt
<1>9. log'.cur[phys_of(b)] = v
  BY <1>2, <1>6 DEF logfs_bdev_write, Region
<1>10. ASSUME NEW m \in 1 .. txn.k
       PROVE  log'.cur[phys_of(j.head + m - 1)] = Image(txn)[m]
  <2> DEFINE a == j.head + m - 1
  <2>1. a \in Nat /\ a < b /\ b < a + MaxLen
    BY <1>2, <1>4, <1>5 DEF b
  <2>2. phys_of(a) # phys_of(b)
    BY <1>2, <1>5, <2>1, ModApart DEF phys_of
  <2>3. phys_of(a) \in Slots
    BY <2>1, PhysInSlots
  <2>4. log.cur[phys_of(a)] = Image(txn)[m]
    BY <1>3
  <2> HIDE DEF a
  <2>5. log'.cur[phys_of(a)] = log.cur[phys_of(a)]
    BY <1>2, <1>6, <2>2, <2>3 DEF logfs_bdev_write, Region
  <2>6. QED
    BY <2>4, <2>5 DEF a
<1>11. QED
  BY <1>7, <1>8, <1>9, <1>10 DEF b

(* checkpoint_oldest unlinks the oldest transaction.                         *)
LEMMA LogTake ==
  ASSUME LogInv, TypeInv', NEW caller \in {"reserve", "lag", "drain"}, TakeOldest(caller),
         pc \in {"reserve", "lag", "drain"}
  PROVE  LogInv'
<1>1. Up /\ pc \notin PostCommit /\ pc \notin CkptSteps /\ pc \notin CommitSteps
  BY DEF Up, MountSteps, PostCommit, CkptSteps, CommitSteps
<1>2. /\ pc' = "ckwrite" /\ ckpt # <<>> /\ ckpt' = Tail(ckpt) /\ ck'.t = Head(ckpt)
      /\ ck'.caller = caller /\ UNCHANGED <<log, j, txn>>
  BY DEF TakeOldest
<1>3. ck.caller = "none"
  BY <1>1 DEF LogInv, TypeInv
<1>4. LiveOf(ck', ckpt') = Live
  BY <1>1, <1>2, <1>3, LogFacts, LiveTaken
<1>5. LogEnd' = LogEnd /\ LogEndSeq' = LogEndSeq
  BY <1>1, <1>2 DEF LogEnd, LogEndSeq, PostCommit
<1>6. LogOrdered' /\ AckedInLog'
  BY <1>1, <1>2, <1>4, <1>5, LogFacts, LogGoal
<1>7. CurInAlt' /\ IdleInv'
  BY <1>1, <1>2 DEF LogInv, CurInAlt, IdleInv, Up, MountSteps
<1>8. WritingInv' /\ CommittedInv'
  BY <1>2 DEF WritingInv, CommittedInv, Writing, PostCommit
<1>9. QED
  BY <1>6, <1>7, <1>8 DEF LogInv

(* A step to a state in which the file system is not mounted.                *)
LEMMA LogDown ==
  ASSUME TypeInv', CurInAlt', IdleInv', pc' \in MountSteps \cup {"down"}
  PROVE  LogInv'
<1>1. ~Up'
  BY DEF Up
<1>2. pc' \notin Writing /\ pc' \notin PostCommit
  BY DEF Writing, PostCommit, MountSteps
<1>3. QED
  BY <1>1, <1>2 DEF LogInv, LogOrdered, AckedInLog, WritingInv, CommittedInv

(* The end of a mount: nothing is live and the log is empty.                 *)
LEMMA LogMounted ==
  ASSUME LogInv, TypeInv', ~Up, pc' = "ready", log' = logfs_bdev_flush(log),
         j'.head = j'.tail, UNCHANGED <<ckpt, ck, txn>>
  PROVE  LogInv'
<1>1. pc \notin CkptSteps /\ pc \notin CommitSteps /\ ckpt = <<>>
  BY DEF LogInv, IdleInv, Up, CkptSteps, CommitSteps, MountSteps
<1>2. LiveOf(ck', ckpt') = <<>>
  <2>1. ck.caller = "none"
    BY <1>1 DEF LogInv, TypeInv
  <2>2. ck.t \in LoggedTxn
    BY DEF LogInv, TypeInv, TypeOK
  <2>3. <<>> \in Seq(LoggedTxn) /\ ck' = ck /\ ckpt' = <<>>
    BY <1>1
  <2>4. LiveOf(ck, <<>>) = <<>>
    BY <2>1, <2>2, <2>3, LiveOfProps
  <2>5. QED
    BY <2>3, <2>4
<1>3. LogEnd' = j'.head
  BY DEF LogEnd, PostCommit
<1>4. j'.head \in Nat /\ j'.tail \in Nat /\ MaxLen \in Nat
  BY JournalAssumption DEF TypeInv, TypeOK
<1>5. Ordered(<<>>, j'.tail, j'.head, LogEnd', LogEndSeq') /\ AllInLog(log', <<>>)
  <2>1. DOMAIN <<>> = {}
    OBVIOUS
  <2>2. QED
    BY <1>3, <1>4, <2>1 DEF Ordered, Chain, AllInLog
<1>6. <<>> \in Seq(LoggedTxn)
  OBVIOUS
<1>7. LogOrdered' /\ AckedInLog'
  BY <1>2, <1>5, <1>6, LogGoal
<1>8. CurInAlt'
  BY CurInAltKept DEF LogInv, CurInAlt, TypeInv, TypeOK
<1>9. IdleInv' /\ WritingInv' /\ CommittedInv'
  BY <1>1 DEF LogInv, IdleInv, WritingInv, CommittedInv, Writing, PostCommit, Up, MountSteps
<1>10. QED
  BY <1>7, <1>8, <1>9 DEF LogInv

(* Mount and recovery.                                                       *)
LEMMA LogMount ==
  ASSUME LogInv, TypeInv',
         \/ OpenEmpty \/ OpenNonempty \/ RecoverScan \/ RecoverScanEnd
         \/ RecoverInstall \/ RecoverEmpty \/ RecoverFlush
  PROVE  LogInv'
<1> USE DEF MountSteps, CommitSteps
<1>1. CASE OpenEmpty
  BY <1>1, LogMounted DEF OpenEmpty, FlushAll, Up
<1>2. CASE OpenNonempty
  <2>1. CurInAlt' /\ IdleInv'
    BY <1>2 DEF OpenNonempty, LogInv, CurInAlt, IdleInv, Up
  <2>2. QED
    BY <1>2, <2>1, LogDown DEF OpenNonempty
<1>3. CASE RecoverScan
  <2>1. CurInAlt' /\ IdleInv'
    BY <1>3 DEF RecoverScan, LogInv, CurInAlt, IdleInv, Up
  <2>2. QED
    BY <1>3, <2>1, LogDown DEF RecoverScan
<1>4. CASE RecoverScanEnd
  <2>1. CurInAlt' /\ IdleInv'
    BY <1>4 DEF RecoverScanEnd, LogInv, CurInAlt, IdleInv, Up
  <2>2. QED
    BY <1>4, <2>1, LogDown DEF RecoverScanEnd
<1>5. CASE RecoverInstall
  <2>1. CurInAlt' /\ IdleInv'
    BY <1>5 DEF RecoverInstall, LogInv, CurInAlt, IdleInv, Up
  <2>2. QED
    BY <1>5, <2>1, LogDown DEF RecoverInstall
<1>6. CASE RecoverEmpty
  <2>1. CurInAlt' /\ IdleInv'
    BY <1>6 DEF RecoverEmpty, LogInv, CurInAlt, IdleInv, Up
  <2>2. QED
    BY <1>6, <2>1, LogDown DEF RecoverEmpty
<1>7. CASE RecoverFlush
  <2>1. j.head = j.tail
    BY <1>7 DEF RecoverFlush, LogInv, IdleInv
  <2>2. QED
    BY <1>7, <2>1, LogMounted DEF RecoverFlush, FlushAll, Up
<1>8. QED
  BY <1>1, <1>2, <1>3, <1>4, <1>5, <1>6, <1>7

(* The checkpoint path, the lag loop and the drain.                          *)
LEMMA LogCheckpoint ==
  ASSUME LogInv, TypeInv',
         \/ EnforceLag \/ EndCycle \/ Shutdown \/ Drain \/ Unmounted
         \/ CheckpointWrite \/ CheckpointFlush \/ AdvanceTailWrite \/ AdvanceTailFlush
  PROVE  LogInv'
<1>1. CASE EnforceLag
  BY <1>1, LogTake DEF EnforceLag
<1>2. CASE Drain
  BY <1>2, LogTake DEF Drain
<1>3. CASE Unmounted
  <2>1. CurInAlt' /\ IdleInv'
    BY <1>3 DEF Unmounted, LogInv, CurInAlt, IdleInv, Up, CommitSteps, MountSteps
  <2>2. QED
    BY <1>3, <2>1, LogDown DEF Unmounted
<1>4. ASSUME EndCycle \/ Shutdown \/ CheckpointWrite \/ CheckpointFlush \/ AdvanceTailWrite
      PROVE  LogInv'
  <2>1. /\ pc \in {"lag", "ready"} \cup CkptSteps /\ pc' \in {"ready", "drain"} \cup CkptSteps
        /\ UNCHANGED <<j, ckpt, txn>> /\ ck'.t = ck.t /\ ck'.caller = ck.caller
        /\ log' = log \/ log' = logfs_bdev_flush(log)
    <3>1. CASE EndCycle
      BY <3>1 DEF EndCycle, CkptSteps
    <3>2. CASE Shutdown
      BY <3>2 DEF Shutdown, CkptSteps
    <3>3. CASE CheckpointWrite
      BY <3>3 DEF CheckpointWrite, CkptSteps, LogInv, TypeInv, TypeOK
    <3>4. CASE CheckpointFlush
      BY <3>4 DEF CheckpointFlush, FlushAll, CkptSteps
    <3>5. CASE AdvanceTailWrite
      BY <3>5 DEF AdvanceTailWrite, CkptSteps
    <3>6. QED
      BY <1>4, <3>1, <3>2, <3>3, <3>4, <3>5
  <2>2. Up /\ Up' /\ LogEnd' = LogEnd /\ LogEndSeq' = LogEndSeq
    BY <2>1 DEF Up, MountSteps, CkptSteps, LogEnd, LogEndSeq, PostCommit
  <2>3. CurInAlt' /\ LogOrdered' /\ AckedInLog'
    BY <2>1, <2>2, LogQuiet
  <2>4. WritingInv' /\ CommittedInv' /\ IdleInv'
    BY <2>1, <2>2
    DEF LogInv, WritingInv, CommittedInv, IdleInv, Writing, PostCommit, CommitSteps, CkptSteps
  <2>5. QED
    BY <2>3, <2>4 DEF LogInv
<1>5. CASE AdvanceTailFlush
  <2>1. /\ pc = "cktflush" /\ pc' = ck.caller /\ log' = logfs_bdev_flush(log)
        /\ ck' = NoCk /\ UNCHANGED <<txn, ckpt>> /\ j' = [j EXCEPT !.tail = NewTail]
    BY <1>5 DEF AdvanceTailFlush, FlushAll
  <2>2. Up /\ ck.caller \in {"reserve", "lag", "drain"}
    BY <2>1 DEF Up, MountSteps, LogInv, TypeInv, TypeOK, CkptSteps
  <2>3. /\ j'.head = j.head /\ j'.tail = NewTail /\ j'.next_sequence = j.next_sequence
    BY <2>1 DEF LogInv, TypeInv, TypeOK
  <2>4. /\ LogEnd = j.head /\ LogEndSeq = j.next_sequence
        /\ LogEnd' = j.head /\ LogEndSeq' = j.next_sequence
    BY <2>1, <2>2, <2>3 DEF LogEnd, LogEndSeq, PostCommit
  <2>5. LiveOf(ck', ckpt') = ckpt
    BY <2>1, <2>2, LogFacts, NoTypes, LiveOfProps
  <2>6. Ordered(ckpt, NewTail, j.head, j.head, j.next_sequence) /\ AllInLog(log, ckpt)
    <3>1. /\ Len(Live) = Len(ckpt) + 1
          /\ \A i \in 1 .. Len(ckpt) : Live[i + 1] = ckpt[i]
      <4>1. ck.caller # "none" /\ ck.t \in LoggedTxn /\ ckpt \in Seq(LoggedTxn)
        BY <2>2, LogFacts
      <4>2. Live = LiveOf(ck, ckpt)
        BY <2>2, LogFacts
      <4>3. QED
        BY <4>1, <4>2, LiveOfProps
    <3>2. /\ Chain(Live, j.tail, j.head, j.next_sequence)
          /\ j.tail <= j.head /\ j.head - j.tail <= MaxLen
      BY <2>2, <2>4, LogFacts DEF Ordered
    <3>3. AllInLog(log, ckpt)
      <4>1. ASSUME NEW n \in DOMAIN ckpt PROVE InLogOf(log, ckpt[n])
        <5>1. n \in 1 .. Len(ckpt) /\ n + 1 \in DOMAIN Live
          BY <2>2, <3>1, LogFacts, LenProperties
        <5>2. QED
          BY <2>2, <3>1, <5>1, LogFacts DEF AllInLog
      <4>2. QED
        BY <4>1 DEF AllInLog
    <3>4. CASE ckpt # <<>>
      <4>1. NewTail = Head(ckpt).desc_offset
        BY <3>4 DEF NewTail
      <4>2. /\ Chain(ckpt, NewTail, j.head, j.next_sequence)
            /\ NewTail \in Nat /\ j.tail <= NewTail /\ NewTail <= j.head
        BY <2>2, <3>1, <3>2, <3>4, <4>1, LogFacts, ChainTail
      <4>3. j.head - NewTail <= MaxLen
        BY <2>2, <3>2, <4>2, LogFacts
      <4>4. QED
        BY <3>3, <4>2, <4>3 DEF Ordered
    <3>5. CASE ckpt = <<>>
      <4>1. NewTail = j.head /\ DOMAIN ckpt = {}
        BY <3>5 DEF NewTail
      <4>2. j.head <= j.head /\ j.head - j.head <= MaxLen
        BY <2>2, LogFacts
      <4>3. QED
        BY <3>3, <4>1, <4>2 DEF Ordered, Chain
    <3>6. QED
      BY <3>4, <3>5
  <2>7. AllInLog(log', ckpt) /\ CurInAlt'
    BY <2>1, <2>2, <2>6, LogFacts, ListFlush, CurInAltKept DEF CurInAlt
  <2>8. LogOrdered' /\ AckedInLog'
    BY <2>2, <2>3, <2>4, <2>5, <2>6, <2>7, LogFacts, LogGoal
  <2>9. WritingInv' /\ CommittedInv' /\ IdleInv'
    BY <2>1, <2>2 DEF LogInv, WritingInv, CommittedInv, IdleInv, Writing, PostCommit,
                      CommitSteps, Up, MountSteps
  <2>10. QED
    BY <2>7, <2>8, <2>9 DEF LogInv
<1>6. QED
  BY <1>1, <1>2, <1>3, <1>4, <1>5

(* do_commit and logfs_journal_commit.                                       *)
LEMMA LogCommit ==
  ASSUME LogInv, TypeInv',
         \/ \E b \in Batches : DoCommit(b)
         \/ Reserve \/ CommitRejected \/ CommitBegin \/ CommitWriteBody
         \/ CommitPreflush \/ CommitWriteBlock \/ CommitFlush \/ CommitSuperWrite
         \/ CommitSuperFlush \/ Publish
  PROVE  LogInv'
<1>1. ASSUME (\E b \in Batches : DoCommit(b)) \/ CommitRejected PROVE LogInv'
  <2>1. /\ pc \in {"ready", "reserve", "jcommit"} /\ pc' \in {"reserve", "lag"}
        /\ UNCHANGED <<log, j, ckpt, ck>> /\ txn'.k = 0
    <3>1. NoTxn.k = 0 /\ \A d, r : [NoTxn EXCEPT !.data = d, !.revoke = r].k = 0
      BY DEF NoTxn
    <3>2. ASSUME NEW b \in Batches, DoCommit(b)
          PROVE  /\ pc = "ready" /\ pc' = "reserve" /\ UNCHANGED <<log, j, ckpt, ck>>
                 /\ txn'.k = 0
      BY <3>1, <3>2 DEF DoCommit
    <3>3. CASE CommitRejected
      BY <3>1, <3>3 DEF CommitRejected
    <3>4. QED
      BY <1>1, <3>2, <3>3
  <2>2. Up /\ Up' /\ LogEnd' = LogEnd /\ LogEndSeq' = LogEndSeq
    BY <2>1 DEF Up, MountSteps, LogEnd, LogEndSeq, PostCommit
  <2>3. CurInAlt' /\ LogOrdered' /\ AckedInLog'
    BY <2>1, <2>2, LogQuiet
  <2>4. WritingInv' /\ CommittedInv' /\ IdleInv'
    BY <2>1, <2>2 DEF WritingInv, CommittedInv, IdleInv, Writing, PostCommit
  <2>5. QED
    BY <2>3, <2>4 DEF LogInv
<1>2. CASE Reserve
  BY <1>2, LogTake DEF Reserve
<1>3. CASE CommitBegin
  <2>1. /\ pc \in {"reserve", "jcommit"} /\ pc' = "body" /\ Fits(txn)
        /\ UNCHANGED <<log, j, ckpt, ck>>
        /\ txn' = [txn EXCEPT !.sequence = j.next_sequence, !.desc_offset = j.head,
                              !.was_empty = (j.tail = j.head)]
    BY <1>3 DEF CommitBegin
  <2>2. Up /\ Up' /\ LogEnd' = LogEnd /\ LogEndSeq' = LogEndSeq
    BY <2>1 DEF Up, MountSteps, LogEnd, LogEndSeq, PostCommit
  <2>3. CurInAlt' /\ LogOrdered' /\ AckedInLog'
    BY <2>1, <2>2, LogQuiet
  <2>4. /\ txn'.data = txn.data /\ txn'.revoke = txn.revoke /\ txn'.k = txn.k
        /\ txn'.desc_offset = j.head /\ txn'.sequence = j.next_sequence
    BY <2>1 DEF LogInv, TypeInv, TypeOK
  <2>5. txn.k = 0
    BY <2>1 DEF LogInv, IdleInv, CommitSteps
  <2>6. Size(txn') = Size(txn) /\ Size(txn) \in Nat /\ Size(txn) >= 2
    BY <2>2, <2>4, LogFacts DEF Size
  <2>7. j.head + Size(txn) - j.tail <= MaxLen
    <3> DEFINE needed == logfs_journal_space_needed(txn)
    <3>1. needed # 0 /\ needed <= MaxLen - (j.head - j.tail)
      BY <2>1 DEF Fits, logfs_journal_free_space
    <3>2. needed = Size(txn)
      <4>1. needed = 1 + Len(txn.data) + (IF txn.revoke = <<>> THEN 0 ELSE 1) + 1
        BY <3>1 DEF logfs_journal_space_needed
      <4>2. Len(txn.data) \in Nat
        BY <2>2, LogFacts DEF IsTxn
      <4>3. CASE txn.revoke = <<>>
        BY <4>1, <4>2, <4>3 DEF Size
      <4>4. CASE txn.revoke # <<>>
        BY <4>1, <4>2, <4>4 DEF Size
      <4>5. QED
        BY <4>3, <4>4
    <3> HIDE DEF needed
    <3>3. QED
      BY <2>2, <2>6, <3>1, <3>2, LogFacts
  <2>8. WritingInv'
    <3>1. 1 .. txn'.k = {}
      BY <2>4, <2>5
    <3>2. txn'.k <= Size(txn') - 1
      BY <2>4, <2>5, <2>6
    <3>3. QED
      BY <2>1, <2>4, <2>6, <2>7, <3>1, <3>2 DEF WritingInv
  <2>9. CommittedInv' /\ IdleInv'
    BY <2>1, <2>2 DEF CommittedInv, IdleInv, PostCommit, CommitSteps
  <2>10. QED
    BY <2>3, <2>8, <2>9 DEF LogInv
<1>4. CASE CommitPreflush
  <2>1. /\ pc = "body" /\ pc' = "cblock" /\ log' = logfs_bdev_flush(log)
        /\ UNCHANGED <<j, txn, ckpt, ck>> /\ txn.k = Len(Body(txn))
    BY <1>4 DEF CommitPreflush, FlushAll
  <2>2. Up /\ Up' /\ LogEnd' = LogEnd /\ LogEndSeq' = LogEndSeq
    BY <2>1 DEF Up, MountSteps, LogEnd, LogEndSeq, PostCommit
  <2>3. CurInAlt' /\ LogOrdered' /\ AckedInLog'
    BY <2>1, <2>2, LogQuiet
  <2>4. txn.k = Size(txn) - 1
    BY <2>1, <2>2, LogFacts, BodyProps
  <2>5. log'.cur = log.cur
    BY <2>1 DEF logfs_bdev_flush, Settled
  <2>6. WritingInv'
    BY <2>1, <2>4, <2>5 DEF LogInv, WritingInv, Writing
  <2>7. CommittedInv' /\ IdleInv'
    BY <2>1, <2>2 DEF CommittedInv, IdleInv, PostCommit, CommitSteps
  <2>8. QED
    BY <2>3, <2>6, <2>7 DEF LogInv
<1>5. ASSUME CommitWriteBody \/ CommitWriteBlock PROVE LogInv'
  <2> DEFINE v == Image(txn)[txn.k + 1]
  <2>1. /\ pc \in Writing /\ pc \in {"body", "cblock"} /\ Up /\ Up' /\ UNCHANGED <<j, ckpt, ck>>
        /\ txn' = [txn EXCEPT !.k = @ + 1]
        /\ pc = "body" => pc' = "body" /\ txn.k < Len(Body(txn))
        /\ pc = "cblock" => pc' = "cflush"
    BY <1>5 DEF CommitWriteBody, CommitWriteBlock, Writing, Up, MountSteps
  <2>2. /\ Size(txn) \in Nat /\ txn.k \in Nat /\ IsTxn(txn)
        /\ Len(Body(txn)) = Size(txn) - 1
    BY <2>1, LogFacts, BodyProps
  <2>3. pc = "cblock" => txn.k = Size(txn) - 1
    BY <2>1 DEF LogInv, WritingInv
  <2>4. txn.k < Size(txn) /\ txn.k + 1 \in 1 .. Size(txn)
    BY <2>1, <2>2, <2>3
  <2>5. v \in LogBlock /\ write_logical(txn.desc_offset + txn.k, v)
    <3>1. v \in LogBlock
      BY <2>2, <2>4, ImageProps
    <3>2. CASE pc = "body"
      <4>1. v = Body(txn)[txn.k + 1]
        <5>1. txn.k + 1 \in 1 .. Size(txn) - 1
          BY <2>1, <2>2, <3>2
        <5>2. QED
          BY <2>2, <5>1, ImageProps
      <4>2. QED
        BY <1>5, <3>1, <3>2, <4>1 DEF CommitWriteBody, CommitWriteBlock
    <3>3. CASE pc = "cblock"
      <4>1. txn.k + 1 = Size(txn)
        BY <2>2, <2>3, <3>3
      <4>2. v = CommitBlock(txn)
        BY <2>2, <4>1, ImageProps
      <4>3. QED
        BY <1>5, <3>1, <3>3, <4>2 DEF CommitWriteBody, CommitWriteBlock
    <3>4. QED
      BY <2>1, <3>2, <3>3
  <2> HIDE DEF v
  <2>6. /\ CurInAlt' /\ AllInLog(log', Live)
        /\ log'.cur[phys_of(j.head + txn.k)] = v
        /\ \A m \in 1 .. txn.k : log'.cur[phys_of(j.head + m - 1)] = Image(txn)[m]
    BY <2>1, <2>4, <2>5, LogWrite
  <2>7. LogEnd' = LogEnd /\ LogEndSeq' = LogEndSeq
    BY <2>1 DEF LogEnd, LogEndSeq, PostCommit
  <2>8. LiveOf(ck', ckpt') = Live
    BY <2>1, LogFacts
  <2>9. LogOrdered' /\ AckedInLog'
    BY <2>1, <2>6, <2>7, <2>8, LogFacts, LogGoal
  <2>10. /\ txn'.data = txn.data /\ txn'.revoke = txn.revoke /\ txn'.k = txn.k + 1
         /\ txn'.desc_offset = txn.desc_offset /\ txn'.sequence = txn.sequence
    BY <2>1 DEF LogInv, TypeInv, TypeOK
  <2>11. Size(txn') = Size(txn) /\ Image(txn') = Image(txn)
    BY <2>10, ImageOfSame
  <2>12. ASSUME NEW m \in 1 .. txn.k + 1
         PROVE  log'.cur[phys_of(j.head + m - 1)] = Image(txn)[m]
    <3>1. CASE m \in 1 .. txn.k
      BY <2>6, <3>1
    <3>2. CASE m = txn.k + 1
      <4>1. j.head + m - 1 = j.head + txn.k
        BY <2>1, <2>2, <3>2, LogFacts
      <4>2. QED
        BY <2>6, <3>2, <4>1 DEF v
    <3>3. QED
      BY <2>2, <3>1, <3>2
  <2>13. WritingInv'
    <3>1. /\ txn.desc_offset = j.head /\ txn.sequence = j.next_sequence
          /\ j.head + Size(txn) - j.tail <= MaxLen
      BY <2>1 DEF LogInv, WritingInv
    <3>2. /\ pc' = "body" => txn'.k <= Size(txn') - 1
          /\ pc' = "cblock" => txn'.k = Size(txn') - 1
          /\ pc' = "cflush" => txn'.k = Size(txn')
      BY <2>1, <2>2, <2>3, <2>10, <2>11
    <3>3. \A m \in 1 .. txn'.k : log'.cur[phys_of(j'.head + m - 1)] = Image(txn')[m]
      BY <2>1, <2>10, <2>11, <2>12
    <3>4. QED
      BY <2>1, <2>10, <2>11, <3>1, <3>2, <3>3 DEF WritingInv
  <2>14. CommittedInv' /\ IdleInv'
    BY <2>1 DEF CommittedInv, IdleInv, PostCommit, CommitSteps
  <2>15. QED
    BY <2>6, <2>9, <2>13, <2>14 DEF LogInv
<1>6. CASE CommitFlush
  <2>1. /\ pc = "cflush" /\ pc \in Writing /\ pc' \in PostCommit
        /\ log' = logfs_bdev_flush(log) /\ UNCHANGED <<txn, ckpt, ck>>
        /\ j' = [j EXCEPT !.head = txn.desc_offset + txn.k, !.next_sequence = txn.sequence + 1]
    BY <1>6 DEF CommitFlush, FlushAll, Writing, PostCommit
  <2>2. Up /\ Up' /\ pc' \in CommitSteps /\ pc' \notin Writing /\ pc \notin PostCommit
    BY <2>1 DEF Up, MountSteps, PostCommit, CommitSteps, Writing
  <2>3. /\ txn.desc_offset = j.head /\ txn.sequence = j.next_sequence
        /\ j.head + Size(txn) - j.tail <= MaxLen /\ txn.k = Size(txn)
        /\ \A m \in 1 .. txn.k : log.cur[phys_of(j.head + m - 1)] = Image(txn)[m]
    BY <2>1 DEF LogInv, WritingInv
  <2>4. /\ j'.head = j.head + Size(txn) /\ j'.tail = j.tail
        /\ j'.next_sequence = txn.sequence + 1
    BY <2>1, <2>3 DEF LogInv, TypeInv, TypeOK
  <2>5. /\ LogEnd = j.head /\ LogEndSeq = j.next_sequence
        /\ LogEnd' = j.head /\ LogEndSeq' = j.next_sequence
    BY <2>1, <2>2, <2>3 DEF LogEnd, LogEndSeq
  <2>6. Ordered(Live, j'.tail, j'.head, LogEnd', LogEndSeq')
    BY <2>2, <2>3, <2>4, <2>5, LogFacts DEF Ordered
  <2>7. LiveOf(ck', ckpt') = Live
    BY <2>1, <2>2, LogFacts
  <2>8. CurInAlt' /\ AllInLog(log', Live)
    BY <2>1, <2>2, LogFacts, CurInAltKept, ListFlush DEF CurInAlt
  <2>9. LogOrdered' /\ AckedInLog'
    BY <2>2, <2>6, <2>7, <2>8, LogFacts, LogGoal
  <2>10. ASSUME NEW k \in DOMAIN Image(txn)
         PROVE  log'.alt[phys_of(txn.desc_offset + k - 1)] = {Image(txn)[k]}
    <3>1. k \in 1 .. Size(txn)
      BY <2>2, LogFacts, ImageProps
    <3>2. txn.desc_offset + k - 1 \in Nat
      BY <2>2, <3>1, LogFacts
    <3>3. phys_of(txn.desc_offset + k - 1) \in Slots
      BY <3>2, PhysInSlots
    <3>4. log.cur[phys_of(txn.desc_offset + k - 1)] = Image(txn)[k]
      BY <2>3, <3>1
    <3>5. QED
      BY <2>1, <2>2, <3>3, <3>4, LogFacts DEF logfs_bdev_flush, Settled, Region
  <2>11. CommittedInv'
    BY <2>1, <2>3, <2>4, <2>10 DEF CommittedInv, InLog
  <2>12. WritingInv' /\ IdleInv'
    BY <2>1, <2>2 DEF WritingInv, IdleInv, PostCommit
  <2>13. QED
    BY <2>8, <2>9, <2>11, <2>12 DEF LogInv
<1>7. ASSUME CommitSuperWrite \/ CommitSuperFlush PROVE LogInv'
  <2>1. /\ pc \in PostCommit /\ pc' \in PostCommit /\ UNCHANGED <<j, txn, ckpt, ck>>
        /\ log' = log \/ log' = logfs_bdev_flush(log)
    BY <1>7 DEF CommitSuperWrite, CommitSuperFlush, FlushAll, PostCommit
  <2>2. Up /\ Up' /\ pc' \in CommitSteps /\ pc' \notin Writing
    BY <2>1 DEF Up, MountSteps, PostCommit, CommitSteps, Writing
  <2>3. LogEnd' = LogEnd /\ LogEndSeq' = LogEndSeq
    BY <2>1 DEF LogEnd, LogEndSeq
  <2>4. CurInAlt' /\ LogOrdered' /\ AckedInLog'
    BY <2>1, <2>2, <2>3, LogQuiet
  <2>5. InLogOf(log', txn)
    <3>1. InLogOf(log, txn)
      BY <2>1, <2>2, LogFacts, InLogIsOf DEF LogInv, CommittedInv
    <3>2. QED
      BY <2>1, <2>2, <3>1, LogFacts, FlushKeeps
  <2>6. CommittedInv'
    <3>1. DOMAIN Image(txn) = 1 .. Size(txn)
      BY <2>2, LogFacts, ImageProps
    <3>2. txn.desc_offset + Size(txn) = j.head /\ txn.sequence + 1 = j.next_sequence
      BY <2>1 DEF LogInv, CommittedInv
    <3>3. QED
      BY <2>1, <2>5, <3>1, <3>2 DEF CommittedInv, InLog, InLogOf
  <2>7. WritingInv' /\ IdleInv'
    BY <2>1, <2>2 DEF WritingInv, IdleInv, PostCommit
  <2>8. QED
    BY <2>4, <2>6, <2>7 DEF LogInv
<1>8. CASE Publish
  <2> DEFINE t == [data |-> txn.data, revoke |-> txn.revoke,
                   sequence |-> txn.sequence, desc_offset |-> txn.desc_offset]
  <2>1. /\ pc = "publish" /\ pc \in PostCommit /\ pc' = "lag" /\ txn' = NoTxn
        /\ ckpt' = Append(ckpt, t) /\ UNCHANGED <<log, j, ck>>
    BY <1>8 DEF Publish, PostCommit
  <2>2. Up /\ Up' /\ ck.caller = "none" /\ txn'.k = 0
    BY <2>1 DEF Up, MountSteps, LogInv, TypeInv, CkptSteps, NoTxn
  <2>3. Live = ckpt
    BY <2>2, LogFacts, LiveOfProps
  <2>4. t \in LoggedTxn /\ Size(t) = Size(txn) /\ Image(t) = Image(txn)
    <3>1. t \in LoggedTxn
      BY <2>1 DEF LogInv, TypeInv, TypeOK, LoggedTxn
    <3>2. t.data = txn.data /\ t.revoke = txn.revoke /\ t.sequence = txn.sequence
      OBVIOUS
    <3> HIDE DEF t
    <3>3. QED
      BY <3>1, <3>2, ImageOfSame
  <2>5. t.desc_offset = txn.desc_offset /\ t.sequence = txn.sequence
    OBVIOUS
  <2> HIDE DEF t
  <2>6. Append(ckpt, t) \in Seq(LoggedTxn) /\ LiveOf(ck', ckpt') = Append(ckpt, t)
    BY <2>1, <2>2, <2>4, LogFacts, AppendProperties, LiveOfProps
  <2>7. /\ t.desc_offset + Size(t) = j.head /\ t.sequence + 1 = j.next_sequence
        /\ InLogOf(log, t)
    <3>1. /\ txn.desc_offset + Size(txn) = j.head /\ txn.sequence + 1 = j.next_sequence
          /\ InLog(txn)
      BY <2>1 DEF LogInv, CommittedInv
    <3>2. InLogOf(log, txn)
      BY <2>2, <3>1, LogFacts, InLogIsOf
    <3>3. QED
      BY <2>4, <2>5, <3>1, <3>2 DEF InLogOf
  <2>8. LogEnd' = j.head /\ LogEndSeq' = j.next_sequence
    BY <2>1 DEF LogEnd, LogEndSeq, PostCommit
  <2>9. LogEnd = t.desc_offset /\ LogEndSeq = t.sequence
    BY <2>1, <2>5 DEF LogEnd, LogEndSeq
  <2>10. Ordered(Append(ckpt, t), j.tail, j.head, j.head, j.next_sequence)
    <3>1. /\ j.tail <= t.desc_offset /\ j.head - j.tail <= MaxLen
          /\ Chain(ckpt, j.tail, t.desc_offset, t.sequence)
      BY <2>2, <2>3, <2>9, LogFacts DEF Ordered
    <3>2. Chain(Append(ckpt, t), j.tail, j.head, j.next_sequence)
      BY <2>2, <2>4, <2>7, <3>1, LogFacts, ChainAppend
    <3>3. j.tail <= j.head
      <4>1. t.desc_offset \in Nat /\ Size(t) \in Nat
        BY <2>4, LoggedIsTxn
      <4>2. QED
        BY <2>2, <2>7, <3>1, <4>1, LogFacts
    <3>4. QED
      BY <3>1, <3>2, <3>3 DEF Ordered
  <2>11. AllInLog(log, Append(ckpt, t))
    <3>1. ckpt \in Seq(LoggedTxn) /\ AllInLog(log, ckpt)
      BY <2>2, <2>3, LogFacts
    <3>2. ASSUME NEW n \in DOMAIN Append(ckpt, t) PROVE InLogOf(log, Append(ckpt, t)[n])
      <4>1. /\ Len(ckpt) \in Nat /\ DOMAIN ckpt = 1 .. Len(ckpt)
            /\ DOMAIN Append(ckpt, t) = 1 .. Len(ckpt) + 1
            /\ \A i \in 1 .. Len(ckpt) : Append(ckpt, t)[i] = ckpt[i]
            /\ Append(ckpt, t)[Len(ckpt) + 1] = t
        BY <2>4, <3>1, LenProperties, AppendProperties
      <4>2. CASE n \in 1 .. Len(ckpt)
        BY <3>1, <4>1, <4>2 DEF AllInLog
      <4>3. CASE n = Len(ckpt) + 1
        BY <2>7, <4>1, <4>3
      <4>4. QED
        BY <3>2, <4>1, <4>2, <4>3
    <3>3. QED
      BY <3>2 DEF AllInLog
  <2>12. LogOrdered' /\ AckedInLog'
    BY <2>1, <2>6, <2>8, <2>10, <2>11, LogGoal
  <2>13. CurInAlt' /\ WritingInv' /\ CommittedInv' /\ IdleInv'
    BY <2>1, <2>2
    DEF LogInv, CurInAlt, WritingInv, CommittedInv, IdleInv, Writing, PostCommit
  <2>14. QED
    BY <2>12, <2>13 DEF LogInv
<1>9. QED
  BY <1>1, <1>2, <1>3, <1>4, <1>5, <1>6, <1>7, <1>8

(* Errors and crashes.                                                       *)
LEMMA LogFaults ==
  ASSUME LogInv, TypeInv', CommitError \/ CheckpointError \/ RecoverError \/ Kill \/ PowerLoss
  PROVE  LogInv'
<1>1. CASE CommitError
  <2>1. pc \in CommitSteps /\ pc' = "lag" /\ txn' = NoTxn /\ UNCHANGED <<j, ckpt, ck>>
    BY <1>1 DEF CommitError
  <2>2. Up /\ Up' /\ txn'.k = 0
    BY <2>1 DEF Up, MountSteps, CommitSteps, NoTxn
  <2>3. AllInLog(log', Live) /\ CurInAlt'
    <3>1. CASE UNCHANGED log
      BY <2>2, <3>1, LogFacts DEF LogInv, CurInAlt
    <3>2. CASE /\ \/ pc = "body" /\ txn.k < Len(Body(txn))
                  \/ pc = "cblock"
               /\ write_logical(txn.desc_offset + txn.k, TornBlock)
      <4>1. pc \in Writing /\ TornBlock \in LogBlock
        BY <3>2 DEF Writing, LogBlock
      <4>2. txn.k < Size(txn)
        <5>1. /\ Len(Body(txn)) = Size(txn) - 1 /\ Size(txn) \in Nat /\ txn.k \in Nat
          BY <2>2, LogFacts, BodyProps
        <5>2. pc = "cblock" => txn.k = Size(txn) - 1
          BY <4>1 DEF LogInv, WritingInv
        <5>3. QED
          BY <3>2, <5>1, <5>2
      <4>3. QED
        BY <3>2, <4>1, <4>2, LogWrite
    <3>3. QED
      BY <1>1, <3>1, <3>2 DEF CommitError
  <2>4. LogEnd' = j.head /\ LogEndSeq' = j.next_sequence
    BY <2>1 DEF LogEnd, LogEndSeq, PostCommit
  <2>5. Ordered(Live, j.tail, j.head, j.head, j.next_sequence)
    <3>1. /\ j.tail <= LogEnd /\ j.head - j.tail <= MaxLen
          /\ Chain(Live, j.tail, LogEnd, LogEndSeq)
      BY <2>2, LogFacts DEF Ordered
    <3>2. Chain(Live, j.tail, j.head, j.next_sequence)
      BY <2>2, <3>1, LogFacts, ChainRelax
    <3>3. j.tail <= j.head
      BY <2>2, <3>1, LogFacts
    <3>4. QED
      BY <3>1, <3>2, <3>3 DEF Ordered
  <2>6. LiveOf(ck', ckpt') = Live
    BY <2>1, <2>2, LogFacts
  <2>7. LogOrdered' /\ AckedInLog'
    BY <2>1, <2>2, <2>3, <2>4, <2>5, <2>6, LogFacts, LogGoal
  <2>8. WritingInv' /\ CommittedInv' /\ IdleInv'
    BY <2>1, <2>2 DEF WritingInv, CommittedInv, IdleInv, Writing, PostCommit
  <2>9. QED
    BY <2>3, <2>7, <2>8 DEF LogInv
<1>2. CASE CheckpointError
  <2>1. /\ pc \in CkptSteps /\ ck' = NoCk /\ UNCHANGED <<log, j, txn>>
        /\ pc' = AfterCkptError[ck.caller]
        /\ ckpt' = IF ck.caller = "drain" THEN <<>> ELSE ckpt
    BY <1>2 DEF CheckpointError
  <2>2. /\ Up /\ ck.caller \in {"reserve", "lag", "drain"} /\ pc \notin PostCommit
        /\ pc \notin CommitSteps
    BY <2>1 DEF Up, MountSteps, LogInv, TypeInv, TypeOK, CkptSteps, PostCommit, CommitSteps
  <2>3. CurInAlt' /\ txn'.k = 0
    BY <2>1, <2>2 DEF LogInv, CurInAlt, IdleInv
  <2>4. CASE ck.caller = "drain"
    <3>1. pc' = "down" /\ ckpt' = <<>>
      BY <2>1, <2>4 DEF AfterCkptError
    <3>2. IdleInv'
      BY <2>3, <3>1 DEF IdleInv
    <3>3. QED
      BY <2>3, <3>1, <3>2, LogDown
  <2>5. CASE ck.caller # "drain"
    <3>1. pc' \in {"jcommit", "ready"} /\ ckpt' = ckpt
      BY <2>1, <2>2, <2>5 DEF AfterCkptError
    <3>2. LiveOf(ck', ckpt') = ckpt
      BY <2>1, <2>2, <3>1, LogFacts, NoTypes, LiveOfProps
    <3>3. /\ LogEnd = j.head /\ LogEndSeq = j.next_sequence
          /\ LogEnd' = j.head /\ LogEndSeq' = j.next_sequence
      BY <2>1, <2>2, <3>1 DEF LogEnd, LogEndSeq, PostCommit
    <3>4. /\ Len(Live) = Len(ckpt) + 1
          /\ \A i \in 1 .. Len(ckpt) : Live[i + 1] = ckpt[i]
      <4>1. ck.caller # "none" /\ ck.t \in LoggedTxn /\ ckpt \in Seq(LoggedTxn)
        BY <2>2, LogFacts
      <4>2. Live = LiveOf(ck, ckpt)
        BY <2>2, LogFacts
      <4>3. QED
        BY <4>1, <4>2, LiveOfProps
    <3>5. Ordered(ckpt, j.tail, j.head, j.head, j.next_sequence)
      <4>1. /\ j.tail <= j.head /\ j.head - j.tail <= MaxLen
            /\ Chain(Live, j.tail, j.head, j.next_sequence)
        BY <2>2, <3>3, LogFacts DEF Ordered
      <4>2. Chain(ckpt, j.tail, j.head, j.next_sequence)
        BY <2>2, <3>4, <4>1, LogFacts, ChainTail
      <4>3. QED
        BY <4>1, <4>2 DEF Ordered
    <3>6. AllInLog(log, ckpt)
      <4>1. ASSUME NEW n \in DOMAIN ckpt PROVE InLogOf(log, ckpt[n])
        <5>1. n \in 1 .. Len(ckpt) /\ n + 1 \in DOMAIN Live
          BY <2>2, <3>4, LogFacts, LenProperties
        <5>2. QED
          BY <2>2, <3>4, <5>1, LogFacts DEF AllInLog
      <4>2. QED
        BY <4>1 DEF AllInLog
    <3>7. LogOrdered' /\ AckedInLog'
      BY <2>1, <2>2, <3>2, <3>3, <3>5, <3>6, LogFacts, LogGoal
    <3>8. WritingInv' /\ CommittedInv' /\ IdleInv'
      BY <2>3, <3>1 DEF WritingInv, CommittedInv, IdleInv, Writing, PostCommit, Up, MountSteps
    <3>9. QED
      BY <2>3, <3>7, <3>8 DEF LogInv
  <2>6. QED
    BY <2>4, <2>5
<1>3. CASE RecoverError
  <2>1. CurInAlt' /\ IdleInv' /\ pc' \in MountSteps \cup {"down"}
    BY <1>3 DEF RecoverError, LogInv, CurInAlt, IdleInv, Up, MountSteps, CommitSteps
  <2>2. QED
    BY <2>1, LogDown
<1>4. ASSUME LoseMemory PROVE IdleInv' /\ pc' = "down"
  BY <1>4 DEF LoseMemory, IdleInv, NoTxn
<1>5. CASE Kill
  <2>1. CurInAlt'
    BY <1>5 DEF Kill, LogInv, CurInAlt
  <2>2. QED
    BY <1>4, <1>5, <2>1, LogDown DEF Kill
<1>6. CASE PowerLoss
  <2>1. CurInAlt'
    <3>1. PICK l \in PowerLossImages(log) : log' = Settled(l)
      BY <1>6 DEF PowerLoss
    <3>2. l \in [Slots -> LogBlock]
      BY RegionImages DEF LogInv, TypeInv, TypeOK
    <3>3. QED
      BY <3>1, <3>2 DEF CurInAlt, Settled
  <2>2. QED
    BY <1>4, <1>6, <2>1, LogDown DEF PowerLoss
<1>7. QED
  BY <1>1, <1>2, <1>3, <1>5, <1>6

(* A freshly formatted journal satisfies the invariant of the log.           *)
LEMMA LogInit == Init => LogInv
<1> SUFFICES ASSUME Init PROVE LogInv
  OBVIOUS
<1>1. TypeInv /\ pc = "down" /\ txn.k = 0 /\ ckpt = <<>> /\ ~Up
  BY TypeInit DEF Init, NoTxn, Up
<1>2. CurInAlt
  BY DEF Init, CurInAlt, Settled
<1>3. QED
  BY <1>1, <1>2 DEF LogInv, WritingInv, CommittedInv, IdleInv, LogOrdered, AckedInLog,
                    Writing, PostCommit

(* Every step keeps the invariant of the log.                                *)
LEMMA LogStep == LogInv /\ [Next]_vars => LogInv'
<1> SUFFICES ASSUME LogInv, [Next]_vars PROVE LogInv'
  OBVIOUS
<1>1. TypeInv'
  BY TypeStep DEF LogInv
<1>2. CASE Next
  BY <1>1, <1>2, LogMount, LogCommit, LogCheckpoint, LogFaults DEF Next, ThreadStep
<1>3. CASE UNCHANGED vars
  <2>1. /\ log' = log /\ j' = j /\ pc' = pc /\ txn' = txn /\ ckpt' = ckpt /\ ck' = ck
    BY <1>3 DEF vars
  <2>2. Live' = Live /\ LogEnd' = LogEnd /\ LogEndSeq' = LogEndSeq /\ Up' = Up
    BY <2>1 DEF Live, LogEnd, LogEndSeq, Up
  <2>3. CurInAlt' /\ WritingInv' /\ IdleInv'
    BY <2>1, <2>2 DEF LogInv, CurInAlt, WritingInv, IdleInv
  <2>4. CommittedInv'
    BY <2>1 DEF LogInv, CommittedInv, InLog
  <2>5. LogOrdered'
    BY <2>1, <2>2 DEF LogInv, LogOrdered
  <2>6. AckedInLog'
    BY <2>1, <2>2 DEF LogInv, AckedInLog, InLog
  <2>7. QED
    BY <1>1, <2>3, <2>4, <2>5, <2>6 DEF LogInv
<1>4. QED
  BY <1>2, <1>3

(* The head of the ring never laps its tail, and the committed transactions  *)
(* that are not yet home lie between the two in commit order without         *)
(* overlapping: for every ring size and batch size, and after any I/O error, *)
(* kill or power loss.                                                       *)
THEOREM LogStaysOrdered == Spec => []LogOrdered
<1>1. LogInv => LogOrdered
  BY DEF LogInv
<1>2. QED
  BY <1>1, LogInit, LogStep, PTL DEF Spec

(* Every block of every acknowledged transaction that is not yet home is in  *)
(* its slot of the ring in every image a power loss could leave, so no later *)
(* commit, failed commit or tail advance overwrites it.                      *)
THEOREM AckedStaysInLog == Spec => []AckedInLog
<1>1. LogInv => AckedInLog
  BY DEF LogInv
<1>2. QED
  BY <1>1, LogInit, LogStep, PTL DEF Spec
=============================================================================
