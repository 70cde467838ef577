----------------------------- MODULE TxnProofs -----------------------------
(***************************************************************************)
(* Theorems about TxnManager for every set of clients and blocks, every    *)
(* number of operations and fsync() calls, and every checkpoint lag.       *)
(***************************************************************************)
EXTENDS TxnManager, SequenceTheorems, FiniteSetTheorems, WellFoundedInduction, TLAPS

-----------------------------------------------------------------------------
(* The newest copy on the checkpoint list. *)

(* A nonempty set of positions of a list has a last one: find_checkpointed  *)
(* and Recoverable take the copy there.  (Among the sets of the positions   *)
(* behind a given one, one is smallest for inclusion; it is empty.)         *)
LEMMA GreatestIndex ==
  ASSUME NEW n \in Nat, NEW T \in SUBSET (1 .. n), T # {}
  PROVE  \E i \in T : \A k \in T : k <= i
<1> DEFINE Behind(i) == {k \in T : k > i}
           Sets == {Behind(i) : i \in T}
<1>1. IsFiniteSet(1 .. n)
  BY FS_Interval
<1>2. FiniteSubsetsOf(1 .. n) = SUBSET (1 .. n)
  BY <1>1, FS_FiniteSubsetsOfFinite
<1>3. IsWellFoundedOn(StrictSubsetOrdering(1 .. n), SUBSET (1 .. n))
  BY <1>2, FS_StrictSubsetOrderingWellFounded
<1>4. Sets \subseteq SUBSET (1 .. n) /\ Sets # {}
  OBVIOUS
<1>5. \E U \in Sets : \A V \in Sets : <<V, U>> \notin StrictSubsetOrdering(1 .. n)
  <2> HIDE DEF Sets
  <2>1. QED
    BY <1>3, <1>4, WFMin
<1>6. PICK i \in T : \A j \in T : <<Behind(j), Behind(i)>> \notin StrictSubsetOrdering(1 .. n)
  BY <1>5
<1>7. ASSUME NEW j \in T, j > i PROVE FALSE
  <2>1. Behind(j) \subseteq Behind(i)
    <3>1. i \in Int /\ j \in Int /\ \A k \in T : k \in Int
      OBVIOUS
    <3>2. \A k \in T : k > j => k > i
      BY <1>7, <3>1
    <3>3. QED
      BY <3>2
  <2>2. j \in Behind(i) /\ j \notin Behind(j)
    BY <1>7
  <2>3. Behind(j) \in SUBSET (1 .. n) /\ Behind(i) \in SUBSET (1 .. n)
    OBVIOUS
  <2> HIDE DEF Behind
  <2>4. <<Behind(j), Behind(i)>> \in StrictSubsetOrdering(1 .. n)
    BY <2>1, <2>2, <2>3 DEF StrictSubsetOrdering
  <2>5. QED
    BY <1>6, <2>4
<1>8. QED
  BY <1>6, <1>7
(* Newest returns the copy at the last position that has one.               *)
LEMMA NewestIs ==
  ASSUME NEW txns \in Seq(Committed), NEW b \in Blocks, NEW disk,
         NEW i \in DOMAIN txns, b \in Present(txns[i].nodes),
         \A k \in DOMAIN txns : b \in Present(txns[k].nodes) => k <= i
  PROVE  Newest(txns, b, disk) = txns[i].nodes[b].data
<1> DEFINE T == {k \in DOMAIN txns : txns[k].nodes[b].ops # {}}
           j == CHOOSE k \in T : \A l \in T : l <= k
<1>1. \A k \in DOMAIN txns : k \in T <=> b \in Present(txns[k].nodes)
  BY DEF Present
<1>2. i \in T /\ \A k \in T : k <= i
  BY <1>1
<1>3. j \in T /\ \A k \in T : k <= j
  BY <1>2
<1>4. \A k \in T : k \in Int
  OBVIOUS
<1>5. i <= j /\ j <= i /\ i \in Int /\ j \in Int
  BY <1>2, <1>3, <1>4
<1>6. i = j
  BY <1>5
<1>7. Newest(txns, b, disk) = txns[j].nodes[b].data
  BY <1>2 DEF Newest
<1>8. QED
  BY <1>6, <1>7

LEMMA NewestNone ==
  ASSUME NEW txns \in Seq(Committed), NEW b \in Blocks, NEW disk,
         \A k \in DOMAIN txns : b \notin Present(txns[k].nodes)
  PROVE  Newest(txns, b, disk) = disk
BY DEF Newest, Present

(* Some position is the last, or there is none.                             *)
LEMMA NewestCases ==
  ASSUME NEW txns \in Seq(Committed), NEW b \in Blocks
  PROVE  \/ \A k \in DOMAIN txns : b \notin Present(txns[k].nodes)
         \/ \E i \in DOMAIN txns :
              /\ b \in Present(txns[i].nodes)
              /\ \A k \in DOMAIN txns : b \in Present(txns[k].nodes) => k <= i
<1> DEFINE T == {k \in DOMAIN txns : b \in Present(txns[k].nodes)}
<1>1. T \in SUBSET (1 .. Len(txns)) /\ Len(txns) \in Nat
  OBVIOUS
<1>2. CASE T = {}
  BY <1>2
<1>3. CASE T # {}
  <2> HIDE DEF T
  <2>1. PICK i \in T : \A k \in T : k <= i
    BY <1>1, <1>3, GreatestIndex
  <2>2. QED
    BY <2>1 DEF T
<1>4. QED
  BY <1>2, <1>3

(* A transaction added at the newest end hides the older copies.            *)
LEMMA NewestAppend ==
  ASSUME NEW txns \in Seq(Committed), NEW t \in Committed, NEW b \in Blocks, NEW disk
  PROVE  Newest(Append(txns, t), b, disk)
           = IF b \in Present(t.nodes) THEN t.nodes[b].data ELSE Newest(txns, b, disk)
<1> DEFINE n == Len(txns)
           L == Append(txns, t)
<1>1. /\ n \in Nat /\ DOMAIN txns = 1 .. n /\ L \in Seq(Committed) /\ DOMAIN L = 1 .. n + 1
      /\ \A i \in 1 .. n : L[i] = txns[i]
      /\ L[n + 1] = t
  OBVIOUS
<1> HIDE DEF n, L
<1>2. /\ \A i \in 1 .. n + 1 : i \in 1 .. n \/ i = n + 1
      /\ \A i \in 1 .. n : i \in 1 .. n + 1
      /\ \A i \in 1 .. n + 1 : i <= n + 1
      /\ n + 1 \in 1 .. n + 1
  BY <1>1
<1>3. CASE b \in Present(t.nodes)
  <2>1. Newest(L, b, disk) = L[n + 1].nodes[b].data
    BY <1>1, <1>2, <1>3, NewestIs
  <2>2. QED
    BY <1>1, <1>3, <2>1 DEF L
<1>4. CASE b \notin Present(t.nodes)
  <2>1. CASE \A k \in DOMAIN txns : b \notin Present(txns[k].nodes)
    <3>1. \A k \in DOMAIN L : b \notin Present(L[k].nodes)
      BY <1>1, <1>2, <1>4, <2>1
    <3>2. Newest(L, b, disk) = disk /\ Newest(txns, b, disk) = disk
      BY <1>1, <2>1, <3>1, NewestNone
    <3>3. QED
      BY <1>4, <3>2 DEF L
  <2>2. ASSUME NEW i \in DOMAIN txns, b \in Present(txns[i].nodes),
               \A k \in DOMAIN txns : b \in Present(txns[k].nodes) => k <= i
        PROVE  Newest(L, b, disk) = Newest(txns, b, disk)
    <3>1. /\ i \in DOMAIN L /\ b \in Present(L[i].nodes)
          /\ \A k \in DOMAIN L : b \in Present(L[k].nodes) => k <= i
      BY <1>1, <1>2, <1>4, <2>2
    <3>2. Newest(L, b, disk) = L[i].nodes[b].data
      BY <1>1, <3>1, NewestIs
    <3>3. Newest(txns, b, disk) = txns[i].nodes[b].data
      BY <2>2, NewestIs
    <3>4. QED
      BY <1>1, <2>2, <3>2, <3>3
  <2>3. QED
    BY <1>4, <2>1, <2>2, NewestCases DEF L
<1>5. QED
  BY <1>3, <1>4

(* The oldest transaction counts only where no younger one has a copy: it   *)
(* may as well be on the disk.  This is what checkpoint_oldest relies on.   *)
LEMMA NewestTail ==
  ASSUME NEW txns \in Seq(Committed), txns # <<>>, NEW b \in Blocks, NEW disk
  PROVE  Newest(txns, b, disk)
           = Newest(Tail(txns), b, IF b \in Present(Head(txns).nodes)
                                   THEN Head(txns).nodes[b].data ELSE disk)
<1> DEFINE n == Len(txns)
           L == Tail(txns)
           under == IF b \in Present(Head(txns).nodes) THEN Head(txns).nodes[b].data ELSE disk
<1>1. /\ n \in Nat /\ n >= 1 /\ DOMAIN txns = 1 .. n /\ L \in Seq(Committed) /\ DOMAIN L = 1 .. n - 1
      /\ \A i \in 1 .. n - 1 : L[i] = txns[i + 1]
      /\ Head(txns) = txns[1]
  OBVIOUS
<1> HIDE DEF n, L
<1>2. /\ 1 \in 1 .. n
      /\ \A i \in 1 .. n - 1 : i + 1 \in 1 .. n
      /\ \A i \in 1 .. n : i = 1 \/ i - 1 \in 1 .. n - 1
      /\ \A i \in 1 .. n : (i - 1) + 1 = i
  BY <1>1
<1>3. ASSUME NEW i \in 1 .. n - 1, b \in Present(L[i].nodes),
             \A k \in 1 .. n - 1 : b \in Present(L[k].nodes) => k <= i
      PROVE  Newest(txns, b, disk) = Newest(L, b, under)
  <2>1. i + 1 \in DOMAIN txns /\ b \in Present(txns[i + 1].nodes)
    BY <1>1, <1>2, <1>3
  <2>2. ASSUME NEW k \in 1 .. n, b \in Present(txns[k].nodes) PROVE k <= i + 1
    <3>1. CASE k = 1
      BY <1>1, <3>1
    <3>2. CASE k # 1
      <4>1. k - 1 \in 1 .. n - 1 /\ L[k - 1] = txns[k]
        BY <1>1, <1>2, <3>2
      <4>2. k - 1 <= i
        BY <1>3, <2>2, <4>1
      <4>3. QED
        BY <1>1, <4>2
    <3>3. QED
      BY <3>1, <3>2
  <2>3. Newest(txns, b, disk) = txns[i + 1].nodes[b].data
    BY <1>1, <2>1, <2>2, NewestIs
  <2> HIDE DEF under
  <2>4. Newest(L, b, under) = L[i].nodes[b].data
    <3>1. /\ L \in Seq(Committed) /\ i \in DOMAIN L /\ b \in Present(L[i].nodes)
          /\ \A k \in DOMAIN L : b \in Present(L[k].nodes) => k <= i
      BY <1>1, <1>3
    <3>2. QED
      BY <3>1, NewestIs
  <2>5. QED
    BY <1>1, <2>3, <2>4
<1>4. ASSUME \A k \in 1 .. n - 1 : b \notin Present(L[k].nodes)
      PROVE  Newest(txns, b, disk) = Newest(L, b, under)
  <2>1. Newest(L, b, under) = under
    <3> HIDE DEF under
    <3>1. QED
      BY <1>1, <1>4, NewestNone
  <2>2. \A k \in 1 .. n : b \in Present(txns[k].nodes) => k = 1
    <3>1. ASSUME NEW k \in 1 .. n, b \in Present(txns[k].nodes), k # 1 PROVE FALSE
      <4>1. k - 1 \in 1 .. n - 1 /\ L[k - 1] = txns[k]
        BY <1>1, <1>2, <3>1
      <4>2. QED
        BY <1>4, <3>1, <4>1
    <3>2. QED
      BY <3>1
  <2>3. CASE b \in Present(txns[1].nodes)
    <3>1. \A k \in 1 .. n : b \in Present(txns[k].nodes) => k <= 1
      BY <2>2
    <3>2. Newest(txns, b, disk) = txns[1].nodes[b].data
      BY <1>1, <1>2, <2>3, <3>1, NewestIs
    <3>3. QED
      BY <1>1, <2>1, <2>3, <3>2
  <2>4. CASE b \notin Present(txns[1].nodes)
    <3>1. \A k \in DOMAIN txns : b \notin Present(txns[k].nodes)
      BY <1>1, <2>2, <2>4
    <3>2. Newest(txns, b, disk) = disk
      BY <3>1, NewestNone
    <3>3. QED
      BY <1>1, <2>1, <2>4, <3>2
  <2>5. QED
    BY <2>3, <2>4
<1>5. QED
  <2> HIDE DEF under
  <2>1. Newest(txns, b, disk) = Newest(L, b, under)
    <3>1. L \in Seq(Committed) /\ DOMAIN L = 1 .. n - 1
      BY <1>1
    <3>2. \/ \A k \in DOMAIN L : b \notin Present(L[k].nodes)
          \/ \E i \in DOMAIN L :
               /\ b \in Present(L[i].nodes)
               /\ \A k \in DOMAIN L : b \in Present(L[k].nodes) => k <= i
      BY <3>1, NewestCases
    <3>3. QED
      BY <3>1, <3>2, <1>3, <1>4
  <2>2. QED
    BY <2>1 DEF L, under

-----------------------------------------------------------------------------
(* Type correctness. *)

(* What the steps need besides the types: a client inside an operation has  *)
(* its number, one inside write_data its block, only data blocks are        *)
(* queued, and a checkpoint knows where to go on.                           *)
CallsSound ==
  /\ \A c \in Clients :
       /\ client[c].pc \in {"starting", "running", "writing"} => client[c].op \in Ops
       /\ client[c].pc = "writing" => client[c].block \in Data
  /\ \A i \in DOMAIN wb.queue : wb.queue[i].block \in Data
  /\ wb.pc = "write" => wb.entry.block \in Data
  /\ commit.pc = "ckwrite" => commit.caller # "none"
  /\ journal.next_sequence >= 1

TypeInv == TypeOK /\ CallsSound

(* The content of a node and of a block as a read returns it.               *)
LEMMA NodesTyped == NoNodes \in Nodes
BY DEF NoNodes, NoNode, Nodes, Node

LEMMA OpsInTyped ==
  ASSUME NEW nodes \in Nodes
  PROVE  OpsIn(nodes) \subseteq Ops /\ Present(nodes) \subseteq Blocks
BY DEF OpsIn, Present, Nodes, Node

LEMMA InitTyped == Init => TypeInv
<1> SUFFICES ASSUME Init PROVE TypeInv
  OBVIOUS
<1>1. commit \in CommitState
  BY NodesTyped DEF Init, NoCommit, NoTxn, Committed, CommitPcs, CommitState
<1>2. staged \in Nodes /\ ckpt \in Seq(Committed)
  BY NodesTyped DEF Init
<1>3. client \in [Clients -> ClientState]
  BY DEF Init, NoClient, ClientState
<1>4. wb \in WbState
  BY DEF Init, NoEntry, WbState
<1>5. mgr \in MgrState
  <2>1. mgr \in [mode : Modes, freezing : {FALSE}, commit_requested : {FALSE},
                 shutdown : {FALSE}, generation_seq : {1}, completed_through : {0},
                 n_ordered : {0}]
    BY DEF Init
  <2>2. PICK m \in Modes :
          mgr = [mode |-> m, freezing |-> FALSE, commit_requested |-> FALSE,
                 shutdown |-> FALSE, generation_seq |-> 1, completed_through |-> 0,
                 n_ordered |-> 0]
    BY <2>1
  <2>3. QED
    BY <2>2 DEF MgrState
<1>6. issued \in [ops : 0..MaxOps, syncs : 0..MaxSyncs]
  BY TxnAssumption DEF Init
<1>7. TypeOK
  BY <1>1, <1>2, <1>3, <1>4, <1>5, <1>6 DEF TypeOK, Init
<1>8. CallsSound
  BY DEF CallsSound, Init, NoClient, NoCommit
<1>9. QED
  BY <1>7, <1>8 DEF TypeInv

LEMMA ReadTyped ==
  ASSUME TypeOK, NEW b \in Blocks
  PROVE  /\ find_checkpointed(b) \in SUBSET Ops
         /\ logfs_txn_read_block(b) \in SUBSET Ops
<1>1. ckpt \in Seq(Committed) /\ home[b] \in SUBSET Ops
  BY DEF TypeOK
<1>2. \A i \in DOMAIN ckpt : ckpt[i].nodes[b].data \in SUBSET Ops
  <2>1. \A i \in DOMAIN ckpt : ckpt[i] \in Committed
    BY <1>1
  <2>2. QED
    BY <2>1 DEF Committed, Nodes, Node
<1>3. \/ find_checkpointed(b) = home[b]
      \/ \E i \in DOMAIN ckpt : find_checkpointed(b) = ckpt[i].nodes[b].data
  BY <1>1, NewestCases, NewestNone, NewestIs DEF find_checkpointed
<1>4. find_checkpointed(b) \in SUBSET Ops
  BY <1>1, <1>2, <1>3
<1>5. QED
  BY <1>4 DEF logfs_txn_read_block, TypeOK, Nodes, Node

(* Taking a generation: the freeze barrier has let all handles drop.        *)
LEMMA FlattenTyped ==
  ASSUME TypeOK, Flatten
  PROVE  /\ mgr' \in MgrState /\ commit' \in CommitState /\ staged' \in Nodes
         /\ asleep' = {} /\ commit'.pc = "ordered"
<1>1. commit \in CommitState /\ mgr \in MgrState /\ staged \in Nodes
  BY DEF TypeOK
<1>2. commit' \in CommitState /\ commit'.pc = "ordered"
  BY <1>1 DEF Flatten, CommitState, CommitPcs, MgrState
<1>3. mgr' \in MgrState
  BY <1>1 DEF Flatten, MgrState
<1>4. QED
  BY <1>2, <1>3, NodesTyped DEF Flatten

(* The failed assertion leaves every thread dead.                           *)
LEMMA AbortTyped ==
  ASSUME TypeInv, Abort
  PROVE  TypeInv'
BY NodesTyped DEF Abort, TypeInv, TypeOK, CallsSound, ClientState, CommitState, WbState,
   NoClient, NoCommit, NoTxn, Committed, CommitPcs, history

LEMMA StepTyped == TypeInv /\ [Next]_vars => TypeInv'
<1> SUFFICES ASSUME TypeInv, [Next]_vars PROVE TypeInv'
  OBVIOUS
<1> USE DEF TypeInv, history
<1>1. ASSUME CommitCycle PROVE TypeInv'
  <2>1. CASE Running = {}
    <3>1. Flatten
      BY <1>1, <2>1 DEF CommitCycle
    <3>2. QED
      BY <1>1, <3>1, FlattenTyped DEF CommitCycle, TypeOK, CallsSound
  <2>2. CASE Running # {}
    <3>1. mgr' \in MgrState
      BY <1>1, <2>2 DEF CommitCycle, MgrState, TypeOK
    <3>2. commit' \in CommitState /\ commit'.pc = "freeze"
      BY <1>1, <2>2 DEF CommitCycle, CommitState, CommitPcs, TypeOK
    <3>3. TypeOK'
      BY <1>1, <2>2, <3>1, <3>2 DEF CommitCycle, TypeOK
    <3>4. CallsSound'
      BY <1>1, <2>2, <3>2 DEF CommitCycle, CallsSound
    <3>5. QED
      BY <3>3, <3>4
  <2>3. QED
    BY <2>1, <2>2
<1>2. ASSUME FreezeWake PROVE TypeInv'
  <2>1. CASE Running = {}
    <3>1. Flatten
      BY <1>2, <2>1 DEF FreezeWake
    <3>2. QED
      BY <1>2, <3>1, FlattenTyped DEF FreezeWake, TypeOK, CallsSound
  <2>2. CASE Running # {}
    BY <1>2, <2>2 DEF FreezeWake, TypeOK, CallsSound
  <2>3. QED
    BY <2>1, <2>2
<1>3. ASSUME OrderedFlush PROVE TypeInv'
  BY <1>3, NodesTyped DEF TypeOK, CallsSound, OrderedFlush, StillVolatile, CommitState, CommitPcs
<1>4. ASSUME JournalCommit PROVE TypeInv'
  <2>1. commit' \in CommitState /\ commit'.pc = "publish"
    BY <1>4 DEF JournalCommit, CommitState, CommitPcs, TypeOK
  <2>2. durable' \in [Blocks -> SUBSET Ops]
    BY <1>4 DEF JournalCommit, CommitState, TypeOK, Nodes, Node
  <2>3. stable' \subseteq Ops
    <3>1. commit.nodes \in Nodes
      BY DEF TypeOK, CommitState
    <3>2. QED
      BY <1>4, <3>1, OpsInTyped DEF JournalCommit, TypeOK
  <2>4. journal' \in [next_sequence : Nat] /\ journal'.next_sequence >= 1
    BY <1>4 DEF JournalCommit, TypeOK, CallsSound
  <2>5. TypeOK'
    BY <1>4, <2>1, <2>2, <2>3, <2>4 DEF JournalCommit, StillVolatile, TypeOK
  <2>6. CallsSound'
    BY <1>4, <2>1, <2>4 DEF JournalCommit, CallsSound
  <2>7. QED
    BY <2>5, <2>6
<1>5. ASSUME JournalCommitFails PROVE TypeInv'
  BY <1>5, NodesTyped DEF TypeOK, CallsSound, JournalCommitFails, CommitState, CommitPcs
<1>6. ASSUME Publish PROVE TypeInv'
  <2>1. commit' \in CommitState /\ commit'.pc = "lag"
    BY <1>6, NodesTyped DEF Publish, NoCommit, NoTxn, CommitState, CommitPcs, Committed
  <2>2. mgr' \in MgrState
    BY <1>6 DEF Publish, MgrState, TypeOK
  <2>3. ckpt' \in Seq(Committed)
    <3>1. [sequence |-> journal.next_sequence - 1, nodes |-> commit.nodes] \in Committed
      BY DEF TypeOK, CallsSound, CommitState, Committed
    <3>2. QED
      BY <1>6, <3>1 DEF Publish, TypeOK
  <2>4. TypeOK'
    BY <1>6, <2>1, <2>2, <2>3 DEF Publish, TypeOK
  <2>5. CallsSound'
    BY <1>6, <2>1 DEF Publish, CallsSound
  <2>6. QED
    BY <2>4, <2>5
<1>7. ASSUME EmptyCycle PROVE TypeInv'
  BY <1>7, NodesTyped DEF TypeOK, CallsSound, EmptyCycle, NoCommit, NoTxn, Committed, MgrState, CommitState, CommitPcs
<1>8. ASSUME CheckpointEnd PROVE TypeInv'
  BY <1>8, NodesTyped DEF TypeOK, CallsSound, CheckpointEnd, StillVolatile, NoTxn, Committed, CommitState, CommitPcs
<1>9. ASSUME CycleEnd PROVE TypeInv'
  BY <1>9, NodesTyped DEF TypeOK, CallsSound, CycleEnd, CommitState, CommitPcs
<1>10. ASSUME CommitThreadStops PROVE TypeInv'
  <2>1. commit' \in CommitState /\ commit'.pc \in {"drain", "done"} /\ commit.pc # "freeze"
    BY <1>10 DEF CommitThreadStops, CommitState, CommitPcs, TypeOK
  <2>2. TypeOK'
    BY <1>10, <2>1 DEF CommitThreadStops, TypeOK
  <2>3. CallsSound'
    BY <1>10, <2>1 DEF CommitThreadStops, CallsSound
  <2>4. QED
    BY <2>2, <2>3
<1>11. ASSUME NEW caller \in {"reserve", "lag", "drain"}, CheckpointOldest(caller) PROVE TypeInv'
  <2>1. Head(ckpt) \in Committed /\ Tail(ckpt) \in Seq(Committed)
    BY <1>11 DEF CheckpointOldest, TypeOK
  <2>2. commit' \in CommitState /\ commit'.pc = "ckwrite" /\ commit'.caller = caller
    BY <1>11, <2>1 DEF CheckpointOldest, CommitState, CommitPcs, TypeOK
  <2>3. TypeOK'
    BY <1>11, <2>1, <2>2 DEF CheckpointOldest, TypeOK
  <2>4. CallsSound'
    BY <1>11, <2>2 DEF CheckpointOldest, CallsSound
  <2>5. QED
    BY <2>3, <2>4
<1>12. ASSUME NEW b \in Blocks, CheckpointWrite(b) PROVE TypeInv'
  BY <1>12, NodesTyped DEF TypeOK, CallsSound, CheckpointWrite, Committed, Nodes, Node, NoNode, CommitState, CommitPcs
<1>13. ASSUME WritebackPop PROVE TypeInv'
  <2>1. wb.queue \in Seq(Queued) /\ wb.queue # <<>>
    BY <1>13 DEF WritebackPop, TypeOK, WbState
  <2>2. /\ Head(wb.queue) = wb.queue[1] /\ wb.queue[1] \in Queued
        /\ Tail(wb.queue) \in Seq(Queued)
        /\ 1 \in DOMAIN wb.queue
        /\ \A i \in DOMAIN Tail(wb.queue) :
             i + 1 \in DOMAIN wb.queue /\ Tail(wb.queue)[i] = wb.queue[i + 1]
    BY <2>1
  <2>3. wb' \in WbState /\ wb'.queue = Tail(wb.queue) /\ wb'.entry = Head(wb.queue)
    BY <1>13, <2>2 DEF WritebackPop, TypeOK, WbState, Queued
  <2>4. TypeOK'
    BY <1>13, <2>3 DEF WritebackPop, TypeOK
  <2>5. CallsSound'
    BY <1>13, <2>2, <2>3 DEF WritebackPop, CallsSound
  <2>6. QED
    BY <2>4, <2>5
<1>14. ASSUME WritebackWrite PROVE TypeInv'
  BY <1>14, NodesTyped DEF TypeOK, CallsSound, WritebackWrite, WbState, NoEntry, Blocks
<1>15. ASSUME WritebackStops PROVE TypeInv'
  BY <1>15, NodesTyped DEF TypeOK, CallsSound, WritebackStops, WbState, StillVolatile
<1>16. ASSUME NEW c \in Clients, logfs_txn_start(c) PROVE TypeInv'
  <2> DEFINE op == IF client[c].pc = "idle" THEN issued.ops + 1 ELSE client[c].op
  <2>1. op \in Ops /\ issued' \in [ops : 0..MaxOps, syncs : 0..MaxSyncs]
    <3>1. CASE client[c].pc = "idle"
      <4>1. issued.ops < MaxOps /\ issued' = [issued EXCEPT !.ops = @ + 1]
        BY <1>16, <3>1 DEF logfs_txn_start
      <4>2. issued \in [ops : 0..MaxOps, syncs : 0..MaxSyncs] /\ MaxOps \in Nat
        BY TxnAssumption DEF TypeOK
      <4>3. QED
        BY <3>1, <4>1, <4>2 DEF Ops
    <3>2. CASE client[c].pc # "idle"
      BY <1>16, <3>2 DEF logfs_txn_start, TypeOK, CallsSound
    <3>3. QED
      BY <3>1, <3>2
  <2>2. client[c] \in ClientState /\ mgr.generation_seq \in Nat
    BY DEF TypeOK, MgrState
  <2> HIDE DEF op
  <2>3. CASE mgr.freezing
    <3>1. client' = [client EXCEPT ![c].pc = "starting", ![c].op = op]
      BY <1>16, <2>3 DEF logfs_txn_start, op
    <3>2. client' \in [Clients -> ClientState]
      BY <2>1, <2>2, <3>1 DEF TypeOK, ClientState
    <3>3. /\ client'[c].pc = "starting" /\ client'[c].op = op
          /\ \A d \in Clients \ {c} : client'[d] = client[d]
      BY <3>1 DEF TypeOK, ClientState
    <3>4. TypeOK'
      BY <1>16, <2>1, <2>3, <3>2, <3>3 DEF logfs_txn_start, TypeOK
    <3>5. CallsSound'
      BY <1>16, <2>1, <3>3 DEF logfs_txn_start, CallsSound
    <3>6. QED
      BY <3>4, <3>5
  <2>4. CASE ~mgr.freezing
    <3>1. client' = [client EXCEPT ![c].pc = "running", ![c].op = op,
                                   ![c].txn_id = mgr.generation_seq]
      BY <1>16, <2>4 DEF logfs_txn_start, op
    <3>2. client' \in [Clients -> ClientState]
      BY <2>1, <2>2, <3>1 DEF TypeOK, ClientState
    <3>3. /\ client'[c].pc = "running" /\ client'[c].op = op
          /\ \A d \in Clients \ {c} : client'[d] = client[d]
      BY <3>1 DEF TypeOK, ClientState
    <3>4. c \notin asleep
      BY <1>16, TxnAssumption DEF logfs_txn_start, TypeOK
    <3>5. TypeOK'
      BY <1>16, <2>1, <2>4, <3>2, <3>3, <3>4 DEF logfs_txn_start, TypeOK
    <3>6. CallsSound'
      BY <1>16, <2>1, <3>3 DEF logfs_txn_start, CallsSound
    <3>7. QED
      BY <3>5, <3>6
  <2>5. QED
    BY <2>3, <2>4
<1>17. ASSUME NEW c \in Clients, logfs_txn_write_data(c) PROVE TypeInv'
  <2> DEFINE b == client[c].block
             data == client[c].buf \cup {client[c].op}
  <2>1. /\ client[c] \in ClientState /\ client[c].pc = "writing"
        /\ b \in Data /\ b \in Blocks /\ data \in SUBSET Ops /\ client[c].op \in Ops
    BY <1>17 DEF logfs_txn_write_data, TypeOK, CallsSound, ClientState, Blocks
  <2>2. CASE mgr.mode = "journal" /\ AssertionFails(c)
    BY <1>17, <2>2, AbortTyped DEF logfs_txn_write_data, TypeInv
  <2>3. CASE ~(mgr.mode = "journal" /\ AssertionFails(c))
    <3>1. /\ client' = [client EXCEPT ![c].pc = "running"]
          /\ truth' = [truth EXCEPT ![b] = @ \cup {client[c].op}]
          /\ written' = [written EXCEPT ![b] = data]
          /\ UNCHANGED <<ckpt, asleep, commit, journal, issued, durable, stable>>
      BY <1>17, <2>3 DEF logfs_txn_write_data
    <3>2. client' \in [Clients -> ClientState]
      BY <2>1, <3>1 DEF TypeOK, ClientState
    <3>3. truth' \in [Blocks -> SUBSET Ops] /\ written' \in [Blocks -> SUBSET Ops]
      BY <2>1, <3>1 DEF TypeOK
    <3>4. /\ staged' \in Nodes /\ home' \in [Blocks -> SUBSET Ops] /\ mgr' \in MgrState
          /\ wb' \in WbState /\ volatile' \subseteq Ops \X Blocks
          /\ \A i \in DOMAIN wb'.queue : wb'.queue[i].block \in Data
          /\ wb'.pc = wb.pc /\ wb'.entry = wb.entry
      <4> HIDE DEF b, data
      <4>1. CASE mgr.mode = "journal"
        <5>1. /\ staged' = [staged EXCEPT ![b] = [data |-> data, ops |-> @.ops \cup {client[c].op}]]
              /\ UNCHANGED <<mgr, home, wb, volatile>>
          BY <1>17, <2>3, <4>1 DEF logfs_txn_write_data, Stage, b, data
        <5>2. staged' \in Nodes
          BY <2>1, <5>1 DEF TypeOK, Nodes, Node
        <5>3. QED
          BY <5>1, <5>2 DEF TypeOK, CallsSound
      <4>2. CASE mgr.mode = "ordered"
        BY <1>17, <2>1, <2>3, <4>2 DEF logfs_txn_write_data, TypeOK, CallsSound, MgrState, b, data
      <4>3. CASE mgr.mode = "writeback"
        <5>1. /\ wb' = [wb EXCEPT !.queue = Append(@, [block |-> b, data |-> data])]
              /\ volatile' = volatile \cup {<<client[c].op, b>>}
              /\ UNCHANGED <<mgr, staged, home>>
          BY <1>17, <2>3, <4>3 DEF logfs_txn_write_data, writeback_queue_push, b, data
        <5>2. wb.queue \in Seq(Queued) /\ [block |-> b, data |-> data] \in Queued
          BY <2>1 DEF TypeOK, WbState, Queued
        <5>3. /\ wb' \in WbState /\ wb'.pc = wb.pc /\ wb'.entry = wb.entry
              /\ wb'.queue = Append(wb.queue, [block |-> b, data |-> data])
          <6>1. Append(wb.queue, [block |-> b, data |-> data]) \in Seq(Queued)
            BY <5>2
          <6>2. QED
            BY <5>1, <6>1 DEF TypeOK, WbState
        <5>4. \A i \in DOMAIN wb'.queue : wb'.queue[i].block \in Data
          BY <2>1, <5>2, <5>3 DEF CallsSound
        <5>5. QED
          BY <2>1, <5>1, <5>3, <5>4 DEF TypeOK
      <4>4. QED
        BY <4>1, <4>2, <4>3, TxnAssumption DEF TypeOK, MgrState
    <3>5. /\ client'[c].pc = "running" /\ client'[c].op = client[c].op
          /\ \A d \in Clients \ {c} : client'[d] = client[d]
      BY <3>1 DEF TypeOK, ClientState
    <3>6. TypeOK'
      BY <2>1, <3>1, <3>2, <3>3, <3>4, <3>5 DEF TypeOK
    <3>7. CallsSound'
      BY <2>1, <3>1, <3>4, <3>5 DEF CallsSound
    <3>8. QED
      BY <3>6, <3>7
  <2>4. QED
    BY <2>2, <2>3
<1>18. ASSUME NEW c \in Clients, logfs_txn_stop(c) PROVE TypeInv'
  BY <1>18, NodesTyped DEF TypeOK, CallsSound, logfs_txn_stop, NoClient, ClientState
<1>19. ASSUME NEW c \in Clients, SyncWake(c) PROVE TypeInv'
  <2>1. CASE mgr.completed_through < client[c].target /\ ~mgr.shutdown
    BY <1>19, <2>1 DEF SyncWake, TypeOK, CallsSound
  <2>2. CASE ~(mgr.completed_through < client[c].target /\ ~mgr.shutdown)
    <3>1. client' \in [Clients -> ClientState]
      <4>1. client' = [client EXCEPT ![c].pc = "synced"]
        BY <1>19, <2>2 DEF SyncWake
      <4>2. client[c] \in ClientState /\ client \in [Clients -> ClientState]
        BY DEF TypeOK
      <4>3. QED
        BY <4>1, <4>2 DEF ClientState
    <3>2. client'[c].pc = "synced" /\ \A d \in Clients \ {c} : client'[d] = client[d]
      BY <1>19, <2>2 DEF SyncWake, TypeOK, ClientState
    <3>3. TypeOK'
      BY <1>19, <2>2, <3>1, <3>2 DEF SyncWake, TypeOK
    <3>4. CallsSound'
      BY <1>19, <2>2, <3>1, <3>2 DEF SyncWake, CallsSound
    <3>5. QED
      BY <3>3, <3>4
  <2>3. QED
    BY <2>1, <2>2
<1>20. ASSUME NEW c \in Clients, SyncReturn(c) PROVE TypeInv'
  BY <1>20, NodesTyped DEF TypeOK, CallsSound, SyncReturn, NoClient, ClientState
<1>21. ASSUME NEW c \in Clients, logfs_txn_commit_sync(c) PROVE TypeInv'
  <2>1. client[c] \in ClientState /\ mgr.generation_seq \in Nat /\ Finished \in SUBSET Ops
    <3>1. commit.nodes \in Nodes /\ staged \in Nodes
      BY DEF TypeOK, CommitState
    <3>2. Finished \in SUBSET Ops
      BY <3>1, OpsInTyped DEF Finished
    <3>3. QED
      BY <3>2 DEF TypeOK, MgrState
  <2> DEFINE wait == mgr.completed_through < mgr.generation_seq
  <2> HIDE DEF wait
  <2>2. /\ client' = [client EXCEPT ![c].pc = IF wait THEN "syncing" ELSE "synced",
                                 ![c].target = mgr.generation_seq,
                                 ![c].need = Finished]
        /\ asleep' = IF wait THEN {c} ELSE {}
    BY <1>21 DEF logfs_txn_commit_sync, wait
  <2>3. client' \in [Clients -> ClientState]
    BY <2>1, <2>2 DEF TypeOK, ClientState
  <2>4. /\ client'[c].pc = IF wait THEN "syncing" ELSE "synced"
        /\ \A d \in Clients \ {c} : client'[d] = client[d]
    BY <2>2 DEF TypeOK, ClientState
  <2>5. mgr' \in MgrState
    BY <1>21 DEF logfs_txn_commit_sync, TypeOK, MgrState
  <2>6. issued' \in [ops : 0..MaxOps, syncs : 0..MaxSyncs]
    BY <1>21, TxnAssumption DEF logfs_txn_commit_sync, TypeOK
  <2>7. TypeOK'
    BY <1>21, <2>2, <2>3, <2>4, <2>5, <2>6 DEF logfs_txn_commit_sync, TypeOK
  <2>8. CallsSound'
    <3>1. \A d \in Clients : client'[d].pc \in {"starting", "running", "writing"} => client'[d] = client[d]
      BY <2>4
    <3>2. UNCHANGED <<wb, commit, journal>>
      BY <1>21 DEF logfs_txn_commit_sync
    <3>3. QED
      BY <3>1, <3>2 DEF CallsSound
  <2>9. QED
    BY <2>7, <2>8
<1>22. ASSUME NEW c \in Clients, NEW b \in Meta, logfs_txn_get_write_access(c, b) PROVE TypeInv'
  <2>1. b \in Blocks /\ client[c].op \in Ops /\ logfs_txn_read_block(b) \in SUBSET Ops
    BY <1>22, ReadTyped DEF logfs_txn_get_write_access, CallsSound, Blocks
  <2>2. CASE AssertionFails(c)
    BY <1>22, <2>2, AbortTyped DEF logfs_txn_get_write_access, TypeInv
  <2>3. CASE ~AssertionFails(c)
    <3>1. staged' \in Nodes
      BY <1>22, <2>1, <2>3 DEF logfs_txn_get_write_access, Stage, TypeOK, Nodes, Node
    <3>2. truth' = [truth EXCEPT ![b] = @ \cup {client[c].op}]
      BY <1>22, <2>3 DEF logfs_txn_get_write_access
    <3>3. truth' \in [Blocks -> SUBSET Ops]
      BY <2>1, <3>2 DEF TypeOK
    <3>4. QED
      BY <1>22, <2>3, <3>1, <3>3 DEF logfs_txn_get_write_access, TypeOK, CallsSound
  <2>4. QED
    BY <2>2, <2>3
<1>23. ASSUME NEW c \in Clients, NEW b \in Data, ReadData(c, b) PROVE TypeInv'
  <2>1. b \in Blocks /\ logfs_txn_read_block(b) \in SUBSET Ops /\ client[c] \in ClientState
    BY ReadTyped DEF TypeOK, Blocks
  <2>2. client' \in [Clients -> ClientState]
    BY <1>23, <2>1 DEF ReadData, TypeOK, ClientState
  <2>3. /\ client'[c].pc = "writing" /\ client'[c].block = b /\ client'[c].op = client[c].op
        /\ \A d \in Clients \ {c} : client'[d] = client[d]
    BY <1>23 DEF ReadData, TypeOK, ClientState
  <2>4. TypeOK'
    BY <1>23, <2>2, <2>3 DEF ReadData, TypeOK
  <2>5. CallsSound'
    BY <1>23, <2>2, <2>3 DEF ReadData, CallsSound
  <2>6. QED
    BY <2>4, <2>5
<1>24. ASSUME logfs_txnmgr_destroy PROVE TypeInv'
  <2>1. mgr' \in MgrState
    BY <1>24 DEF logfs_txnmgr_destroy, TypeOK, MgrState
  <2>2. QED
    BY <1>24, <2>1 DEF logfs_txnmgr_destroy, TypeOK, CallsSound
<1>25. ASSUME WritebackShutdown PROVE TypeInv'
  BY <1>25, NodesTyped DEF TypeOK, CallsSound, WritebackShutdown, WbState
<1>26. ASSUME UNCHANGED vars PROVE TypeInv'
  BY <1>26, NodesTyped DEF TypeOK, CallsSound, vars
<1>27. QED
  BY <1>1, <1>2, <1>3, <1>4, <1>5, <1>6, <1>7, <1>8, <1>9, <1>10, <1>11, <1>12, <1>13, <1>14, <1>15, <1>16, <1>17, <1>18, <1>19, <1>20, <1>21, <1>22, <1>23, <1>24, <1>25, <1>26 DEF Next, CommitThread, WritebackThread, InCall, Call

(* Every variable of the transaction manager keeps its type, and only      *)
(* clients inside a call and a freezing commit thread sleep (txn.c).        *)
THEOREM TypeCorrect == Spec => []TypeOK
<1>1. Init => TypeInv
  BY InitTyped
<1>2. TypeInv /\ [Next]_vars => TypeInv'
  BY StepTyped
<1>3. TypeInv => TypeOK
  BY DEF TypeInv
<1>4. QED
  BY <1>1, <1>2, <1>3, PTL DEF Spec
-----------------------------------------------------------------------------
(* Operation atomicity. *)

(* The operations in a generation that was taken for commit.                *)
Taken == OpsIn(commit.nodes) \cup OpsIn(commit.ck.nodes) \cup stable
         \cup UNION {OpsIn(ckpt[i].nodes) : i \in DOMAIN ckpt}

Active == {c \in Clients : client[c].pc \in {"starting", "running", "writing"}}

(* Operation numbers are never reused, so an operation that is under way    *)
(* is in the running generation or nowhere; one that waits in txn_start     *)
(* has not staged anything.                                                 *)
AtomicInv ==
  /\ \A c \in Active : /\ client[c].op \notin Taken
                       /\ client[c].op <= issued.ops
                       /\ client[c].pc = "starting" => client[c].op \notin OpsIn(staged)
                       /\ \A d \in Active : d # c => client[d].op # client[c].op
  /\ \A o \in Taken \cup OpsIn(staged) : o <= issued.ops

LEMMA NoNodesEmpty == OpsIn(NoNodes) = {} /\ Present(NoNodes) = {}
BY DEF OpsIn, Present, NoNodes, NoNode

(* A generation enters Taken only when the commit thread takes it, with no  *)
(* handle live; after that its operations only move on: into the journal,   *)
(* along the checkpoint list, to their home locations.                      *)
LEMMA TakenSteps ==
  ASSUME TypeInv, [Next]_vars
  PROVE  \/ Taken' \subseteq Taken
         \/ /\ Running = {} /\ Flatten
            /\ Taken' \subseteq Taken \cup OpsIn(staged)
            /\ UNCHANGED <<client, issued>>
<1> USE DEF history
<1> DEFINE Listed == UNION {OpsIn(ckpt[i].nodes) : i \in DOMAIN ckpt}
<1>1. ASSUME Flatten, UNCHANGED <<ckpt, stable>>
      PROVE  Taken' \subseteq Taken \cup OpsIn(staged)
  <2>1. commit'.nodes = staged /\ commit'.ck = commit.ck
    BY <1>1 DEF Flatten, TypeInv, TypeOK, CommitState
  <2>2. QED
    BY <1>1, <2>1 DEF Taken
<1>2. CASE CommitCycle
  <2>1. CASE Running = {}
    BY <1>1, <1>2, <2>1 DEF CommitCycle
  <2>2. CASE Running # {}
    <3>1. commit'.nodes = commit.nodes /\ commit'.ck = commit.ck
      BY <1>2, <2>2 DEF CommitCycle, TypeInv, TypeOK, CommitState
    <3>2. QED
      BY <1>2, <3>1 DEF CommitCycle, Taken
  <2>3. QED
    BY <2>1, <2>2
<1>3. CASE FreezeWake
  <2>1. CASE Running = {}
    BY <1>1, <1>3, <2>1 DEF FreezeWake
  <2>2. CASE Running # {}
    BY <1>3, <2>2 DEF FreezeWake, Taken
  <2>3. QED
    BY <2>1, <2>2
<1>4. CASE \/ OrderedFlush \/ JournalCommitFails \/ CycleEnd \/ CommitThreadStops
  <2>1. commit'.nodes = commit.nodes /\ commit'.ck = commit.ck /\ UNCHANGED <<ckpt, stable>>
    BY <1>4 DEF OrderedFlush, JournalCommitFails, CycleEnd, CommitThreadStops,
       TypeInv, TypeOK, CommitState
  <2>2. QED
    BY <2>1 DEF Taken
<1>5. CASE JournalCommit
  <2>1. /\ commit'.nodes = commit.nodes /\ commit'.ck = commit.ck /\ UNCHANGED ckpt
        /\ stable' = stable \cup OpsIn(commit.nodes)
    BY <1>5 DEF JournalCommit, TypeInv, TypeOK, CommitState
  <2>2. QED
    BY <2>1 DEF Taken
<1>6. CASE Publish
  <2> DEFINE t == [sequence |-> journal.next_sequence - 1, nodes |-> commit.nodes]
  <2>1. commit'.nodes = NoNodes /\ commit'.ck.nodes = NoNodes /\ UNCHANGED stable
    BY <1>6 DEF Publish, NoCommit, NoTxn
  <2>2. ckpt \in Seq(Committed) /\ t \in Committed
    BY DEF TypeInv, TypeOK, CallsSound, CommitState, Committed
  <2>3. Listed' \subseteq Listed \cup OpsIn(commit.nodes)
    <3>1. CASE ckpt' = ckpt
      BY <3>1
    <3>2. CASE ckpt' = Append(ckpt, t)
      <4>1. \A i \in DOMAIN ckpt' :
              \/ i \in DOMAIN ckpt /\ ckpt'[i] = ckpt[i]
              \/ ckpt'[i] = t
        BY <2>2, <3>2
      <4>2. QED
        BY <4>1
    <3>3. QED
      BY <1>6, <3>1, <3>2 DEF Publish
  <2>4. QED
    BY <2>1, <2>3, NoNodesEmpty DEF Taken
<1>7. CASE EmptyCycle
  <2>1. commit'.nodes = NoNodes /\ commit'.ck.nodes = NoNodes /\ UNCHANGED <<stable, ckpt>>
    BY <1>7 DEF EmptyCycle, NoCommit, NoTxn
  <2>2. QED
    BY <2>1, NoNodesEmpty DEF Taken
<1>8. CASE CheckpointEnd
  <2>1. /\ commit'.nodes = commit.nodes /\ commit'.ck.nodes = NoNodes
        /\ UNCHANGED <<stable, ckpt>>
    BY <1>8 DEF CheckpointEnd, NoTxn, TypeInv, TypeOK, CommitState
  <2>2. QED
    BY <2>1, NoNodesEmpty DEF Taken
<1>9. ASSUME NEW caller \in {"reserve", "lag", "drain"}, CheckpointOldest(caller)
      PROVE  Taken' \subseteq Taken
  <2>1. /\ commit'.nodes = commit.nodes /\ commit'.ck = Head(ckpt)
        /\ ckpt' = Tail(ckpt) /\ ckpt # <<>> /\ UNCHANGED stable
    BY <1>9 DEF CheckpointOldest, TypeInv, TypeOK, CommitState
  <2>2. ckpt \in Seq(Committed)
    BY DEF TypeInv, TypeOK
  <2>3. /\ 1 \in DOMAIN ckpt /\ Head(ckpt) = ckpt[1]
        /\ \A i \in DOMAIN ckpt' : i + 1 \in DOMAIN ckpt /\ ckpt'[i] = ckpt[i + 1]
    BY <2>1, <2>2
  <2>4. Listed' \subseteq Listed /\ OpsIn(commit'.ck.nodes) \subseteq Listed
    BY <2>1, <2>3
  <2>5. QED
    BY <2>1, <2>4 DEF Taken
<1>10. ASSUME NEW b \in Blocks, CheckpointWrite(b)
       PROVE  Taken' \subseteq Taken
  <2>1. /\ commit'.nodes = commit.nodes /\ UNCHANGED <<stable, ckpt>>
        /\ commit'.ck.nodes = [commit.ck.nodes EXCEPT ![b] = NoNode]
    BY <1>10 DEF CheckpointWrite, TypeInv, TypeOK, CommitState, Committed
  <2>2. commit.ck.nodes \in Nodes
    BY DEF TypeInv, TypeOK, CommitState, Committed
  <2>3. OpsIn(commit'.ck.nodes) \subseteq OpsIn(commit.ck.nodes)
    BY <2>1, <2>2 DEF OpsIn, Nodes, Node, NoNode
  <2>4. QED
    BY <2>1, <2>3 DEF Taken
<1>11. CASE Abort
  <2>1. commit'.nodes = NoNodes /\ commit'.ck.nodes = NoNodes /\ UNCHANGED <<stable, ckpt>>
    BY <1>11 DEF Abort, NoCommit, NoTxn
  <2>2. QED
    BY <2>1, NoNodesEmpty DEF Taken
<1>12. CASE UNCHANGED <<commit, ckpt, stable>>
  BY <1>12 DEF Taken
<1>13. ASSUME NEW c \in Clients, InCall(c) \/ Call(c)
       PROVE  Abort \/ UNCHANGED <<commit, ckpt, stable>>
  BY <1>13 DEF InCall, Call, logfs_txn_start, logfs_txn_write_data, logfs_txn_stop, SyncWake,
     SyncReturn, logfs_txn_commit_sync, logfs_txn_get_write_access, ReadData
<1>14. CASE WritebackThread \/ logfs_txnmgr_destroy \/ WritebackShutdown \/ UNCHANGED vars
  BY <1>12, <1>14 DEF WritebackThread, WritebackPop, WritebackWrite, WritebackStops,
     logfs_txnmgr_destroy, WritebackShutdown, vars
<1>15. QED
  BY <1>2, <1>3, <1>4, <1>5, <1>6, <1>7, <1>8, <1>9, <1>10, <1>11, <1>12, <1>13, <1>14
  DEF Next, CommitThread

(* find_or_create_dirty adds one operation to the staging table.         *)
LEMMA StageOps ==
  ASSUME TypeOK, NEW b \in Blocks, NEW data, NEW op, Stage(b, data, op)
  PROVE  /\ OpsIn(staged') = OpsIn(staged) \cup {op}
         /\ Present(staged') = Present(staged) \cup {b}
         /\ staged'[b].data = data
         /\ \A d \in Blocks \ {b} : staged'[d] = staged[d]
<1>1. /\ \A d \in Blocks \ {b} : staged'[d] = staged[d]
      /\ staged'[b] = [data |-> data, ops |-> staged[b].ops \cup {op}]
  BY DEF Stage, TypeOK, Nodes
<1>2. staged'[b].data = data /\ staged'[b].ops = staged[b].ops \cup {op}
  BY <1>1
<1>3. QED
  BY <1>1, <1>2 DEF OpsIn, Present

LEMMA TakenTyped ==
  ASSUME TypeOK
  PROVE  Taken \subseteq Ops
<1>1. commit.nodes \in Nodes /\ commit.ck.nodes \in Nodes
  BY DEF TypeOK, CommitState, Committed
<1>2. \A i \in DOMAIN ckpt : ckpt[i].nodes \in Nodes
  <2>1. \A i \in DOMAIN ckpt : ckpt[i] \in Committed
    BY DEF TypeOK
  <2>2. QED
    BY <2>1 DEF Committed
<1>3. QED
  BY <1>1, <1>2, OpsInTyped DEF Taken, TypeOK

LEMMA AtomicInit == Init => AtomicInv
BY NoNodesEmpty DEF Init, AtomicInv, Active, Taken, NoClient, NoCommit, NoTxn

LEMMA AtomicStep == TypeInv /\ AtomicInv /\ [Next]_vars => AtomicInv'
<1> SUFFICES ASSUME TypeInv, AtomicInv, [Next]_vars PROVE AtomicInv'
  OBVIOUS
<1> USE DEF history
<1>1. ASSUME Flatten, Running = {}, UNCHANGED <<client, issued>>,
             Taken' \subseteq Taken \cup OpsIn(staged)
      PROVE  AtomicInv'
  <2>1. OpsIn(staged') = {}
    BY <1>1, NoNodesEmpty DEF Flatten
  <2>2. \A c \in Active : client[c].pc = "starting"
    BY <1>1 DEF Active, Running
  <2>3. QED
    BY <1>1, <2>1, <2>2 DEF AtomicInv, Active
<1>2. ASSUME Taken' \subseteq Taken, UNCHANGED issued, OpsIn(staged') \subseteq OpsIn(staged),
             \A c \in Clients : c \in Active' => /\ c \in Active /\ client'[c].op = client[c].op
                                                 /\ client'[c].pc = "starting" => client[c].pc = "starting"
      PROVE  AtomicInv'
  BY <1>2 DEF AtomicInv, Active
<1>3. CASE Taken' \subseteq Taken
  <2>1. CASE CommitThread
    <3>1. client' = client /\ issued' = issued
      BY <2>1 DEF CommitThread, CommitCycle, FreezeWake, OrderedFlush, JournalCommit,
         JournalCommitFails, Publish, EmptyCycle, CheckpointEnd, CycleEnd, CommitThreadStops,
         CheckpointOldest, CheckpointWrite
    <3>2. staged' = staged \/ staged' = NoNodes
      BY <2>1 DEF CommitThread, CommitCycle, FreezeWake, Flatten, OrderedFlush, JournalCommit,
         JournalCommitFails, Publish, EmptyCycle, CheckpointEnd, CycleEnd, CommitThreadStops,
         CheckpointOldest, CheckpointWrite
    <3>3. QED
      BY <1>2, <1>3, <3>1, <3>2, NoNodesEmpty DEF Active
  <2>2. CASE WritebackThread \/ logfs_txnmgr_destroy \/ WritebackShutdown \/ UNCHANGED vars
    <3>1. client' = client /\ issued' = issued /\ staged' = staged
      BY <2>2 DEF WritebackThread, WritebackPop, WritebackWrite, WritebackStops,
         logfs_txnmgr_destroy, WritebackShutdown, vars
    <3>2. QED
      BY <1>2, <1>3, <3>1 DEF Active
  <2>3. ASSUME NEW c \in Clients, logfs_txn_start(c) PROVE AtomicInv'
    <3> DEFINE op == IF client[c].pc = "idle" THEN issued.ops + 1 ELSE client[c].op
    <3>1. client[c].pc \in {"idle", "starting"} /\ staged' = staged
      BY <2>3 DEF logfs_txn_start
    <3>2. /\ client'[c].pc \in {"starting", "running"} /\ client'[c].op = op
          /\ \A d \in Clients \ {c} : client'[d] = client[d]
      BY <2>3 DEF logfs_txn_start, TypeInv, TypeOK, ClientState
    <3>3. CASE client[c].pc = "starting"
      <4>1. UNCHANGED issued
        BY <2>3, <3>3 DEF logfs_txn_start
      <4>2. QED
        BY <1>3, <3>1, <3>2, <3>3, <4>1 DEF AtomicInv, Active
    <3>4. CASE client[c].pc = "idle"
      <4>1. issued'.ops = issued.ops + 1 /\ op = issued.ops + 1 /\ issued.ops \in Nat
        BY <2>3, <3>4, TxnAssumption DEF logfs_txn_start, TypeInv, TypeOK
      <4>2. \A o \in Taken \cup OpsIn(staged) : o \in Ops /\ o <= issued.ops
        <5>1. \A o \in Taken : o \in Ops
          BY TakenTyped DEF TypeInv
        <5>2. \A o \in OpsIn(staged) : o \in Ops
          BY OpsInTyped DEF TypeInv, TypeOK
        <5>3. QED
          BY <5>1, <5>2 DEF AtomicInv
      <4>3. Ops \subseteq Int
        BY TxnAssumption DEF Ops
      <4>4. op \notin Taken \cup OpsIn(staged)
        BY <4>1, <4>2, <4>3
      <4>5. \A d \in Active : client[d].op \in Int /\ client[d].op <= issued.ops
        BY <4>3 DEF AtomicInv, Active, TypeInv, CallsSound
      <4>6. \A d \in Active : client[d].op # op /\ client[d].op <= op
        BY <4>1, <4>5
      <4>7. \A o \in Taken' \cup OpsIn(staged') : o <= issued'.ops
        <5>1. \A o \in Int : o <= issued.ops => o <= issued'.ops
          BY <4>1
        <5>2. Taken' \cup OpsIn(staged') \subseteq Taken \cup OpsIn(staged)
          BY <1>3, <3>1
        <5>3. QED
          BY <4>2, <4>3, <5>1, <5>2
      <4>8. \A d \in Clients \ {c} : d \in Active' <=> d \in Active
        BY <3>2 DEF Active
      <4>9. c \notin Active
        BY <3>4 DEF Active
      <4> HIDE DEF op
      <4>10. \A d \in Active' : /\ client'[d].op \notin Taken'
                                /\ client'[d].op <= issued'.ops
                                /\ client'[d].pc = "starting" => client'[d].op \notin OpsIn(staged')
        BY <1>3, <3>1, <3>2, <4>1, <4>4, <4>6, <4>8 DEF AtomicInv, Active
      <4>11. ASSUME NEW d \in Active', NEW e \in Active', e # d
             PROVE  client'[e].op # client'[d].op
        BY <3>2, <4>6, <4>8, <4>9, <4>11 DEF AtomicInv, Active
      <4>12. \A d \in Active' : \A e \in Active' : e # d => client'[e].op # client'[d].op
        BY <4>11
      <4>13. QED
        BY <4>7, <4>10, <4>12 DEF AtomicInv
    <3>5. QED
      BY <3>1, <3>3, <3>4
  <2>4. ASSUME NEW c \in Clients, NEW b \in Blocks, NEW data, Stage(b, data, client[c].op),
               client[c].pc \in {"running", "writing"}, UNCHANGED issued,
               \A d \in Clients : /\ client'[d].op = client[d].op
                                  /\ client'[d].pc = client[d].pc \/ (d = c /\ client'[d].pc = "running")
        PROVE  AtomicInv'
    <3>1. OpsIn(staged') = OpsIn(staged) \cup {client[c].op}
      BY <2>4, StageOps DEF TypeInv
    <3>2. c \in Active
      BY <2>4 DEF Active
    <3>3. QED
      BY <1>3, <2>4, <3>1, <3>2 DEF AtomicInv, Active
  <2>5. CASE Abort
    <3>1. Active' = {} /\ UNCHANGED <<staged, issued>>
      BY <2>5 DEF Abort, Active, NoClient
    <3>2. QED
      BY <1>3, <3>1 DEF AtomicInv
  <2>6. ASSUME NEW c \in Clients, logfs_txn_write_data(c) PROVE AtomicInv'
    <3>1. CASE mgr.mode = "journal" /\ AssertionFails(c)
      BY <2>5, <2>6, <3>1 DEF logfs_txn_write_data
    <3>2. CASE ~(mgr.mode = "journal" /\ AssertionFails(c))
      <4>1. /\ client[c].pc = "writing" /\ client'[c] = [client[c] EXCEPT !.pc = "running"]
            /\ \A d \in Clients \ {c} : client'[d] = client[d]
            /\ client[c].block \in Blocks
            /\ UNCHANGED issued
        BY <2>6, <3>2 DEF logfs_txn_write_data, TypeInv, TypeOK, CallsSound, Blocks
      <4>2. client'[c].pc = "running" /\ client'[c].op = client[c].op
        BY <4>1 DEF TypeInv, TypeOK, ClientState
      <4>3. \/ Stage(client[c].block, client[c].buf \cup {client[c].op}, client[c].op)
            \/ UNCHANGED staged
        BY <2>6, <3>2 DEF logfs_txn_write_data
      <4>4. CASE UNCHANGED staged
        BY <1>2, <1>3, <4>1, <4>2, <4>4 DEF Active
      <4>5. CASE Stage(client[c].block, client[c].buf \cup {client[c].op}, client[c].op)
        <5> DEFINE data == client[c].buf \cup {client[c].op}
        <5> HIDE DEF data
        <5>1. Stage(client[c].block, data, client[c].op)
          BY <4>5 DEF data
        <5>2. \A d \in Clients : /\ client'[d].op = client[d].op
                                 /\ client'[d].pc = client[d].pc \/ (d = c /\ client'[d].pc = "running")
          BY <4>1, <4>2
        <5>3. QED
          BY <2>4, <4>1, <5>1, <5>2
      <4>6. QED
        BY <4>3, <4>4, <4>5
    <3>3. QED
      BY <3>1, <3>2
  <2>7. ASSUME NEW c \in Clients, NEW b \in Meta, logfs_txn_get_write_access(c, b) PROVE AtomicInv'
    <3>1. CASE AssertionFails(c)
      BY <2>5, <2>7, <3>1 DEF logfs_txn_get_write_access
    <3>2. CASE ~AssertionFails(c)
      <4> DEFINE data == logfs_txn_read_block(b) \cup {client[c].op}
      <4>1. /\ Stage(b, data, client[c].op) /\ UNCHANGED <<client, issued>>
            /\ client[c].pc = "running" /\ b \in Blocks
        BY <2>7, <3>2 DEF logfs_txn_get_write_access, Blocks
      <4> HIDE DEF data
      <4>2. QED
        BY <2>4, <4>1
    <3>3. QED
      BY <3>1, <3>2
  <2>8. ASSUME NEW c \in Clients,
               \/ logfs_txn_stop(c) \/ SyncWake(c) \/ SyncReturn(c) \/ logfs_txn_commit_sync(c)
               \/ \E b \in Data : ReadData(c, b)
        PROVE  AtomicInv'
    <3>1. /\ \A d \in Clients \ {c} : client'[d] = client[d]
          /\ issued'.ops = issued.ops /\ UNCHANGED staged
      BY <2>8 DEF logfs_txn_stop, SyncWake, SyncReturn, logfs_txn_commit_sync, ReadData, TypeInv, TypeOK
    <3>2. \/ client'[c].pc \in {"idle", "syncing", "synced"}
          \/ client'[c].pc = "writing" /\ client[c].pc = "running" /\ client'[c].op = client[c].op
      <4>1. client \in [Clients -> ClientState]
        BY DEF TypeInv, TypeOK
      <4>2. CASE logfs_txn_stop(c) \/ SyncReturn(c)
        BY <4>1, <4>2 DEF logfs_txn_stop, SyncReturn, NoClient
      <4>3. CASE SyncWake(c)
        BY <4>1, <4>3 DEF SyncWake, ClientState
      <4>4. CASE logfs_txn_commit_sync(c)
        BY <4>1, <4>4 DEF logfs_txn_commit_sync, ClientState
      <4>5. ASSUME NEW b \in Data, ReadData(c, b)
            PROVE  client'[c].pc = "writing" /\ client[c].pc = "running" /\ client'[c].op = client[c].op
        BY <4>1, <4>5 DEF ReadData, ClientState
      <4>6. QED
        BY <2>8, <4>2, <4>3, <4>4, <4>5
    <3>3. \A d \in Clients : d \in Active' => /\ d \in Active /\ client'[d].op = client[d].op
                                              /\ client'[d].pc = "starting" => client[d].pc = "starting"
      BY <3>1, <3>2 DEF Active
    <3>4. QED
      BY <1>3, <3>1, <3>3 DEF AtomicInv, Active
  <2>9. QED
    BY <2>1, <2>2, <2>3, <2>6, <2>7, <2>8 DEF Next, InCall, Call
<1>4. QED
  BY <1>1, <1>3, TakenSteps

(* Operation atomicity (txn.c, the freeze barrier of logfs_txn_start,       *)
(* commit_thread_main and do_commit): a generation taken for commit, or     *)
(* committed, never holds a block of an operation that still has its        *)
(* handle, in every mode, with any overlap of operations and commits and    *)
(* with failing commits.                                                    *)
THEOREM OperationsNeverSplit == Spec => []NoSplitOperation
<1>1. Init => TypeInv /\ AtomicInv
  BY InitTyped, AtomicInit
<1>2. TypeInv /\ AtomicInv /\ [Next]_vars => TypeInv' /\ AtomicInv'
  BY StepTyped, AtomicStep
<1>3. AtomicInv => NoSplitOperation
  BY DEF AtomicInv, NoSplitOperation, Active, Running, Taken
<1>4. QED
  BY <1>1, <1>2, <1>3, PTL DEF Spec
-----------------------------------------------------------------------------
(* The life of a mount. *)

(* Unmount finds no call in progress and begins none; the commit thread     *)
(* leaves its loop only then, drains the list, and is gone before the       *)
(* writeback thread is told to stop, which it does with an empty queue.     *)
ShutdownInv ==
  /\ mgr.shutdown => \A c \in Clients : client[c].pc = "idle"
  /\ commit.pc \in {"drain", "done"} => mgr.shutdown
  /\ commit.pc = "ckwrite" /\ commit.caller = "drain" => mgr.shutdown
  /\ commit.pc = "done" => ckpt = <<>>
  /\ wb.shutdown => commit.pc = "done"
  /\ mgr.mode = "writeback" /\ wb.pc = "done" => wb.queue = <<>> /\ wb.shutdown

LEMMA MgrInit ==
  ASSUME Init
  PROVE  /\ mgr.mode \in Modes /\ mgr.shutdown = FALSE /\ mgr.freezing = FALSE
         /\ mgr.commit_requested = FALSE /\ mgr.generation_seq = 1
         /\ mgr.completed_through = 0 /\ mgr.n_ordered = 0
<1>1. PICK m \in Modes :
        mgr = [mode |-> m, freezing |-> FALSE, commit_requested |-> FALSE,
               shutdown |-> FALSE, generation_seq |-> 1, completed_through |-> 0,
               n_ordered |-> 0]
  BY DEF Init
<1>2. QED
  BY <1>1

LEMMA ShutdownInit == Init => ShutdownInv
<1> SUFFICES ASSUME Init PROVE ShutdownInv
  OBVIOUS
<1>1. /\ commit.pc = "check" /\ wb.queue = <<>> /\ wb.shutdown = FALSE
      /\ mgr.mode = "writeback" => wb.pc = "wait"
  BY DEF Init, NoCommit
<1>2. QED
  BY <1>1, MgrInit DEF ShutdownInv

(* A client's step either is the failed assertion or leaves the two threads *)
(* of txn.c where they are, and a client outside a call begins one only     *)
(* before unmount.                                                          *)
LEMMA ClientSteps ==
  ASSUME TypeInv, NEW c \in Clients, InCall(c) \/ Call(c)
  PROVE  /\ client[c].pc = "idle" => ~mgr.shutdown
         /\ \/ Abort /\ c \in Running /\ AssertionFails(c)
            \/ /\ UNCHANGED <<commit, ckpt, journal, durable, stable>>
               /\ mgr'.shutdown = mgr.shutdown /\ mgr'.mode = mgr.mode
               /\ wb'.pc = wb.pc /\ wb'.shutdown = wb.shutdown /\ wb'.entry = wb.entry
               /\ \A d \in Clients \ {c} : client'[d] = client[d]
<1> USE DEF TypeInv, TypeOK, history
<1>1. CASE logfs_txn_start(c)
  BY <1>1 DEF logfs_txn_start
<1>2. CASE logfs_txn_stop(c) \/ SyncWake(c) \/ SyncReturn(c)
  BY <1>2 DEF logfs_txn_stop, SyncWake, SyncReturn
<1>3. CASE logfs_txn_commit_sync(c)
  BY <1>3 DEF logfs_txn_commit_sync, MgrState
<1>4. CASE logfs_txn_write_data(c)
  <2>1. CASE mgr.mode = "journal" /\ AssertionFails(c)
    BY <1>4, <2>1 DEF logfs_txn_write_data, Running
  <2>2. CASE ~(mgr.mode = "journal" /\ AssertionFails(c))
    <3>1. /\ UNCHANGED <<commit, ckpt, journal, durable, stable>>
          /\ \A d \in Clients \ {c} : client'[d] = client[d]
          /\ client[c].pc = "writing"
      BY <1>4, <2>2 DEF logfs_txn_write_data
    <3>2. mgr' = mgr \/ mgr' = [mgr EXCEPT !.n_ordered = @ + 1]
      BY <1>4, <2>2 DEF logfs_txn_write_data
    <3>3. \/ wb' = wb
          \/ wb' = [wb EXCEPT !.queue = Append(@, [block |-> client[c].block,
                                                   data |-> client[c].buf \cup {client[c].op}])]
      BY <1>4, <2>2 DEF logfs_txn_write_data, writeback_queue_push
    <3>4. wb'.pc = wb.pc /\ wb'.shutdown = wb.shutdown /\ wb'.entry = wb.entry
      BY <3>3 DEF WbState
    <3>5. mgr'.shutdown = mgr.shutdown /\ mgr'.mode = mgr.mode
      BY <3>2 DEF MgrState
    <3>6. QED
      BY <3>1, <3>4, <3>5
  <2>3. QED
    BY <2>1, <2>2
<1>5. ASSUME NEW b \in Meta, logfs_txn_get_write_access(c, b)
      PROVE  /\ client[c].pc = "running"
             /\ (Abort /\ AssertionFails(c)) \/ UNCHANGED <<mgr, ckpt, client, commit, journal, wb, durable, stable>>
  BY <1>5 DEF logfs_txn_get_write_access
<1>6. ASSUME NEW b \in Data, ReadData(c, b)
      PROVE  /\ client[c].pc = "running"
             /\ UNCHANGED <<mgr, ckpt, commit, journal, wb, durable, stable>>
             /\ \A d \in Clients \ {c} : client'[d] = client[d]
  BY <1>6 DEF ReadData
<1>7. CASE \E b \in Meta : logfs_txn_get_write_access(c, b)
  BY <1>5, <1>7 DEF Running
<1>8. CASE \E b \in Data : ReadData(c, b)
  BY <1>6, <1>8
<1>9. QED
  BY <1>1, <1>2, <1>3, <1>4, <1>7, <1>8 DEF InCall, Call

LEMMA ShutdownStep == TypeInv /\ ShutdownInv /\ [Next]_vars => ShutdownInv'
<1> SUFFICES ASSUME TypeInv, ShutdownInv, [Next]_vars PROVE ShutdownInv'
  OBVIOUS
<1> USE DEF history
<1>1. ASSUME NEW c \in Clients, InCall(c) \/ Call(c) PROVE ShutdownInv'
  <2>1. ~mgr.shutdown
    BY <1>1, ClientSteps DEF ShutdownInv, InCall, Call, logfs_txn_write_data, logfs_txn_stop, SyncWake,
       SyncReturn, logfs_txn_get_write_access, ReadData
  <2>2. CASE Abort
    <3>1. /\ mgr' = mgr /\ commit'.pc = "dead" /\ wb'.pc = "dead" /\ wb'.shutdown = wb.shutdown
      BY <2>2 DEF Abort, NoCommit, TypeInv, TypeOK, WbState
    <3>2. QED
      BY <2>1, <3>1 DEF ShutdownInv
  <2>3. CASE ~Abort
    <3>1. /\ UNCHANGED <<commit, ckpt>> /\ mgr'.shutdown = mgr.shutdown /\ mgr'.mode = mgr.mode
          /\ wb'.pc = wb.pc /\ wb'.shutdown = wb.shutdown
      BY <1>1, <2>3, ClientSteps
    <3>2. QED
      BY <2>1, <3>1 DEF ShutdownInv
  <2>4. QED
    BY <2>2, <2>3
<1>2. CASE CommitCycle \/ FreezeWake
  <2>1. /\ mgr'.shutdown = mgr.shutdown /\ mgr'.mode = mgr.mode /\ UNCHANGED <<client, wb>>
        /\ commit'.pc \in {"ordered", "freeze"} /\ commit.pc # "done"
    <3> USE DEF TypeInv, TypeOK, CommitState, MgrState
    <3>1. CASE Flatten
      BY <1>2, <3>1 DEF CommitCycle, FreezeWake, Flatten
    <3>2. CASE ~Flatten /\ CommitCycle
      BY <3>2 DEF CommitCycle
    <3>3. CASE ~Flatten /\ FreezeWake
      BY <3>3 DEF FreezeWake
    <3>4. QED
      BY <1>2, <3>1, <3>2, <3>3
  <2>2. QED
    BY <2>1 DEF ShutdownInv
<1>3. CASE OrderedFlush \/ JournalCommit \/ JournalCommitFails \/ CycleEnd
  <2>1. /\ UNCHANGED <<mgr, client, wb>>
        /\ commit'.pc \in {"reserve", "empty", "publish", "check"} /\ commit.pc # "done"
    BY <1>3 DEF OrderedFlush, JournalCommit, JournalCommitFails, CycleEnd, TypeInv, TypeOK, CommitState
  <2>2. QED
    BY <2>1 DEF ShutdownInv
<1>4. CASE Publish \/ EmptyCycle
  <2>1. /\ mgr'.shutdown = mgr.shutdown /\ mgr'.mode = mgr.mode /\ UNCHANGED <<client, wb>>
        /\ commit'.pc = "lag" /\ commit.pc # "done"
    BY <1>4 DEF Publish, EmptyCycle, NoCommit, TypeInv, TypeOK, MgrState
  <2>2. QED
    BY <2>1 DEF ShutdownInv
<1>5. ASSUME NEW caller \in {"reserve", "lag", "drain"}, CheckpointOldest(caller) PROVE ShutdownInv'
  <2>1. /\ UNCHANGED <<mgr, client, wb>> /\ commit.pc = caller
        /\ commit'.pc = "ckwrite" /\ commit'.caller = caller
    BY <1>5 DEF CheckpointOldest, TypeInv, TypeOK, CommitState
  <2>2. QED
    BY <2>1 DEF ShutdownInv
<1>6. ASSUME NEW b \in Blocks, CheckpointWrite(b) PROVE ShutdownInv'
  <2>1. /\ UNCHANGED <<mgr, client, wb, ckpt>> /\ commit.pc = "ckwrite"
        /\ commit'.pc = "ckwrite" /\ commit'.caller = commit.caller
    BY <1>6 DEF CheckpointWrite, TypeInv, TypeOK, CommitState
  <2>2. QED
    BY <2>1 DEF ShutdownInv
<1>7. CASE CheckpointEnd
  <2>1. /\ UNCHANGED <<mgr, client, wb, ckpt>> /\ commit.pc = "ckwrite"
        /\ commit'.pc = commit.caller /\ commit.caller \in {"reserve", "lag", "drain"}
    BY <1>7 DEF CheckpointEnd, TypeInv, TypeOK, CallsSound, CommitState
  <2>2. QED
    BY <2>1 DEF ShutdownInv
<1>8. CASE CommitThreadStops
  <2>1. /\ UNCHANGED <<mgr, client, wb, ckpt>> /\ commit.pc \in {"check", "drain"}
        /\ \/ commit'.pc = "drain" /\ mgr.shutdown
           \/ commit'.pc = "done" /\ ckpt = <<>> /\ commit.pc = "drain"
    BY <1>8 DEF CommitThreadStops, TypeInv, TypeOK, CommitState
  <2>2. QED
    BY <2>1 DEF ShutdownInv
<1>9. CASE WritebackThread \/ WritebackShutdown
  <2>1. UNCHANGED <<mgr, client, commit, ckpt>>
    BY <1>9 DEF WritebackThread, WritebackPop, WritebackWrite, WritebackStops, WritebackShutdown
  <2>2. wb'.shutdown => wb.shutdown \/ commit.pc = "done"
    BY <1>9 DEF WritebackThread, WritebackPop, WritebackWrite, WritebackStops, WritebackShutdown,
       TypeInv, TypeOK, WbState
  <2>3. wb'.pc = "done" => \/ wb' = [wb EXCEPT !.pc = "done"] /\ wb.shutdown /\ wb.queue = <<>>
                           \/ wb' = [wb EXCEPT !.shutdown = TRUE]
    BY <1>9 DEF WritebackThread, WritebackPop, WritebackWrite, WritebackStops, WritebackShutdown,
       TypeInv, TypeOK, WbState
  <2>4. mgr.mode = "writeback" /\ wb'.pc = "done" => wb'.queue = <<>> /\ wb'.shutdown
    BY <2>3 DEF ShutdownInv, TypeInv, TypeOK, WbState
  <2>5. QED
    BY <2>1, <2>2, <2>4 DEF ShutdownInv
<1>10. CASE logfs_txnmgr_destroy
  <2>1. /\ mgr'.shutdown = TRUE /\ mgr'.mode = mgr.mode /\ UNCHANGED <<commit, client, wb, ckpt>>
        /\ \A c \in Clients : client[c].pc = "idle"
    BY <1>10 DEF logfs_txnmgr_destroy, TypeInv, TypeOK, MgrState
  <2>2. QED
    BY <2>1 DEF ShutdownInv
<1>11. CASE UNCHANGED vars
  BY <1>11 DEF vars, ShutdownInv
<1>12. QED
  BY <1>1, <1>2, <1>3, <1>4, <1>5, <1>6, <1>7, <1>8, <1>9, <1>10, <1>11 DEF Next, CommitThread
-----------------------------------------------------------------------------
(* The assertion of get_write_access. *)

(* Without operations that start during a commit, a handle lives only while *)
(* the commit thread is idle or freezing, so its generation is the running  *)
(* one.                                                                     *)
HandleInv ==
  /\ ~Dead
  /\ commit.pc \notin {"check", "freeze"} => Running = {}
  /\ \A c \in Running : client[c].txn_id = mgr.generation_seq

LEMMA HandleInit == Init => HandleInv
BY DEF Init, HandleInv, Dead, NoCommit, Running, NoClient

LEMMA HandleStep ==
  ASSUME "overlap" \notin Conditions, TypeInv, ShutdownInv, HandleInv, [Next]_vars
  PROVE  HandleInv'
<1> USE DEF history
<1>1. ASSUME NEW c \in Clients, InCall(c) \/ Call(c) PROVE HandleInv'
  <2>1. UNCHANGED commit /\ \A d \in Clients \ {c} : client'[d] = client[d]
    BY <1>1, ClientSteps DEF HandleInv, AssertionFails
  <2>2. ~Abort
    BY <2>1 DEF Abort, NoCommit, HandleInv, Dead
  <2>3. mgr'.generation_seq = mgr.generation_seq
    BY <1>1, <2>2 DEF InCall, Call, logfs_txn_start, logfs_txn_write_data, logfs_txn_stop, SyncWake,
       SyncReturn, logfs_txn_commit_sync, logfs_txn_get_write_access, ReadData, TypeInv, TypeOK, MgrState
  <2>4. c \in Running' => \/ c \in Running /\ client'[c].txn_id = client[c].txn_id
                          \/ /\ commit.pc \in {"check", "freeze"}
                             /\ client'[c].txn_id = mgr.generation_seq
    <3> USE DEF TypeInv, TypeOK, Running
    <3>1. CASE logfs_txn_start(c)
      BY <3>1 DEF logfs_txn_start, ClientState
    <3>2. CASE logfs_txn_stop(c) \/ SyncReturn(c)
      BY <3>2 DEF logfs_txn_stop, SyncReturn, NoClient
    <3>3. CASE SyncWake(c)
      BY <3>3 DEF SyncWake, ClientState
    <3>4. CASE logfs_txn_commit_sync(c)
      <4>1. client'[c].pc \in {"syncing", "synced"}
        BY <3>4 DEF logfs_txn_commit_sync, ClientState
      <4>2. QED
        BY <4>1
    <3>5. CASE logfs_txn_write_data(c)
      <4>1. client' = [client EXCEPT ![c].pc = "running"] /\ client[c].pc = "writing"
        BY <2>2, <3>5 DEF logfs_txn_write_data
      <4>2. QED
        BY <4>1 DEF ClientState
    <3>6. ASSUME NEW b \in Meta, logfs_txn_get_write_access(c, b) PROVE client' = client
      BY <2>2, <3>6 DEF logfs_txn_get_write_access
    <3>7. ASSUME NEW b \in Data, ReadData(c, b)
          PROVE  client[c].pc = "running" /\ client'[c].txn_id = client[c].txn_id
      BY <3>7 DEF ReadData, ClientState
    <3>8. QED
      BY <1>1, <3>1, <3>2, <3>3, <3>4, <3>5, <3>6, <3>7 DEF InCall, Call
  <2>5. QED
    BY <2>1, <2>3, <2>4 DEF HandleInv, Dead, Running
<1>2. CASE CommitCycle \/ FreezeWake
  <2>1. /\ mgr'.generation_seq = mgr.generation_seq /\ UNCHANGED client
        /\ commit'.pc = "freeze" \/ (commit'.pc = "ordered" /\ Running = {})
    <3> USE DEF TypeInv, TypeOK, CommitState, MgrState
    <3>1. CASE Running = {}
      <4>1. Flatten /\ UNCHANGED client
        BY <1>2, <3>1 DEF CommitCycle, FreezeWake
      <4>2. QED
        BY <3>1, <4>1 DEF Flatten
    <3>2. CASE Running # {} /\ CommitCycle
      BY <3>2 DEF CommitCycle
    <3>3. CASE Running # {} /\ FreezeWake
      BY <3>3 DEF FreezeWake
    <3>4. QED
      BY <1>2, <3>1, <3>2, <3>3
  <2>2. QED
    BY <2>1 DEF HandleInv, Dead, Running
<1>3. ASSUME commit.pc \notin {"check", "freeze"}, UNCHANGED client, commit'.pc # "dead"
      PROVE  HandleInv'
  BY <1>3 DEF HandleInv, Dead, Running
<1>4. CASE OrderedFlush \/ JournalCommit \/ JournalCommitFails \/ Publish \/ EmptyCycle
           \/ CheckpointEnd \/ CycleEnd
  <2>1. /\ commit.pc \in {"ordered", "reserve", "publish", "empty", "ckwrite", "lag"}
        /\ UNCHANGED client
    BY <1>4 DEF OrderedFlush, JournalCommit, JournalCommitFails, Publish, EmptyCycle,
       CheckpointEnd, CycleEnd
  <2>2. commit'.pc # "dead"
    <3> USE DEF TypeInv, TypeOK, CommitState
    <3>1. CASE OrderedFlush \/ JournalCommit \/ JournalCommitFails
      BY <3>1 DEF OrderedFlush, JournalCommit, JournalCommitFails
    <3>2. CASE Publish \/ EmptyCycle \/ CycleEnd
      BY <3>2 DEF Publish, EmptyCycle, CycleEnd, NoCommit
    <3>3. CASE CheckpointEnd
      BY <3>3 DEF CheckpointEnd
    <3>4. QED
      BY <1>4, <3>1, <3>2, <3>3
  <2>3. QED
    BY <1>3, <2>1, <2>2
<1>5. ASSUME NEW caller \in {"reserve", "lag", "drain"}, CheckpointOldest(caller) PROVE HandleInv'
  BY <1>3, <1>5 DEF CheckpointOldest, TypeInv, TypeOK, CommitState
<1>6. ASSUME NEW b \in Blocks, CheckpointWrite(b) PROVE HandleInv'
  BY <1>3, <1>6 DEF CheckpointWrite, TypeInv, TypeOK, CommitState
<1>7. CASE CommitThreadStops
  <2>1. /\ UNCHANGED <<mgr, client>> /\ commit'.pc \in {"drain", "done"}
        /\ mgr.shutdown \/ commit.pc = "drain"
    BY <1>7 DEF CommitThreadStops, TypeInv, TypeOK, CommitState
  <2>2. \A c \in Clients : client[c].pc = "idle"
    BY <2>1 DEF ShutdownInv
  <2>3. QED
    BY <2>1, <2>2 DEF HandleInv, Dead, Running
<1>8. CASE WritebackThread \/ logfs_txnmgr_destroy \/ WritebackShutdown \/ UNCHANGED vars
  <2>1. UNCHANGED <<commit, client>> /\ mgr'.generation_seq = mgr.generation_seq
    BY <1>8 DEF WritebackThread, WritebackPop, WritebackWrite, WritebackStops, WritebackShutdown,
       logfs_txnmgr_destroy, vars, TypeInv, TypeOK, MgrState
  <2>2. QED
    BY <2>1 DEF HandleInv, Dead, Running
<1>9. QED
  BY <1>1, <1>2, <1>4, <1>5, <1>6, <1>7, <1>8 DEF Next, CommitThread

(* The assertion "freeze can't have swapped under a live handle" of         *)
(* logfs_txn_get_write_access holds whenever no operation starts while a    *)
(* commit is under way: for any number of clients, in every mode, with      *)
(* failing commits, fsync() and unmount at any moment.  (With an overlap    *)
(* it does fail: a handle may outlive the change of generation_seq.)        *)
THEOREM AssertionNeverFails ==
  ASSUME "overlap" \notin Conditions
  PROVE  Spec => []AssertionHolds
<1>1. Init => TypeInv /\ ShutdownInv /\ HandleInv
  BY InitTyped, ShutdownInit, HandleInit
<1>2. TypeInv /\ ShutdownInv /\ HandleInv /\ [Next]_vars => (TypeInv /\ ShutdownInv /\ HandleInv)'
  BY StepTyped, ShutdownStep, HandleStep
<1>3. HandleInv => AssertionHolds
  BY DEF HandleInv, AssertionHolds
<1>4. QED
  BY <1>1, <1>2, <1>3, PTL DEF Spec
-----------------------------------------------------------------------------
(* What the steps of the commit thread do to its locals. *)

LEMMA FlattenEffect ==
  ASSUME TypeInv, Flatten
  PROVE  /\ commit'.pc = "ordered" /\ commit'.nodes = staged /\ staged' = NoNodes
         /\ commit'.ck = commit.ck /\ commit'.ok = commit.ok /\ commit'.caller = commit.caller
         /\ mgr'.mode = mgr.mode /\ mgr'.shutdown = mgr.shutdown
         /\ mgr'.generation_seq = mgr.generation_seq
         /\ mgr'.completed_through = mgr.completed_through
         /\ mgr'.commit_requested = FALSE
BY DEF Flatten, TypeInv, TypeOK, CommitState, MgrState

(* Leaving the idle loop without taking the generation, or going back to    *)
(* sleep in the freeze.                                                     *)
LEMMA FreezeEffect ==
  ASSUME TypeInv, CommitCycle \/ FreezeWake
  PROVE  /\ UNCHANGED <<ckpt, client, journal, home, wb, issued, truth, durable, stable,
                        volatile, written>>
         /\ commit.pc \in {"check", "freeze"}
         /\ \/ Flatten /\ Running = {}
            \/ /\ commit'.pc = "freeze" /\ commit'.nodes = commit.nodes
               /\ commit'.ck = commit.ck /\ commit'.ok = commit.ok
               /\ mgr'.mode = mgr.mode /\ mgr'.shutdown = mgr.shutdown
               /\ mgr'.generation_seq = mgr.generation_seq
               /\ mgr'.completed_through = mgr.completed_through
               /\ mgr'.commit_requested = mgr.commit_requested
               /\ UNCHANGED staged
<1> USE DEF history, TypeInv, TypeOK, CommitState, MgrState
<1>1. CASE Running = {}
  BY <1>1 DEF CommitCycle, FreezeWake
<1>2. CASE Running # {} /\ CommitCycle
  <2>1. /\ mgr' = [mgr EXCEPT !.freezing = TRUE] /\ commit' = [commit EXCEPT !.pc = "freeze"]
        /\ commit.pc = "check"
        /\ UNCHANGED <<staged, ckpt, client, journal, home, wb, issued, history>>
    BY <1>2 DEF CommitCycle
  <2>2. QED
    BY <2>1
<1>3. CASE Running # {} /\ FreezeWake
  BY <1>3 DEF FreezeWake
<1>4. QED
  BY <1>1, <1>2, <1>3

(* Steps that move the program counter and leave the lists alone.           *)
LEMMA PcEffect ==
  ASSUME TypeInv, OrderedFlush \/ JournalCommitFails \/ CycleEnd \/ CommitThreadStops
  PROVE  /\ UNCHANGED <<mgr, staged, ckpt, client, journal, home, wb, issued, truth, durable,
                        stable, written>>
         /\ volatile' \in {volatile, StillVolatile}
         /\ commit'.nodes = commit.nodes /\ commit'.ck = commit.ck
         /\ \/ /\ OrderedFlush /\ commit.pc = "ordered" /\ commit'.ok = commit.ok
               /\ commit'.pc = IF Present(commit.nodes) # {} THEN "reserve" ELSE "empty"
            \/ /\ JournalCommitFails /\ "failure" \in Conditions
               /\ commit.pc = "reserve" /\ commit'.pc = "publish" /\ commit'.ok = FALSE
            \/ commit.pc = "lag" /\ commit'.pc = "check" /\ commit'.ok = commit.ok
            \/ /\ commit.pc = "check" /\ commit'.pc = "drain" /\ commit'.ok = commit.ok
               /\ mgr.shutdown
            \/ /\ commit.pc = "drain" /\ commit'.pc = "done" /\ commit'.ok = commit.ok
               /\ ckpt = <<>>
<1> USE DEF history, TypeInv, TypeOK, CommitState
<1>1. CASE OrderedFlush
  BY <1>1 DEF OrderedFlush
<1>2. CASE JournalCommitFails
  BY <1>2 DEF JournalCommitFails
<1>3. CASE CycleEnd
  BY <1>3 DEF CycleEnd
<1>4. CASE CommitThreadStops
  BY <1>4 DEF CommitThreadStops
<1>5. QED
  BY <1>1, <1>2, <1>3, <1>4

LEMMA JournalCommitEffect ==
  ASSUME TypeInv, JournalCommit
  PROVE  /\ UNCHANGED <<mgr, staged, ckpt, client, home, wb, issued, truth, written>>
         /\ commit'.nodes = commit.nodes /\ commit'.ck = commit.ck
         /\ commit.pc = "reserve" /\ commit'.pc = "publish" /\ commit'.ok = TRUE
         /\ journal'.next_sequence = journal.next_sequence + 1
         /\ stable' = stable \cup OpsIn(commit.nodes)
         /\ volatile' = StillVolatile
         /\ \A b \in Blocks : durable'[b] = IF b \in Present(commit.nodes)
                                            THEN commit.nodes[b].data ELSE durable[b]
BY DEF JournalCommit, TypeInv, TypeOK, CommitState

(* The end of a cycle: the next one begins with fresh locals.               *)
LEMMA CycleEffect ==
  ASSUME TypeInv, Publish \/ EmptyCycle
  PROVE  /\ UNCHANGED <<staged, client, journal, home, wb, issued, truth, durable, stable,
                        volatile, written>>
         /\ commit'.nodes = NoNodes /\ commit'.ck.nodes = NoNodes
         /\ commit'.pc = "lag" /\ commit'.ok = FALSE
         /\ mgr'.mode = mgr.mode /\ mgr'.shutdown = mgr.shutdown
         /\ mgr'.completed_through = mgr.generation_seq
         /\ mgr'.commit_requested = mgr.commit_requested
         /\ \/ /\ Publish /\ commit.pc = "publish"
               /\ mgr'.generation_seq = journal.next_sequence
               /\ ckpt' = IF commit.ok
                          THEN Append(ckpt, [sequence |-> journal.next_sequence - 1,
                                             nodes |-> commit.nodes])
                          ELSE ckpt
            \/ /\ EmptyCycle /\ commit.pc = "empty" /\ ckpt' = ckpt
               /\ mgr'.generation_seq = mgr.generation_seq
<1> USE DEF history, TypeInv, TypeOK, MgrState, NoCommit, NoTxn
<1>1. CASE Publish
  BY <1>1 DEF Publish
<1>2. CASE EmptyCycle
  BY <1>2 DEF EmptyCycle
<1>3. QED
  BY <1>1, <1>2

LEMMA CheckpointEffect ==
  ASSUME TypeInv,
         \/ CheckpointEnd
         \/ \E caller \in {"reserve", "lag", "drain"} : CheckpointOldest(caller)
         \/ \E b \in Blocks : CheckpointWrite(b)
  PROVE  /\ UNCHANGED <<mgr, staged, client, journal, wb, issued, truth, durable, stable, written>>
         /\ commit'.nodes = commit.nodes
         /\ \/ /\ CheckpointEnd /\ commit.pc = "ckwrite" /\ commit'.pc = commit.caller
               /\ commit.caller \in {"reserve", "lag", "drain"}
               /\ Present(commit.ck.nodes) = {} /\ commit'.ck.nodes = NoNodes
               /\ volatile' = StillVolatile /\ UNCHANGED <<ckpt, home>>
            \/ \E caller \in {"reserve", "lag", "drain"} :
               /\ commit.pc = caller /\ commit'.pc = "ckwrite" /\ commit'.caller = caller
               /\ ckpt # <<>> /\ ckpt' = Tail(ckpt) /\ commit'.ck = Head(ckpt)
               /\ UNCHANGED <<home, volatile>>
            \/ \E b \in Blocks :
               /\ commit.pc = "ckwrite" /\ commit'.pc = "ckwrite" /\ commit'.caller = commit.caller
               /\ b \in Present(commit.ck.nodes)
               /\ commit'.ck.nodes = [commit.ck.nodes EXCEPT ![b] = NoNode]
               /\ home' = [home EXCEPT ![b] = commit.ck.nodes[b].data]
               /\ UNCHANGED <<ckpt, volatile>>
<1> USE DEF history, TypeInv, TypeOK, CommitState
<1>1. CASE CheckpointEnd
  BY <1>1 DEF CheckpointEnd, NoTxn, CallsSound
<1>2. ASSUME NEW caller \in {"reserve", "lag", "drain"}, CheckpointOldest(caller)
      PROVE  /\ UNCHANGED <<mgr, staged, client, journal, wb, issued, truth, durable, stable,
                            written, home, volatile>>
             /\ commit'.nodes = commit.nodes
             /\ commit.pc = caller /\ commit'.pc = "ckwrite" /\ commit'.caller = caller
             /\ ckpt # <<>> /\ ckpt' = Tail(ckpt) /\ commit'.ck = Head(ckpt)
  BY <1>2 DEF CheckpointOldest
<1>3. ASSUME NEW b \in Blocks, CheckpointWrite(b)
      PROVE  /\ UNCHANGED <<mgr, staged, client, journal, wb, issued, truth, durable, stable,
                            written, ckpt, volatile>>
             /\ commit'.nodes = commit.nodes
             /\ commit.pc = "ckwrite" /\ commit'.pc = "ckwrite" /\ commit'.caller = commit.caller
             /\ b \in Present(commit.ck.nodes)
             /\ commit'.ck.nodes = [commit.ck.nodes EXCEPT ![b] = NoNode]
             /\ home' = [home EXCEPT ![b] = commit.ck.nodes[b].data]
  BY <1>3 DEF CheckpointWrite, Committed
<1>4. CASE \E caller \in {"reserve", "lag", "drain"} : CheckpointOldest(caller)
  BY <1>2, <1>4
<1>5. CASE \E b \in Blocks : CheckpointWrite(b)
  BY <1>3, <1>5
<1>6. QED
  BY <1>1, <1>4, <1>5

(* The writeback thread, and the two steps of unmount.                      *)
LEMMA OtherEffect ==
  ASSUME TypeInv, WritebackThread \/ logfs_txnmgr_destroy \/ WritebackShutdown \/ UNCHANGED vars
  PROVE  /\ UNCHANGED <<staged, ckpt, client, commit, journal, issued, truth, durable, stable,
                        written>>
         /\ mgr'.mode = mgr.mode /\ mgr'.generation_seq = mgr.generation_seq
         /\ mgr'.completed_through = mgr.completed_through
         /\ mgr'.commit_requested = mgr.commit_requested
         /\ \/ UNCHANGED <<home, volatile>>
            \/ WritebackWrite /\ UNCHANGED volatile
            \/ wb.pc = "wait" /\ UNCHANGED home /\ volatile' = StillVolatile
         /\ logfs_txnmgr_destroy \/ mgr'.shutdown = mgr.shutdown
<1> USE DEF history, TypeInv, TypeOK
<1>1. CASE WritebackThread
  BY <1>1 DEF WritebackThread, WritebackPop, WritebackWrite, WritebackStops
<1>2. CASE logfs_txnmgr_destroy
  BY <1>2 DEF logfs_txnmgr_destroy, MgrState
<1>3. CASE WritebackShutdown \/ UNCHANGED vars
  BY <1>3 DEF WritebackShutdown, vars
<1>4. QED
  BY <1>1, <1>2, <1>3

(* The three kinds of steps.                                                *)
LEMMA NextCases ==
  ASSUME [Next]_vars
  PROVE  \/ CommitCycle \/ FreezeWake
         \/ OrderedFlush \/ JournalCommitFails \/ CycleEnd \/ CommitThreadStops
         \/ JournalCommit
         \/ Publish \/ EmptyCycle
         \/ CheckpointEnd
         \/ \E caller \in {"reserve", "lag", "drain"} : CheckpointOldest(caller)
         \/ \E b \in Blocks : CheckpointWrite(b)
         \/ WritebackThread \/ logfs_txnmgr_destroy \/ WritebackShutdown \/ UNCHANGED vars
         \/ \E c \in Clients : InCall(c) \/ Call(c)
BY DEF Next, CommitThread
-----------------------------------------------------------------------------
(* What the steps of a client do. *)

(* Outside get_write_access and write_data a client changes only its own    *)
(* state and the request flag; it enters write_data through ReadData.       *)
LEMMA QuietEffect ==
  ASSUME TypeInv, NEW c \in Clients,
         \/ logfs_txn_start(c) \/ logfs_txn_stop(c) \/ SyncWake(c) \/ SyncReturn(c)
         \/ logfs_txn_commit_sync(c) \/ \E b \in Data : ReadData(c, b)
  PROVE  /\ UNCHANGED <<staged, ckpt, commit, journal, home, wb, truth, durable, stable,
                        volatile, written>>
         /\ mgr'.mode = mgr.mode /\ mgr'.shutdown = mgr.shutdown
         /\ mgr'.generation_seq = mgr.generation_seq
         /\ mgr'.completed_through = mgr.completed_through
         /\ \A d \in Clients \ {c} : client'[d] = client[d]
         /\ client'[c].pc = "writing" =>
              /\ client[c].pc = "running" /\ client'[c].block \in Data
              /\ client'[c].buf = logfs_txn_read_block(client'[c].block)
              /\ \A d \in Clients : client[d].pc = "writing" => client[d].block # client'[c].block
<1> USE DEF history, TypeInv, TypeOK
<1>1. CASE logfs_txn_start(c)
  BY <1>1 DEF logfs_txn_start, ClientState
<1>2. CASE logfs_txn_stop(c) \/ SyncReturn(c)
  BY <1>2 DEF logfs_txn_stop, SyncReturn, NoClient
<1>3. CASE SyncWake(c)
  BY <1>3 DEF SyncWake, ClientState
<1>4. CASE logfs_txn_commit_sync(c)
  <2>1. client'[c].pc \in {"syncing", "synced"}
    BY <1>4 DEF logfs_txn_commit_sync, ClientState
  <2>2. QED
    BY <1>4, <2>1 DEF logfs_txn_commit_sync, MgrState
<1>5. ASSUME NEW b \in Data, ReadData(c, b)
      PROVE  /\ UNCHANGED <<mgr, staged, ckpt, commit, journal, home, wb, truth, durable, stable,
                            volatile, written>>
             /\ \A d \in Clients \ {c} : client'[d] = client[d]
             /\ client[c].pc = "running" /\ client'[c].block = b
             /\ client'[c].buf = logfs_txn_read_block(b)
             /\ \A d \in Clients : client[d].pc = "writing" => client[d].block # b
  <2>1. client' = [client EXCEPT ![c].pc = "writing", ![c].block = b,
                                 ![c].buf = logfs_txn_read_block(b)]
    BY <1>5 DEF ReadData
  <2>2. /\ client'[c].block = b /\ client'[c].buf = logfs_txn_read_block(b)
        /\ \A d \in Clients \ {c} : client'[d] = client[d]
    BY <2>1 DEF ClientState
  <2>3. QED
    BY <1>5, <2>2 DEF ReadData
<1>6. QED
  BY <1>1, <1>2, <1>3, <1>4, <1>5

LEMMA AccessEffect ==
  ASSUME TypeInv, NEW c \in Clients, NEW b \in Meta, logfs_txn_get_write_access(c, b)
  PROVE  /\ c \in Running /\ client[c].pc = "running"
         /\ \/ Abort /\ AssertionFails(c)
            \/ /\ ~AssertionFails(c)
               /\ Stage(b, logfs_txn_read_block(b) \cup {client[c].op}, client[c].op)
               /\ truth' = [truth EXCEPT ![b] = @ \cup {client[c].op}]
               /\ UNCHANGED <<mgr, ckpt, client, commit, journal, home, wb, durable, stable,
                              volatile, written>>
BY DEF logfs_txn_get_write_access, Running

LEMMA WriteEffect ==
  ASSUME TypeInv, NEW c \in Clients, logfs_txn_write_data(c)
  PROVE  /\ c \in Running /\ client[c].pc = "writing" /\ client[c].block \in Data
         /\ \/ Abort /\ AssertionFails(c) /\ mgr.mode = "journal"
            \/ /\ UNCHANGED <<ckpt, commit, journal, issued, durable, stable>>
               /\ client' = [client EXCEPT ![c].pc = "running"]
               /\ client'[c].pc = "running" /\ client'[c].op = client[c].op
               /\ \A d \in Clients \ {c} : client'[d] = client[d]
               /\ truth' = [truth EXCEPT ![client[c].block] = @ \cup {client[c].op}]
               /\ written' = [written EXCEPT ![client[c].block] = client[c].buf \cup {client[c].op}]
               /\ mgr'.mode = mgr.mode /\ mgr'.shutdown = mgr.shutdown
               /\ mgr'.generation_seq = mgr.generation_seq
               /\ mgr'.completed_through = mgr.completed_through
               /\ mgr'.commit_requested = mgr.commit_requested
               /\ \/ /\ mgr.mode = "journal" /\ ~AssertionFails(c)
                     /\ Stage(client[c].block, client[c].buf \cup {client[c].op}, client[c].op)
                     /\ UNCHANGED <<home, wb, volatile>>
                  \/ /\ mgr.mode = "ordered"
                     /\ home' = [home EXCEPT ![client[c].block] = client[c].buf \cup {client[c].op}]
                     /\ volatile' = volatile \cup {<<client[c].op, client[c].block>>}
                     /\ UNCHANGED <<staged, wb>>
                  \/ /\ mgr.mode = "writeback"
                     /\ writeback_queue_push(client[c].block, client[c].buf \cup {client[c].op})
                     /\ volatile' = volatile \cup {<<client[c].op, client[c].block>>}
                     /\ UNCHANGED <<staged, home>>
<1>1. client[c].pc = "writing" /\ client[c].block \in Data /\ c \in Running
  BY DEF logfs_txn_write_data, TypeInv, CallsSound, Running
<1>2. CASE mgr.mode = "journal" /\ AssertionFails(c)
  BY <1>1, <1>2 DEF logfs_txn_write_data
<1>3. CASE ~(mgr.mode = "journal" /\ AssertionFails(c))
  <2>1. /\ UNCHANGED <<ckpt, commit, journal, issued, durable, stable>>
        /\ client' = [client EXCEPT ![c].pc = "running"]
        /\ truth' = [truth EXCEPT ![client[c].block] = @ \cup {client[c].op}]
        /\ written' = [written EXCEPT ![client[c].block] = client[c].buf \cup {client[c].op}]
    BY <1>3 DEF logfs_txn_write_data
  <2>2. /\ client'[c].pc = "running" /\ client'[c].op = client[c].op
        /\ \A d \in Clients \ {c} : client'[d] = client[d]
    BY <2>1 DEF TypeInv, TypeOK, ClientState
  <2>3. \/ /\ mgr.mode = "journal" /\ ~AssertionFails(c)
           /\ Stage(client[c].block, client[c].buf \cup {client[c].op}, client[c].op)
           /\ UNCHANGED <<mgr, home, wb, volatile>>
        \/ /\ mgr.mode = "ordered" /\ mgr' = [mgr EXCEPT !.n_ordered = @ + 1]
           /\ home' = [home EXCEPT ![client[c].block] = client[c].buf \cup {client[c].op}]
           /\ volatile' = volatile \cup {<<client[c].op, client[c].block>>}
           /\ UNCHANGED <<staged, wb>>
        \/ /\ mgr.mode = "writeback"
           /\ writeback_queue_push(client[c].block, client[c].buf \cup {client[c].op})
           /\ volatile' = volatile \cup {<<client[c].op, client[c].block>>}
           /\ UNCHANGED <<mgr, staged, home>>
    BY <1>3 DEF logfs_txn_write_data
  <2>4. mgr' = [mgr EXCEPT !.n_ordered = @ + 1] \/ mgr' = mgr
    BY <2>3
  <2>5. /\ mgr'.mode = mgr.mode /\ mgr'.shutdown = mgr.shutdown
        /\ mgr'.generation_seq = mgr.generation_seq
        /\ mgr'.completed_through = mgr.completed_through
        /\ mgr'.commit_requested = mgr.commit_requested
    BY <2>4 DEF TypeInv, TypeOK, MgrState
  <2>6. QED
    BY <1>1, <2>1, <2>2, <2>3, <2>5
<1>4. QED
  BY <1>2, <1>3

LEMMA ClientCases ==
  ASSUME NEW c \in Clients, InCall(c) \/ Call(c)
  PROVE  \/ \/ logfs_txn_start(c) \/ logfs_txn_stop(c) \/ SyncWake(c) \/ SyncReturn(c)
            \/ logfs_txn_commit_sync(c) \/ \E b \in Data : ReadData(c, b)
         \/ \E b \in Meta : logfs_txn_get_write_access(c, b)
         \/ logfs_txn_write_data(c)
BY DEF InCall, Call
-----------------------------------------------------------------------------
(* The phases of a commit. *)

(* A transaction is at hand in the commit thread's locals only between the  *)
(* freeze and the end of the cycle, and one being checkpointed only inside  *)
(* checkpoint_oldest.                                                       *)
PhaseInv ==
  /\ commit.pc # "ckwrite" => Present(commit.ck.nodes) = {}
  /\ commit.pc \in {"check", "freeze", "empty", "lag", "drain", "done", "dead"} => Present(commit.nodes) = {}
  /\ commit.pc = "ckwrite" /\ commit.caller # "reserve" => Present(commit.nodes) = {}

LEMMA PhaseInit == Init => PhaseInv
BY NoNodesEmpty DEF Init, PhaseInv, NoCommit, NoTxn

LEMMA AbortEffect ==
  ASSUME TypeInv, Abort
  PROVE  /\ commit'.pc = "dead" /\ commit'.nodes = NoNodes /\ commit'.ck.nodes = NoNodes
         /\ wb'.pc = "dead" /\ wb'.queue = wb.queue /\ wb'.shutdown = wb.shutdown
         /\ \A c \in Clients : client'[c].pc = "dead"
         /\ UNCHANGED <<mgr, staged, ckpt, journal, home, issued, truth, durable, stable, volatile,
                        written>>
BY DEF Abort, NoCommit, NoTxn, NoClient, TypeInv, TypeOK, WbState, history

LEMMA PhaseStep ==
  ASSUME TypeInv, PhaseInv, [Next]_vars
  PROVE  PhaseInv'
<1>1. CASE CommitCycle \/ FreezeWake
  BY <1>1, FreezeEffect, FlattenEffect DEF PhaseInv
<1>2. CASE OrderedFlush \/ JournalCommitFails \/ CycleEnd \/ CommitThreadStops
  BY <1>2, PcEffect DEF PhaseInv
<1>3. CASE JournalCommit
  BY <1>3, JournalCommitEffect DEF PhaseInv
<1>4. CASE Publish \/ EmptyCycle
  BY <1>4, CycleEffect, NoNodesEmpty DEF PhaseInv
<1>5. CASE \/ CheckpointEnd
           \/ \E caller \in {"reserve", "lag", "drain"} : CheckpointOldest(caller)
           \/ \E b \in Blocks : CheckpointWrite(b)
  BY <1>5, CheckpointEffect, NoNodesEmpty DEF PhaseInv
<1>6. CASE WritebackThread \/ logfs_txnmgr_destroy \/ WritebackShutdown \/ UNCHANGED vars
  BY <1>6, OtherEffect DEF PhaseInv
<1>7. ASSUME NEW c \in Clients, InCall(c) \/ Call(c) PROVE PhaseInv'
  BY <1>7, ClientSteps, AbortEffect, NoNodesEmpty DEF PhaseInv
<1>8. QED
  BY <1>1, <1>2, <1>3, <1>4, <1>5, <1>6, <1>7, NextCases
-----------------------------------------------------------------------------
(* What the data mode decides. *)

(* The blocks with a copy in the staging table, in the hands of the commit  *)
(* thread or on the checkpoint list.                                        *)
Held == Present(staged) \cup Present(commit.nodes) \cup Present(commit.ck.nodes)
        \cup UNION {Present(ckpt[i].nodes) : i \in DOMAIN ckpt}

(* Only data=journal stages file data; only data=writeback queues it; two   *)
(* clients never write the same block at a time.                            *)
ModeInv ==
  /\ mgr.mode # "journal" => Held \subseteq Meta
  /\ mgr.mode # "writeback" => wb.pc \in {"done", "dead"} /\ wb.queue = <<>>
  /\ \A c, d \in Clients : c # d /\ client[c].pc = "writing" /\ client[d].pc = "writing"
                             => client[c].block # client[d].block

LEMMA ModeInit == Init => ModeInv
<1> SUFFICES ASSUME Init PROVE ModeInv
  OBVIOUS
<1>1. Held = {}
  BY NoNodesEmpty DEF Init, Held, NoCommit, NoTxn
<1>2. QED
  BY <1>1 DEF Init, ModeInv, NoClient

(* A block gets into the lists only through find_or_create_dirty.           *)
LEMMA HeldSteps ==
  ASSUME TypeInv, [Next]_vars
  PROVE  \/ Held' \subseteq Held
         \/ \E c \in Clients : /\ Held' \subseteq Held \cup {client[c].block}
                               /\ client[c].block \in Data /\ mgr.mode = "journal"
         \/ \E b \in Meta : Held' \subseteq Held \cup {b}
<1>1. CASE CommitCycle \/ FreezeWake
  <2>1. CASE Flatten
    BY <1>1, <2>1, FreezeEffect, FlattenEffect, NoNodesEmpty DEF Held
  <2>2. CASE ~Flatten
    BY <1>1, <2>2, FreezeEffect DEF Held
  <2>3. QED
    BY <2>1, <2>2
<1>2. CASE OrderedFlush \/ JournalCommitFails \/ CycleEnd \/ CommitThreadStops
  BY <1>2, PcEffect DEF Held
<1>3. CASE JournalCommit
  BY <1>3, JournalCommitEffect DEF Held
<1>4. CASE Publish \/ EmptyCycle
  <2> DEFINE t == [sequence |-> journal.next_sequence - 1, nodes |-> commit.nodes]
             Listed == UNION {Present(ckpt[i].nodes) : i \in DOMAIN ckpt}
  <2>1. /\ staged' = staged /\ commit'.nodes = NoNodes /\ commit'.ck.nodes = NoNodes
        /\ ckpt' = ckpt \/ ckpt' = Append(ckpt, t)
    BY <1>4, CycleEffect
  <2>2. ckpt \in Seq(Committed) /\ t \in Committed /\ t.nodes = commit.nodes
    BY DEF TypeInv, TypeOK, CallsSound, CommitState, Committed
  <2> HIDE DEF t
  <2>3. \A i \in DOMAIN ckpt' : \/ i \in DOMAIN ckpt /\ ckpt'[i] = ckpt[i]
                                \/ ckpt'[i] = t
    BY <2>1, <2>2
  <2>4. Listed' \subseteq Listed \cup Present(commit.nodes)
    BY <2>2, <2>3
  <2>5. QED
    BY <2>1, <2>4, NoNodesEmpty DEF Held
<1>5. CASE CheckpointEnd
  BY <1>5, CheckpointEffect, NoNodesEmpty DEF Held, CheckpointEnd
<1>6. ASSUME NEW caller \in {"reserve", "lag", "drain"}, CheckpointOldest(caller)
      PROVE  Held' \subseteq Held
  <2>1. /\ commit'.nodes = commit.nodes /\ commit'.ck = Head(ckpt)
        /\ ckpt' = Tail(ckpt) /\ ckpt # <<>> /\ UNCHANGED staged
    BY <1>6 DEF CheckpointOldest, TypeInv, TypeOK, CommitState
  <2>2. ckpt \in Seq(Committed)
    BY DEF TypeInv, TypeOK
  <2>3. /\ 1 \in DOMAIN ckpt /\ Head(ckpt) = ckpt[1]
        /\ \A i \in DOMAIN ckpt' : i + 1 \in DOMAIN ckpt /\ ckpt'[i] = ckpt[i + 1]
    BY <2>1, <2>2
  <2>4. QED
    BY <2>1, <2>3 DEF Held
<1>7. ASSUME NEW b \in Blocks, CheckpointWrite(b)
      PROVE  Held' \subseteq Held
  <2>1. /\ commit'.nodes = commit.nodes /\ UNCHANGED <<staged, ckpt>>
        /\ commit'.ck.nodes = [commit.ck.nodes EXCEPT ![b] = NoNode]
    BY <1>7 DEF CheckpointWrite, TypeInv, TypeOK, CommitState, Committed
  <2>2. commit.ck.nodes \in Nodes
    BY DEF TypeInv, TypeOK, CommitState, Committed
  <2>3. Present(commit'.ck.nodes) \subseteq Present(commit.ck.nodes)
    BY <2>1, <2>2 DEF Present, Nodes, Node, NoNode
  <2>4. QED
    BY <2>1, <2>3 DEF Held
<1>8. CASE WritebackThread \/ logfs_txnmgr_destroy \/ WritebackShutdown \/ UNCHANGED vars
  BY <1>8, OtherEffect DEF Held
<1>9. CASE Abort
  BY <1>9, AbortEffect, NoNodesEmpty DEF Held
<1>10. ASSUME NEW c \in Clients,
              \/ logfs_txn_start(c) \/ logfs_txn_stop(c) \/ SyncWake(c) \/ SyncReturn(c)
              \/ logfs_txn_commit_sync(c) \/ \E b \in Data : ReadData(c, b)
       PROVE  Held' \subseteq Held
  BY <1>10, QuietEffect DEF Held
<1>11. ASSUME NEW c \in Clients, NEW b \in Meta, logfs_txn_get_write_access(c, b), ~Abort
       PROVE  Held' \subseteq Held \cup {b}
  <2>1. UNCHANGED <<ckpt, commit>> /\ Present(staged') = Present(staged) \cup {b}
    <3> DEFINE data == logfs_txn_read_block(b) \cup {client[c].op}
    <3>1. Stage(b, data, client[c].op) /\ UNCHANGED <<ckpt, commit>> /\ b \in Blocks
      BY <1>11, AccessEffect DEF Blocks
    <3> HIDE DEF data
    <3>2. QED
      BY <3>1, StageOps DEF TypeInv
  <2>2. QED
    BY <2>1 DEF Held
<1>12. ASSUME NEW c \in Clients, logfs_txn_write_data(c), ~Abort
       PROVE  \/ Held' \subseteq Held
              \/ /\ Held' \subseteq Held \cup {client[c].block}
                 /\ client[c].block \in Data /\ mgr.mode = "journal"
  <2> DEFINE data == client[c].buf \cup {client[c].op}
  <2>1. /\ UNCHANGED <<ckpt, commit>> /\ client[c].block \in Data /\ client[c].block \in Blocks
        /\ \/ mgr.mode = "journal" /\ Stage(client[c].block, data, client[c].op)
           \/ UNCHANGED staged
    BY <1>12, WriteEffect DEF Blocks
  <2> HIDE DEF data
  <2>2. CASE Stage(client[c].block, data, client[c].op) /\ mgr.mode = "journal"
    <3>1. Present(staged') = Present(staged) \cup {client[c].block}
      BY <2>1, <2>2, StageOps DEF TypeInv
    <3>2. QED
      BY <2>1, <2>2, <3>1 DEF Held
  <2>3. CASE UNCHANGED staged
    BY <2>1, <2>3 DEF Held
  <2>4. QED
    BY <2>1, <2>2, <2>3
<1>13. ASSUME NEW c \in Clients, InCall(c) \/ Call(c), ~Abort
       PROVE  \/ Held' \subseteq Held
              \/ /\ Held' \subseteq Held \cup {client[c].block}
                 /\ client[c].block \in Data /\ mgr.mode = "journal"
              \/ \E b \in Meta : Held' \subseteq Held \cup {b}
  BY <1>10, <1>11, <1>12, <1>13, ClientCases
<1>14. QED
  BY <1>1, <1>2, <1>3, <1>4, <1>5, <1>6, <1>7, <1>8, <1>9, <1>13, NextCases

LEMMA ModeStep ==
  ASSUME TypeInv, ModeInv, [Next]_vars
  PROVE  ModeInv' /\ mgr'.mode = mgr.mode
<1>1. ASSUME UNCHANGED <<client, wb>>, mgr'.mode = mgr.mode PROVE ModeInv' /\ mgr'.mode = mgr.mode
  BY <1>1, HeldSteps DEF ModeInv
<1>2. CASE CommitCycle \/ FreezeWake
  BY <1>1, <1>2, FreezeEffect, FlattenEffect
<1>3. CASE OrderedFlush \/ JournalCommitFails \/ CycleEnd \/ CommitThreadStops
  BY <1>1, <1>3, PcEffect
<1>4. CASE JournalCommit
  BY <1>1, <1>4, JournalCommitEffect
<1>5. CASE Publish \/ EmptyCycle
  BY <1>1, <1>5, CycleEffect
<1>6. CASE \/ CheckpointEnd
           \/ \E caller \in {"reserve", "lag", "drain"} : CheckpointOldest(caller)
           \/ \E b \in Blocks : CheckpointWrite(b)
  BY <1>1, <1>6, CheckpointEffect
<1>7. CASE WritebackThread \/ logfs_txnmgr_destroy \/ WritebackShutdown \/ UNCHANGED vars
  <2>1. UNCHANGED client /\ mgr'.mode = mgr.mode
    BY <1>7, OtherEffect
  <2>2. mgr.mode # "writeback" => wb'.pc = wb.pc /\ wb'.queue = wb.queue
    BY <1>7 DEF ModeInv, WritebackThread, WritebackPop, WritebackWrite, WritebackStops,
       logfs_txnmgr_destroy, WritebackShutdown, vars, TypeInv, TypeOK, WbState
  <2>3. QED
    BY <2>1, <2>2, HeldSteps DEF ModeInv
<1>8. CASE Abort
  <2>1. mgr' = mgr /\ wb'.pc = "dead" /\ wb'.queue = wb.queue /\ \A c \in Clients : client'[c].pc = "dead"
    BY <1>8, AbortEffect
  <2>2. QED
    BY <2>1, HeldSteps DEF ModeInv
<1>9. ASSUME NEW c \in Clients,
             \/ logfs_txn_start(c) \/ logfs_txn_stop(c) \/ SyncWake(c) \/ SyncReturn(c)
             \/ logfs_txn_commit_sync(c) \/ \E b \in Data : ReadData(c, b)
      PROVE  ModeInv' /\ mgr'.mode = mgr.mode
  <2>1. /\ UNCHANGED wb /\ mgr'.mode = mgr.mode
        /\ \A d \in Clients \ {c} : client'[d] = client[d]
        /\ client'[c].pc = "writing" =>
             \A d \in Clients : client[d].pc = "writing" => client[d].block # client'[c].block
    BY <1>9, QuietEffect
  <2>2. QED
    BY <2>1, HeldSteps DEF ModeInv
<1>10. ASSUME NEW c \in Clients, NEW b \in Meta, logfs_txn_get_write_access(c, b), ~Abort
       PROVE  ModeInv' /\ mgr'.mode = mgr.mode
  BY <1>1, <1>10, AccessEffect
<1>11. ASSUME NEW c \in Clients, logfs_txn_write_data(c), ~Abort
       PROVE  ModeInv' /\ mgr'.mode = mgr.mode
  <2>1. /\ mgr'.mode = mgr.mode /\ client'[c].pc = "running"
        /\ \A d \in Clients \ {c} : client'[d] = client[d]
        /\ mgr.mode # "writeback" => UNCHANGED wb
    BY <1>11, WriteEffect
  <2>2. QED
    BY <2>1, HeldSteps DEF ModeInv
<1>12. ASSUME NEW c \in Clients, InCall(c) \/ Call(c), ~Abort
       PROVE  ModeInv' /\ mgr'.mode = mgr.mode
  BY <1>9, <1>10, <1>11, <1>12, ClientCases
<1>13. QED
  BY <1>2, <1>3, <1>4, <1>5, <1>6, <1>7, <1>8, <1>12, NextCases
-----------------------------------------------------------------------------
(* Ordered mode. *)

(* A data block is in no list, so it is read from and written to its home   *)
(* location; every data write not yet flushed is there to be covered by the *)
(* next flush; and the next flush precedes the commit block.                *)
OrderedInv ==
  mgr.mode = "ordered" =>
    /\ \A c \in Clients : client[c].pc = "writing" => client[c].buf = home[client[c].block]
    /\ \A w \in volatile : w[2] \in Data /\ w[1] \in home[w[2]] /\ w[1] \notin stable

LEMMA OrderedInit == Init => OrderedInv
BY DEF Init, OrderedInv, NoClient

(* A block without a copy in the lists is read from the device.             *)
LEMMA UnheldRead ==
  ASSUME TypeInv, NEW b \in Blocks, b \notin Held
  PROVE  logfs_txn_read_block(b) = home[b]
<1>1. b \notin Present(staged) /\ \A i \in DOMAIN ckpt : b \notin Present(ckpt[i].nodes)
  BY DEF Held
<1>2. ckpt \in Seq(Committed)
  BY DEF TypeInv, TypeOK
<1>3. QED
  BY <1>1, <1>2, NewestNone DEF logfs_txn_read_block, find_checkpointed

LEMMA OrderedStep ==
  ASSUME Meta \cap Data = {}, TypeInv, AtomicInv, ModeInv, OrderedInv, [Next]_vars,
         mgr'.mode = mgr.mode
  PROVE  OrderedInv'
<1> SUFFICES ASSUME mgr.mode = "ordered" PROVE OrderedInv'
  BY DEF OrderedInv
<1>1. Held \cap Data = {}
  BY DEF ModeInv
<1>2. StillVolatile = {}
  BY DEF OrderedInv, StillVolatile
<1>3. ASSUME UNCHANGED client, volatile' \in {volatile, {}},
             \A b \in Data : home'[b] = home[b], stable' = stable \/ volatile' = {}
      PROVE  OrderedInv'
  BY <1>3 DEF OrderedInv, TypeInv, CallsSound
<1>4. CASE CommitCycle \/ FreezeWake
  BY <1>3, <1>4, FreezeEffect
<1>5. CASE OrderedFlush \/ JournalCommitFails \/ CycleEnd \/ CommitThreadStops
  BY <1>2, <1>3, <1>5, PcEffect
<1>6. CASE JournalCommit
  BY <1>2, <1>3, <1>6, JournalCommitEffect
<1>7. CASE Publish \/ EmptyCycle
  BY <1>3, <1>7, CycleEffect
<1>8. CASE CheckpointEnd \/ \E caller \in {"reserve", "lag", "drain"} : CheckpointOldest(caller)
  BY <1>2, <1>3, <1>8 DEF CheckpointEnd, CheckpointOldest, history
<1>9. ASSUME NEW b \in Blocks, CheckpointWrite(b) PROVE OrderedInv'
  <2>1. /\ b \in Present(commit.ck.nodes) /\ UNCHANGED <<client, volatile, stable>>
        /\ home' = [home EXCEPT ![b] = commit.ck.nodes[b].data]
    BY <1>9 DEF CheckpointWrite, history
  <2>2. b \notin Data
    BY <1>1, <2>1 DEF Held
  <2>3. \A d \in Data : home'[d] = home[d]
    BY <2>1, <2>2 DEF TypeInv, TypeOK, Blocks
  <2>4. QED
    BY <1>3, <2>1, <2>3
<1>10. CASE WritebackThread \/ logfs_txnmgr_destroy \/ WritebackShutdown \/ UNCHANGED vars
  <2>1. ~WritebackWrite /\ wb.pc # "wait"
    BY DEF ModeInv, WritebackWrite
  <2>2. QED
    BY <1>3, <1>10, <2>1, OtherEffect
<1>11. CASE Abort
  <2>1. UNCHANGED <<home, stable, volatile>> /\ \A c \in Clients : client'[c].pc = "dead"
    BY <1>11, AbortEffect
  <2>2. QED
    BY <2>1 DEF OrderedInv
<1>12. ASSUME NEW c \in Clients,
              \/ logfs_txn_start(c) \/ logfs_txn_stop(c) \/ SyncWake(c) \/ SyncReturn(c)
              \/ logfs_txn_commit_sync(c) \/ \E b \in Data : ReadData(c, b)
       PROVE  OrderedInv'
  <2>1. /\ UNCHANGED <<home, stable, volatile>>
        /\ \A d \in Clients \ {c} : client'[d] = client[d]
        /\ client'[c].pc = "writing" =>
             /\ client'[c].block \in Data
             /\ client'[c].buf = logfs_txn_read_block(client'[c].block)
    BY <1>12, QuietEffect
  <2>2. \A b \in Data : logfs_txn_read_block(b) = home[b]
    BY <1>1, UnheldRead DEF Blocks
  <2>3. QED
    BY <2>1, <2>2 DEF OrderedInv
<1>13. ASSUME NEW c \in Clients, NEW b \in Meta, logfs_txn_get_write_access(c, b), ~Abort
       PROVE  OrderedInv'
  BY <1>3, <1>13, AccessEffect
<1>14. ASSUME NEW c \in Clients, logfs_txn_write_data(c), ~Abort
       PROVE  OrderedInv'
  <2> DEFINE b == client[c].block
             data == client[c].buf \cup {client[c].op}
  <2>1. /\ b \in Data /\ client'[c].pc = "running" /\ c \in Running /\ client[c].pc = "writing"
        /\ \A d \in Clients \ {c} : client'[d] = client[d]
        /\ stable' = stable /\ home' = [home EXCEPT ![b] = data]
        /\ volatile' = volatile \cup {<<client[c].op, b>>}
    BY <1>14, WriteEffect
  <2>2. data = home[b] \cup {client[c].op}
    BY <2>1 DEF OrderedInv
  <2>3. client[c].op \notin stable
    BY <2>1 DEF AtomicInv, Active, Taken
  <2>4. \A d \in Clients \ {c} : client[d].pc = "writing" => client[d].block # b
    BY <2>1 DEF ModeInv
  <2> HIDE DEF b, data
  <2>5. home'[b] = data /\ \A a \in Data \ {b} : home'[a] = home[a]
    BY <2>1 DEF TypeInv, TypeOK, Blocks
  <2>6. \A d \in Clients : client'[d].pc = "writing" => client'[d].buf = home'[client'[d].block]
    BY <2>1, <2>4, <2>5 DEF OrderedInv, TypeInv, CallsSound
  <2>7. \A w \in volatile' : w[2] \in Data /\ w[1] \in home'[w[2]] /\ w[1] \notin stable'
    <3>1. <<client[c].op, b>>[1] = client[c].op /\ <<client[c].op, b>>[2] = b
      OBVIOUS
    <3>2. QED
      BY <2>1, <2>2, <2>3, <2>5, <3>1 DEF OrderedInv
  <2>8. QED
    BY <2>6, <2>7 DEF OrderedInv
<1>15. ASSUME NEW c \in Clients, InCall(c) \/ Call(c), ~Abort PROVE OrderedInv'
  BY <1>12, <1>13, <1>14, <1>15, ClientCases
<1>16. QED
  BY <1>4, <1>5, <1>6, <1>7, <1>8, <1>9, <1>10, <1>11, <1>15, NextCases

(* Ordered mode (docs/DESIGN.md section 9; logfs_txn_write_data and the     *)
(* flush in do_commit): once an operation's metadata is in the journal, all *)
(* data it wrote is on stable storage, whatever commits, checkpoints and    *)
(* other operations do meanwhile, as long as no block is both a data and a  *)
(* metadata block.                                                          *)
THEOREM DataBeforeMetadata ==
  ASSUME Meta \cap Data = {}
  PROVE  Spec => []OrderedDataFirst
<1> DEFINE I == TypeInv /\ AtomicInv /\ ShutdownInv /\ ModeInv /\ OrderedInv
<1>1. Init => I
  BY InitTyped, AtomicInit, ShutdownInit, ModeInit, OrderedInit
<1>2. I /\ [Next]_vars => I'
  BY StepTyped, AtomicStep, ShutdownStep, ModeStep, OrderedStep
<1>3. I => OrderedDataFirst
  BY DEF OrderedInv, OrderedDataFirst
<1>4. QED
  BY <1>1, <1>2, <1>3, PTL DEF Spec
-----------------------------------------------------------------------------
(* Writeback mode. *)

QueuedAt(b) == {i \in DOMAIN wb.queue : wb.queue[i].block = b}

(* For every data block, the last content a client gave to write_data is    *)
(* the last of its entries in the queue; else the one the writeback thread  *)
(* holds; else at home.                                                     *)
WritebackInv ==
  mgr.mode = "writeback" /\ ~Dead =>
    \A b \in Data :
      /\ \A i \in QueuedAt(b) : (\A k \in QueuedAt(b) : k <= i) => wb.queue[i].data = written[b]
      /\ QueuedAt(b) = {} =>
           IF wb.pc = "write" /\ wb.entry.block = b
           THEN wb.entry.data = written[b]
           ELSE home[b] = written[b]

LEMMA WritebackInit == Init => WritebackInv
BY DEF Init, WritebackInv, QueuedAt, Blocks

LEMMA WritebackStep ==
  ASSUME Meta \cap Data = {}, TypeInv, ModeInv, WritebackInv, [Next]_vars, mgr'.mode = mgr.mode
  PROVE  WritebackInv'
<1> SUFFICES ASSUME mgr.mode = "writeback" PROVE WritebackInv'
  BY DEF WritebackInv
<1>1. Held \cap Data = {}
  BY DEF ModeInv
<1>2. ASSUME ~Dead, UNCHANGED <<wb, written>>, \A b \in Data : home'[b] = home[b]
      PROVE  WritebackInv'
  BY <1>2 DEF WritebackInv, QueuedAt
<1>3. CASE CommitCycle \/ FreezeWake
  BY <1>2, <1>3, FreezeEffect DEF Dead
<1>4. CASE OrderedFlush \/ JournalCommitFails \/ CycleEnd \/ CommitThreadStops
  BY <1>2, <1>4, PcEffect DEF Dead
<1>5. CASE JournalCommit
  BY <1>2, <1>5, JournalCommitEffect DEF Dead
<1>6. CASE Publish \/ EmptyCycle
  BY <1>2, <1>6, CycleEffect DEF Dead
<1>7. CASE CheckpointEnd \/ \E caller \in {"reserve", "lag", "drain"} : CheckpointOldest(caller)
  BY <1>2, <1>7 DEF CheckpointEnd, CheckpointOldest, history, Dead
<1>8. ASSUME NEW b \in Blocks, CheckpointWrite(b) PROVE WritebackInv'
  <2>1. /\ b \in Present(commit.ck.nodes) /\ UNCHANGED <<wb, written>> /\ ~Dead
        /\ home' = [home EXCEPT ![b] = commit.ck.nodes[b].data]
    BY <1>8 DEF CheckpointWrite, history, Dead
  <2>2. b \notin Data
    BY <1>1, <2>1 DEF Held
  <2>3. \A d \in Data : home'[d] = home[d]
    BY <2>1, <2>2 DEF TypeInv, TypeOK, Blocks
  <2>4. QED
    BY <1>2, <2>1, <2>3
<1>9. CASE WritebackPop
  <2> SUFFICES ASSUME ~Dead PROVE WritebackInv'
    BY <1>9 DEF WritebackPop, WritebackInv, Dead
  <2>1. /\ wb.pc = "wait" /\ wb.queue # <<>> /\ UNCHANGED <<home, written>>
        /\ wb'.pc = "write" /\ wb'.entry = Head(wb.queue) /\ wb'.queue = Tail(wb.queue)
    BY <1>9 DEF WritebackPop, TypeInv, TypeOK, WbState, history
  <2>2. wb.queue \in Seq(Queued)
    BY DEF TypeInv, TypeOK, WbState
  <2> DEFINE q == wb.queue
             n == Len(wb.queue)
  <2>3. /\ n \in Nat /\ n >= 1 /\ Head(q) = q[1] /\ DOMAIN q = 1 .. n
        /\ DOMAIN Tail(q) = 1 .. n - 1 /\ \A i \in 1 .. n - 1 : Tail(q)[i] = q[i + 1]
    BY <2>1, <2>2
  <2>4. ASSUME NEW b \in Data
        PROVE  /\ \A i \in QueuedAt(b)' : (\A k \in QueuedAt(b)' : k <= i)
                                            => wb'.queue[i].data = written[b]
               /\ QueuedAt(b)' = {} => IF wb'.entry.block = b THEN wb'.entry.data = written[b]
                                       ELSE home[b] = written[b]
    <3>1. \A i \in Int : i \in QueuedAt(b)' <=> i >= 1 /\ i + 1 \in QueuedAt(b)
      BY <2>1, <2>3 DEF QueuedAt
    <3>2. QueuedAt(b) \subseteq 1 .. n /\ QueuedAt(b)' \subseteq 1 .. n - 1
      BY <2>1, <2>3 DEF QueuedAt
    <3>3. ASSUME NEW i \in QueuedAt(b)', \A k \in QueuedAt(b)' : k <= i
          PROVE  wb'.queue[i].data = written[b]
      <4>1. i \in 1 .. n - 1 /\ i + 1 \in QueuedAt(b)
        BY <3>1, <3>2, <3>3
      <4>2. \A k \in QueuedAt(b) : k <= i + 1
        <5>1. ASSUME NEW k \in QueuedAt(b), k > i + 1 PROVE FALSE
          <6>1. k \in 1 .. n /\ k - 1 \in Int /\ (k - 1) + 1 = k /\ k - 1 >= 1
            BY <2>3, <3>2, <4>1, <5>1
          <6>2. k - 1 \in QueuedAt(b)'
            BY <3>1, <6>1, <5>1
          <6>3. QED
            BY <3>3, <4>1, <5>1, <6>1, <6>2
        <5>2. \A k \in QueuedAt(b) : k \in Int
          BY <2>3, <3>2
        <5>3. QED
          BY <4>1, <5>1, <5>2
      <4>3. q[i + 1].data = written[b]
        BY <4>1, <4>2 DEF WritebackInv
      <4>4. QED
        BY <2>1, <2>3, <4>1, <4>3
    <3>4. ASSUME QueuedAt(b)' = {}
          PROVE  IF wb'.entry.block = b THEN wb'.entry.data = written[b] ELSE home[b] = written[b]
      <4>1. \A k \in QueuedAt(b) : k = 1
        <5>1. ASSUME NEW k \in QueuedAt(b), k # 1 PROVE FALSE
          <6>1. k - 1 \in Int /\ (k - 1) + 1 = k /\ k - 1 >= 1
            BY <2>3, <3>2, <5>1
          <6>2. QED
            BY <3>1, <3>4, <5>1, <6>1
        <5>2. QED
          BY <5>1
      <4>2. CASE 1 \in QueuedAt(b)
        <5>1. q[1].data = written[b] /\ q[1].block = b
          BY <4>1, <4>2 DEF WritebackInv, QueuedAt
        <5>2. QED
          BY <2>1, <2>3, <5>1
      <4>3. CASE 1 \notin QueuedAt(b)
        <5>1. QueuedAt(b) = {} /\ q[1].block # b
          BY <2>3, <4>1, <4>3 DEF QueuedAt
        <5>2. home[b] = written[b]
          BY <2>1, <5>1 DEF WritebackInv
        <5>3. QED
          BY <2>1, <2>3, <5>1, <5>2
      <4>4. QED
        BY <4>2, <4>3
    <3>5. QED
      BY <3>3, <3>4
  <2>5. QED
    BY <2>1, <2>4 DEF WritebackInv
<1>10. CASE WritebackWrite
  <2> SUFFICES ASSUME ~Dead PROVE WritebackInv'
    BY <1>10 DEF WritebackWrite, WritebackInv, Dead
  <2>1. /\ wb.pc = "write" /\ wb'.pc = "wait" /\ wb'.queue = wb.queue /\ UNCHANGED written
        /\ home' = [home EXCEPT ![wb.entry.block] = wb.entry.data]
    BY <1>10 DEF WritebackWrite, TypeInv, TypeOK, WbState, history
  <2>2. \A b \in Data : /\ wb.entry.block = b => home'[b] = wb.entry.data
                        /\ wb.entry.block # b => home'[b] = home[b]
    BY <2>1 DEF TypeInv, TypeOK, Blocks
  <2>3. \A b \in Data : QueuedAt(b)' = QueuedAt(b)
    BY <2>1 DEF QueuedAt
  <2>4. QED
    BY <2>1, <2>2, <2>3 DEF WritebackInv
<1>11. CASE WritebackStops \/ WritebackShutdown
  <2> SUFFICES ASSUME ~Dead PROVE WritebackInv'
    BY <1>11 DEF WritebackStops, WritebackShutdown, WritebackInv, Dead
  <2>1. /\ wb'.queue = wb.queue /\ wb'.entry = wb.entry /\ UNCHANGED <<written, home>>
        /\ wb'.pc = wb.pc \/ (wb'.pc = "done" /\ wb.pc = "wait")
    BY <1>11 DEF WritebackStops, WritebackShutdown, TypeInv, TypeOK, WbState, history
  <2>2. \A b \in Data : QueuedAt(b)' = QueuedAt(b)
    BY <2>1 DEF QueuedAt
  <2>3. QED
    BY <2>1, <2>2 DEF WritebackInv
<1>12. CASE logfs_txnmgr_destroy \/ UNCHANGED vars
  BY <1>12 DEF logfs_txnmgr_destroy, vars, history, WritebackInv, QueuedAt, Dead
<1>13. CASE Abort
  BY <1>13, AbortEffect DEF WritebackInv, Dead
<1>14. ASSUME NEW c \in Clients,
              \/ logfs_txn_start(c) \/ logfs_txn_stop(c) \/ SyncWake(c) \/ SyncReturn(c)
              \/ logfs_txn_commit_sync(c) \/ \E b \in Data : ReadData(c, b)
       PROVE  WritebackInv'
  <2>1. UNCHANGED <<wb, written, home, commit>>
    BY <1>14, QuietEffect
  <2>2. QED
    BY <2>1 DEF WritebackInv, QueuedAt, Dead
<1>15. ASSUME NEW c \in Clients, NEW b \in Meta, logfs_txn_get_write_access(c, b), ~Abort
       PROVE  WritebackInv'
  <2>1. UNCHANGED <<wb, written, home, commit>>
    BY <1>15, AccessEffect
  <2>2. QED
    BY <2>1 DEF WritebackInv, QueuedAt, Dead
<1>16. ASSUME NEW c \in Clients, logfs_txn_write_data(c), ~Abort
       PROVE  WritebackInv'
  <2>0. PICK b \in Data, data \in SUBSET Ops, n \in Nat :
          /\ b = client[c].block /\ data = client[c].buf \cup {client[c].op}
          /\ n = Len(wb.queue)
    <3>1. client[c].block \in Data
      BY <1>16, WriteEffect
    <3>2. client[c].buf \cup {client[c].op} \in SUBSET Ops
      BY <1>16, WriteEffect DEF TypeInv, TypeOK, CallsSound, ClientState
    <3>3. Len(wb.queue) \in Nat
      BY DEF TypeInv, TypeOK, WbState
    <3>4. QED
      BY <3>1, <3>2, <3>3
  <2>1. /\ UNCHANGED <<commit, home>>
        /\ wb' = [wb EXCEPT !.queue = Append(@, [block |-> b, data |-> data])]
        /\ written' = [written EXCEPT ![b] = data]
    BY <1>16, <2>0, WriteEffect DEF writeback_queue_push
  <2> SUFFICES ASSUME ~Dead PROVE WritebackInv'
    BY <2>1 DEF WritebackInv, Dead
  <2>2. wb.queue \in Seq(Queued)
    BY DEF TypeInv, TypeOK, WbState
  <2>3. /\ wb'.pc = wb.pc /\ wb'.entry = wb.entry
        /\ wb'.queue = Append(wb.queue, [block |-> b, data |-> data])
    BY <2>1 DEF TypeInv, TypeOK, WbState
  <2>4. /\ n \in Nat /\ DOMAIN wb.queue = 1 .. n /\ DOMAIN wb'.queue = 1 .. n + 1
        /\ \A i \in 1 .. n : wb'.queue[i] = wb.queue[i]
        /\ wb'.queue[n + 1].block = b /\ wb'.queue[n + 1].data = data
    BY <2>0, <2>2, <2>3
  <2>5. written'[b] = data /\ \A a \in Data \ {b} : written'[a] = written[a]
    BY <2>1 DEF TypeInv, TypeOK, Blocks
  <2>6. n + 1 \in QueuedAt(b)'
    <3>1. n + 1 \in DOMAIN wb'.queue
      BY <2>4
    <3>2. QED
      BY <2>4, <3>1 DEF QueuedAt
  <2>7. \A i \in QueuedAt(b)' : (\A k \in QueuedAt(b)' : k <= i) => wb'.queue[i].data = written'[b]
    <3>1. ASSUME NEW i \in QueuedAt(b)', \A k \in QueuedAt(b)' : k <= i PROVE i = n + 1
      <4>1. i \in 1 .. n + 1 /\ n + 1 <= i
        BY <2>4, <2>6, <3>1 DEF QueuedAt
      <4>2. QED
        BY <2>4, <4>1
    <3>2. QED
      BY <2>4, <2>5, <3>1
  <2>8. ASSUME NEW a \in Data, a # b
        PROVE  /\ QueuedAt(a)' = QueuedAt(a)
               /\ \A i \in QueuedAt(a) : wb'.queue[i] = wb.queue[i]
    <3>1. \A i \in 1 .. n + 1 : i \in 1 .. n \/ i = n + 1
      BY <2>4
    <3>2. \A i \in 1 .. n : i \in 1 .. n + 1
      BY <2>4
    <3>3. QED
      BY <2>4, <2>8, <3>1, <3>2 DEF QueuedAt
  <2>9. ASSUME NEW a \in Data
        PROVE  /\ \A i \in QueuedAt(a)' : (\A k \in QueuedAt(a)' : k <= i)
                                            => wb'.queue[i].data = written'[a]
               /\ QueuedAt(a)' = {} => IF wb'.pc = "write" /\ wb'.entry.block = a
                                       THEN wb'.entry.data = written'[a]
                                       ELSE home'[a] = written'[a]
    <3>1. CASE a = b
      BY <2>6, <2>7, <3>1
    <3>2. CASE a # b
      <4>1. /\ \A i \in QueuedAt(a) : (\A k \in QueuedAt(a) : k <= i) => wb.queue[i].data = written[a]
            /\ QueuedAt(a) = {} => IF wb.pc = "write" /\ wb.entry.block = a
                                   THEN wb.entry.data = written[a]
                                   ELSE home[a] = written[a]
        BY DEF WritebackInv
      <4>2. QED
        BY <2>1, <2>3, <2>5, <2>8, <3>2, <4>1
    <3>3. QED
      BY <3>1, <3>2
  <2>10. QED
    BY <2>9 DEF WritebackInv
<1>17. ASSUME NEW c \in Clients, InCall(c) \/ Call(c), ~Abort PROVE WritebackInv'
  BY <1>14, <1>15, <1>16, <1>17, ClientCases
<1>18. QED
  BY <1>3, <1>4, <1>5, <1>6, <1>7, <1>8, <1>9, <1>10, <1>11, <1>12, <1>13, <1>17, NextCases
  DEF WritebackThread

(* Writeback mode (writeback_thread_main, logfs_txnmgr_destroy): unmount    *)
(* leaves every data block with what a client wrote to it last, although    *)
(* the queue, the commit thread and the unmount are not synchronized with   *)
(* each other.                                                              *)
THEOREM QueueReachesHome ==
  ASSUME Meta \cap Data = {}
  PROVE  Spec => []WritebackComplete
<1> DEFINE I == TypeInv /\ ShutdownInv /\ ModeInv /\ WritebackInv
<1>1. Init => I
  BY InitTyped, ShutdownInit, ModeInit, WritebackInit
<1>2. I /\ [Next]_vars => I'
  BY StepTyped, ShutdownStep, ModeStep, WritebackStep
<1>3. I => WritebackComplete
  <2> SUFFICES ASSUME I, mgr.mode = "writeback", commit.pc = "done", wb.pc = "done", NEW b \in Data
               PROVE  home[b] = written[b]
    BY DEF WritebackComplete
  <2>1. wb.queue = <<>>
    BY DEF ShutdownInv
  <2>2. QueuedAt(b) = {}
    BY <2>1 DEF QueuedAt
  <2>3. QED
    BY <2>2 DEF WritebackInv, Dead
<1>4. QED
  BY <1>1, <1>2, <1>3, PTL DEF Spec
-----------------------------------------------------------------------------
(* fsync(). *)

(* ndirty counts the nodes of the staging table.                            *)
LEMMA DirtyCount == ndirty \in Nat /\ (ndirty = 0 <=> Present(staged) = {})
<1>1. IsFiniteSet(Blocks)
  BY TxnAssumption, FS_Union DEF Blocks
<1>2. Present(staged) \subseteq Blocks
  BY DEF Present
<1>3. IsFiniteSet(Present(staged))
  BY <1>1, <1>2, FS_Subset
<1>4. QED
  BY <1>3, FS_CardinalityType, FS_EmptySet DEF ndirty

(* The commit under way, from the freeze to Publish.                        *)
Committing == \/ commit.pc \in {"ordered", "reserve", "publish"}
              \/ commit.pc = "ckwrite" /\ commit.caller = "reserve"

(* generation_seq numbers the next transaction and is not completed; a      *)
(* request stands for staged blocks; and what an fsync() waits for is in    *)
(* the running generation until that is taken, then in the hands of the     *)
(* commit thread, and in the journal before completed_through says so.      *)
SyncInv ==
  /\ mgr.commit_requested => Present(staged) # {}
  /\ commit.pc = "freeze" => Present(staged) # {}
  /\ commit.pc # "empty" /\ (commit.pc = "ordered" => Present(commit.nodes) # {})
  /\ mgr.completed_through < mgr.generation_seq
  /\ commit.pc = "publish" => commit.ok /\ OpsIn(commit.nodes) \subseteq stable
  /\ ~Dead => journal.next_sequence = mgr.generation_seq + (IF commit.pc = "publish" THEN 1 ELSE 0)
  /\ \A c \in Clients :
       /\ client[c].pc = "synced" => client[c].need \subseteq stable
       /\ client[c].pc = "syncing" =>
            \/ mgr.completed_through >= client[c].target /\ client[c].need \subseteq stable
            \/ /\ client[c].target = mgr.generation_seq
               /\ \/ commit.pc \in {"check", "freeze"} /\ client[c].need \subseteq OpsIn(staged)
                  \/ Committing /\ client[c].need \subseteq OpsIn(commit.nodes) \cup stable

LEMMA SyncInit == Init => SyncInv
<1> SUFFICES ASSUME Init PROVE SyncInv
  OBVIOUS
<1>1. commit.pc = "check" /\ journal.next_sequence = 1 /\ \A c \in Clients : client[c].pc = "idle"
  BY DEF Init, NoCommit, NoClient
<1>2. ~mgr.commit_requested
  BY MgrInit, Zenon
<1>3. mgr.completed_through < mgr.generation_seq
  BY MgrInit
<1>4. journal.next_sequence = mgr.generation_seq + (IF commit.pc = "publish" THEN 1 ELSE 0)
  BY <1>1, MgrInit
<1>5. QED
  BY <1>1, <1>2, <1>3, <1>4 DEF SyncInv

LEMMA EmptyOps ==
  ASSUME NEW nodes, Present(nodes) = {}
  PROVE  OpsIn(nodes) = {}
BY DEF Present, OpsIn

LEMMA SyncStep ==
  ASSUME Conditions \cap {"failure", "busySync", "idleSync"} = {},
         TypeInv, ShutdownInv, PhaseInv, SyncInv, [Next]_vars
  PROVE  SyncInv'
<1>1. /\ mgr.completed_through \in Nat /\ mgr.generation_seq \in Nat /\ journal.next_sequence \in Nat
      /\ \A c \in Clients : client[c].target \in Nat
  BY DEF TypeInv, TypeOK, MgrState, ClientState
<1>2. CASE CommitCycle \/ FreezeWake
  <2>1. commit.pc \in {"check", "freeze"} /\ UNCHANGED <<client, journal, stable>>
    BY <1>2, FreezeEffect
  <2>2. Present(staged) # {}
    BY <1>2, DirtyCount DEF CommitCycle, FreezeWake, SyncInv
  <2>3. CASE Flatten
    <3>1. /\ commit'.pc = "ordered" /\ commit'.nodes = staged
          /\ mgr'.generation_seq = mgr.generation_seq
          /\ mgr'.completed_through = mgr.completed_through
          /\ mgr'.commit_requested = FALSE
      BY <2>3, FlattenEffect
    <3>2. QED
      BY <2>1, <2>2, <3>1 DEF SyncInv, Dead, Committing
  <2>4. CASE ~Flatten
    <3>1. /\ commit'.pc = "freeze" /\ UNCHANGED staged
          /\ mgr'.generation_seq = mgr.generation_seq
          /\ mgr'.completed_through = mgr.completed_through
          /\ mgr'.commit_requested = mgr.commit_requested
      BY <1>2, <2>4, FreezeEffect
    <3>2. QED
      BY <2>1, <2>2, <3>1 DEF SyncInv, Dead, Committing
  <2>5. QED
    BY <2>3, <2>4
<1>3. CASE OrderedFlush \/ JournalCommitFails \/ CycleEnd \/ CommitThreadStops
  <2>1. UNCHANGED <<mgr, staged, client, journal, stable>> /\ commit'.nodes = commit.nodes
    BY <1>3, PcEffect
  <2>2. \/ commit.pc = "ordered" /\ commit'.pc = "reserve"
        \/ commit.pc = "lag" /\ commit'.pc = "check"
        \/ commit.pc = "check" /\ commit'.pc = "drain" /\ mgr.shutdown
        \/ commit.pc = "drain" /\ commit'.pc = "done"
    BY <1>3, PcEffect DEF SyncInv
  <2>3. mgr.shutdown => \A c \in Clients : client[c].pc = "idle"
    BY DEF ShutdownInv
  <2>4. QED
    BY <2>1, <2>2, <2>3 DEF SyncInv, Dead, Committing
<1>4. CASE JournalCommit
  <2>1. /\ UNCHANGED <<mgr, staged, client>> /\ commit'.nodes = commit.nodes
        /\ commit.pc = "reserve" /\ commit'.pc = "publish" /\ commit'.ok = TRUE
        /\ journal'.next_sequence = journal.next_sequence + 1
        /\ stable' = stable \cup OpsIn(commit.nodes)
    BY <1>4, JournalCommitEffect
  <2>2. journal'.next_sequence = mgr.generation_seq + 1
    BY <1>1, <2>1 DEF SyncInv, Dead
  <2>3. QED
    BY <2>1, <2>2 DEF SyncInv, Dead, Committing
<1>5. CASE Publish \/ EmptyCycle
  <2>1. /\ UNCHANGED <<staged, client, journal, stable>>
        /\ commit'.pc = "lag" /\ commit.pc = "publish"
        /\ mgr'.completed_through = mgr.generation_seq
        /\ mgr'.commit_requested = mgr.commit_requested
        /\ mgr'.generation_seq = journal.next_sequence
    BY <1>5, CycleEffect DEF SyncInv
  <2>2. journal.next_sequence = mgr.generation_seq + 1 /\ OpsIn(commit.nodes) \subseteq stable
    BY <2>1 DEF SyncInv, Dead
  <2>3. \A c \in Clients : client[c].pc = "syncing" =>
          mgr'.completed_through >= client[c].target /\ client[c].need \subseteq stable
    BY <1>1, <2>1, <2>2 DEF SyncInv
  <2>4. mgr'.completed_through < mgr'.generation_seq
    BY <1>1, <2>1, <2>2
  <2>5. QED
    BY <1>1, <2>1, <2>2, <2>3, <2>4 DEF SyncInv, Dead
<1>6. CASE \/ CheckpointEnd
           \/ \E caller \in {"reserve", "lag", "drain"} : CheckpointOldest(caller)
           \/ \E b \in Blocks : CheckpointWrite(b)
  <2>1. UNCHANGED <<mgr, staged, client, journal, stable>> /\ commit'.nodes = commit.nodes
    BY <1>6, CheckpointEffect
  <2>2. \/ commit.pc = "ckwrite" /\ commit'.pc = commit.caller /\ commit.caller \in {"reserve", "lag", "drain"}
        \/ commit.pc \in {"reserve", "lag", "drain"} /\ commit'.pc = "ckwrite" /\ commit'.caller = commit.pc
        \/ commit.pc = "ckwrite" /\ commit'.pc = "ckwrite" /\ commit'.caller = commit.caller
    BY <1>6, CheckpointEffect
  <2>3. QED
    BY <2>1, <2>2 DEF SyncInv, Dead, Committing
<1>7. ASSUME UNCHANGED <<commit, journal, stable>>,
             mgr'.generation_seq = mgr.generation_seq,
             mgr'.completed_through = mgr.completed_through,
             mgr'.commit_requested = mgr.commit_requested,
             OpsIn(staged) \subseteq OpsIn(staged'), Present(staged) \subseteq Present(staged'),
             \A c \in Clients : client'[c].pc \in {"syncing", "synced"} => client'[c] = client[c]
      PROVE  SyncInv'
  BY <1>7 DEF SyncInv, Dead, Committing
<1>8. CASE WritebackThread \/ logfs_txnmgr_destroy \/ WritebackShutdown \/ UNCHANGED vars
  BY <1>7, <1>8, OtherEffect
<1>9. CASE Abort
  BY <1>9, AbortEffect DEF SyncInv, Dead
<1>10. ASSUME NEW c \in Clients, logfs_txn_start(c) \/ logfs_txn_stop(c) \/ SyncReturn(c)
                                 \/ \E b \in Data : ReadData(c, b)
       PROVE  SyncInv'
  <2>1. UNCHANGED <<mgr, commit, journal, stable, staged>>
    BY <1>10 DEF logfs_txn_start, logfs_txn_stop, SyncReturn, ReadData, history
  <2>2. /\ \A d \in Clients \ {c} : client'[d] = client[d]
        /\ client'[c].pc \in {"idle", "starting", "running", "writing"}
    <3> USE DEF TypeInv, TypeOK, ClientState
    <3>1. CASE logfs_txn_start(c)
      BY <3>1 DEF logfs_txn_start
    <3>2. CASE logfs_txn_stop(c) \/ SyncReturn(c)
      BY <3>2 DEF logfs_txn_stop, SyncReturn, NoClient
    <3>3. CASE \E b \in Data : ReadData(c, b)
      BY <3>3 DEF ReadData
    <3>4. QED
      BY <1>10, <3>1, <3>2, <3>3
  <2>3. QED
    BY <1>7, <2>1, <2>2
<1>11. ASSUME NEW c \in Clients, SyncWake(c) PROVE SyncInv'
  <2>1. UNCHANGED <<mgr, commit, journal, stable, staged>> /\ client[c].pc = "syncing"
    BY <1>11 DEF SyncWake, history
  <2>2. CASE UNCHANGED client
    BY <1>7, <2>1, <2>2
  <2>3. CASE ~UNCHANGED client
    <3>1. client' = [client EXCEPT ![c].pc = "synced"] /\ (mgr.completed_through >= client[c].target \/ mgr.shutdown)
      BY <1>1, <1>11, <2>3 DEF SyncWake
    <3>2. /\ client'[c].need = client[c].need /\ client'[c].pc = "synced"
          /\ \A d \in Clients \ {c} : client'[d] = client[d]
      BY <3>1 DEF TypeInv, TypeOK, ClientState
    <3>3. client[c].need \subseteq stable
      BY <1>1, <2>1, <3>1 DEF SyncInv, ShutdownInv
    <3>4. QED
      BY <2>1, <3>2, <3>3 DEF SyncInv, Dead, Committing
  <2>4. QED
    BY <2>2, <2>3
<1>12. ASSUME NEW c \in Clients, logfs_txn_commit_sync(c) PROVE SyncInv'
  <2>1. /\ commit.pc \in {"check", "freeze"} /\ ndirty # 0
        /\ UNCHANGED <<commit, journal, stable, staged>>
        /\ mgr' = [mgr EXCEPT !.commit_requested = TRUE]
    BY <1>12 DEF logfs_txn_commit_sync, history
  <2>2. Present(staged) # {}
    BY <2>1, DirtyCount
  <2>3. client' = [client EXCEPT ![c].pc = "syncing", ![c].target = mgr.generation_seq,
                                 ![c].need = Finished]
    BY <1>12 DEF logfs_txn_commit_sync, SyncInv
  <2>4. /\ client'[c].pc = "syncing" /\ client'[c].target = mgr.generation_seq
        /\ client'[c].need = Finished /\ \A d \in Clients \ {c} : client'[d] = client[d]
    BY <2>3 DEF TypeInv, TypeOK, ClientState
  <2>5. Finished \subseteq OpsIn(staged)
    BY <2>1, EmptyOps DEF Finished, PhaseInv
  <2>6. /\ mgr'.generation_seq = mgr.generation_seq
        /\ mgr'.completed_through = mgr.completed_through
    BY <2>1 DEF TypeInv, TypeOK, MgrState
  <2>7. QED
    BY <2>1, <2>2, <2>4, <2>5, <2>6 DEF SyncInv, Dead, Committing
<1>13. ASSUME NEW c \in Clients, NEW b \in Meta, logfs_txn_get_write_access(c, b), ~Abort
       PROVE  SyncInv'
  <2>1. PICK data : /\ Stage(b, data, client[c].op) /\ b \in Blocks
                    /\ UNCHANGED <<mgr, commit, journal, stable, client>>
    BY <1>13, AccessEffect DEF Blocks
  <2>2. OpsIn(staged) \subseteq OpsIn(staged') /\ Present(staged) \subseteq Present(staged')
    BY <2>1, StageOps DEF TypeInv
  <2>3. QED
    BY <1>7, <2>1, <2>2
<1>14. ASSUME NEW c \in Clients, logfs_txn_write_data(c), ~Abort
       PROVE  SyncInv'
  <2>1. /\ UNCHANGED <<commit, journal, stable>> /\ client'[c].pc = "running"
        /\ \A d \in Clients \ {c} : client'[d] = client[d]
        /\ mgr'.generation_seq = mgr.generation_seq
        /\ mgr'.completed_through = mgr.completed_through
        /\ mgr'.commit_requested = mgr.commit_requested
    BY <1>14, WriteEffect
  <2>2. client[c].block \in Blocks /\ \/ UNCHANGED staged
                                      \/ \E data : Stage(client[c].block, data, client[c].op)
    BY <1>14, WriteEffect DEF Blocks
  <2>3. OpsIn(staged) \subseteq OpsIn(staged') /\ Present(staged) \subseteq Present(staged')
    BY <2>2, StageOps DEF TypeInv
  <2>4. QED
    BY <1>7, <2>1, <2>3
<1>15. ASSUME NEW c \in Clients, InCall(c) \/ Call(c), ~Abort PROVE SyncInv'
  BY <1>10, <1>11, <1>12, <1>13, <1>14, <1>15, ClientCases
<1>16. QED
  BY <1>2, <1>3, <1>4, <1>5, <1>6, <1>8, <1>9, <1>15, NextCases

(* fsync() (txn.h: "blocks until it is durable in the journal"): when       *)
(* logfs_txn_commit_sync returns, every operation finished before the call  *)
(* is in the journal, for calls made with blocks staged and no commit under *)
(* way, while the journal reports no error.  Operations may start at any    *)
(* moment, during commits too.                                              *)
THEOREM SyncedIsDurable ==
  ASSUME Conditions \cap {"failure", "busySync", "idleSync"} = {}
  PROVE  Spec => []SyncMeansDurable
<1> DEFINE I == TypeInv /\ ShutdownInv /\ PhaseInv /\ SyncInv
<1>1. Init => I
  BY InitTyped, ShutdownInit, PhaseInit, SyncInit
<1>2. I /\ [Next]_vars => I'
  BY StepTyped, ShutdownStep, PhaseStep, SyncStep
<1>3. I => SyncMeansDurable
  BY DEF SyncInv, SyncMeansDurable
<1>4. QED
  BY <1>1, <1>2, <1>3, PTL DEF Spec
=============================================================================
