------------------------- MODULE TxnRecoveryProofs -------------------------
(***************************************************************************)
(* Theorems about TxnManager: what a crash brings back, what a read shows  *)
(* and what unmount leaves behind.                                         *)
(***************************************************************************)
EXTENDS TxnProofs

-----------------------------------------------------------------------------
(* What a crash brings back. *)

(* The copy of a transaction, where it has one, over what lies below.       *)
Over(nodes, b, below) == IF b \in Present(nodes) THEN nodes[b].data ELSE below

(* Recoverable, layer by layer: the commit thread's published transaction   *)
(* over the checkpoint list over the transaction being checkpointed over    *)
(* the disk.                                                                *)
Restored(c, list, b, disk) ==
  LET listed == Newest(list, b, Over(c.ck.nodes, b, disk))
  IN  IF c.pc = "publish" /\ c.ok THEN Over(c.nodes, b, listed) ELSE listed

LEMMA NewestEmpty ==
  ASSUME NEW b \in Blocks, NEW disk
  PROVE  Newest(<<>>, b, disk) = disk
<1> DEFINE L == <<>>
<1>1. L \in Seq(Committed) /\ DOMAIN L = {}
  OBVIOUS
<1> HIDE DEF L
<1>2. Newest(L, b, disk) = disk
  BY <1>1, NewestNone
<1>3. QED
  BY <1>2 DEF L

LEMMA RestoredIs ==
  ASSUME NEW c \in CommitState, NEW list \in Seq(Committed), NEW b \in Blocks, NEW disk,
         NEW s \in Nat
  PROVE  Newest(IF c.pc = "publish" /\ c.ok
                THEN Append(<<c.ck>> \o list, [sequence |-> s, nodes |-> c.nodes])
                ELSE <<c.ck>> \o list, b, disk)
           = Restored(c, list, b, disk)
<1> DEFINE L == <<c.ck>> \o list
           t == [sequence |-> s, nodes |-> c.nodes]
<1>1. c.ck \in Committed /\ t \in Committed /\ t.nodes = c.nodes
  BY DEF CommitState, Committed
<1>2. <<c.ck>> \in Seq(Committed) /\ Len(<<c.ck>>) = 1 /\ <<c.ck>>[1] = c.ck
  BY <1>1
<1>3. L \in Seq(Committed) /\ L # <<>> /\ Head(L) = c.ck /\ Tail(L) = list
  BY <1>2, ConcatProperties
<1> HIDE DEF L, t
<1>4. Newest(L, b, disk) = Newest(list, b, Over(c.ck.nodes, b, disk))
  BY <1>3, NewestTail DEF Over
<1>5. Newest(Append(L, t), b, disk) = Over(c.nodes, b, Newest(L, b, disk))
  BY <1>1, <1>3, NewestAppend DEF Over
<1>6. QED
  BY <1>4, <1>5 DEF L, t, Restored

LEMMA RecoverableIs ==
  ASSUME TypeInv, NEW b \in Blocks
  PROVE  Recoverable(b) = Restored(commit, ckpt, b, home[b])
<1>1. commit \in CommitState /\ ckpt \in Seq(Committed) /\ journal.next_sequence - 1 \in Nat
  BY DEF TypeInv, TypeOK, CallsSound
<1>2. QED
  BY <1>1, RestoredIs DEF Recoverable

(* The layers together are the last committed content.                      *)
RecoverInv == ~Dead => \A b \in Journaled : Restored(commit, ckpt, b, home[b]) = durable[b]

LEMMA RecoverInit == Init => RecoverInv
<1> SUFFICES ASSUME Init PROVE RecoverInv
  OBVIOUS
<1>1. ASSUME NEW b \in Blocks PROVE Restored(commit, ckpt, b, home[b]) = durable[b]
  <2>1. /\ commit.pc = "check" /\ Present(commit.ck.nodes) = {} /\ ckpt = <<>>
        /\ home[b] = {} /\ durable[b] = {}
    BY NoNodesEmpty DEF Init, NoCommit, NoTxn
  <2>2. Newest(<<>>, b, {}) = {}
    BY NewestEmpty
  <2>3. QED
    BY <2>1, <2>2 DEF Restored, Over
<1>2. QED
  BY <1>1 DEF RecoverInv, Journaled, Blocks

(* A process whose assertion has failed stays dead.                         *)
LEMMA DeadStays ==
  ASSUME TypeInv, Dead, [Next]_vars
  PROVE  Dead'
<1>1. CASE CommitCycle \/ FreezeWake
  BY <1>1, FreezeEffect DEF Dead
<1>2. CASE OrderedFlush \/ JournalCommitFails \/ CycleEnd \/ CommitThreadStops
  BY <1>2, PcEffect DEF Dead
<1>3. CASE JournalCommit
  BY <1>3, JournalCommitEffect DEF Dead
<1>4. CASE Publish \/ EmptyCycle
  BY <1>4, CycleEffect DEF Dead
<1>5. CASE \/ CheckpointEnd
           \/ \E caller \in {"reserve", "lag", "drain"} : CheckpointOldest(caller)
           \/ \E b \in Blocks : CheckpointWrite(b)
  BY <1>5, CheckpointEffect DEF Dead
<1>6. CASE WritebackThread \/ logfs_txnmgr_destroy \/ WritebackShutdown \/ UNCHANGED vars
  BY <1>6, OtherEffect DEF Dead
<1>7. ASSUME NEW c \in Clients, InCall(c) \/ Call(c) PROVE Dead'
  BY <1>7, ClientCases, QuietEffect, AccessEffect, WriteEffect, AbortEffect DEF Dead
<1>8. QED
  BY <1>1, <1>2, <1>3, <1>4, <1>5, <1>6, <1>7, NextCases

LEMMA RecoverStep ==
  ASSUME TypeInv, PhaseInv, ModeInv, RecoverInv, [Next]_vars, mgr'.mode = mgr.mode
  PROVE  RecoverInv'
<1> DEFINE Kept(b) == Restored(commit', ckpt', b, home'[b]) = durable'[b]
<1>1. Journaled' = Journaled /\ Journaled \subseteq Blocks
  BY DEF Journaled, Blocks
<1>2. SUFFICES ASSUME ~Dead, ~Dead', NEW b \in Journaled PROVE Kept(b)
  <2>1. CASE Dead
    <3>1. Dead'
      BY <2>1, DeadStays
    <3>2. QED
      BY <3>1 DEF RecoverInv
  <2>2. QED
    BY <1>1, <1>2, <2>1 DEF RecoverInv
<1>3. Restored(commit, ckpt, b, home[b]) = durable[b] /\ b \in Blocks
  BY <1>1, <1>2 DEF RecoverInv
<1>4. b \in Data => mgr.mode = "journal"
  BY <1>2 DEF Journaled
<1>5. CASE CommitCycle \/ FreezeWake
  <2>1. /\ UNCHANGED <<ckpt, home, durable>> /\ commit'.ck = commit.ck
        /\ commit.pc # "publish" /\ commit'.pc # "publish"
    BY <1>5, FreezeEffect, FlattenEffect
  <2>2. QED
    BY <1>3, <2>1 DEF Restored
<1>6. CASE OrderedFlush \/ JournalCommitFails \/ CycleEnd \/ CommitThreadStops
  <2>1. /\ UNCHANGED <<ckpt, home, durable>> /\ commit'.ck = commit.ck
        /\ commit.pc # "publish" /\ ~(commit'.pc = "publish" /\ commit'.ok)
    BY <1>6, PcEffect
  <2>2. QED
    BY <1>3, <2>1 DEF Restored
<1>7. CASE JournalCommit
  <2>1. /\ UNCHANGED <<ckpt, home>> /\ commit'.ck = commit.ck /\ commit'.nodes = commit.nodes
        /\ commit.pc = "reserve" /\ commit'.pc = "publish" /\ commit'.ok = TRUE
        /\ durable'[b] = Over(commit.nodes, b, durable[b])
    BY <1>3, <1>7, JournalCommitEffect DEF Over
  <2>2. QED
    BY <1>3, <2>1 DEF Restored
<1>8. CASE Publish \/ EmptyCycle
  <2>1. /\ UNCHANGED <<home, durable>> /\ Present(commit'.ck.nodes) = {}
        /\ commit'.pc # "publish"
    BY <1>8, CycleEffect, NoNodesEmpty
  <2>2. Present(commit.ck.nodes) = {}
    BY <1>8, CycleEffect DEF PhaseInv
  <2>3. CASE commit.pc = "publish" /\ commit.ok
    <3> DEFINE t == [sequence |-> journal.next_sequence - 1, nodes |-> commit.nodes]
    <3>1. ckpt' = Append(ckpt, t)
      BY <1>8, <2>3, CycleEffect
    <3>2. t \in Committed /\ t.nodes = commit.nodes /\ ckpt \in Seq(Committed)
      BY DEF TypeInv, TypeOK, CallsSound, CommitState, Committed
    <3> HIDE DEF t
    <3>3. Newest(Append(ckpt, t), b, home[b]) = Over(commit.nodes, b, Newest(ckpt, b, home[b]))
      BY <1>3, <3>2, NewestAppend DEF Over
    <3>4. QED
      BY <1>3, <2>1, <2>2, <2>3, <3>1, <3>3 DEF Restored, Over
  <2>4. CASE ~(commit.pc = "publish" /\ commit.ok)
    <3>1. ckpt' = ckpt
      BY <1>8, <2>4, CycleEffect
    <3>2. QED
      BY <1>3, <2>1, <2>2, <2>4, <3>1 DEF Restored, Over
  <2>5. QED
    BY <2>3, <2>4
<1>9. CASE CheckpointEnd
  <2>1. /\ UNCHANGED <<ckpt, home, durable>>
        /\ Present(commit.ck.nodes) = {} /\ Present(commit'.ck.nodes) = {}
        /\ commit.pc # "publish" /\ commit'.pc # "publish"
    BY <1>9, CheckpointEffect, NoNodesEmpty DEF CheckpointEnd
  <2>2. QED
    BY <1>3, <2>1 DEF Restored, Over
<1>10. ASSUME NEW caller \in {"reserve", "lag", "drain"}, CheckpointOldest(caller) PROVE Kept(b)
  <2>1. /\ UNCHANGED <<home, durable>> /\ commit.pc = caller /\ ckpt # <<>>
        /\ ckpt' = Tail(ckpt) /\ commit'.ck = Head(ckpt) /\ commit'.pc = "ckwrite"
    BY <1>10 DEF CheckpointOldest, history, TypeInv, TypeOK, CommitState
  <2>2. Present(commit.ck.nodes) = {}
    BY <2>1 DEF PhaseInv
  <2>3. ckpt \in Seq(Committed)
    BY DEF TypeInv, TypeOK
  <2>4. Newest(ckpt, b, home[b]) = Newest(Tail(ckpt), b, Over(Head(ckpt).nodes, b, home[b]))
    BY <1>3, <2>1, <2>3, NewestTail DEF Over
  <2>5. Restored(commit, ckpt, b, home[b]) = Newest(ckpt, b, home[b])
    BY <2>1, <2>2 DEF Restored, Over
  <2>6. QED
    BY <1>3, <2>1, <2>4, <2>5 DEF Restored
<1>11. ASSUME NEW a \in Blocks, CheckpointWrite(a) PROVE Kept(b)
  <2>1. /\ UNCHANGED <<ckpt, durable>> /\ commit.pc = "ckwrite" /\ commit'.pc = "ckwrite"
        /\ a \in Present(commit.ck.nodes)
        /\ commit'.ck.nodes = [commit.ck.nodes EXCEPT ![a] = NoNode]
        /\ home' = [home EXCEPT ![a] = commit.ck.nodes[a].data]
    BY <1>11 DEF CheckpointWrite, history, TypeInv, TypeOK, CommitState, Committed
  <2>2. commit.ck.nodes \in Nodes /\ home \in [Blocks -> SUBSET Ops]
    BY DEF TypeInv, TypeOK, CommitState, Committed
  <2>3. Over(commit'.ck.nodes, b, home'[b]) = Over(commit.ck.nodes, b, home[b])
    BY <1>3, <2>1, <2>2 DEF Over, Present, Nodes, NoNode
  <2>4. QED
    BY <1>3, <2>1, <2>3 DEF Restored
<1>12. ASSUME UNCHANGED <<ckpt, commit, durable>>, home'[b] = home[b] PROVE Kept(b)
  BY <1>3, <1>12
<1>13. CASE WritebackThread \/ logfs_txnmgr_destroy \/ WritebackShutdown \/ UNCHANGED vars
  <2>1. CASE WritebackWrite
    <3>1. wb.pc = "write" /\ home' = [home EXCEPT ![wb.entry.block] = wb.entry.data]
      BY <2>1 DEF WritebackWrite
    <3>2. wb.entry.block \in Data /\ mgr.mode = "writeback"
      BY <3>1 DEF TypeInv, CallsSound, ModeInv
    <3>3. home'[b] = home[b]
      BY <1>3, <1>4, <3>1, <3>2 DEF TypeInv, TypeOK
    <3>4. QED
      BY <1>12, <1>13, <3>3, OtherEffect
  <2>2. CASE ~WritebackWrite
    BY <1>12, <1>13, <2>2, OtherEffect
  <2>3. QED
    BY <2>1, <2>2
<1>14. ~Abort
  BY <1>2, AbortEffect DEF Dead
<1>15. ASSUME NEW c \in Clients,
              \/ logfs_txn_start(c) \/ logfs_txn_stop(c) \/ SyncWake(c) \/ SyncReturn(c)
              \/ logfs_txn_commit_sync(c) \/ \E a \in Data : ReadData(c, a)
       PROVE  Kept(b)
  BY <1>12, <1>15, QuietEffect
<1>16. ASSUME NEW c \in Clients, NEW a \in Meta, logfs_txn_get_write_access(c, a) PROVE Kept(b)
  BY <1>12, <1>14, <1>16, AccessEffect
<1>17. ASSUME NEW c \in Clients, logfs_txn_write_data(c) PROVE Kept(b)
  <2>1. /\ UNCHANGED <<ckpt, commit, durable>> /\ client[c].block \in Data
        /\ \/ home' = home
           \/ /\ mgr.mode = "ordered"
              /\ home' = [home EXCEPT ![client[c].block] = client[c].buf \cup {client[c].op}]
    BY <1>14, <1>17, WriteEffect
  <2>2. home'[b] = home[b]
    BY <1>3, <1>4, <2>1 DEF TypeInv, TypeOK
  <2>3. QED
    BY <1>12, <2>1, <2>2
<1>18. ASSUME NEW c \in Clients, InCall(c) \/ Call(c) PROVE Kept(b)
  <2> HIDE DEF Kept
  <2>1. QED
    BY <1>15, <1>16, <1>17, <1>18, ClientCases
<1> HIDE DEF Kept
<1>19. QED
  BY <1>5, <1>6, <1>7, <1>8, <1>9, <1>10, <1>11, <1>13, <1>18, NextCases

(* Commit, publish and checkpoint (do_commit, checkpoint_oldest): at every  *)
(* moment, also in the middle of a checkpoint or between the commit block   *)
(* and the list, the newest copy among the transactions not yet at home,    *)
(* else the home location, is the content last committed.  Needs no         *)
(* assumption on the clients: it holds in every mode, with failing commits  *)
(* and with operations that overlap a commit.                               *)
THEOREM CheckpointsKeepCommitted == Spec => []CommittedRecoverable
<1> DEFINE I == TypeInv /\ PhaseInv /\ ModeInv /\ RecoverInv
<1>1. Init => I
  BY InitTyped, PhaseInit, ModeInit, RecoverInit
<1>2. I /\ [Next]_vars => I'
  BY StepTyped, PhaseStep, ModeStep, RecoverStep
<1>3. I => CommittedRecoverable
  BY RecoverableIs DEF RecoverInv, CommittedRecoverable, Journaled, Blocks
<1>4. QED
  BY <1>1, <1>2, <1>3, PTL DEF Spec
-----------------------------------------------------------------------------
(* What a read shows. *)

(* What the theorems on reads and unmount assume, and why they must:        *)
(*   "overlap"    an operation that starts during a commit reads past the   *)
(*                transaction in the commit thread's hands (TxnLostUpdate); *)
(*   "failure"    a generation whose commit failed is dropped;              *)
(*   "writeback"  a read does not look into the writeback queue.            *)
QuietReads ==
  /\ "overlap" \notin Conditions /\ "failure" \notin Conditions
  /\ "writeback" \notin Modes /\ Meta \cap Data = {}

(* A journaled block's content is that of the running generation, else of   *)
(* the transaction in the commit thread's hands, else the last committed;   *)
(* any other block's is at home; and a client inside write_data has it.     *)
FreshInv ==
  /\ commit.pc = "publish" =>
       commit.ok /\ \A b \in Present(commit.nodes) : durable[b] = commit.nodes[b].data
  /\ \A b \in Journaled : truth[b] = Over(staged, b, Over(commit.nodes, b, durable[b]))
  /\ \A b \in Blocks \ Journaled : truth[b] = home[b]
  /\ \A c \in Clients : client[c].pc = "writing" => client[c].buf = truth[client[c].block]

LEMMA FreshInit == Init => FreshInv
BY NoNodesEmpty DEF Init, FreshInv, NoCommit, NoClient, Over, Journaled, Blocks

(* With no transaction at hand the three layers a read looks at are all.    *)
LEMMA ReadFresh ==
  ASSUME QuietReads, TypeInv, PhaseInv, ModeInv, RecoverInv, FreshInv,
         commit.pc \in {"check", "freeze"}, NEW b \in Blocks
  PROVE  logfs_txn_read_block(b) = truth[b]
<1>1. Present(commit.nodes) = {} /\ Present(commit.ck.nodes) = {} /\ ~Dead
  BY DEF PhaseInv, Dead
<1>2. CASE b \in Journaled
  <2>1. Newest(ckpt, b, home[b]) = durable[b]
    BY <1>1, <1>2 DEF RecoverInv, Restored, Over
  <2>2. truth[b] = Over(staged, b, durable[b])
    BY <1>1, <1>2 DEF FreshInv, Over
  <2>3. QED
    BY <2>1, <2>2 DEF logfs_txn_read_block, find_checkpointed, Over
<1>3. CASE b \notin Journaled
  <2>1. b \notin Held
    BY <1>3 DEF ModeInv, Journaled, QuietReads, Blocks
  <2>2. QED
    BY <1>3, <2>1, UnheldRead DEF FreshInv
<1>4. QED
  BY <1>2, <1>3

LEMMA StagedOver ==
  ASSUME TypeInv, NEW a \in Blocks, NEW data, NEW op, Stage(a, data, op),
         NEW b \in Blocks, NEW below
  PROVE  Over(staged', b, below) = IF b = a THEN data ELSE Over(staged, b, below)
BY DEF TypeInv, TypeOK, Nodes, Node, Stage, Over, Present

LEMMA FreshStep ==
  ASSUME QuietReads, TypeInv, TypeInv', HandleInv, PhaseInv, ModeInv, RecoverInv, FreshInv,
         [Next]_vars, mgr'.mode = mgr.mode
  PROVE  FreshInv'
<1>1. Journaled' = Journaled /\ Journaled \subseteq Blocks
  BY DEF Journaled, Blocks
<1>2. mgr.mode # "writeback" /\ mgr.mode \in {"ordered", "journal"}
  BY TxnAssumption DEF TypeInv, TypeOK, MgrState, QuietReads
<1>3. Blocks \ Journaled \subseteq Data /\ (mgr.mode = "journal" => Journaled = Blocks)
  BY DEF Journaled, Blocks
<1>4. (Blocks \ Journaled) \cap Held = {} /\ Meta \subseteq Journaled
  BY DEF Journaled, Blocks, ModeInv, QuietReads
<1>5. \A c \in Clients : c \in Running =>
        /\ commit.pc \in {"check", "freeze"} /\ ~AssertionFails(c)
        /\ \A b \in Blocks : logfs_txn_read_block(b) = truth[b]
  BY ReadFresh DEF HandleInv, AssertionFails
<1>6. ASSUME UNCHANGED <<truth, client>>,
             commit'.pc = "publish" => commit'.ok /\ \A b \in Present(commit'.nodes) :
                                                        durable'[b] = commit'.nodes[b].data,
             \A b \in Journaled : Over(staged', b, Over(commit'.nodes, b, durable'[b]))
                                    = Over(staged, b, Over(commit.nodes, b, durable[b])),
             \A b \in Blocks \ Journaled : home'[b] = home[b]
      PROVE  FreshInv'
  BY <1>1, <1>6 DEF FreshInv
<1>7. CASE CommitCycle \/ FreezeWake
  <2>1. Present(commit.nodes) = {}
    BY <1>7, FreezeEffect DEF PhaseInv
  <2>2. UNCHANGED <<truth, client, home, durable>> /\ commit'.pc # "publish"
    BY <1>7, FreezeEffect, FlattenEffect
  <2>3. \/ commit'.nodes = staged /\ staged' = NoNodes
        \/ commit'.nodes = commit.nodes /\ staged' = staged
    BY <1>7, FreezeEffect, FlattenEffect
  <2>4. \A b \in Journaled : Over(staged', b, Over(commit'.nodes, b, durable'[b]))
                               = Over(staged, b, Over(commit.nodes, b, durable[b]))
    BY <2>1, <2>2, <2>3, NoNodesEmpty DEF Over
  <2>5. QED
    BY <1>6, <2>2, <2>4
<1>8. CASE OrderedFlush \/ JournalCommitFails \/ CycleEnd \/ CommitThreadStops
  <2>1. /\ UNCHANGED <<truth, client, home, durable, staged>> /\ commit'.pc # "publish"
        /\ commit'.nodes = commit.nodes
    BY <1>8, PcEffect DEF QuietReads
  <2>2. QED
    BY <1>6, <2>1
<1>9. CASE JournalCommit
  <2>1. /\ UNCHANGED <<truth, client, home, staged>> /\ commit'.nodes = commit.nodes
        /\ commit'.ok = TRUE
        /\ \A b \in Blocks : durable'[b] = Over(commit.nodes, b, durable[b])
    BY <1>9, JournalCommitEffect DEF Over
  <2>2. \A b \in Present(commit'.nodes) : durable'[b] = commit'.nodes[b].data
    BY <2>1 DEF Over, Present
  <2>3. \A b \in Journaled : Over(commit'.nodes, b, durable'[b]) = Over(commit.nodes, b, durable[b])
    BY <1>1, <2>1 DEF Over
  <2>4. QED
    BY <1>6, <2>1, <2>2, <2>3
<1>10. CASE Publish \/ EmptyCycle
  <2>1. /\ UNCHANGED <<truth, client, home, staged, durable>> /\ commit'.pc # "publish"
        /\ Present(commit'.nodes) = {} /\ commit.pc \in {"publish", "empty"}
    BY <1>10, CycleEffect, NoNodesEmpty
  <2>2. \A b \in Present(commit.nodes) : durable[b] = commit.nodes[b].data
    BY <2>1 DEF FreshInv, PhaseInv
  <2>3. \A b \in Journaled : Over(commit'.nodes, b, durable'[b]) = Over(commit.nodes, b, durable[b])
    BY <2>1, <2>2 DEF Over
  <2>4. QED
    BY <1>6, <2>1, <2>3
<1>11. CASE \/ CheckpointEnd
            \/ \E caller \in {"reserve", "lag", "drain"} : CheckpointOldest(caller)
            \/ \E b \in Blocks : CheckpointWrite(b)
  <2>1. /\ UNCHANGED <<truth, client, staged, durable>> /\ commit'.pc # "publish"
        /\ commit'.nodes = commit.nodes
    BY <1>11, CheckpointEffect
  <2>2. \/ home' = home
        \/ \E b \in Present(commit.ck.nodes) : home' = [home EXCEPT ![b] = commit.ck.nodes[b].data]
    BY <1>11, CheckpointEffect
  <2>3. \A b \in Blocks \ Journaled : home'[b] = home[b]
    BY <1>4, <2>2 DEF Held, TypeInv, TypeOK
  <2>4. QED
    BY <1>6, <2>1, <2>3
<1>12. CASE WritebackThread \/ logfs_txnmgr_destroy \/ WritebackShutdown \/ UNCHANGED vars
  <2>1. ~WritebackWrite
    BY <1>2 DEF ModeInv, WritebackWrite
  <2>2. UNCHANGED <<truth, client, staged, durable, commit, home>>
    BY <1>12, <2>1, OtherEffect
  <2>3. commit'.pc = "publish" => commit'.ok /\ \A b \in Present(commit'.nodes) :
                                                   durable'[b] = commit'.nodes[b].data
    BY <2>2 DEF FreshInv
  <2>4. QED
    BY <1>6, <2>2, <2>3
<1>13. ASSUME NEW c \in Clients,
              \/ logfs_txn_start(c) \/ logfs_txn_stop(c) \/ SyncWake(c) \/ SyncReturn(c)
              \/ logfs_txn_commit_sync(c) \/ \E b \in Data : ReadData(c, b)
       PROVE  FreshInv'
  <2>1. /\ UNCHANGED <<home, staged, durable, truth, commit>>
        /\ \A d \in Clients \ {c} : client'[d] = client[d]
        /\ client'[c].pc = "writing" =>
             /\ client[c].pc = "running" /\ client'[c].block \in Data
             /\ client'[c].buf = logfs_txn_read_block(client'[c].block)
    BY <1>13, QuietEffect
  <2>2. client'[c].pc = "writing" => client'[c].buf = truth[client'[c].block]
    BY <1>5, <2>1 DEF Running, Blocks
  <2>3. QED
    BY <1>1, <2>1, <2>2 DEF FreshInv
<1>14. ASSUME NEW c \in Clients, NEW a \in Meta, logfs_txn_get_write_access(c, a) PROVE FreshInv'
  <2>1. /\ UNCHANGED <<home, durable, commit, client>> /\ c \in Running
        /\ Stage(a, truth[a] \cup {client[c].op}, client[c].op)
        /\ truth' = [truth EXCEPT ![a] = @ \cup {client[c].op}]
    BY <1>5, <1>14, AccessEffect DEF Blocks
  <2>2. \A b \in Blocks : truth'[b] = IF b = a THEN truth[a] \cup {client[c].op} ELSE truth[b]
    BY <2>1 DEF TypeInv, TypeOK, Blocks
  <2>3. \A b \in Blocks : Over(staged', b, Over(commit.nodes, b, durable[b]))
                            = IF b = a THEN truth[a] \cup {client[c].op}
                              ELSE Over(staged, b, Over(commit.nodes, b, durable[b]))
    BY <2>1, StagedOver DEF Blocks
  <2>4. \A b \in Journaled : truth'[b] = Over(staged', b, Over(commit'.nodes, b, durable'[b]))
    <3>1. \A b \in Journaled : truth[b] = Over(staged, b, Over(commit.nodes, b, durable[b]))
      BY DEF FreshInv
    <3>2. \A b \in Journaled : truth'[b] = Over(staged', b, Over(commit.nodes, b, durable[b]))
      BY <1>1, <2>2, <2>3, <3>1
    <3>3. QED
      BY <2>1, <3>2
  <2>5. \A b \in Blocks \ Journaled : truth'[b] = home'[b]
    BY <1>4, <2>1, <2>2 DEF FreshInv
  <2>6. \A d \in Clients : client[d].pc = "writing" => client[d].buf = truth'[client[d].block]
    <3>1. \A d \in Clients : client[d].pc = "writing" =>
            client[d].block \in Data /\ client[d].buf = truth[client[d].block]
      BY DEF FreshInv, TypeInv, CallsSound
    <3>2. \A b \in Data : truth'[b] = truth[b]
      BY <2>2 DEF QuietReads, Blocks
    <3>3. QED
      BY <3>1, <3>2
  <2>7. QED
    BY <1>1, <2>1, <2>4, <2>5, <2>6 DEF FreshInv
<1>15. ASSUME NEW c \in Clients, logfs_txn_write_data(c) PROVE FreshInv'
  <2>1. PICK a \in Data : a = client[c].block
    BY <1>15, WriteEffect
  <2>2. PICK data : data = truth[a] \cup {client[c].op}
    OBVIOUS
  <2>3. /\ c \in Running /\ client[c].pc = "writing" /\ client'[c].pc = "running"
        /\ client[c].buf \cup {client[c].op} = data
        /\ UNCHANGED <<durable, commit>>
        /\ \A d \in Clients \ {c} : client'[d] = client[d]
        /\ truth' = [truth EXCEPT ![a] = data]
    BY <1>5, <1>15, <2>1, <2>2, WriteEffect DEF FreshInv
  <2>4. \A b \in Blocks : truth'[b] = IF b = a THEN data ELSE truth[b]
    BY <2>3 DEF TypeInv, TypeOK, Blocks
  <2>5. \A d \in Clients : client'[d].pc = "writing" => client'[d].buf = truth'[client'[d].block]
    <3>1. \A d \in Clients \ {c} : client[d].pc = "writing" =>
            /\ client[d].block \in Data /\ client[d].block # a
            /\ client[d].buf = truth[client[d].block]
      BY <2>1, <2>3 DEF FreshInv, TypeInv, CallsSound, ModeInv
    <3>2. QED
      BY <2>3, <2>4, <3>1 DEF Blocks
  <2>6. CASE mgr.mode = "journal"
    <3>1. UNCHANGED home /\ Stage(a, data, client[c].op)
      BY <1>5, <1>15, <2>1, <2>3, <2>6, WriteEffect
    <3>2. \A b \in Blocks : Over(staged', b, Over(commit.nodes, b, durable[b]))
                              = IF b = a THEN data
                                ELSE Over(staged, b, Over(commit.nodes, b, durable[b]))
      BY <3>1, StagedOver DEF Blocks
    <3>3. \A b \in Journaled : truth'[b] = Over(staged', b, Over(commit'.nodes, b, durable'[b]))
      BY <1>1, <2>3, <2>4, <3>2 DEF FreshInv
    <3>4. QED
      BY <1>1, <1>3, <2>3, <2>5, <2>6, <3>3 DEF FreshInv
  <2>7. CASE mgr.mode = "ordered"
    <3>1. UNCHANGED staged /\ home' = [home EXCEPT ![a] = data]
      BY <1>15, <2>1, <2>3, <2>7, WriteEffect
    <3>2. a \notin Journaled
      BY <2>7 DEF Journaled
    <3>3. \A b \in Blocks : home'[b] = IF b = a THEN data ELSE home[b]
      BY <3>1 DEF TypeInv, TypeOK, Blocks
    <3>4. QED
      BY <1>1, <2>3, <2>4, <2>5, <3>1, <3>2, <3>3 DEF FreshInv
  <2>8. QED
    BY <1>2, <2>6, <2>7
<1>16. ASSUME NEW c \in Clients, InCall(c) \/ Call(c) PROVE FreshInv'
  BY <1>13, <1>14, <1>15, <1>16, ClientCases
<1>17. QED
  BY <1>7, <1>8, <1>9, <1>10, <1>11, <1>12, <1>16, NextCases

(* Reads (logfs_txn_read_block; txn.h: "the current, freshest content"):    *)
(* in the ordered and journal modes no update is lost, however operations,  *)
(* write_data calls, commits and checkpoints interleave, as long as no      *)
(* operation starts during a commit and no commit fails.                    *)
THEOREM ReadsAreFresh ==
  ASSUME QuietReads
  PROVE  Spec => []IdleReadsFresh
<1> DEFINE I == /\ TypeInv /\ ShutdownInv /\ HandleInv /\ PhaseInv /\ ModeInv
                /\ RecoverInv /\ FreshInv
<1>1. Init => I
  BY InitTyped, ShutdownInit, HandleInit, PhaseInit, ModeInit, RecoverInit, FreshInit
<1>2. I /\ [Next]_vars => I'
  BY StepTyped, ShutdownStep, HandleStep, PhaseStep, ModeStep, RecoverStep, FreshStep DEF QuietReads
<1>3. I => IdleReadsFresh
  BY ReadFresh DEF IdleReadsFresh
<1>4. QED
  BY <1>1, <1>2, <1>3, PTL DEF Spec
-----------------------------------------------------------------------------
(* What unmount leaves behind. *)

(* The running generation is empty once unmount has begun.                  *)
CleanInv == mgr.shutdown => Present(staged) = {}

LEMMA CleanInit == Init => CleanInv
BY NoNodesEmpty DEF Init, CleanInv

LEMMA CleanStep ==
  ASSUME "dirtyStop" \notin Conditions, TypeInv, ShutdownInv, CleanInv, [Next]_vars
  PROVE  CleanInv'
<1>1. CASE CommitCycle \/ FreezeWake
  BY <1>1, FreezeEffect, FlattenEffect, NoNodesEmpty DEF CleanInv
<1>2. CASE OrderedFlush \/ JournalCommitFails \/ CycleEnd \/ CommitThreadStops
  BY <1>2, PcEffect DEF CleanInv
<1>3. CASE JournalCommit
  BY <1>3, JournalCommitEffect DEF CleanInv
<1>4. CASE Publish \/ EmptyCycle
  BY <1>4, CycleEffect DEF CleanInv
<1>5. CASE \/ CheckpointEnd
           \/ \E caller \in {"reserve", "lag", "drain"} : CheckpointOldest(caller)
           \/ \E b \in Blocks : CheckpointWrite(b)
  BY <1>5, CheckpointEffect DEF CleanInv
<1>6. CASE logfs_txnmgr_destroy
  <2>1. ~(ndirty > 0) /\ UNCHANGED staged
    BY <1>6 DEF logfs_txnmgr_destroy
  <2>2. ndirty = 0
    BY <2>1, DirtyCount
  <2>3. QED
    BY <2>1, <2>2, DirtyCount DEF CleanInv
<1>7. CASE WritebackThread \/ WritebackShutdown \/ UNCHANGED vars
  <2>1. UNCHANGED <<mgr, staged>>
    BY <1>7 DEF WritebackThread, WritebackPop, WritebackWrite, WritebackStops, WritebackShutdown, vars
  <2>2. QED
    BY <2>1 DEF CleanInv
<1>8. ASSUME NEW c \in Clients,
             \/ logfs_txn_start(c) \/ logfs_txn_stop(c) \/ SyncWake(c) \/ SyncReturn(c)
             \/ logfs_txn_commit_sync(c) \/ \E b \in Data : ReadData(c, b)
      PROVE  CleanInv'
  BY <1>8, QuietEffect DEF CleanInv
<1>9. ASSUME NEW c \in Running, mgr'.shutdown = mgr.shutdown PROVE CleanInv'
  BY <1>9 DEF CleanInv, ShutdownInv, Running
<1>10. ASSUME NEW c \in Clients,
              logfs_txn_write_data(c) \/ \E b \in Meta : logfs_txn_get_write_access(c, b)
       PROVE  CleanInv'
  BY <1>9, <1>10, AccessEffect, WriteEffect, AbortEffect
<1>11. QED
  BY <1>1, <1>2, <1>3, <1>4, <1>5, <1>6, <1>7, <1>8, <1>10, NextCases, ClientCases

(* Unmount (logfs_txnmgr_destroy and the drain of the commit thread;        *)
(* txn.h: "fully checkpoints the journal"): in the ordered and journal      *)
(* modes, when both threads are gone the checkpoint list is empty and every *)
(* block holds all its changes at home, unless blocks were staged when      *)
(* unmount began (the code drops them: run txn_dirty_unmount).              *)
THEOREM UnmountLeavesAllHome ==
  ASSUME QuietReads, "dirtyStop" \notin Conditions
  PROVE  Spec => []UnmountComplete
<1> DEFINE I == /\ TypeInv /\ ShutdownInv /\ HandleInv /\ PhaseInv /\ ModeInv
                /\ RecoverInv /\ FreshInv /\ CleanInv
<1>1. Init => I
  BY InitTyped, ShutdownInit, HandleInit, PhaseInit, ModeInit, RecoverInit, FreshInit, CleanInit
<1>2. I /\ [Next]_vars => I'
  BY StepTyped, ShutdownStep, HandleStep, PhaseStep, ModeStep, RecoverStep, FreshStep, CleanStep
     DEF QuietReads
<1>3. I => UnmountComplete
  <2> SUFFICES ASSUME I, commit.pc = "done" PROVE ckpt = <<>> /\ home = truth
    BY DEF UnmountComplete
  <2>1. /\ ckpt = <<>> /\ Present(staged) = {} /\ Present(commit.nodes) = {}
        /\ Present(commit.ck.nodes) = {} /\ ~Dead
    BY DEF ShutdownInv, CleanInv, PhaseInv, Dead
  <2>2. \A b \in Journaled : home[b] = durable[b]
    <3>1. \A b \in Journaled : Newest(<<>>, b, home[b]) = durable[b]
      BY <2>1 DEF RecoverInv, Restored, Over
    <3>2. QED
      BY <3>1, NewestEmpty DEF Journaled, Blocks
  <2>3. \A b \in Blocks : home[b] = truth[b]
    BY <2>1, <2>2 DEF FreshInv, Over
  <2>4. home \in [Blocks -> SUBSET Ops] /\ truth \in [Blocks -> SUBSET Ops]
    BY DEF TypeInv, TypeOK
  <2>5. QED
    BY <2>1, <2>3, <2>4
<1>4. QED
  BY <1>1, <1>2, <1>3, PTL DEF Spec
=============================================================================
