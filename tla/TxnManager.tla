----------------------------- MODULE TxnManager -----------------------------
(***************************************************************************)
(* The transaction manager of logfs (txn.c): handles, the staging table of *)
(* the running generation, the commit thread with its freeze barrier, the  *)
(* checkpoint list, fsync, the three data modes and the writeback thread.  *)
(* Clients are the FUSE callbacks of fs_ops.c.                             *)
(*                                                                         *)
(* A region protected by mgr->lock is one step; a thread that releases the *)
(* lock and takes it again does so in two.  cond_wait puts a thread into   *)
(* "asleep"; only a broadcast takes it out.  A journal commit is one step, *)
(* which module Journal takes apart.                                       *)
(*                                                                         *)
(* A block's content is the set of the operations whose changes it shows.  *)
(***************************************************************************)
EXTENDS Integers, Sequences, FiniteSets

CONSTANTS
  Clients,      \* threads that call the API
  Meta, Data,   \* blocks changed through get_write_access / through write_data
  Modes,        \* the modes a mount may choose: "ordered", "writeback", "journal"
  CkptLag,      \* LOGFS_CKPT_LAG
  MaxOps, MaxSyncs,     \* bounds: operations and fsync() calls
  FsLock,       \* do the callers serialize operations with g_fs_lock?
  Conditions    \* what may happen besides the quiet case, a subset of:
                \*   "overlap"    an operation starts while a commit is under way
                \*   "idleSync"   fsync() with nothing staged
                \*   "busySync"   fsync() while a commit is under way
                \*   "failure"    logfs_journal_commit returns an error
                \*   "dirtyStop"  unmount with blocks still staged

Blocks == Meta \cup Data
Ops == 1 .. MaxOps

ASSUME TxnAssumption ==
  /\ Modes \subseteq {"ordered", "writeback", "journal"}
  /\ CkptLag \in Nat /\ MaxOps \in Nat /\ MaxSyncs \in Nat
  /\ FsLock \in BOOLEAN
  /\ Conditions \subseteq {"overlap", "idleSync", "busySync", "failure", "dirtyStop"}
  /\ "commit" \notin Clients
  /\ IsFiniteSet(Meta) /\ IsFiniteSet(Data)

VARIABLES
  mgr,        \* the flags and counters of logfs_txn_mgr
  staged,     \* mgr->buckets: one node per block of the running generation
  ckpt,       \* mgr->ckpt_head list, oldest first
  asleep,     \* threads in pthread_cond_wait(&mgr->cv)
  client,     \* per client: program counter, operation, handle, fsync target
  commit,     \* commit thread: program counter and locals
  journal,    \* next_sequence of logfs_journal_t
  home,       \* home locations, as a read of the device shows them
  wb,         \* writeback queue, thread and wb_shutdown
  issued,     \* operations and fsync() calls so far (bounds)
  truth,      \* history: content of each block if no change is ever lost
  durable,    \* history: per block, the content its last committed node has
  stable,     \* history: the operations durable in the journal
  volatile,   \* history: <<operation, block>> data writes not yet on stable storage
  written     \* history: per block, what write_data was last given

vars == <<mgr, staged, ckpt, asleep, client, commit, journal, home, wb,
          issued, truth, durable, stable, volatile, written>>
history == <<truth, durable, stable, volatile, written>>
-----------------------------------------------------------------------------
(* Nodes: content, and (history) the operations that changed the node.      *)
NoNode == [data |-> {}, ops |-> {}]
NoNodes == [b \in Blocks |-> NoNode]
Present(nodes) == {b \in Blocks : nodes[b].ops # {}}
OpsIn(nodes) == UNION {nodes[b].ops : b \in Blocks}

(* fsync() of the backing file: the data that has reached it is stable.     *)
StillVolatile == {w \in volatile : w[1] \notin home[w[2]]}

ndirty == Cardinality(Present(staged))

(* The most recent copy in a list of transactions, oldest first, then disk. *)
Newest(txns, b, disk) ==
  LET T == {i \in DOMAIN txns : txns[i].nodes[b].ops # {}}
  IN  IF T = {} THEN disk
      ELSE txns[CHOOSE i \in T : \A k \in T : k <= i].nodes[b].data

MutOldestCopy(b) ==
  LET T == {i \in DOMAIN ckpt : ckpt[i].nodes[b].ops # {}}
  IN  IF T = {} THEN home[b]
      ELSE ckpt[CHOOSE i \in T : \A k \in T : k >= i].nodes[b].data

find_checkpointed(b) == Newest(ckpt, b, home[b])

(* Staging table, checkpoint list, disk.                                    *)
logfs_txn_read_block(b) ==
  IF b \in Present(staged) THEN staged[b].data ELSE find_checkpointed(b)

(* The node find_or_create_dirty returns, after operation op changed it.    *)
Stage(b, data, op) ==
  staged' = [staged EXCEPT ![b] = [data |-> data, ops |-> @.ops \cup {op}]]

Running == {c \in Clients : client[c].pc \in {"running", "writing"}}

NoClient == [pc |-> "idle", op |-> 0, txn_id |-> 0, block |-> 0, buf |-> {},
             target |-> 0, need |-> {}]
NoTxn == [sequence |-> 0, nodes |-> NoNodes]
NoCommit == [pc |-> "check", nodes |-> NoNodes, nordered |-> 0, ok |-> FALSE,
             ck |-> NoTxn, caller |-> "none"]
NoEntry == [block |-> 0, data |-> {}]

Init ==
  /\ mgr \in [mode : Modes, freezing : {FALSE}, commit_requested : {FALSE},
              shutdown : {FALSE}, generation_seq : {1}, completed_through : {0},
              n_ordered : {0}]
  /\ staged = NoNodes /\ ckpt = <<>> /\ asleep = {}
  /\ client = [c \in Clients |-> NoClient]
  /\ commit = NoCommit
  /\ journal = [next_sequence |-> 1]
  /\ home = [b \in Blocks |-> {}]
  /\ wb = [queue |-> <<>>, entry |-> NoEntry, shutdown |-> FALSE,
           pc |-> IF mgr.mode = "writeback" THEN "wait" ELSE "done"]
  /\ issued = [ops |-> 0, syncs |-> 0]
  /\ truth = [b \in Blocks |-> {}] /\ durable = [b \in Blocks |-> {}]
  /\ stable = {} /\ volatile = {} /\ written = [b \in Blocks |-> {}]
-----------------------------------------------------------------------------
(* Client calls. *)

(* logfs_txn_start grants a handle, or waits until the freeze is over.      *)
logfs_txn_start(c) ==
  LET op == IF client[c].pc = "idle" THEN issued.ops + 1 ELSE client[c].op IN
  /\ \/ /\ client[c].pc = "starting" /\ c \notin asleep
        /\ UNCHANGED issued
     \/ /\ client[c].pc = "idle" /\ ~mgr.shutdown /\ issued.ops < MaxOps
        /\ FsLock => \A d \in Clients : client[d].pc \in {"idle", "syncing", "synced"}
        /\ issued' = [issued EXCEPT !.ops = @ + 1]
  /\ commit.pc \notin {"check", "freeze"} => "overlap" \in Conditions
  /\ IF mgr.freezing
     THEN /\ client' = [client EXCEPT ![c].pc = "starting", ![c].op = op]
          /\ asleep' = asleep \cup {c}
     ELSE /\ client' = [client EXCEPT ![c].pc = "running", ![c].op = op,
                                      ![c].txn_id = mgr.generation_seq]
          /\ UNCHANGED asleep
  /\ UNCHANGED <<mgr, staged, ckpt, commit, journal, home, wb, history>>

(* assert(h->txn_id == mgr->generation_seq): if it fails, all threads die.  *)
AssertionFails(c) == client[c].txn_id # mgr.generation_seq
Abort ==
  /\ client' = [c \in Clients |-> [NoClient EXCEPT !.pc = "dead"]]
  /\ commit' = [NoCommit EXCEPT !.pc = "dead"]
  /\ wb' = [wb EXCEPT !.pc = "dead"]
  /\ asleep' = {}
  /\ UNCHANGED <<mgr, staged, ckpt, journal, home, issued, history>>

(* get_write_access, the caller's change to part of the block, and          *)
(* dirty_metadata, which finds the same node again.                         *)
logfs_txn_get_write_access(c, b) ==
  /\ client[c].pc = "running"
  /\ IF AssertionFails(c) THEN Abort
     ELSE /\ Stage(b, logfs_txn_read_block(b) \cup {client[c].op}, client[c].op)
          /\ truth' = [truth EXCEPT ![b] = @ \cup {client[c].op}]
          /\ UNCHANGED <<mgr, ckpt, asleep, client, commit, journal, home, wb,
                         issued, durable, stable, volatile, written>>

(* logfs_op_write fills a partly written block from read_block, each block  *)
(* once, ...  Callers serialize access to the same block (txn.h).           *)
ReadData(c, b) ==
  /\ client[c].pc = "running" /\ client[c].op \notin truth[b]
  /\ \A d \in Clients : client[d].pc = "writing" => client[d].block # b
  /\ client' = [client EXCEPT ![c].pc = "writing", ![c].block = b,
                              ![c].buf = logfs_txn_read_block(b)]
  /\ UNCHANGED <<mgr, staged, ckpt, asleep, commit, journal, home, wb, issued, history>>

(* Under wb_lock; the writeback thread takes the entries in this order.     *)
writeback_queue_push(b, data) ==
  wb' = [wb EXCEPT !.queue = Append(@, [block |-> b, data |-> data])]

(* ... and hands the whole block to write_data, where the modes differ.     *)
MutOrderedQueued(c) ==
  LET b == client[c].block
      data == client[c].buf \cup {client[c].op}
  IN
  /\ client[c].pc = "writing"
  /\ writeback_queue_push(b, data)
  /\ volatile' = volatile \cup {<<client[c].op, b>>}
  /\ truth' = [truth EXCEPT ![b] = @ \cup {client[c].op}]
  /\ written' = [written EXCEPT ![b] = data]
  /\ client' = [client EXCEPT ![c].pc = "running"]
  /\ UNCHANGED <<mgr, staged, ckpt, asleep, commit, journal, home, issued,
                 durable, stable>>

logfs_txn_write_data(c) ==
  LET b == client[c].block
      data == client[c].buf \cup {client[c].op}
  IN
  /\ client[c].pc = "writing"
  /\ IF mgr.mode = "journal" /\ AssertionFails(c) THEN Abort
     ELSE /\ \/ /\ mgr.mode = "journal"
                /\ Stage(b, data, client[c].op)
                /\ UNCHANGED <<mgr, home, wb, volatile>>
             \/ /\ mgr.mode = "ordered"
                /\ home' = [home EXCEPT ![b] = data]
                /\ mgr' = [mgr EXCEPT !.n_ordered = @ + 1]
                /\ volatile' = volatile \cup {<<client[c].op, b>>}
                /\ UNCHANGED <<staged, wb>>
             \/ /\ mgr.mode = "writeback"
                /\ writeback_queue_push(b, data)
                /\ volatile' = volatile \cup {<<client[c].op, b>>}
                /\ UNCHANGED <<mgr, staged, home>>
          /\ truth' = [truth EXCEPT ![b] = @ \cup {client[c].op}]
          /\ written' = [written EXCEPT ![b] = data]
          /\ client' = [client EXCEPT ![c].pc = "running"]
          /\ UNCHANGED <<ckpt, asleep, commit, journal, issued, durable, stable>>

(* Dropping the last handle wakes the commit thread.                        *)
MutStopSilent(c) ==
  /\ client[c].pc = "running"
  /\ client' = [client EXCEPT ![c] = NoClient]
  /\ UNCHANGED <<mgr, staged, ckpt, asleep, commit, journal, home, wb, issued, history>>

logfs_txn_stop(c) ==
  /\ client[c].pc = "running"
  /\ client' = [client EXCEPT ![c] = NoClient]
  /\ asleep' = IF Running = {c} THEN {} ELSE asleep
  /\ UNCHANGED <<mgr, staged, ckpt, commit, journal, home, wb, issued, history>>

(* The finished operations with a change in the staging table or in the     *)
(* commit under way: what an fsync() has to wait for.                       *)
Finished == (OpsIn(staged) \cup OpsIn(commit.nodes)) \ {client[d].op : d \in Running}

(* logfs_txn_commit_sync: ask for a commit of the running generation ...    *)
logfs_txn_commit_sync(c) ==
  /\ client[c].pc = "idle" /\ ~mgr.shutdown /\ issued.syncs < MaxSyncs
  /\ IF commit.pc \in {"check", "freeze"} THEN ndirty = 0 => "idleSync" \in Conditions
     ELSE "busySync" \in Conditions
  /\ issued' = [issued EXCEPT !.syncs = @ + 1]
  /\ mgr' = [mgr EXCEPT !.commit_requested = TRUE]
  /\ LET wait == mgr.completed_through < mgr.generation_seq IN
     /\ client' = [client EXCEPT ![c].pc = IF wait THEN "syncing" ELSE "synced",
                                 ![c].target = mgr.generation_seq,
                                 ![c].need = Finished]
     /\ asleep' = IF wait THEN {c} ELSE {}
  /\ UNCHANGED <<staged, ckpt, commit, journal, home, wb, history>>

(* ... and wait until the commit thread has dealt with it.                  *)
SyncWake(c) ==
  /\ client[c].pc = "syncing" /\ c \notin asleep
  /\ IF mgr.completed_through < client[c].target /\ ~mgr.shutdown
     THEN asleep' = asleep \cup {c} /\ UNCHANGED client
     ELSE client' = [client EXCEPT ![c].pc = "synced"] /\ UNCHANGED asleep
  /\ UNCHANGED <<mgr, staged, ckpt, commit, journal, home, wb, issued, history>>

(* fsync() has returned to its caller. *)
SyncReturn(c) ==
  /\ client[c].pc = "synced"
  /\ client' = [client EXCEPT ![c] = NoClient]
  /\ UNCHANGED <<mgr, staged, ckpt, asleep, commit, journal, home, wb, issued, history>>
-----------------------------------------------------------------------------
(* The commit thread. *)

MutCompletedAtFreeze ==
  /\ commit' = [commit EXCEPT !.pc = "ordered", !.nodes = staged,
                              !.nordered = mgr.n_ordered]
  /\ staged' = NoNodes
  /\ mgr' = [mgr EXCEPT !.n_ordered = 0, !.commit_requested = FALSE, !.freezing = FALSE,
                        !.completed_through = mgr.generation_seq]
  /\ asleep' = {}

(* Take the generation: all under one hold of the lock.                     *)
Flatten ==
  /\ commit' = [commit EXCEPT !.pc = "ordered", !.nodes = staged,
                              !.nordered = mgr.n_ordered]
  /\ staged' = NoNodes
  /\ mgr' = [mgr EXCEPT !.n_ordered = 0, !.commit_requested = FALSE, !.freezing = FALSE]
  /\ asleep' = {}

(* Leave the idle loop: freeze, and wait for the live handles.              *)
MutNoFreezeWait ==
  /\ commit.pc = "check" /\ ~mgr.shutdown
  /\ ndirty > 0 \/ mgr.commit_requested
  /\ Flatten
  /\ UNCHANGED <<ckpt, client, journal, home, wb, issued, history>>

CommitCycle ==
  /\ commit.pc = "check" /\ ~mgr.shutdown
  /\ ndirty > 0 \/ mgr.commit_requested
  /\ IF Running = {} THEN Flatten
     ELSE /\ mgr' = [mgr EXCEPT !.freezing = TRUE]
          /\ commit' = [commit EXCEPT !.pc = "freeze"]
          /\ asleep' = asleep \cup {"commit"}
          /\ UNCHANGED staged
  /\ UNCHANGED <<ckpt, client, journal, home, wb, issued, history>>

FreezeWake ==
  /\ commit.pc = "freeze" /\ "commit" \notin asleep
  /\ IF Running = {} THEN Flatten
     ELSE asleep' = asleep \cup {"commit"} /\ UNCHANGED <<mgr, commit, staged>>
  /\ UNCHANGED <<ckpt, client, journal, home, wb, issued, history>>

MutOrderedTakenBack ==
  /\ commit.pc = "ordered"
  /\ volatile' = IF mgr.mode = "ordered" /\ commit.nordered > 0
                THEN StillVolatile ELSE volatile
  /\ mgr' = [mgr EXCEPT !.n_ordered = @ - commit.nordered]
  /\ commit' = [commit EXCEPT !.pc = IF Present(commit.nodes) # {} THEN "reserve" ELSE "empty"]
  /\ UNCHANGED <<staged, ckpt, asleep, client, journal, home, wb, issued, truth, durable, stable, written>>

(* Ordered mode: the generation's data first.                               *)
OrderedFlush ==
  /\ commit.pc = "ordered"
  /\ volatile' = IF mgr.mode = "ordered" /\ commit.nordered > 0
                THEN StillVolatile ELSE volatile
  /\ commit' = [commit EXCEPT !.pc = IF Present(commit.nodes) # {} THEN "reserve" ELSE "empty"]
  /\ UNCHANGED <<mgr, staged, ckpt, asleep, client, journal, home, wb, issued, truth, durable, stable, written>>

(* logfs_journal_commit as a whole: its flushes also cover the home blocks. *)
JournalCommit ==
  /\ commit.pc = "reserve"
  /\ journal' = [next_sequence |-> journal.next_sequence + 1]
  /\ durable' = [b \in Blocks |-> IF b \in Present(commit.nodes)
                                  THEN commit.nodes[b].data ELSE durable[b]]
  /\ stable' = stable \cup OpsIn(commit.nodes)
  /\ volatile' = StillVolatile
  /\ commit' = [commit EXCEPT !.pc = "publish", !.ok = TRUE]
  /\ UNCHANGED <<mgr, staged, ckpt, asleep, client, home, wb, issued, truth, written>>

(* -ENOSPC, -EINVAL or an I/O error before the commit block.                *)
JournalCommitFails ==
  /\ commit.pc = "reserve" /\ "failure" \in Conditions
  /\ commit' = [commit EXCEPT !.pc = "publish", !.ok = FALSE]
  /\ UNCHANGED <<mgr, staged, ckpt, asleep, client, journal, home, wb, issued, history>>

(* The critical section at the end of do_commit.                            *)
MutPublishSilent ==
  /\ commit.pc = "publish"
  /\ ckpt' = IF commit.ok
             THEN Append(ckpt, [sequence |-> journal.next_sequence - 1,
                                nodes |-> commit.nodes])
             ELSE ckpt
  /\ mgr' = [mgr EXCEPT !.completed_through = mgr.generation_seq,
                        !.generation_seq = journal.next_sequence]
  /\ commit' = [NoCommit EXCEPT !.pc = "lag"]
  /\ UNCHANGED <<staged, asleep, client, journal, home, wb, issued, history>>

MutPublishOldest ==
  /\ commit.pc = "publish"
  /\ ckpt' = IF commit.ok
             THEN <<[sequence |-> journal.next_sequence - 1,
                     nodes |-> commit.nodes]>> \o ckpt
             ELSE ckpt
  /\ mgr' = [mgr EXCEPT !.completed_through = mgr.generation_seq,
                        !.generation_seq = journal.next_sequence]
  /\ commit' = [NoCommit EXCEPT !.pc = "lag"]
  /\ asleep' = {}
  /\ UNCHANGED <<staged, client, journal, home, wb, issued, history>>

Publish ==
  /\ commit.pc = "publish"
  /\ ckpt' = IF commit.ok
             THEN Append(ckpt, [sequence |-> journal.next_sequence - 1,
                                nodes |-> commit.nodes])
             ELSE ckpt
  /\ mgr' = [mgr EXCEPT !.completed_through = mgr.generation_seq,
                        !.generation_seq = journal.next_sequence]
  /\ commit' = [NoCommit EXCEPT !.pc = "lag"]
  /\ asleep' = {}
  /\ UNCHANGED <<staged, client, journal, home, wb, issued, history>>

MutEmptySilent ==
  /\ commit.pc = "empty"
  /\ mgr' = [mgr EXCEPT !.completed_through = mgr.generation_seq]
  /\ commit' = [NoCommit EXCEPT !.pc = "lag"]
  /\ UNCHANGED <<staged, asleep, ckpt, client, journal, home, wb, issued, history>>

(* A cycle with nothing to journal.                                         *)
EmptyCycle ==
  /\ commit.pc = "empty"
  /\ mgr' = [mgr EXCEPT !.completed_through = mgr.generation_seq]
  /\ commit' = [NoCommit EXCEPT !.pc = "lag"]
  /\ asleep' = {}
  /\ UNCHANGED <<staged, ckpt, client, journal, home, wb, issued, history>>

(* checkpoint_oldest, first critical section.  do_commit calls it while the *)
(* log is short of space, so at any time; enforce_checkpoint_lag and the    *)
(* drain at shutdown call it under the conditions below.                    *)
CheckpointOldest(caller) ==
  /\ commit.pc = caller /\ ckpt # <<>>
  /\ caller = "lag" => Len(ckpt) > CkptLag
  /\ commit' = [commit EXCEPT !.pc = "ckwrite", !.ck = Head(ckpt), !.caller = caller]
  /\ ckpt' = Tail(ckpt)
  /\ UNCHANGED <<mgr, staged, asleep, client, journal, home, wb, issued, history>>

(* Copy one block to its home location; the hash table gives the order.     *)
CheckpointWrite(b) ==
  /\ commit.pc = "ckwrite" /\ b \in Present(commit.ck.nodes)
  /\ home' = [home EXCEPT ![b] = commit.ck.nodes[b].data]
  /\ commit' = [commit EXCEPT !.ck.nodes[b] = NoNode]
  /\ UNCHANGED <<mgr, staged, ckpt, asleep, client, journal, wb, issued, history>>

(* Flush, advance the journal's tail, go on where the caller left off.      *)
CheckpointEnd ==
  /\ commit.pc = "ckwrite" /\ Present(commit.ck.nodes) = {}
  /\ volatile' = StillVolatile
  /\ commit' = [commit EXCEPT !.pc = commit.caller, !.ck = NoTxn, !.caller = "none"]
  /\ UNCHANGED <<mgr, staged, ckpt, asleep, client, journal, home, wb, issued, truth, durable, stable, written>>

CycleEnd ==
  /\ commit.pc = "lag" /\ Len(ckpt) <= CkptLag
  /\ commit' = [commit EXCEPT !.pc = "check"]
  /\ UNCHANGED <<mgr, staged, ckpt, asleep, client, journal, home, wb, issued, history>>

MutNoDrain ==
  /\ commit.pc = "check" /\ mgr.shutdown /\ commit' = [commit EXCEPT !.pc = "done"]
  /\ UNCHANGED <<mgr, staged, ckpt, asleep, client, journal, home, wb, issued, history>>

(* The loop has seen shutdown; then the drain has emptied the list.         *)
CommitThreadStops ==
  /\ \/ commit.pc = "check" /\ mgr.shutdown /\ commit' = [commit EXCEPT !.pc = "drain"]
     \/ commit.pc = "drain" /\ ckpt = <<>> /\ commit' = [commit EXCEPT !.pc = "done"]
  /\ UNCHANGED <<mgr, staged, ckpt, asleep, client, journal, home, wb, issued, history>>
-----------------------------------------------------------------------------
(* logfs_txnmgr_destroy and the writeback thread. *)

(* Unmount: FUSE has no call in progress.                                   *)
logfs_txnmgr_destroy ==
  /\ ~mgr.shutdown /\ \A c \in Clients : client[c].pc = "idle"
  /\ ndirty > 0 => "dirtyStop" \in Conditions
  /\ mgr' = [mgr EXCEPT !.shutdown = TRUE]
  /\ asleep' = {}
  /\ UNCHANGED <<staged, ckpt, client, commit, journal, home, wb, issued, history>>

(* The commit thread is joined before the writeback thread is told to stop. *)
WritebackShutdown ==
  /\ commit.pc = "done" /\ ~wb.shutdown
  /\ wb' = [wb EXCEPT !.shutdown = TRUE]
  /\ UNCHANGED <<mgr, staged, ckpt, asleep, client, commit, journal, home, issued, history>>

MutPopAtShutdown ==
  /\ wb.pc = "wait" /\ wb.queue # <<>> /\ wb.shutdown
  /\ wb' = [wb EXCEPT !.pc = "write", !.entry = Head(wb.queue), !.queue = Tail(wb.queue)]
  /\ UNCHANGED <<mgr, staged, ckpt, asleep, client, commit, journal, home, issued, history>>

WritebackPop ==
  /\ wb.pc = "wait" /\ wb.queue # <<>>
  /\ wb' = [wb EXCEPT !.pc = "write", !.entry = Head(wb.queue), !.queue = Tail(wb.queue)]
  /\ UNCHANGED <<mgr, staged, ckpt, asleep, client, commit, journal, home, issued, history>>

WritebackWrite ==
  /\ wb.pc = "write"
  /\ home' = [home EXCEPT ![wb.entry.block] = wb.entry.data]
  /\ wb' = [wb EXCEPT !.pc = "wait", !.entry = NoEntry]
  /\ UNCHANGED <<mgr, staged, ckpt, asleep, client, commit, journal, issued, history>>

MutStopWithQueue ==
  /\ wb.pc = "wait" /\ wb.shutdown
  /\ wb' = [wb EXCEPT !.pc = "done"]
  /\ volatile' = StillVolatile
  /\ UNCHANGED <<mgr, staged, ckpt, asleep, client, commit, journal, home, issued, truth, durable, stable, written>>

WritebackStops ==
  /\ wb.pc = "wait" /\ wb.queue = <<>> /\ wb.shutdown
  /\ wb' = [wb EXCEPT !.pc = "done"]
  /\ volatile' = StillVolatile
  /\ UNCHANGED <<mgr, staged, ckpt, asleep, client, commit, journal, home, issued, truth, durable, stable, written>>
-----------------------------------------------------------------------------
CommitThread ==
  \/ CommitCycle \/ FreezeWake \/ OrderedFlush \/ JournalCommit \/ JournalCommitFails
  \/ Publish \/ EmptyCycle \/ CheckpointEnd \/ CycleEnd \/ CommitThreadStops
  \/ \E caller \in {"reserve", "lag", "drain"} : CheckpointOldest(caller)
  \/ \E b \in Blocks : CheckpointWrite(b)

WritebackThread == WritebackPop \/ WritebackWrite \/ WritebackStops

(* What a client thread does inside a call it has begun.                    *)
InCall(c) ==
  \/ client[c].pc = "starting" /\ logfs_txn_start(c)
  \/ logfs_txn_write_data(c) \/ logfs_txn_stop(c) \/ SyncWake(c) \/ SyncReturn(c)

Call(c) ==
  \/ client[c].pc = "idle" /\ logfs_txn_start(c)
  \/ logfs_txn_commit_sync(c)
  \/ \E b \in Meta : logfs_txn_get_write_access(c, b)
  \/ \E b \in Data : ReadData(c, b)

Next ==
  \/ CommitThread \/ WritebackThread
  \/ \E c \in Clients : InCall(c) \/ Call(c)
  \/ logfs_txnmgr_destroy \/ WritebackShutdown

Spec == Init /\ [][Next]_vars

(* Both threads of txn.c keep running and every call a client has begun     *)
(* goes on; clients need not begin another.                                 *)
FairSpec ==
  /\ Spec
  /\ WF_vars(CommitThread)
  /\ WF_vars(WritebackThread)
  /\ \A c \in Clients : WF_vars(InCall(c))
-----------------------------------------------------------------------------
(* Properties. *)

Dead == commit.pc = "dead"

Node == [data : SUBSET Ops, ops : SUBSET Ops]
Nodes == [Blocks -> Node]
Committed == [sequence : Nat, nodes : Nodes]
CommitPcs == {"check", "freeze", "ordered", "reserve", "publish", "empty", "lag",
              "ckwrite", "drain", "done", "dead"}

MgrState == [mode : Modes, freezing : BOOLEAN, commit_requested : BOOLEAN, shutdown : BOOLEAN,
             generation_seq : Nat, completed_through : Nat, n_ordered : Nat]
ClientState == [pc : {"idle", "starting", "running", "writing", "syncing", "synced", "dead"},
                op : Ops \cup {0}, txn_id : Nat, block : Blocks \cup {0},
                buf : SUBSET Ops, target : Nat, need : SUBSET Ops]
CommitState == [pc : CommitPcs, nodes : Nodes, nordered : Nat, ok : BOOLEAN,
                ck : Committed, caller : {"none", "reserve", "lag", "drain"}]
Queued == [block : Blocks, data : SUBSET Ops]
WbState == [queue : Seq(Queued), entry : [block : Blocks \cup {0}, data : SUBSET Ops],
            shutdown : BOOLEAN, pc : {"wait", "write", "done", "dead"}]

(* Every variable of the transaction manager keeps its type, and only       *)
(* clients inside a call and a freezing commit thread sleep.                *)
TypeOK ==
  /\ mgr \in MgrState
  /\ staged \in Nodes /\ ckpt \in Seq(Committed)
  /\ asleep \subseteq {c \in Clients : client[c].pc \in {"starting", "syncing"}}
                      \cup (IF commit.pc = "freeze" THEN {"commit"} ELSE {})
  /\ client \in [Clients -> ClientState]
  /\ commit \in CommitState
  /\ journal \in [next_sequence : Nat]
  /\ home \in [Blocks -> SUBSET Ops]
  /\ wb \in WbState
  /\ issued \in [ops : 0..MaxOps, syncs : 0..MaxSyncs]
  /\ truth \in [Blocks -> SUBSET Ops] /\ durable \in [Blocks -> SUBSET Ops]
  /\ stable \subseteq Ops /\ volatile \subseteq Ops \X Blocks
  /\ written \in [Blocks -> SUBSET Ops]

(* Operation atomicity: the freeze barrier keeps every block an operation   *)
(* stages in one generation.  A generation taken for commit, or committed,  *)
(* never holds a block of an operation that still has its handle.           *)
NoSplitOperation ==
  \A c \in Running :
    client[c].op \notin OpsIn(commit.nodes) \cup OpsIn(commit.ck.nodes)
                        \cup stable \cup UNION {OpsIn(ckpt[i].nodes) : i \in DOMAIN ckpt}

(* Ordered mode (docs/DESIGN.md section 9): when an operation's metadata is *)
(* in the journal, the data it wrote is on stable storage.                  *)
OrderedDataFirst ==
  mgr.mode = "ordered" => \A w \in volatile : w[1] \notin stable

(* What a crash would bring back - the newest copy among the transaction    *)
(* being checkpointed, the committed one not yet listed and the checkpoint  *)
(* list, else the disk - is always the last committed content: checkpoints  *)
(* go in commit order and never undo a later one.                           *)
Recoverable(b) ==
  LET listed == <<commit.ck>> \o ckpt
      last == [sequence |-> journal.next_sequence - 1, nodes |-> commit.nodes]
  IN  Newest(IF commit.pc = "publish" /\ commit.ok THEN Append(listed, last) ELSE listed,
             b, home[b])
Journaled == IF mgr.mode = "journal" THEN Blocks ELSE Meta \ Data
CommittedRecoverable == ~Dead => \A b \in Journaled : Recoverable(b) = durable[b]

(* No update is lost and every read is fresh (txn.h: "the current, freshest *)
(* content") while the commit thread is idle.                               *)
IdleReadsFresh ==
  commit.pc = "check" => \A b \in Blocks : logfs_txn_read_block(b) = truth[b]

(* fsync() (txn.h: "blocks until it is durable in the journal"): when it    *)
(* returns, every operation finished before the call is in the journal.     *)
SyncMeansDurable == \A c \in Clients : client[c].pc = "synced" => client[c].need \subseteq stable

(* The assertion of get_write_access, "freeze can't have swapped under a    *)
(* live handle", never fails.                                               *)
AssertionHolds == ~Dead

(* A clean unmount (txn.h: "Forces a final commit of any pending work and   *)
(* fully checkpoints the journal") leaves every change at home.             *)
UnmountComplete ==
  commit.pc = "done" /\ wb.pc = "done" => ckpt = <<>> /\ home = truth

(* Writeback mode: unmount empties the queue, in order, so that every data  *)
(* block ends up with what a client wrote to it last, although the queue,   *)
(* the commit thread and the unmount are not synchronized with each other.  *)
WritebackComplete ==
  mgr.mode = "writeback" /\ commit.pc = "done" /\ wb.pc = "done" =>
    \A b \in Data : home[b] = written[b]

(* The commit thread makes a handle or an fsync() wait only for a while:    *)
(* whoever sleeps on the condition variable is woken and gets through.      *)
CallsReturn ==
  \A c \in Clients : client[c].pc \in {"starting", "syncing"}
                       ~> (client[c].pc \notin {"starting", "syncing"})

(* What is staged is taken for commit sooner or later, unless the file      *)
(* system is unmounted first.                                               *)
StagedIsTaken == ndirty > 0 ~> (ndirty = 0 \/ mgr.shutdown \/ Dead)

(* The writeback queue always empties again: its thread keeps popping until *)
(* the queue is empty, also after shutdown (WritebackComplete says what the *)
(* pops leave at home).                                                     *)
QueueDrains == wb.queue # <<>> ~> (wb.queue = <<>> \/ Dead)
=============================================================================
