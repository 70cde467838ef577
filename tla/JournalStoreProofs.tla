------------------------- MODULE JournalStoreProofs -------------------------
(***************************************************************************)
(* The journal implements the atomic store: the refinement JournalStore    *)
(* states, for every log size, batch and number of faults.                 *)
(***************************************************************************)
EXTENDS JournalStore, JournalRecoveryProofs

(* What a step does to the recoverable contents: nothing, an end of the     *)
(* mount, a commit that starts, a commit that is acknowledged, or a mount.  *)
Begins == \E d \in Datas : limbo' = limbo \cup {d} /\ logical' = logical
Acknowledges == limbo' = {} /\ \E d \in limbo : logical' = Apply(logical, d)
Restores == limbo' = {} /\ logical' \in Allowed

(* Every step of the journal does one of these.                             *)
LEMMA StepKinds ==
  ASSUME Survivable, RecoveryInv, [Next]_vars
  PROVE  \/ Up' = Up /\ UNCHANGED <<logical, limbo>>
         \/ Up /\ ~Up' /\ UNCHANGED <<logical, limbo>>
         \/ Up /\ Up' /\ Begins
         \/ Up /\ Up' /\ Acknowledges
         \/ ~Up /\ Up' /\ Restores
<1>1. CASE OpenNonempty \/ RecoverScan \/ RecoverScanEnd \/ RecoverInstall \/ RecoverEmpty
  BY <1>1 DEF OpenNonempty, RecoverScan, RecoverScanEnd, RecoverInstall, RecoverEmpty,
              Up, MountSteps
<1>2. CASE OpenEmpty \/ RecoverFlush
  <2>1. ~Up /\ Up' /\ Mounted(home.cur)
    BY <1>2 DEF OpenEmpty, RecoverFlush, Up, MountSteps
  <2>2. logical \in Allowed
    BY DEF Allowed
  <2>3. QED
    BY <2>1, <2>2 DEF Mounted, Restores
<1>3. CASE CommitBegin
  <2>1. Up /\ Up' /\ limbo' = limbo \cup {txn.data} /\ logical' = logical
    BY <1>3 DEF CommitBegin, Up, MountSteps
  <2>2. txn.data \in Datas
    BY DEF RecoveryInv, BatchInv
  <2>3. QED
    BY <2>1, <2>2 DEF Begins
<1>4. CASE Publish
  <2>1. /\ pc = "publish" /\ Up /\ Up' /\ limbo' = {} /\ logical' = Apply(logical, txn.data)
    BY <1>4 DEF Publish, Up, MountSteps
  <2>2. txn.data \in limbo
    BY <2>1 DEF RecoveryInv, BatchInv, CommitSteps
  <2>3. QED
    BY <2>1, <2>2 DEF Acknowledges
<1>5. CASE \/ \E b \in Batches : DoCommit(b)
           \/ Reserve \/ CommitRejected
           \/ EnforceLag \/ EndCycle \/ Shutdown \/ Drain
  BY <1>5 DEF DoCommit, Reserve, CommitRejected, EnforceLag, EndCycle, Shutdown, Drain,
              TakeOldest, Up, MountSteps
<1>6. CASE \/ CommitWriteBody \/ CommitWriteBlock \/ CommitPreflush
           \/ CommitFlush \/ CommitSuperWrite \/ CommitSuperFlush
  BY <1>6 DEF CommitWriteBody, CommitWriteBlock, CommitPreflush, CommitFlush,
              CommitSuperWrite, CommitSuperFlush, Up, MountSteps
<1>7. CASE CommitError
  BY <1>7 DEF CommitError, Fault, CommitSteps, Survivable, Up, MountSteps
<1>8. CASE CheckpointWrite \/ CheckpointFlush \/ AdvanceTailWrite
  BY <1>8 DEF CheckpointWrite, CheckpointFlush, AdvanceTailWrite, Up, MountSteps
<1>9. CASE AdvanceTailFlush
  <2>1. pc = "cktflush" /\ pc' = ck.caller /\ UNCHANGED <<logical, limbo>>
    BY <1>9 DEF AdvanceTailFlush
  <2>2. Up /\ ck.caller \in {"reserve", "lag", "drain"}
    BY <2>1, CkptFacts DEF CkptSteps
  <2>3. Up'
    BY <2>1, <2>2 DEF Up, MountSteps
  <2>4. QED
    BY <2>1, <2>2, <2>3
<1>10. ~CheckpointError
  BY DEF CheckpointError, Fault, CkptSteps, Survivable
<1>11. CASE RecoverError
  BY <1>11 DEF RecoverError, MountSteps, Up
<1>12. CASE Kill \/ Unmounted \/ PowerLoss
  BY <1>12 DEF Kill, Unmounted, PowerLoss, LoseMemory, Up
<1>13. CASE UNCHANGED vars
  BY <1>13 DEF vars, Up
<1>14. QED
  BY <1>1, <1>2, <1>3, <1>4, <1>5, <1>6, <1>7, <1>8, <1>9, <1>10, <1>11, <1>12, <1>13
  DEF Next, ThreadStep

(* A batch is an update of the store, and applying it is what the store     *)
(* does with it.                                                            *)
LEMMA BatchIsUpdate ==
  ASSUME NEW d \in Datas, NEW s
  PROVE  UpdateOf(d) \in Store!Update /\ Store!With(s, UpdateOf(d)) = Apply(s, d)
<1> DEFINE D == {d[i].target : i \in DOMAIN d}
           u == UpdateOf(d)
<1>1. d \in Seq(Pending)
  BY DEF Datas
<1>2. \A i \in DOMAIN d : d[i].target \in Blocks /\ d[i].data \in Vals
  <2>1. \A i \in DOMAIN d : d[i] \in Pending
    BY <1>1
  <2>2. QED
    BY <2>1 DEF Pending
<1>3. D \in SUBSET Blocks
  BY <1>2
<1>4. u = [b \in D |-> d[CHOOSE i \in DOMAIN d : d[i].target = b].data]
  BY DEF UpdateOf
<1>5. \A b \in D : (CHOOSE i \in DOMAIN d : d[i].target = b) \in DOMAIN d
  OBVIOUS
<1>6. u \in [D -> Vals]
  BY <1>2, <1>4, <1>5
<1>7. u \in Store!Update
  BY <1>3, <1>6 DEF Store!Update
<1>8. ASSUME NEW b \in Blocks
      PROVE  (IF b \in DOMAIN u THEN u[b] ELSE s[b]) = Apply(s, d)[b]
  <2>1. Apply(s, d)[b] = IF \E i \in DOMAIN d : d[i].target = b
                         THEN d[CHOOSE i \in DOMAIN d : d[i].target = b].data ELSE s[b]
    BY DEF Apply
  <2>2. DOMAIN u = D /\ (b \in D <=> \E i \in DOMAIN d : d[i].target = b)
    BY <1>4
  <2>3. QED
    BY <1>4, <2>1, <2>2
<1>9. Apply(s, d) = [b \in Blocks |-> Apply(s, d)[b]]
  BY DEF Apply
<1> HIDE DEF u, D
<1>10. Store!With(s, u) = Apply(s, d)
  BY <1>8, <1>9 DEF Store!With
<1>11. QED
  BY <1>7, <1>10 DEF u

(* A mounted store has contents.                                            *)
LEMMA HasContents ==
  ASSUME Blocks # {}, logical \in [Blocks -> Vals \cup {TornVal}]
  PROVE  logical # [b \in {} |-> InitVal]
BY DOMAIN logical = Blocks, DOMAIN [b \in {} |-> InitVal] = {}

(* A step of the journal is a step of the store or none at all.             *)
LEMMA StoreStep ==
  ASSUME Survivable, Blocks # {}, RecoveryInv, ViewIsCommitted, ViewIsCommitted', [Next]_vars
  PROVE  [Store!Next]_Store!vars
<1> DEFINE off == [b \in {} |-> InitVal]
           held == IF Up THEN LoggedView ELSE off
           pending == {UpdateOf(d) : d \in limbo}
<1>1. /\ Up => held = logical
      /\ ~Up => held = off
  BY DEF ViewIsCommitted
<1>2. /\ Up' => held' = logical'
      /\ ~Up' => held' = off
  BY DEF ViewIsCommitted
<1>3. off = Store!Offline
  BY DEF Store!Offline
<1>4. Up => held # off
  BY <1>1, HasContents, RecTypes
<1>5. limbo \subseteq Datas
  BY RecTypes
<1>6. CASE Up' = Up /\ UNCHANGED <<logical, limbo>>
  <2>1. UNCHANGED <<held, logical, pending>>
    BY <1>1, <1>2, <1>6
  <2>2. QED
    BY <2>1 DEF Store!vars
<1>7. CASE Up /\ ~Up' /\ UNCHANGED <<logical, limbo>>
  <2>1. held # off /\ held' = off /\ UNCHANGED <<logical, pending>>
    BY <1>2, <1>4, <1>7
  <2>2. Store!Stop
    BY <1>3, <2>1 DEF Store!Stop
  <2>3. QED
    BY <2>2 DEF Store!Next
<1>8. CASE Up /\ Up' /\ Begins
  <2>1. PICK d \in Datas : limbo' = limbo \cup {d} /\ logical' = logical
    BY <1>8 DEF Begins
  <2>2. pending' = pending \cup {UpdateOf(d)}
    BY <2>1
  <2>3. held # off /\ UNCHANGED <<held, logical>>
    BY <1>1, <1>2, <1>4, <1>8, <2>1
  <2>4. Store!Begin(UpdateOf(d))
    BY <1>3, <2>2, <2>3 DEF Store!Begin
  <2>5. UpdateOf(d) \in Store!Update
    BY BatchIsUpdate
  <2>6. QED
    BY <2>4, <2>5 DEF Store!Next
<1>9. CASE Up /\ Up' /\ Acknowledges
  <2>1. PICK d \in limbo : limbo' = {} /\ logical' = Apply(logical, d)
    BY <1>9 DEF Acknowledges
  <2>2. UpdateOf(d) \in Store!Update /\ logical' = Store!With(logical, UpdateOf(d))
    BY <1>5, <2>1, BatchIsUpdate
  <2>3. held # off /\ held' = logical' /\ UpdateOf(d) \in pending /\ pending' = {}
    BY <1>2, <1>4, <1>9, <2>1
  <2>4. Store!Acknowledge(UpdateOf(d))
    BY <1>3, <2>2, <2>3 DEF Store!Acknowledge
  <2>5. QED
    BY <2>2, <2>4 DEF Store!Next
<1>10. CASE ~Up /\ Up' /\ Restores
  <2>1. held = off /\ held' = logical' /\ pending' = {}
    BY <1>1, <1>2, <1>10 DEF Restores
  <2>2. logical' \in {logical} \cup {Store!With(logical, u) : u \in pending}
    <3>1. \A d \in limbo : Store!With(logical, UpdateOf(d)) = Apply(logical, d)
      BY <1>5, BatchIsUpdate
    <3>2. logical' = logical \/ \E d \in limbo : logical' = Apply(logical, d)
      BY <1>10 DEF Restores, Allowed
    <3>3. QED
      BY <3>1, <3>2
  <2>3. Store!Mount
    BY <1>3, <2>1, <2>2 DEF Store!Mount
  <2>4. QED
    BY <2>3 DEF Store!Next
<1>11. QED
  BY <1>6, <1>7, <1>8, <1>9, <1>10, StepKinds

(* The journal implements the atomic store: the contents that log and       *)
(* device hold together, which are those a recovery would restore, change   *)
(* only by one whole acknowledged batch at a time, no checkpoint and no     *)
(* failed commit changes them, and a mount after an unmount, a kill or a    *)
(* power loss brings them back with at most one whole unacknowledged batch. *)
THEOREM JournalIsAtomic ==
  ASSUME Survivable, Blocks # {}
  PROVE  Spec => ImplementsAtomicStore
<1>1. Init => Store!Init
  <2> SUFFICES ASSUME Init PROVE Store!Init
    OBVIOUS
  <2>1. ~Up /\ logical = [b \in Blocks |-> InitVal] /\ limbo = {}
    BY DEF Init, Up
  <2>2. QED
    BY <2>1 DEF Store!Init, Store!Offline
<1>2. RecoveryInv /\ ViewIsCommitted /\ ViewIsCommitted' /\ [Next]_vars
        => [Store!Next]_Store!vars
  BY StoreStep
<1>3. QED
  BY <1>1, <1>2, RecoveryInvariant, ViewStaysCommitted, PTL
  DEF Spec, ImplementsAtomicStore, Store!Spec
=============================================================================
