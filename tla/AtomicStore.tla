---------------------------- MODULE AtomicStore ----------------------------
(***************************************************************************)
(* What the journal promises to the layer above it: a store of blocks that *)
(* is updated one whole batch at a time.  A batch is in the store when its *)
(* commit is acknowledged; a batch whose commit was started and never      *)
(* acknowledged (a crash, an I/O error) may still turn up, whole, at the   *)
(* next mount, and nothing else may.                                       *)
(***************************************************************************)
CONSTANTS
  Blocks,    \* block numbers
  Vals,      \* block contents
  Blank      \* the contents of the store after mkfs

(* A batch of blocks, a function from some block numbers to new contents. *)
Update == UNION {[B -> Vals] : B \in SUBSET Blocks}

(* The store is not mounted: it has no contents. *)
Offline == [b \in {} |-> Blank[b]]

VARIABLES
  contents,    \* what the mounted store holds
  committed,   \* the acknowledged contents
  pending      \* batches whose commit was started and not acknowledged

vars == <<contents, committed, pending>>

With(s, u) == [b \in Blocks |-> IF b \in DOMAIN u THEN u[b] ELSE s[b]]

Init == contents = Offline /\ committed = Blank /\ pending = {}

Begin(u) ==
  /\ contents # Offline
  /\ pending' = pending \cup {u}
  /\ UNCHANGED <<contents, committed>>

Acknowledge(u) ==
  /\ contents # Offline /\ u \in pending
  /\ committed' = With(committed, u)
  /\ contents' = committed'
  /\ pending' = {}

(* Unmount, a kill of the process or a power loss. *)
Stop == contents # Offline /\ contents' = Offline /\ UNCHANGED <<committed, pending>>

Mount ==
  /\ contents = Offline
  /\ committed' \in {committed} \cup {With(committed, u) : u \in pending}
  /\ contents' = committed'
  /\ pending' = {}

Next ==
  \/ \E u \in Update : Begin(u) \/ Acknowledge(u)
  \/ Stop \/ Mount

Spec == Init /\ [][Next]_vars
=============================================================================
