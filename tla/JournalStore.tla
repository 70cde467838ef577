---------------------------- MODULE JournalStore ----------------------------
(***************************************************************************)
(* The journal implements the atomic store.  The store's contents are what *)
(* log and device hold together (LoggedView): the home locations with      *)
(* every committed transaction on top that is not copied home yet, the one *)
(* a checkpoint has unlinked and is copying included.  They are what a     *)
(* recovery would restore, not what a reader sees meanwhile: a read during *)
(* a checkpoint may miss that transaction (ReadsCommitted of Journal).     *)
(* The committed contents and pending batches are history variables.       *)
(***************************************************************************)
EXTENDS Journal

(* The blocks of one transaction as a function from target to content. *)
UpdateOf(data) ==
  [b \in {data[i].target : i \in DOMAIN data} |->
     data[CHOOSE i \in DOMAIN data : data[i].target = b].data]

Store == INSTANCE AtomicStore WITH
           Blank <- [b \in Blocks |-> InitVal],
           contents <- IF Up THEN LoggedView ELSE [b \in {} |-> InitVal],
           committed <- logical,
           pending <- {UpdateOf(data) : data \in limbo}

(* Atomicity, durability and order of commits (docs/DESIGN.md section 1):   *)
(* through every interleaving of commits, checkpoints, wrap-around, errors, *)
(* kills, power losses and replays the recoverable contents change only by  *)
(* one whole acknowledged batch at a time, and a mount brings back those    *)
(* contents and at most one whole unacknowledged batch: no step of          *)
(* checkpointing or of an error path adds to them or takes from them.       *)
ImplementsAtomicStore == Store!Spec
=============================================================================
