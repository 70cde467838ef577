------------------------------ MODULE BlockDev ------------------------------
(***************************************************************************)
(* The backing file of blockdev.c, seen through the host's page cache.     *)
(*                                                                         *)
(* A region of blocks is a record r: r.cur[a] is what a read of block a    *)
(* returns, r.alt[a] is every content block a may have after a power loss. *)
(* A write adds the new content, and a half-written one (torn), to alt;    *)
(* fsync() leaves the current content as the only possibility.  A kill of  *)
(* the process leaves the page cache, so both fields, as they are.         *)
(***************************************************************************)

Region(A, V) == [cur : [A -> V], alt : [A -> SUBSET V]]

(* A region whose content f is on stable storage. *)
Settled(f) == [cur |-> f, alt |-> [a \in DOMAIN f |-> {f[a]}]]

(* pwrite() of one whole block: visible at once, durable only after a flush. *)
logfs_bdev_write(r, a, v, torn) ==
  [cur |-> [r.cur EXCEPT ![a] = v],
   alt |-> [r.alt EXCEPT ![a] = @ \cup {v, torn}]]

(* fsync(): everything written so far is durable. *)
logfs_bdev_flush(r) == Settled(r.cur)

(* The blocks of r whose content a power loss may still change. *)
Unflushed(r) == {a \in DOMAIN r.cur : r.alt[a] # {r.cur[a]}}

(* Every content region r may have after a power loss. *)
PowerLossImages(r) ==
  LET U == Unflushed(r)
      choices == {g \in [U -> UNION {r.alt[a] : a \in U}] :
                    \A a \in U : g[a] \in r.alt[a]}
  IN  {[a \in DOMAIN r.cur |-> IF a \in U THEN g[a] ELSE r.cur[a]] :
         g \in choices}
=============================================================================
