----------------------------- MODULE JournalMC -----------------------------
(* Small instances of Journal for TLC. *)
EXTENDS JournalStore

CONSTANTS b1, b2, b3, b4, b5, b6, v0, v1, v2, torn

MCBlocks == {b1, b2}
MCVals == {v0, v1, v2}

P(b, v) == [target |-> b, data |-> v]
Plain(data) == [data |-> data, revoke |-> <<>>]

(* What txn.c hands over: no revoke list, one or two blocks. *)
MCBatches == {Plain(<<P(b1, v1)>>), Plain(<<P(b1, v2), P(b2, v2)>>)}

(* Two one-block transactions fill a ring of six.  Five blocks are too many *)
(* for it (-ENOSPC), six for a descriptor of five tags (-EINVAL).           *)
MCBlocks6 == {b1, b2, b3, b4, b5, b6}
Long == <<P(b1, v1), P(b2, v1), P(b3, v1), P(b4, v1), P(b5, v1)>>
MCBatches6 == MCBatches \cup {Plain(Long), Plain(Append(Long, P(b6, v1)))}

(* Directly through journal.h: a transaction that revokes one block and     *)
(* logs another.                                                            *)
MCBatchesRevoke == {[data |-> <<P(b2, v1)>>, revoke |-> <<b1>>]}
=============================================================================
