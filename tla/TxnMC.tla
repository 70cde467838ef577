------------------------------- MODULE TxnMC -------------------------------
(* Small instances of TxnManager for TLC. *)
EXTENDS TxnManager

CONSTANTS c1, c2, m1, d1

Two == {c1, c2}
OneMeta == {m1}
OneData == {d1}
=============================================================================
