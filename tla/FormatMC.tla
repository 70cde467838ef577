------------------------------ MODULE FormatMC ------------------------------
(* Small instances of Format for TLC. *)
EXTENDS Format

(* The smallest images, and one with two blocks of inodes.                  *)
MCTotals == {8, 9, 116, 40000}

(* With 109 blocks of journal an image of 116 blocks has no data block      *)
(* (-ENOSPC); an image of 40000 blocks is too large for its bitmap (-EFBIG). *)
MCJournalLens == {1, 2, 109}
=============================================================================
