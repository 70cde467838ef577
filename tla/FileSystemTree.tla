--------------------------- MODULE FileSystemTree ---------------------------
(***************************************************************************)
(* The file system implements the tree of module FileTree: what a walk     *)
(* over the paths with getattr and read sees is the abstract tree.         *)
(***************************************************************************)
EXTENDS FileSystem

Tree == INSTANCE FileTree

(* Through bitmaps, inodes, directory slots, staging table, journal copies  *)
(* and device, every callback has the effect of one operation on a tree of  *)
(* names, or none when it fails (a failed write may have replaced data);    *)
(* and a crash brings back the committed tree with the guarantee of the     *)
(* data mode (docs/DESIGN.md section 9).  FileTree allows a Revert at any   *)
(* step; which steps of the code may be one is the next property.           *)
ImplementsFileTree == Tree!Spec

(* Only a failed commit and a crash take anything back: every other step is *)
(* a call or a commit of the tree, or leaves it alone.  A commit and a      *)
(* checkpoint are invisible: moving blocks from the staging table to the    *)
(* log, and from the log over older copies at home, changes nothing that a  *)
(* walk sees.                                                               *)
OnlyFailuresRevert ==
  [][/\ Tree!Forward \/ UNCHANGED Tree!vars \/ CommitFails \/ Crash
     /\ Commit \/ Checkpoint => UNCHANGED tree]_vars
=============================================================================
