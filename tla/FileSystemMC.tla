---------------------------- MODULE FileSystemMC ----------------------------
(* Small instances of FileSystem for TLC. *)
EXTENDS FileSystemTree

CONSTANTS n1, n2, n3, v1, zero, junk

(* Two names in the root, which need a second directory block, and a name   *)
(* in a subdirectory.                                                       *)
MCPaths == {<<n1>>, <<n2>>, <<n1, n3>>}
OneVal == {v1}

(* The whole of the first block, and a part of both blocks.                 *)
MCSpans == {<<0, 2>>, <<1, 3>>}
=============================================================================
