------------------------------ MODULE FileTree ------------------------------
(***************************************************************************)
(* What logfs promises to its user: a tree of named directories and files  *)
(* in which every call takes effect at once or not at all, and which       *)
(* forgets, in a crash, at most the calls made since the last commit.      *)
(* docs/DESIGN.md section 9 gives the two crash guarantees: in mode        *)
(* "journal" the committed tree comes back exactly; in mode "ordered" its  *)
(* names, types and sizes do, and the data of every file not written since.*)
(***************************************************************************)
EXTENDS Sequences, Integers, SequencesExt

CONSTANTS
  Paths,       \* the paths in use: non-empty sequences of names
  Vals,        \* the data of one unit of a file
  Zero,        \* the data of a unit never written
  MaxSize      \* the largest file, in units

VARIABLES
  mode,      \* "ordered" or "journal", chosen at mount
  tree,      \* path -> node; the root is the empty path
  saved,     \* the tree at the last commit
  touched    \* the files written since

vars == <<mode, tree, saved, touched>>

Root == <<>>
Dir == [type |-> "dir"]
File(data) == [type |-> "file", data |-> data]
IsFile(p) == p \in DOMAIN tree /\ tree[p].type = "file"
Children(p) == {q \in DOMAIN tree : q # Root /\ Front(q) = p}

Init == mode \in {"ordered", "journal"} /\ tree = [p \in {Root} |-> Dir] /\ saved = tree /\ touched = {}

Add(p, node) ==
  /\ p \notin DOMAIN tree
  /\ Front(p) \in DOMAIN tree /\ tree[Front(p)].type = "dir"
  /\ tree' = [q \in DOMAIN tree \cup {p} |-> IF q = p THEN node ELSE tree[q]]
  /\ UNCHANGED <<saved, touched>>

Mkdir(p) == Add(p, Dir)
Create(p) == Add(p, File(<<>>))

(* rmdir of an empty directory, or unlink. *)
Delete(p) ==
  /\ p \in DOMAIN tree /\ Children(p) = {}
  /\ tree' = [q \in DOMAIN tree \ {p} |-> tree[q]]
  /\ UNCHANGED <<saved, touched>>

(* Unit i of a file, as if zeros went on after its end. *)
Unit(data, i) == IF i \in DOMAIN data THEN data[i] ELSE Zero

Write(p, offset, n, v) ==
  LET old == tree[p].data
      size == IF offset + n > Len(old) THEN offset + n ELSE Len(old)
      new == [i \in 1 .. size |-> IF i > offset /\ i <= offset + n THEN v ELSE Unit(old, i)]
  IN
  /\ IsFile(p) /\ offset + n <= MaxSize
  /\ tree' = [tree EXCEPT ![p] = File(new)]
  /\ touched' = touched \cup {p}
  /\ UNCHANGED saved

(* A write that reports an error may have replaced some of the old data.    *)
WriteFails(p, v) ==
  /\ IsFile(p)
  /\ \E S \in SUBSET DOMAIN tree[p].data :
       tree' = [tree EXCEPT ![p] = File([i \in DOMAIN @.data |->
                                          IF i \in S THEN v ELSE @.data[i]])]
  /\ touched' = touched \cup {p}
  /\ UNCHANGED saved

Truncate(p, size) ==
  /\ IsFile(p)
  /\ tree' = [tree EXCEPT ![p] = File([i \in 1 .. size |-> Unit(@.data, i)])]
  /\ UNCHANGED <<saved, touched>>

Commit == saved' = tree /\ touched' = {} /\ UNCHANGED tree

(* Same type and size, and in mode "journal", or if nobody wrote to it, the *)
(* same data.                                                               *)
Restored(p) ==
  /\ tree'[p].type = saved[p].type
  /\ saved[p].type = "file" => Len(tree'[p].data) = Len(saved[p].data)
  /\ mode = "journal" \/ p \notin touched => tree'[p] = saved[p]

(* A crash and the mount after it, or a commit that failed and dropped all  *)
(* it should have made durable.                                             *)
Revert ==
  /\ DOMAIN tree' = DOMAIN saved
  /\ \A p \in DOMAIN saved : Restored(p)
  /\ \/ saved' = saved /\ touched' = touched
     \/ saved' = tree' /\ touched' = {}

Call ==
  \/ \E p \in Paths : Mkdir(p) \/ Create(p) \/ Delete(p)
  \/ \E p \in Paths, v \in Vals :
       \/ \E offset \in 0 .. MaxSize, n \in 1 .. MaxSize : Write(p, offset, n, v)
       \/ WriteFails(p, v)
  \/ \E p \in Paths, size \in 0 .. MaxSize : Truncate(p, size)

(* What happens while nothing fails: no call and no commit takes back what  *)
(* an earlier one did.                                                      *)
Forward == (Call \/ Commit) /\ UNCHANGED mode

Next == Forward \/ (Revert /\ UNCHANGED mode)

Spec == Init /\ [][Next]_vars
=============================================================================
