------------------------------ MODULE FileTree ------------------------------
(***************************************************************************)
(* What the virtual file system promises its callers, without its node     *)
(* table: a finite tree of named files and directories, in which a file    *)
(* holds a sequence of at most MaxData bytes.  Vfs.tla implements it.      *)
(***************************************************************************)
EXTENDS Paths

CONSTANTS
  MaxNodes,  \* how many files and directories there can be
  MaxData,   \* how many bytes a file can hold
  PathArg,   \* the paths callers pass
  TextArg    \* the byte sequences callers pass

VARIABLES
  fs,        \* the files and directories: path -> [type, content]
  ret        \* what the last call returned

treeVars == <<fs, ret>>

Returns(ok, content) == ret' = [ok |-> ok, content |-> content]

Refuses == Returns(FALSE, <<>>) /\ UNCHANGED fs

IsDir(p)  == p \in DOMAIN fs /\ fs[p].type = "dir"
IsFile(p) == p \in DOMAIN fs /\ fs[p].type = "file"

Keep(text, n) == SubSeq(text, 1, Min({n, Len(text)}))

Blank(type) == [type |-> type, content |-> <<>>]

(* A new entry is empty, and its parent is a directory. *)
Create(type, p) ==
  \/ /\ valid_path(p)
     /\ p \notin DOMAIN fs
     /\ IsDir(parent_path(p))
     /\ Cardinality(DOMAIN fs) < MaxNodes
     /\ fs' = [q \in DOMAIN fs \cup {p} |-> IF q = p THEN Blank(type) ELSE fs[q]]
     /\ Returns(TRUE, <<>>)
  \/ /\ \/ ~valid_path(p)
        \/ p \in DOMAIN fs
        \/ ~IsDir(parent_path(p))
        \/ Cardinality(DOMAIN fs) = MaxNodes
     /\ Refuses

HasChild(p) == \E q \in DOMAIN fs \ {p} : parent_path(q) = p

(* Only a file or a directory without an entry of its own goes away, and
   nothing goes with it. *)
Delete(p) ==
  \/ /\ valid_path(p) /\ p \in DOMAIN fs
     /\ p # Root
     /\ ~HasChild(p)
     /\ fs' = [q \in DOMAIN fs \ {p} |-> fs[q]]
     /\ Returns(TRUE, <<>>)
  \/ /\ ~valid_path(p) \/ p \notin DOMAIN fs \/ p = Root \/ HasChild(p)
     /\ Refuses

(* A write replaces the content, an append extends it; what does not fit is
   dropped and the call still succeeds. *)
Update(p, content) ==
  \/ /\ valid_path(p) /\ IsFile(p)
     /\ fs' = [fs EXCEPT ![p].content = content]
     /\ Returns(TRUE, <<>>)
  \/ /\ ~(valid_path(p) /\ IsFile(p))
     /\ Refuses

Write(p, text)  == Update(p, Keep(text, MaxData))

Append_(p, text) ==
  LET old == fs[p].content
  IN  Update(p, old \o Keep(text, MaxData - Len(old)))

(* A read returns what the writes since the creation left there. *)
Read(p) ==
  \/ /\ valid_path(p) /\ IsFile(p)
     /\ Returns(TRUE, fs[p].content)
     /\ UNCHANGED fs
  \/ /\ ~(valid_path(p) /\ IsFile(p))
     /\ Refuses

Init ==
  /\ fs = [p \in {Root} |-> Blank("dir")]
  /\ ret = [ok |-> TRUE, content |-> <<>>]

Next ==
  \E p \in PathArg :
    \/ \E type \in {"file", "dir"} : Create(type, p)
    \/ Delete(p)
    \/ \E text \in TextArg : Write(p, text) \/ Append_(p, text)
    \/ Read(p)

Spec == Init /\ [][Next]_treeVars
=============================================================================
