----------------------------- MODULE MCVfsBoot -----------------------------
(* Vfs with the names and the script of wnu_vfs_init, in a table that is full
   after the boot, so that its nodes have to be reused. *)
EXTENDS Vfs

CONSTANTS bin, etc, home, tmp, os_release, hello, note, zero, x, y

MCNames == {bin, etc, home, tmp, os_release, hello, note}

(* "os-release" and "hello.txt" have ten and nine characters. *)
MCNameLen ==
  [n \in MCNames |->
    CASE n \in {bin, etc, tmp} -> 3
      [] n \in {home, note} -> 4
      [] n = os_release -> 10
      [] n = hello -> 9]

InitScript ==
  LET step(call, path) == [call |-> call, path |-> path,
                           text |-> IF call = "write" THEN <<x, x>> ELSE <<>>]
  IN  << step("mkdir", <<bin>>), step("mkdir", <<etc>>),
         step("mkdir", <<home>>), step("mkdir", <<tmp>>),
         step("create", <<etc, os_release>>), step("write", <<etc, os_release>>),
         step("create", <<hello>>), step("write", <<hello>>) >>

CallPaths == {Root, <<hello>>, <<tmp>>, <<tmp, note>>}

(* The last text is longer than a file can be. *)
CallTexts == {<<x>>, <<y, x, x>>}

(* The script of wnu_vfs_init is one of those of VfsProofs. *)
ASSUME ScriptAssumption == ScriptWorks
=============================================================================
