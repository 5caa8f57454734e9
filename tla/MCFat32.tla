------------------------------ MODULE MCFat32 ------------------------------
(* Mounts of a few small disks: clusters of two slots, two files and an empty
   one, chains that end, return to themselves or leave the disk, and a name
   that becomes another's when it is cut.  There are two controllers and room for
   one device. *)
EXTENDS Fat32

CONSTANTS dev, sata0, m, a, b, sata1, eA, eB, eNone, x, y, zero

Names == {dev, sata0, sata1, m, a, b}

Length == [n \in Names |-> IF n = b THEN 2 ELSE 1]

Prefix == [c \in Names \cup {Empty}, n \in 0 .. 5 |->
             IF n = 0 THEN Empty ELSE IF c = b /\ n = 1 THEN a ELSE c]

Both == <<sata0, sata1>>

Boot == << [call |-> "mkdir", path |-> <<m>>, text |-> <<>>] >>

Text == <<x>>

Texts == {Text}

Typed == {Root, <<m>>}

Devices == {sata0, sata1}

(* y is text that can be read as an entry. *)
Entries ==
  (zero  :> [kind |-> "end"]) @@
  (x     :> [kind |-> "skip"]) @@
  (eA    :> [parts |-> <<a>>, start |-> 3, size |-> 3]) @@
  (eB    :> [parts |-> <<b>>, start |-> 4, size |-> 4]) @@
  (eNone :> [parts |-> <<b>>, start |-> 0, size |-> 0]) @@
  (y     :> [parts |-> <<a, m>>, start |-> 9, size |-> 1])

DiskOf(root, after3, after4, format) ==
  [format |-> format, root |-> 2,
   data |-> 2 :> root @@ 3 :> <<x, y>> @@ 4 :> <<y, x>>,
   fat |-> 2 :> Eoc @@ 3 :> after3 @@ 4 :> after4]

GoodDisks ==
  {DiskOf(root, after3, after4, "good") :
     root \in {<<eA, eB>>, <<eB, eA>>}, after3 \in {3, 4, 9}, after4 \in {3, Eoc}}

Disks ==
  GoodDisks \cup
  {DiskOf(<<eNone, eA>>, Free, Eoc, "good")} \cup
  {DiskOf(<<eA, eNone>>, 4, Eoc, format) :
     format \in {"no_sector_size", "large_cluster", "large_sector"}}

(* The hypothesis of the theorem about devices in ShellProofs. *)
ASSUME RoomAssumption == ScriptWorks /\ RoomForDevices
=============================================================================
