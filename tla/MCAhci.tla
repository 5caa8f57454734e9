------------------------------- MODULE MCAhci -------------------------------
(* Two controllers, the first of which can be pulled out and plugged in, one more
   of which nothing can be read and for which there is no room in the table, and a
   caller for each of the two: one reads into a buffer of the kernel's image, the
   other into one on the stack. *)
EXTENDS Ahci

CONSTANTS image, stack

Bus == <<"ahci", "ahci", "sata">>

Callers ==
  { [ctrl |-> 1, buf |-> image, lba |-> 0, count |-> MaxSectors],
    [ctrl |-> 2, buf |-> stack, lba |-> 0, count |-> MaxSectors] }

FirstCaller == {r \in Callers : r.ctrl = 1}

(* Where the code writes the number of entries and the address of the table,
   and where its comments say that they are. *)
Written == [entries |-> 4, table |-> 24]

Commented == [entries |-> 2, table |-> 16]

BothLayouts == {Written, Commented}

(* Nothing, or something that looks like a command to overwrite the image. *)
Page ==
  {[fis |-> NoFis, place |-> Nowhere, length |-> 0],
   [fis |-> [lba |-> 0, count |-> MaxSectors], place |-> image,
    length |-> MaxSectors]}

(* The comment on the entries alone. *)
EntriesCommented == {[Written EXCEPT !.entries = 2]}
=============================================================================
