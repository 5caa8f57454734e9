------------------------------- MODULE MCLib -------------------------------
(* The parts that depend on nothing and that nothing but their callers can
   disturb: strings, numbers and checksums, the copies of memory, printf and
   the heap.  One of them works and the others rest, since they share no state.
   Bytes have four values; strings have up to two characters and packets up to
   five bytes, of which three words make a carry of a carry; the heap has four
   aligned pieces in a word of seven bits. *)
EXTENDS Lib, Memmove, Printf, Heap

Numbers == -17 .. 40

VARIABLE working

all == <<working, libVars, memVars, printfVars, heapVars>>

Init ==
  /\ working \in {"lib", "memory", "printf", "heap"}
  /\ LibInit /\ PrintfInit /\ HeapInit
  /\ MemInit
  /\ working # "memory" =>
       mem = [address \in Address |-> CHOOSE byte \in Byte : TRUE]

Next ==
  /\ UNCHANGED working
  /\ \/ /\ working = "lib" /\ LibNext
        /\ UNCHANGED <<memVars, printfVars, heapVars>>
     \/ /\ working = "memory" /\ MemNext
        /\ UNCHANGED <<libVars, printfVars, heapVars>>
     \/ /\ working = "printf" /\ PrintfNext
        /\ UNCHANGED <<libVars, memVars, heapVars>>
     \/ /\ working = "heap" /\ HeapNext
        /\ UNCHANGED <<libVars, memVars, printfVars>>

Spec == Init /\ [][Next]_all
=============================================================================
