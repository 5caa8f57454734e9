------------------------------ MODULE Memmove ------------------------------
(***************************************************************************)
(* memmove and memcpy, src/src/lib/lib.c, byte by byte in one memory: the  *)
(* two areas can overlap, and each byte that is stored can be one that is  *)
(* still to be read.  memmove chooses its direction by the addresses, and  *)
(* memcpy always starts at the low end.                                    *)
(***************************************************************************)
EXTENDS Naturals

CONSTANTS
  MemSize,  \* the size of the memory
  Byte

ASSUME MemoryAssumption == MemSize \in Nat

Address == 0 .. MemSize - 1

VARIABLES
  mem,
  old,            \* the memory when the function was called
  fn,             \* the function: "memmove" or "memcpy"
  dst, src, n,    \* its arguments
  i,              \* its loop counter
  pc              \* "idle", "up" or "down"

args == <<old, fn, dst, src, n>>
memVars == <<mem, args, i, pc>>

(* Mutant of CallCopy: the direction is chosen the wrong way round. *)
CallCopyWrongWay ==
  /\ pc = "idle"
  /\ fn' \in {"memmove", "memcpy"}
  /\ n' \in 0 .. MemSize
  /\ dst' \in 0 .. MemSize - n' /\ src' \in 0 .. MemSize - n'
  /\ old' = mem
  /\ IF fn' = "memcpy" \/ src' < dst' THEN pc' = "up" /\ i' = 0
                                      ELSE pc' = "down" /\ i' = n'
  /\ UNCHANGED mem

(* Both areas are in the memory. *)
CallCopy ==
  /\ pc = "idle"
  /\ fn' \in {"memmove", "memcpy"}
  /\ n' \in 0 .. MemSize
  /\ dst' \in 0 .. MemSize - n' /\ src' \in 0 .. MemSize - n'
  /\ old' = mem
  /\ IF fn' = "memcpy" \/ dst' < src' THEN pc' = "up" /\ i' = 0
                                      ELSE pc' = "down" /\ i' = n'
  /\ UNCHANGED mem

CopyUp ==
  /\ pc = "up" /\ i < n
  /\ mem' = [mem EXCEPT ![dst + i] = mem[src + i]]
  /\ i' = i + 1
  /\ UNCHANGED <<args, pc>>

CopyDown ==
  /\ pc = "down" /\ i > 0
  /\ mem' = [mem EXCEPT ![dst + i - 1] = mem[src + i - 1]]
  /\ i' = i - 1
  /\ UNCHANGED <<args, pc>>

ReturnCopy ==
  /\ \/ pc = "up" /\ i = n
     \/ pc = "down" /\ i = 0
  /\ pc' = "idle"
  /\ UNCHANGED <<mem, args, i>>

MemInit ==
  /\ mem \in [Address -> Byte] /\ old = mem
  /\ fn = "memcpy" /\ dst = 0 /\ src = 0 /\ n = 0
  /\ i = 0 /\ pc = "idle"

MemNext == CallCopy \/ CopyUp \/ CopyDown \/ ReturnCopy

MemSpec == MemInit /\ [][MemNext]_memVars

-----------------------------------------------------------------------------
(* Properties. *)

(* The arguments stay in the memory and the counter in its loop. *)
MemTypeOK ==
  /\ mem \in [Address -> Byte] /\ old \in [Address -> Byte]
  /\ fn \in {"memmove", "memcpy"}
  /\ n \in 0 .. MemSize
  /\ dst \in 0 .. MemSize - n /\ src \in 0 .. MemSize - n
  /\ i \in 0 .. n
  /\ pc \in {"idle", "up", "down"}

(* Where memcpy may be used: the areas are apart, or the target is the lower
   one. *)
Allowed == fn = "memmove" \/ dst < src \/ dst >= src + n

(* When memmove returns, the target holds what the source held when it was
   called, and nothing else has changed, however the areas overlap; memcpy does
   as much for areas that are apart. *)
CopiesAll ==
  pc = "idle" /\ Allowed =>
    \A a \in Address :
      mem[a] = IF dst <= a /\ a < dst + n THEN old[src + (a - dst)] ELSE old[a]
=============================================================================
