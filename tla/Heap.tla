-------------------------------- MODULE Heap --------------------------------
(***************************************************************************)
(* The allocator, src/src/mem/heap.c: one offset that only grows.  Memory  *)
(* is never given back, wnu_free does nothing, and wnu_heap_init starts    *)
(* over whatever is still in use.  Sizes are machine words, so the sum of  *)
(* offset and size can wrap around.                                        *)
(***************************************************************************)
EXTENDS Naturals, FiniteSets

CONSTANTS
  HeapSize,  \* HEAP_SIZE
  Word,      \* 2^64: size_t counts modulo Word
  SizeArg,   \* what callers ask for
  MaxLive    \* bound of the model: blocks in use at a time

ASSUME HeapAssumption ==
  /\ HeapSize \in Nat /\ HeapSize % 16 = 0
  /\ Word \in Nat /\ HeapSize + 16 <= Word
  /\ SizeArg \subseteq 0 .. Word - 1
  /\ MaxLive \in Nat

VARIABLES
  heap_offset,
  live,        \* the blocks handed out since wnu_heap_init
  wrapped      \* a sum of offset and size has wrapped around and been believed

heapVars == <<heap_offset, live, wrapped>>

align_up(value) == ((value + 15) \div 16) * 16

Block == [ptr : Nat, size : Nat]

(* Mutant of wnu_malloc: the room is tested before the offset is aligned. *)
wnu_malloc_testing_first(size) ==
  /\ size # 0
  /\ (heap_offset + size) % Word <= HeapSize
  /\ heap_offset' = (align_up(heap_offset) + size) % Word
  /\ live' = live \cup {[ptr |-> align_up(heap_offset), size |-> size]}
  /\ wrapped' = (wrapped \/ align_up(heap_offset) + size >= Word)

(* The offset is aligned even when the block is refused then. *)
wnu_malloc(size) ==
  LET start == align_up(heap_offset)
      end   == (start + size) % Word
  IN  \/ size = 0 /\ UNCHANGED heapVars
      \/ /\ size # 0 /\ end > HeapSize
         /\ heap_offset' = start
         /\ UNCHANGED <<live, wrapped>>
      \/ /\ size # 0 /\ end <= HeapSize
         /\ heap_offset' = end
         /\ live' = live \cup {[ptr |-> start, size |-> size]}
         /\ wrapped' = (wrapped \/ start + size >= Word)

wnu_heap_init ==
  /\ heap_offset' = 0
  /\ live' = {}
  /\ wrapped' = FALSE

HeapInit == heap_offset = 0 /\ live = {} /\ wrapped = FALSE

HeapNext ==
  \/ Cardinality(live) < MaxLive /\ \E size \in SizeArg : wnu_malloc(size)
  \/ wnu_heap_init

HeapSpec == HeapInit /\ [][HeapNext]_heapVars

-----------------------------------------------------------------------------
(* Properties. *)

(* The offset never leaves the heap, not even when a sum has wrapped: the next
   block still starts in the heap or is refused. *)
HeapTypeOK ==
  /\ heap_offset \in 0 .. HeapSize
  /\ live \subseteq Block
  /\ wrapped \in BOOLEAN

Disjoint(b, c) == b.ptr + b.size <= c.ptr \/ c.ptr + c.size <= b.ptr

(* Unless a size was so large that the sum wrapped around, two blocks never
   share a byte and none reaches beyond the heap, and every block is aligned. *)
BlocksSeparate ==
  ~wrapped =>
    /\ \A b \in live : b.ptr % 16 = 0 /\ b.ptr + b.size <= HeapSize
    /\ \A b, c \in live : b # c => Disjoint(b, c)
=============================================================================
