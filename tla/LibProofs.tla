----------------------------- MODULE LibProofs ------------------------------
(***************************************************************************)
(* Theorems about the parts that depend on nothing: the allocator, whose   *)
(* offset stays in the heap and whose blocks do not overlap unless a sum   *)
(* of offset and size wrapped around; the functions of Lib, for strings    *)
(* and packets of every length and numbers of every size; and memmove,     *)
(* which is right for every memory and every overlap.  The end is about the lines that    *)
(* drivers print.                                                          *)
(***************************************************************************)
EXTENDS Heap, Memmove, Lib, Printf, Recursion, SequenceTheorems

(* The allocator. *)

(* What is in use lies below the offset, where nothing is handed out again. *)
Below == ~wrapped => \A b \in live : b.ptr + b.size <= heap_offset

HeapInv == HeapTypeOK /\ BlocksSeparate /\ Below

(* align_up returns the next multiple of 16, and one of the heap for an offset
   of the heap, whose size is such a multiple. *)
LEMMA AlignUp ==
  ASSUME NEW v \in 0 .. HeapSize
  PROVE  /\ align_up(v) \in v .. HeapSize
         /\ align_up(v) % 16 = 0
<1>1. HeapSize \in Nat /\ HeapSize % 16 = 0
  BY HeapAssumption
<1>2. v \in Nat /\ v <= HeapSize
  BY <1>1
<1> QED
  BY <1>1, <1>2, Z3 DEF align_up

(* A block that is granted without wrapping lies behind all others. *)
LEMMA GrantKeepsInv ==
  ASSUME HeapInv, NEW size \in SizeArg, size # 0,
         NEW start, start = align_up(heap_offset),
         NEW end, end = (start + size) % Word, end <= HeapSize,
         heap_offset' = end,
         live' = live \cup {[ptr |-> start, size |-> size]},
         wrapped' = (wrapped \/ start + size >= Word)
  PROVE  HeapInv'
<1> DEFINE new == [ptr |-> start, size |-> size]
<1> USE HeapAssumption
<1>1. size \in Nat /\ HeapSize \in Nat /\ Word \in Nat
  OBVIOUS
<1>2. start \in heap_offset .. HeapSize /\ start % 16 = 0 /\ heap_offset \in Nat
  BY <1>1, AlignUp DEF HeapInv, HeapTypeOK
<1>3. end \in 0 .. HeapSize
  BY <1>1, <1>2
<1>4. start + size < Word => end = start + size
  BY <1>1, <1>2
<1>5. HeapTypeOK'
  BY <1>1, <1>2, <1>3 DEF HeapInv, HeapTypeOK, Block
<1>6. ASSUME ~wrapped'
      PROVE  /\ \A b \in live' : /\ b.ptr % 16 = 0 /\ b.ptr + b.size <= HeapSize
                                 /\ b.ptr + b.size <= heap_offset'
             /\ \A b, c \in live' : b # c => Disjoint(b, c)
  <2>1. ~wrapped /\ end = start + size
    <3>1. ~wrapped /\ ~(start + size >= Word)
      BY <1>6
    <3> QED
      BY <1>1, <1>2, <1>4, <3>1
  <2>2. \A b \in live : /\ b.ptr \in Nat /\ b.size \in Nat
                        /\ b.ptr % 16 = 0 /\ b.ptr + b.size <= HeapSize
                        /\ b.ptr + b.size <= heap_offset
    BY <2>1 DEF HeapInv, HeapTypeOK, Block, BlocksSeparate, Below
  <2>3. \A b \in live : b.ptr + b.size <= start
    BY <1>1, <1>2, <2>2
  <2>4. \A b \in live : Disjoint(b, new) /\ Disjoint(new, b)
    BY <2>3 DEF Disjoint
  <2>5. \A b, c \in live : b # c => Disjoint(b, c)
    BY <2>1 DEF HeapInv, BlocksSeparate
  <2>6. \A b, c \in live' : b # c => Disjoint(b, c)
    BY <2>4, <2>5
  <2>7. \A b \in live' : /\ b.ptr % 16 = 0 /\ b.ptr + b.size <= HeapSize
                         /\ b.ptr + b.size <= heap_offset'
    BY <1>1, <1>2, <2>1, <2>2
  <2> QED
    BY <2>6, <2>7
<1> QED
  BY <1>5, <1>6 DEF HeapInv, BlocksSeparate, Below

LEMMA StepKeepsInv == HeapInv /\ [HeapNext]_heapVars => HeapInv'
<1> SUFFICES ASSUME HeapInv, [HeapNext]_heapVars PROVE HeapInv'
  OBVIOUS
<1> USE HeapAssumption
<1>1. ASSUME NEW size \in SizeArg, wnu_malloc(size)
      PROVE  HeapInv'
  <2>1. CASE UNCHANGED heapVars
    BY <2>1 DEF heapVars, HeapInv, HeapTypeOK, BlocksSeparate, Below
  <2>2. CASE /\ heap_offset' = align_up(heap_offset)
             /\ UNCHANGED <<live, wrapped>>
    <3>1. align_up(heap_offset) \in heap_offset .. HeapSize
      BY AlignUp DEF HeapInv, HeapTypeOK
    <3>2. heap_offset \in Nat /\ heap_offset' \in 0 .. HeapSize
               /\ heap_offset <= heap_offset'
      BY <2>2, <3>1 DEF HeapInv, HeapTypeOK
    <3>3. \A b \in live : b.ptr \in Nat /\ b.size \in Nat
      BY DEF HeapInv, HeapTypeOK, Block
    <3>4. Below'
      BY <2>2, <3>2, <3>3 DEF HeapInv, Below
    <3> QED
      BY <2>2, <3>2, <3>4 DEF HeapInv, HeapTypeOK, BlocksSeparate
  <2>3. CASE /\ size # 0
             /\ (align_up(heap_offset) + size) % Word <= HeapSize
             /\ heap_offset' = (align_up(heap_offset) + size) % Word
             /\ live' = live \cup {[ptr |-> align_up(heap_offset), size |-> size]}
             /\ wrapped' = (wrapped \/ align_up(heap_offset) + size >= Word)
    BY <2>3, GrantKeepsInv
  <2> QED
    BY <1>1, <2>1, <2>2, <2>3 DEF wnu_malloc
<1>2. CASE wnu_heap_init
  <2>1. HeapTypeOK'
    <3>1. 0 \in 0 .. HeapSize /\ {} \subseteq Block
      OBVIOUS
    <3> QED
      BY <1>2, <3>1, Zenon DEF wnu_heap_init, HeapTypeOK
  <2>2. BlocksSeparate' /\ Below'
    BY <1>2 DEF wnu_heap_init, BlocksSeparate, Below
  <2> QED
    BY <2>1, <2>2 DEF HeapInv
<1>3. CASE UNCHANGED heapVars
  BY <1>3 DEF heapVars, HeapInv, HeapTypeOK, BlocksSeparate, Below
<1> QED
  BY <1>1, <1>2, <1>3 DEF HeapNext

LEMMA HeapInvariance == HeapSpec => []HeapInv
<1>1. HeapInit => HeapInv
  <2> SUFFICES ASSUME HeapInit PROVE HeapInv
    OBVIOUS
  <2>1. HeapTypeOK
    <3>1. 0 \in 0 .. HeapSize /\ {} \subseteq Block
      BY HeapAssumption
    <3> QED
      BY <3>1, Zenon DEF HeapInit, HeapTypeOK
  <2>2. BlocksSeparate /\ Below
    BY DEF HeapInit, BlocksSeparate, Below
  <2> QED
    BY <2>1, <2>2 DEF HeapInv
<1> QED
  BY <1>1, StepKeepsInv, PTL DEF HeapSpec

(* For every heap, word and size: the offset stays in the heap. *)
THEOREM HeapTypeCorrect == HeapSpec => []HeapTypeOK
<1>1. HeapInv => HeapTypeOK
  BY DEF HeapInv
<1> QED
  BY <1>1, HeapInvariance, PTL

(* Whatever wnu_malloc is asked for, the blocks it has handed out are aligned,
   in the heap and apart from each other, unless a sum wrapped around. *)
THEOREM BlocksStaySeparate == HeapSpec => []BlocksSeparate
<1>1. HeapInv => BlocksSeparate
  BY DEF HeapInv
<1> QED
  BY <1>1, HeapInvariance, PTL

-----------------------------------------------------------------------------
(* Strings, numbers and checksums. *)

(* Going along a string from its first place on. *)

Scans(f, last, stop, val) ==
  \A p \in 1 .. last : f[p] = IF p \in stop THEN val[p] ELSE f[p + 1]

(* There is a function for it, and it is what it is at the first place where
   the walk stops. *)
LEMMA Scan ==
  ASSUME NEW last \in Nat \ {0}, NEW stop, last \in stop,
         NEW val \in [1 .. last -> Int]
  PROVE  /\ \E f \in [1 .. last -> Int] : Scans(f, last, stop, val)
         /\ \A f : Scans(f, last, stop, val) =>
              \E k \in 1 .. last : /\ k \in stop
                                   /\ \A p \in 1 .. k - 1 : p \notin stop
                                   /\ f[1] = val[k]
<1>. DEFINE S    == 1 .. last
            rank == [p \in S |-> last - p]
            next == [p \in S |-> IF p = last THEN p ELSE p + 1]
            step == [sx \in S \X Int |-> sx[2]]
<1>1. /\ rank \in [S -> 0 .. last] /\ next \in [S -> S] /\ step \in [S \X Int -> Int]
      /\ \A p \in S : p \notin stop => next[p] = p + 1 /\ rank[next[p]] < rank[p]
  OBVIOUS
<1>2. ASSUME NEW f \in [S -> Int], Descends(f, S, stop, val, next, step)
      PROVE  Scans(f, last, stop, val)
  <2>. SUFFICES ASSUME NEW p \in S PROVE f[p] = IF p \in stop THEN val[p] ELSE f[p + 1]
    BY DEF Scans
  <2>1. f[p] = IF p \in stop THEN val[p] ELSE step[<<p, f[next[p]]>>]
    BY <1>2 DEF Descends
  <2>2. p \notin stop => p + 1 \in S /\ next[p] = p + 1
    BY <1>1
  <2>3. \A x \in Int : step[<<p, x>>] = x
    OBVIOUS
  <2>. HIDE DEF next, step
  <2>. QED
    BY <2>1, <2>2, <2>3
<1>3. \E f \in [S -> Int] : Scans(f, last, stop, val)
  <2>. HIDE DEF S, rank, next, step
  <2>1. \E f \in [S -> Int] : Descends(f, S, stop, val, next, step)
    <3>1. last \in Nat /\ val \in [S -> Int]
      BY DEF S
    <3>2. IsDescent(S, Int, last, rank, stop, val, next, step)
      BY <1>1, <3>1 DEF IsDescent
    <3>. QED
      BY <3>2, Descent
  <2>. QED
    BY <1>2, <2>1
<1>4. ASSUME NEW f, Scans(f, last, stop, val)
      PROVE  \E k \in S : /\ k \in stop
                          /\ \A p \in 1 .. k - 1 : p \notin stop
                          /\ f[1] = val[k]
  <2>. DEFINE stops == {p \in S : p \in stop}
  <2>1. PICK k \in stops : \A p \in stops : k <= p
    <3>1. stops \in SUBSET Nat /\ stops # {}
      OBVIOUS
    <3>. HIDE DEF stops
    <3>. QED
      BY <3>1, MinIn
  <2>2. k \in S /\ k \in stop /\ \A p \in 1 .. k - 1 : p \in S /\ p \notin stop
    BY <2>1
  <2>. DEFINE off == {p \in 1 .. k : f[p] # f[1]}
  <2>3. off = {}
    <3>1. SUFFICES ASSUME off # {} PROVE FALSE
      OBVIOUS
    <3>2. PICK p \in off : \A q \in off : p <= q
      <4>1. off \in SUBSET Nat
        OBVIOUS
      <4>. HIDE DEF off
      <4>. QED
        BY <3>1, <4>1, MinIn
    <3>3. p \in 1 .. k /\ p # 1 /\ f[p] # f[1]
      OBVIOUS
    <3>4. p - 1 \in 1 .. k - 1 /\ p - 1 \in 1 .. k /\ ~(p <= p - 1) /\ (p - 1) + 1 = p
      BY <2>2, <3>3
    <3>5. f[p - 1] = f[1]
      BY <3>2, <3>4
    <3>6. f[p - 1] = f[(p - 1) + 1]
      BY <1>4, <2>2, <3>4 DEF Scans
    <3>. QED
      BY <3>3, <3>4, <3>5, <3>6
  <2>4. f[k] = f[1]
    BY <2>2, <2>3
  <2>5. f[k] = val[k]
    BY <1>4, <2>2 DEF Scans
  <2>. QED
    BY <2>2, <2>4, <2>5
<1>. QED
  BY <1>3, <1>4

(* Strings, without a bound. *)
Text == Seq(AnyByte \ {0})

(* Strings that are equal up to a place where they are not, or end. *)
ComparedAt(a, b, k) ==
  /\ \A p \in 1 .. k - 1 : At(a, p) = At(b, p) /\ At(a, p) # 0
  /\ At(a, k) = 0 \/ At(b, k) = 0 \/ At(a, k) # At(b, k)

(* A character of a string, or the zero behind its end. *)
LEMMA AtIs ==
  ASSUME NEW s \in Text, NEW p \in Nat \ {0}
  PROVE  /\ At(s, p) \in Nat
         /\ At(s, p) # 0 <=> p <= Len(s)
         /\ p <= Len(s) => At(s, p) = s[p]
<1>1. \A c \in AnyByte \ {0} : c \in Nat /\ c # 0
  BY LibAssumption DEF AnyByte
<1>2. p <= Len(s) => s[p] \in AnyByte \ {0}
  BY DEF Text
<1>. QED
  BY <1>1, <1>2 DEF At

(* The characters at the first place where two strings differ or end decide
   how the dictionary orders them. *)
LEMMA OrderedAt ==
  ASSUME NEW a \in Text, NEW b \in Text, NEW k \in Nat \ {0}, ComparedAt(a, b, k)
  PROVE  /\ At(a, k) - At(b, k) < 0 <=> Before(a, b)
         /\ At(a, k) - At(b, k) = 0 <=> a = b
<1>1. a \in Seq(AnyByte) /\ b \in Seq(AnyByte) /\ Len(a) \in Nat /\ Len(b) \in Nat
  BY DEF Text
<1>2. PICK x, y \in Nat : x = At(a, k) /\ y = At(b, k)
  BY AtIs
<1>3. \A p \in 1 .. k - 1 : p <= Len(a) /\ p <= Len(b) /\ a[p] = b[p]
  BY AtIs DEF ComparedAt
<1>4. k - 1 <= Len(a) /\ k - 1 <= Len(b)
  <2>1. k # 1 => k - 1 \in 1 .. k - 1
    OBVIOUS
  <2>. QED
    BY <1>1, <1>3, <2>1
<1>5. /\ x = 0 <=> Len(a) = k - 1
      /\ y = 0 <=> Len(b) = k - 1
      /\ x # 0 => k <= Len(a) /\ x = a[k]
      /\ y # 0 => k <= Len(b) /\ y = b[k]
  BY <1>1, <1>2, <1>4, AtIs
<1>6. \A m \in 0 .. k - 1 : SubSeq(a, 1, m) = SubSeq(b, 1, m)
  <2>. SUFFICES ASSUME NEW m \in 0 .. k - 1 PROVE SubSeq(a, 1, m) = SubSeq(b, 1, m)
    OBVIOUS
  <2>1. m <= Len(a) /\ m <= Len(b) /\ \A p \in 1 .. m : a[p] = b[p]
    BY <1>1, <1>3, <1>4
  <2>. QED
    BY <1>1, <2>1
<1>7. /\ SubSeq(a, 1, Len(a)) = a /\ SubSeq(b, 1, Len(b)) = b
  BY <1>1, SubSeqFull
<1>8. x = 0 \/ y = 0 \/ x # y
  BY <1>2 DEF ComparedAt
<1>9. CASE x = y
  <2>1. Len(a) = k - 1 /\ Len(b) = k - 1
    BY <1>5, <1>8, <1>9
  <2>2. a = b
    BY <1>6, <1>7, <2>1
  <2>3. ~Before(a, b)
    <3>1. ~IsStrictPrefix(a, b)
      BY <2>2 DEF IsStrictPrefix
    <3>2. ASSUME NEW p \in 1 .. Min({Len(a), Len(b)}), a[p] < b[p] PROVE FALSE
      <4>. DEFINE lens == {Len(a), Len(b)}
      <4>1. Min(lens) \in lens
        <5>1. lens \in SUBSET Nat /\ lens # {}
          BY <1>1
        <5>. HIDE DEF lens
        <5>. QED
          BY <5>1, MinIn
      <4>2. p \in 1 .. k - 1
        BY <2>1, <3>2, <4>1
      <4>3. a[p] \in Nat
        BY <1>1, <2>1, <4>2, LibAssumption DEF AnyByte
      <4>. QED
        BY <1>3, <3>2, <4>2, <4>3
    <3>. QED
      BY <3>1, <3>2 DEF Before
  <2>. QED
    BY <1>2, <1>9, <2>2, <2>3
<1>10. a = b => x = y
  BY <1>2
<1>11. CASE x < y
  <2>1. k <= Len(b) /\ y = b[k]
    BY <1>5, <1>11
  <2>2. CASE x = 0
    <3>1. Len(a) = k - 1 /\ SubSeq(a, 1, Len(a)) = SubSeq(b, 1, Len(a))
      BY <1>5, <1>6, <2>2
    <3>2. IsStrictPrefix(a, b)
      BY <1>1, <1>10, <1>11, <2>1, <3>1 DEF IsStrictPrefix, IsPrefix
    <3>. QED
      BY <1>2, <1>10, <1>11, <3>2 DEF Before
  <2>3. CASE x # 0
    <3>1. k <= Len(a) /\ a[k] < b[k] /\ SubSeq(a, 1, k - 1) = SubSeq(b, 1, k - 1)
      BY <1>5, <1>6, <1>11, <2>1, <2>3
    <3>2. k \in 1 .. Min({Len(a), Len(b)})
      <4>. DEFINE lens == {Len(a), Len(b)}
      <4>1. Min(lens) \in lens
        <5>1. lens \in SUBSET Nat /\ lens # {}
          BY <1>1
        <5>. HIDE DEF lens
        <5>. QED
          BY <5>1, MinIn
      <4>. QED
        BY <1>1, <2>1, <3>1, <4>1
    <3>3. Before(a, b)
      BY <3>1, <3>2 DEF Before
    <3>. QED
      BY <1>2, <1>10, <1>11, <3>3
  <2>. QED
    BY <2>2, <2>3
<1>12. CASE x > y
  <2>1. k <= Len(a) /\ x = a[k]
    BY <1>5, <1>12
  <2>2. ~IsStrictPrefix(a, b)
    <3>1. SUFFICES ASSUME Len(a) <= Len(b), SubSeq(a, 1, Len(a)) = SubSeq(b, 1, Len(a))
                   PROVE  FALSE
      BY DEF IsStrictPrefix, IsPrefix
    <3>2. a[k] = b[k]
      BY <1>1, <2>1, <3>1
    <3>3. y = b[k]
      BY <1>1, <1>4, <1>5, <2>1, <3>1
    <3>. QED
      BY <1>12, <2>1, <3>2, <3>3
  <2>3. ASSUME NEW p \in 1 .. Min({Len(a), Len(b)}),
               SubSeq(a, 1, p - 1) = SubSeq(b, 1, p - 1), a[p] < b[p]
        PROVE  FALSE
    <3>. DEFINE lens == {Len(a), Len(b)}
    <3>1. Min(lens) \in Nat /\ Min(lens) <= Len(a) /\ Min(lens) <= Len(b)
      <4>1. lens \in SUBSET Nat /\ lens # {} /\ Len(a) \in lens /\ Len(b) \in lens
        BY <1>1
      <4>. HIDE DEF lens
      <4>. QED
        BY <4>1, MinIn
    <3>2. p \in Nat /\ p # 0 /\ p <= Len(a) /\ p <= Len(b)
      BY <1>1, <3>1
    <3>3. a[p] \in Nat /\ b[p] \in Nat
      BY <1>1, <3>2, LibAssumption DEF AnyByte
    <3>4. ~(p \in 1 .. k - 1)
      BY <1>3, <2>3, <3>3
    <3>5. CASE p = k
      <4>1. x < b[k] /\ k <= Len(b)
        BY <2>1, <2>3, <3>2, <3>5
      <4>2. y = b[k]
        BY <1>2, <3>2, <3>5, <4>1, AtIs
      <4>. QED
        BY <1>12, <4>1, <4>2
    <3>6. CASE p > k
      <4>1. k \in 1 .. p - 1
        BY <3>2, <3>6
      <4>2. a[k] = b[k]
        BY <1>1, <2>3, <3>2, <4>1
      <4>3. y = b[k]
        BY <1>1, <1>4, <1>5, <3>2, <3>6
      <4>. QED
        BY <1>12, <2>1, <4>2, <4>3
    <3>. QED
      BY <3>2, <3>4, <3>5, <3>6
  <2>4. ~Before(a, b)
    BY <2>2, <2>3, Zenon DEF Before
  <2>. QED
    BY <1>2, <1>10, <1>12, <2>4
<1>. QED
  BY <1>9, <1>11, <1>12

(* strcmp returns the difference at that place. *)
LEMMA StrcmpIs ==
  ASSUME NEW a \in Text, NEW b \in Text, Len(a) <= MaxLen, Len(b) <= MaxLen
  PROVE  \E k \in 1 .. MaxLen + 1 : /\ ComparedAt(a, b, k)
                                    /\ strcmp(a, b) = At(a, k) - At(b, k)
<1>. DEFINE last      == MaxLen + 1
            goes(p)   == At(a, p) # 0 /\ At(b, p) # 0 /\ At(a, p) = At(b, p)
            diff(p)   == At(a, p) - At(b, p)
            stop      == {p \in Index : ~goes(p)}
            val       == [p \in 1 .. last |-> diff(p)]
            Linked(f) == f = [p \in Index |-> IF goes(p) THEN f[p + 1] ELSE diff(p)]
<1>1. last \in Nat \ {0} /\ Index = 1 .. last
  BY LibAssumption DEF Index
<1>2. \A p \in 1 .. last : diff(p) \in Int
  BY AtIs
<1>3. last \in stop
  <2>1. At(a, last) = 0
    BY <1>1, AtIs, LibAssumption DEF Text
  <2>. QED
    BY <1>1, <2>1
<1>4. val \in [1 .. last -> Int]
  BY <1>2
<1>5. \A f : Linked(f) => Scans(f, last, stop, val)
  <2>. HIDE DEF last, goes, diff
  <2>. QED
    BY <1>1 DEF Scans
<1>6. \A f \in [1 .. last -> Int] : Scans(f, last, stop, val) => Linked(f)
  <2>. HIDE DEF last, goes, diff
  <2>. QED
    BY <1>1 DEF Scans
<1>7. strcmp(a, b) = (CHOOSE f : Linked(f))[1]
  BY Zenon DEF strcmp
<1>. HIDE DEF last, stop, val, Linked
<1>8. PICK f : Linked(f) /\ strcmp(a, b) = f[1]
  <2>1. \E f \in [1 .. last -> Int] : Scans(f, last, stop, val)
    BY <1>1, <1>3, <1>4, Scan
  <2>2. \E f : Linked(f)
    BY <1>6, <2>1
  <2>. QED
    BY <1>7, <2>2, Zenon
<1>9. PICK k \in 1 .. last :
        k \in stop /\ (\A p \in 1 .. k - 1 : p \notin stop) /\ f[1] = val[k]
  <2>1. Scans(f, last, stop, val)
    BY <1>5, <1>8
  <2>. QED
    BY <1>1, <1>3, <1>4, <2>1, Scan
<1>10. ComparedAt(a, b, k)
  <2>1. ~goes(k) /\ \A p \in 1 .. k - 1 : p \in Index => goes(p)
    BY <1>9 DEF stop
  <2>2. \A p \in 1 .. k - 1 : p \in Index
    BY <1>1
  <2>. QED
    BY <2>1, <2>2 DEF ComparedAt
<1>11. val[k] = diff(k)
  BY DEF val
<1>12. k \in 1 .. MaxLen + 1
  BY DEF last
<1>13. strcmp(a, b) = At(a, k) - At(b, k)
  BY <1>8, <1>9, <1>11
<1>. QED
  BY <1>10, <1>12, <1>13, Zenon

(* A string that is cut is read as a string that ends earlier. *)
LEMMA CutIs ==
  ASSUME NEW s \in Text, NEW m \in Nat
  PROVE  /\ Cut(s, m) \in Text
         /\ \A p \in Nat \ {0} : At(Cut(s, m), p) = IF p <= m THEN At(s, p) ELSE 0
<1>. DEFINE lens == {Len(s), m}
<1>1. s \in Seq(AnyByte \ {0}) /\ Len(s) \in Nat
  BY DEF Text
<1>2. PICK c \in Nat : c = Min(lens) /\ c <= Len(s) /\ c <= m /\ c \in lens
  <2>1. lens \in SUBSET Nat /\ lens # {} /\ Len(s) \in lens /\ m \in lens
    BY <1>1
  <2>. HIDE DEF lens
  <2>. QED
    BY <2>1, MinIn
<1>3. Cut(s, m) = SubSeq(s, 1, c)
  BY <1>2 DEF Cut
<1>4. /\ SubSeq(s, 1, c) \in Seq(AnyByte \ {0}) /\ Len(SubSeq(s, 1, c)) = c
      /\ \A p \in 1 .. c : SubSeq(s, 1, c)[p] = s[p]
  <2>1. c <= Len(s)
    BY <1>2
  <2>. QED
    BY <1>1, <2>1
<1>5. ASSUME NEW p \in Nat \ {0}
      PROVE  At(SubSeq(s, 1, c), p) = IF p <= m THEN At(s, p) ELSE 0
  <2>1. CASE p <= c
    BY <1>1, <1>2, <1>4, <2>1 DEF At
  <2>2. CASE p > c
    <3>1. At(SubSeq(s, 1, c), p) = 0
      BY <1>4, <2>2 DEF At
    <3>2. p <= m => p > Len(s)
      BY <1>1, <1>2, <2>2
    <3>. QED
      BY <1>1, <3>1, <3>2 DEF At
  <2>. QED
    BY <1>1, <1>2, <2>1, <2>2
<1>. QED
  BY <1>3, <1>4, <1>5 DEF Text

(* strncmp returns the difference of the strings it is told to look at. *)
LEMMA StrncmpIs ==
  ASSUME NEW a \in Text, NEW b \in Text, NEW m \in Nat
  PROVE  \E k \in 1 .. m + 1 :
           /\ ComparedAt(Cut(a, m), Cut(b, m), k)
           /\ strncmp(a, b, m) = At(Cut(a, m), k) - At(Cut(b, m), k)
<1>. DEFINE last      == m + 1
            diff(p)   == At(a, p) - At(b, p)
            ends(p)   == p > m \/ At(a, p) # At(b, p) \/ At(a, p) = 0
            stop      == {p \in 1 .. last : ends(p)}
            val       == [p \in 1 .. last |-> IF p > m THEN 0 ELSE diff(p)]
            body(f, p) == IF p > m THEN 0
                          ELSE IF At(a, p) # At(b, p) THEN At(a, p) - At(b, p)
                          ELSE IF At(a, p) = 0 THEN 0
                          ELSE f[p + 1]
            Linked(f) == f = [p \in 1 .. m + 1 |-> body(f, p)]
<1>1. last \in Nat \ {0} /\ last > m
  OBVIOUS
<1>2. \A p \in 1 .. last : diff(p) \in Int /\ At(a, p) \in Nat /\ At(b, p) \in Nat
  BY AtIs
<1>3. last \in stop
  BY <1>1
<1>4. val \in [1 .. last -> Int]
  BY <1>2
<1>5. \A f : \A p \in 1 .. last :
        body(f, p) = IF p \in stop THEN val[p] ELSE f[p + 1]
  BY <1>2
<1>6. \A f : Linked(f) => Scans(f, last, stop, val)
  <2>. HIDE DEF body, stop, val
  <2>. QED
    BY <1>5 DEF Scans
<1>7. \A f \in [1 .. last -> Int] : Scans(f, last, stop, val) => Linked(f)
  <2>. HIDE DEF body, stop, val
  <2>. QED
    BY <1>5 DEF Scans
<1>8. strncmp(a, b, m) = (CHOOSE f : Linked(f))[1]
  BY Zenon DEF strncmp
<1>. HIDE DEF last, stop, val, Linked
<1>9. PICK f : Linked(f) /\ strncmp(a, b, m) = f[1]
  <2>1. \E f \in [1 .. last -> Int] : Scans(f, last, stop, val)
    BY <1>1, <1>3, <1>4, Scan
  <2>2. \E f : Linked(f)
    BY <1>7, <2>1
  <2>. QED
    BY <1>8, <2>2, Zenon
<1>10. PICK k \in 1 .. last :
         k \in stop /\ (\A p \in 1 .. k - 1 : p \notin stop) /\ f[1] = val[k]
  BY <1>1, <1>3, <1>4, <1>6, <1>9, Scan
<1>11. k \in Nat \ {0} /\ \A p \in 1 .. k - 1 : p \in Nat \ {0} /\ p <= m /\ p \in 1 .. last
  BY DEF last
<1>12. \A p \in Nat \ {0} :
         /\ At(Cut(a, m), p) = IF p <= m THEN At(a, p) ELSE 0
         /\ At(Cut(b, m), p) = IF p <= m THEN At(b, p) ELSE 0
  BY CutIs
<1>13. ComparedAt(Cut(a, m), Cut(b, m), k)
  <2>1. ends(k) /\ \A p \in 1 .. k - 1 : ~ends(p)
    BY <1>10, <1>11 DEF stop
  <2>2. \A p \in 1 .. k - 1 : /\ At(Cut(a, m), p) = At(Cut(b, m), p)
                              /\ At(Cut(a, m), p) # 0
    BY <1>11, <1>12, <2>1
  <2>3. \/ At(Cut(a, m), k) = 0 \/ At(Cut(b, m), k) = 0
        \/ At(Cut(a, m), k) # At(Cut(b, m), k)
    BY <1>11, <1>12, <2>1
  <2>. QED
    BY <2>2, <2>3 DEF ComparedAt
<1>14. val[k] = At(Cut(a, m), k) - At(Cut(b, m), k)
  BY <1>2, <1>11, <1>12 DEF val
<1>15. k \in 1 .. m + 1
  BY DEF last
<1>16. strncmp(a, b, m) = At(Cut(a, m), k) - At(Cut(b, m), k)
  BY <1>9, <1>10, <1>14
<1>. QED
  BY <1>13, <1>15, <1>16, Zenon

(* What strncmp is called with. *)
LEMMA StringsAreText ==
  ASSUME NEW a \in Strings
  PROVE  a \in Text /\ Len(a) <= MaxLen
<1>1. PICK m \in 0 .. MaxLen : a \in [1 .. m -> AnyByte \ {0}]
  BY DEF Strings, BoundedSeq, SeqOf
<1>2. a \in Seq(AnyByte \ {0}) /\ Len(a) = m
  BY <1>1
<1>. QED
  BY <1>2, LibAssumption DEF Text

(* So a call to both tells the order of the strings and of their beginnings. *)
LEMMA StrncmpStep ==
  ASSUME CallStrncmp
  PROVE  ComparesLikeDictionary'
<1>1. PICK a \in Strings, b \in Strings, m \in 0 .. MaxLen + 1 :
        /\ call' = [fn |-> "strncmp", a |-> a, b |-> b, n |-> m]
        /\ ret' = [full |-> strcmp(a, b), part |-> strncmp(a, b, m)]
  BY DEF CallStrncmp
<1>2. /\ a \in Text /\ Len(a) <= MaxLen /\ b \in Text /\ Len(b) <= MaxLen /\ m \in Nat
  BY StringsAreText, LibAssumption
<1>3. /\ strcmp(a, b) < 0 <=> Before(a, b)
      /\ strcmp(a, b) = 0 <=> a = b
  BY <1>2, StrcmpIs, OrderedAt
<1>4. /\ strncmp(a, b, m) < 0 <=> Before(Cut(a, m), Cut(b, m))
      /\ strncmp(a, b, m) = 0 <=> Cut(a, m) = Cut(b, m)
  <2>1. PICK k \in 1 .. m + 1 :
          /\ ComparedAt(Cut(a, m), Cut(b, m), k)
          /\ strncmp(a, b, m) = At(Cut(a, m), k) - At(Cut(b, m), k)
    BY <1>2, StrncmpIs
  <2>2. Cut(a, m) \in Text /\ Cut(b, m) \in Text /\ k \in Nat \ {0}
    BY <1>2, CutIs
  <2>. QED
    BY <2>1, <2>2, OrderedAt
<1>5. /\ call'.fn = "strncmp" /\ call'.a = a /\ call'.b = b /\ call'.n = m
      /\ ret'.full = strcmp(a, b) /\ ret'.part = strncmp(a, b, m)
  BY <1>1
<1>6. ComparesLikeDictionary' =
        (call'.fn = "strncmp" =>
           /\ ret'.full < 0 <=> Before(call'.a, call'.b)
           /\ ret'.full = 0 <=> call'.a = call'.b
           /\ ret'.part < 0 <=> Before(Cut(call'.a, call'.n), Cut(call'.b, call'.n))
           /\ ret'.part = 0 <=> Cut(call'.a, call'.n) = Cut(call'.b, call'.n))
  BY DEF ComparesLikeDictionary, Before, Cut
<1>. QED
  BY <1>3, <1>4, <1>5, <1>6, Zenon

(* The steps of a sum along a sequence. *)
Accumulates(f, len, factor, ds) ==
  f[0] = 0 /\ \A k \in 1 .. len : f[k] = f[k - 1] * factor + ds[k]

(* There is one such sum for each place of the sequence. *)
LEMMA Accumulation ==
  ASSUME NEW len \in Nat, NEW factor \in Nat, NEW ds \in [1 .. len -> Nat]
  PROVE  /\ \E f \in [0 .. len -> Nat] : Accumulates(f, len, factor, ds)
         /\ \A f, g : Accumulates(f, len, factor, ds) /\ Accumulates(g, len, factor, ds)
                        => \A k \in 0 .. len : f[k] \in Nat /\ f[k] = g[k]
<1>. DEFINE S    == 0 .. len
            stop == {0}
            rank == [k \in S |-> k]
            val  == [k \in S |-> 0]
            next == [k \in S |-> IF k = 0 THEN 0 ELSE k - 1]
            step == [kx \in S \X Nat |->
                       IF kx[1] = 0 THEN 0 ELSE kx[2] * factor + ds[kx[1]]]
<1>1. \A k \in S : k # 0 => k - 1 \in S /\ ds[k] \in Nat
  OBVIOUS
<1>2. \A x \in Nat : x * factor \in Nat
  OBVIOUS
<1>3. IsDescent(S, Nat, len, rank, stop, val, next, step)
  <2>1. /\ rank \in [S -> 0 .. len] /\ val \in [S -> Nat] /\ next \in [S -> S]
        /\ \A k \in S : k \notin stop => rank[next[k]] < rank[k]
    BY <1>1
  <2>2. step \in [S \X Nat -> Nat]
    <3>1. ASSUME NEW kx \in S \X Nat
          PROVE  (IF kx[1] = 0 THEN 0 ELSE kx[2] * factor + ds[kx[1]]) \in Nat
      <4>1. kx[1] \in S /\ kx[2] \in Nat
        OBVIOUS
      <4>2. kx[2] * factor \in Nat /\ (kx[1] # 0 => ds[kx[1]] \in Nat)
        BY <1>1, <1>2, <4>1
      <4>. QED
        BY <4>2
    <3>. QED
      BY <3>1
  <2>. HIDE DEF S, rank, stop, val, next, step
  <2>. QED
    BY <2>1, <2>2 DEF IsDescent
<1>4. \A k \in S, x \in Nat : k # 0 => step[<<k, x>>] = x * factor + ds[k] /\ next[k] = k - 1
  OBVIOUS
<1>5. \E f \in [S -> Nat] : Accumulates(f, len, factor, ds)
  <2>1. PICK f \in [S -> Nat] : Descends(f, S, stop, val, next, step)
    <3>. HIDE DEF S, rank, stop, val, next, step
    <3>. QED
      BY <1>3, Descent
  <2>2. f[0] = 0
    <3>1. 0 \in S /\ val[0] = 0 /\ 0 \in stop
      OBVIOUS
    <3>. HIDE DEF S, stop, val, next, step
    <3>. QED
      BY <2>1, <3>1, Zenon DEF Descends
  <2>3. ASSUME NEW k \in 1 .. len PROVE f[k] = f[k - 1] * factor + ds[k]
    <3>1. k \in S /\ k - 1 \in S /\ k \notin stop
      OBVIOUS
    <3>2. f[k] = step[<<k, f[next[k]]>>]
      BY <2>1, <3>1 DEF Descends
    <3>3. f[k - 1] \in Nat
      BY <3>1
    <3>. HIDE DEF S, step, next
    <3>. QED
      BY <1>4, <3>1, <3>2, <3>3
  <2>. QED
    BY <2>2, <2>3 DEF Accumulates
<1>6. ASSUME NEW f, NEW g,
             Accumulates(f, len, factor, ds), Accumulates(g, len, factor, ds)
      PROVE  \A k \in S : f[k] \in Nat /\ f[k] = g[k]
  <2>. DEFINE off == {k \in S : ~(f[k] \in Nat /\ f[k] = g[k])}
  <2>1. SUFFICES ASSUME off # {} PROVE FALSE
    OBVIOUS
  <2>2. PICK k \in off : \A m \in off : k <= m
    <3>1. off \in SUBSET Nat
      OBVIOUS
    <3>. HIDE DEF off
    <3>. QED
      BY <2>1, <3>1, MinIn
  <2>3. k \in S /\ ~(f[k] \in Nat /\ f[k] = g[k])
    OBVIOUS
  <2>4. k # 0
    BY <1>6, <2>3 DEF Accumulates
  <2>5. k - 1 \in S /\ ~(k <= k - 1) /\ k \in 1 .. len
    BY <2>3, <2>4
  <2>6. f[k - 1] \in Nat /\ f[k - 1] = g[k - 1]
    BY <2>2, <2>5
  <2>7. f[k] = f[k - 1] * factor + ds[k] /\ g[k] = g[k - 1] * factor + ds[k]
    BY <1>6, <2>5 DEF Accumulates
  <2>. QED
    BY <1>1, <1>2, <2>3, <2>4, <2>6, <2>7
<1>. QED
  BY <1>5, <1>6

(* What a sum is that starts with 0 and goes along a sequence of numbers. *)
Accumulated(f, factor, ds) ==
  f = [k \in 0 .. Len(ds) |-> IF k = 0 THEN 0 ELSE f[k - 1] * factor + ds[k]]

(* It exists, and it has these steps. *)
LEMMA AccumulatedIs ==
  ASSUME NEW ds \in Seq(Nat), NEW factor \in Nat
  PROVE  /\ \E f : Accumulated(f, factor, ds)
         /\ \A f : Accumulated(f, factor, ds) => Accumulates(f, Len(ds), factor, ds)
<1>1. Len(ds) \in Nat /\ ds \in [1 .. Len(ds) -> Nat]
  OBVIOUS
<1>2. PICK len \in Nat : len = Len(ds)
  BY <1>1
<1>3. PICK f \in [0 .. len -> Nat] : Accumulates(f, len, factor, ds)
  BY <1>1, <1>2, Accumulation
<1>4. Accumulated(f, factor, ds)
  <2>1. \A k \in 0 .. len : f[k] = IF k = 0 THEN 0 ELSE f[k - 1] * factor + ds[k]
    BY <1>3 DEF Accumulates
  <2>2. f = [k \in 0 .. len |-> f[k]]
    OBVIOUS
  <2>3. [k \in 0 .. len |-> f[k]] =
        [k \in 0 .. len |-> IF k = 0 THEN 0 ELSE f[k - 1] * factor + ds[k]]
    BY <2>1, Zenon
  <2>. QED
    BY <1>2, <2>2, <2>3, Zenon DEF Accumulated
<1>5. ASSUME NEW g, Accumulated(g, factor, ds) PROVE Accumulates(g, len, factor, ds)
  <2>1. g = [k \in 0 .. len |-> IF k = 0 THEN 0 ELSE g[k - 1] * factor + ds[k]]
    BY <1>2, <1>5 DEF Accumulated
  <2>2. \A k \in 0 .. len : g[k] = IF k = 0 THEN 0 ELSE g[k - 1] * factor + ds[k]
    BY <2>1, Zenon
  <2>. QED
    BY <2>2 DEF Accumulates
<1>. QED
  BY <1>2, <1>4, <1>5

(* The number that digits mean, when one more is written behind them. *)
LEMMA NumberIs ==
  ASSUME NEW base \in Nat
  PROVE  /\ Number(<<>>, base) = 0
         /\ \A ds \in Seq(Nat), d \in Nat :
              /\ Number(ds, base) \in Nat
              /\ Number(Append(ds, d), base) = Number(ds, base) * base + d
<1>1. ASSUME NEW ds \in Seq(Nat)
      PROVE  \E f : /\ Accumulates(f, Len(ds), base, ds)
                    /\ Number(ds, base) = f[Len(ds)]
  <2>1. Number(ds, base) = (CHOOSE f : Accumulated(f, base, ds))[Len(ds)]
    BY Zenon DEF Number, Accumulated
  <2>2. \E f : Accumulated(f, base, ds)
    BY AccumulatedIs
  <2>3. PICK f : Accumulated(f, base, ds) /\ Number(ds, base) = f[Len(ds)]
    BY <2>1, <2>2, Zenon
  <2>4. Accumulates(f, Len(ds), base, ds)
    BY <2>3, AccumulatedIs
  <2>. QED
    BY <2>3, <2>4
<1>2. Number(<<>>, base) = 0
  <2>1. <<>> \in Seq(Nat) /\ Len(<<>>) = 0
    OBVIOUS
  <2>. QED
    BY <1>1, <2>1 DEF Accumulates
<1>3. ASSUME NEW ds \in Seq(Nat), NEW d \in Nat
      PROVE  /\ Number(ds, base) \in Nat
             /\ Number(Append(ds, d), base) = Number(ds, base) * base + d
  <2>1. PICK f : Accumulates(f, Len(ds), base, ds) /\ Number(ds, base) = f[Len(ds)]
    BY <1>1
  <2>2. Append(ds, d) \in Seq(Nat)
    OBVIOUS
  <2>3. PICK g : /\ Accumulates(g, Len(Append(ds, d)), base, Append(ds, d))
                 /\ Number(Append(ds, d), base) = g[Len(Append(ds, d))]
    BY <1>1, <2>2
  <2>4. PICK len \in Nat : len = Len(ds) /\ len + 1 = Len(Append(ds, d))
    OBVIOUS
  <2>5. /\ \A k \in 1 .. len : Append(ds, d)[k] = ds[k]
        /\ Append(ds, d)[len + 1] = d
        /\ ds \in [1 .. len -> Nat]
    BY <2>4
  <2>6. Accumulates(g, len, base, ds)
    <3>1. g[0] = 0 /\ \A k \in 1 .. len + 1 : g[k] = g[k - 1] * base + Append(ds, d)[k]
      BY <2>3, <2>4 DEF Accumulates
    <3>2. \A k \in 1 .. len : k \in 1 .. len + 1
      OBVIOUS
    <3>. QED
      BY <2>5, <3>1, <3>2 DEF Accumulates
  <2>9. Accumulates(f, len, base, ds)
    BY <2>1, <2>4, Zenon
  <2>7. f[len] \in Nat /\ f[len] = g[len]
    <3>1. len \in 0 .. len
      OBVIOUS
    <3>2. \A h, j : Accumulates(h, len, base, ds) /\ Accumulates(j, len, base, ds)
                      => \A k \in 0 .. len : h[k] \in Nat /\ h[k] = j[k]
      BY <2>5, Accumulation
    <3>. QED
      BY <2>9, <2>6, <3>1, <3>2, Zenon
  <2>8. g[len + 1] = g[len] * base + d
    <3>1. len + 1 \in 1 .. len + 1 /\ (len + 1) - 1 = len
      OBVIOUS
    <3>2. g[len + 1] = g[(len + 1) - 1] * base + Append(ds, d)[len + 1]
      BY <2>3, <2>4, <3>1 DEF Accumulates
    <3>. QED
      BY <2>5, <3>1, <3>2
  <2>. QED
    BY <2>1, <2>3, <2>4, <2>7, <2>8
<1>. QED
  BY <1>2, <1>3

(* Division by what the digits are counted in. *)
LEMMA Division ==
  ASSUME NEW v \in Nat, NEW base \in {2, 10, 16}
  PROVE  /\ v \div base \in 0 .. v /\ v % base \in 0 .. base - 1
         /\ v # 0 => v \div base < v
         /\ v = (v \div base) * base + (v % base)
<1>1. base \in Nat /\ base > 1
  OBVIOUS
<1>. QED
  BY <1>1

(* The digits of the numbers up to value. *)
Divides(f, value, base) ==
  \A v \in 0 .. value :
    f[v] = IF v = 0 THEN <<>> ELSE Append(f[v \div base], v % base)

(* They exist, and are digits of their base. *)
LEMMA Divided ==
  ASSUME NEW value \in Nat, NEW base \in {2, 10, 16}
  PROVE  /\ \E f \in [0 .. value -> Seq(0 .. base - 1)] : Divides(f, value, base)
         /\ \A f : Divides(f, value, base) =>
              \A v \in 0 .. value : f[v] \in Seq(0 .. base - 1)
<1>. DEFINE S    == 0 .. value
            D    == Seq(0 .. base - 1)
            stop == {0}
            rank == [v \in S |-> v]
            val  == [v \in S |-> <<>>]
            next == [v \in S |-> v \div base]
            step == [vx \in S \X D |-> Append(vx[2], vx[1] % base)]
<1>1. \A v \in S : v \div base \in S /\ v % base \in 0 .. base - 1 /\ (v # 0 => v \div base < v)
  BY Division
<1>2. IsDescent(S, D, value, rank, stop, val, next, step)
  <2>1. /\ rank \in [S -> 0 .. value] /\ val \in [S -> D] /\ next \in [S -> S]
        /\ \A v \in S : v \notin stop => rank[next[v]] < rank[v]
    BY <1>1
  <2>2. step \in [S \X D -> D]
    <3>1. ASSUME NEW vx \in S \X D PROVE Append(vx[2], vx[1] % base) \in D
      <4>1. vx[1] \in S /\ vx[2] \in D
        BY Zenon
      <4>2. vx[1] % base \in 0 .. base - 1
        BY <1>1, <4>1
      <4>. QED
        BY <4>1, <4>2
    <3>. QED
      BY <3>1
  <2>. HIDE DEF S, D, rank, stop, val, next, step
  <2>. QED
    BY <2>1, <2>2 DEF IsDescent
<1>3. \A v \in S, x \in D : step[<<v, x>>] = Append(x, v % base)
  OBVIOUS
<1>4. \A v \in S : next[v] = v \div base /\ val[v] = <<>> /\ (v \in stop <=> v = 0)
  OBVIOUS
<1>5. ASSUME NEW f, \A v \in S : f[v] \in D
      PROVE  Descends(f, S, stop, val, next, step) <=> Divides(f, value, base)
  <2>1. \A v \in S : (IF v \in stop THEN val[v] ELSE step[<<v, f[next[v]]>>])
                      = IF v = 0 THEN <<>> ELSE Append(f[v \div base], v % base)
    <3>. HIDE DEF stop, val, step, next, D, S
    <3>. QED
      BY <1>1, <1>3, <1>4, <1>5
  <2>. HIDE DEF stop, val, step, next, D
  <2>. QED
    BY <2>1 DEF Descends, Divides
<1>6. \E f \in [S -> D] : Divides(f, value, base)
  <2>. HIDE DEF S, D, rank, stop, val, next, step
  <2>1. PICK f \in [S -> D] : Descends(f, S, stop, val, next, step)
    BY <1>2, Descent
  <2>. QED
    BY <1>5, <2>1
<1>7. ASSUME NEW f, Divides(f, value, base) PROVE \A v \in S : f[v] \in D
  <2>. DEFINE off == {v \in S : f[v] \notin D}
  <2>1. SUFFICES ASSUME off # {} PROVE FALSE
    OBVIOUS
  <2>2. PICK v \in off : \A m \in off : v <= m
    <3>1. off \in SUBSET Nat
      OBVIOUS
    <3>. HIDE DEF off
    <3>. QED
      BY <2>1, <3>1, MinIn
  <2>3. v \in S /\ f[v] \notin D
    OBVIOUS
  <2>4. f[v] = IF v = 0 THEN <<>> ELSE Append(f[v \div base], v % base)
    BY <1>7, <2>3 DEF Divides
  <2>5. v # 0
    <3>1. <<>> \in D
      OBVIOUS
    <3>. HIDE DEF D
    <3>. QED
      BY <2>3, <2>4, <3>1
  <2>6. v \div base \in S /\ ~(v <= v \div base) /\ v % base \in 0 .. base - 1
    BY <1>1, <2>3, <2>5
  <2>7. f[v \div base] \in D
    BY <2>2, <2>6
  <2>. QED
    BY <2>3, <2>4, <2>5, <2>6, <2>7
<1>. QED
  BY <1>6, <1>7

(* They are the numeral. *)
IsNumeral(ds, v, base) ==
  /\ ds \in Seq(0 .. base - 1)
  /\ Number(ds, base) = v
  /\ v # 0 => ds # <<>> /\ ds[1] # 0

(* Reading them gives the number back, and the first of them is not zero. *)
LEMMA DividedIs ==
  ASSUME NEW value \in Nat, NEW base \in {2, 10, 16}, NEW f, Divides(f, value, base)
  PROVE  \A v \in 0 .. value : IsNumeral(f[v], v, base)
<1>. DEFINE off == {v \in 0 .. value : ~IsNumeral(f[v], v, base)}
            D   == Seq(0 .. base - 1)
<1>1. SUFFICES ASSUME off # {} PROVE FALSE
  OBVIOUS
<1>2. PICK v \in off : \A m \in off : v <= m
  <2>1. off \in SUBSET Nat
    OBVIOUS
  <2>. HIDE DEF off
  <2>. QED
    BY <1>1, <2>1, MinIn
<1>3. v \in 0 .. value /\ ~IsNumeral(f[v], v, base)
  OBVIOUS
<1>4. f[v] \in D /\ base \in Nat
  <2>1. \A w \in 0 .. value : f[w] \in D
    BY Divided, Zenon
  <2>. HIDE DEF D
  <2>. QED
    BY <1>3, <2>1
<1>5. \A ds \in D : ds \in Seq(Nat)
  BY <1>4
<1>6. CASE v = 0
  <2>1. f[v] = <<>>
    BY <1>3, <1>6 DEF Divides
  <2>. QED
    BY <1>3, <1>4, <1>6, <2>1, NumberIs DEF IsNumeral
<1>7. CASE v # 0
  <2>1. PICK u, d \in Nat : u = v \div base /\ d = v % base
    BY <1>3, Division
  <2>2. u \in 0 .. value /\ u < v /\ d \in 0 .. base - 1 /\ v = u * base + d
    BY <1>3, <1>7, <2>1, Division
  <2>3. f[v] = Append(f[u], d)
    BY <1>3, <1>7, <2>1 DEF Divides
  <2>4. IsNumeral(f[u], u, base)
    <3>1. u \notin off
      BY <1>2, <1>3, <2>2
    <3>. QED
      BY <2>2, <3>1
  <2>5. f[u] \in D /\ Number(f[u], base) = u /\ (u # 0 => f[u] # <<>> /\ f[u][1] # 0)
    BY <2>4 DEF IsNumeral
  <2>6. Number(f[v], base) = v
    BY <1>4, <1>5, <2>2, <2>3, <2>5, NumberIs
  <2>7. f[v] # <<>>
    BY <2>2, <2>3, <2>5
  <2>8. f[v][1] # 0
    <3>1. CASE f[u] = <<>>
      <4>1. u = 0 /\ f[v][1] = d
        BY <2>2, <2>3, <2>5, <3>1
      <4>2. d # 0
        BY <1>4, <1>7, <2>2, <4>1
      <4>. QED
        BY <4>1, <4>2
    <3>2. CASE f[u] # <<>>
      <4>1. Len(f[u]) \in Nat /\ Len(f[u]) # 0
        BY <2>5, <3>2
      <4>2. f[v][1] = f[u][1]
        BY <2>2, <2>3, <2>5, <4>1
      <4>3. CASE u = 0
        <5>1. f[u] = <<>>
          BY <2>2, <4>3 DEF Divides
        <5>. QED
          BY <3>2, <5>1
      <4>. QED
        BY <2>5, <4>2, <4>3
    <3>. QED
      BY <3>1, <3>2
  <2>. QED
    BY <1>3, <1>4, <2>6, <2>7, <2>8 DEF IsNumeral
<1>. QED
  BY <1>6, <1>7

(* The same for what is printed, zero included. *)
LEMMA DigitsAre ==
  ASSUME NEW value \in Nat, NEW base \in {2, 10, 16}
  PROVE  /\ digits(value, base) # <<>>
         /\ digits(value, base) \in Seq(0 .. base - 1)
         /\ Number(digits(value, base), base) = value
         /\ digits(value, base)[1] = 0 => digits(value, base) = <<0>>
<1>1. CASE value = 0
  <2>1. digits(value, base) = <<0>>
    BY <1>1, Zenon DEF digits
  <2>2. base \in Nat /\ <<>> \in Seq(Nat) /\ <<0>> = Append(<<>>, 0)
    OBVIOUS
  <2>3. Number(Append(<<>>, 0), base) = Number(<<>>, base) * base + 0 /\ Number(<<>>, base) = 0
    BY <2>2, NumberIs
  <2>4. Number(<<0>>, base) = 0
    BY <2>2, <2>3
  <2>5. <<0>> \in Seq(0 .. base - 1) /\ <<0>> # <<>>
    OBVIOUS
  <2>. QED
    BY <1>1, <2>1, <2>4, <2>5, Zenon
<1>2. CASE value # 0
  <2>. DEFINE Linked(f) == f = [v \in 0 .. value |->
                                  IF v = 0 THEN <<>> ELSE Append(f[v \div base], v % base)]
  <2>1. digits(value, base) = (CHOOSE f : Linked(f))[value]
    BY <1>2, Zenon DEF digits
  <2>2. \E f : Linked(f)
    <3>1. PICK f \in [0 .. value -> Seq(0 .. base - 1)] : Divides(f, value, base)
      BY Divided
    <3>2. f = [v \in 0 .. value |-> f[v]]
      OBVIOUS
    <3>3. [v \in 0 .. value |-> f[v]] =
          [v \in 0 .. value |-> IF v = 0 THEN <<>> ELSE Append(f[v \div base], v % base)]
      BY <3>1, Zenon DEF Divides
    <3>4. Linked(f)
      BY <3>2, <3>3, Zenon
    <3>. QED
      BY <3>4
  <2>3. PICK f : Linked(f) /\ digits(value, base) = f[value]
    BY <2>1, <2>2, Zenon
  <2>4. Divides(f, value, base)
    BY <2>3, Zenon DEF Divides
  <2>5. IsNumeral(f[value], value, base)
    BY <2>4, DividedIs
  <2>. QED
    BY <1>2, <2>3, <2>5 DEF IsNumeral
<1>. QED
  BY <1>1, <1>2

(* So a call to printf prints the numeral of its number. *)
LEMMA PrintStep ==
  ASSUME CallPrint
  PROVE  PrintsNumeral'
<1>1. PICK value \in Ints, base \in {2, 10, 16} :
        /\ call' = [fn |-> "print", value |-> value, base |-> base]
        /\ ret' = Printed(value, base)
  BY DEF CallPrint
<1>2. value \in Int
  BY LibAssumption
<1>3. PICK abs \in Nat :
        \/ /\ value < 0 /\ abs = -value
           /\ ret' = [minus |-> TRUE, digits |-> digits(abs, base)]
        \/ /\ ~(value < 0) /\ abs = value
           /\ ret' = [minus |-> FALSE, digits |-> digits(abs, base)]
  <2>1. CASE value < 0
    <3>1. -value \in Nat
      BY <1>2, <2>1
    <3>2. ret' = [minus |-> TRUE, digits |-> digits(-value, base)]
      BY <1>1, <2>1, Zenon DEF Printed
    <3>. QED
      BY <2>1, <3>1, <3>2, Zenon
  <2>2. CASE ~(value < 0)
    <3>1. value \in Nat
      BY <1>2, <2>2
    <3>2. ret' = [minus |-> FALSE, digits |-> digits(value, base)]
      BY <1>1, <2>2, Zenon DEF Printed
    <3>. QED
      BY <2>2, <3>1, <3>2, Zenon
  <2>. QED
    BY <2>1, <2>2, Zenon
<1>4. PICK ds \in Seq(0 .. base - 1) :
        /\ ds = digits(abs, base) /\ ds # <<>> /\ Number(ds, base) = abs
        /\ ds[1] = 0 => ds = <<0>>
  BY DigitsAre
<1>5. /\ call'.fn = "print" /\ call'.value = value /\ call'.base = base
      /\ ret'.digits = ds
  BY <1>1, <1>3, <1>4
<1>6. \A k \in DOMAIN ds : ds[k] \in 0 .. base - 1
  OBVIOUS
<1>7. value = IF ret'.minus THEN -abs ELSE abs
  BY <1>2, <1>3
<1>8. PrintsNumeral' =
        (call'.fn = "print" =>
           /\ ret'.digits # <<>>
           /\ \A k \in DOMAIN ret'.digits : ret'.digits[k] \in 0 .. call'.base - 1
           /\ ret'.digits[1] = 0 => ret'.digits = <<0>>
           /\ call'.value = IF ret'.minus THEN -Number(ret'.digits, call'.base)
                            ELSE Number(ret'.digits, call'.base))
  BY Zenon DEF PrintsNumeral, Number
<1>. QED
  BY <1>4, <1>5, <1>6, <1>7, <1>8

(* Checksums. *)

(* The sum of words is a number. *)
LEMMA SumIs ==
  ASSUME NEW words \in Seq(Nat)
  PROVE  Sum(words) \in Nat
<1>. DEFINE Linked(f) == f = [k \in 0 .. Len(words) |->
                                IF k = 0 THEN 0 ELSE f[k - 1] + words[k]]
<1>1. Len(words) \in Nat /\ words \in [1 .. Len(words) -> Nat]
  OBVIOUS
<1>2. PICK len \in Nat : len = Len(words) /\ words \in [1 .. len -> Nat]
  BY <1>1
<1>3. \E f : Linked(f)
  <2>1. PICK f \in [0 .. len -> Nat] : Accumulates(f, len, 1, words)
    BY <1>2, Accumulation
  <2>2. ASSUME NEW k \in 0 .. len
        PROVE  f[k] = IF k = 0 THEN 0 ELSE f[k - 1] + words[k]
    <3>1. CASE k = 0
      BY <2>1, <3>1 DEF Accumulates
    <3>2. CASE k # 0
      <4>1. k \in 1 .. len /\ f[k - 1] \in Nat /\ words[k] \in Nat
        BY <1>2, <3>2
      <4>2. f[k] = f[k - 1] * 1 + words[k]
        BY <2>1, <4>1 DEF Accumulates
      <4>. QED
        BY <3>2, <4>1, <4>2
    <3>. QED
      BY <3>1, <3>2
  <2>3. f = [k \in 0 .. len |-> f[k]]
    OBVIOUS
  <2>4. [k \in 0 .. len |-> f[k]] =
        [k \in 0 .. len |-> IF k = 0 THEN 0 ELSE f[k - 1] + words[k]]
    BY <2>2, Zenon
  <2>. QED
    BY <1>2, <2>3, <2>4, Zenon
<1>4. Sum(words) = (CHOOSE f : Linked(f))[Len(words)]
  BY Zenon DEF Sum
<1>5. PICK f : Linked(f) /\ Sum(words) = f[len]
  BY <1>2, <1>3, <1>4, Zenon
<1>6. \A k \in 0 .. len : f[k] = IF k = 0 THEN 0 ELSE f[k - 1] + words[k]
  BY <1>2, <1>5, Zenon
<1>. DEFINE off == {k \in 0 .. len : f[k] \notin Nat}
<1>7. off = {}
  <2>1. SUFFICES ASSUME off # {} PROVE FALSE
    OBVIOUS
  <2>2. PICK k \in off : \A m \in off : k <= m
    <3>1. off \in SUBSET Nat
      OBVIOUS
    <3>. HIDE DEF off
    <3>. QED
      BY <2>1, <3>1, MinIn
  <2>3. k \in 0 .. len /\ f[k] \notin Nat
    OBVIOUS
  <2>4. k # 0
    BY <1>6, <2>3
  <2>5. k - 1 \in 0 .. len /\ ~(k <= k - 1) /\ words[k] \in Nat
    BY <1>2, <2>3, <2>4
  <2>6. f[k - 1] \in Nat
    BY <2>2, <2>5
  <2>. QED
    BY <1>6, <2>3, <2>4, <2>5, <2>6
<1>. QED
  <2>1. len \in 0 .. len
    OBVIOUS
  <2>2. f[len] \in Nat
    BY <1>7, <2>1
  <2>. QED
    BY <1>5, <2>2, Zenon

(* A word of a packet. *)
LEMMA WordsAre ==
  ASSUME NEW bytes \in Seq(AnyByte)
  PROVE  Words(bytes) \in Seq(Nat)
<1>1. PICK len \in Nat : len = Len(bytes)
  OBVIOUS
<1>2. PICK half \in Nat : half = (len + 1) \div 2 /\ 2 * half <= len + 1
  OBVIOUS
<1>3. \A k \in 1 .. len : bytes[k] \in Nat
  BY <1>1, LibAssumption DEF AnyByte
<1>4. ByteSize \in Nat /\ \A x \in Nat : x * ByteSize \in Nat
  BY LibAssumption
<1>5. ASSUME NEW k \in 1 .. half
      PROVE  bytes[2 * k - 1] * ByteSize + (IF 2 * k <= len THEN bytes[2 * k] ELSE 0) \in Nat
  <2>1. 2 * k - 1 \in 1 .. len /\ (2 * k <= len => 2 * k \in 1 .. len)
    BY <1>2
  <2>2. bytes[2 * k - 1] * ByteSize \in Nat /\ (2 * k <= len => bytes[2 * k] \in Nat)
    BY <1>3, <1>4, <2>1
  <2>. QED
    BY <2>2
<1>6. Words(bytes) \in [1 .. half -> Nat]
  <2>1. Words(bytes) = [k \in 1 .. half |-> bytes[2 * k - 1] * ByteSize
                                      + (IF 2 * k <= len THEN bytes[2 * k] ELSE 0)]
    BY <1>1, <1>2 DEF Words
  <2>. QED
    BY <1>5, <2>1
<1>. QED
  BY <1>2, <1>6

(* Folding a sum loses multiples of the greatest word only. *)
Congruent(x, y) == \E q \in Nat : x = y + q * (WordSize - 1)

(* A word has more than one value, so a carry is worth less than a word. *)
LEMMA WordIs == WordSize \in Nat /\ WordSize > 1
<1>1. ByteSize \in Nat /\ ByteSize > 1
  BY LibAssumption
<1>2. ByteSize * ByteSize \in Nat /\ ByteSize * ByteSize > 1
  BY <1>1
<1>. QED
  BY <1>2 DEF WordSize

(* One round of the loop: less is left of the sum, and nothing but multiples of
   the greatest word is lost. *)
LEMMA FoldStep ==
  ASSUME NEW v \in Nat, v >= WordSize
  PROVE  /\ (v % WordSize) + v \div WordSize \in 0 .. v - 1
         /\ Congruent(v, (v % WordSize) + v \div WordSize)
<1>1. PICK w \in Nat : w = WordSize /\ w > 1
  BY WordIs
<1>2. PICK q, r \in Nat : q = v \div w /\ r = v % w /\ r < w /\ v = q * w + r
  BY <1>1
<1>3. q # 0
  BY <1>1, <1>2
<1>4. q * w = q + q * (w - 1)
  BY <1>1
<1>5. q * (w - 1) > 0
  BY <1>1, <1>3
<1>6. v = (r + q) + q * (w - 1) /\ r + q < v
  BY <1>2, <1>4, <1>5
<1>7. (v % WordSize) + v \div WordSize = r + q
  BY <1>1, <1>2
<1>8. r + q \in 0 .. v - 1
  BY <1>6
<1>9. v = (r + q) + q * (WordSize - 1)
  BY <1>1, <1>6
<1>. QED
  BY <1>7, <1>8, <1>9, Zenon DEF Congruent

(* What is lost in two rounds is such a multiple as well. *)
LEMMA CongruentTwice ==
  ASSUME NEW x \in Nat, NEW y \in Nat, NEW z \in Nat, Congruent(x, y), Congruent(y, z)
  PROVE  Congruent(x, z)
<1>1. PICK m \in Nat : m = WordSize - 1
  BY WordIs
<1>2. PICK p, q \in Nat : x = y + p * m /\ y = z + q * m
  BY <1>1 DEF Congruent
<1>3. p * m + q * m = (p + q) * m /\ p * m \in Nat /\ q * m \in Nat
  BY <1>1
<1>4. x = z + (p + q) * m
  BY <1>2, <1>3
<1>. QED
  BY <1>1, <1>4 DEF Congruent

(* The loop ends, with a word that stands for the sum. *)
LEMMA FoldedIs ==
  ASSUME NEW sum \in Nat
  PROVE  folded(sum) \in 0 .. WordSize - 1 /\ Congruent(sum, folded(sum))
<1>. DEFINE S         == 0 .. sum
            D         == 0 .. WordSize - 1
            less(v)   == (v % WordSize) + v \div WordSize
            Linked(f) == f = [v \in S |-> IF v < WordSize THEN v ELSE f[less(v)]]
            stop      == {v \in S : v < WordSize}
            rank      == [v \in S |-> v]
            val       == [v \in S |-> IF v < WordSize THEN v ELSE 0]
            next      == [v \in S |-> IF v < WordSize THEN 0 ELSE less(v)]
            step      == [vx \in S \X D |-> vx[2]]
<1>1. WordSize \in Nat /\ WordSize > 1
  BY WordIs
<1>2. \A v \in S : ~(v < WordSize) => less(v) \in 0 .. v - 1 /\ less(v) \in S /\ Congruent(v, less(v))
  <2>. SUFFICES ASSUME NEW v \in S, ~(v < WordSize)
                PROVE  less(v) \in 0 .. v - 1 /\ less(v) \in S /\ Congruent(v, less(v))
    OBVIOUS
  <2>1. v \in Nat /\ v >= WordSize
    BY <1>1
  <2>2. less(v) \in 0 .. v - 1 /\ Congruent(v, less(v))
    BY <2>1, FoldStep
  <2>. HIDE DEF less
  <2>. QED
    BY <2>1, <2>2
<1>. HIDE DEF less
<1>3. IsDescent(S, D, sum, rank, stop, val, next, step)
  <2>1. /\ rank \in [S -> 0 .. sum] /\ val \in [S -> D] /\ next \in [S -> S]
        /\ step \in [S \X D -> D]
    BY <1>1, <1>2
  <2>2. \A v \in S : v \notin stop => rank[next[v]] < rank[v]
    BY <1>1, <1>2
  <2>. HIDE DEF S, D, rank, stop, val, next, step
  <2>. QED
    BY <2>1, <2>2 DEF IsDescent
<1>4. \E f : Linked(f)
  <2>1. PICK f \in [S -> D] : Descends(f, S, stop, val, next, step)
    <3>. HIDE DEF S, D, rank, stop, val, next, step
    <3>. QED
      BY <1>3, Descent
  <2>2. \A v \in S : f[v] = IF v < WordSize THEN v ELSE f[less(v)]
    <3>. SUFFICES ASSUME NEW v \in S PROVE f[v] = IF v < WordSize THEN v ELSE f[less(v)]
      OBVIOUS
    <3>1. f[v] = IF v \in stop THEN val[v] ELSE step[<<v, f[next[v]]>>]
      BY <2>1 DEF Descends
    <3>2. CASE v < WordSize
      BY <3>1, <3>2
    <3>3. CASE ~(v < WordSize)
      <4>1. v \notin stop /\ next[v] = less(v) /\ f[less(v)] \in D
        BY <1>2, <3>3
      <4>2. \A x \in D : step[<<v, x>>] = x
        OBVIOUS
      <4>. HIDE DEF D, stop, step, next
      <4>. QED
        BY <3>1, <3>3, <4>1, <4>2
    <3>. QED
      BY <3>2, <3>3
  <2>3. f = [v \in S |-> f[v]]
    OBVIOUS
  <2>4. [v \in S |-> f[v]] = [v \in S |-> IF v < WordSize THEN v ELSE f[less(v)]]
    BY <2>2, Zenon
  <2>. QED
    BY <2>3, <2>4, Zenon
<1>5. folded(sum) = (CHOOSE f : Linked(f))[sum]
  BY Zenon DEF folded, less
<1>6. PICK f : Linked(f) /\ folded(sum) = f[sum]
  BY <1>4, <1>5, Zenon
<1>7. \A v \in S : f[v] = IF v < WordSize THEN v ELSE f[less(v)]
  BY <1>6, Zenon
<1>. DEFINE Right(v) == f[v] \in D /\ Congruent(v, f[v])
            off      == {v \in S : ~Right(v)}
<1>8. off = {}
  <2>1. SUFFICES ASSUME off # {} PROVE FALSE
    OBVIOUS
  <2>2. PICK v \in off : \A m \in off : v <= m
    <3>1. off \in SUBSET Nat
      OBVIOUS
    <3>. HIDE DEF off
    <3>. QED
      BY <2>1, <3>1, MinIn
  <2>3. v \in S /\ ~Right(v)
    OBVIOUS
  <2>4. CASE v < WordSize
    <3>1. f[v] = v /\ v \in D /\ v \in Nat
      BY <1>1, <1>7, <2>3, <2>4
    <3>2. v = v + 0 * (WordSize - 1)
      BY <1>1, <3>1
    <3>3. Congruent(v, v)
      BY <3>2 DEF Congruent
    <3>. QED
      BY <2>3, <3>1, <3>3
  <2>5. CASE ~(v < WordSize)
    <3>1. less(v) \in S /\ ~(v <= less(v)) /\ Congruent(v, less(v))
      BY <1>2, <2>3, <2>5
    <3>2. f[less(v)] \in D /\ Congruent(less(v), f[less(v)])
      BY <2>2, <3>1
    <3>3. f[v] = f[less(v)]
      BY <1>7, <2>3, <2>5
    <3>4. v \in Nat /\ less(v) \in Nat /\ f[v] \in Nat
      BY <2>3, <3>1, <3>2, <3>3
    <3>5. Congruent(v, f[v])
      BY <3>1, <3>2, <3>3, <3>4, CongruentTwice
    <3>. QED
      BY <2>3, <3>2, <3>3, <3>5
  <2>. QED
    BY <2>4, <2>5
<1>. QED
  BY <1>6, <1>8

(* With the complement of that word the sum is a multiple of the greatest word. *)
LEMMA ChecksumIs ==
  ASSUME NEW bytes \in Seq(AnyByte)
  PROVE  /\ checksum(bytes) \in 0 .. WordSize - 1
         /\ Sum(Words(bytes)) + checksum(bytes) > 0
         /\ (Sum(Words(bytes)) + checksum(bytes)) % (WordSize - 1) = 0
<1>1. PICK m \in Nat \ {0} : m = WordSize - 1
  BY WordIs
<1>2. PICK sum \in Nat : sum = Sum(Words(bytes))
  BY WordsAre, SumIs
<1>3. PICK x \in 0 .. m : x = folded(sum) /\ Congruent(sum, x)
  BY <1>1, FoldedIs
<1>4. PICK q \in Nat : sum = x + q * m
  BY <1>1, <1>3 DEF Congruent
<1>5. checksum(bytes) = m - x
  BY <1>1, <1>2, <1>3 DEF checksum
<1>6. q * m \in Nat /\ (q + 1) * m \in Nat /\ q * m + m = (q + 1) * m
  BY <1>1
<1>7. sum + (m - x) = (q + 1) * m /\ sum + (m - x) > 0
  <2>1. PICK p \in Nat, r \in Nat : p = q * m /\ r = (q + 1) * m
    BY <1>6, Zenon
  <2>2. p + m = r
    BY <1>6, <2>1, Zenon
  <2>3. sum = x + p
    BY <1>4, <2>1, Zenon
  <2>4. m \in Nat /\ x \in Nat
    BY <1>1, <1>3
  <2>5. sum + (m - x) = r /\ sum + (m - x) > 0
    BY <2>2, <2>3, <2>4
  <2>. QED
    BY <2>1, <2>5, Zenon
<1>8. ((q + 1) * m) % m = 0
  <2>1. PICK p \in Nat : p = (q + 1) * m
    BY <1>6
  <2>2. p = (q + 1) * m + 0 /\ 0 \in 0 .. m - 1
    BY <2>1
  <2>3. p % m = 0
    BY <2>2
  <2>. QED
    BY <2>1, <2>3, Zenon
<1>9. m - x \in 0 .. m
  BY <1>3
<1>10. checksum(bytes) \in 0 .. WordSize - 1
  BY <1>1, <1>5, <1>9, Zenon
<1>. QED
  BY <1>1, <1>2, <1>5, <1>7, <1>8, <1>10, Zenon

(* So a call gives a checksum that verifies. *)
LEMMA ChecksumStep ==
  ASSUME CallChecksum
  PROVE  ChecksumVerifies'
<1>1. PICK bytes \in BoundedSeq(AnyByte, 2 * MaxLen + 1) :
        /\ call' = [fn |-> "checksum", bytes |-> bytes]
        /\ ret' = checksum(bytes)
  BY DEF CallChecksum
<1>2. bytes \in Seq(AnyByte)
  <2>1. PICK m \in 0 .. 2 * MaxLen + 1 : bytes \in [1 .. m -> AnyByte]
    BY DEF BoundedSeq, SeqOf
  <2>. QED
    BY <2>1, LibAssumption
<1>3. /\ ret' \in 0 .. WordSize - 1 /\ Sum(Words(bytes)) + ret' > 0
      /\ (Sum(Words(bytes)) + ret') % (WordSize - 1) = 0
  BY <1>1, <1>2, ChecksumIs
<1>4. call'.fn = "checksum" /\ call'.bytes = bytes
  BY <1>1
<1>5. ChecksumVerifies' =
        (call'.fn = "checksum" =>
           /\ ret' \in 0 .. WordSize - 1
           /\ Sum(Words(call'.bytes)) + ret' > 0
           /\ (Sum(Words(call'.bytes)) + ret') % (WordSize - 1) = 0)
  BY Zenon DEF ChecksumVerifies, Sum, Words, WordSize
<1>. QED
  BY <1>3, <1>4, <1>5

(* Each call brings about what it promises, and what was returned before is
   forgotten with the call. *)
LEMMA LibStep ==
  ASSUME [LibNext]_libVars
  PROVE  /\ ComparesLikeDictionary => ComparesLikeDictionary'
         /\ PrintsNumeral => PrintsNumeral'
         /\ ChecksumVerifies => ChecksumVerifies'
<1>1. CASE CallStrncmp
  <2>1. call'.fn = "strncmp"
    BY <1>1 DEF CallStrncmp
  <2>. QED
    BY <1>1, <2>1, StrncmpStep DEF PrintsNumeral, ChecksumVerifies
<1>2. CASE CallPrint
  <2>1. call'.fn = "print"
    BY <1>2 DEF CallPrint
  <2>. QED
    BY <1>2, <2>1, PrintStep DEF ComparesLikeDictionary, ChecksumVerifies
<1>3. CASE CallChecksum
  <2>1. call'.fn = "checksum"
    BY <1>3 DEF CallChecksum
  <2>. QED
    BY <1>3, <2>1, ChecksumStep DEF ComparesLikeDictionary, PrintsNumeral
<1>4. CASE Done
  <2>1. call'.fn = "none"
    BY <1>4 DEF Done, Nothing
  <2>. QED
    BY <2>1 DEF ComparesLikeDictionary, PrintsNumeral, ChecksumVerifies
<1>5. CASE UNCHANGED libVars
  <2>1. call' = call /\ ret' = ret
    BY <1>5 DEF libVars
  <2>2. PrintsNumeral => PrintsNumeral'
    BY <2>1 DEF PrintsNumeral, Number
  <2>3. ChecksumVerifies => ChecksumVerifies'
    <3>1. ChecksumVerifies' =
            (call'.fn = "checksum" =>
               /\ ret' \in 0 .. WordSize - 1
               /\ Sum(Words(call'.bytes)) + ret' > 0
               /\ (Sum(Words(call'.bytes)) + ret') % (WordSize - 1) = 0)
      BY Zenon DEF ChecksumVerifies, Sum, Words, WordSize
    <3>. QED
      BY <2>1, <3>1 DEF ChecksumVerifies
  <2>4. ComparesLikeDictionary => ComparesLikeDictionary'
    BY <2>1 DEF ComparesLikeDictionary, Before, Cut
  <2>. QED
    BY <2>2, <2>3, <2>4
<1>. QED
  BY <1>1, <1>2, <1>3, <1>4, <1>5 DEF LibNext

(* Nothing has been returned in the beginning. *)
LEMMA LibBegins ==
  ASSUME LibInit
  PROVE  ComparesLikeDictionary /\ PrintsNumeral /\ ChecksumVerifies
<1>1. call.fn = "none"
  BY DEF LibInit, Nothing
<1>. QED
  BY <1>1 DEF ComparesLikeDictionary, PrintsNumeral, ChecksumVerifies

(* strcmp and strncmp order all strings as a dictionary does, whatever their
   length and however many characters strncmp is to look at. *)
THEOREM ComparesRight == LibSpec => []ComparesLikeDictionary
<1>. QED
  BY LibBegins, LibStep, PTL DEF LibSpec

(* printf prints for every number the one numeral that means it, to each of its
   bases. *)
THEOREM PrintsNumerals == LibSpec => []PrintsNumeral
<1>. QED
  BY LibBegins, LibStep, PTL DEF LibSpec

(* The checksum of every packet satisfies the receiver that checks it. *)
THEOREM ChecksumsVerify == LibSpec => []ChecksumVerifies
<1>. QED
  BY LibBegins, LibStep, PTL DEF LibSpec

-----------------------------------------------------------------------------
(* memmove.  The invariant says what the memory holds in the middle of a loop:
   the part that was copied, and everything else as it was; with the direction
   memmove has chosen, the byte it reads next is always among everything else. *)

Copied(m, o, d, s, lo, hi) ==
  \A a \in Address :
    m[a] = IF d + lo <= a /\ a < d + hi THEN o[s + (a - d)] ELSE o[a]

Moved(lo, hi) == Copied(mem, old, dst, src, lo, hi)

Direction ==
  /\ pc = "up" /\ fn = "memmove" => dst < src
  /\ pc = "down" => fn = "memmove" /\ src <= dst

Progress ==
  /\ pc = "up" /\ Allowed => Moved(0, i)
  /\ pc = "down" => Moved(i, n)
  /\ pc = "idle" /\ Allowed => Moved(0, n)

CopyInv == MemTypeOK /\ Direction /\ Progress

USE MemoryAssumption DEF MemoryAssumption, Address

(* Before the first step nothing has been moved. *)
LEMMA NothingMoved ==
  ASSUME NEW m, NEW d \in Nat, NEW s, NEW k \in Nat
  PROVE  Copied(m, m, d, s, k, k)
  BY DEF Copied

LEMMA CallKeeps == CopyInv /\ CallCopy => CopyInv'
<1> SUFFICES ASSUME CopyInv, CallCopy PROVE CopyInv'
  OBVIOUS
<1>1. /\ n' \in 0 .. MemSize
      /\ dst' \in 0 .. MemSize - n' /\ src' \in 0 .. MemSize - n'
      /\ fn' \in {"memmove", "memcpy"}
  BY DEF CallCopy
<1>2. /\ mem' \in [Address -> Byte] /\ old' \in [Address -> Byte]
      /\ mem' = old'
  BY DEF CallCopy, CopyInv, MemTypeOK
<1>3. \/ pc' = "up" /\ i' = 0 /\ (fn' = "memcpy" \/ dst' < src')
      \/ pc' = "down" /\ i' = n' /\ ~(fn' = "memcpy" \/ dst' < src')
  BY DEF CallCopy
<1>4. i' \in 0 .. n'
  BY <1>1, <1>3
<1>5. MemTypeOK'
  BY <1>1, <1>2, <1>3, <1>4 DEF MemTypeOK
<1>6. Direction'
  BY <1>1, <1>3 DEF Direction
<1>7. dst' \in Nat /\ i' \in Nat /\ n' \in Nat
  BY <1>1, <1>4
<1>8. Copied(mem', old', dst', src', i', i')
  BY <1>2, <1>7, NothingMoved
<1>9. Progress'
  BY <1>3, <1>8 DEF Progress, Moved
<1> QED
  BY <1>5, <1>6, <1>9 DEF CopyInv

LEMMA CopyUpKeeps == CopyInv /\ CopyUp => CopyInv'
<1> SUFFICES ASSUME CopyInv, CopyUp PROVE CopyInv'
  OBVIOUS
<1> USE DEF CopyInv, CopyUp, args
<1>1. /\ dst + i \in Address /\ src + i \in Address
      /\ i \in Nat /\ i < n /\ n \in Nat /\ dst \in Nat /\ src \in Nat
  BY DEF MemTypeOK
<1>2. MemTypeOK'
  BY <1>1 DEF MemTypeOK
<1>3. Direction'
  BY DEF Direction
<1>4. ASSUME Allowed PROVE Moved(0, i)'
  <2>1. Moved(0, i) /\ (dst < src \/ dst >= src + n)
    BY <1>4 DEF Progress, Direction, Allowed, MemTypeOK
  <2>2. mem[src + i] = old[src + i]
    BY <2>1, <1>1 DEF Moved, Copied
  <2>3. ASSUME NEW a \in Address
        PROVE  mem'[a] = IF a = dst + i THEN old[src + i] ELSE mem[a]
    BY <2>2, <1>1 DEF MemTypeOK
  <2> QED
    BY <2>1, <2>3, <1>1 DEF Moved, Copied
<1>5. Progress'
  BY <1>4 DEF Progress, Allowed
<1> QED
  BY <1>2, <1>3, <1>5

LEMMA CopyDownKeeps == CopyInv /\ CopyDown => CopyInv'
<1> SUFFICES ASSUME CopyInv, CopyDown PROVE CopyInv'
  OBVIOUS
<1> USE DEF CopyInv, CopyDown, args
<1>1. /\ dst + i - 1 \in Address /\ src + i - 1 \in Address
      /\ i \in Nat \ {0} /\ i <= n /\ n \in Nat /\ dst \in Nat /\ src \in Nat
      /\ src <= dst
  BY DEF MemTypeOK, Direction
<1>2. MemTypeOK'
  BY <1>1 DEF MemTypeOK
<1>3. Direction'
  BY DEF Direction
<1>4. Moved(i, n)'
  <2>1. Moved(i, n)
    BY DEF Progress
  <2>2. mem[src + i - 1] = old[src + i - 1]
    BY <2>1, <1>1 DEF Moved, Copied
  <2>3. ASSUME NEW a \in Address
        PROVE  mem'[a] = IF a = dst + i - 1 THEN old[src + i - 1] ELSE mem[a]
    BY <2>2, <1>1 DEF MemTypeOK
  <2> QED
    BY <2>1, <2>3, <1>1 DEF Moved, Copied
<1>5. Progress'
  BY <1>4 DEF Progress
<1> QED
  BY <1>2, <1>3, <1>5

LEMMA ReturnKeeps == CopyInv /\ ReturnCopy => CopyInv'
  BY DEF CopyInv, MemTypeOK, Direction, Progress, Moved, Copied, Allowed, ReturnCopy, args

LEMMA CopyInvariance == MemSpec => []CopyInv
<1>1. MemInit => CopyInv
  BY DEF MemInit, CopyInv, MemTypeOK, Direction, Progress, Moved, Copied, Allowed
<1>2. CopyInv /\ [MemNext]_memVars => CopyInv'
  <2>1. CopyInv /\ UNCHANGED memVars => CopyInv'
    BY DEF CopyInv, MemTypeOK, Direction, Progress, Moved, Copied, Allowed, memVars, args
  <2> QED
    BY <2>1, CallKeeps, CopyUpKeeps, CopyDownKeeps, ReturnKeeps DEF MemNext
<1> QED
  BY <1>1, <1>2, PTL DEF MemSpec

(* The arguments stay in the memory and the loop counter in its loop. *)
THEOREM CopyTypeCorrect == MemSpec => []MemTypeOK
<1>1. CopyInv => MemTypeOK
  BY DEF CopyInv
<1> QED
  BY <1>1, CopyInvariance, PTL

(* When memmove returns, the target holds what the source held, and nothing
   else has changed: for every size of the memory and every overlap. *)
THEOREM MovesRight == MemSpec => []CopiesAll
<1>1. CopyInv => CopiesAll
  BY DEF CopyInv, MemTypeOK, Progress, Moved, Copied, CopiesAll, Allowed
<1> QED
  BY <1>1, CopyInvariance, PTL
-----------------------------------------------------------------------------
(* printf. *)

(* Every line passes one argument for each percent sign, known or not, and
   the only string conversion is the first one of its line. *)
LEMMA LineShape ==
  ASSUME NEW l \in Line
  PROVE  /\ Len(l.format) \in Nat /\ Len(l.args) = Len(l.format)
         /\ \A k \in 1 .. Len(l.format) :
              l.format[k] = "s" => k = 1 /\ l.args[1].kind = "string"
<1>1. CASE l = mac
  <2>1. mac.format \in Seq({"x"}) /\ Len(mac.format) = 6
    BY DEF mac
  <2>2. Len(mac.args) = 6
    BY DEF mac
  <2> QED
    BY <1>1, <2>1, <2>2 DEF mac
<1>2. CASE l = lsblk_port
  BY <1>2 DEF lsblk_port
<1>3. CASE l = lsblk_controller
  BY <1>3 DEF lsblk_controller
<1>4. CASE l = sata_block_read
  BY <1>4 DEF sata_block_read
<1>5. CASE l = registered
  BY <1>5 DEF registered, Arg
<1>6. CASE l = rx_buffer
  BY <1>6 DEF rx_buffer
<1>7. CASE l = poll
  BY <1>7 DEF poll
<1> QED
  BY <1>1, <1>2, <1>3, <1>4, <1>5, <1>6, <1>7 DEF Line

(* The arguments taken never overtake the percent signs passed, and a string
   is only ever the first of either. *)
PrintfInv ==
  /\ line \in Line
  /\ pos \in 1 .. Len(line.format) + 1
  /\ taken \in 0 .. pos - 1
  /\ shown \in Seq([arg : Nat, conversion : Conversion])
  /\ \A k \in DOMAIN shown :
       shown[k].conversion = "s" =>
         shown[k].arg = 1 /\ line.args[1].kind = "string"

(* In no line does printf take an argument that was not passed, nor follow
   one as a string that is none, whatever conversions it does not know. *)
THEOREM StringsAreStringsHolds == PrintfSpec => []StringsAreStrings
<1>1. PrintfInit => PrintfInv
  <2> SUFFICES ASSUME PrintfInit PROVE PrintfInv
    OBVIOUS
  <2>1. line \in Line /\ Len(line.format) \in Nat
    BY LineShape DEF PrintfInit, Line
  <2> QED
    BY <2>1 DEF PrintfInit, PrintfInv
<1>2. PrintfInv /\ [PrintfNext]_printfVars => PrintfInv'
  <2> SUFFICES ASSUME PrintfInv, [PrintfNext]_printfVars PROVE PrintfInv'
    OBVIOUS
  <2>1. Len(line.format) \in Nat
    BY LineShape DEF PrintfInv
  <2>2. CASE CallPrintf
    <3>1. line' \in Line /\ Len(line'.format) \in Nat
      BY <2>2, LineShape DEF CallPrintf
    <3> QED
      BY <2>2, <3>1 DEF CallPrintf, PrintfInv
  <2>3. CASE Convert
    <3>1. /\ pos <= Len(line.format) /\ Here \in Conversion
          /\ UNCHANGED line /\ pos' = pos + 1 /\ taken' = taken + 1
          /\ shown' = Append(shown, [arg |-> taken + 1, conversion |-> Here])
      BY <2>3 DEF Convert, Take
    <3>2. Here = "s" => taken + 1 = 1 /\ line.args[1].kind = "string"
      BY <2>1, <3>1, LineShape DEF PrintfInv, Here
    <3>3. shown' \in Seq([arg : Nat, conversion : Conversion])
      BY <3>1 DEF PrintfInv
    <3>4. ASSUME NEW k \in DOMAIN shown', shown'[k].conversion = "s"
          PROVE  shown'[k].arg = 1 /\ line.args[1].kind = "string"
      <4>1. CASE k \in DOMAIN shown
        <5>1. shown'[k] = shown[k]
          BY <3>1, <4>1 DEF PrintfInv
        <5> QED
          BY <3>4, <4>1, <5>1 DEF PrintfInv
      <4>2. CASE k \notin DOMAIN shown
        <5>1. shown'[k] = [arg |-> taken + 1, conversion |-> Here]
          BY <3>1, <3>4, <4>2 DEF PrintfInv
        <5> QED
          BY <3>2, <3>4, <5>1
      <4> QED
        BY <4>1, <4>2
    <3>5. pos' \in 1 .. Len(line.format) + 1 /\ taken' \in 0 .. pos' - 1
      BY <2>1, <3>1 DEF PrintfInv
    <3> QED
      BY <3>1, <3>3, <3>4, <3>5 DEF PrintfInv
  <2>4. CASE PrintUnknown
    BY <2>1, <2>4 DEF PrintUnknown, PrintfInv
  <2>5. CASE ReturnPrintf
    BY <2>5 DEF ReturnPrintf, PrintfInv
  <2>6. CASE UNCHANGED printfVars
    BY <2>6 DEF printfVars, PrintfInv
  <2> QED
    BY <2>2, <2>3, <2>4, <2>5, <2>6 DEF PrintfNext
<1>3. PrintfInv => StringsAreStrings
  <2> SUFFICES ASSUME PrintfInv PROVE StringsAreStrings
    OBVIOUS
  <2>1. Len(line.format) \in Nat /\ Len(line.args) = Len(line.format)
    BY LineShape DEF PrintfInv
  <2>2. taken <= Len(line.args)
    BY <2>1 DEF PrintfInv
  <2> QED
    BY <2>2 DEF PrintfInv, StringsAreStrings
<1> QED
  BY <1>1, <1>2, <1>3, PTL DEF PrintfSpec
=============================================================================
