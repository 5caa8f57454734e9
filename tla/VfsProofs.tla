----------------------------- MODULE VfsProofs -----------------------------
(***************************************************************************)
(* Theorems about the node table, for every table size, every set of names *)
(* and every boot script.  WellFormed is the inductive invariant; lemmas   *)
(* show that each function of vfs.c that changes the table preserves it,   *)
(* for any table, so that they also serve the callers of vfs.c that make   *)
(* several calls in a row.                                                 *)
(***************************************************************************)
EXTENDS Vfs, Recursion, TLAPS, FiniteSetTheorems, SequenceTheorems

(* A table that vfs.c can have built, next being the next inode. *)
WellFormed(ns, next) ==
  /\ ns \in [Slot -> Node]
  /\ Named(ns)
  /\ UniquePaths(ns)
  /\ RootThere(ns)
  /\ NoOrphans(ns)
  /\ next \in Nat
  /\ UniqueInodes(ns, next)

-----------------------------------------------------------------------------
(* Paths. *)

LEMMA RootIsPath == Root \in Path
  BY DEF Root, Path, Component

(* A path other than those with one component lies below its parent. *)
LEMMA ParentOfPath ==
  ASSUME NEW q \in Path
  PROVE  /\ parent_path(q) \in Path
         /\ Len(q) # 1 => IsBelow(parent_path(q), q)
<1>1. q \in Seq(Component) /\ Len(q) \in Nat /\ Len(q) # 0
  BY EmptySeq DEF Path
<1>2. CASE Len(q) = 1
  BY <1>2, RootIsPath DEF parent_path
<1>3. CASE Len(q) # 1
  <2>1. \A n \in Nat : n # 0 /\ n # 1 => n - 1 \in Int /\ 1 <= n - 1
    OBVIOUS
  <2>2. Len(q) - 1 \in Int /\ 1 <= Len(q) - 1
    BY <1>1, <1>3, <2>1, Zenon
  <2>. DEFINE p == SubSeq(q, 1, Len(q) - 1)
  <2>3. parent_path(q) = p
    BY <1>3 DEF parent_path, Front
  <2>4. p \in Seq(Component) /\ Len(p) = Len(q) - 1
    <3>1. \A i \in 1 .. Len(q) - 1 : q[i] \in Component
      BY <1>1, ElementOfSeq
    <3>2. \A s, m, n : m \in Int /\ n \in Int /\ (\A i \in m .. n : s[i] \in Component)
             => /\ SubSeq(s, m, n) \in Seq(Component)
                /\ Len(SubSeq(s, m, n)) = IF m <= n THEN n - m + 1 ELSE 0
      BY SubSeqProperties, Zenon
    <3>3. p \in Seq(Component)
      BY <1>1, <2>2, <3>1, <3>2
    <3>. QED
      BY <1>1, <2>2, <3>1, <3>2
  <2>5. p # <<>> /\ p # q
    <3>1. Len(p) # 0 /\ Len(p) # Len(q)
      BY <1>1, <1>3, <2>4
    <3>. QED
      BY <3>1, EmptySeq
  <2>6. SubSeq(p, 1, Len(p)) = p
    BY <2>4, SubSeqFull
  <2>7. IsStrictPrefix(p, q)
    BY <1>1, <2>4, <2>5, <2>6 DEF IsStrictPrefix, IsPrefix
  <2>. QED
    BY <1>3, <2>3, <2>4, <2>5, <2>7 DEF Path, IsBelow
<1>. QED
  BY <1>2, <1>3

(* The only path with one component whose parent is not "/" is none at all. *)
LEMMA ParentOfTopLevel ==
  ASSUME NEW q \in Path, Len(q) = 1
  PROVE  parent_path(q) = Root
  BY DEF parent_path

(* What lies above a path is its parent or lies above its parent. *)
LEMMA PrefixOfFront ==
  ASSUME NEW d \in Path, NEW q \in Path, IsBelow(d, q)
  PROVE  /\ Len(q) # 1
         /\ Len(parent_path(q)) = Len(q) - 1
         /\ d = parent_path(q) \/ IsBelow(d, parent_path(q))
<1>1. d \in Seq(Component) /\ q \in Seq(Component) /\ d # <<>>
  BY DEF Path
<1>2. Len(d) \in Nat /\ Len(q) \in Nat /\ Len(d) # 0
  BY <1>1, EmptySeq
<1>3. Len(d) <= Len(q) /\ SubSeq(d, 1, Len(d)) = SubSeq(q, 1, Len(d)) /\ d # q
  BY DEF IsBelow, IsStrictPrefix, IsPrefix
<1>4. SubSeq(d, 1, Len(d)) = d /\ SubSeq(q, 1, Len(q)) = q
  BY <1>1, SubSeqFull
<1>5. Len(d) # Len(q)
  BY <1>3, <1>4
<1>6. Len(d) <= Len(q) - 1 /\ Len(q) # 1
  <2>1. \A m, n \in Nat : m <= n /\ m # n /\ m # 0 => m <= n - 1 /\ n # 1
    OBVIOUS
  <2>. QED
    BY <1>2, <1>3, <1>5, <2>1, Zenon
<1>. DEFINE p == SubSeq(q, 1, Len(q) - 1)
<1>7. parent_path(q) = p
  BY <1>6 DEF parent_path, Front
<1>8. p \in Seq(Component) /\ Len(p) = Len(q) - 1
  BY <1>1, <1>2, <1>6
<1>9. SubSeq(p, 1, Len(d)) = SubSeq(q, 1, Len(d))
  BY <1>1, <1>2, <1>6
<1>10. d # p => IsBelow(d, p)
  BY <1>3, <1>6, <1>8, <1>9 DEF IsBelow, IsStrictPrefix, IsPrefix
<1>. QED
  BY <1>6, <1>7, <1>8, <1>10

(* No path is its own parent but "/". *)
LEMMA ParentDiffers ==
  ASSUME NEW q \in Path, q # Root
  PROVE  parent_path(q) # q
<1>1. CASE Len(q) = 1
  BY <1>1, ParentOfTopLevel
<1>2. CASE Len(q) # 1
  BY <1>2, ParentOfPath DEF IsBelow, IsStrictPrefix
<1>. QED
  BY <1>1, <1>2

(* The parent of a plain path, or of one with a single slash, lists it. *)
LEMMA ParentLists ==
  ASSUME NEW q \in Path, q # Root, Last(q) # Empty,
         ~(Len(q) = 2 /\ Head(q) = Empty)
  PROVE  is_direct_child(parent_path(q), q)
<1>1. q \in Seq(Component) /\ Len(q) \in Nat /\ Len(q) # 0
  BY EmptySeq DEF Path
<1>2. CASE Len(q) = 1
  BY <1>2, ParentOfTopLevel, ParentDiffers DEF is_direct_child
<1>3. CASE Len(q) # 1
  <2>1. parent_path(q) = SubSeq(q, 1, Len(q) - 1) /\ IsBelow(parent_path(q), q)
    BY <1>3, ParentOfPath DEF parent_path, Front
  <2>. DEFINE p == SubSeq(q, 1, Len(q) - 1)
  <2>2. p[1] = q[1] /\ Len(q) = Len(p) + 1 /\ Len(p) = Len(q) - 1
    <3>1. \A n \in Nat : n # 0 /\ n # 1 => n - 1 \in Nat /\ 1 <= n - 1
                                          /\ n - 1 <= n /\ n = (n - 1) + 1
      OBVIOUS
    <3>2. Len(q) - 1 \in Nat /\ 1 <= Len(q) - 1 /\ Len(q) - 1 <= Len(q)
          /\ Len(q) = (Len(q) - 1) + 1
      BY <1>1, <1>3, <3>1, Zenon
    <3>3. Len(p) = Len(q) - 1
      BY <1>1, <3>2
    <3>4. p[1] = q[1]
      BY <1>1, <3>2
    <3>. QED
      BY <3>2, <3>3, <3>4
  <2>3. p # Root
    <3>1. SUFFICES ASSUME p = Root PROVE FALSE
      OBVIOUS
    <3>2. Len(Root) = 1 /\ Root[1] = Empty
      BY DEF Root
    <3>3. Len(q) = 1 + 1
      BY <2>2, <3>1, <3>2, Zenon
    <3>4. Len(q) = 2
      BY <3>3
    <3>5. q[1] = Empty
      BY <2>2, <3>1, <3>2, Zenon
    <3>6. Head(q) = q[1]
      BY <1>1
    <3>. QED
      BY <3>4, <3>5, <3>6
  <2>. QED
    BY <2>1, <2>2, <2>3, ParentDiffers DEF is_direct_child
<1>. QED
  BY <1>2, <1>3

(* The characters of a path, and of one that begins with it. *)
LEMMA CharsFinite ==
  ASSUME NEW path \in Seq(Component)
  PROVE  IsFiniteSet(Chars(path)) /\ string_len(path) \in Nat
<1>. DEFINE last(k) == IF path[k] = Empty THEN 0 ELSE NameLen[path[k]]
            part == [k \in DOMAIN path |-> {k} \X (0 .. last(k))]
            all  == {{k} \X (0 .. last(k)) : k \in DOMAIN path}
<1>1. DOMAIN path = 1 .. Len(path) /\ Len(path) \in Nat
  OBVIOUS
<1>2. IsFiniteSet(DOMAIN path)
  BY <1>1, FS_Interval
<1>3. part \in Surjection(DOMAIN path, all)
  BY DEF Surjection
<1>4. IsFiniteSet(all)
  <2>. HIDE DEF part, all
  <2>. QED
    BY <1>2, <1>3, FS_Surjection
<1>5. ASSUME NEW k \in DOMAIN path PROVE IsFiniteSet({k} \X (0 .. last(k)))
  <2>1. path[k] \in Component
    OBVIOUS
  <2>2. last(k) \in Int
    <3>1. path[k] # Empty => path[k] \in Name /\ NameLen[path[k]] \in Nat
      BY <2>1, PathsAssumption DEF Component
    <3>. QED
      BY <3>1
  <2>3. IsFiniteSet(0 .. last(k)) /\ IsFiniteSet({k})
    <3>1. PICK m \in Int : m = last(k)
      BY <2>2, Zenon
    <3>2. IsFiniteSet(0 .. m)
      BY FS_Interval
    <3>. QED
      BY <3>1, <3>2, FS_Singleton, Zenon
  <2>. QED
    BY <2>3, FS_Product
<1>6. \A T \in all : IsFiniteSet(T)
  BY <1>5
<1>7. Chars(path) = UNION all
  BY DEF Chars
<1>8. IsFiniteSet(Chars(path))
  <2>. HIDE DEF all
  <2>. QED
    BY <1>4, <1>6, <1>7, FS_UNION
<1>. QED
  BY <1>8, FS_CardinalityType DEF string_len

(* Every component has its slash. *)
LEMMA SlashesCount ==
  ASSUME NEW path \in Seq(Component)
  PROVE  Len(path) <= string_len(path)
<1>. DEFINE slash == [k \in 1 .. Len(path) |-> <<k, 0>>]
<1>1. ASSUME NEW k \in 1 .. Len(path) PROVE <<k, 0>> \in Chars(path)
  <2>1. path[k] \in Component /\ k \in DOMAIN path
    OBVIOUS
  <2>2. 0 \in 0 .. IF path[k] = Empty THEN 0 ELSE NameLen[path[k]]
    <3>1. path[k] # Empty => path[k] \in Name /\ NameLen[path[k]] \in Nat
      BY <2>1, PathsAssumption DEF Component
    <3>. QED
      BY <3>1
  <2>. QED
    BY <2>1, <2>2 DEF Chars
<1>2. slash \in Injection(1 .. Len(path), Chars(path))
  BY <1>1 DEF Injection, IsInjective
<1>3. Cardinality(1 .. Len(path)) = Len(path)
  <2>1. Len(path) \in Nat
    OBVIOUS
  <2>2. PICK n \in Nat : n = Len(path)
    BY <2>1, Zenon
  <2>3. Cardinality(1 .. n) = n
    BY FS_Interval
  <2>. QED
    BY <2>2, <2>3
<1>. HIDE DEF slash
<1>. QED
  BY <1>2, <1>3, CharsFinite, FS_Injection DEF string_len

-----------------------------------------------------------------------------
(* Looking up. *)

LEMMA UsedInSlot ==
  ASSUME NEW ns
  PROVE  Used(ns) \subseteq Slot /\ Slot \subseteq Nat /\ NoSlot \notin Slot
  BY VfsAssumption DEF Used, Slot, NoSlot

(* find_node returns a used node with the path when there is one. *)
LEMMA FindNode ==
  ASSUME NEW ns, NEW path
  PROVE  /\ wnu_vfs_exists(ns, path) =>
              /\ find_node(ns, path) \in Used(ns)
              /\ ns[find_node(ns, path)].path = path
         /\ (\E i \in Used(ns) : ns[i].path = path) =>
              wnu_vfs_exists(ns, path)
<1>. DEFINE hits == {i \in Used(ns) : ns[i].path = path}
<1>1. hits \in SUBSET Nat /\ hits \subseteq Slot
  BY UsedInSlot
<1>2. hits # {} => Min(hits) \in hits
  BY <1>1, MinIn
<1>3. find_node(ns, path) = IF hits = {} THEN NoSlot ELSE Min(hits)
  BY DEF find_node
<1>4. hits # {} => find_node(ns, path) \in hits
  BY <1>2, <1>3
<1>5. wnu_vfs_exists(ns, path) => hits # {}
  BY <1>3 DEF wnu_vfs_exists
<1>6. hits # {} => wnu_vfs_exists(ns, path)
  BY <1>1, <1>4, UsedInSlot DEF wnu_vfs_exists
<1>. QED
  BY <1>4, <1>5, <1>6

(* With unique paths, being a directory is having a node that is one. *)
LEMMA DirIff ==
  ASSUME NEW ns, UniquePaths(ns), NEW path
  PROVE  wnu_vfs_is_dir(ns, path) <=>
           \E i \in Used(ns) : ns[i].path = path /\ ns[i].type = "dir"
<1>1. ASSUME NEW i \in Used(ns), ns[i].path = path
      PROVE  wnu_vfs_exists(ns, path) /\ find_node(ns, path) = i
  BY <1>1, FindNode DEF UniquePaths
<1>. QED
  BY <1>1, FindNode DEF wnu_vfs_is_dir, HasType

(* Whatever has something below it in a table is the parent of a node: of the
   nodes below it, one with a shortest path. *)
LEMMA BelowHasChild ==
  ASSUME NEW ns, NEW next, WellFormed(ns, next), NEW d \in Path,
         NEW i \in Used(ns), IsBelow(d, ns[i].path)
  PROVE  \E j \in Used(ns) : /\ parent_path(ns[j].path) = d
                             /\ IsBelow(d, ns[j].path)
<1>1. \A j \in Used(ns) : ns[j].path \in Path /\ Len(ns[j].path) \in Nat
  BY UsedInSlot DEF WellFormed, Named, Node, Path
<1>. DEFINE below   == {j \in Used(ns) : IsBelow(d, ns[j].path)}
            lengths == {Len(ns[j].path) : j \in below}
<1>2. lengths \in SUBSET Nat /\ lengths # {}
  BY <1>1
<1>. DEFINE least == Min(lengths)
<1>3. least \in lengths /\ \A m \in lengths : least <= m
  <2>. HIDE DEF lengths
  <2>. QED
    BY <1>2, MinIn
<1>. HIDE DEF least
<1>4. PICK j \in below : \A k \in below : Len(ns[j].path) <= Len(ns[k].path)
  BY <1>3
<1>. DEFINE q == ns[j].path
<1>5. q \in Path /\ IsBelow(d, q) /\ j \in Used(ns)
  BY <1>1, <1>4
<1>6. PICK k \in Used(ns) : ns[k].path = parent_path(q)
  BY <1>5, DirIff DEF WellFormed, NoOrphans
<1>7. ASSUME d # parent_path(q)
      PROVE  FALSE
  <2>1. IsBelow(d, parent_path(q)) /\ Len(parent_path(q)) = Len(q) - 1
    BY <1>5, <1>7, PrefixOfFront
  <2>2. k \in below /\ Len(ns[k].path) = Len(q) - 1
    BY <1>6, <2>1
  <2>3. Len(q) <= Len(q) - 1 /\ Len(q) \in Nat
    BY <1>1, <1>4, <1>5, <2>2
  <2>. QED
    BY <2>3
<1>. QED
  BY <1>5, <1>7

(* And so it is a directory of the table. *)
LEMMA AboveIsDir ==
  ASSUME NEW ns, NEW next, WellFormed(ns, next), NEW d \in Path,
         NEW i \in Used(ns), IsBelow(d, ns[i].path)
  PROVE  wnu_vfs_is_dir(ns, d)
  BY BelowHasChild DEF WellFormed, NoOrphans

LEMMA FreeSlotIsFree ==
  ASSUME NEW ns, Used(ns) # Slot
  PROVE  FreeSlot(ns) \in Slot /\ FreeSlot(ns) \notin Used(ns)
<1>1. Slot \ Used(ns) \in SUBSET Nat /\ Slot \ Used(ns) # {}
  BY UsedInSlot
<1>. QED
  BY <1>1, MinIn DEF FreeSlot

-----------------------------------------------------------------------------
(* The functions that change the table. *)

LEMMA CreatedKeepsTable ==
  ASSUME NEW ns, NEW next, WellFormed(ns, next),
         NEW type \in {"file", "dir"}, NEW path \in Path, CanCreate(ns, path)
  PROVE  WellFormed(Created(ns, next, type, path), next + 1)
<1>. DEFINE new == FreeSlot(ns)
            ms  == Created(ns, next, type, path)
<1>1. new \in Slot /\ new \notin Used(ns)
  BY FreeSlotIsFree DEF CanCreate
<1>2. ns \in [Slot -> Node] /\ next \in Nat
  BY DEF WellFormed
<1>3. /\ ms[new].used /\ ms[new].inode = next /\ ms[new].type = type
      /\ ms[new].path = path
      /\ \A i \in Slot \ {new} : ms[i] = ns[i]
  BY <1>1, <1>2 DEF Created
<1>4. ms \in [Slot -> Node]
  BY <1>1, <1>2, VfsAssumption DEF Created, Node, Path
<1>5. Used(ms) = Used(ns) \cup {new}
  BY <1>1, <1>3 DEF Used
<1>6. path # <<>> /\ \A i \in Used(ns) : ns[i].path # path
  BY FindNode DEF CanCreate, Path
<1>7. \A i \in Used(ns) : ms[i] = ns[i]
  BY <1>1, <1>3 DEF Used
<1>8. UniquePaths(ms)
  BY <1>3, <1>5, <1>6, <1>7 DEF UniquePaths, WellFormed
<1>9. \A q : wnu_vfs_is_dir(ns, q) => wnu_vfs_is_dir(ms, q)
  BY <1>5, <1>7, <1>8, DirIff DEF WellFormed
<1>10. RootThere(ms) /\ NoOrphans(ms)
  BY <1>3, <1>5, <1>7, <1>9 DEF RootThere, NoOrphans, WellFormed, CanCreate
<1>11. UniqueInodes(ms, next + 1)
  <2>1. \A i \in Used(ns) : ns[i].inode < next /\ ns[i].inode \in Nat
    BY <1>2, UsedInSlot DEF WellFormed, UniqueInodes, Node
  <2>. QED
    BY <1>2, <1>3, <1>5, <1>7, <2>1 DEF UniqueInodes, WellFormed
<1>12. Named(ms)
  BY <1>3, <1>5, <1>6, <1>7 DEF WellFormed, Named, CanCreate
<1>. QED
  BY <1>2, <1>4, <1>8, <1>10, <1>11, <1>12 DEF WellFormed

(* The prefix test of wnu_vfs_delete finds every node whose parent is the
   directory it is about to free. *)
LEMMA DeletedKeepsTable ==
  ASSUME NEW ns, NEW next, WellFormed(ns, next),
         NEW path \in Path, CanDelete(ns, path)
  PROVE  WellFormed(Deleted(ns, path), next)
<1>. DEFINE gone == find_node(ns, path)
            ms   == Deleted(ns, path)
<1>1. gone \in Used(ns) /\ gone \in Slot /\ ns[gone].path = path
  BY FindNode, UsedInSlot DEF CanDelete
<1>2. ns \in [Slot -> Node] /\ next \in Nat /\ UniquePaths(ns)
  BY DEF WellFormed
<1>3. /\ ms \in [Slot -> Node]
      /\ ~ms[gone].used
      /\ \A i \in Slot \ {gone} : ms[i] = ns[i]
  BY <1>1, <1>2 DEF Deleted, Node
<1>4. Used(ms) = Used(ns) \ {gone}
  BY <1>1, <1>3 DEF Used
<1>5. \A i \in Used(ms) : ms[i] = ns[i] /\ i \in Used(ns)
  BY <1>3, <1>4, UsedInSlot
<1>6. UniquePaths(ms)
  BY <1>2, <1>5 DEF UniquePaths
<1>7. \A q : wnu_vfs_is_dir(ns, q) /\ q # path => wnu_vfs_is_dir(ms, q)
  BY <1>1, <1>2, <1>4, <1>5, <1>6, DirIff
<1>8. RootThere(ms)
  BY <1>7 DEF RootThere, WellFormed, CanDelete
<1>9. ASSUME NEW i \in Used(ms)
      PROVE  wnu_vfs_is_dir(ms, parent_path(ms[i].path))
  <2>. DEFINE q == ns[i].path
  <2>1. i \in Used(ns) /\ i # gone /\ ms[i].path = q
    BY <1>4, <1>5
  <2>2. q \in Path
    BY <1>2, <2>1, UsedInSlot DEF WellFormed, Named, Node, Path
  <2>3. wnu_vfs_is_dir(ns, parent_path(q))
    BY <2>1 DEF WellFormed, NoOrphans
  <2>4. parent_path(q) # path
    <3>. SUFFICES ASSUME parent_path(q) = path
                  PROVE  FALSE
      OBVIOUS
    <3>1. ~IsBelow(path, q)
      BY <2>1, <2>3 DEF CanDelete
    <3>2. Len(q) = 1
      BY <2>2, <3>1, ParentOfPath
    <3>3. parent_path(q) = Root
      BY <2>2, <3>2, ParentOfTopLevel
    <3>. QED
      BY <3>3 DEF CanDelete
  <2>. QED
    BY <1>7, <2>1, <2>3, <2>4
<1>10. UniqueInodes(ms, next)
  BY <1>5 DEF UniqueInodes, WellFormed
<1>11. Named(ms)
  BY <1>5 DEF WellFormed, Named
<1>. QED
  BY <1>2, <1>3, <1>6, <1>8, <1>9, <1>10, <1>11 DEF WellFormed, NoOrphans

(* Writing keeps every name where it is, and the file within its buffer. *)
LEMMA StoredKeepsTable ==
  ASSUME NEW ns, NEW next, WellFormed(ns, next),
         NEW path \in Path, IsOpenable(ns, path),
         NEW from \in 0 .. MaxData, NEW text \in Seq(Byte)
  PROVE  WellFormed(Stored(ns, path, from, text), next)
<1>. DEFINE file  == find_node(ns, path)
            ms    == Stored(ns, path, from, text)
            count == Min({Len(text), MaxData - from})
            data  == [k \in 1 .. MaxData |->
                        IF k \in from + 1 .. from + count THEN text[k - from]
                                                          ELSE ns[file].data[k]]
<1>1. file \in Used(ns) /\ file \in Slot
  BY FindNode, UsedInSlot DEF IsOpenable, wnu_vfs_is_file, HasType
<1>2. ns \in [Slot -> Node] /\ UniquePaths(ns)
  BY DEF WellFormed
<1>3. count \in Nat /\ count <= Len(text) /\ from + count <= MaxData
  <2>1. {Len(text), MaxData - from} \in SUBSET Nat
    BY VfsAssumption
  <2>2. count \in Nat /\ count <= Len(text) /\ count <= MaxData - from
    BY <2>1, MinIn
  <2>. QED
    BY <2>2, VfsAssumption
<1>4. data \in [1 .. MaxData -> Byte]
  <2>. SUFFICES ASSUME NEW k \in 1 .. MaxData
                PROVE  (IF k \in from + 1 .. from + count
                          THEN text[k - from] ELSE ns[file].data[k]) \in Byte
    OBVIOUS
  <2>1. CASE k \in from + 1 .. from + count
    <3>1. k - from \in 1 .. Len(text)
      BY <1>3, <2>1, VfsAssumption
    <3>. QED
      BY <2>1, <3>1, ElementOfSeq
  <2>2. CASE k \notin from + 1 .. from + count
    BY <1>1, <1>2, <2>2 DEF Node
  <2>. QED
    BY <2>1, <2>2
<1>5. ms = [ns EXCEPT ![file].data = data, ![file].size = from + count]
  BY DEF Stored
<1>6. from + count \in 0 .. MaxData
  BY <1>3, VfsAssumption
<1>. HIDE DEF ms, data, count, file
<1>7. ms \in [Slot -> Node]
  BY <1>1, <1>2, <1>4, <1>5, <1>6 DEF Node
<1>8. \A i \in Slot : /\ ms[i].used = ns[i].used /\ ms[i].path = ns[i].path
                      /\ ms[i].type = ns[i].type /\ ms[i].inode = ns[i].inode
  BY <1>1, <1>2, <1>5 DEF Node
<1>9. Used(ms) = Used(ns)
  BY <1>8 DEF Used
<1>10. \A i \in Used(ns) : /\ ms[i].path = ns[i].path /\ ms[i].type = ns[i].type
                           /\ ms[i].inode = ns[i].inode
  BY <1>8, UsedInSlot
<1>11. UniquePaths(ms)
  BY <1>2, <1>9, <1>10 DEF UniquePaths
<1>12. \A q : wnu_vfs_is_dir(ns, q) => wnu_vfs_is_dir(ms, q)
  BY <1>2, <1>9, <1>10, <1>11, DirIff
<1>13. RootThere(ms) /\ NoOrphans(ms)
  BY <1>9, <1>10, <1>12 DEF RootThere, NoOrphans, WellFormed
<1>14. UniqueInodes(ms, next)
  BY <1>9, <1>10 DEF UniqueInodes, WellFormed
<1>15. Named(ms)
  BY <1>9, <1>10 DEF WellFormed, Named
<1>. QED
  BY <1>7, <1>11, <1>13, <1>14, <1>15 DEF WellFormed, ms

(* What a read returns is a sequence of bytes. *)
LEMMA ContentIsBytes ==
  ASSUME NEW node \in Node
  PROVE  Content(node) \in Seq(Byte)
<1>1. node.size \in Nat /\ \A k \in 1 .. node.size : node.data[k] \in Byte
  BY VfsAssumption DEF Node
<1>. QED
  BY <1>1 DEF Content

-----------------------------------------------------------------------------
(* The calls. *)

Result == [ok : BOOLEAN, content : Seq(Byte)]

Good == WellFormed(nodes, next_inode) /\ ret \in Result

LEMMA RefusesKeepsGood ==
  ASSUME Good, Refuses
  PROVE  Good'
  BY DEF Good, Refuses, Returns, Result

LEMMA CreateKeepsGood ==
  ASSUME Good, NEW type \in {"file", "dir"}, NEW path \in Path,
         Create(type, path)
  PROVE  Good'
<1>1. CASE CanCreate(nodes, path) /\ Returns(TRUE, <<>>)
           /\ nodes' = Created(nodes, next_inode, type, path)
           /\ next_inode' = next_inode + 1
  BY <1>1, CreatedKeepsTable DEF Good, Returns, Result
<1>2. CASE Refuses
  BY <1>2, RefusesKeepsGood
<1>. QED
  BY <1>1, <1>2 DEF Create

LEMMA DeleteKeepsGood ==
  ASSUME Good, NEW path \in Path, wnu_vfs_delete(path)
  PROVE  Good'
<1>1. CASE CanDelete(nodes, path) /\ Returns(TRUE, <<>>)
           /\ nodes' = Deleted(nodes, path) /\ UNCHANGED next_inode
  BY <1>1, DeletedKeepsTable DEF Good, Returns, Result
<1>2. CASE Refuses
  BY <1>2, RefusesKeepsGood
<1>. QED
  BY <1>1, <1>2 DEF wnu_vfs_delete

LEMMA WriteKeepsGood ==
  ASSUME Good, NEW path \in Path, NEW text \in Seq(Byte),
         wnu_vfs_write_file(path, text) \/ wnu_vfs_append_file(path, text)
  PROVE  Good'
<1>1. ASSUME NEW from \in 0 .. MaxData, IsOpenable(nodes, path),
             nodes' = Stored(nodes, path, from, text),
             Returns(TRUE, <<>>), UNCHANGED next_inode
      PROVE  Good'
  BY <1>1, StoredKeepsTable DEF Good, Returns, Result
<1>2. CASE Refuses
  BY <1>2, RefusesKeepsGood
<1>3. 0 \in 0 .. MaxData
  BY VfsAssumption
<1>4. IsOpenable(nodes, path) => nodes[find_node(nodes, path)].size \in 0 .. MaxData
  BY FindNode, UsedInSlot
     DEF IsOpenable, wnu_vfs_is_file, HasType, Good, WellFormed, Node
<1>. QED
  BY <1>1, <1>2, <1>3, <1>4 DEF wnu_vfs_write_file, wnu_vfs_append_file

LEMMA ReadKeepsGood ==
  ASSUME Good, NEW path \in Path, wnu_vfs_read_file(path)
  PROVE  Good'
<1>1. CASE IsOpenable(nodes, path) /\ UNCHANGED <<nodes, next_inode>>
           /\ Returns(TRUE, Content(nodes[find_node(nodes, path)]))
  <2>1. nodes[find_node(nodes, path)] \in Node
    BY <1>1, FindNode, UsedInSlot
       DEF IsOpenable, wnu_vfs_is_file, HasType, Good, WellFormed
  <2>. QED
    BY <1>1, <2>1, ContentIsBytes DEF Good, Returns, Result
<1>2. CASE Refuses
  BY <1>2, RefusesKeepsGood
<1>. QED
  BY <1>1, <1>2 DEF wnu_vfs_read_file

-----------------------------------------------------------------------------
(* The specification. *)

IInv == Good /\ boot \in 0 .. Len(BootScript)

LEMMA InitGood == Init => Good
<1>. SUFFICES ASSUME Init PROVE Good
  OBVIOUS
<1>1. Root \in Seq(Component) /\ Root # <<>> /\ parent_path(Root) = Root
  BY RootIsPath DEF Path, Root, parent_path
<1>2. 0 \in Slot
  BY VfsAssumption DEF Slot
<1>3. nodes \in [Slot -> Node]
  BY <1>1, VfsAssumption DEF Init, Node
<1>4. Used(nodes) = {0} /\ nodes[0].path = Root /\ nodes[0].type = "dir"
      /\ nodes[0].inode = 1
  BY <1>2 DEF Init, Used
<1>5. UniquePaths(nodes)
  BY <1>4 DEF UniquePaths
<1>6. UniqueInodes(nodes, next_inode)
  <2>1. next_inode = 2
    BY DEF Init
  <2>. QED
    BY <1>4, <2>1 DEF UniqueInodes
<1>7. RootThere(nodes)
  BY <1>4, <1>5, DirIff DEF RootThere
<1>8. NoOrphans(nodes)
  BY <1>1, <1>4, <1>7 DEF NoOrphans, RootThere
<1>9. next_inode \in Nat /\ ret \in Result
  BY DEF Init, Result
<1>10. Named(nodes)
  BY <1>1, <1>4, VfsAssumption DEF Named
<1>. QED
  BY <1>3, <1>5, <1>6, <1>7, <1>8, <1>9, <1>10 DEF Good, WellFormed

LEMMA BootStepGood ==
  ASSUME IInv, BootStep
  PROVE  IInv'
<1>. DEFINE step == BootScript[boot + 1]
<1>1. boot + 1 \in 1 .. Len(BootScript) /\ boot' \in 0 .. Len(BootScript)
  BY VfsAssumption DEF IInv, BootStep
<1>2. step \in BootCall
  BY <1>1, VfsAssumption, ElementOfSeq
<1>3. step.path \in Path /\ step.text \in Seq(Byte)
  BY <1>2 DEF BootCall
<1>. HIDE DEF step
<1>4. Good'
  BY <1>3, CreateKeepsGood, WriteKeepsGood
     DEF IInv, BootStep, step, wnu_vfs_create_dir, wnu_vfs_create_file
<1>. QED
  BY <1>1, <1>4 DEF IInv

LEMMA CallGood ==
  ASSUME IInv, Call
  PROVE  IInv'
<1>1. PICK path \in PathArg :
        \/ wnu_vfs_create_file(path)
        \/ wnu_vfs_create_dir(path)
        \/ wnu_vfs_delete(path)
        \/ \E text \in TextArg : wnu_vfs_write_file(path, text)
        \/ \E text \in TextArg : wnu_vfs_append_file(path, text)
        \/ wnu_vfs_read_file(path)
  BY DEF Call
<1>2. path \in Path /\ TextArg \subseteq Seq(Byte)
  BY VfsAssumption
<1>3. CASE wnu_vfs_create_file(path) \/ wnu_vfs_create_dir(path)
  BY <1>2, <1>3, CreateKeepsGood
     DEF IInv, Call, wnu_vfs_create_file, wnu_vfs_create_dir
<1>4. CASE wnu_vfs_delete(path)
  BY <1>2, <1>4, DeleteKeepsGood DEF IInv, Call
<1>5. CASE \E text \in TextArg : wnu_vfs_write_file(path, text)
                               \/ wnu_vfs_append_file(path, text)
  BY <1>2, <1>5, WriteKeepsGood DEF IInv, Call
<1>6. CASE wnu_vfs_read_file(path)
  BY <1>2, <1>6, ReadKeepsGood DEF IInv, Call
<1>. QED
  BY <1>1, <1>3, <1>4, <1>5, <1>6

(* The table is well formed in every reachable state, whatever its size, the
   boot script and the calls.  No two nodes have a path or an inode in common,
   and every node has its parent directory: the checks of vfs.c, which compare
   strings one node at a time, do keep the table a tree. *)
LEMMA Invariance == Spec => []IInv
<1>1. Init => IInv
  BY InitGood, VfsAssumption DEF IInv, Init
<1>2. IInv /\ [Next]_vars => IInv'
  <2>. SUFFICES ASSUME IInv, [Next]_vars PROVE IInv'
    OBVIOUS
  <2>1. CASE BootStep
    BY <2>1, BootStepGood
  <2>2. CASE Call
    BY <2>2, CallGood
  <2>3. CASE UNCHANGED vars
    BY <2>3 DEF vars, IInv, Good
  <2>. QED
    BY <2>1, <2>2, <2>3 DEF Next
<1>. QED
  BY <1>1, <1>2, PTL DEF Spec

(* Every field keeps its type; a file never outgrows its buffer. *)
THEOREM TypeCorrect == Spec => []TypeOK
<1>1. IInv => TypeOK
  BY DEF IInv, Good, WellFormed, Result, TypeOK
<1>. QED
  BY <1>1, Invariance, PTL

(* The nodes form a tree below "/", with one node for each path: no delete
   orphans the content of a directory. *)
THEOREM StaysTree == Spec => []TreeShape
<1>1. IInv => TreeShape
  BY DEF IInv, Good, WellFormed, TreeShape
<1>. QED
  BY <1>1, Invariance, PTL

(* Inodes identify the live nodes. *)
THEOREM InodesStayUnique == Spec => []InodesUnique
<1>1. IInv => InodesUnique
  BY DEF IInv, Good, WellFormed, InodesUnique
<1>. QED
  BY <1>1, Invariance, PTL

-----------------------------------------------------------------------------
(* The boot. *)

(* With unique paths, having a type is having a node that has it. *)
LEMMA TypeIff ==
  ASSUME NEW ns, UniquePaths(ns), NEW path, NEW type
  PROVE  HasType(ns, path, type) <=>
           \E i \in Used(ns) : ns[i].path = path /\ ns[i].type = type
<1>1. ASSUME NEW i \in Used(ns), ns[i].path = path
      PROVE  wnu_vfs_exists(ns, path) /\ find_node(ns, path) = i
  BY <1>1, FindNode DEF UniquePaths
<1>. QED
  BY <1>1, FindNode DEF HasType

KeepsTypes(ns, ms) ==
  \A path, type : HasType(ns, path, type) => HasType(ms, path, type)

(* A created node is the only new one, and it is in the first free slot. *)
LEMMA CreatedAdds ==
  ASSUME NEW ns, NEW next, WellFormed(ns, next),
         NEW type \in {"file", "dir"}, NEW path \in Path, CanCreate(ns, path)
  PROVE  LET ms == Created(ns, next, type, path)
         IN  /\ KeepsTypes(ns, ms)
             /\ HasType(ms, path, type)
             /\ \A i \in Used(ms) : \/ i \in Used(ns) /\ ms[i] = ns[i]
                                    \/ ms[i].path = path /\ ms[i].type = type
             /\ \A n \in Nat : Used(ns) \subseteq 0 .. n /\ n + 1 \in Slot =>
                                Used(ms) \subseteq 0 .. n + 1
<1>. DEFINE new == FreeSlot(ns)
            ms  == Created(ns, next, type, path)
<1>1. new \in Slot /\ new \notin Used(ns)
  BY FreeSlotIsFree DEF CanCreate
<1>2. /\ ms[new].used /\ ms[new].type = type /\ ms[new].path = path
      /\ \A i \in Slot \ {new} : ms[i] = ns[i]
  BY <1>1 DEF Created, WellFormed
<1>3. /\ Used(ms) = Used(ns) \cup {new}
      /\ \A i \in Used(ns) : ms[i] = ns[i]
  BY <1>1, <1>2 DEF Used
<1>4. UniquePaths(ns) /\ UniquePaths(ms)
  BY CreatedKeepsTable DEF WellFormed
<1>5. ASSUME NEW n \in Nat, Used(ns) \subseteq 0 .. n, n + 1 \in Slot
      PROVE  new \in 0 .. n + 1
  <2>1. n + 1 \in Slot \ Used(ns) /\ Slot \ Used(ns) \in SUBSET Nat
    BY <1>5, UsedInSlot
  <2>2. new \in Nat /\ new <= n + 1
    BY <2>1, MinIn DEF FreeSlot
  <2>. QED
    BY <2>2
<1>. HIDE DEF ms, new
<1>6. KeepsTypes(ns, ms) /\ HasType(ms, path, type)
  BY <1>2, <1>3, <1>4, TypeIff DEF KeepsTypes
<1>7. \A n \in Nat : Used(ns) \subseteq 0 .. n /\ n + 1 \in Slot =>
                      Used(ms) \subseteq 0 .. n + 1
  BY <1>3, <1>5
<1>. QED
  BY <1>2, <1>3, <1>6, <1>7 DEF ms

(* Writing changes neither which nodes there are nor what they are. *)
LEMMA StoredAdds ==
  ASSUME NEW ns, NEW next, WellFormed(ns, next),
         NEW path \in Path, IsOpenable(ns, path),
         NEW from \in 0 .. MaxData, NEW text \in Seq(Byte)
  PROVE  LET ms == Stored(ns, path, from, text)
         IN  /\ KeepsTypes(ns, ms)
             /\ Used(ms) = Used(ns)
             /\ \A i \in Used(ms) : /\ ms[i].path = ns[i].path
                                    /\ ms[i].type = ns[i].type
<1>. DEFINE ms == Stored(ns, path, from, text)
<1>1. find_node(ns, path) \in Slot /\ ns \in [Slot -> Node]
  BY FindNode, UsedInSlot DEF IsOpenable, wnu_vfs_is_file, HasType, WellFormed
<1>2. \A i \in Slot : /\ ms[i].used = ns[i].used /\ ms[i].path = ns[i].path
                      /\ ms[i].type = ns[i].type
  BY <1>1 DEF Stored, Node
<1>3. UniquePaths(ns) /\ UniquePaths(ms)
  BY StoredKeepsTable DEF WellFormed
<1>. HIDE DEF ms
<1>4. /\ Used(ms) = Used(ns)
      /\ \A i \in Used(ms) : ms[i].path = ns[i].path /\ ms[i].type = ns[i].type
  BY <1>2 DEF Used
<1>5. KeepsTypes(ns, ms)
  BY <1>3, <1>4, TypeIff DEF KeepsTypes
<1>. QED
  BY <1>4, <1>5 DEF ms

LEMMA StepIs ==
  ASSUME NEW n \in 0 .. Len(BootScript) - 1
  PROVE  BootScript[n + 1].path \in Path /\ BootScript[n + 1].text \in Seq(Byte)
<1>1. n + 1 \in 1 .. Len(BootScript) /\ BootScript \in Seq(BootCall)
  BY VfsAssumption
<1>2. BootScript[n + 1] \in BootCall
  BY <1>1, ElementOfSeq
<1>. QED
  BY <1>2 DEF BootCall

(* One more call makes one more node or none. *)
LEMMA MakesGrows ==
  ASSUME NEW n \in 0 .. Len(BootScript) - 1
  PROVE  /\ Cardinality(Makes(n)) \in Nat
         /\ Cardinality(Makes(n + 1)) =
              IF BootScript[n + 1].call = "write" THEN Cardinality(Makes(n))
                                                  ELSE Cardinality(Makes(n)) + 1
         /\ Cardinality(Makes(n + 1)) <= Cardinality(Makes(Len(BootScript)))
         /\ Cardinality(Makes(Len(BootScript))) \in Nat
<1>1. Len(BootScript) \in Nat /\ n \in Nat /\ n + 1 \in 1 .. Len(BootScript)
  BY VfsAssumption
<1>2. ASSUME NEW m \in Nat PROVE IsFiniteSet(Makes(m))
  <2>1. IsFiniteSet(1 .. m)
    <3>1. 1 \in Int /\ m \in Int
      OBVIOUS
    <3>. QED
      BY <3>1, FS_Interval, Zenon
  <2>2. Makes(m) \subseteq 1 .. m
    BY Zenon DEF Makes
  <2>. QED
    BY <2>1, <2>2, FS_Subset, Zenon
<1>3. /\ IsFiniteSet(Makes(n)) /\ IsFiniteSet(Makes(n + 1))
      /\ IsFiniteSet(Makes(Len(BootScript)))
  BY <1>1, <1>2
<1>4. n + 1 \notin Makes(n) /\ Makes(n + 1) \subseteq Makes(Len(BootScript))
  BY <1>1 DEF Makes
<1>5. Makes(n + 1) = IF BootScript[n + 1].call = "write" THEN Makes(n)
                                                         ELSE Makes(n) \cup {n + 1}
  BY <1>1 DEF Makes
<1>6. Cardinality(Makes(n) \cup {n + 1}) = Cardinality(Makes(n)) + 1
  BY <1>3, <1>4, FS_AddElement
<1>. QED
  BY <1>3, <1>4, <1>5, <1>6, FS_CardinalityType, FS_Subset

(* The table holds what the first n calls made, in its first slots. *)
Built(ns, n) ==
  /\ Used(ns) \subseteq 0 .. Cardinality(Makes(n))
  /\ \A i \in Used(ns) :
       \/ ns[i].path = Root
       \/ \E call \in {"mkdir", "create"} : Scripted(n, call, ns[i].path)
  /\ \A path : Scripted(n, "mkdir", path) => HasType(ns, path, "dir")
  /\ \A path : Scripted(n, "create", path) => HasType(ns, path, "file")

(* What the calls before the next one and that one make. *)
LEMMA ScriptedNext ==
  ASSUME NEW n \in 0 .. Len(BootScript) - 1, NEW call, NEW path
  PROVE  Scripted(n + 1, call, path) <=>
           \/ Scripted(n, call, path)
           \/ BootScript[n + 1].call = call /\ BootScript[n + 1].path = path
<1>1. n + 1 \in 1 .. n + 1 /\ 1 .. n + 1 = (1 .. n) \cup {n + 1}
  BY VfsAssumption
<1>. QED
  BY <1>1 DEF Scripted

(* The next call of a script that works is one that succeeds. *)
LEMMA NextCanRun ==
  ASSUME ScriptWorks, NEW ns, NEW next, WellFormed(ns, next),
         NEW n \in 0 .. Len(BootScript) - 1, Built(ns, n)
  PROVE  LET step == BootScript[n + 1]
         IN  /\ step.call = "write" => IsOpenable(ns, step.path)
             /\ step.call # "write" => /\ CanCreate(ns, step.path)
                                       /\ Cardinality(Makes(n)) + 1 \in Slot
<1>. DEFINE step == BootScript[n + 1]
<1>1. n \in Nat /\ n + 1 \in DOMAIN BootScript /\ (n + 1) - 1 = n
  BY VfsAssumption
<1>2. /\ valid_path(step.path)
      /\ step.call = "write" => Scripted(n, "create", step.path)
      /\ step.call # "write" =>
           /\ step.path # Root
           /\ \A call \in {"mkdir", "create"} : ~Scripted(n, call, step.path)
           /\ \/ parent_path(step.path) = Root
              \/ Scripted(n, "mkdir", parent_path(step.path))
  BY <1>1 DEF ScriptWorks
<1>. HIDE DEF step
<1>3. step.call = "write" => IsOpenable(ns, step.path)
  BY <1>2 DEF Built, IsOpenable, wnu_vfs_is_file
<1>4. ASSUME step.call # "write"
      PROVE  CanCreate(ns, step.path) /\ Cardinality(Makes(n)) + 1 \in Slot
  <2>1. ~wnu_vfs_exists(ns, step.path)
    BY <1>2, <1>4, FindNode DEF Built
  <2>2. wnu_vfs_is_dir(ns, parent_path(step.path))
    BY <1>2, <1>4 DEF Built, WellFormed, RootThere, wnu_vfs_is_dir
  <2>3. PICK c \in Nat : c = Cardinality(Makes(n))
    BY MakesGrows
  <2>4. c + 1 \in Slot
    <3>1. PICK all \in Nat : all = Cardinality(Makes(Len(BootScript)))
      BY MakesGrows
    <3>2. c + 1 <= all /\ all < MaxNodes
      BY <1>4, <2>3, <3>1, MakesGrows DEF step, ScriptWorks
    <3>. QED
      BY <3>2, VfsAssumption DEF Slot
  <2>5. Used(ns) # Slot
    <3>1. c + 1 \notin 0 .. c
      OBVIOUS
    <3>. QED
      BY <2>3, <2>4, <3>1 DEF Built
  <2>. QED
    BY <1>2, <1>4, <2>1, <2>2, <2>3, <2>4, <2>5 DEF CanCreate
<1>. QED
  BY <1>3, <1>4 DEF step

(* What the table holds after it. *)
LEMMA CreatedIsBuilt ==
  ASSUME ScriptWorks, NEW ns, NEW next, WellFormed(ns, next),
         NEW n \in 0 .. Len(BootScript) - 1, Built(ns, n),
         NEW type \in {"file", "dir"},
         BootScript[n + 1].call = IF type = "dir" THEN "mkdir" ELSE "create"
  PROVE  Built(Created(ns, next, type, BootScript[n + 1].path), n + 1)
<1>. DEFINE path == BootScript[n + 1].path
            ms   == Created(ns, next, type, path)
<1>1. BootScript[n + 1].call # "write"
  OBVIOUS
<1>2. path \in Path
  BY StepIs
<1>3. CanCreate(ns, path) /\ Cardinality(Makes(n)) + 1 \in Slot
  BY <1>1, NextCanRun
<1>4. /\ KeepsTypes(ns, ms) /\ HasType(ms, path, type)
      /\ \A i \in Used(ms) : \/ i \in Used(ns) /\ ms[i] = ns[i]
                             \/ ms[i].path = path /\ ms[i].type = type
      /\ \A c \in Nat : Used(ns) \subseteq 0 .. c /\ c + 1 \in Slot =>
                         Used(ms) \subseteq 0 .. c + 1
  BY <1>2, <1>3, CreatedAdds
<1>5. Used(ms) \subseteq 0 .. Cardinality(Makes(n + 1))
  BY <1>1, <1>3, <1>4, MakesGrows DEF Built
<1>6. \A call, q : Scripted(n + 1, call, q) <=>
                     \/ Scripted(n, call, q)
                     \/ BootScript[n + 1].call = call /\ path = q
  BY ScriptedNext
<1>. HIDE DEF ms, path
<1>7. \A i \in Used(ms) :
        \/ ms[i].path = Root
        \/ \E call \in {"mkdir", "create"} : Scripted(n + 1, call, ms[i].path)
  BY <1>4, <1>6 DEF Built
<1>8. /\ \A q : Scripted(n + 1, "mkdir", q) => HasType(ms, q, "dir")
      /\ \A q : Scripted(n + 1, "create", q) => HasType(ms, q, "file")
  BY <1>4, <1>6 DEF Built, KeepsTypes
<1>. QED
  BY <1>5, <1>7, <1>8 DEF Built, ms, path

LEMMA StoredIsBuilt ==
  ASSUME ScriptWorks, NEW ns, NEW next, WellFormed(ns, next),
         NEW n \in 0 .. Len(BootScript) - 1, Built(ns, n),
         BootScript[n + 1].call = "write"
  PROVE  Built(Stored(ns, BootScript[n + 1].path, 0, BootScript[n + 1].text), n + 1)
<1>. DEFINE path == BootScript[n + 1].path
            text == BootScript[n + 1].text
            ms   == Stored(ns, path, 0, text)
<1>1. path \in Path /\ text \in Seq(Byte) /\ 0 \in 0 .. MaxData
  BY StepIs, VfsAssumption
<1>2. IsOpenable(ns, path)
  BY NextCanRun
<1>3. /\ KeepsTypes(ns, ms)
      /\ Used(ms) = Used(ns)
      /\ \A i \in Used(ms) : ms[i].path = ns[i].path /\ ms[i].type = ns[i].type
  BY <1>1, <1>2, StoredAdds
<1>4. Cardinality(Makes(n + 1)) = Cardinality(Makes(n))
  BY MakesGrows
<1>5. \A call \in {"mkdir", "create"} : \A q :
         Scripted(n + 1, call, q) <=> Scripted(n, call, q)
  BY ScriptedNext
<1>. HIDE DEF ms, path, text
<1>. QED
  BY <1>3, <1>4, <1>5 DEF Built, KeepsTypes, ms, path, text

(* While it boots. *)
Booting == IInv /\ (~Booted => Built(nodes, boot))

LEMMA BootStepBuilds ==
  ASSUME ScriptWorks, Booting, BootStep
  PROVE  ret'.ok /\ Built(nodes', boot')
<1>. DEFINE step == BootScript[boot + 1]
<1>1. boot \in 0 .. Len(BootScript) - 1 /\ boot' = boot + 1
      /\ WellFormed(nodes, next_inode) /\ Built(nodes, boot)
  BY VfsAssumption DEF Booting, IInv, Good, BootStep, Booted
<1>2. CASE step.call = "mkdir" /\ wnu_vfs_create_dir(step.path)
  <2>1. CanCreate(nodes, step.path)
    BY <1>1, <1>2, NextCanRun
  <2>2. nodes' = Created(nodes, next_inode, "dir", step.path) /\ Returns(TRUE, <<>>)
    BY <1>2, <2>1 DEF wnu_vfs_create_dir, Create
  <2>. QED
    BY <1>1, <1>2, <2>2, CreatedIsBuilt DEF Returns
<1>3. CASE step.call = "create" /\ wnu_vfs_create_file(step.path)
  <2>1. CanCreate(nodes, step.path)
    BY <1>1, <1>3, NextCanRun
  <2>2. nodes' = Created(nodes, next_inode, "file", step.path) /\ Returns(TRUE, <<>>)
    BY <1>3, <2>1 DEF wnu_vfs_create_file, Create
  <2>. QED
    BY <1>1, <1>3, <2>2, CreatedIsBuilt DEF Returns
<1>4. CASE step.call = "write" /\ wnu_vfs_write_file(step.path, step.text)
  <2>1. IsOpenable(nodes, step.path)
    BY <1>1, <1>4, NextCanRun
  <2>2. nodes' = Stored(nodes, step.path, 0, step.text) /\ Returns(TRUE, <<>>)
    BY <1>4, <2>1 DEF wnu_vfs_write_file
  <2>. QED
    BY <1>1, <1>4, <2>2, StoredIsBuilt DEF Returns
<1>. QED
  BY <1>2, <1>3, <1>4 DEF BootStep

LEMMA InitBuilt == Init => Built(nodes, 0)
<1>. SUFFICES ASSUME Init PROVE Built(nodes, 0)
  OBVIOUS
<1>1. Makes(0) = {} /\ \A call, path : ~Scripted(0, call, path)
  BY DEF Makes, Scripted
<1>2. Cardinality(Makes(0)) = 0
  BY <1>1, FS_EmptySet
<1>3. Used(nodes) \subseteq {0} /\ \A i \in Used(nodes) : nodes[i].path = Root
  BY DEF Init, Used
<1>. QED
  BY <1>1, <1>2, <1>3 DEF Built

(* Every call of a script that works succeeds, as wnu_vfs_init trusts it to. *)
THEOREM BootSucceeds == ASSUME ScriptWorks PROVE Spec => BootNeverFails
<1>1. Init => Booting
  BY InitGood, InitBuilt, VfsAssumption DEF Booting, IInv, Init
<1>2. Booting /\ [Next]_vars => Booting'
  <2>. SUFFICES ASSUME Booting, [Next]_vars PROVE Booting'
    OBVIOUS
  <2>1. CASE BootStep
    BY <2>1, BootStepGood, BootStepBuilds DEF Booting
  <2>2. CASE Call
    BY <2>2, CallGood DEF Booting, Call, Booted
  <2>3. CASE UNCHANGED vars
    BY <2>3 DEF vars, Booting, IInv, Good, Booted
  <2>. QED
    BY <2>1, <2>2, <2>3 DEF Next
<1>3. Booting => [BootStep => ret'.ok]_vars
  BY BootStepBuilds
<1>. QED
  BY <1>1, <1>2, <1>3, PTL DEF Spec, BootNeverFails

-----------------------------------------------------------------------------
(* What tree prints. *)

(* What a level of tree_walk adds. *)
Grown(ns, W) ==
  W \cup UNION {Listed(ns, q) : q \in {d \in W : wnu_vfs_is_dir(ns, d)}}

Walked(ns, path, w) ==
  /\ w[0] = {path}
  /\ \A k \in 0 .. MaxName - 1 : w[k + 1] = Grown(ns, w[k])

(* The levels exist, and tree prints the last of them. *)
LEMMA TreeWalkIs ==
  ASSUME NEW ns, NEW path
  PROVE  \E w : Walked(ns, path, w) /\ TreeWalk(ns, path) = w[MaxName]
<1>. DEFINE level(w, depth) == IF depth = 0 THEN {path}
                                            ELSE Grown(ns, w[depth - 1])
            Walk(w) == w = [depth \in 0 .. MaxName |-> level(w, depth)]
            all     == {path} \cup {ns[i].path : i \in Used(ns)}
            step    == [W \in SUBSET all |-> Grown(ns, W)]
<1>1. MaxName \in Nat
  BY PathsAssumption
<1>2. \E w : Walk(w)
  <2>1. step \in [SUBSET all -> SUBSET all]
    BY DEF Grown, Listed
  <2>2. {path} \in SUBSET all
    OBVIOUS
  <2>3. PICK c \in [Nat -> SUBSET all] :
          c[0] = {path} /\ \A k \in Nat : c[k + 1] = step[c[k]]
    <3>. DEFINE sets == SUBSET all
                first == {path}
    <3>1. first \in sets /\ step \in [sets -> sets]
      BY <2>1, <2>2
    <3>. HIDE DEF step, sets, first
    <3>2. \E c \in [Nat -> sets] :
            c[0] = first /\ \A k \in Nat : c[k + 1] = step[c[k]]
      BY <3>1, Iteration
    <3>. QED
      BY <3>2 DEF sets, first
  <2>. DEFINE w == [k \in 0 .. MaxName |-> c[k]]
  <2>4. ASSUME NEW k \in 0 .. MaxName PROVE w[k] = level(w, k)
    <3>1. CASE k = 0
      BY <2>3, <3>1
    <3>2. CASE k # 0
      <4>1. k - 1 \in Nat /\ k - 1 \in 0 .. MaxName /\ k = (k - 1) + 1
        BY <1>1, <3>2
      <4>2. c[k] = step[c[k - 1]] /\ c[k - 1] \in SUBSET all
        <5>. HIDE DEF step, all
        <5>. QED
          BY <2>3, <4>1
      <4>. QED
        BY <3>2, <4>1, <4>2
    <3>. QED
      BY <3>1, <3>2
  <2>5. w = [k \in 0 .. MaxName |-> level(w, k)]
    <3>1. w = [k \in 0 .. MaxName |-> w[k]]
      OBVIOUS
    <3>. HIDE DEF w
    <3>. QED
      BY <2>4, <3>1, Zenon
  <2>. QED
    BY <2>5
<1>. DEFINE walk == CHOOSE w : Walk(w)
<1>3. Walk(walk)
  <2>. HIDE DEF Walk
  <2>. QED
    BY <1>2, Zenon
<1>4. TreeWalk(ns, path) = walk[MaxName]
  BY DEF TreeWalk, Grown
<1>. HIDE DEF walk
<1>5. \A k \in 0 .. MaxName : walk[k] = level(walk, k)
  <2>. HIDE DEF level
  <2>1. \A f : f = [depth \in 0 .. MaxName |-> level(walk, depth)] =>
                 \A k \in 0 .. MaxName : f[k] = level(walk, k)
    BY Zenon
  <2>. QED
    BY <1>3, <2>1, Zenon
<1>6. walk[0] = {path}
  BY <1>1, <1>5
<1>7. ASSUME NEW k \in 0 .. MaxName - 1 PROVE walk[k + 1] = Grown(ns, walk[k])
  <2>1. k + 1 \in 0 .. MaxName /\ k + 1 # 0 /\ (k + 1) - 1 = k
    BY <1>1
  <2>. QED
    BY <1>5, <2>1
<1>. QED
  BY <1>4, <1>6, <1>7 DEF Walked

(* What is on a level stays on the levels after it. *)
LEMMA WalkGrows ==
  ASSUME NEW ns, NEW path, NEW w, Walked(ns, path, w), NEW k \in 0 .. MaxName
  PROVE  w[k] \subseteq w[MaxName]
<1>. DEFINE less == {m \in k .. MaxName : ~(w[k] \subseteq w[m])}
<1>1. MaxName \in Nat
  BY PathsAssumption
<1>2. SUFFICES ASSUME less # {} PROVE FALSE
  BY <1>1
<1>3. PICK m \in less : \A j \in less : m <= j
  <2>1. less \in SUBSET Nat
    BY <1>1
  <2>. HIDE DEF less
  <2>. QED
    BY <1>2, <2>1, MinIn
<1>4. m \in k .. MaxName /\ ~(w[k] \subseteq w[m]) /\ m # k
  OBVIOUS
<1>5. m - 1 \in k .. MaxName /\ m - 1 \in 0 .. MaxName - 1 /\ m = (m - 1) + 1
      /\ ~(m <= m - 1)
  BY <1>1, <1>4
<1>6. w[k] \subseteq w[m - 1]
  BY <1>3, <1>5
<1>7. w[m] = Grown(ns, w[m - 1])
  BY <1>5 DEF Walked
<1>. QED
  BY <1>4, <1>6, <1>7 DEF Grown

(* The parent of a plain path is plain, one component shorter, and lists it. *)
LEMMA PlainParent ==
  ASSUME NEW q \in Path, q # Root, Plain(q)
  PROVE  /\ Plain(parent_path(q))
         /\ is_direct_child(parent_path(q), q)
         /\ IF Len(q) = 1 THEN parent_path(q) = Root
                          ELSE /\ Len(parent_path(q)) = Len(q) - 1
                               /\ parent_path(q) # Root
<1>1. q \in Seq(Component) /\ Len(q) \in Nat /\ Len(q) # 0
  BY EmptySeq DEF Path
<1>2. \A k \in 1 .. Len(q) : q[k] # Empty
  BY DEF Plain
<1>3. Last(q) # Empty /\ Head(q) # Empty
  <2>1. Len(q) \in 1 .. Len(q) /\ 1 \in 1 .. Len(q)
    BY <1>1
  <2>. QED
    BY <1>1, <1>2, <2>1 DEF Last
<1>4. is_direct_child(parent_path(q), q)
  BY <1>3, ParentLists
<1>5. CASE Len(q) = 1
  BY <1>4, <1>5, ParentOfTopLevel DEF Plain
<1>6. CASE Len(q) # 1
  <2>. DEFINE p == SubSeq(q, 1, Len(q) - 1)
  <2>1. parent_path(q) = p
    BY <1>6 DEF parent_path, Front
  <2>2. Len(q) - 1 \in Nat /\ 1 \in 1 .. Len(q) - 1
    <3>1. \A n \in Nat : n # 0 /\ n # 1 => n - 1 \in Nat /\ 1 \in 1 .. n - 1
      OBVIOUS
    <3>. QED
      BY <1>1, <1>6, <3>1, Zenon
  <2>3. Len(p) = Len(q) - 1 /\ \A k \in 1 .. Len(q) - 1 : p[k] = q[k]
    BY <1>1, <2>2
  <2>4. \A k \in 1 .. Len(q) - 1 : p[k] # Empty
    BY <1>1, <1>2, <2>3
  <2>5. Plain(p)
    BY <2>3, <2>4 DEF Plain
  <2>6. p[1] # Root[1]
    BY <2>2, <2>4 DEF Root
  <2>. QED
    BY <1>4, <1>6, <2>1, <2>3, <2>5, <2>6, Zenon
<1>. QED
  BY <1>5, <1>6

(* A plain path of n components is on level n: its parent is on level n - 1, is
   a directory and lists it.  A shortest path that were not would have a parent
   that is not. *)
LEMMA PlainAreShown ==
  ASSUME NEW ns, NEW next, WellFormed(ns, next), NEW i \in Used(ns),
         Plain(ns[i].path)
  PROVE  ns[i].path \in TreeWalk(ns, Root)
<1>1. PICK w : Walked(ns, Root, w) /\ TreeWalk(ns, Root) = w[MaxName]
  BY TreeWalkIs
<1>2. \A j \in Used(ns) : /\ ns[j].path \in Path
                          /\ Len(ns[j].path) \in Nat
                          /\ Len(ns[j].path) < MaxName
  <2>. TAKE j \in Used(ns)
  <2>1. PICK q : q = ns[j].path
    OBVIOUS
  <2>2. q \in Path /\ q \in Seq(Component) /\ string_len(q) < MaxName
    BY <2>1, UsedInSlot DEF WellFormed, Named, valid_path, Node, Path
  <2>3. Len(q) \in Nat /\ Len(q) <= string_len(q) /\ string_len(q) \in Nat
    BY <2>2, SlashesCount, CharsFinite
  <2>. QED
    BY <2>1, <2>2, <2>3, PathsAssumption
<1>. DEFINE depth(q) == IF q = Root THEN 0 ELSE Len(q)
            hidden  == {j \in Used(ns) : /\ Plain(ns[j].path)
                                         /\ ns[j].path \notin w[depth(ns[j].path)]}
            lengths == {Len(ns[j].path) : j \in hidden}
<1>3. hidden = {}
  <2>1. SUFFICES ASSUME hidden # {} PROVE FALSE
    OBVIOUS
  <2>2. PICK j \in hidden : \A k \in hidden : Len(ns[j].path) <= Len(ns[k].path)
    <3>1. lengths \in SUBSET Nat /\ lengths # {}
      BY <1>2, <2>1
    <3>2. PICK n \in lengths : \A m \in lengths : n <= m
      <4>. HIDE DEF lengths
      <4>. QED
        BY <3>1, MinIn
    <3>. QED
      BY <3>2
  <2>3. PICK q : q = ns[j].path
    OBVIOUS
  <2>4. j \in Used(ns) /\ q \in Path /\ Plain(q) /\ q \notin w[depth(q)]
        /\ Len(q) \in Nat /\ Len(q) < MaxName
    BY <1>2, <2>3
  <2>5. q # Root
    BY <1>1, <2>4 DEF Walked
  <2>6. PICK p : p = parent_path(q)
    OBVIOUS
  <2>7. wnu_vfs_is_dir(ns, p)
    BY <2>3, <2>4, <2>6 DEF WellFormed, NoOrphans
  <2>8. PICK k \in Used(ns) : ns[k].path = p
    BY <2>7, DirIff DEF WellFormed
  <2>9. Plain(p) /\ is_direct_child(p, q) /\ depth(p) = Len(q) - 1
        /\ Len(q) # 0
    <3>1. Len(q) # 0
      BY <2>4, EmptySeq DEF Path
    <3>. QED
      BY <2>4, <2>5, <2>6, <3>1, PlainParent
  <2>10. p \in w[depth(p)]
    <3>1. SUFFICES ASSUME k \in hidden PROVE FALSE
      BY <2>8, <2>9
    <3>2. Len(q) <= Len(p)
      BY <2>2, <2>3, <2>8, <3>1
    <3>3. p = Root
      BY <2>4, <2>9, <3>2
    <3>. QED
      BY <1>1, <2>8, <3>1, <3>3 DEF Walked
  <2>11. Len(q) - 1 \in 0 .. MaxName - 1 /\ Len(q) = (Len(q) - 1) + 1
    BY <2>4, <2>9, PathsAssumption
  <2>12. w[Len(q)] = Grown(ns, w[Len(q) - 1])
    BY <1>1, <2>11 DEF Walked
  <2>13. q \in Listed(ns, p)
    BY <2>3, <2>4, <2>9 DEF Listed
  <2>14. q \in w[Len(q)]
    BY <2>7, <2>9, <2>10, <2>12, <2>13 DEF Grown
  <2>. QED
    BY <2>4, <2>5, <2>14
<1>4. depth(ns[i].path) \in 0 .. MaxName
  BY <1>2, PathsAssumption
<1>5. ns[i].path \in w[depth(ns[i].path)]
  BY <1>3
<1>. HIDE DEF depth
<1>. QED
  BY <1>1, <1>4, <1>5, WalkGrows

(* tree / shows every node with a plain path, wherever it is in the table and
   whatever was created and deleted before. *)
THEOREM TreeShowsAll == Spec => []TreeShowsPlainPaths
<1>1. IInv => TreeShowsPlainPaths
  BY PlainAreShown DEF IInv, Good, TreeShowsPlainPaths
<1>. QED
  BY <1>1, Invariance, PTL

-----------------------------------------------------------------------------
(* The refinement of FileTree. *)

(* The tree of a table, as the mapping of Vfs has it. *)
Files(ns) == [p \in {ns[i].path : i \in Used(ns)} |-> Entry(ns, p)]

EntryOf(node) == [type |-> node.type, content |-> Content(node)]

(* The instance has the operators of Paths and of the standard modules that
   Vfs has. *)
LEMMA SameOperators ==
  /\ \A p : Tree!valid_path(p) <=> valid_path(p)
  /\ \A p : Tree!parent_path(p) = parent_path(p)
  /\ \A S : Tree!Cardinality(S) = Cardinality(S)
  /\ \A S : Tree!Min(S) = Min(S)
  /\ Tree!Root = Root
<1>1. \A S : Tree!Cardinality(S) = Cardinality(S)
  BY DEF Tree!Cardinality, Cardinality
<1>2. \A p : Tree!string_len(p) = string_len(p)
  BY <1>1 DEF Tree!string_len, string_len, Tree!Chars, Chars
<1>3. \A S : Tree!Min(S) = Min(S)
  BY DEF Tree!Min, Min
<1>4. \A p : Tree!parent_path(p) = parent_path(p)
  BY DEF Tree!parent_path, parent_path, Tree!Front, Front, Tree!Root, Root
<1>5. \A p : Tree!valid_path(p) <=> valid_path(p)
  BY <1>2 DEF Tree!valid_path, valid_path
<1>. QED
  BY <1>1, <1>3, <1>4, <1>5 DEF Tree!Root, Root

(* The tree has what the used nodes have, under their paths. *)
LEMMA FilesOf ==
  ASSUME NEW ns, UniquePaths(ns)
  PROVE  /\ \A i \in Used(ns) : /\ ns[i].path \in DOMAIN Files(ns)
                                /\ Files(ns)[ns[i].path] = EntryOf(ns[i])
         /\ \A p \in DOMAIN Files(ns) : \E i \in Used(ns) : ns[i].path = p
         /\ \A p : p \in DOMAIN Files(ns) <=> wnu_vfs_exists(ns, p)
         /\ \A p \in DOMAIN Files(ns) : \A type :
              Files(ns)[p].type = type <=> HasType(ns, p, type)
         /\ \A p \in DOMAIN Files(ns) :
              Files(ns)[p].content = Content(ns[find_node(ns, p)])
<1>1. ASSUME NEW i \in Used(ns)
      PROVE  wnu_vfs_exists(ns, ns[i].path) /\ find_node(ns, ns[i].path) = i
  BY FindNode DEF UniquePaths
<1>2. \A i \in Used(ns) : /\ ns[i].path \in DOMAIN Files(ns)
                          /\ Files(ns)[ns[i].path] = EntryOf(ns[i])
  BY <1>1 DEF Files, Entry, EntryOf
<1>3. \A p \in DOMAIN Files(ns) : \E i \in Used(ns) : ns[i].path = p
  BY DEF Files
<1>4. \A p : p \in DOMAIN Files(ns) <=> wnu_vfs_exists(ns, p)
  BY <1>1, <1>2, <1>3, FindNode
<1>5. ASSUME NEW p \in DOMAIN Files(ns)
      PROVE  /\ wnu_vfs_exists(ns, p)
             /\ Files(ns)[p].type = ns[find_node(ns, p)].type
             /\ Files(ns)[p].content = Content(ns[find_node(ns, p)])
  BY <1>4 DEF Files, Entry
<1>. QED
  BY <1>2, <1>3, <1>4, <1>5 DEF HasType

(* The tree has as many entries as the table has used nodes. *)
LEMMA FilesCount ==
  ASSUME NEW ns, UniquePaths(ns)
  PROVE  /\ Used(ns) # Slot => Cardinality(DOMAIN Files(ns)) < MaxNodes
         /\ Used(ns) = Slot => Cardinality(DOMAIN Files(ns)) = MaxNodes
<1>. DEFINE paths == DOMAIN Files(ns)
            f == [i \in Used(ns) |-> ns[i].path]
<1>1. IsFiniteSet(Slot) /\ Cardinality(Slot) = MaxNodes /\ MaxNodes \in Nat
  <2>1. MaxNodes \in Nat \ {0}
    BY VfsAssumption
  <2>2. 0 \in Int /\ MaxNodes - 1 \in Int /\ ~(0 > MaxNodes - 1)
        /\ (MaxNodes - 1) - 0 + 1 = MaxNodes
    BY <2>1
  <2>. QED
    BY <2>1, <2>2, FS_Interval, Zenon DEF Slot
<1>2. Used(ns) \in SUBSET Slot
  BY DEF Used
<1>3. /\ IsFiniteSet(Used(ns)) /\ Cardinality(Used(ns)) \in Nat
      /\ Cardinality(Used(ns)) <= MaxNodes
      /\ Cardinality(Used(ns)) = MaxNodes => Used(ns) = Slot
  BY <1>1, <1>2, FS_Subset, FS_CardinalityType
<1>4. f \in Bijection(Used(ns), paths)
  <2>1. f \in [Used(ns) -> paths]
    BY FilesOf
  <2>2. \A i, j \in Used(ns) : f[i] = f[j] => i = j
    BY DEF UniquePaths
  <2>3. \A p \in paths : \E i \in Used(ns) : f[i] = p
    BY FilesOf
  <2>. HIDE DEF f, paths
  <2>. QED
    BY <2>1, <2>2, <2>3 DEF Bijection, Injection, Surjection, IsInjective
<1>5. Cardinality(paths) = Cardinality(Used(ns))
  BY <1>3, <1>4, FS_Bijection, Zenon DEF ExistsBijection
<1>6. \A m, n \in Nat : m <= n /\ m # n => m < n
  OBVIOUS
<1>. QED
  BY <1>1, <1>3, <1>5, <1>6

WithEntry(fs, type, path) ==
  [q \in DOMAIN fs \cup {path} |->
     IF q = path THEN [type |-> type, content |-> <<>>] ELSE fs[q]]

(* A new entry is empty. *)
LEMMA FilesCreated ==
  ASSUME NEW ns, NEW next, WellFormed(ns, next),
         NEW type \in {"file", "dir"}, NEW path \in Path, CanCreate(ns, path)
  PROVE  Files(Created(ns, next, type, path)) = WithEntry(Files(ns), type, path)
<1>. DEFINE new == FreeSlot(ns)
            ms  == Created(ns, next, type, path)
            fs  == Files(ns)
<1>1. new \in Slot /\ new \notin Used(ns)
  BY FreeSlotIsFree DEF CanCreate
<1>2. ns \in [Slot -> Node] /\ UniquePaths(ns) /\ UniquePaths(ms)
  BY CreatedKeepsTable DEF WellFormed
<1>3. /\ ms[new].used /\ ms[new].type = type /\ ms[new].path = path
      /\ ms[new].size = 0
      /\ \A i \in Slot \ {new} : ms[i] = ns[i]
  BY <1>1, <1>2 DEF Created
<1>4. Used(ms) = Used(ns) \cup {new} /\ \A i \in Used(ns) : ms[i] = ns[i]
  BY <1>1, <1>3 DEF Used
<1>5. path \notin DOMAIN fs
  BY <1>2, FilesOf DEF CanCreate
<1>6. EntryOf(ms[new]) = [type |-> type, content |-> <<>>]
  <2>1. Content(ms[new]) = <<>>
    BY <1>3 DEF Content
  <2>. QED
    BY <1>3, <2>1 DEF EntryOf
<1>8. DOMAIN Files(ms) = DOMAIN fs \cup {path}
  BY <1>3, <1>4 DEF Files
<1>9. ASSUME NEW q \in DOMAIN Files(ms)
      PROVE  Files(ms)[q] = IF q = path THEN [type |-> type, content |-> <<>>]
                            ELSE fs[q]
  <2>1. PICK i \in Used(ms) : ms[i].path = q
    BY <1>2, FilesOf
  <2>2. Files(ms)[q] = EntryOf(ms[i])
    BY <1>2, <2>1, FilesOf
  <2>3. CASE i = new
    BY <1>3, <1>5, <1>6, <2>1, <2>2, <2>3
  <2>4. CASE i \in Used(ns)
    <3>1. q \in DOMAIN fs /\ fs[q] = EntryOf(ns[i]) /\ ms[i] = ns[i]
      BY <1>2, <1>4, <2>1, <2>4, FilesOf
    <3>. QED
      BY <1>5, <2>2, <3>1
  <2>. QED
    BY <1>4, <2>1, <2>3, <2>4
<1>. HIDE DEF ms, fs
<1>10. Files(ms) = [q \in DOMAIN Files(ms) |-> Files(ms)[q]]
  BY DEF Files
<1>11. Files(ms) = [q \in DOMAIN fs \cup {path} |->
                      IF q = path THEN [type |-> type, content |-> <<>>] ELSE fs[q]]
  <2>. DEFINE gs == [q \in DOMAIN fs \cup {path} |->
                      IF q = path THEN [type |-> type, content |-> <<>>] ELSE fs[q]]
  <2>1. DOMAIN gs = DOMAIN Files(ms) /\ \A q \in DOMAIN gs : gs[q] = Files(ms)[q]
    BY <1>8, <1>9
  <2>2. gs = [q \in DOMAIN gs |-> gs[q]]
    OBVIOUS
  <2>. HIDE DEF gs
  <2>3. Files(ms) = gs
    BY <1>10, <2>1, <2>2, Zenon
  <2>. QED
    BY <2>3 DEF gs
<1>. QED
  BY <1>11 DEF ms, fs, WithEntry

(* What is deleted goes away and nothing else. *)
LEMMA FilesDeleted ==
  ASSUME NEW ns, NEW next, WellFormed(ns, next),
         NEW path \in Path, CanDelete(ns, path)
  PROVE  Files(Deleted(ns, path)) =
           [q \in DOMAIN Files(ns) \ {path} |-> Files(ns)[q]]
<1>. DEFINE gone == find_node(ns, path)
            ms   == Deleted(ns, path)
<1>1. gone \in Used(ns) /\ gone \in Slot /\ ns[gone].path = path
  BY FindNode, UsedInSlot DEF CanDelete
<1>2. ns \in [Slot -> Node] /\ UniquePaths(ns) /\ UniquePaths(ms)
  BY DeletedKeepsTable DEF WellFormed
<1>3. ~ms[gone].used /\ \A i \in Slot \ {gone} : ms[i] = ns[i]
  BY <1>1, <1>2 DEF Deleted, Node
<1>4. Used(ms) = Used(ns) \ {gone} /\ \A i \in Used(ms) : ms[i] = ns[i]
  BY <1>1, <1>3 DEF Used
<1>5. DOMAIN Files(ms) = DOMAIN Files(ns) \ {path}
  BY <1>1, <1>2, <1>4 DEF Files, UniquePaths
<1>6. ASSUME NEW q \in DOMAIN Files(ms)
      PROVE  Files(ms)[q] = Files(ns)[q]
  <2>1. PICK i \in Used(ms) : ms[i].path = q
    BY <1>2, FilesOf
  <2>. QED
    BY <1>2, <1>4, <2>1, FilesOf
<1>. HIDE DEF ms
<1>7. Files(ms) = [q \in DOMAIN Files(ms) |-> Files(ms)[q]]
  BY DEF Files
<1>8. Files(ms) = [q \in DOMAIN Files(ns) \ {path} |-> Files(ns)[q]]
  BY <1>5, <1>6, <1>7, Zenon
<1>. QED
  BY <1>8 DEF ms

(* The loop of delete that looks for the content of a directory finds
   something exactly when a node has the directory as its parent. *)
LEMMA DeletableIffChildless ==
  ASSUME NEW ns, NEW next, WellFormed(ns, next), NEW path \in Path
  PROVE  CanDelete(ns, path) <=>
           /\ valid_path(path) /\ path \in DOMAIN Files(ns) /\ path # Root
           /\ \A q \in DOMAIN Files(ns) \ {path} : parent_path(q) # path
<1>. DEFINE node == find_node(ns, path)
<1>1. UniquePaths(ns) /\ \A i \in Used(ns) : ns[i].path \in Path
  BY UsedInSlot DEF WellFormed, Named, Node, Path
<1>2. path \in DOMAIN Files(ns) <=> wnu_vfs_exists(ns, path)
  BY <1>1, FilesOf
<1>. SUFFICES ASSUME wnu_vfs_exists(ns, path), path # Root
              PROVE  (wnu_vfs_is_dir(ns, path) =>
                        \A i \in Used(ns) \ {node} : ~IsBelow(path, ns[i].path))
                     <=> \A q \in DOMAIN Files(ns) \ {path} : parent_path(q) # path
  BY <1>2 DEF CanDelete
<1>3. node \in Used(ns) /\ ns[node].path = path
  BY FindNode
<1>4. ASSUME NEW q \in DOMAIN Files(ns) \ {path}, parent_path(q) = path
      PROVE  /\ wnu_vfs_is_dir(ns, path)
             /\ \E i \in Used(ns) \ {node} : IsBelow(path, ns[i].path)
  <2>1. PICK i \in Used(ns) : ns[i].path = q
    BY <1>1, FilesOf
  <2>2. wnu_vfs_is_dir(ns, path)
    BY <1>4, <2>1 DEF WellFormed, NoOrphans
  <2>3. q \in Path /\ Len(q) # 1
    BY <1>1, <1>4, <2>1, ParentOfTopLevel
  <2>4. IsBelow(path, q)
    BY <1>4, <2>3, ParentOfPath
  <2>. QED
    BY <1>3, <2>1, <2>2, <2>4
<1>5. ASSUME NEW i \in Used(ns) \ {node}, IsBelow(path, ns[i].path)
      PROVE  \E q \in DOMAIN Files(ns) \ {path} : parent_path(q) = path
  <2>1. PICK j \in Used(ns) : /\ parent_path(ns[j].path) = path
                              /\ IsBelow(path, ns[j].path)
    BY <1>5, BelowHasChild
  <2>2. ns[j].path # path
    BY <2>1 DEF IsBelow, IsStrictPrefix
  <2>. QED
    BY <1>1, <2>1, <2>2, FilesOf
<1>. QED
  BY <1>4, <1>5

Kept(text, n) == SubSeq(text, 1, Min({n, Len(text)}))

(* Copying into the buffer extends what stands before the position with as
   much of the text as fits. *)
LEMMA ExtendedContent ==
  ASSUME NEW data \in [1 .. MaxData -> Byte], NEW from \in 0 .. MaxData,
         NEW text \in Seq(Byte), NEW count \in 0 .. Len(text),
         from + count <= MaxData
  PROVE  [k \in 1 .. from + count |->
            IF k \in from + 1 .. from + count THEN text[k - from] ELSE data[k]]
         = [k \in 1 .. from |-> data[k]] \o SubSeq(text, 1, count)
<1>1. from \in Nat /\ count \in Nat /\ Len(text) \in Nat /\ count <= Len(text)
  BY VfsAssumption
<1>. DEFINE old == [k \in 1 .. from |-> data[k]]
            kept == SubSeq(text, 1, count)
            all == [k \in 1 .. from + count |->
                      IF k \in from + 1 .. from + count THEN text[k - from]
                                                        ELSE data[k]]
<1>2. old \in Seq(Byte) /\ Len(old) = from
  BY <1>1, VfsAssumption
<1>3. kept \in Seq(Byte) /\ Len(kept) = count
      /\ \A k \in 1 .. count : kept[k] = text[k]
  BY <1>1
<1>4. all \in Seq(Byte) /\ Len(all) = from + count
  <2>1. ASSUME NEW k \in 1 .. from + count PROVE all[k] \in Byte
    <3>1. CASE k \in from + 1 .. from + count
      <4>1. k - from \in 1 .. Len(text)
        BY <1>1, <3>1
      <4>. QED
        BY <3>1, <4>1, ElementOfSeq
    <3>2. CASE k \notin from + 1 .. from + count
      BY <1>1, <3>2, VfsAssumption
    <3>. QED
      BY <3>1, <3>2
  <2>. QED
    BY <1>1, <2>1
<1>5. ASSUME NEW k \in 1 .. from + count
      PROVE  all[k] = (old \o kept)[k]
  BY <1>1, <1>2, <1>3
<1>6. old \o kept \in Seq(Byte) /\ Len(old \o kept) = from + count
  BY <1>1, <1>2, <1>3
<1>. HIDE DEF old, kept, all
<1>7. all = old \o kept
  BY <1>4, <1>5, <1>6, SeqEqual
<1>. QED
  BY <1>7 DEF old, kept, all

WithContent(fs, path, content) == [fs EXCEPT ![path].content = content]

(* A write or an append changes the content of the file and nothing else. *)
LEMMA FilesStored ==
  ASSUME NEW ns, NEW next, WellFormed(ns, next),
         NEW path \in Path, IsOpenable(ns, path),
         NEW text \in Seq(Byte), NEW from \in 0 .. MaxData,
         NEW content,
         LET old == Content(ns[find_node(ns, path)])
         IN  \/ from = 0 /\ content = Kept(text, MaxData)
             \/ /\ from = ns[find_node(ns, path)].size
                /\ content = old \o Kept(text, MaxData - Len(old))
  PROVE  Files(Stored(ns, path, from, text)) = WithContent(Files(ns), path, content)
<1>. DEFINE file  == find_node(ns, path)
            ms    == Stored(ns, path, from, text)
            count == Min({Len(text), MaxData - from})
            data  == [k \in 1 .. MaxData |->
                        IF k \in from + 1 .. from + count THEN text[k - from]
                                                          ELSE ns[file].data[k]]
            fs    == Files(ns)
<1>1. file \in Used(ns) /\ file \in Slot /\ ns[file].path = path
  BY FindNode, UsedInSlot DEF IsOpenable, wnu_vfs_is_file, HasType
<1>2. ns \in [Slot -> Node] /\ UniquePaths(ns) /\ UniquePaths(ms)
  BY StoredKeepsTable DEF WellFormed
<1>3. count \in 0 .. Len(text) /\ from + count <= MaxData
  <2>1. {Len(text), MaxData - from} \in SUBSET Nat
    BY VfsAssumption
  <2>2. count \in Nat /\ count <= Len(text) /\ count <= MaxData - from
    BY <2>1, MinIn
  <2>. QED
    BY <2>2, VfsAssumption
<1>4. ms = [ns EXCEPT ![file].data = data, ![file].size = from + count]
  BY DEF Stored
<1>5. Content(ms[file]) = content
  <2>. DEFINE old == [k \in 1 .. from |-> ns[file].data[k]]
  <2>1. ns[file] \in Node /\ ns[file].data \in [1 .. MaxData -> Byte]
    BY <1>1, <1>2 DEF Node
  <2>2. ms[file].data = data /\ ms[file].size = from + count
    <3>. HIDE DEF data, ms, count, file
    <3>. QED
      BY <1>1, <1>2, <1>4, <2>1 DEF Node
  <2>3. \A k \in 1 .. from + count : k \in 1 .. MaxData
    BY <1>3, VfsAssumption
  <2>4. Content(ms[file]) = [k \in 1 .. from + count |->
          IF k \in from + 1 .. from + count THEN text[k - from]
                                            ELSE ns[file].data[k]]
    <3>1. Content(ms[file]) = [k \in 1 .. from + count |-> data[k]]
      BY <2>2 DEF Content
    <3>2. ASSUME NEW k \in 1 .. from + count
          PROVE  data[k] = IF k \in from + 1 .. from + count THEN text[k - from]
                                                ELSE ns[file].data[k]
      BY <2>3
    <3>. HIDE DEF data, ms, count, file
    <3>. QED
      BY <3>1, <3>2
  <2>5. Content(ms[file]) = old \o SubSeq(text, 1, count)
    <3>. HIDE DEF ms, count, file
    <3>. QED
      BY <1>3, <2>1, <2>4, ExtendedContent
  <2>6. CASE from = 0 /\ content = Kept(text, MaxData)
    <3>1. old = <<>>
      BY <2>6
    <3>2. count = Min({MaxData, Len(text)})
      <4>1. MaxData - from = MaxData /\ {Len(text), MaxData} = {MaxData, Len(text)}
        BY <2>6, VfsAssumption
      <4>. QED
        BY <4>1
    <3>. HIDE DEF old, ms, count, file
    <3>3. SubSeq(text, 1, count) \in Seq(Byte)
      BY <1>3
    <3>4. <<>> \o SubSeq(text, 1, count) = SubSeq(text, 1, count)
      BY <3>3, ConcatEmptySeq
    <3>. QED
      BY <2>5, <2>6, <3>1, <3>2, <3>4 DEF Kept
  <2>7. CASE /\ from = ns[file].size
             /\ content = Content(ns[file])
                   \o Kept(text, MaxData - Len(Content(ns[file])))
    <3>1. old = Content(ns[file]) /\ Len(old) = from
      BY <2>7, VfsAssumption DEF Content
    <3>2. count = Min({MaxData - Len(old), Len(text)})
      <4>1. {Len(text), MaxData - from} = {MaxData - from, Len(text)}
        OBVIOUS
      <4>. QED
        BY <3>1, <4>1
    <3>. QED
      BY <2>5, <2>7, <3>1, <3>2 DEF Kept
  <2>. QED
    BY <2>6, <2>7
<1>6. \A i \in Slot : /\ ms[i].used = ns[i].used /\ ms[i].path = ns[i].path
                      /\ ms[i].type = ns[i].type
                      /\ i # file => ms[i] = ns[i]
  <2>. HIDE DEF data, ms, count, file
  <2>. QED
    BY <1>1, <1>2, <1>4 DEF Node
<1>7. Used(ms) = Used(ns)
  BY <1>6 DEF Used
<1>8. DOMAIN Files(ms) = DOMAIN fs /\ path \in DOMAIN fs
  BY <1>1, <1>6, <1>7, UsedInSlot DEF Files
<1>9. ASSUME NEW q \in DOMAIN fs
      PROVE  Files(ms)[q] = IF q = path
                              THEN [type |-> fs[q].type, content |-> content]
                              ELSE fs[q]
  <2>1. PICK i \in Used(ns) : ns[i].path = q /\ i \in Slot
    BY <1>2, FilesOf, UsedInSlot
  <2>2. Files(ms)[q] = EntryOf(ms[i]) /\ fs[q] = EntryOf(ns[i])
    BY <1>2, <1>6, <1>7, <2>1, FilesOf
  <2>3. i = file <=> q = path
    BY <1>1, <1>2, <2>1 DEF UniquePaths
  <2>. HIDE DEF ms, file
  <2>. QED
    BY <1>5, <1>6, <2>1, <2>2, <2>3 DEF EntryOf
<1>10. \A q \in DOMAIN fs : fs[q] = [type |-> fs[q].type, content |-> fs[q].content]
  BY DEF Files, Entry
<1>. HIDE DEF ms, fs
<1>11. Files(ms) = [q \in DOMAIN Files(ms) |-> Files(ms)[q]]
       /\ fs = [q \in DOMAIN fs |-> fs[q]]
  BY DEF Files, fs
<1>12. [fs EXCEPT ![path].content = content]
         = [q \in DOMAIN fs |-> IF q = path
              THEN [type |-> fs[q].type, content |-> content] ELSE fs[q]]
  BY <1>8, <1>10, <1>11
<1>13. Files(ms) = [fs EXCEPT ![path].content = content]
  <2>. DEFINE gs == [q \in DOMAIN fs |-> IF q = path
              THEN [type |-> fs[q].type, content |-> content] ELSE fs[q]]
  <2>1. DOMAIN gs = DOMAIN fs
    OBVIOUS
  <2>2. \A q \in DOMAIN fs : gs[q] = Files(ms)[q]
    BY <1>9, Zenon
  <2>3. gs = [q \in DOMAIN fs |-> gs[q]]
    OBVIOUS
  <2>. HIDE DEF gs
  <2>4. Files(ms) = gs
    BY <1>8, <1>11, <2>1, <2>2, <2>3, Zenon
  <2>. QED
    BY <1>12, <2>4 DEF gs
<1>. QED
  BY <1>13 DEF ms, fs, WithContent

(* The guards of FileTree, said of the table. *)
LEMMA TreeGuards ==
  ASSUME Good, NEW path \in Path
  PROVE  /\ CanCreate(nodes, path) <=>
              /\ Tree!valid_path(path)
              /\ path \notin DOMAIN Files(nodes)
              /\ Tree!IsDir(Tree!parent_path(path))
              /\ Tree!Cardinality(DOMAIN Files(nodes)) < MaxNodes
         /\ Tree!Cardinality(DOMAIN Files(nodes)) < MaxNodes <=>
              Tree!Cardinality(DOMAIN Files(nodes)) # MaxNodes
         /\ CanDelete(nodes, path) <=>
              /\ Tree!valid_path(path)
              /\ path \in DOMAIN Files(nodes)
              /\ path # Tree!Root
              /\ ~Tree!HasChild(path)
         /\ IsOpenable(nodes, path) <=> Tree!valid_path(path) /\ Tree!IsFile(path)
<1>1. WellFormed(nodes, next_inode) /\ UniquePaths(nodes) /\ RootThere(nodes)
  BY DEF Good, WellFormed
<1>2. \A p : p \in DOMAIN Files(nodes) <=> wnu_vfs_exists(nodes, p)
  BY <1>1, FilesOf
<1>3. \A p : /\ Tree!IsDir(p) <=> wnu_vfs_is_dir(nodes, p)
             /\ Tree!IsFile(p) <=> wnu_vfs_is_file(nodes, p)
  <2>1. \A p : /\ Tree!IsDir(p) <=> /\ p \in DOMAIN Files(nodes)
                                    /\ Files(nodes)[p].type = "dir"
               /\ Tree!IsFile(p) <=> /\ p \in DOMAIN Files(nodes)
                                     /\ Files(nodes)[p].type = "file"
    BY DEF Tree!IsDir, Tree!IsFile, Files
  <2>2. \A p \in DOMAIN Files(nodes) : \A type :
          Files(nodes)[p].type = type <=> HasType(nodes, p, type)
    BY <1>1, FilesOf
  <2>3. \A p, type : HasType(nodes, p, type) => p \in DOMAIN Files(nodes)
    BY <1>2 DEF HasType
  <2>. QED
    BY <2>1, <2>2, <2>3, Zenon DEF wnu_vfs_is_dir, wnu_vfs_is_file
<1>4. /\ Tree!Cardinality(DOMAIN Files(nodes)) < MaxNodes <=> Used(nodes) # Slot
      /\ Tree!Cardinality(DOMAIN Files(nodes)) < MaxNodes <=>
           Tree!Cardinality(DOMAIN Files(nodes)) # MaxNodes
  <2>1. ~(MaxNodes < MaxNodes)
    BY VfsAssumption
  <2>. QED
    BY <1>1, <2>1, FilesCount, SameOperators, Zenon
<1>5. Tree!HasChild(path) <=>
        ~(\A q \in DOMAIN Files(nodes) \ {path} : parent_path(q) # path)
  BY SameOperators DEF Tree!HasChild, Files
<1>6. wnu_vfs_exists(nodes, Root)
  BY <1>1 DEF RootThere, wnu_vfs_is_dir, HasType
<1>7. CanDelete(nodes, path) <=>
           /\ valid_path(path) /\ path \in DOMAIN Files(nodes) /\ path # Root
           /\ \A q \in DOMAIN Files(nodes) \ {path} : parent_path(q) # path
  BY <1>1, DeletableIffChildless
<1>8. CanCreate(nodes, path) <=>
              /\ valid_path(path)
              /\ path \notin DOMAIN Files(nodes)
              /\ wnu_vfs_is_dir(nodes, parent_path(path))
              /\ Used(nodes) # Slot
  BY <1>2, <1>6 DEF CanCreate
<1>. QED
  BY <1>3, <1>4, <1>5, <1>7, <1>8, SameOperators, Zenon DEF IsOpenable

(* Each call does what FileTree says: Vfs's table, seen as a tree, changes as
   FileTree's tree and the result is the same. *)
LEMMA RefusesAsTree ==
  ASSUME Refuses
  PROVE  Tree!Refuses
  BY DEF Refuses, Returns, Tree!Refuses, Tree!Returns

LEMMA CreateAsTree ==
  ASSUME Good, NEW type \in {"file", "dir"}, NEW path \in Path,
         Create(type, path)
  PROVE  Tree!Create(type, path)
<1>1. CASE CanCreate(nodes, path) /\ Returns(TRUE, <<>>)
           /\ nodes' = Created(nodes, next_inode, type, path)
  <2>1. Files(nodes)' = WithEntry(Files(nodes), type, path)
    BY <1>1, FilesCreated DEF Good
  <2>2. /\ Tree!valid_path(path)
        /\ path \notin DOMAIN Files(nodes)
        /\ Tree!IsDir(Tree!parent_path(path))
        /\ Tree!Cardinality(DOMAIN Files(nodes)) < MaxNodes
    BY <1>1, TreeGuards
  <2>. QED
    BY <1>1, <2>1, <2>2, Zenon
       DEF Tree!Create, Tree!Blank, Tree!Returns, Returns, Files, WithEntry
<1>2. CASE ~CanCreate(nodes, path) /\ Refuses
  BY <1>2, TreeGuards, RefusesAsTree DEF Tree!Create, Files
<1>. QED
  BY <1>1, <1>2 DEF Create

LEMMA DeleteAsTree ==
  ASSUME Good, NEW path \in Path, wnu_vfs_delete(path)
  PROVE  Tree!Delete(path)
<1>1. CASE CanDelete(nodes, path) /\ Returns(TRUE, <<>>)
           /\ nodes' = Deleted(nodes, path)
  <2>1. Files(nodes)' = [q \in DOMAIN Files(nodes) \ {path} |-> Files(nodes)[q]]
    BY <1>1, FilesDeleted DEF Good
  <2>. QED
    BY <1>1, <2>1, TreeGuards DEF Tree!Delete, Tree!Returns, Returns, Files
<1>2. CASE ~CanDelete(nodes, path) /\ Refuses
  BY <1>2, TreeGuards, RefusesAsTree DEF Tree!Delete, Files
<1>. QED
  BY <1>1, <1>2 DEF wnu_vfs_delete

LEMMA KeepsAsTree == \A text, n : Tree!Keep(text, n) = Kept(text, n)
  BY SameOperators DEF Tree!Keep, Kept

LEMMA OpenedFile ==
  ASSUME Good, NEW path, IsOpenable(nodes, path)
  PROVE  LET node == nodes[find_node(nodes, path)]
         IN  /\ node \in Node
             /\ path \in DOMAIN Files(nodes)
             /\ Files(nodes)[path].content = Content(node)
<1>1. UniquePaths(nodes) /\ nodes \in [Slot -> Node]
  BY DEF Good, WellFormed
<1>2. find_node(nodes, path) \in Slot /\ wnu_vfs_exists(nodes, path)
  BY FindNode, UsedInSlot DEF IsOpenable, wnu_vfs_is_file, HasType
<1>. QED
  BY <1>1, <1>2, FilesOf

LEMMA WriteAsTree ==
  ASSUME Good, NEW path \in Path, NEW text \in Seq(Byte),
         wnu_vfs_write_file(path, text)
  PROVE  Tree!Write(path, text)
<1>1. CASE IsOpenable(nodes, path) /\ Returns(TRUE, <<>>)
           /\ nodes' = Stored(nodes, path, 0, text)
  <2>1. 0 \in 0 .. MaxData
    BY VfsAssumption
  <2>2. Files(nodes)' = WithContent(Files(nodes), path, Kept(text, MaxData))
    BY <1>1, <2>1, FilesStored DEF Good
  <2>. QED
    BY <1>1, <2>2, TreeGuards, KeepsAsTree
       DEF Tree!Write, Tree!Update, Tree!Returns, Returns, Files, WithContent
<1>2. CASE ~IsOpenable(nodes, path) /\ Refuses
  BY <1>2, TreeGuards, RefusesAsTree DEF Tree!Write, Tree!Update, Files
<1>. QED
  BY <1>1, <1>2 DEF wnu_vfs_write_file

LEMMA AppendAsTree ==
  ASSUME Good, NEW path \in Path, NEW text \in Seq(Byte),
         wnu_vfs_append_file(path, text)
  PROVE  Tree!Append_(path, text)
<1>. DEFINE node == nodes[find_node(nodes, path)]
            old  == Content(node)
<1>1. CASE IsOpenable(nodes, path) /\ Returns(TRUE, <<>>)
           /\ nodes' = Stored(nodes, path, node.size, text)
  <2>1. node.size \in 0 .. MaxData /\ Files(nodes)[path].content = old
    BY <1>1, OpenedFile DEF Node
  <2>2. Files(nodes)' = WithContent(Files(nodes), path,
                                   old \o Kept(text, MaxData - Len(old)))
    BY <1>1, <2>1, FilesStored DEF Good
  <2>3. Tree!valid_path(path) /\ Tree!IsFile(path)
    BY <1>1, TreeGuards
  <2>. HIDE DEF old
  <2>. QED
    BY <1>1, <2>1, <2>2, <2>3, KeepsAsTree, Zenon
       DEF Tree!Append_, Tree!Update, Tree!Returns, Returns, Files, WithContent
<1>2. CASE ~IsOpenable(nodes, path) /\ Refuses
  BY <1>2, TreeGuards, RefusesAsTree DEF Tree!Append_, Tree!Update, Files
<1>. QED
  BY <1>1, <1>2 DEF wnu_vfs_append_file

LEMMA ReadAsTree ==
  ASSUME Good, NEW path \in Path, wnu_vfs_read_file(path)
  PROVE  Tree!Read(path)
<1>1. CASE IsOpenable(nodes, path) /\ UNCHANGED <<nodes, next_inode>>
           /\ Returns(TRUE, Content(nodes[find_node(nodes, path)]))
  <2>1. Files(nodes)[path].content = Content(nodes[find_node(nodes, path)])
    BY <1>1, OpenedFile
  <2>. QED
    BY <1>1, <2>1, TreeGuards DEF Tree!Read, Tree!Returns, Returns, Files
<1>2. CASE ~IsOpenable(nodes, path) /\ Refuses
  BY <1>2, TreeGuards, RefusesAsTree DEF Tree!Read, Files
<1>. QED
  BY <1>1, <1>2 DEF wnu_vfs_read_file

LEMMA InitAsTree == Init => Tree!Init
<1>. SUFFICES ASSUME Init PROVE Tree!Init
  OBVIOUS
<1>1. 0 \in Slot
  BY VfsAssumption DEF Slot
<1>2. Used(nodes) = {0} /\ UniquePaths(nodes)
  BY <1>1 DEF Init, Used, UniquePaths
<1>3. /\ nodes[0].path = Root
      /\ EntryOf(nodes[0]) = [type |-> "dir", content |-> <<>>]
  BY <1>1 DEF Init, EntryOf, Content
<1>4. DOMAIN Files(nodes) = {Root} /\ \A p \in {Root} :
        Files(nodes)[p] = [type |-> "dir", content |-> <<>>]
  BY <1>2, <1>3, FilesOf DEF Files
<1>5. Files(nodes) = [p \in {Root} |-> [type |-> "dir", content |-> <<>>]]
  <2>1. Files(nodes) = [p \in DOMAIN Files(nodes) |-> Files(nodes)[p]]
    BY DEF Files
  <2>. QED
    BY <1>4, <2>1
<1>. QED
  BY <1>5, SameOperators DEF Tree!Init, Tree!Blank, Init, Files

LEMMA BootStepAsTree ==
  ASSUME IInv, BootStep
  PROVE  Tree!Next
<1>. DEFINE step == BootScript[boot + 1]
<1>1. boot + 1 \in 1 .. Len(BootScript)
  BY VfsAssumption DEF IInv, BootStep
<1>2. step \in BootCall
  BY <1>1, VfsAssumption, ElementOfSeq
<1>3. /\ step.path \in Path /\ step.text \in Seq(Byte)
      /\ step.path \in BootPath /\ step.text \in BootText
  BY <1>1, <1>2 DEF BootCall, BootPath, BootText
<1>. HIDE DEF step
<1>4. \/ Create("dir", step.path)
      \/ Create("file", step.path)
      \/ wnu_vfs_write_file(step.path, step.text)
  BY DEF BootStep, step, wnu_vfs_create_dir, wnu_vfs_create_file
<1>. QED
  BY <1>3, <1>4, CreateAsTree, WriteAsTree DEF IInv, Tree!Next

LEMMA CallAsTree ==
  ASSUME IInv, Call
  PROVE  Tree!Next
<1>1. PICK path \in PathArg :
        \/ wnu_vfs_create_file(path)
        \/ wnu_vfs_create_dir(path)
        \/ wnu_vfs_delete(path)
        \/ \E text \in TextArg : wnu_vfs_write_file(path, text)
        \/ \E text \in TextArg : wnu_vfs_append_file(path, text)
        \/ wnu_vfs_read_file(path)
  BY DEF Call
<1>2. path \in Path /\ TextArg \subseteq Seq(Byte) /\ Good
  BY VfsAssumption DEF IInv
<1>3. \/ \E type \in {"file", "dir"} : Tree!Create(type, path)
      \/ Tree!Delete(path)
      \/ \E text \in TextArg : Tree!Write(path, text) \/ Tree!Append_(path, text)
      \/ Tree!Read(path)
  BY <1>1, <1>2, CreateAsTree, DeleteAsTree, WriteAsTree, AppendAsTree, ReadAsTree
     DEF wnu_vfs_create_file, wnu_vfs_create_dir
<1>. QED
  BY <1>3 DEF Tree!Next

(* The node table implements the file tree: whatever the table size, the boot
   script and the calls, every call has the result and the effect that a tree
   of files has.  In particular a file created in a freed node starts empty, no
   read returns bytes that were not written to that file since, and a delete
   takes away one entry and nothing below it. *)
THEOREM ImplementsTree == Spec => ImplementsFileTree
<1>1. Init => Tree!Init
  BY InitAsTree
<1>2. IInv /\ [Next]_vars => [Tree!Next]_(Tree!treeVars)
  <2>. SUFFICES ASSUME IInv, [Next]_vars PROVE [Tree!Next]_(Tree!treeVars)
    OBVIOUS
  <2>1. CASE BootStep
    BY <2>1, BootStepAsTree
  <2>2. CASE Call
    BY <2>2, CallAsTree
  <2>3. CASE UNCHANGED vars
    BY <2>3 DEF vars, Tree!treeVars
  <2>. QED
    BY <2>1, <2>2, <2>3 DEF Next
<1>. QED
  BY <1>1, <1>2, Invariance, PTL DEF Spec, ImplementsFileTree, Tree!Spec
=============================================================================
