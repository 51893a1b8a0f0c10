---------------------------- MODULE MemoryProofs ----------------------------
(***************************************************************************)
(* Proofs about Memory, for any layout, any number of frames and tasks.    *)
(*                                                                         *)
(* The properties of Memory hold together or not at all: that a new page   *)
(* is private needs every mapped frame to be marked in the bitmap, that a  *)
(* write to a page table changes one task's pages only needs the tables    *)
(* of user areas to have one owner.  MemoryInv joins them; the one thing   *)
(* it adds is that outside the kernel heap only user areas map anything.   *)
(***************************************************************************)
EXTENDS Memory, FiniteSetTheorems, TLAPS

OwnInUserAreas == \A t \in live : \A v \in OwnPages(t) : Area(v) \in UserAreas

MemoryInv ==
  /\ TypeOK
  /\ PagesPrivate
  /\ TablesSound
  /\ MappedIsUsed
  /\ BrkBacked
  /\ OwnInUserAreas

-----------------------------------------------------------------------------
(***************************************************************************)
(* Numbers: pages, areas and offsets.                                      *)
(***************************************************************************)

\* A number is put together in one way from a multiple of m and a remainder.
LEMMA UniqueSplit ==
  ASSUME NEW m \in Nat \ {0}, NEW a \in Int, NEW b \in Int,
         NEW x \in 0 .. m - 1, NEW y \in 0 .. m - 1, a * m + x = b * m + y
  PROVE  a = b /\ x = y
<1>1. ~(a < b)
  <2>1. a < b => (a + 1) * m <= b * m
    OBVIOUS
  <2>2. (a + 1) * m = a * m + m
    OBVIOUS
  <2>3. a * m \in Int /\ b * m \in Int
    OBVIOUS
  <2> QED
    BY <2>1, <2>2, <2>3
<1>2. ~(b < a)
  <2>1. b < a => (b + 1) * m <= a * m
    OBVIOUS
  <2>2. (b + 1) * m = b * m + m
    OBVIOUS
  <2>3. a * m \in Int /\ b * m \in Int
    OBVIOUS
  <2> QED
    BY <2>1, <2>2, <2>3
<1>3. a = b
  BY <1>1, <1>2
<1>4. a * m \in Int
  OBVIOUS
<1> QED
  BY <1>3, <1>4

LEMMA PageSplit ==
  ASSUME NEW v \in Nat
  PROVE  /\ Area(v) \in Nat /\ Area(v) <= v /\ Off(v) \in Offsets
         /\ v = Area(v) * PerTable + Off(v)
<1>1. PerTable \in Nat \ {0}
  BY LayoutAssumption
<1>2. Area(v) \in Int /\ Off(v) \in 0 .. PerTable - 1 /\ v = PerTable * Area(v) + Off(v)
  BY <1>1 DEF Area, Off
<1>3. Area(v) >= 0
  <2>1. Area(v) <= -1 => PerTable * Area(v) <= PerTable * (-1)
    BY <1>1, <1>2
  <2> QED
    BY <1>1, <1>2, <2>1
<1>4. Area(v) <= PerTable * Area(v)
  BY <1>1, <1>2, <1>3
<1>5. PerTable * Area(v) = Area(v) * PerTable /\ PerTable * Area(v) \in Int
  BY <1>1, <1>2
<1> QED
  BY <1>2, <1>3, <1>4, <1>5 DEF Offsets

LEMMA PageJoin ==
  ASSUME NEW a \in Nat, NEW i \in Offsets
  PROVE  a * PerTable + i \in Nat /\ Area(a * PerTable + i) = a /\ Off(a * PerTable + i) = i
<1>1. PerTable \in Nat \ {0} /\ i \in 0 .. PerTable - 1
  BY LayoutAssumption DEF Offsets
<1> DEFINE v == a * PerTable + i
<1>2. a * PerTable \in Nat
  BY <1>1
<1>3. v \in Nat
  BY <1>1, <1>2
<1>4. Area(v) \in Nat /\ Off(v) \in 0 .. PerTable - 1 /\ a * PerTable + i = Area(v) * PerTable + Off(v)
  BY <1>3, PageSplit DEF Offsets
<1> HIDE DEF v
<1>5. a = Area(v) /\ i = Off(v)
  BY <1>1, <1>4, UniqueSplit
<1> QED
  BY <1>3, <1>5 DEF v

\* Two pages of an area differ in their offset.
LEMMA SamePage ==
  ASSUME NEW v \in Pages, NEW w \in Pages, Area(v) = Area(w), Off(v) = Off(w)
  PROVE  v = w
<1>1. v \in Nat /\ w \in Nat
  BY LayoutAssumption DEF Pages
<1> QED
  BY <1>1, PageSplit

-----------------------------------------------------------------------------
(***************************************************************************)
(* Ranks: the n-th element of a finite set of numbers.                     *)
(***************************************************************************)
Place(S, x) == Cardinality({y \in S : y <= x})

LEMMA PlaceType ==
  ASSUME NEW S \in SUBSET Int, IsFiniteSet(S), NEW x \in S
  PROVE  Place(S, x) \in 1 .. Cardinality(S)
<1> DEFINE B == {y \in S : y <= x}
<1>1. B \in SUBSET S /\ x \in B
  OBVIOUS
<1>2. IsFiniteSet(B) /\ Cardinality(B) <= Cardinality(S)
  BY <1>1, FS_Subset
<1>3. Cardinality(B) \in Nat /\ Cardinality(S) \in Nat
  BY <1>2, FS_CardinalityType
<1>4. Cardinality(B) # 0
  BY <1>1, <1>2, FS_EmptySet
<1> QED
  BY <1>2, <1>3, <1>4 DEF Place

LEMMA PlaceGrows ==
  ASSUME NEW S \in SUBSET Int, IsFiniteSet(S), NEW x \in S, NEW y \in S, x < y
  PROVE  Place(S, x) < Place(S, y)
<1> DEFINE B == {z \in S : z <= x}
           C == {z \in S : z <= y}
<1>0. x \in Int /\ y \in Int /\ \A z \in S : z \in Int /\ (z <= x => z <= y)
  OBVIOUS
<1>1. B \in SUBSET C /\ C \in SUBSET S /\ y \in C /\ y \notin B
  <2>1. B \in SUBSET C
    BY <1>0
  <2>2. y \in C /\ y \notin B
    BY <1>0
  <2> QED
    BY <2>1, <2>2
<1>2. IsFiniteSet(C) /\ IsFiniteSet(B)
  BY <1>1, FS_Subset
<1>3. Cardinality(B) <= Cardinality(C) /\ (Cardinality(C) = Cardinality(B) => C = B)
  BY <1>1, <1>2, FS_Subset
<1>4. Cardinality(B) \in Nat /\ Cardinality(C) \in Nat
  BY <1>2, FS_CardinalityType
<1>5. Cardinality(C) # Cardinality(B)
  BY <1>1, <1>3
<1> QED
  BY <1>3, <1>4, <1>5 DEF Place

LEMMA PlaceInjective ==
  ASSUME NEW S \in SUBSET Int, IsFiniteSet(S), NEW x \in S, NEW y \in S, Place(S, x) = Place(S, y)
  PROVE  x = y
<1>1. Place(S, x) \in Int /\ Place(S, y) \in Int /\ x \in Int /\ y \in Int
  BY PlaceType
<1> QED
  BY <1>1, PlaceGrows

LEMMA EveryPlaceTaken ==
  ASSUME NEW S \in SUBSET Int, IsFiniteSet(S), NEW n \in 1 .. Cardinality(S)
  PROVE  \E x \in S : Place(S, x) = n
<1> DEFINE f == [x \in S |-> Place(S, x)]
           T == 1 .. Cardinality(S)
<1>1. Cardinality(S) \in Nat
  BY FS_CardinalityType
<1>2. IsFiniteSet(T) /\ Cardinality(T) = Cardinality(S)
  BY <1>1, FS_Interval
<1>3. f \in [S -> T]
  BY PlaceType
<1>4. f \in Injection(S, T)
  BY <1>3, PlaceInjective DEF Injection, IsInjective
<1>5. f \in Surjection(S, T)
  BY <1>2, <1>4, FS_Injection
<1> QED
  BY <1>5 DEF Surjection

-----------------------------------------------------------------------------
(***************************************************************************)
(* Allocation: paging_alloc_frame hands out the free frames in order.      *)
(***************************************************************************)
LEMMA FreeIsFinite ==
  /\ Free \in SUBSET Frames /\ Free \in SUBSET Int /\ IsFiniteSet(Free)
  /\ Cardinality(Free) \in Nat
<1>1. IsFiniteSet(Frames) /\ Frames \subseteq Int
  BY LayoutAssumption, FS_Interval DEF Frames
<1>2. Free \in SUBSET Frames
  BY DEF Free
<1> QED
  BY <1>1, <1>2, FS_Subset, FS_CardinalityType

LEMMA NthIsFree ==
  ASSUME NEW n \in 1 .. Cardinality(Free)
  PROVE  /\ Nth(n) \in Free /\ Place(Free, Nth(n)) = n
         /\ Nth(n) \in Frames /\ Nth(n) \notin used
         /\ \A m \in Int : n <= m => Nth(n) \in Taken(m)
<1>1. \E f \in Free : Cardinality({g \in Free : g <= f}) = n
  BY FreeIsFinite, EveryPlaceTaken DEF Place
<1>2. Nth(n) \in Free /\ Cardinality({g \in Free : g <= Nth(n)}) = n
  BY <1>1 DEF Nth
<1> QED
  BY <1>2 DEF Place, Taken, Free

LEMMA NthInjective ==
  ASSUME NEW n \in 1 .. Cardinality(Free), NEW m \in 1 .. Cardinality(Free), Nth(n) = Nth(m)
  PROVE  n = m
BY NthIsFree

LEMMA TakenIsFree ==
  ASSUME NEW n
  PROVE  Taken(n) \subseteq Free /\ Taken(n) \subseteq Frames
BY DEF Taken, Free

-----------------------------------------------------------------------------
(***************************************************************************)
(* What every operation does to address spaces, in one form.  A root, a    *)
(* table or a page of a task is what it was, or a frame taken just now, or *)
(* something of the kernel heap that it shares with a live task; and what  *)
(* was taken just now is used for one thing only.                          *)
(***************************************************************************)
Fresh == used' \ used

KeepsRoots == \A t \in live' : root'[t] \in Fresh \/ (t \in live /\ root'[t] = root[t])

KeepsTables ==
  \A t \in live', a \in Areas :
    \/ dir'[t][a] = NoFrame
    \/ dir'[t][a] \in Fresh
    \/ t \in live /\ dir'[t][a] = dir[t][a]
    \/ a \notin UserAreas /\ \E o \in live : dir'[t][a] = dir[o][a]

KeepsPages ==
  \A t \in live', v \in Pages :
    \/ Pte(t, v)' \notin Frames
    \/ Pte(t, v)' \in Fresh
    \/ t \in live /\ Pte(t, v)' = Pte(t, v)
    \/ v \in HeapPages /\ \E o \in live : Pte(t, v)' = Pte(o, v)

FreshApart ==
  \A t, u \in live', a, b \in Areas :
    /\ dir'[t][a] \in Fresh /\ dir'[u][b] = dir'[t][a] => t = u /\ a = b
    /\ dir'[t][a] \in Fresh => root'[u] # dir'[t][a] /\ \A v \in Pages : Pte(u, v)' # dir'[t][a]

FreshPagesPrivate ==
  \A t, u \in live', v, w \in UserPages :
    Pte(t, v)' \in Fresh /\ Pte(u, w)' = Pte(t, v)' => t = u /\ v = w

KeepsSpaces ==
  /\ used \subseteq used'
  /\ KeepsRoots /\ KeepsTables /\ KeepsPages
  /\ FreshApart /\ FreshPagesPrivate

LEMMA PteType ==
  ASSUME TypeOK, NEW t \in Tasks, NEW v \in Pages
  PROVE  /\ Pte(t, v) \in Frames \cup FixedFrames \cup {NoFrame}
         /\ Area(v) \in Areas /\ Off(v) \in Offsets
<1>1. Area(v) \in Areas
  BY DEF Areas
<1>2. Off(v) \in Offsets
  BY PageSplit, LayoutAssumption DEF Pages
<1> QED
  BY <1>1, <1>2 DEF TypeOK, Pte

LEMMA NotFrames == NoFrame \notin Frames /\ FixedFrames \cap Frames = {}
<1>1. NoFrame \notin Frames
  BY LayoutAssumption DEF NoFrame, Frames
<1>2. ASSUME NEW v \in Image PROVE Fixed(v) \notin Frames
  BY LayoutAssumption DEF Fixed, Frames, Pages
<1> QED
  BY <1>1, <1>2 DEF FixedFrames

\* Such a step keeps the three properties about sharing.
LEMMA SpacesKept ==
  ASSUME MemoryInv, TypeOK', KeepsSpaces
  PROVE  PagesPrivate' /\ TablesSound' /\ MappedIsUsed'
<1>1. /\ TypeOK /\ PagesPrivate /\ TablesSound /\ MappedIsUsed /\ used \subseteq used'
      /\ KeepsRoots /\ KeepsTables /\ KeepsPages /\ FreshApart /\ FreshPagesPrivate
  BY DEF MemoryInv, KeepsSpaces
<1>2. NoFrame \notin used /\ NoFrame \notin Frames /\ used \subseteq Frames /\ live \subseteq Tasks /\ live' \subseteq Tasks
  BY <1>1, NotFrames DEF TypeOK
<1>3. MappedIsUsed'
  <2> SUFFICES ASSUME NEW t \in live', NEW v \in Pages, Pte(t, v)' \in Frames
               PROVE  Pte(t, v)' \in used'
    BY DEF MappedIsUsed
  <2> QED
    BY <1>1 DEF KeepsPages, MappedIsUsed, Fresh
<1>4. PagesPrivate'
  <2> SUFFICES ASSUME NEW t \in live', NEW u \in live', NEW v \in UserPages, NEW w \in UserPages,
                      Pte(t, v)' # NoFrame, Pte(u, w)' # NoFrame,
                      Pte(t, v)' = Pte(u, w)', Pte(t, v)' \in Frames
               PROVE  t = u /\ v = w
    BY DEF PagesPrivate, OwnPages
  <2>1. v \in Pages /\ w \in Pages /\ v \notin HeapPages /\ w \notin HeapPages
    BY DEF UserPages
  <2>2. CASE Pte(t, v)' \in Fresh
    BY <1>1, <2>2 DEF FreshPagesPrivate
  <2>3. CASE Pte(t, v)' \notin Fresh
    <3>1. t \in live /\ Pte(t, v)' = Pte(t, v) /\ u \in live /\ Pte(u, w)' = Pte(u, w)
      BY <1>1, <2>1, <2>3 DEF KeepsPages
    <3>2. v \in OwnPages(t) /\ w \in OwnPages(u)
      BY <3>1 DEF OwnPages
    <3>3. Pte(t, v) = Pte(u, w) /\ Pte(t, v) \in Frames
      BY <3>1
    <3> QED
      BY <1>1, <3>1, <3>2, <3>3, Zenon DEF PagesPrivate
  <2> QED
    BY <2>2, <2>3
<1>5. TablesSound'
  <2> SUFFICES ASSUME NEW t \in live'
               PROVE  /\ root'[t] \in used'
                      /\ \A a \in Areas : dir'[t][a] # NoFrame =>
                           /\ dir'[t][a] \in used'
                           /\ \A u \in live', b \in Areas : dir'[u][b] = dir'[t][a] =>
                                a = b /\ (a \in UserAreas => t = u)
                           /\ \A u \in live' : /\ root'[u] # dir'[t][a]
                                               /\ \A v \in Pages : Pte(u, v)' # dir'[t][a]
    BY DEF TablesSound
  <2>1. root'[t] \in used'
    BY <1>1 DEF KeepsRoots, TablesSound, Fresh
  <2>2. ASSUME NEW a \in Areas, dir'[t][a] # NoFrame
        PROVE  /\ dir'[t][a] \in used'
               /\ \A u \in live', b \in Areas : dir'[u][b] = dir'[t][a] =>
                    a = b /\ (a \in UserAreas => t = u)
               /\ \A u \in live' : /\ root'[u] # dir'[t][a]
                                   /\ \A v \in Pages : Pte(u, v)' # dir'[t][a]
    <3>1. CASE dir'[t][a] \in Fresh
      BY <1>1, <3>1 DEF FreshApart, Fresh
    <3>2. CASE dir'[t][a] \notin Fresh
      <4>1. PICK o \in live : dir'[t][a] = dir[o][a] /\ (a \in UserAreas => o = t)
        BY <1>1, <2>2, <3>2 DEF KeepsTables
      <4>2. /\ dir[o][a] \in used
            /\ \A u \in live, b \in Areas : dir[u][b] = dir[o][a] => a = b /\ (a \in UserAreas => o = u)
            /\ \A u \in live : root[u] # dir[o][a] /\ \A v \in Pages : Pte(u, v) # dir[o][a]
        BY <1>1, <2>2, <4>1 DEF TablesSound
      <4>3. ASSUME NEW u \in live', NEW b \in Areas, dir'[u][b] = dir'[t][a]
            PROVE  a = b /\ (a \in UserAreas => t = u)
        <5>1. PICK p \in live : dir'[u][b] = dir[p][b] /\ (b \in UserAreas => p = u)
          BY <1>1, <2>2, <3>2, <4>3 DEF KeepsTables
        <5> QED
          BY <4>1, <4>2, <4>3, <5>1
      <4>4. ASSUME NEW u \in live' PROVE root'[u] # dir'[t][a]
        BY <1>1, <4>1, <4>2 DEF KeepsRoots, Fresh
      <4>5. ASSUME NEW u \in live', NEW v \in Pages PROVE Pte(u, v)' # dir'[t][a]
        BY <1>1, <1>2, <4>1, <4>2 DEF KeepsPages, Fresh
      <4> QED
        BY <1>1, <4>1, <4>2, <4>3, <4>4, <4>5
    <3> QED
      BY <3>1, <3>2
  <2> QED
    BY <2>1, <2>2
<1> QED
  BY <1>3, <1>4, <1>5

\* Steps that leave the tables and the frames alone.
LEMMA QuietStep ==
  ASSUME MemoryInv, UNCHANGED <<dir, pte>>, used \subseteq used', used' \subseteq Frames,
         live' \subseteq live, root' = root, heap_end' = heap_end, fault' \in BOOLEAN,
         brk' \in [Tasks -> BrkStart .. NPages], \A t \in live' : brk'[t] <= brk[t]
  PROVE  MemoryInv'
<1>1. TypeOK /\ live \subseteq Tasks
  BY DEF MemoryInv, TypeOK
<1>2. TypeOK'
  BY <1>1 DEF TypeOK
<1>3. \A t, v : Pte(t, v)' = Pte(t, v)
  BY DEF Pte
<1>4. PagesPrivate' /\ MappedIsUsed' /\ OwnInUserAreas'
  BY <1>3 DEF MemoryInv, PagesPrivate, MappedIsUsed, OwnInUserAreas, OwnPages
<1>5. TablesSound'
  BY <1>3 DEF MemoryInv, TablesSound
<1>6. BrkBacked'
  <2> SUFFICES ASSUME NEW t \in live', NEW v \in BrkStart .. brk'[t] - 1 PROVE Pte(t, v) \in Frames
    BY <1>3 DEF BrkBacked
  <2>1. t \in live /\ brk[t] \in Int /\ brk'[t] \in Int /\ brk'[t] <= brk[t] /\ BrkStart \in Int
    BY <1>1, LayoutAssumption DEF TypeOK, Pages
  <2>2. v \in BrkStart .. brk[t] - 1
    BY <2>1
  <2> QED
    BY <2>1, <2>2 DEF MemoryInv, BrkBacked
<1> QED
  BY <1>2, <1>4, <1>5, <1>6 DEF MemoryInv

-----------------------------------------------------------------------------
(***************************************************************************)
(* paging_map_page_flags maps one page, for one task or, in a table of the *)
(* kernel heap, for all that share it.                                     *)
(***************************************************************************)
LEMMA AreasApart ==
  \A v \in HeapPages : v \in Pages /\ Area(v) \notin UserAreas
<1>1. HeapStart \in Nat /\ NPages \in Nat /\ HeapLimit \in HeapStart + 1 .. NPages
  BY LayoutAssumption DEF Pages
<1> QED
  BY <1>1, LayoutAssumption DEF HeapPages, UserAreas, Pages

LEMMA MapStep ==
  ASSUME MemoryInv, NEW t \in live, NEW v \in Pages, Area(v) \in UserAreas \/ v \in HeapPages,
         paging_map_page_flags(t, v), UNCHANGED <<live, root>>
  PROVE  /\ used' \subseteq Frames
         /\ dir' \in [Tasks -> [Areas -> Frames \cup {NoFrame}]]
         /\ pte' \in [Frames -> [Offsets -> Frames \cup FixedFrames \cup {NoFrame}]]
         /\ KeepsSpaces /\ OwnInUserAreas'
         /\ Pte(t, v)' \in Frames
         /\ \A u \in live, w \in Pages : Pte(u, w) \in Frames => Pte(u, w)' \in Frames
<1> DEFINE a     == Area(v)
           new   == dir[t][a] = NoFrame
           table == IF new THEN Nth(2) ELSE dir[t][a]
           old   == IF new THEN Empty ELSE pte[table]
           page  == Nth(1)
<1>1. TypeOK /\ TablesSound /\ live \subseteq Tasks /\ used \subseteq Frames
  BY DEF MemoryInv, TypeOK
<1>2. a \in Areas /\ Off(v) \in Offsets
  BY <1>1, PteType
<1>3. /\ Cardinality(Free) >= Needs(t, v)
      /\ used' = used \cup Taken(Needs(t, v))
      /\ dir' = [dir EXCEPT ![t][a] = table]
      /\ pte' = [pte EXCEPT ![table] = [old EXCEPT ![Off(v)] = page]]
  BY DEF paging_map_page_flags, CanMap
<1>4. Needs(t, v) = IF new THEN 2 ELSE 1
  BY DEF Needs
<1>5. Cardinality(Free) \in Nat
  BY FreeIsFinite
<1>6. page \in Frames /\ page \notin used /\ page \in used'
  <2>1. 1 \in 1 .. Cardinality(Free) /\ 1 <= Needs(t, v) /\ Needs(t, v) \in Int
    BY <1>3, <1>4, <1>5
  <2> QED
    BY <1>3, <2>1, NthIsFree
<1>7. CASE new
  <2>1. 2 \in 1 .. Cardinality(Free) /\ 1 \in 1 .. Cardinality(Free) /\ Needs(t, v) = 2
    BY <1>3, <1>4, <1>5, <1>7
  <2>2. table = Nth(2) /\ table \in Frames /\ table \notin used /\ table \in used' /\ table # page
    BY <1>3, <1>7, <2>1, NthIsFree, NthInjective
  <2>3. old = Empty
    BY <1>7
  <2>4. old \in [Offsets -> Frames \cup FixedFrames \cup {NoFrame}] /\ \A i \in Offsets : old[i] = NoFrame
    BY <2>3 DEF Empty
  <2> HIDE DEF new, table, old, page
  <2>5. \A u \in live, b \in Areas : dir[u][b] # table
    BY <1>1, <2>2, NotFrames DEF TablesSound, TypeOK
  <2>6. \A u \in live, b \in Areas : dir'[u][b] = IF u = t /\ b = a THEN table ELSE dir[u][b]
    BY <1>1, <1>2, <1>3 DEF TypeOK
  <2>7. \A f \in Frames : pte'[f] = IF f = table THEN [old EXCEPT ![Off(v)] = page] ELSE pte[f]
    BY <1>1, <1>3 DEF TypeOK
  <2>8. ASSUME NEW u \in live, NEW w \in Pages
        PROVE  \/ Pte(u, w)' = Pte(u, w)
               \/ w = v /\ u = t /\ Pte(u, w)' = page
    <3>1. Area(w) \in Areas /\ Off(w) \in Offsets
      BY <1>1, PteType
    <3>2. CASE u = t /\ Area(w) = a
      <4>1. Pte(u, w)' = [old EXCEPT ![Off(v)] = page][Off(w)]
        BY <2>2, <2>6, <2>7, <3>1, <3>2, NotFrames DEF Pte
      <4>2. Pte(u, w) = NoFrame
        BY <1>7, <3>2 DEF Pte, new
      <4>3. Off(w) = Off(v) => w = v
        BY <3>2, SamePage
      <4> QED
        BY <2>4, <3>1, <3>2, <4>1, <4>2, <4>3
    <3>3. CASE ~(u = t /\ Area(w) = a)
      <4>1. dir'[u][Area(w)] = dir[u][Area(w)] /\ dir[u][Area(w)] # table
        BY <2>5, <2>6, <3>1, <3>3
      <4>2. dir[u][Area(w)] # NoFrame => dir[u][Area(w)] \in Frames
        BY <1>1, <3>1 DEF TypeOK
      <4> QED
        BY <2>7, <4>1, <4>2 DEF Pte
    <3> QED
      BY <3>2, <3>3
  <2>9. Pte(t, v)' = page
    BY <1>1, <1>2, <2>2, <2>4, <2>6, <2>7, NotFrames DEF Pte
  <2>10. used' \subseteq Frames /\ used \subseteq used'
    BY <1>1, <1>3, TakenIsFree
  <2>11. dir' \in [Tasks -> [Areas -> Frames \cup {NoFrame}]]
    BY <1>1, <1>2, <1>3, <2>2 DEF TypeOK
  <2>12. pte' \in [Frames -> [Offsets -> Frames \cup FixedFrames \cup {NoFrame}]]
    BY <1>1, <1>2, <1>3, <1>6, <2>4 DEF TypeOK
  <2>13. KeepsRoots /\ KeepsTables
    BY <1>1, <2>2, <2>6 DEF KeepsRoots, KeepsTables, Fresh
  <2>14. KeepsPages
    BY <1>6, <2>8 DEF KeepsPages, Fresh
  <2>15. FreshApart
    <3> SUFFICES ASSUME NEW x \in live, NEW y \in live, NEW b \in Areas, NEW c \in Areas,
                        dir'[x][b] \in Fresh
                 PROVE  /\ dir'[y][c] = dir'[x][b] => x = y /\ b = c
                        /\ root[y] # dir'[x][b] /\ \A w \in Pages : Pte(y, w)' # dir'[x][b]
      BY DEF FreshApart
    <3>1. x = t /\ b = a /\ dir'[x][b] = table
      <4>1. dir[x][b] \notin Fresh
        BY <1>1, <2>10, NotFrames DEF Fresh, TablesSound
      <4> QED
        BY <2>6, <4>1
    <3>2. dir'[y][c] = table => y = t /\ c = a
      BY <2>5, <2>6
    <3>3. root[y] # table
      BY <1>1, <2>2 DEF TablesSound
    <3>4. ASSUME NEW w \in Pages PROVE Pte(y, w)' # table
      BY <2>2, <2>8 DEF MemoryInv, MappedIsUsed
    <3> QED
      BY <3>1, <3>2, <3>3, <3>4
  <2>16. FreshPagesPrivate
    <3> SUFFICES ASSUME NEW x \in live, NEW y \in live, NEW w \in Pages, NEW z \in Pages,
                        Pte(x, w)' \in Fresh, Pte(y, z)' = Pte(x, w)'
                 PROVE  x = y /\ w = z
      BY DEF FreshPagesPrivate, UserPages
    <3>1. Pte(x, w)' \in Frames /\ Pte(x, w)' \notin used
      BY <2>10 DEF Fresh
    <3>2. Pte(x, w)' # Pte(x, w) /\ Pte(y, z)' # Pte(y, z)
      BY <3>1 DEF MemoryInv, MappedIsUsed
    <3> QED
      BY <2>8, <3>2
  <2>17. OwnInUserAreas'
    <3> SUFFICES ASSUME NEW u \in live, NEW w \in UserPages, Pte(u, w)' # NoFrame
                 PROVE  Area(w) \in UserAreas
      BY DEF OwnInUserAreas, OwnPages
    <3>1. CASE w = v
      BY <3>1 DEF UserPages
    <3>2. CASE w # v
      BY <2>8, <3>2 DEF MemoryInv, OwnInUserAreas, OwnPages, UserPages
    <3> QED
      BY <3>1, <3>2
  <2> QED
    BY <1>6, <2>8, <2>9, <2>10, <2>11, <2>12, <2>13, <2>14, <2>15, <2>16, <2>17 DEF KeepsSpaces
<1>8. CASE ~new
  <2>1. table = dir[t][a] /\ table # NoFrame /\ old = pte[table]
    BY <1>8
  <2>2. table \in used /\ table \in Frames
    BY <1>1, <1>2, <2>1 DEF TablesSound
  <2>3. dir' = dir
    BY <1>1, <1>2, <1>3, <2>1 DEF TypeOK
  <2>4. \A f \in Frames : pte'[f] = IF f = table THEN [pte[f] EXCEPT ![Off(v)] = page] ELSE pte[f]
    BY <1>1, <1>3, <2>1 DEF TypeOK
  <2>5. pte' \in [Frames -> [Offsets -> Frames \cup FixedFrames \cup {NoFrame}]]
    BY <1>1, <1>3, <1>6, <2>1, <2>2 DEF TypeOK
  <2>6. used' \subseteq Frames /\ used \subseteq used'
    BY <1>1, <1>3, TakenIsFree
  <2>7. \A u \in live, b \in Areas : dir[u][b] = table => b = a /\ (a \in UserAreas => u = t)
    BY <1>1, <1>2, <2>1 DEF TablesSound
  <2> HIDE DEF new, table, old, page
  <2>8. ASSUME NEW u \in live, NEW w \in Pages
        PROVE  \/ Pte(u, w)' = Pte(u, w)
               \/ w = v /\ (a \in UserAreas => u = t) /\ Pte(u, w)' = page
    <3>1. Area(w) \in Areas /\ Off(w) \in Offsets
      BY <1>1, PteType
    <3>2. dir[u][Area(w)] # NoFrame => dir[u][Area(w)] \in Frames
      BY <1>1, <3>1 DEF TypeOK
    <3>3. CASE dir[u][Area(w)] = table
      <4>1. Area(w) = a /\ (a \in UserAreas => u = t)
        BY <2>7, <3>1, <3>3
      <4>2. Off(w) = Off(v) => w = v
        BY <4>1, SamePage
      <4>3. Pte(u, w)' = [pte[table] EXCEPT ![Off(v)] = page][Off(w)] /\ Pte(u, w) = pte[table][Off(w)]
        BY <2>1, <2>2, <2>3, <2>4, <3>3 DEF Pte
      <4>4. pte[table] \in [Offsets -> Frames \cup FixedFrames \cup {NoFrame}]
        BY <1>1, <2>2 DEF TypeOK
      <4> QED
        BY <3>1, <4>1, <4>2, <4>3, <4>4
    <3>4. CASE dir[u][Area(w)] # table
      BY <2>3, <2>4, <3>2, <3>4 DEF Pte
    <3> QED
      BY <3>3, <3>4
  <2>9. Pte(t, v)' = page
    <3>1. pte[table] \in [Offsets -> Frames \cup FixedFrames \cup {NoFrame}]
      BY <1>1, <2>2 DEF TypeOK
    <3> QED
      BY <1>2, <2>1, <2>2, <2>3, <2>4, <3>1 DEF Pte
  <2>10. KeepsRoots /\ KeepsTables
    BY <2>3 DEF KeepsRoots, KeepsTables
  <2>11. KeepsPages
    BY <1>6, <2>8 DEF KeepsPages, Fresh
  <2>12. FreshApart
    <3>1. \A x \in live, b \in Areas : dir'[x][b] \notin Fresh
      BY <1>1, <2>3, <2>6, NotFrames DEF Fresh, TablesSound
    <3> QED
      BY <3>1 DEF FreshApart
  <2>13. FreshPagesPrivate
    <3> SUFFICES ASSUME NEW x \in live, NEW y \in live, NEW w \in UserPages, NEW z \in UserPages,
                        Pte(x, w)' \in Fresh, Pte(y, z)' = Pte(x, w)'
                 PROVE  x = y /\ w = z
      BY DEF FreshPagesPrivate
    <3>0. w \in Pages /\ z \in Pages /\ w \notin HeapPages
      BY DEF UserPages
    <3>1. Pte(x, w)' \in Frames /\ Pte(x, w)' \notin used
      BY <2>6 DEF Fresh
    <3>2. Pte(x, w)' # Pte(x, w) /\ Pte(y, z)' # Pte(y, z)
      BY <3>0, <3>1 DEF MemoryInv, MappedIsUsed
    <3> QED
      BY <2>8, <3>0, <3>2
  <2>14. OwnInUserAreas'
    <3> SUFFICES ASSUME NEW u \in live, NEW w \in UserPages, Pte(u, w)' # NoFrame
                 PROVE  Area(w) \in UserAreas
      BY DEF OwnInUserAreas, OwnPages
    <3>1. CASE w = v
      BY <3>1 DEF UserPages
    <3>2. CASE w # v
      BY <2>8, <3>2 DEF MemoryInv, OwnInUserAreas, OwnPages, UserPages
    <3> QED
      BY <3>1, <3>2
  <2> QED
    BY <1>1, <1>6, <2>3, <2>5, <2>6, <2>8, <2>9, <2>10, <2>11, <2>12, <2>13, <2>14 DEF KeepsSpaces, TypeOK
<1> QED
  BY <1>7, <1>8

\* The callers of paging_map_page_flags.
LEMMA BrkStep ==
  ASSUME MemoryInv, NEW t \in live, sys_brk_grow(t)
  PROVE  MemoryInv'
<1>1. TypeOK /\ t \in Tasks /\ live \subseteq Tasks /\ BrkStart \in Nat /\ NPages \in Nat
  BY LayoutAssumption DEF MemoryInv, TypeOK, Pages
<1>2. /\ brk[t] < NPages /\ paging_map_page_flags(t, brk[t])
      /\ brk' = [brk EXCEPT ![t] = @ + 1] /\ UNCHANGED <<live, root, heap_end, fault>>
  BY DEF sys_brk_grow
<1>3. PICK b \in BrkStart .. NPages - 1 : b = brk[t]
  BY <1>1, <1>2 DEF TypeOK
<1>4. b \in Pages /\ Area(b) \in UserAreas /\ paging_map_page_flags(t, b)
  BY <1>1, <1>2, <1>3 DEF Pages, UserAreas
<1>5. /\ used' \subseteq Frames
      /\ dir' \in [Tasks -> [Areas -> Frames \cup {NoFrame}]]
      /\ pte' \in [Frames -> [Offsets -> Frames \cup FixedFrames \cup {NoFrame}]]
      /\ KeepsSpaces /\ OwnInUserAreas'
      /\ Pte(t, b)' \in Frames
      /\ \A u \in live, w \in Pages : Pte(u, w) \in Frames => Pte(u, w)' \in Frames
  BY <1>2, <1>4, MapStep
<1>6. brk' \in [Tasks -> BrkStart .. NPages]
  BY <1>1, <1>2, <1>3 DEF TypeOK
<1>7. TypeOK'
  BY <1>1, <1>2, <1>5, <1>6 DEF TypeOK
<1>8. BrkBacked'
  <2> SUFFICES ASSUME NEW u \in live, NEW w \in BrkStart .. brk'[u] - 1 PROVE Pte(u, w)' \in Frames
    BY <1>2 DEF BrkBacked
  <2>1. brk[u] \in BrkStart .. NPages /\ brk'[u] = IF u = t THEN b + 1 ELSE brk[u]
    BY <1>1, <1>2, <1>3 DEF TypeOK
  <2>2. (u = t /\ w = b) \/ w \in BrkStart .. brk[u] - 1
    BY <1>1, <1>3, <2>1
  <2>3. w \in Pages
    BY <1>1, <1>3, <2>1 DEF Pages
  <2> QED
    BY <1>5, <2>2, <2>3 DEF MemoryInv, BrkBacked
<1> QED
  BY <1>5, <1>7, <1>8, SpacesKept DEF MemoryInv

LEMMA MmapAndHeapStep ==
  ASSUME MemoryInv, NEW t \in live, sys_mmap(t) \/ heap_map_more(t)
  PROVE  MemoryInv'
<1>1. /\ TypeOK /\ t \in Tasks /\ live \subseteq Tasks
      /\ BrkStart \in Nat /\ NPages \in Nat /\ HeapStart \in Nat /\ HeapLimit \in Nat
      /\ MmapBase \in BrkStart .. NPages - 1
  BY LayoutAssumption DEF MemoryInv, TypeOK, Pages
<1>2. /\ UNCHANGED <<live, root, brk, fault>>
      /\ heap_end' \in HeapStart .. HeapLimit
      /\ \E v \in Pages : (Area(v) \in UserAreas \/ v \in HeapPages) /\ paging_map_page_flags(t, v)
  <2>1. CASE sys_mmap(t)
    <3>1. MmapBase \in Pages /\ Area(MmapBase) \in UserAreas
      BY <1>1 DEF Pages, UserAreas
    <3>2. PICK v \in {MmapBase} \cup Wishes : paging_map_page_flags(t, v)
      BY <2>1 DEF sys_mmap
    <3>3. v \in Pages /\ Area(v) \in UserAreas
      BY <3>1, <3>2, WishesAssumption
    <3> QED
      BY <1>1, <2>1, <3>2, <3>3 DEF sys_mmap, TypeOK
  <2>2. CASE heap_map_more(t)
    <3>1. heap_end \in HeapPages /\ heap_end + 1 \in HeapStart .. HeapLimit
      BY <1>1, <2>2 DEF heap_map_more, TypeOK, HeapPages
    <3> QED
      BY <2>2, <3>1, AreasApart DEF heap_map_more
  <2> QED
    BY <2>1, <2>2
<1>3. PICK v \in Pages : (Area(v) \in UserAreas \/ v \in HeapPages) /\ paging_map_page_flags(t, v)
  BY <1>2
<1>4. /\ used' \subseteq Frames
      /\ dir' \in [Tasks -> [Areas -> Frames \cup {NoFrame}]]
      /\ pte' \in [Frames -> [Offsets -> Frames \cup FixedFrames \cup {NoFrame}]]
      /\ KeepsSpaces /\ OwnInUserAreas'
      /\ \A u \in live, w \in Pages : Pte(u, w) \in Frames => Pte(u, w)' \in Frames
  BY <1>2, <1>3, MapStep
<1>5. TypeOK'
  BY <1>1, <1>2, <1>4 DEF TypeOK
<1>6. BrkBacked'
  <2> SUFFICES ASSUME NEW u \in live, NEW w \in BrkStart .. brk[u] - 1 PROVE Pte(u, w)' \in Frames
    BY <1>2 DEF BrkBacked
  <2>1. brk[u] \in BrkStart .. NPages
    BY <1>1 DEF TypeOK
  <2>2. w \in Pages
    BY <1>1, <2>1 DEF Pages
  <2> QED
    BY <1>4, <2>2 DEF MemoryInv, BrkBacked
<1> QED
  BY <1>4, <1>5, <1>6, SpacesKept DEF MemoryInv

-----------------------------------------------------------------------------
(***************************************************************************)
(* execve writes into the tables of the caller's image and stack only.     *)
(***************************************************************************)
LEMMA WithImageEntries ==
  ASSUME MemoryInv, NEW t \in live, NEW loaded \in SUBSET Image
  PROVE  /\ WithImage(t, loaded) \in [Frames -> [Offsets -> Frames \cup FixedFrames \cup {NoFrame}]]
         /\ \A f \in Frames, i \in Offsets :
              \/ WithImage(t, loaded)[f][i] = pte[f][i]
              \/ /\ WithImage(t, loaded)[f][i] \in FixedFrames
                 /\ \E v \in Image : f = dir[t][Area(v)]
<1>1. TypeOK
  BY DEF MemoryInv
<1>2. ASSUME NEW f \in Frames, NEW i \in Offsets
      PROVE  \/ WithImage(t, loaded)[f][i] = pte[f][i]
             \/ /\ WithImage(t, loaded)[f][i] \in FixedFrames
                /\ \E v \in Image : f = dir[t][Area(v)]
  <2>1. CASE \E v \in loaded : f = dir[t][Area(v)] /\ i = Off(v)
    <3>1. WithImage(t, loaded)[f][i] = Fixed(CHOOSE v \in loaded : f = dir[t][Area(v)] /\ i = Off(v))
      BY <2>1 DEF WithImage
    <3>2. (CHOOSE v \in loaded : f = dir[t][Area(v)] /\ i = Off(v)) \in Image
      BY <2>1
    <3> QED
      BY <2>1, <3>1, <3>2 DEF FixedFrames
  <2>2. CASE ~(\E v \in loaded : f = dir[t][Area(v)] /\ i = Off(v))
    BY <2>2 DEF WithImage
  <2> QED
    BY <2>1, <2>2
<1>3. \A f \in Frames, i \in Offsets : WithImage(t, loaded)[f][i] \in Frames \cup FixedFrames \cup {NoFrame}
  BY <1>1, <1>2 DEF TypeOK
<1>4. WithImage(t, loaded) = [f \in Frames |-> [i \in Offsets |-> WithImage(t, loaded)[f][i]]]
  BY DEF WithImage
<1> QED
  BY <1>2, <1>3, <1>4

\* What execve leaves in the address spaces, whether it succeeds or not.
ExecPages(t) ==
  \A u \in live, w \in Pages :
    \/ Pte(u, w)' = Pte(u, w)
    \/ /\ u = t /\ Area(w) \in UserAreas
       /\ Pte(u, w)' \in FixedFrames \/ (w = Stack /\ Pte(u, w)' \in Fresh)

LEMMA ExecSpaces ==
  ASSUME MemoryInv, NEW t \in live, NEW k \in {1, 2},
         used' = used \cup Taken(k), root' = [root EXCEPT ![t] = NewRoot(t)],
         brk' = [brk EXCEPT ![t] = BrkStart], UNCHANGED <<live, dir, heap_end, fault>>,
         pte' \in [Frames -> [Offsets -> Frames \cup FixedFrames \cup {NoFrame}]],
         ExecPages(t)
  PROVE  MemoryInv'
<1>1. TypeOK /\ live \subseteq Tasks /\ used \subseteq Frames /\ BrkStart \in Nat /\ NPages \in Nat /\ BrkStart <= NPages
  BY LayoutAssumption DEF MemoryInv, TypeOK, Pages
<1>2. used' \subseteq Frames /\ used \subseteq used'
  BY <1>1, TakenIsFree
<1>3. NewRoot(t) = root[t] \/ NewRoot(t) \in Fresh
  <2>1. CASE Free # {}
    <3>1. Cardinality(Free) \in Nat /\ Cardinality(Free) # 0
      BY <2>1, FreeIsFinite, FS_EmptySet
    <3>2. 1 \in 1 .. Cardinality(Free) /\ 1 <= k /\ k \in Int
      BY <3>1
    <3>3. Nth(1) \in Taken(k) /\ Nth(1) \notin used
      BY <3>2, NthIsFree
    <3> QED
      BY <2>1, <3>3 DEF NewRoot, Fresh
  <2> QED
    BY <2>1 DEF NewRoot
<1>4. TypeOK'
  <2>1. root' \in [Tasks -> Frames \cup {NoFrame}]
    BY <1>1, <1>2, <1>3 DEF TypeOK, Fresh
  <2>2. brk' \in [Tasks -> BrkStart .. NPages]
    BY <1>1 DEF TypeOK
  <2> QED
    BY <1>1, <1>2, <2>1, <2>2 DEF TypeOK
<1>5. KeepsRoots
  BY <1>1, <1>3 DEF KeepsRoots, TypeOK
<1>6. KeepsTables
  BY DEF KeepsTables
<1>7. KeepsPages
  BY NotFrames DEF KeepsPages, ExecPages
<1>8. FreshApart
  <2>1. \A x \in live, b \in Areas : dir[x][b] \notin Fresh
    BY <1>2, NotFrames DEF Fresh, MemoryInv, TablesSound
  <2> QED
    BY <2>1 DEF FreshApart
<1>9. FreshPagesPrivate
  <2> SUFFICES ASSUME NEW x \in live, NEW y \in live, NEW w \in Pages, NEW z \in Pages,
                      Pte(x, w)' \in Fresh, Pte(y, z)' = Pte(x, w)'
               PROVE  x = y /\ w = z
    BY DEF FreshPagesPrivate, UserPages
  <2>1. Pte(x, w)' \in Frames /\ Pte(x, w)' \notin used
    BY <1>2 DEF Fresh
  <2>2. Pte(x, w)' # Pte(x, w) /\ Pte(y, z)' # Pte(y, z) /\ Pte(x, w)' \notin FixedFrames
    BY <2>1, NotFrames DEF MemoryInv, MappedIsUsed
  <2> QED
    BY <2>2 DEF ExecPages
<1>10. OwnInUserAreas'
  <2> SUFFICES ASSUME NEW u \in live, NEW w \in UserPages, Pte(u, w)' # NoFrame
               PROVE  Area(w) \in UserAreas
    BY DEF OwnInUserAreas, OwnPages
  <2>1. w \in Pages
    BY DEF UserPages
  <2>2. CASE Pte(u, w)' = Pte(u, w)
    BY <2>2 DEF MemoryInv, OwnInUserAreas, OwnPages
  <2> QED
    BY <2>1, <2>2 DEF ExecPages
<1>11. BrkBacked'
  <2> SUFFICES ASSUME NEW u \in live, NEW w \in BrkStart .. brk'[u] - 1 PROVE Pte(u, w)' \in Frames
    BY DEF BrkBacked
  <2>1. u # t /\ brk'[u] = brk[u] /\ brk[u] \in BrkStart .. NPages
    BY <1>1 DEF TypeOK
  <2>2. w \in Pages
    BY <1>1, <2>1 DEF Pages
  <2>3. Pte(u, w)' = Pte(u, w)
    BY <2>1, <2>2 DEF ExecPages
  <2> QED
    BY <2>1, <2>3 DEF MemoryInv, BrkBacked
<1> QED
  BY <1>2, <1>4, <1>5, <1>6, <1>7, <1>8, <1>9, <1>10, <1>11, SpacesKept DEF MemoryInv, KeepsSpaces

\* A table of the caller's image is nobody else's.
LEMMA ImageTables ==
  ASSUME MemoryInv, NEW t \in live, NEW u \in live, NEW w \in Pages,
         dir[u][Area(w)] # NoFrame
  PROVE  /\ dir[u][Area(w)] \in Frames
         /\ (\E v \in Image \cup {Stack} : dir[u][Area(w)] = dir[t][Area(v)]) =>
              u = t /\ Area(w) \in UserAreas
<1>1. TypeOK /\ TablesSound /\ live \subseteq Tasks
  BY DEF MemoryInv, TypeOK
<1>2. Area(w) \in Areas
  BY DEF Areas
<1>3. ASSUME NEW v \in Image \cup {Stack}, dir[u][Area(w)] = dir[t][Area(v)]
      PROVE  u = t /\ Area(w) \in UserAreas
  <2>1. Area(v) \in UserAreas /\ Area(v) \in Areas
    BY LayoutAssumption DEF UserAreas, Areas
  <2> QED
    BY <1>1, <1>2, <1>3, <2>1 DEF TablesSound
<1> QED
  BY <1>1, <1>2, <1>3 DEF TypeOK

LEMMA ExecStep ==
  ASSUME MemoryInv, NEW t \in live, exec_fails(t) \/ proc_exec(t)
  PROVE  MemoryInv'
<1>1. TypeOK /\ TablesSound /\ live \subseteq Tasks
  BY DEF MemoryInv, TypeOK
<1>2. ASSUME NEW u \in live, NEW w \in Pages, NEW loaded \in SUBSET Image, dir' = dir, pte' = WithImage(t, loaded)
      PROVE  \/ Pte(u, w)' = Pte(u, w)
             \/ u = t /\ Area(w) \in UserAreas /\ Pte(u, w)' \in FixedFrames
  <2>1. CASE dir[u][Area(w)] = NoFrame
    BY <1>2, <2>1 DEF Pte
  <2>2. CASE dir[u][Area(w)] # NoFrame
    <3>1. Off(w) \in Offsets
      BY <1>1, PteType
    <3>2. Pte(u, w)' = WithImage(t, loaded)[dir[u][Area(w)]][Off(w)] /\ Pte(u, w) = pte[dir[u][Area(w)]][Off(w)]
      BY <1>2, <2>2 DEF Pte
    <3> QED
      BY <2>2, <3>1, <3>2, WithImageEntries, ImageTables
  <2> QED
    BY <2>1, <2>2
<1>3. CASE exec_fails(t)
  <2>1. /\ used' = used \cup Taken(1) /\ root' = [root EXCEPT ![t] = NewRoot(t)]
        /\ brk' = [brk EXCEPT ![t] = BrkStart] /\ UNCHANGED <<live, dir, heap_end, fault>>
    BY <1>3 DEF exec_fails
  <2>2. PICK loaded \in SUBSET Image : pte' = WithImage(t, loaded)
    BY <1>3 DEF exec_fails
  <2>3. pte' \in [Frames -> [Offsets -> Frames \cup FixedFrames \cup {NoFrame}]]
    BY <2>2, WithImageEntries
  <2>4. ExecPages(t)
    BY <1>2, <2>1, <2>2 DEF ExecPages
  <2> QED
    BY <2>1, <2>3, <2>4, ExecSpaces
<1>4. CASE proc_exec(t)
  <2> DEFINE table == dir[t][Area(Stack)]
  <2>0. PICK loaded \in SUBSET Image : pte' = [WithImage(t, loaded) EXCEPT ![table][Off(Stack)] = Nth(2)]
    BY <1>4 DEF proc_exec
  <2>1. /\ used' = used \cup Taken(2) /\ root' = [root EXCEPT ![t] = NewRoot(t)]
        /\ brk' = [brk EXCEPT ![t] = BrkStart] /\ UNCHANGED <<live, dir, heap_end, fault>>
        /\ pte' = [WithImage(t, loaded) EXCEPT ![table][Off(Stack)] = Nth(2)]
        /\ Cardinality(Free) >= 2
    BY <1>4, <2>0 DEF proc_exec
  <2>2. Nth(2) \in Frames /\ Nth(2) \in Fresh
    <3>1. 2 \in 1 .. Cardinality(Free)
      BY <2>1, FreeIsFinite
    <3> QED
      BY <2>1, <3>1, NthIsFree DEF Fresh
  <2>3. Stack \in Pages /\ Off(Stack) \in Offsets /\ Area(Stack) \in Areas
    BY <1>1, LayoutAssumption, PteType
  <2>4. WithImage(t, loaded) \in [Frames -> [Offsets -> Frames \cup FixedFrames \cup {NoFrame}]]
    BY <2>0, WithImageEntries
  <2>5. pte' \in [Frames -> [Offsets -> Frames \cup FixedFrames \cup {NoFrame}]]
    BY <2>1, <2>2, <2>3, <2>4
  <2>6. ASSUME NEW u \in live, NEW w \in Pages
        PROVE  \/ Pte(u, w)' = Pte(u, w)
               \/ /\ u = t /\ Area(w) \in UserAreas
                  /\ Pte(u, w)' \in FixedFrames \/ (w = Stack /\ Pte(u, w)' \in Fresh)
    <3> DEFINE f == dir[u][Area(w)]
    <3>0. Off(w) \in Offsets
      BY <1>1, PteType
    <3>1. CASE f = NoFrame
      BY <2>1, <3>1 DEF Pte
    <3>2. CASE f # NoFrame
      <4>1. f \in Frames /\ ((\E v \in Image \cup {Stack} : f = dir[t][Area(v)]) => u = t /\ Area(w) \in UserAreas)
        BY <3>2, ImageTables
      <4>2. Pte(u, w)' = pte'[f][Off(w)] /\ Pte(u, w) = pte[f][Off(w)]
        BY <2>1, <3>2 DEF Pte
      <4>3. CASE f = table /\ Off(w) = Off(Stack)
        <5>1. pte'[f][Off(w)] = Nth(2)
          BY <2>1, <2>3, <2>4, <4>1, <4>3
        <5>2. u = t /\ Area(w) \in UserAreas
          BY <4>1, <4>3
        <5>3. Area(w) = Area(Stack)
          BY <1>1, <2>3, <3>2, <4>3 DEF TablesSound, Areas
        <5>4. w = Stack
          BY <2>3, <4>3, <5>3, SamePage
        <5> QED
          BY <2>2, <4>2, <5>1, <5>2, <5>4
      <4>4. CASE ~(f = table /\ Off(w) = Off(Stack))
        <5>1. pte'[f][Off(w)] = WithImage(t, loaded)[f][Off(w)]
          BY <2>1, <2>3, <2>4, <3>0, <4>1, <4>4
        <5> HIDE DEF f
        <5> QED
          BY <2>0, <3>0, <4>1, <4>2, <5>1, WithImageEntries
      <4> QED
        BY <4>3, <4>4
    <3> QED
      BY <3>1, <3>2
  <2>7. ExecPages(t)
    BY <2>6 DEF ExecPages
  <2> QED
    BY <2>1, <2>5, <2>7, ExecSpaces
<1> QED
  BY <1>3, <1>4

-----------------------------------------------------------------------------
(***************************************************************************)
(* fork.  Every table and every page of the parent's user areas has a key, *)
(* and the ranks of the keys are the numbers of the allocations.           *)
(***************************************************************************)
LEMMA KeysApart ==
  /\ \A a, b \in Nat : AreaKey(a) = AreaKey(b) => a = b
  /\ \A a, v \in Nat : AreaKey(a) # PageKey(v)
  /\ \A v, w \in Nat : PageKey(v) = PageKey(w) => v = w
<1> DEFINE m == PerTable + 1
<1>1. PerTable \in Nat \ {0} /\ m \in Nat \ {0} /\ 0 \in 0 .. m - 1
  BY LayoutAssumption
<1>2. \A a \in Nat : AreaKey(a) = a * m + 0 /\ AreaKey(a) \in Int
  BY <1>1 DEF AreaKey
<1>3. \A v \in Nat : /\ Area(v) \in Nat /\ 1 + Off(v) \in 0 .. m - 1 /\ 1 + Off(v) # 0
                     /\ PageKey(v) = Area(v) * m + (1 + Off(v))
  <2> SUFFICES ASSUME NEW v \in Nat
               PROVE  /\ Area(v) \in Nat /\ 1 + Off(v) \in 0 .. m - 1 /\ 1 + Off(v) # 0
                      /\ PageKey(v) = Area(v) * m + (1 + Off(v))
    OBVIOUS
  <2>1. Area(v) \in Nat /\ Off(v) \in 0 .. PerTable - 1
    BY PageSplit DEF Offsets
  <2>2. Area(v) * m \in Int
    BY <1>1, <2>1
  <2>3. PageKey(v) = Area(v) * m + 1 + Off(v)
    BY DEF PageKey, AreaKey
  <2> HIDE DEF m
  <2> QED
    BY <1>1, <2>1, <2>2, <2>3 DEF m
<1> HIDE DEF m
<1>4. \A a, b \in Nat : AreaKey(a) = AreaKey(b) => a = b
  <2> SUFFICES ASSUME NEW a \in Nat, NEW b \in Nat, AreaKey(a) = AreaKey(b) PROVE a = b
    OBVIOUS
  <2>1. a * m + 0 = b * m + 0
    BY <1>2
  <2>2. a \in Int /\ b \in Int
    OBVIOUS
  <2> QED
    BY <1>1, <2>1, <2>2, UniqueSplit, Zenon
<1>5. \A a, v \in Nat : AreaKey(a) # PageKey(v)
  <2> SUFFICES ASSUME NEW a \in Nat, NEW v \in Nat, AreaKey(a) = PageKey(v) PROVE FALSE
    OBVIOUS
  <2>1. a * m + 0 = Area(v) * m + (1 + Off(v))
    BY <1>2, <1>3
  <2>2. 0 = 1 + Off(v)
    <3> DEFINE b == Area(v)
               y == 1 + Off(v)
    <3>1. a \in Int /\ b \in Int /\ y \in 0 .. m - 1 /\ a * m + 0 = b * m + y
      BY <1>3, <2>1
    <3> HIDE DEF b, y
    <3>2. 0 = y
      BY <1>1, <3>1, UniqueSplit, Zenon
    <3> QED
      BY <3>2 DEF y
  <2> QED
    BY <1>3, <2>2
<1>6. \A v, w \in Nat : PageKey(v) = PageKey(w) => v = w
  <2> SUFFICES ASSUME NEW v \in Nat, NEW w \in Nat, PageKey(v) = PageKey(w) PROVE v = w
    OBVIOUS
  <2>1. Area(v) * m + (1 + Off(v)) = Area(w) * m + (1 + Off(w))
    BY <1>3
  <2>2. Area(v) = Area(w) /\ 1 + Off(v) = 1 + Off(w)
    <3> DEFINE a == Area(v)
               x == 1 + Off(v)
               b == Area(w)
               y == 1 + Off(w)
    <3>1. a \in Int /\ b \in Int /\ x \in 0 .. m - 1 /\ y \in 0 .. m - 1 /\ a * m + x = b * m + y
      BY <1>3, <2>1
    <3> HIDE DEF a, b, x, y
    <3>2. a = b /\ x = y
      BY <1>1, <3>1, UniqueSplit, Zenon
    <3> QED
      BY <3>2 DEF a, b, x, y
  <2>3. Off(v) \in Int /\ Off(w) \in Int
    BY PageSplit, LayoutAssumption DEF Offsets
  <2>4. Off(v) = Off(w)
    BY <2>2, <2>3
  <2> QED
    BY <2>2, <2>4, PageSplit
<1> QED
  BY <1>4, <1>5, <1>6

LEMMA AreasAreNumbers ==
  /\ \A v \in Pages : v \in Nat /\ v <= NPages /\ Area(v) \in Nat /\ Area(v) <= NPages
  /\ UserAreas \subseteq Areas
  /\ \A a \in Areas : a \in Nat /\ a <= NPages
<1>1. NPages \in Nat /\ BrkStart \in Nat /\ Image \subseteq Pages /\ Stack \in Pages
  BY LayoutAssumption DEF Pages
<1>2. \A v \in Pages : v \in Nat /\ v <= NPages
  BY <1>1 DEF Pages
<1>3. \A v \in Pages : Area(v) \in Nat /\ Area(v) <= NPages
  BY <1>1, <1>2, PageSplit
<1>4. \A v \in Image \cup {Stack} \cup BrkStart .. NPages - 1 : v \in Pages
  BY <1>1 DEF Pages
<1> QED
  BY <1>2, <1>3, <1>4 DEF UserAreas, Areas

LEMMA KeysFinite == \A t : Keys(t) \in SUBSET Int /\ IsFiniteSet(Keys(t))
<1> SUFFICES ASSUME NEW t PROVE Keys(t) \in SUBSET Int /\ IsFiniteSet(Keys(t))
  OBVIOUS
<1> DEFINE m == PerTable + 1
           top == NPages * m + PerTable
<1>1. PerTable \in Nat \ {0} /\ m \in Nat \ {0} /\ NPages \in Nat
  BY LayoutAssumption
<1>2. NPages * m \in Nat
  BY <1>1
<1>3. top \in Nat
  BY <1>1, <1>2
<1>4. ASSUME NEW a \in Nat, a <= NPages PROVE AreaKey(a) \in Nat /\ AreaKey(a) <= NPages * m
  <2>1. a * m \in Nat /\ a * m <= NPages * m
    BY <1>1, <1>4
  <2> QED
    BY <2>1 DEF AreaKey
<1>5. ASSUME NEW a \in OwnAreas(t) PROVE AreaKey(a) \in Nat /\ AreaKey(a) <= top
  <2>1. a \in Nat /\ a <= NPages
    BY AreasAreNumbers DEF OwnAreas
  <2>2. AreaKey(a) \in Nat /\ AreaKey(a) <= NPages * m
    BY <1>4, <2>1
  <2> HIDE DEF m
  <2> QED
    BY <1>1, <1>2, <2>2
<1>6. ASSUME NEW v \in OwnPages(t) PROVE PageKey(v) \in Nat /\ PageKey(v) <= top
  <2>1. v \in Pages
    BY DEF OwnPages, UserPages
  <2>2. Area(v) \in Nat /\ Area(v) <= NPages /\ Off(v) \in 0 .. PerTable - 1
    BY <2>1, AreasAreNumbers, PageSplit DEF Offsets
  <2>3. AreaKey(Area(v)) \in Nat /\ AreaKey(Area(v)) <= NPages * m
    BY <1>4, <2>2
  <2> HIDE DEF m
  <2> QED
    BY <1>1, <1>2, <2>2, <2>3 DEF PageKey
<1> HIDE DEF top
<1>7. Keys(t) \in SUBSET Nat /\ \A k \in Keys(t) : k <= top
  BY <1>5, <1>6 DEF Keys
<1>8. IsFiniteSet(Keys(t))
  BY <1>3, <1>7, FS_BoundedSetOfNaturals
<1> QED
  BY <1>7, <1>8

\* The allocations of fork: the root, then one for every key.
LEMMA CloneFrames ==
  ASSUME NEW t, CloneNeeds(t) <= Cardinality(Free)
  PROVE  /\ Nth(1) \in Free /\ Nth(1) \in Taken(CloneNeeds(t))
         /\ \A k \in Keys(t) : /\ Nth(Rank(t, k)) \in Free
                               /\ Nth(Rank(t, k)) \in Taken(CloneNeeds(t))
                               /\ Nth(Rank(t, k)) # Nth(1)
         /\ \A j, k \in Keys(t) : Nth(Rank(t, j)) = Nth(Rank(t, k)) => j = k
<1>1. Keys(t) \in SUBSET Int /\ IsFiniteSet(Keys(t)) /\ Cardinality(Keys(t)) \in Nat
  BY KeysFinite, FS_CardinalityType
<1>2. Cardinality(Free) \in Nat /\ CloneNeeds(t) = 1 + Cardinality(Keys(t))
  BY FreeIsFinite DEF CloneNeeds
<1>3. \A k \in Keys(t) : Rank(t, k) = 1 + Place(Keys(t), k)
  BY DEF Rank, Place
<1>4. \A k \in Keys(t) : Place(Keys(t), k) \in 1 .. Cardinality(Keys(t))
  BY <1>1, PlaceType
<1>5. \A k \in Keys(t) : /\ Rank(t, k) \in 1 .. Cardinality(Free)
                         /\ Rank(t, k) <= CloneNeeds(t) /\ Rank(t, k) # 1
  BY <1>1, <1>2, <1>3, <1>4
<1>6. 1 \in 1 .. Cardinality(Free) /\ 1 <= CloneNeeds(t) /\ CloneNeeds(t) \in Int
  BY <1>1, <1>2
<1>7. Nth(1) \in Free /\ Nth(1) \in Taken(CloneNeeds(t))
  BY <1>6, NthIsFree
<1>8. \A k \in Keys(t) : /\ Nth(Rank(t, k)) \in Free
                         /\ Nth(Rank(t, k)) \in Taken(CloneNeeds(t))
                         /\ Nth(Rank(t, k)) # Nth(1)
  BY <1>5, <1>6, NthIsFree, NthInjective
<1>9. ASSUME NEW j \in Keys(t), NEW k \in Keys(t), Nth(Rank(t, j)) = Nth(Rank(t, k))
      PROVE  j = k
  <2>1. Rank(t, j) = Rank(t, k)
    BY <1>5, <1>9, NthInjective
  <2>2. Place(Keys(t), j) = Place(Keys(t), k)
    BY <1>3, <1>4, <2>1
  <2> QED
    BY <1>1, <2>2, PlaceInjective
<1> QED
  BY <1>7, <1>8, <1>9

LEMMA ForkStep ==
  ASSUME MemoryInv, NEW t \in live, proc_fork(t)
  PROVE  MemoryInv'
<1>1. /\ TypeOK /\ TablesSound /\ MappedIsUsed /\ live \subseteq Tasks /\ used \subseteq Frames
      /\ t \in Tasks
  BY DEF MemoryInv, TypeOK
<1>2. PICK c \in Tasks \ live :
        /\ CloneNeeds(t) <= Cardinality(Free)
        /\ used' = used \cup Taken(CloneNeeds(t))
        /\ root' = [root EXCEPT ![c] = Nth(1)]
        /\ dir' = [dir EXCEPT ![c] =
                     [a \in Areas |-> IF a \in OwnAreas(t) THEN CloneTable(t, a) ELSE dir[t][a]]]
        /\ pte' = [f \in Frames |->
                     IF \E a \in OwnAreas(t) : f = CloneTable(t, a)
                       THEN ClonedEntries(t, CHOOSE a \in OwnAreas(t) : f = CloneTable(t, a))
                       ELSE pte[f]]
        /\ brk' = [brk EXCEPT ![c] = brk[t]]
        /\ live' = live \cup {c}
        /\ UNCHANGED <<heap_end, fault>>
  BY DEF proc_fork
<1> DEFINE copy(v) == Nth(Rank(t, PageKey(v)))
<1>3. used' \subseteq Frames /\ used \subseteq used'
  BY <1>1, <1>2, TakenIsFree
<1>4. Nth(1) \in Fresh /\ Nth(1) \in Frames
  BY <1>2, <1>3, CloneFrames DEF Fresh, Free
<1>5. \A a \in OwnAreas(t) : a \in Areas /\ a \in UserAreas /\ a \in Nat /\ AreaKey(a) \in Keys(t)
  BY AreasAreNumbers DEF OwnAreas, Keys
<1>6. \A v \in OwnPages(t) : v \in Pages /\ v \in UserPages /\ v \in Nat /\ PageKey(v) \in Keys(t)
  BY AreasAreNumbers DEF OwnPages, UserPages, Keys
<1>7. \A a \in OwnAreas(t) : CloneTable(t, a) \in Fresh /\ CloneTable(t, a) \in Frames /\ CloneTable(t, a) # Nth(1)
  BY <1>2, <1>5, CloneFrames DEF CloneTable, Fresh, Free
<1>8. \A v \in OwnPages(t) : copy(v) \in Fresh /\ copy(v) \in Frames
  BY <1>2, <1>6, CloneFrames DEF Fresh, Free
<1>9. \A a, b \in OwnAreas(t) : CloneTable(t, a) = CloneTable(t, b) => a = b
  <2> SUFFICES ASSUME NEW a \in OwnAreas(t), NEW b \in OwnAreas(t), CloneTable(t, a) = CloneTable(t, b)
               PROVE  a = b
    OBVIOUS
  <2>1. AreaKey(a) = AreaKey(b)
    BY <1>2, <1>5, CloneFrames DEF CloneTable
  <2> QED
    BY <1>5, <2>1, KeysApart
<1>10. \A v, w \in OwnPages(t) : copy(v) = copy(w) => v = w
  <2> SUFFICES ASSUME NEW v \in OwnPages(t), NEW w \in OwnPages(t), copy(v) = copy(w)
               PROVE  v = w
    OBVIOUS
  <2>1. PageKey(v) = PageKey(w)
    BY <1>2, <1>6, CloneFrames
  <2> QED
    BY <1>6, <2>1, KeysApart
<1>11. \A a \in OwnAreas(t), v \in OwnPages(t) : CloneTable(t, a) # copy(v)
  <2> SUFFICES ASSUME NEW a \in OwnAreas(t), NEW v \in OwnPages(t), CloneTable(t, a) = copy(v)
               PROVE  FALSE
    OBVIOUS
  <2>1. AreaKey(a) = PageKey(v)
    BY <1>2, <1>5, <1>6, CloneFrames DEF CloneTable
  <2> QED
    BY <1>5, <1>6, <2>1, KeysApart
<1> HIDE DEF copy
<1>12. /\ c \in Tasks /\ c \notin live /\ c # t
       /\ \A u \in live : u # c /\ dir'[u] = dir[u] /\ root'[u] = root[u] /\ brk'[u] = brk[u]
       /\ \A a \in Areas : dir'[c][a] = IF a \in OwnAreas(t) THEN CloneTable(t, a) ELSE dir[t][a]
       /\ root'[c] = Nth(1) /\ brk'[c] = brk[t]
  BY <1>1, <1>2 DEF TypeOK
<1>13. \A f \in used : pte'[f] = pte[f]
  BY <1>1, <1>2, <1>7 DEF Fresh
<1>14. \A a \in OwnAreas(t) : pte'[CloneTable(t, a)] = ClonedEntries(t, a)
  <2> SUFFICES ASSUME NEW a \in OwnAreas(t)
               PROVE  pte'[CloneTable(t, a)] = ClonedEntries(t, a)
    OBVIOUS
  <2> DEFINE chosen == CHOOSE b \in OwnAreas(t) : CloneTable(t, a) = CloneTable(t, b)
  <2>1. chosen \in OwnAreas(t) /\ CloneTable(t, a) = CloneTable(t, chosen)
    OBVIOUS
  <2>2. pte'[CloneTable(t, a)] = ClonedEntries(t, chosen)
    BY <1>2, <1>7
  <2> HIDE DEF chosen
  <2> QED
    BY <1>9, <2>1, <2>2
<1>15. ASSUME NEW u \in live, NEW w \in Pages PROVE Pte(u, w)' = Pte(u, w)
  <2>1. Area(w) \in Areas /\ dir'[u][Area(w)] = dir[u][Area(w)]
    BY <1>12 DEF Areas
  <2>2. dir[u][Area(w)] # NoFrame => dir[u][Area(w)] \in used
    BY <1>1, <2>1 DEF TablesSound
  <2> QED
    BY <1>13, <2>1, <2>2 DEF Pte
<1>16. ASSUME NEW w \in Pages, Area(w) \in OwnAreas(t)
       PROVE  Pte(c, w)' = IF w \in OwnPages(t) THEN copy(w) ELSE NoFrame
  <2>1. w = Area(w) * PerTable + Off(w) /\ Off(w) \in Offsets /\ Area(w) \in Areas
    BY AreasAreNumbers, PageSplit DEF Areas
  <2>2. dir'[c][Area(w)] = CloneTable(t, Area(w)) /\ CloneTable(t, Area(w)) # NoFrame
    BY <1>7, <1>12, <1>16, <2>1, NotFrames
  <2>3. Pte(c, w)' = ClonedEntries(t, Area(w))[Off(w)]
    BY <1>14, <1>16, <2>2 DEF Pte
  <2> QED
    BY <2>1, <2>3 DEF ClonedEntries, copy
<1>17. ASSUME NEW w \in Pages, Area(w) \notin OwnAreas(t)
       PROVE  Pte(c, w)' = Pte(t, w) /\ (w \in HeapPages \/ Pte(c, w)' = NoFrame)
  <2>1. Area(w) \in Areas
    BY DEF Areas
  <2>2. dir'[c][Area(w)] = dir[t][Area(w)]
    BY <1>12, <1>17, <2>1
  <2>3. dir[t][Area(w)] # NoFrame => dir[t][Area(w)] \in used
    BY <1>1, <2>1 DEF TablesSound
  <2>4. Pte(c, w)' = Pte(t, w)
    BY <1>13, <2>2, <2>3 DEF Pte
  <2>5. w \notin HeapPages /\ Pte(t, w) # NoFrame => Area(w) \in OwnAreas(t)
    <3> SUFFICES ASSUME w \notin HeapPages, Pte(t, w) # NoFrame PROVE Area(w) \in OwnAreas(t)
      OBVIOUS
    <3>1. w \in OwnPages(t) /\ dir[t][Area(w)] # NoFrame
      BY DEF OwnPages, UserPages, Pte
    <3> QED
      BY <3>1 DEF MemoryInv, OwnInUserAreas, OwnAreas
  <2> QED
    BY <1>17, <2>4, <2>5
<1>18. TypeOK'
  <2>1. root' \in [Tasks -> Frames \cup {NoFrame}]
    BY <1>1, <1>2, <1>4 DEF TypeOK
  <2>2. dir' \in [Tasks -> [Areas -> Frames \cup {NoFrame}]]
    <3>1. [a \in Areas |-> IF a \in OwnAreas(t) THEN CloneTable(t, a) ELSE dir[t][a]]
            \in [Areas -> Frames \cup {NoFrame}]
      BY <1>1, <1>7 DEF TypeOK
    <3> QED
      BY <1>1, <1>2, <3>1 DEF TypeOK
  <2>3. pte' \in [Frames -> [Offsets -> Frames \cup FixedFrames \cup {NoFrame}]]
    <3>1. \A a : ClonedEntries(t, a) \in [Offsets -> Frames \cup FixedFrames \cup {NoFrame}]
      BY <1>8 DEF ClonedEntries, copy
    <3> QED
      BY <1>1, <1>2, <3>1 DEF TypeOK
  <2>4. brk' \in [Tasks -> BrkStart .. NPages] /\ live' \subseteq Tasks
    BY <1>1, <1>2 DEF TypeOK
  <2> QED
    BY <1>1, <1>2, <1>3, <2>1, <2>2, <2>3, <2>4 DEF TypeOK
<1>19. KeepsRoots
  BY <1>2, <1>4, <1>12 DEF KeepsRoots
<1>20. KeepsTables
  <2> SUFFICES ASSUME NEW u \in live', NEW a \in Areas
               PROVE  \/ dir'[u][a] = NoFrame
                      \/ dir'[u][a] \in Fresh
                      \/ u \in live /\ dir'[u][a] = dir[u][a]
                      \/ a \notin UserAreas /\ \E o \in live : dir'[u][a] = dir[o][a]
    BY DEF KeepsTables
  <2>1. CASE u \in live
    BY <1>12, <2>1
  <2>2. CASE u = c
    BY <1>7, <1>12, <2>2 DEF OwnAreas
  <2> QED
    BY <1>2, <2>1, <2>2
<1>21. ASSUME NEW w \in Pages
       PROVE  \/ Pte(c, w)' = NoFrame
              \/ w \in OwnPages(t) /\ Pte(c, w)' = copy(w)
              \/ w \in HeapPages /\ Pte(c, w)' = Pte(t, w)
  BY <1>16, <1>17
<1>22. KeepsPages
  <2> SUFFICES ASSUME NEW u \in live', NEW w \in Pages
               PROVE  \/ Pte(u, w)' \notin Frames
                      \/ Pte(u, w)' \in Fresh
                      \/ u \in live /\ Pte(u, w)' = Pte(u, w)
                      \/ w \in HeapPages /\ \E o \in live : Pte(u, w)' = Pte(o, w)
    BY DEF KeepsPages
  <2>1. CASE u \in live
    BY <1>15, <2>1
  <2>2. CASE u = c
    BY <1>8, <1>21, <2>2, NotFrames
  <2> QED
    BY <1>2, <2>1, <2>2
<1>23. FreshApart
  <2> SUFFICES ASSUME NEW x \in live', NEW y \in live', NEW a \in Areas, NEW b \in Areas,
                      dir'[x][a] \in Fresh
               PROVE  /\ dir'[y][b] = dir'[x][a] => x = y /\ a = b
                      /\ root'[y] # dir'[x][a] /\ \A w \in Pages : Pte(y, w)' # dir'[x][a]
    BY DEF FreshApart
  <2>1. \A u \in live, d \in Areas : dir[u][d] \notin Fresh
    BY <1>1, <1>3, NotFrames DEF TablesSound, Fresh
  <2>2. x = c /\ a \in OwnAreas(t) /\ dir'[x][a] = CloneTable(t, a)
    BY <1>2, <1>12, <2>1
  <2>3. dir'[y][b] = dir'[x][a] => y = c /\ b \in OwnAreas(t) /\ dir'[y][b] = CloneTable(t, b)
    BY <1>2, <1>12, <2>1
  <2>4. root'[y] # dir'[x][a]
    BY <1>1, <1>2, <1>7, <1>12, <2>2 DEF TablesSound, Fresh
  <2>5. ASSUME NEW w \in Pages PROVE Pte(y, w)' # CloneTable(t, a)
    <3>1. CloneTable(t, a) \in Frames /\ CloneTable(t, a) \notin used
      BY <1>7, <2>2 DEF Fresh
    <3>2. \A u \in live : Pte(u, w) # CloneTable(t, a)
      BY <1>1, <3>1 DEF MappedIsUsed
    <3>3. CASE y \in live
      BY <1>15, <3>2, <3>3
    <3>4. CASE y = c
      BY <1>11, <1>21, <2>2, <3>1, <3>2, <3>4, NotFrames
    <3> QED
      BY <1>2, <3>3, <3>4
  <2> QED
    BY <1>9, <2>2, <2>3, <2>4, <2>5
<1>24. FreshPagesPrivate
  <2> SUFFICES ASSUME NEW x \in live', NEW y \in live', NEW v \in UserPages, NEW w \in UserPages,
                      Pte(x, v)' \in Fresh, Pte(y, w)' = Pte(x, v)'
               PROVE  x = y /\ v = w
    BY DEF FreshPagesPrivate
  <2>1. v \in Pages /\ w \in Pages
    BY DEF UserPages
  <2>2. Pte(x, v)' \in Frames /\ Pte(x, v)' \notin used /\ Pte(x, v)' # NoFrame
    BY <1>3, NotFrames DEF Fresh
  <2>3. \A u \in live, z \in Pages : Pte(u, z) # Pte(x, v)'
    BY <1>1, <2>2 DEF MappedIsUsed
  <2>4. x = c /\ y = c
    BY <1>2, <1>15, <2>1, <2>3
  <2>5. v \in OwnPages(t) /\ Pte(x, v)' = copy(v) /\ w \in OwnPages(t) /\ Pte(y, w)' = copy(w)
    BY <1>21, <2>1, <2>2, <2>3, <2>4
  <2> QED
    BY <1>10, <2>4, <2>5
<1>25. OwnInUserAreas'
  <2> SUFFICES ASSUME NEW u \in live', NEW w \in UserPages, Pte(u, w)' # NoFrame
               PROVE  Area(w) \in UserAreas
    BY DEF OwnInUserAreas, OwnPages
  <2>1. w \in Pages /\ w \notin HeapPages
    BY DEF UserPages
  <2>2. CASE u \in live
    BY <1>15, <2>1, <2>2 DEF MemoryInv, OwnInUserAreas, OwnPages
  <2>3. CASE u = c
    BY <1>21, <2>1, <2>3 DEF MemoryInv, OwnInUserAreas
  <2> QED
    BY <1>2, <2>2, <2>3
<1>26. BrkBacked'
  <2> SUFFICES ASSUME NEW u \in live', NEW w \in BrkStart .. brk'[u] - 1 PROVE Pte(u, w)' \in Frames
    BY DEF BrkBacked
  <2>1. BrkStart \in Nat /\ NPages \in Nat /\ brk[t] \in BrkStart .. NPages
    BY <1>1, LayoutAssumption DEF TypeOK, Pages
  <2>2. CASE u \in live
    <3>1. brk'[u] = brk[u] /\ brk[u] \in BrkStart .. NPages
      BY <1>1, <1>12, <2>2 DEF TypeOK
    <3>2. w \in Pages
      BY <2>1, <3>1 DEF Pages
    <3> QED
      BY <1>15, <2>2, <3>1, <3>2 DEF MemoryInv, BrkBacked
  <2>3. CASE u = c
    <3>1. w \in BrkStart .. brk[t] - 1
      BY <1>12, <2>3
    <3>2. w \in Pages /\ w \in BrkStart .. NPages - 1
      BY <2>1, <3>1 DEF Pages
    <3>3. Area(w) \in UserAreas /\ w \notin HeapPages
      BY <3>2, AreasApart DEF UserAreas
    <3>4. Pte(t, w) \in Frames
      BY <3>1 DEF MemoryInv, BrkBacked
    <3>5. w \in OwnPages(t) /\ Area(w) \in OwnAreas(t)
      BY <3>2, <3>3, <3>4, NotFrames DEF OwnPages, UserPages, OwnAreas, Pte
    <3> QED
      BY <1>8, <1>16, <2>3, <3>2, <3>5
  <2> QED
    BY <1>2, <2>2, <2>3
<1> QED
  BY <1>3, <1>18, <1>19, <1>20, <1>22, <1>23, <1>24, <1>25, <1>26, SpacesKept DEF MemoryInv, KeepsSpaces

LEMMA NextInv == MemoryInv /\ [Next]_vars => MemoryInv'
<1> SUFFICES ASSUME MemoryInv, [Next]_vars PROVE MemoryInv'
  OBVIOUS
<1>1. TypeOK /\ used \subseteq Frames /\ live \subseteq Tasks
  BY DEF MemoryInv, TypeOK
<1>2. brk \in [Tasks -> BrkStart .. NPages] /\ \A t \in live : brk[t] <= brk[t]
  BY <1>1, LayoutAssumption DEF TypeOK, Pages
<1>3. CASE UNCHANGED vars
  BY <1>1, <1>2, <1>3, QuietStep DEF vars, TypeOK
<1>4. ASSUME NEW t \in live,
             \/ sys_brk_grow(t) \/ sys_brk_shrink(t) \/ sys_mmap(t)
             \/ heap_map_more(t) \/ map_faults(t)
             \/ proc_fork(t) \/ proc_fork_fails(t) \/ proc_fork_faults(t)
             \/ proc_exec(t) \/ exec_fails(t) \/ exec_faults(t)
             \/ proc_exit(t)
      PROVE  MemoryInv'
  <2>1. CASE sys_brk_grow(t)
    BY <2>1, BrkStep
  <2>2. CASE sys_mmap(t) \/ heap_map_more(t)
    BY <2>2, MmapAndHeapStep
  <2>3. CASE proc_fork(t)
    BY <2>3, ForkStep
  <2>4. CASE proc_exec(t) \/ exec_fails(t)
    BY <2>4, ExecStep
  <2>5. CASE sys_brk_shrink(t)
    <3>1. PICK b \in BrkStart .. brk[t] - 1 : brk' = [brk EXCEPT ![t] = b]
      BY <2>5 DEF sys_brk_shrink
    <3>2. brk[t] \in BrkStart .. NPages /\ BrkStart \in Int /\ NPages \in Int
      BY <1>1, LayoutAssumption DEF TypeOK, Pages
    <3>3. brk' \in [Tasks -> BrkStart .. NPages] /\ \A u \in live : brk'[u] <= brk[u]
      BY <1>1, <1>2, <3>1, <3>2
    <3> QED
      BY <1>1, <2>5, <3>3, QuietStep DEF sys_brk_shrink, TypeOK
  <2>6. CASE map_faults(t) \/ proc_fork_faults(t) \/ exec_faults(t)
    <3>1. Halts
      BY <2>6 DEF map_faults, proc_fork_faults, exec_faults
    <3> QED
      BY <1>1, <1>2, <3>1, QuietStep DEF Halts
  <2>7. CASE proc_fork_fails(t)
    BY <1>1, <1>2, <2>7, QuietStep DEF proc_fork_fails, TypeOK
  <2>8. CASE proc_exit(t)
    BY <1>1, <1>2, <2>8, QuietStep DEF proc_exit, TypeOK
  <2> QED
    BY <1>4, <2>1, <2>2, <2>3, <2>4, <2>5, <2>6, <2>7, <2>8
<1> QED
  BY <1>3, <1>4 DEF Next

-----------------------------------------------------------------------------
(***************************************************************************)
(* The machine when the shell starts.                                      *)
(***************************************************************************)
LEMMA BootTables ==
  /\ NTables \in Nat
  /\ BootAreas \subseteq Areas
  /\ \A a \in BootAreas : BootTable(a) \in 1 .. NTables
  /\ \A a, b \in BootAreas : BootTable(a) = BootTable(b) => a = b
  /\ NTables + 3 \in Frames /\ \A n \in 1 .. NTables + 3 : n \in Frames
<1>1. Image \cup {Stack, HeapStart} \subseteq Pages /\ NPages \in Nat
  BY LayoutAssumption
<1>2. BootAreas \subseteq Areas
  BY <1>1 DEF BootAreas, Areas
<1>3. BootAreas \in SUBSET Nat /\ \A a \in BootAreas : a <= NPages
  BY <1>2, AreasAreNumbers
<1>4. IsFiniteSet(BootAreas) /\ BootAreas \in SUBSET Int
  BY <1>1, <1>3, FS_BoundedSetOfNaturals
<1>5. NTables \in Nat
  BY <1>4, FS_CardinalityType DEF NTables
<1>6. \A a : BootTable(a) = Place(BootAreas, a)
  BY DEF BootTable, Place
<1>7. \A a \in BootAreas : BootTable(a) \in 1 .. NTables
  BY <1>4, <1>6, PlaceType DEF NTables
<1>8. \A a, b \in BootAreas : BootTable(a) = BootTable(b) => a = b
  BY <1>4, <1>6, PlaceInjective
<1>9. NTables + 3 \in Frames /\ NFrames \in Nat
  BY BootAssumption, LayoutAssumption DEF BootRoot
<1>10. \A n \in 1 .. NTables + 3 : n \in Frames
  BY <1>5, <1>9 DEF Frames
<1> QED
  BY <1>2, <1>5, <1>7, <1>8, <1>9, <1>10

LEMMA BootEntries ==
  ASSUME NEW v
  PROVE  /\ BootEntry(v) \in Frames \cup FixedFrames \cup {NoFrame}
         /\ BootEntry(v) # NoFrame => v \in Image \cup {Stack, HeapStart}
         /\ BootEntry(v) \in Frames =>
              /\ BootEntry(v) = BootFrame(v)
              /\ v \in {Stack, HeapStart}
<1>1. CASE v \in Image \ {Stack, HeapStart}
  <2>1. BootEntry(v) = Fixed(v)
    BY <1>1 DEF BootEntry
  <2>2. BootEntry(v) \in FixedFrames
    BY <1>1, <2>1 DEF FixedFrames
  <2> QED
    BY <1>1, <2>2, NotFrames
<1>2. CASE v \in {Stack, HeapStart}
  <2>1. BootEntry(v) = BootFrame(v)
    BY <1>2 DEF BootEntry
  <2>2. BootFrame(v) \in Frames
    BY BootTables DEF BootFrame
  <2> QED
    BY <1>2, <2>1, <2>2
<1>3. CASE v \notin Image /\ v \notin {Stack, HeapStart}
  <2>1. BootEntry(v) = NoFrame
    BY <1>3 DEF BootEntry
  <2> QED
    BY <2>1, NotFrames
<1> QED
  BY <1>1, <1>2, <1>3

LEMMA InitInv == Init => MemoryInv
<1> SUFFICES ASSUME Init PROVE MemoryInv
  OBVIOUS
<1>1. NTasks \in Nat \ {0} /\ 0 \in Tasks /\ NPages \in Nat /\ HeapStart \in Nat
  BY LayoutAssumption DEF Tasks, Pages
<1>2. live = {0} /\ used = 1 .. NTables + 3 /\ root[0] = NTables + 3
  BY <1>1 DEF Init, BootRoot
<1>3. \A a \in Areas : dir[0][a] = IF a \in BootAreas THEN BootTable(a) ELSE NoFrame
  BY <1>1 DEF Init
<1>4. \A a \in Areas : dir[0][a] # NoFrame => a \in BootAreas /\ dir[0][a] \in 1 .. NTables
  BY <1>3, BootTables
<1>5. TypeOK
  <2>1. used \subseteq Frames /\ live \subseteq Tasks
    BY <1>1, <1>2, BootTables
  <2>2. root \in [Tasks -> Frames \cup {NoFrame}]
    BY BootTables DEF Init, BootRoot
  <2>3. \A a \in BootAreas : BootTable(a) \in Frames
    BY BootTables
  <2>4. dir \in [Tasks -> [Areas -> Frames \cup {NoFrame}]]
    BY <2>3 DEF Init
  <2>5. pte \in [Frames -> [Offsets -> Frames \cup FixedFrames \cup {NoFrame}]]
    <3>1. Empty \in [Offsets -> Frames \cup FixedFrames \cup {NoFrame}]
      BY DEF Empty
    <3>2. \A a : [i \in Offsets |-> BootEntry(a * PerTable + i)]
                   \in [Offsets -> Frames \cup FixedFrames \cup {NoFrame}]
      BY BootEntries
    <3> QED
      BY <3>1, <3>2 DEF Init
  <2>6. brk \in [Tasks -> BrkStart .. NPages]
    BY LayoutAssumption DEF Init, Pages
  <2>7. heap_end \in HeapStart .. HeapLimit /\ fault \in BOOLEAN
    <3>1. HeapLimit \in HeapStart + 1 .. NPages
      BY LayoutAssumption
    <3>2. heap_end = HeapStart + 1 /\ fault = FALSE
      BY DEF Init
    <3>3. heap_end \in HeapStart .. HeapLimit
      BY <1>1, <3>1, <3>2
    <3> QED
      BY <3>2, <3>3
  <2> QED
    BY <2>1, <2>2, <2>4, <2>5, <2>6, <2>7 DEF TypeOK
<1>6. ASSUME NEW v \in Pages
      PROVE  Pte(0, v) = IF Area(v) \in BootAreas THEN BootEntry(v) ELSE NoFrame
  <2>1. Area(v) \in Areas /\ Off(v) \in Offsets /\ v = Area(v) * PerTable + Off(v)
    BY AreasAreNumbers, PageSplit DEF Areas
  <2>2. CASE Area(v) \notin BootAreas
    BY <1>3, <2>1, <2>2 DEF Pte
  <2>3. CASE Area(v) \in BootAreas
    <3> DEFINE f == BootTable(Area(v))
               a == CHOOSE a \in BootAreas : BootTable(a) = f
    <3>1. f \in 1 .. NTables /\ f \in Frames /\ dir[0][Area(v)] = f
      BY <1>3, <2>1, <2>3, BootTables
    <3>2. a = Area(v)
      BY <2>3, BootTables
    <3>3. pte[f] = [i \in Offsets |-> BootEntry(a * PerTable + i)]
      BY <3>1 DEF Init
    <3>4. f # NoFrame
      BY <3>1, NotFrames
    <3>5. pte[f][Off(v)] = BootEntry(v)
      BY <2>1, <3>2, <3>3
    <3> QED
      BY <2>3, <3>1, <3>4, <3>5 DEF Pte
  <2> QED
    BY <2>2, <2>3
<1>7. ASSUME NEW v \in Pages, Pte(0, v) \in Frames
      PROVE  /\ v \in {Stack, HeapStart}
             /\ Pte(0, v) \in {NTables + 1, NTables + 2}
  BY <1>6, <1>7, BootEntries, NotFrames DEF BootFrame
<1>8. \A v \in OwnPages(0) : v \in Pages /\ v # HeapStart
  <2>1. HeapStart \in HeapPages
    BY <1>1, LayoutAssumption DEF HeapPages
  <2> QED
    BY <2>1 DEF OwnPages, UserPages
<1>9. PagesPrivate
  BY <1>2, <1>7, <1>8 DEF PagesPrivate
<1>10. MappedIsUsed
  BY <1>2, <1>7, BootTables DEF MappedIsUsed
<1>11. TablesSound
  <2> SUFFICES ASSUME NEW a \in Areas, dir[0][a] # NoFrame
      PROVE  /\ dir[0][a] \in used
             /\ \A b \in Areas : dir[0][b] = dir[0][a] => a = b
             /\ root[0] # dir[0][a]
             /\ \A v \in Pages : Pte(0, v) # dir[0][a]
    <3>1. root[0] \in used
      BY <1>2, BootTables
    <3> QED
      BY <1>2, <3>1 DEF TablesSound
  <2>1. dir[0][a] \in 1 .. NTables /\ NTables \in Nat
    BY <1>4, BootTables
  <2>2. dir[0][a] \in Frames /\ dir[0][a] \in used /\ root[0] # dir[0][a]
    BY <1>2, <2>1, BootTables
  <2>3. \A b \in Areas : dir[0][b] = dir[0][a] => a = b
    BY <1>3, <1>4, BootTables
  <2>4. \A v \in Pages : Pte(0, v) # dir[0][a]
    BY <1>7, <2>1, <2>2
  <2> QED
    BY <2>2, <2>3, <2>4
<1>12. BrkBacked
  <2>1. brk[0] = BrkStart /\ BrkStart \in Int
    BY <1>1, LayoutAssumption DEF Init, Pages
  <2> QED
    BY <1>2, <2>1 DEF BrkBacked
<1>13. OwnInUserAreas
  <2> SUFFICES ASSUME NEW v \in OwnPages(0) PROVE Area(v) \in UserAreas
    BY <1>2 DEF OwnInUserAreas
  <2>1. v \in Pages /\ v # HeapStart /\ Pte(0, v) # NoFrame
    BY <1>8 DEF OwnPages
  <2>2. BootEntry(v) # NoFrame
    BY <1>6, <2>1
  <2>3. v \in Image \cup {Stack}
    BY <2>1, <2>2, BootEntries
  <2> QED
    BY <2>3 DEF UserAreas
<1> QED
  BY <1>5, <1>9, <1>10, <1>11, <1>12, <1>13 DEF MemoryInv

-----------------------------------------------------------------------------
(***************************************************************************)
(* Theorems.                                                               *)
(***************************************************************************)

\* MemoryInv holds in every state the frame allocator, fork, execve, brk,
\* mmap, exit and the growth of the kernel heap can reach.
THEOREM MemoryInvariant == Spec => []MemoryInv
<1> QED
  BY InitInv, NextInv, PTL DEF Spec

\* The page tables hold frames, the bitmap describes RAM, and a break or the
\* end of the heap never leaves its region (paging.c, sys_brk, heap_map_more).
THEOREM TypeCorrect == Spec => []TypeOK
<1>1. MemoryInv => TypeOK
  BY DEF MemoryInv
<1> QED
  BY <1>1, MemoryInvariant, PTL

\* Programs are isolated: outside the image no frame is mapped at two pages
\* of live tasks (paging_clone_user_pt, paging_map_user_page).
THEOREM ProgramsAreIsolated == Spec => []PagesPrivate
<1>1. MemoryInv => PagesPrivate
  BY DEF MemoryInv
<1> QED
  BY <1>1, MemoryInvariant, PTL

\* No table is shared by mistake, handed out twice or mapped into a program
\* (paging_alloc_table, paging_clone_current_address_space).
THEOREM TablesAreSound == Spec => []TablesSound
<1>1. MemoryInv => TablesSound
  BY DEF MemoryInv
<1> QED
  BY <1>1, MemoryInvariant, PTL

\* frame_alloc never hands out a frame that a live task has mapped.
THEOREM NoMappedFrameIsFree == Spec => []MappedIsUsed
<1>1. MemoryInv => MappedIsUsed
  BY DEF MemoryInv
<1> QED
  BY <1>1, MemoryInvariant, PTL

\* A program may use every page below its break (sys_brk, proc_fork,
\* proc_exec).
THEOREM BreakIsBacked == Spec => []BrkBacked
<1>1. MemoryInv => BrkBacked
  BY DEF MemoryInv
<1> QED
  BY <1>1, MemoryInvariant, PTL
=============================================================================
