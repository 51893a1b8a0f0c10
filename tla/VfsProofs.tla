----------------------------- MODULE VfsProofs -----------------------------
(***************************************************************************)
(* Proofs about Vfs, for any archive, any names and links and buffers of   *)
(* any size: the file system is a tree, what the archive put there stays,  *)
(* and a lookup finds what its path means.                                 *)
(*                                                                         *)
(* The first two rest on one fact about vfs_mkdir, vfs_create and          *)
(* vfs_symlink: they add inodes and change none.  For the tree it must     *)
(* also be known that the root is a directory and that what boot has still *)
(* to add are paths.                                                       *)
(*                                                                         *)
(* A lookup is right because every link it follows is one turn of the      *)
(* resolution: the path it walks and the path it was asked for stand for   *)
(* the same.  At the end no link is left, as those passed were none and    *)
(* behind what is missing or no directory nothing exists.  A lookup goes   *)
(* down for the same reason: each such turn leaves one link less.          *)
(***************************************************************************)
EXTENDS Vfs, Induction, SequenceTheorems, TLAPS

Entries == [path : Seq(Names), inode : Inodes]

Lookups ==
  [ask : Seq(Names), follow : BOOLEAN, path : Seq(Names), pos : Nat, slash : BOOLEAN,
   depth : 0 .. MaxDepth, bent : BOOLEAN, state : {"idle", "walk", "done"}, res : Seq(Names) \cup {Nowhere}]

IsTree ==
  /\ Root \in Paths /\ tree[Root] = Dir
  /\ Paths \subseteq Seq(Names)
  /\ \A p \in Paths : tree[p] \in Inodes
  /\ \A p \in Paths : p # Root => Parent(p) \in Paths /\ IsDir(Parent(p))

BootTyped ==
  /\ phase \in {"unpack", "up"}
  /\ left \in 0 .. MaxEntries
  /\ late \in Seq(Entries)
  /\ taken \subseteq Entries

LookTyped ==
  /\ look \in Lookups
  /\ look.pos <= Len(look.path)
  /\ Len(look.path) <= PathBuf

VfsInv == IsTree /\ BootTyped /\ LookTyped /\ TakenStays

-----------------------------------------------------------------------------
(***************************************************************************)
(* Parts of paths.                                                         *)
(***************************************************************************)
LEMMA UptoIsPath ==
  ASSUME NEW S, NEW p \in Seq(S), NEW i \in 0 .. Len(p)
  PROVE  /\ Upto(p, i) \in Seq(S) /\ Len(Upto(p, i)) = i
         /\ \A j \in 1 .. i : Upto(p, i)[j] = p[j]
<1>1. Len(p) \in Nat /\ i \in Nat /\ i <= Len(p)
  BY LenProperties
<1>2. \A j \in 1 .. i : p[j] \in S
  BY <1>1, ElementOfSeq
<1>3. /\ SubSeq(p, 1, i) \in Seq(S)
      /\ Len(SubSeq(p, 1, i)) = IF 1 <= i THEN i - 1 + 1 ELSE 0
      /\ \A j \in 1 .. i - 1 + 1 : SubSeq(p, 1, i)[j] = p[1 + j - 1]
  BY <1>1, <1>2, SubSeqProperties
<1>4. Len(SubSeq(p, 1, i)) = i /\ \A j \in 1 .. i : SubSeq(p, 1, i)[j] = p[j]
  BY <1>1, <1>3
<1> QED
  BY <1>3, <1>4 DEF Upto

LEMMA AfterIsPath ==
  ASSUME NEW S, NEW p \in Seq(S), NEW i \in 0 .. Len(p)
  PROVE  After(p, i) \in Seq(S)
<1>1. Len(p) \in Nat /\ i \in Nat
  BY LenProperties
<1>2. \A j \in i + 1 .. Len(p) : p[j] \in S
  BY <1>1, ElementOfSeq
<1> QED
  BY <1>1, <1>2, SubSeqProperties DEF After

\* The directory of the first i names of p are the first i - 1.
LEMMA ParentOfUpto ==
  ASSUME NEW S, NEW p \in Seq(S), NEW i \in 1 .. Len(p)
  PROVE  Parent(Upto(p, i)) = Upto(p, i - 1)
<1> DEFINE q == Upto(p, i)
           r == Upto(q, i - 1)
           s == Upto(p, i - 1)
<1>1. Len(p) \in Nat /\ i \in 0 .. Len(p) /\ i - 1 \in 0 .. Len(p)
  BY LenProperties
<1>2. q \in Seq(S) /\ Len(q) = i /\ \A j \in 1 .. i : q[j] = p[j]
  BY <1>1, UptoIsPath
<1>3. s \in Seq(S) /\ Len(s) = i - 1 /\ \A j \in 1 .. i - 1 : s[j] = p[j]
  BY <1>1, UptoIsPath
<1> HIDE DEF q, s
<1>4. i - 1 \in 0 .. Len(q)
  BY <1>1, <1>2
<1>5. r \in Seq(S) /\ Len(r) = i - 1 /\ \A j \in 1 .. i - 1 : r[j] = q[j]
  BY <1>2, <1>4, UptoIsPath
<1> HIDE DEF r
<1>6. \A j \in 1 .. i - 1 : j \in 1 .. i
  BY <1>1
<1>7. Len(r) = Len(s) /\ \A j \in 1 .. Len(r) : r[j] = s[j]
  BY <1>2, <1>3, <1>5, <1>6
<1>8. r = s
  BY <1>3, <1>5, <1>7, SeqEqual
<1> QED
  BY <1>2, <1>8 DEF Parent, q, r, s

LEMMA UptoEnds ==
  ASSUME NEW S, NEW p \in Seq(S)
  PROVE  Upto(p, 0) = Root /\ Upto(p, Len(p)) = p
<1>1. SubSeq(p, 1, 0) = <<>>
  BY SubSeqEmpty
<1>2. SubSeq(p, 1, Len(p)) = p
  BY SubSeqFull
<1> QED
  BY <1>1, <1>2 DEF Upto, Root

LEMMA AskedPaths ==
  \A p \in PathsUpTo(MaxPath) : p \in Seq(Names) /\ Len(p) <= MaxPath
<1> SUFFICES ASSUME NEW p \in PathsUpTo(MaxPath) PROVE p \in Seq(Names) /\ Len(p) <= MaxPath
  OBVIOUS
<1>1. PICK k \in 1 .. MaxPath : p \in [1 .. k -> Names]
  BY DEF PathsUpTo
<1>2. k \in Nat /\ k <= MaxPath
  BY <1>1, VfsAssumption
<1>3. p \in Seq(Names)
  BY <1>1, <1>2, SeqDef
<1>4. DOMAIN p = 1 .. Len(p) /\ DOMAIN p = 1 .. k /\ Len(p) \in Nat
  BY <1>1, <1>3, LenProperties
<1>5. Len(p) <= k
  <2>1. \A n \in 1 .. Len(p) : n \in 1 .. k
    BY <1>4
  <2> QED
    BY <1>2, <1>4, <2>1
<1> QED
  BY <1>2, <1>3, <1>4, <1>5, VfsAssumption

-----------------------------------------------------------------------------
(***************************************************************************)
(* The tree grows along one path.  Hangs: the new inodes are the first     *)
(* names of p, up to name k, and all but perhaps the last are directories. *)
(***************************************************************************)
Hangs(p, k) ==
  /\ DOMAIN tree' = Paths \cup {Upto(p, i) : i \in 1 .. k}
  /\ \A q \in Paths : tree'[q] = tree[q]
  /\ \A i \in 1 .. k : Upto(p, i) \notin Paths =>
       tree'[Upto(p, i)] \in Inodes /\ (i < Len(p) => tree'[Upto(p, i)] = Dir)

LEMMA TreeGrows ==
  ASSUME IsTree, NEW p \in Seq(Names), NEW k \in 0 .. Len(p), ~Blocked(p), Hangs(p, k)
  PROVE  IsTree'
<1>1. Len(p) \in Nat /\ k \in Nat /\ k <= Len(p)
  BY LenProperties
<1>2. Paths' = Paths \cup {Upto(p, i) : i \in 1 .. k} /\ Paths \subseteq Paths'
  BY DEF Hangs, Paths
<1>3. \A i \in 1 .. k : i \in 0 .. Len(p) /\ i \in 1 .. Len(p) /\ i - 1 \in 0 .. Len(p)
  BY <1>1
<1>4. \A i \in 1 .. k : Upto(p, i) \in Seq(Names)
  BY <1>3, UptoIsPath
<1>5. Paths' \subseteq Seq(Names)
  BY <1>2, <1>4 DEF IsTree
<1>6. Root \in Paths' /\ tree'[Root] = Dir
  BY <1>2 DEF IsTree, Hangs
<1>7. \A q \in Paths' : tree'[q] \in Inodes
  BY <1>2 DEF IsTree, Hangs
<1>8. ASSUME NEW q \in Paths', q # Root PROVE Parent(q) \in Paths' /\ tree'[Parent(q)].type = "dir"
  <2>1. CASE q \in Paths
    <3>1. Parent(q) \in Paths /\ tree[Parent(q)].type = "dir"
      BY <1>8, <2>1 DEF IsTree, IsDir
    <3>2. tree'[Parent(q)] = tree[Parent(q)]
      BY <3>1 DEF Hangs
    <3> QED
      BY <1>2, <3>1, <3>2
  <2>2. CASE q \notin Paths
    <3>1. PICK i \in 1 .. k : q = Upto(p, i)
      BY <1>2, <2>2
    <3>2. Parent(q) = Upto(p, i - 1)
      BY <1>3, <3>1, ParentOfUpto
    <3>3. CASE i = 1
      <4>1. Parent(q) = Root
        BY <3>2, <3>3, UptoEnds
      <4>2. Dir.type = "dir"
        BY DEF Dir
      <4> QED
        BY <1>6, <4>1, <4>2
    <3>4. CASE i # 1
      <4> DEFINE j == i - 1
      <4>1. j \in 1 .. k /\ j < Len(p) /\ j \in 1 .. Len(p) - 1
        BY <1>1, <3>4
      <4>2. Parent(q) = Upto(p, j)
        BY <3>2
      <4> HIDE DEF j
      <4>3. CASE Upto(p, j) \in Paths
        <5>1. tree[Upto(p, j)].type = "dir"
          BY <4>1, <4>3 DEF Blocked, IsDir
        <5> QED
          BY <1>2, <4>2, <4>3, <5>1 DEF Hangs
      <4>4. CASE Upto(p, j) \notin Paths
        <5>1. tree'[Upto(p, j)] = Dir
          BY <4>1, <4>4 DEF Hangs
        <5>2. Dir.type = "dir"
          BY DEF Dir
        <5> QED
          BY <1>2, <4>1, <4>2, <5>1, <5>2
      <4> QED
        BY <4>3, <4>4
    <3> QED
      BY <3>3, <3>4
  <2> QED
    BY <2>1, <2>2
<1> QED
  BY <1>5, <1>6, <1>7, <1>8 DEF IsTree, IsDir

Keeps == Paths \subseteq Paths' /\ \A q \in Paths : tree'[q] = tree[q]

LEMMA InstalledGrows ==
  ASSUME IsTree, NEW e \in Entries, Installed(e)
  PROVE  /\ IsTree' /\ Keeps
         /\ e.path \in Paths' /\ (e.inode # Dir => tree'[e.path] = e.inode)
<1>1. e.path \in Seq(Names) /\ e.inode \in Inodes /\ ~Blocked(e.path)
  BY DEF Entries, Installed
<1>2. CASE UNCHANGED tree /\ e.path \in Paths /\ e.inode = Dir
  BY <1>2 DEF IsTree, Keeps, Paths, Parent, IsDir
<1>3. CASE /\ e.path \notin Paths
           /\ tree' = [p \in Paths \cup {Upto(e.path, i) : i \in 1 .. Len(e.path)} |->
                         IF p = e.path THEN e.inode ELSE IF p \in Paths THEN tree[p] ELSE Dir]
  <2> DEFINE p == e.path
             n == Len(p)
  <2>1. n \in Nat /\ n \in 0 .. n
    BY <1>1, LenProperties
  <2>2. p # Root
    BY <1>3 DEF IsTree
  <2>3. Upto(p, n) = p
    BY <1>1, UptoEnds
  <2>4. n \in 1 .. n
    BY <1>1, <2>1, <2>2, EmptySeq DEF Root
  <2>5. ASSUME NEW i \in 1 .. n, i < n PROVE Upto(p, i) # p
    <3>1. i \in 0 .. Len(p)
      BY <2>1
    <3>2. Len(Upto(p, i)) = i
      BY <1>1, <3>1, UptoIsPath
    <3> QED
      BY <2>1, <2>5, <3>2
  <2>6. Dir \in Inodes
    BY DEF Inodes
  <2>7. DOMAIN tree' = Paths \cup {Upto(p, i) : i \in 1 .. n}
    BY <1>3
  <2>8. \A q \in Paths : tree'[q] = tree[q]
    BY <1>3
  <2>9. \A i \in 1 .. n : Upto(p, i) \notin Paths =>
          tree'[Upto(p, i)] \in Inodes /\ (i < n => tree'[Upto(p, i)] = Dir)
    BY <1>1, <1>3, <2>5, <2>6
  <2>10. Hangs(p, n)
    BY <2>7, <2>8, <2>9 DEF Hangs
  <2>11. IsTree'
    BY <1>1, <2>1, <2>10, TreeGrows
  <2>12. p \in Paths' /\ tree'[p] = e.inode /\ Paths \subseteq Paths'
    BY <1>3, <2>3, <2>4 DEF Paths
  <2> QED
    BY <2>8, <2>11, <2>12 DEF Keeps
<1> QED
  BY <1>2, <1>3 DEF Installed

LEMMA RefusedGrows ==
  ASSUME IsTree, NEW e \in Entries, Refused(e)
  PROVE  IsTree' /\ Keeps
<1>1. e.path \in Seq(Names)
  BY DEF Entries
<1>2. CASE UNCHANGED tree
  BY <1>2 DEF IsTree, Keeps, Paths, Parent, IsDir
<1>3. CASE /\ ~Blocked(e.path)
           /\ \E k \in 0 .. Len(e.path) - 1 : tree' = Grown(MissingDirs(e.path, k))
  <2> DEFINE p == e.path
  <2>1. PICK k \in 0 .. Len(p) - 1 : tree' = Grown(MissingDirs(p, k))
    BY <1>3
  <2>2. Len(p) \in Nat /\ k \in 0 .. Len(p)
    BY <1>1, <2>1, LenProperties
  <2>3. tree' = [q \in Paths \cup MissingDirs(p, k) |-> IF q \in MissingDirs(p, k) THEN Dir ELSE tree[q]]
    BY <2>1 DEF Grown
  <2>4. MissingDirs(p, k) = {Upto(p, i) : i \in 1 .. k} \ Paths
    BY DEF MissingDirs
  <2>5. Dir \in Inodes
    BY DEF Inodes
  <2>6. DOMAIN tree' = Paths \cup {Upto(p, i) : i \in 1 .. k}
    BY <2>3, <2>4
  <2>7. \A q \in Paths : tree'[q] = tree[q]
    BY <2>3, <2>4
  <2>8. \A i \in 1 .. k : Upto(p, i) \notin Paths => tree'[Upto(p, i)] = Dir
    BY <2>3, <2>4
  <2>9. Hangs(p, k)
    BY <2>5, <2>6, <2>7, <2>8 DEF Hangs
  <2>10. IsTree'
    BY <1>1, <1>3, <2>2, <2>9, TreeGrows
  <2> QED
    BY <2>6, <2>7, <2>10 DEF Keeps, Paths
<1> QED
  BY <1>2, <1>3 DEF Refused

-----------------------------------------------------------------------------
(***************************************************************************)
(* Steps of boot.                                                          *)
(***************************************************************************)
LEMMA LateTyped == LateDevices \in Seq(Entries) /\ LateDirs \in Seq(Entries)
<1>1. File \in Inodes /\ Dir \in Inodes
  BY DEF Inodes
<1>2. ASSUME NEW paths \in Seq(Seq(Names)), NEW inode \in Inodes
      PROVE  [i \in DOMAIN paths |-> Entry(paths[i], inode)] \in Seq(Entries)
  <2>1. Len(paths) \in Nat /\ DOMAIN paths = 1 .. Len(paths)
    BY LenProperties
  <2>2. \A i \in 1 .. Len(paths) : paths[i] \in Seq(Names)
    BY ElementOfSeq
  <2>3. \A i \in 1 .. Len(paths) : Entry(paths[i], inode) \in Entries
    BY <2>2 DEF Entry, Entries
  <2>4. [i \in DOMAIN paths |-> Entry(paths[i], inode)] \in [1 .. Len(paths) -> Entries]
    BY <2>1, <2>3
  <2> QED
    BY <2>1, <2>4, SeqDef
<1> QED
  BY <1>1, <1>2, VfsAssumption DEF LateDevices, LateDirs

\* What is added leaves the archive's entries as they are.
LEMMA TakenKept ==
  ASSUME VfsInv, Keeps
  PROVE  \A e \in taken : e.path \in Paths' /\ (e.inode # Dir => tree'[e.path] = e.inode)
  BY DEF VfsInv, TakenStays, Keeps

LEMMA LookKept == LookTyped /\ UNCHANGED look => LookTyped'
  BY DEF LookTyped, Lookups

LEMMA InstallStep ==
  ASSUME VfsInv, NEW e \in Entries, cpio_install_entry(e)
  PROVE  VfsInv'
<1>1. IsTree /\ BootTyped /\ LookTyped
  BY DEF VfsInv
<1>2. left' \in 0 .. MaxEntries
  BY <1>1, VfsAssumption DEF cpio_install_entry, BootTyped
<1>3. LookTyped'
  BY <1>1, LookKept DEF cpio_install_entry
<1>4. CASE Installed(e) /\ taken' = taken \cup {e} /\ UNCHANGED <<phase, late>>
  <2>1. /\ IsTree' /\ Keeps
        /\ e.path \in Paths' /\ (e.inode # Dir => tree'[e.path] = e.inode)
    BY <1>1, <1>4, InstalledGrows
  <2>2. BootTyped'
    BY <1>1, <1>2, <1>4 DEF BootTyped
  <2>3. TakenStays'
    BY <1>4, <2>1, TakenKept DEF TakenStays
  <2> QED
    BY <1>3, <2>1, <2>2, <2>3 DEF VfsInv
<1>5. CASE Refused(e) /\ phase' = "up" /\ late' = LateDirs /\ UNCHANGED taken
  <2>1. IsTree' /\ Keeps
    BY <1>1, <1>5, RefusedGrows
  <2>2. BootTyped'
    BY <1>1, <1>2, <1>5, LateTyped DEF BootTyped
  <2>3. TakenStays'
    BY <1>5, <2>1, TakenKept DEF TakenStays
  <2> QED
    BY <1>3, <2>1, <2>2, <2>3 DEF VfsInv
<1> QED
  BY <1>4, <1>5 DEF cpio_install_entry

LEMMA BootEntryStep ==
  ASSUME VfsInv, boot_entry
  PROVE  VfsInv'
<1>1. IsTree /\ BootTyped /\ LookTyped /\ late \in Seq(Entries) /\ late # <<>>
  BY DEF VfsInv, BootTyped, boot_entry
<1>2. Head(late) \in Entries /\ Tail(late) \in Seq(Entries)
  BY <1>1, HeadTailProperties
<1>3. PICK e \in Entries : Installed(e) \/ Refused(e)
  BY <1>2 DEF boot_entry
<1>4. IsTree' /\ Keeps
  BY <1>1, <1>3, InstalledGrows, RefusedGrows
<1>5. BootTyped'
  BY <1>1, <1>2 DEF BootTyped, boot_entry
<1>6. TakenStays'
  BY <1>4, TakenKept DEF TakenStays, boot_entry
<1>7. LookTyped'
  BY <1>1, LookKept DEF boot_entry
<1> QED
  BY <1>4, <1>5, <1>6, <1>7 DEF VfsInv

LEMMA TreeStays ==
  ASSUME VfsInv, UNCHANGED <<tree, taken>>
  PROVE  IsTree' /\ TakenStays'
  BY DEF VfsInv, IsTree, TakenStays, Paths, Parent, IsDir

LEMMA SkipAndEndStep ==
  ASSUME VfsInv, cpio_skip_entry \/ cpio_ends
  PROVE  VfsInv'
<1>1. IsTree' /\ TakenStays'
  BY TreeStays DEF cpio_skip_entry, cpio_ends
<1>2. LookTyped'
  BY LookKept DEF cpio_skip_entry, cpio_ends, VfsInv
<1>3. late' \in Seq(Entries)
  <2>1. LateDevices \o LateDirs \in Seq(Entries)
    BY LateTyped, ConcatProperties
  <2> QED
    BY <2>1, LateTyped DEF cpio_skip_entry, cpio_ends, VfsInv, BootTyped
<1>4. BootTyped'
  BY <1>3, VfsAssumption DEF cpio_skip_entry, cpio_ends, VfsInv, BootTyped
<1> QED
  BY <1>1, <1>2, <1>4 DEF VfsInv

-----------------------------------------------------------------------------
(***************************************************************************)
(* Steps of a lookup.                                                      *)
(***************************************************************************)
LEMMA LookStep ==
  ASSUME VfsInv, LookTyped', UNCHANGED <<tree, phase, left, late, taken>>
  PROVE  VfsInv'
<1>1. IsTree' /\ TakenStays'
  BY TreeStays
<1>2. BootTyped'
  BY DEF VfsInv, BootTyped
<1> QED
  BY <1>1, <1>2 DEF VfsInv

LEMMA AskStep ==
  ASSUME VfsInv, NEW p \in PathsUpTo(MaxPath), NEW slash \in BOOLEAN, NEW follow \in BOOLEAN,
         lookup(p, slash, follow)
  PROVE  VfsInv'
<1>1. p \in Seq(Names) /\ Len(p) <= MaxPath /\ Len(p) \in Nat
  BY AskedPaths, LenProperties
<1>2. MaxPath \in Nat /\ PathBuf \in Nat /\ MaxPath <= PathBuf /\ 0 \in 0 .. MaxDepth
  BY VfsAssumption
<1>3. Root \in Seq(Names)
  BY EmptySeq DEF Root
<1>4. look' = [ask |-> p, follow |-> follow, path |-> p, pos |-> 0, slash |-> slash, depth |-> 0,
               bent |-> FALSE, state |-> "walk", res |-> Nowhere]
  BY DEF lookup, NoLookup
<1>5. look' \in Lookups
  BY <1>1, <1>2, <1>3, <1>4 DEF Lookups
<1>6. look'.pos = 0 /\ look'.path = p
  BY <1>4
<1>7. LookTyped'
  BY <1>1, <1>2, <1>5, <1>6 DEF LookTyped, Lookups
<1> QED
  BY <1>7, LookStep DEF lookup

\* A lookup that ends.
LEMMA AnswerTyped ==
  ASSUME VfsInv, NEW res \in Seq(Names) \cup {Nowhere}, Answer(res)
  PROVE  LookTyped'
<1>1. look \in Lookups /\ look.pos <= Len(look.path) /\ Len(look.path) <= PathBuf
  BY DEF VfsInv, LookTyped
<1>2. look' = [look EXCEPT !.state = "done", !.res = res]
  BY DEF Answer
<1>3. look' \in Lookups /\ look'.pos = look.pos /\ look'.path = look.path
  BY <1>1, <1>2 DEF Lookups
<1> QED
  BY <1>1, <1>3 DEF LookTyped, Lookups

LEMMA HereIsPath ==
  ASSUME VfsInv
  PROVE  /\ look.path \in Seq(Names) /\ Len(look.path) \in Nat /\ look.pos \in 0 .. Len(look.path)
         /\ Here \in Seq(Names)
<1>1. /\ look.path \in Seq(Names) /\ look.pos \in Nat /\ look.pos <= Len(look.path)
  BY DEF VfsInv, LookTyped, Lookups
<1>2. Len(look.path) \in Nat
  BY <1>1, LenProperties
<1>3. look.pos \in 0 .. Len(look.path)
  BY <1>1, <1>2
<1>4. PICK p, i : p = look.path /\ i = look.pos
  OBVIOUS
<1>5. p \in Seq(Names) /\ i \in 0 .. Len(p)
  BY <1>1, <1>3, <1>4
<1>6. Upto(p, i) \in Seq(Names)
  BY <1>5, UptoIsPath
<1> QED
  BY <1>1, <1>2, <1>3, <1>4, <1>6 DEF Here

LEMMA WalkStep ==
  ASSUME VfsInv, lookup_found \/ lookup_missing \/ lookup_name
  PROVE  VfsInv'
<1>1. CASE lookup_found
  <2>1. PICK res \in Seq(Names) \cup {Nowhere} : res = Here
    BY HereIsPath
  <2>2. Answer(res)
    BY <1>1, <2>1 DEF lookup_found, Answer
  <2>3. LookTyped'
    BY <2>2, AnswerTyped
  <2> QED
    BY <1>1, <2>3, LookStep DEF lookup_found
<1>2. CASE lookup_missing
  <2>1. LookTyped'
    BY <1>2, AnswerTyped DEF lookup_missing
  <2> QED
    BY <1>2, <2>1, LookStep DEF lookup_missing
<1>3. CASE lookup_name
  <2>1. look' = [look EXCEPT !.pos = @ + 1] /\ look.pos < Len(look.path)
    BY <1>3 DEF lookup_name
  <2>2. look \in Lookups /\ Len(look.path) <= PathBuf
    BY DEF VfsInv, LookTyped
  <2>3. look' \in Lookups /\ look'.pos = look.pos + 1 /\ look'.path = look.path
    <3>1. PICK n \in Nat : n = look.pos + 1
      BY <2>2 DEF Lookups
    <3>2. look' = [look EXCEPT !.pos = n]
      BY <2>1, <3>1
    <3>3. look' \in Lookups /\ look'.pos = n /\ look'.path = look.path
      BY <2>2, <3>1, <3>2 DEF Lookups
    <3> QED
      BY <3>1, <3>3
  <2>4. look.pos + 1 <= Len(look.path)
    BY <2>1, HereIsPath
  <2>5. LookTyped'
    BY <2>2, <2>3, <2>4 DEF LookTyped, Lookups
  <2> QED
    BY <1>3, <2>5, LookStep DEF lookup_name
<1> QED
  BY <1>1, <1>2, <1>3

LEMMA CutIsPath ==
  ASSUME NEW p \in Seq(Names), NEW n \in Nat
  PROVE  Cut(p, n) \in Seq(Names)
<1>1. Len(p) \in Nat
  BY LenProperties
<1>2. Len(p) > n => n \in 0 .. Len(p)
  BY <1>1
<1> QED
  BY <1>2, UptoIsPath DEF Cut

\* Whether a slash is left is a truth value.
LEMMA SlashIsBoolean ==
  ASSUME VfsInv, AtLink, NEW all
  PROVE  SlashLeft(tree[Step].target, all) \subseteq BOOLEAN
<1>1. look.slash \in BOOLEAN
  BY DEF VfsInv, LookTyped, Lookups
<1>2. tree[Step] \in Inodes
  BY DEF VfsInv, IsTree, AtLink
<1>3. tree[Step].target = NoTarget \/ tree[Step].target \in Targets
  BY <1>2 DEF Inodes, Dir, File, Link
<1>4. tree[Step].target.slash \in BOOLEAN
  <2>1. PICK target : target = tree[Step].target
    OBVIOUS
  <2>2. CASE target = NoTarget
    <3>1. target.slash = FALSE
      BY <2>2 DEF NoTarget
    <3> QED
      BY <2>1, <3>1
  <2>3. CASE target \in Targets
    BY <2>1, <2>3, VfsAssumption, Zenon
  <2> QED
    BY <1>3, <2>1, <2>2, <2>3
<1> QED
  BY <1>1, <1>4 DEF SlashLeft

LEMMA LinkStep ==
  ASSUME VfsInv, lookup_link
  PROVE  VfsInv'
<1>1. PICK p, i : p = look.path /\ i = look.pos
  OBVIOUS
<1>2. p \in Seq(Names) /\ Len(p) \in Nat /\ i \in 0 .. Len(p) /\ i < Len(p)
  BY <1>1, HereIsPath DEF lookup_link, AtLink
<1>3. i + 1 \in 0 .. Len(p)
  BY <1>2
<1>4. PICK step, here : step = Upto(p, i + 1) /\ here = Upto(p, i)
  OBVIOUS
<1>5. step \in Seq(Names) /\ here \in Seq(Names)
  BY <1>2, <1>3, <1>4, UptoIsPath
<1>6. step = Step /\ here = Here
  BY <1>1, <1>4 DEF Step, Here
<1>7. PICK target : target = tree[step].target
  OBVIOUS
<1>8. target.path \in Seq(Names)
  <2>1. step \in Paths
    BY <1>6 DEF lookup_link, AtLink
  <2>2. tree[step] \in Inodes
    BY <2>1 DEF VfsInv, IsTree
  <2>3. Root \in Seq(Names)
    BY EmptySeq DEF Root
  <2>4. target = NoTarget \/ target \in Targets
    BY <1>7, <2>2 DEF Inodes, Dir, File, Link
  <2> QED
    BY <2>3, <2>4, VfsAssumption DEF NoTarget
<1>9. PICK more : more = SlashFollows
  OBVIOUS
<1>10. PICK linkbuf : linkbuf = vfs_symlink_resolve(target, more)
  OBVIOUS
<1>11. linkbuf \in Seq(Names)
  <2>1. Root \in Seq(Names)
    BY EmptySeq DEF Root
  <2>2. Step \o target.path \in Seq(Names) /\ Here \o target.path \in Seq(Names)
    BY <1>5, <1>6, <1>8, ConcatProperties
  <2>3. Cut(target.path, PathBuf) \in Seq(Names)
    BY <1>8, CutIsPath, VfsAssumption
  <2> QED
    BY <1>10, <2>1, <2>2, <2>3 DEF vfs_symlink_resolve
<1>12. PICK all : all = After(p, i + 1)
  OBVIOUS
<1>13. all \in Seq(Names) /\ Len(all) \in Nat
  BY <1>2, <1>3, <1>12, AfterIsPath, LenProperties
<1>14. PICK rest : rest = Cut(all, RestBuf)
  OBVIOUS
<1>15. rest \in Seq(Names)
  BY <1>13, <1>14, CutIsPath, VfsAssumption
<1>16. PICK b : b = (look.bent \/ Bends(target, more, all))
  OBVIOUS
<1>17. \/ Answer(Nowhere)
       \/ look' = [look EXCEPT !.state = "done", !.res = Nowhere, !.bent = TRUE]
       \/ /\ ~(Len(linkbuf) + Len(rest) > PathBuf)
          /\ \E sl \in SlashLeft(target, all) :
               look' = [look EXCEPT !.path = linkbuf \o rest, !.pos = 0, !.depth = 0, !.slash = sl, !.bent = b]
  BY <1>1, <1>6, <1>7, <1>9, <1>10, <1>12, <1>14, <1>16 DEF lookup_link
<1>18. b \in BOOLEAN /\ look \in Lookups
  BY <1>16 DEF VfsInv, LookTyped
<1>19. LookTyped'
  <2>1. CASE Answer(Nowhere)
    BY <2>1, AnswerTyped
  <2>2. CASE look' = [look EXCEPT !.state = "done", !.res = Nowhere, !.bent = TRUE]
    <3>1. look' \in Lookups /\ look'.pos = look.pos /\ look'.path = look.path
      BY <1>18, <2>2 DEF Lookups
    <3> QED
      BY <3>1 DEF VfsInv, LookTyped
  <2>3. CASE /\ ~(Len(linkbuf) + Len(rest) > PathBuf)
             /\ \E sl \in SlashLeft(target, all) :
                  look' = [look EXCEPT !.path = linkbuf \o rest, !.pos = 0, !.depth = 0, !.slash = sl, !.bent = b]
    <3>0. PICK sl \in BOOLEAN :
            look' = [look EXCEPT !.path = linkbuf \o rest, !.pos = 0, !.depth = 0, !.slash = sl, !.bent = b]
      BY <1>6, <1>7, <2>3, SlashIsBoolean DEF lookup_link
    <3>1. linkbuf \o rest \in Seq(Names) /\ Len(linkbuf \o rest) = Len(linkbuf) + Len(rest)
      BY <1>11, <1>15, ConcatProperties
    <3>2. Len(linkbuf) \in Nat /\ Len(rest) \in Nat /\ 0 \in 0 .. MaxDepth /\ PathBuf \in Nat
      BY <1>11, <1>15, LenProperties, VfsAssumption
    <3>3. look' \in Lookups /\ look'.pos = 0 /\ look'.path = linkbuf \o rest
      BY <1>18, <3>0, <3>1, <3>2 DEF Lookups
    <3>4. 0 <= Len(look'.path) /\ Len(look'.path) <= PathBuf
      BY <2>3, <3>1, <3>2, <3>3
    <3> QED
      BY <3>3, <3>4 DEF LookTyped, Lookups
  <2> QED
    BY <1>17, <2>1, <2>2, <2>3
<1> QED
  BY <1>19, LookStep DEF lookup_link

-----------------------------------------------------------------------------
(***************************************************************************)
(* Theorems.                                                               *)
(***************************************************************************)
LEMMA InitInv == Init => VfsInv
<1> SUFFICES ASSUME Init PROVE VfsInv
  OBVIOUS
<1>1. Root \in Seq(Names) /\ Dir \in Inodes /\ Len(Root) = 0 /\ <<>> \in Seq(Entries)
  BY EmptySeq DEF Root, Inodes
<1>2. IsTree
  BY <1>1 DEF Init, IsTree, Paths
<1>3. BootTyped
  BY <1>1, VfsAssumption DEF Init, BootTyped
<1>4. LookTyped
  <2>1. look = [ask |-> Root, follow |-> TRUE, path |-> Root, pos |-> 0, slash |-> FALSE, depth |-> 0,
                bent |-> FALSE, state |-> "idle", res |-> Nowhere]
    BY DEF Init, NoLookup
  <2>2. look \in Lookups
    BY <1>1, <2>1, VfsAssumption DEF Lookups
  <2> QED
    BY <1>1, <2>1, <2>2, VfsAssumption DEF LookTyped
<1>5. TakenStays
  BY DEF Init, TakenStays
<1> QED
  BY <1>2, <1>3, <1>4, <1>5 DEF VfsInv

LEMMA NextInv == VfsInv /\ [Next]_vars => VfsInv'
<1> SUFFICES ASSUME VfsInv, [Next]_vars PROVE VfsInv'
  OBVIOUS
<1>1. CASE UNCHANGED vars
  <2>1. LookTyped'
    BY <1>1, LookKept DEF vars, VfsInv
  <2> QED
    BY <1>1, <2>1, LookStep DEF vars
<1>2. ASSUME NEW p \in PathsUpTo(MaxPath), NEW i \in Inodes, cpio_install_entry(Entry(p, i))
      PROVE  VfsInv'
  <2>1. PICK e \in Entries : e = Entry(p, i)
    BY AskedPaths DEF Entry, Entries
  <2> QED
    BY <1>2, <2>1, InstallStep
<1>3. ASSUME NEW p \in PathsUpTo(MaxPath), NEW slash \in BOOLEAN, NEW follow \in BOOLEAN,
         lookup(p, slash, follow)
      PROVE  VfsInv'
  BY <1>3, AskStep
<1>4. CASE LookupStep
  BY <1>4, WalkStep, LinkStep DEF LookupStep
<1> QED
  BY <1>1, <1>2, <1>3, <1>4, SkipAndEndStep, BootEntryStep DEF Next

\* VfsInv holds whatever the archive contains and wherever memory runs out.
THEOREM VfsInvariant == Spec => []VfsInv
<1> QED
  BY InitInv, NextInv, PTL DEF Spec

\* The file system is a tree of directories with everything else at its
\* leaves, and a lookup stays inside its buffers (vfs_lookup_parent,
\* vfs_dir_add, vfs_lookup_path).
THEOREM TypeCorrect == Spec => []TypeOK
<1>1. VfsInv => TypeOK
  <2> SUFFICES ASSUME VfsInv PROVE TypeOK
    OBVIOUS
  <2>1. /\ look.state \in {"idle", "walk", "done"} /\ look.depth \in 0 .. MaxDepth
        /\ look.slash \in BOOLEAN /\ Len(look.path) <= PathBuf /\ look.pos \in 0 .. Len(look.path)
    BY HereIsPath DEF VfsInv, LookTyped, Lookups
  <2> QED
    BY <2>1 DEF VfsInv, IsTree, BootTyped, TypeOK
<1> QED
  BY <1>1, VfsInvariant, PTL

\* What the archive put in place stays as the archive has it, whatever is
\* unpacked after it or added by boot (vfs_create, vfs_symlink, vfs_mkdir).
THEOREM ArchiveStays == Spec => []TakenStays
<1>1. VfsInv => TakenStays
  BY DEF VfsInv
<1> QED
  BY <1>1, VfsInvariant, PTL

-----------------------------------------------------------------------------
(***************************************************************************)
(* What a path stands for.  The resolution is stated for a tree T, so that *)
(* a step that leaves the tree alone leaves it alone.                      *)
(***************************************************************************)
LinkIn(T, p, i) == Upto(p, i) \in DOMAIN T /\ T[Upto(p, i)].type = "symlink"
LinkedIn(T, p)  == \E i \in 1 .. Len(p) : LinkIn(T, p, i)
FirstIn(T, p, i) == i \in 1 .. Len(p) /\ LinkIn(T, p, i) /\ \A j \in 1 .. i - 1 : ~LinkIn(T, p, j)
Replaced(T, p, i) ==
  (IF T[Upto(p, i)].target.abs THEN Root ELSE Upto(p, i - 1)) \o T[Upto(p, i)].target.path \o After(p, i)
OnceIn(T, p) ==
  LET i == CHOOSE i \in 1 .. Len(p) : LinkIn(T, p, i) /\ \A j \in 1 .. i - 1 : ~LinkIn(T, p, j)
      t == T[Upto(p, i)].target
      base == IF t.abs THEN Root ELSE Upto(p, i - 1)
  IN  base \o t.path \o After(p, i)

\* f unfolds as Unlinked does.
Unlinks(f, T) ==
  /\ \A p \in Seq(Names) : f[0][p] = p
  /\ \A n \in Nat, p \in Seq(Names) :
       f[n + 1][p] = IF ~LinkedIn(T, p) THEN p ELSE f[n][OnceIn(T, p)]

LEMMA InThisTree ==
  /\ \A p, i : LinkAt(p, i) <=> LinkIn(tree, p, i)
  /\ \A p : Linked(p) <=> LinkedIn(tree, p)
  /\ \A p : Once(p) = OnceIn(tree, p)
<1>1. \A p, i : LinkAt(p, i) <=> LinkIn(tree, p, i)
  BY DEF LinkAt, LinkIn, Paths, IsLink
<1>2. \A p : Linked(p) <=> LinkedIn(tree, p)
  BY <1>1 DEF Linked, LinkedIn
<1>3. \A p : Once(p) = OnceIn(tree, p)
  BY DEF Once, OnceIn, LinkAt, LinkIn, Paths, IsLink
<1> QED
  BY <1>1, <1>2, <1>3

LEMMA FirstLink ==
  ASSUME NEW T, NEW p \in Seq(Names), LinkedIn(T, p)
  PROVE  \E i : FirstIn(T, p, i)
<1>1. Len(p) \in Nat
  BY LenProperties
<1> DEFINE S == {i \in 1 .. Len(p) : LinkIn(T, p, i)}
<1>2. PICK n \in Nat : n \in S
  BY <1>1 DEF LinkedIn
<1>3. S \subseteq Nat /\ \A i \in S : i \in 1 .. Len(p) /\ LinkIn(T, p, i)
  BY <1>1
<1>4. \A i \in 1 .. Len(p) : LinkIn(T, p, i) => i \in S
  OBVIOUS
<1> HIDE DEF S
<1>5. PICK m \in Nat : m \in S /\ \A j \in Nat : j < m => j \notin S
  BY <1>2, LeastNumber
<1>6. \A j \in 1 .. m - 1 : j \in Nat /\ j < m /\ j \in 1 .. Len(p)
  BY <1>1, <1>3, <1>5
<1> QED
  BY <1>3, <1>4, <1>5, <1>6 DEF FirstIn

LEMMA OnceAtFirst ==
  ASSUME NEW T, NEW p \in Seq(Names), NEW i, FirstIn(T, p, i)
  PROVE  LinkedIn(T, p) /\ OnceIn(T, p) = Replaced(T, p, i)
<1>1. Len(p) \in Nat
  BY LenProperties
<1> DEFINE First(j) == LinkIn(T, p, j) /\ \A k \in 1 .. j - 1 : ~LinkIn(T, p, k)
           c == CHOOSE j \in 1 .. Len(p) : First(j)
<1>2. i \in 1 .. Len(p) /\ First(i)
  BY DEF FirstIn
<1>3. c \in 1 .. Len(p) /\ First(c)
  BY <1>2, Zenon
<1>4. OnceIn(T, p) = Replaced(T, p, c)
  BY DEF OnceIn, Replaced
<1> HIDE DEF c
<1>5. c = i
  <2>1. ~(c < i) /\ ~(i < c)
    <3>1. c < i => c \in 1 .. i - 1
      BY <1>1, <1>2, <1>3
    <3>2. i < c => i \in 1 .. c - 1
      BY <1>1, <1>2, <1>3
    <3> QED
      BY <1>2, <1>3, <3>1, <3>2
  <2> QED
    BY <1>1, <1>2, <1>3, <2>1
<1> QED
  BY <1>2, <1>4, <1>5 DEF LinkedIn

\* What a link stands for is a path.
LEMMA OnceIsPath ==
  ASSUME IsTree, NEW p \in Seq(Names), LinkedIn(tree, p)
  PROVE  OnceIn(tree, p) \in Seq(Names)
<1>1. PICK i : FirstIn(tree, p, i)
  BY FirstLink
<1>2. Len(p) \in Nat /\ i \in 1 .. Len(p) /\ LinkIn(tree, p, i)
  BY <1>1, LenProperties DEF FirstIn
<1>3. i \in 0 .. Len(p) /\ i - 1 \in 0 .. Len(p)
  BY <1>2
<1>4. PICK t : t = tree[Upto(p, i)].target
  OBVIOUS
<1>5. t.path \in Seq(Names)
  <2>1. tree[Upto(p, i)] \in Inodes
    BY <1>2 DEF IsTree, LinkIn, Paths
  <2>2. Root \in Seq(Names)
    BY EmptySeq DEF Root
  <2>3. t = NoTarget \/ t \in Targets
    BY <1>4, <2>1 DEF Inodes, Dir, File, Link
  <2> QED
    BY <2>2, <2>3, VfsAssumption DEF NoTarget
<1>6. PICK base \in Seq(Names) : base = IF t.abs THEN Root ELSE Upto(p, i - 1)
  <2>1. Root \in Seq(Names) /\ Upto(p, i - 1) \in Seq(Names)
    BY <1>3, UptoIsPath, EmptySeq DEF Root
  <2> QED
    BY <2>1
<1>7. After(p, i) \in Seq(Names)
  BY <1>3, AfterIsPath
<1>8. base \o t.path \in Seq(Names)
  BY <1>5, <1>6, ConcatProperties
<1>9. (base \o t.path) \o After(p, i) \in Seq(Names)
  BY <1>7, <1>8, ConcatProperties
<1>10. OnceIn(tree, p) = (base \o t.path) \o After(p, i)
  BY <1>1, <1>4, <1>6, OnceAtFirst DEF Replaced
<1> QED
  BY <1>9, <1>10

\* The recursion by which Unlinked is defined has a solution.
LEMMA UnlinkedUnlinks ==
  ASSUME IsTree
  PROVE  Unlinks(Unlinked, tree)
<1> DEFINE X == [Seq(Names) -> Seq(Names)]
           x == [p \in Seq(Names) |-> p]
           Turn(g) == [p \in Seq(Names) |-> IF ~Linked(p) THEN p ELSE g[Once(p)]]
           F == [n \in Nat |-> [g \in X |-> Turn(g)]]
<1>1. \A p \in Seq(Names) : Linked(p) => Once(p) \in Seq(Names)
  BY OnceIsPath, InThisTree
<1>2. \A g \in X : Turn(g) \in X
  BY <1>1
<1>3. F \in [Nat -> [X -> X]] /\ x \in X
  BY <1>2
<1>4. \A n \in Nat, g \in X : F[n][g] = Turn(g)
  OBVIOUS
<1>5. \A p \in Seq(Names) : x[p] = p
  OBVIOUS
<1>6. \A g : \A p \in Seq(Names) : Turn(g)[p] = IF ~Linked(p) THEN p ELSE g[Once(p)]
  OBVIOUS
<1>7. \A g : Turn(g) = [p \in Seq(Names) |-> IF ~Linked(p) THEN p ELSE g[Once(p)]]
  OBVIOUS
<1>8. x = [p \in Seq(Names) |-> p]
  OBVIOUS
<1> HIDE DEF F, X, x, Turn
<1>9. PICK g : Iterates(g, x, F, X)
  BY <1>3, Recursion, Zenon
<1>10. g \in [Nat -> X] /\ g[0] = x /\ \A n \in Nat : g[n + 1] = Turn(g[n])
  BY <1>4, <1>9 DEF Iterates
<1> DEFINE Body(h, n) == [p \in Seq(Names) |-> IF n = 0 \/ ~Linked(p) THEN p ELSE h[n - 1][Once(p)]]
<1>11. g = [n \in Nat |-> Body(g, n)]
  <2>1. g[0] = Body(g, 0)
    BY <1>8, <1>10
  <2>2. ASSUME NEW n \in Nat, n # 0 PROVE g[n] = Body(g, n)
    <3>1. PICK m \in Nat : m = n - 1 /\ m + 1 = n
      BY <2>2
    <3>2. g[n] = Turn(g[m])
      BY <1>10, <3>1
    <3>3. Turn(g[m]) = [p \in Seq(Names) |-> IF ~Linked(p) THEN p ELSE g[m][Once(p)]]
      BY <1>7, Zenon
    <3>4. Body(g, n) = [p \in Seq(Names) |-> IF ~Linked(p) THEN p ELSE g[m][Once(p)]]
      BY <2>2, <3>1
    <3> QED
      BY <3>2, <3>3, <3>4, Zenon
  <2>3. \A n \in Nat : g[n] = Body(g, n)
    BY <2>1, <2>2, Zenon
  <2> HIDE DEF Body
  <2> QED
    BY <1>10, <2>3
<1> DEFINE u == CHOOSE h : h = [n \in Nat |-> Body(h, n)]
<1>12. u = [n \in Nat |-> Body(u, n)]
  BY <1>11, Zenon
<1>13. u = Unlinked
  BY DEF Unlinked
<1> HIDE DEF u
<1>14. \A n \in Nat : u[n] = Body(u, n)
  <2> HIDE DEF Body
  <2> QED
    BY <1>12
<1>15. \A p \in Seq(Names) : u[0][p] = p
  <2>1. u[0] = Body(u, 0)
    BY <1>14
  <2> QED
    BY <2>1
<1>16. ASSUME NEW n \in Nat, NEW p \in Seq(Names)
       PROVE  u[n + 1][p] = IF ~Linked(p) THEN p ELSE u[n][Once(p)]
  <2>1. PICK m \in Nat : m = n + 1 /\ m - 1 = n /\ m # 0
    OBVIOUS
  <2>2. u[m] = Body(u, m)
    BY <1>14, <2>1
  <2>3. u[m][p] = IF m = 0 \/ ~Linked(p) THEN p ELSE u[m - 1][Once(p)]
    BY <2>2
  <2> QED
    BY <2>1, <2>3
<1>17. Unlinks(u, tree)
  BY <1>15, <1>16, InThisTree DEF Unlinks
<1> QED
  BY <1>13, <1>17

-----------------------------------------------------------------------------
(***************************************************************************)
(* All of a path that exists hangs below directories.                      *)
(***************************************************************************)
LEMMA PrefixesExist ==
  ASSUME IsTree, NEW p \in Seq(Names), NEW i \in 0 .. Len(p), Upto(p, i) \in Paths,
         NEW j \in 0 .. i
  PROVE  Upto(p, j) \in Paths /\ (j < i => IsDir(Upto(p, j)))
<1>1. Len(p) \in Nat /\ i \in Nat /\ i <= Len(p) /\ j \in Nat /\ j <= i
  BY LenProperties
<1> DEFINE S == {n \in Nat : n <= i => Upto(p, i - n) \in Paths}
<1>2. ASSUME NEW m \in 1 .. i, Upto(p, m) \in Paths
      PROVE  Upto(p, m - 1) \in Paths /\ IsDir(Upto(p, m - 1))
  <2>1. m \in 0 .. Len(p) /\ m \in 1 .. Len(p)
    BY <1>1
  <2>2. Len(Upto(p, m)) = m
    BY <2>1, UptoIsPath
  <2>3. Upto(p, m) # Root
    <3>1. Len(Root) = 0
      BY EmptySeq DEF Root
    <3> QED
      BY <2>1, <2>2, <3>1
  <2>4. Parent(Upto(p, m)) = Upto(p, m - 1)
    BY <2>1, ParentOfUpto
  <2> QED
    BY <1>2, <2>3, <2>4 DEF IsTree
<1>3. 0 \in S
  <2>1. i - 0 = i
    BY <1>1
  <2> QED
    BY <2>1
<1>4. \A n \in Nat : n \in S => n + 1 \in S
  <2> SUFFICES ASSUME NEW n \in Nat, n \in S, n + 1 <= i PROVE Upto(p, i - (n + 1)) \in Paths
    OBVIOUS
  <2>1. PICK m \in 1 .. i : m = i - n /\ m - 1 = i - (n + 1) /\ n <= i
    BY <1>1
  <2>2. Upto(p, m) \in Paths
    BY <2>1
  <2> QED
    BY <1>2, <2>1, <2>2
<1> HIDE DEF S
<1>5. \A n \in Nat : n \in S
  BY <1>3, <1>4, SetInduction, Zenon
<1>6. ASSUME NEW k \in 0 .. i PROVE Upto(p, k) \in Paths
  <2>1. PICK n \in Nat : n = i - k /\ n <= i /\ i - n = k
    BY <1>1
  <2>2. n \in S
    BY <1>5, <2>1
  <2> QED
    BY <2>1, <2>2 DEF S
<1>7. Upto(p, j) \in Paths
  BY <1>6
<1>8. j < i => IsDir(Upto(p, j))
  <2> SUFFICES ASSUME j < i PROVE IsDir(Upto(p, j))
    OBVIOUS
  <2>1. PICK m \in 1 .. i : m = j + 1 /\ m - 1 = j /\ m \in 0 .. i
    BY <1>1
  <2>2. Upto(p, m) \in Paths
    BY <1>6, <2>1
  <2> QED
    BY <1>2, <2>1, <2>2
<1> QED
  BY <1>7, <1>8

-----------------------------------------------------------------------------
(***************************************************************************)
(* Lookups are right.  While a lookup walks, what is left to resolve of    *)
(* the path it has now is what is left of the path it was asked for, and   *)
(* the names passed are no links.                                          *)
(***************************************************************************)
Passed(T, p, n) == \A i \in 1 .. n : ~LinkIn(T, p, i)

OnTrack(T, l) ==
  /\ Passed(T, l.path, l.pos)
  /\ Upto(l.path, l.pos) \in DOMAIN T
  /\ \A f : Unlinks(f, T) =>
       LinkedIn(T, f[Fuel][l.ask]) \/ \E k \in 0 .. Fuel : f[k][l.path] = f[Fuel][l.ask]

Arrived(T, l) ==
  \A f : Unlinks(f, T) =>
    \/ LinkedIn(T, f[Fuel][l.ask])
    \/ l.res = IF f[Fuel][l.ask] \in DOMAIN T THEN f[Fuel][l.ask] ELSE Nowhere

RightInv ==
  /\ look.depth = 0
  /\ look.state # "idle" => phase = "up" /\ late = <<>>
  /\ look.state = "walk" /\ look.follow /\ ~look.bent => OnTrack(tree, look)
  /\ look.state = "done" /\ look.follow /\ ~look.bent => Arrived(tree, look)

\* A path without links stands for itself.
LEMMA NoLinkStays ==
  ASSUME NEW T, NEW f, Unlinks(f, T), NEW p \in Seq(Names), ~LinkedIn(T, p), NEW k \in Nat
  PROVE  f[k][p] = p
<1>1. CASE k = 0
  BY <1>1 DEF Unlinks
<1>2. CASE k # 0
  <2>1. PICK m \in Nat : m + 1 = k
    <3>1. k - 1 \in Nat /\ (k - 1) + 1 = k
      BY <1>2
    <3> QED
      BY <3>1
  <2>2. f[m + 1][p] = p
    BY <2>1, Zenon DEF Unlinks
  <2> QED
    BY <2>1, <2>2
<1> QED
  BY <1>1, <1>2

\* A lookup that comes to the end of a path without links.
LEMMA WalkEnds ==
  ASSUME NEW T, NEW l, OnTrack(T, l), l.path \in Seq(Names), ~LinkedIn(T, l.path),
         NEW m, m.ask = l.ask, m.res = IF l.path \in DOMAIN T THEN l.path ELSE Nowhere
  PROVE  Arrived(T, m)
<1> SUFFICES ASSUME NEW f, Unlinks(f, T), ~LinkedIn(T, f[Fuel][l.ask])
             PROVE  m.res = IF f[Fuel][l.ask] \in DOMAIN T THEN f[Fuel][l.ask] ELSE Nowhere
  BY DEF Arrived
<1>1. PICK k \in 0 .. Fuel : f[k][l.path] = f[Fuel][l.ask]
  BY DEF OnTrack
<1>2. PICK p \in Seq(Names) : p = l.path
  OBVIOUS
<1>3. k \in Nat
  BY <1>1, VfsAssumption DEF Fuel
<1>4. f[k][p] = p
  BY <1>2, <1>3, NoLinkStays
<1> QED
  BY <1>1, <1>2, <1>4

\* Nothing exists behind what is no directory.
LEMMA NothingBehind ==
  ASSUME IsTree, NEW p \in Seq(Names), NEW n \in 0 .. Len(p), n < Len(p),
         ~IsDir(Upto(p, n)) \/ Upto(p, n + 1) \notin Paths
  PROVE  \A i \in n + 1 .. Len(p) : Upto(p, i) \notin Paths
<1>1. Len(p) \in Nat /\ n \in Nat
  BY LenProperties
<1> SUFFICES ASSUME NEW i \in n + 1 .. Len(p), Upto(p, i) \in Paths PROVE FALSE
  OBVIOUS
<1>2. i \in 0 .. Len(p) /\ n \in 0 .. i /\ n < i /\ n + 1 \in 0 .. i
  BY <1>1
<1>3. IsDir(Upto(p, n))
  BY <1>2, PrefixesExist
<1>4. Upto(p, n + 1) \in Paths
  <2>1. PICK j \in 0 .. i : j = n + 1
    BY <1>2
  <2>2. Upto(p, j) \in Paths
    BY <1>2, <2>1, PrefixesExist
  <2> QED
    BY <2>1, <2>2
<1> QED
  BY <1>3, <1>4

LEMMA RightFound ==
  ASSUME VfsInv, RightInv, lookup_found
  PROVE  RightInv'
<1>1. /\ look.state = "walk" /\ look.pos = Len(look.path)
      /\ look' = [look EXCEPT !.state = "done", !.res = Here] /\ UNCHANGED <<tree, phase, late>>
  BY DEF lookup_found, Walking, Answer
<1>2. look \in Lookups
  BY DEF VfsInv, LookTyped
<1>3. /\ look'.state = "done" /\ look'.res = Here /\ look'.ask = look.ask /\ look'.depth = look.depth
      /\ look'.follow = look.follow /\ look'.bent = look.bent
  BY <1>1, <1>2 DEF Lookups
<1>4. ASSUME look.follow, ~look.bent PROVE Arrived(tree, look')
  <2>1. OnTrack(tree, look)
    BY <1>1, <1>4 DEF RightInv
  <2>2. PICK p, l, m : p = look.path /\ l = look /\ m = look'
    OBVIOUS
  <2>3. p \in Seq(Names) /\ look.pos = Len(p)
    BY <1>1, <2>2, HereIsPath
  <2>4. Here = p
    BY <2>2, <2>3, UptoEnds DEF Here
  <2>5. p \in DOMAIN tree
    BY <2>1, <2>2, <2>4 DEF OnTrack, Here
  <2>6. ~LinkedIn(tree, p)
    BY <2>1, <2>2, <2>3 DEF OnTrack, Passed, LinkedIn
  <2>7. /\ OnTrack(tree, l) /\ l.path \in Seq(Names) /\ ~LinkedIn(tree, l.path)
        /\ m.ask = l.ask /\ m.res = IF l.path \in DOMAIN tree THEN l.path ELSE Nowhere
    BY <1>3, <2>1, <2>2, <2>3, <2>4, <2>5, <2>6
  <2>8. Arrived(tree, m)
    BY <2>7, WalkEnds
  <2> QED
    BY <2>2, <2>8
<1>5. RightInv'
  BY <1>1, <1>3, <1>4 DEF RightInv
<1> QED
  BY <1>5

LEMMA RightMissing ==
  ASSUME VfsInv, RightInv, lookup_missing
  PROVE  RightInv'
<1>1. /\ look.state = "walk" /\ look.pos < Len(look.path) /\ (~IsDir(Here) \/ Step \notin Paths)
      /\ look' = [look EXCEPT !.state = "done", !.res = Nowhere] /\ UNCHANGED <<tree, phase, late>>
  BY DEF lookup_missing, Walking, Answer
<1>2. look \in Lookups
  BY DEF VfsInv, LookTyped
<1>3. /\ look'.state = "done" /\ look'.res = Nowhere /\ look'.ask = look.ask /\ look'.depth = look.depth
      /\ look'.follow = look.follow /\ look'.bent = look.bent
  BY <1>1, <1>2 DEF Lookups
<1>4. ASSUME look.follow, ~look.bent PROVE Arrived(tree, look')
  <2>1. OnTrack(tree, look)
    BY <1>1, <1>4 DEF RightInv
  <2>2. PICK p, l, m, n : p = look.path /\ l = look /\ m = look' /\ n = look.pos
    OBVIOUS
  <2>3. p \in Seq(Names) /\ Len(p) \in Nat /\ n \in 0 .. Len(p) /\ n < Len(p)
    BY <1>1, <2>2, HereIsPath
  <2>4. \A i \in n + 1 .. Len(p) : Upto(p, i) \notin Paths
    <3>1. ~IsDir(Upto(p, n)) \/ Upto(p, n + 1) \notin Paths
      BY <1>1, <2>2 DEF Here, Step
    <3> QED
      BY <2>3, <3>1, NothingBehind DEF VfsInv
  <2>5. p \notin DOMAIN tree
    <3>1. Len(p) \in n + 1 .. Len(p)
      BY <2>3
    <3>2. Upto(p, Len(p)) = p
      BY <2>3, UptoEnds
    <3> QED
      BY <2>4, <3>1, <3>2 DEF Paths
  <2>6. ~LinkedIn(tree, p)
    <3> SUFFICES ASSUME NEW i \in 1 .. Len(p), LinkIn(tree, p, i) PROVE FALSE
      BY DEF LinkedIn
    <3>1. i \in 1 .. n \/ i \in n + 1 .. Len(p)
      BY <2>3
    <3>2. i \notin 1 .. n
      BY <2>1, <2>2 DEF OnTrack, Passed
    <3> QED
      BY <2>4, <3>1, <3>2 DEF LinkIn, Paths
  <2>7. /\ OnTrack(tree, l) /\ l.path \in Seq(Names) /\ ~LinkedIn(tree, l.path)
        /\ m.ask = l.ask /\ m.res = IF l.path \in DOMAIN tree THEN l.path ELSE Nowhere
    BY <1>3, <2>1, <2>2, <2>3, <2>5, <2>6
  <2>8. Arrived(tree, m)
    BY <2>7, WalkEnds
  <2> QED
    BY <2>2, <2>8
<1> QED
  BY <1>1, <1>3, <1>4 DEF RightInv

LEMMA RightName ==
  ASSUME VfsInv, RightInv, lookup_name
  PROVE  RightInv'
<1>1. /\ look.state = "walk" /\ look.pos < Len(look.path) /\ Step \in Paths
      /\ ~(IsLink(Step) /\ look.follow)
      /\ look' = [look EXCEPT !.pos = look.pos + 1] /\ UNCHANGED <<tree, phase, late>>
  BY DEF lookup_name, Walking
<1>2. look \in Lookups
  BY DEF VfsInv, LookTyped
<1>3. /\ look'.state = "walk" /\ look'.path = look.path /\ look'.pos = look.pos + 1
      /\ look'.ask = look.ask /\ look'.depth = look.depth
      /\ look'.follow = look.follow /\ look'.bent = look.bent
  BY <1>1, <1>2 DEF Lookups
<1>4. ASSUME look.follow, ~look.bent PROVE OnTrack(tree, look')
  <2>1. OnTrack(tree, look)
    BY <1>1, <1>4 DEF RightInv
  <2>2. PICK p, n : p = look.path /\ n = look.pos
    OBVIOUS
  <2>3. Len(p) \in Nat /\ n \in 0 .. Len(p)
    BY <2>2, HereIsPath
  <2>4. ~LinkIn(tree, p, n + 1) /\ Upto(p, n + 1) \in DOMAIN tree
    BY <1>1, <1>4, <2>2 DEF Step, LinkIn, Paths, IsLink
  <2>5. Passed(tree, p, n + 1)
    <3>1. Passed(tree, p, n)
      BY <2>1, <2>2 DEF OnTrack
    <3>2. \A i \in 1 .. n + 1 : i \in 1 .. n \/ i = n + 1
      BY <2>3
    <3> QED
      BY <2>4, <3>1, <3>2 DEF Passed
  <2> QED
    BY <1>3, <2>1, <2>2, <2>4, <2>5 DEF OnTrack
<1> QED
  BY <1>1, <1>3, <1>4 DEF RightInv

\* Following a link is a turn of the resolution.
LEMMA TrackFollowed ==
  ASSUME NEW T, NEW l, NEW m, OnTrack(T, l), l.path \in Seq(Names), LinkedIn(T, l.path),
         m.ask = l.ask, m.path = OnceIn(T, l.path), m.pos = 0,
         m.path \in Seq(Names), Root \in DOMAIN T
  PROVE  OnTrack(T, m)
<1>1. Passed(T, m.path, m.pos)
  BY DEF Passed
<1>2. Upto(m.path, m.pos) \in DOMAIN T
  BY UptoEnds
<1>3. ASSUME NEW f, Unlinks(f, T), ~LinkedIn(T, f[Fuel][m.ask])
      PROVE  \E k \in 0 .. Fuel : f[k][m.path] = f[Fuel][m.ask]
  <2>1. PICK k \in 0 .. Fuel : f[k][l.path] = f[Fuel][l.ask]
    BY <1>3 DEF OnTrack
  <2>2. Fuel \in Nat /\ k \in Nat /\ k <= Fuel
    BY <2>1, VfsAssumption DEF Fuel
  <2>3. k # 0
    <3>1. f[0][l.path] = l.path
      BY <1>3, Zenon DEF Unlinks
    <3> QED
      BY <1>3, <2>1, <3>1
  <2>4. PICK j \in Nat : j + 1 = k
    <3>1. k - 1 \in Nat /\ (k - 1) + 1 = k
      BY <2>2, <2>3
    <3> QED
      BY <3>1
  <2>5. f[j + 1][l.path] = f[j][OnceIn(T, l.path)]
    BY <1>3, <2>4, Zenon DEF Unlinks
  <2>6. j \in 0 .. Fuel
    BY <2>2, <2>4
  <2>7. f[j][m.path] = f[Fuel][m.ask]
    BY <2>1, <2>4, <2>5
  <2> QED
    BY <2>6, <2>7
<1> QED
  BY <1>1, <1>2, <1>3 DEF OnTrack

\* The path a link is replaced in, when nothing bends it, is the one it
\* stands for.
LEMMA LinkMeans ==
  ASSUME VfsInv, AtLink, Passed(tree, look.path, look.pos),
         ~Bends(tree[Step].target, SlashFollows, After(look.path, look.pos + 1))
  PROVE  /\ LinkedIn(tree, look.path)
         /\ OnceIn(tree, look.path) =
              vfs_symlink_resolve(tree[Step].target, SlashFollows)
                \o After(look.path, look.pos + 1)
<1>0. PICK p, n, target, more, all :
        /\ p = look.path /\ n = look.pos /\ target = tree[Step].target
        /\ more = SlashFollows /\ all = After(p, n + 1)
  OBVIOUS
<1>1. p \in Seq(Names) /\ Len(p) \in Nat /\ n \in 0 .. Len(p) /\ n < Len(p) /\ Here \in Seq(Names)
  BY <1>0, HereIsPath DEF AtLink
<1>2. PICK i \in 1 .. Len(p) : i = n + 1 /\ i - 1 = n
  BY <1>1
<1>3. Upto(p, i) = Step /\ Upto(p, i - 1) = Here
  BY <1>0, <1>2 DEF Step, Here
<1>4. FirstIn(tree, p, i)
  <2>1. LinkIn(tree, p, i)
    BY <1>3 DEF AtLink, LinkIn, Paths, IsLink
  <2>2. \A j \in 1 .. i - 1 : ~LinkIn(tree, p, j)
    BY <1>0, <1>2 DEF Passed
  <2> QED
    BY <1>2, <2>1, <2>2 DEF FirstIn
<1>5. LinkedIn(tree, p) /\ OnceIn(tree, p) = Replaced(tree, p, i)
  BY <1>1, <1>4, OnceAtFirst
<1>6. Replaced(tree, p, i) = (IF target.abs THEN Root ELSE Here) \o target.path \o all
  BY <1>0, <1>2, <1>3 DEF Replaced
<1>7. vfs_symlink_resolve(target, more) = (IF target.abs THEN Root ELSE Here) \o target.path
  <2>1. target.path \in Seq(Names)
    <3>1. tree[Step] \in Inodes
      BY DEF VfsInv, IsTree, AtLink
    <3>2. Root \in Seq(Names)
      BY EmptySeq DEF Root
    <3>3. target = NoTarget \/ target \in Targets
      BY <1>0, <3>1 DEF Inodes, Dir, File, Link
    <3> QED
      BY <3>2, <3>3, VfsAssumption DEF NoTarget
  <2>2. Root \o target.path = target.path
    BY <2>1, ConcatEmptySeq DEF Root
  <2>3. CASE target.abs
    <3>1. ~(Len(target.path) > PathBuf)
      BY <1>0, <2>3 DEF Bends
    <3> QED
      BY <2>2, <2>3, <3>1 DEF vfs_symlink_resolve, Cut
  <2>4. CASE ~target.abs
    <3>1. ~more /\ ~(Len(Here) + Len(target.path) > PathBuf)
      BY <1>0, <2>4 DEF Bends
    <3> QED
      BY <2>4, <3>1 DEF vfs_symlink_resolve
  <2> QED
    BY <2>3, <2>4
<1> QED
  BY <1>0, <1>5, <1>6, <1>7

LEMMA RightLink ==
  ASSUME VfsInv, RightInv, lookup_link
  PROVE  RightInv'
<1>1. AtLink /\ look.state = "walk" /\ look.follow /\ UNCHANGED <<tree, phase, late>>
  BY DEF lookup_link, AtLink, Walking
<1>2. look \in Lookups /\ look.depth = 0 /\ IsTree
  BY DEF VfsInv, LookTyped, RightInv
<1>3. PICK p, n, target, more, all :
        /\ p = look.path /\ n = look.pos /\ target = tree[Step].target
        /\ more = SlashFollows /\ all = After(p, n + 1)
  OBVIOUS
<1>4. PICK rest, linkbuf, b :
        /\ rest = Cut(all, RestBuf)
        /\ linkbuf = vfs_symlink_resolve(target, more)
        /\ b = (look.bent \/ Bends(target, more, all))
  OBVIOUS
<1>5. ~(look.depth + 1 > MaxDepth)
  BY <1>2, VfsAssumption
<1>6. \/ look' = [look EXCEPT !.state = "done", !.res = Nowhere, !.bent = TRUE]
      \/ \E sl \in SlashLeft(target, all) :
           look' = [look EXCEPT !.path = linkbuf \o rest, !.pos = 0, !.depth = 0, !.slash = sl, !.bent = b]
  BY <1>3, <1>4, <1>5 DEF lookup_link
<1>7. CASE look' = [look EXCEPT !.state = "done", !.res = Nowhere, !.bent = TRUE]
  <2>1. look'.state = "done" /\ look'.bent /\ look'.depth = look.depth
    BY <1>2, <1>7 DEF Lookups
  <2> QED
    BY <1>1, <2>1 DEF RightInv
<1>8. CASE \E sl \in SlashLeft(target, all) :
             look' = [look EXCEPT !.path = linkbuf \o rest, !.pos = 0, !.depth = 0, !.slash = sl, !.bent = b]
  <2>0. PICK sl \in BOOLEAN :
          look' = [look EXCEPT !.path = linkbuf \o rest, !.pos = 0, !.depth = 0, !.slash = sl, !.bent = b]
    BY <1>1, <1>3, <1>8, SlashIsBoolean
  <2>1. /\ look'.state = "walk" /\ look'.path = linkbuf \o rest /\ look'.pos = 0 /\ look'.depth = 0
        /\ look'.bent = b /\ look'.ask = look.ask
    BY <1>1, <1>2, <2>0 DEF Lookups
  <2>2. ASSUME ~b PROVE OnTrack(tree, look')
    <3>1. ~look.bent /\ ~Bends(target, more, all)
      BY <1>4, <2>2
    <3>2. OnTrack(tree, look)
      BY <1>1, <3>1 DEF RightInv
    <3>3. rest = all
      BY <1>4, <3>1 DEF Bends, Cut
    <3>4. LinkedIn(tree, p) /\ OnceIn(tree, p) = linkbuf \o all
      <4>1. Passed(tree, look.path, look.pos)
        BY <3>2 DEF OnTrack
      <4>2. ~Bends(tree[Step].target, SlashFollows, After(look.path, look.pos + 1))
        BY <1>3, <3>1
      <4> QED
        BY <1>1, <1>3, <1>4, <4>1, <4>2, LinkMeans
    <3>5. p \in Seq(Names)
      BY <1>3, HereIsPath
    <3>6. OnceIn(tree, p) \in Seq(Names)
      BY <1>2, <3>4, <3>5, OnceIsPath
    <3>7. Root \in DOMAIN tree
      BY <1>2 DEF IsTree, Paths
    <3>8. PICK l, m : l = look /\ m = look'
      OBVIOUS
    <3>9. /\ OnTrack(tree, l) /\ l.path \in Seq(Names) /\ LinkedIn(tree, l.path)
          /\ m.ask = l.ask /\ m.path = OnceIn(tree, l.path) /\ m.pos = 0 /\ m.path \in Seq(Names)
      BY <1>3, <2>1, <3>2, <3>3, <3>4, <3>5, <3>6, <3>8
    <3>10. OnTrack(tree, m)
      BY <3>7, <3>9, TrackFollowed
    <3> QED
      BY <3>8, <3>10
  <2> QED
    BY <1>1, <2>1, <2>2 DEF RightInv
<1> QED
  BY <1>6, <1>7, <1>8

LEMMA RightAsk ==
  ASSUME VfsInv, NEW p \in PathsUpTo(MaxPath), NEW slash \in BOOLEAN, NEW follow \in BOOLEAN,
         lookup(p, slash, follow)
  PROVE  RightInv'
<1>1. look' = [ask |-> p, follow |-> follow, path |-> p, pos |-> 0, slash |-> slash, depth |-> 0,
               bent |-> FALSE, state |-> "walk", res |-> Nowhere]
  BY DEF lookup, NoLookup
<1>2. phase' = "up" /\ late' = <<>> /\ tree' = tree
  BY DEF lookup
<1>3. PICK m : m = look'
  OBVIOUS
<1>4. m.ask = p /\ m.path = p /\ m.pos = 0 /\ p \in Seq(Names)
  BY <1>1, <1>3, AskedPaths
<1>5. OnTrack(tree, m)
  <2>1. Passed(tree, m.path, m.pos)
    BY <1>4 DEF Passed
  <2>2. Upto(m.path, m.pos) \in DOMAIN tree
    BY <1>4, UptoEnds DEF VfsInv, IsTree, Paths
  <2>3. Fuel \in 0 .. Fuel
    BY VfsAssumption DEF Fuel
  <2>4. \A f : \E k \in 0 .. Fuel : f[k][m.path] = f[Fuel][m.ask]
    BY <1>4, <2>3
  <2> QED
    BY <2>1, <2>2, <2>4 DEF OnTrack
<1> QED
  BY <1>1, <1>2, <1>3, <1>5 DEF RightInv

\* Boot adds to the tree only before the first lookup.
LEMMA RightBoot ==
  ASSUME RightInv, UNCHANGED look, phase = "unpack" \/ late # <<>>
  PROVE  RightInv'
  BY DEF RightInv

LEMMA RightNext == VfsInv /\ RightInv /\ [Next]_vars => RightInv'
<1> SUFFICES ASSUME VfsInv, RightInv, [Next]_vars PROVE RightInv'
  OBVIOUS
<1>1. CASE UNCHANGED vars
  BY <1>1 DEF vars, RightInv
<1>2. ASSUME NEW p \in PathsUpTo(MaxPath), NEW i \in Inodes, cpio_install_entry(Entry(p, i))
      PROVE  RightInv'
  BY <1>2, RightBoot DEF cpio_install_entry
<1>3. CASE cpio_skip_entry \/ cpio_ends \/ boot_entry
  BY <1>3, RightBoot DEF cpio_skip_entry, cpio_ends, boot_entry
<1>4. ASSUME NEW p \in PathsUpTo(MaxPath), NEW slash \in BOOLEAN, NEW follow \in BOOLEAN,
         lookup(p, slash, follow)
      PROVE  RightInv'
  BY <1>4, RightAsk
<1>5. CASE LookupStep
  BY <1>5, RightFound, RightMissing, RightName, RightLink DEF LookupStep
<1> QED
  BY <1>1, <1>2, <1>3, <1>4, <1>5 DEF Next

LEMMA RightInit == Init => RightInv
  BY DEF Init, NoLookup, RightInv

\* A lookup that ends, ends at the inode the path means or at none if there
\* is none, for any tree the archive makes, any links that do not go in
\* circles, as long as no slash comes after a relative link and everything
\* fits the buffers (vfs_lookup_path, vfs_symlink_resolve).
THEOREM LookupsRight == Spec => []LookupRight
<1>1. VfsInv /\ RightInv => LookupRight
  <2> SUFFICES ASSUME VfsInv, RightInv, look.state = "done", look.follow, ~look.bent, ~Loops(look.ask)
               PROVE  look.res = Resolve(look.ask)
    BY DEF LookupRight
  <2>1. Unlinks(Unlinked, tree)
    BY UnlinkedUnlinks DEF VfsInv
  <2>2. PICK f, a, res : f = Unlinked /\ a = look.ask /\ res = look.res
    OBVIOUS
  <2>3. PICK q : q = f[Fuel][a]
    OBVIOUS
  <2>4. ~LinkedIn(tree, q) /\ ~Linked(q)
    BY <2>2, <2>3, InThisTree DEF Loops
  <2>5. res = IF q \in DOMAIN tree THEN q ELSE Nowhere
    BY <2>1, <2>2, <2>3, <2>4 DEF RightInv, Arrived
  <2>6. Resolve(look.ask) = IF q \in Paths /\ ~Linked(q) THEN q ELSE Nowhere
    BY <2>2, <2>3 DEF Resolve
  <2> QED
    BY <2>2, <2>4, <2>5, <2>6 DEF Paths
<1> QED
  BY <1>1, RightInit, RightNext, VfsInvariant, PTL DEF Spec

-----------------------------------------------------------------------------
(***************************************************************************)
(* Lookups descend.                                                        *)
(***************************************************************************)

\* The number of links to the end of a path falls by one when the first of
\* them is replaced.
LEMMA OneLinkLess ==
  ASSUME NEW T, NEW f, Unlinks(f, T), NEW p \in Seq(Names), LinkedIn(T, p),
         NEW k \in Nat, ~LinkedIn(T, f[k][p])
  PROVE  \E n \in Nat : n <= k /\ ~LinkedIn(T, f[n][OnceIn(T, p)]) /\ LinkedIn(T, f[n][p])
<1> DEFINE S == {n \in Nat : ~LinkedIn(T, f[n][p])}
<1>1. k \in S
  OBVIOUS
<1>2. \A n \in Nat : n \in S <=> ~LinkedIn(T, f[n][p])
  OBVIOUS
<1> HIDE DEF S
<1>3. PICK m \in Nat : m \in S /\ m <= k /\ \A j \in Nat : j < m => j \notin S
  BY <1>1, LeastNumber
<1>4. m # 0
  <2>1. f[0][p] = p
    BY Zenon DEF Unlinks
  <2> QED
    BY <1>2, <1>3, <2>1
<1>5. PICK n \in Nat : n + 1 = m /\ n < m /\ n <= k
  <2>1. m - 1 \in Nat /\ (m - 1) + 1 = m /\ m - 1 < m /\ m - 1 <= k
    BY <1>3, <1>4
  <2> QED
    BY <2>1
<1>6. f[n + 1][p] = f[n][OnceIn(T, p)]
  BY <1>5, Zenon DEF Unlinks
<1>7. ~LinkedIn(T, f[m][p]) /\ LinkedIn(T, f[n][p])
  BY <1>2, <1>3, <1>5
<1> QED
  BY <1>5, <1>6, <1>7

LEMMA DescendStep ==
  ASSUME VfsInv, RightInv, Next, Walking, Walking', look.follow, ~look'.bent, ~Loops(look.ask)
  PROVE  \/ look'.path = look.path /\ look'.pos > look.pos
         \/ \E n \in 0 .. Fuel : Ends(look'.path, n) /\ ~Ends(look.path, n)
<1>1. look \in Lookups /\ look.depth = 0 /\ IsTree /\ look.state = "walk" /\ phase = "up" /\ late = <<>>
  BY DEF VfsInv, LookTyped, RightInv, Walking
<1>2. lookup_name \/ lookup_link
  <2>1. ~lookup_found
    <3> SUFFICES ASSUME lookup_found PROVE FALSE
      OBVIOUS
    <3>1. look' = [look EXCEPT !.state = "done", !.res = Here]
      BY DEF lookup_found, Answer
    <3> QED
      BY <1>1, <3>1 DEF Walking, Lookups
  <2>2. ~lookup_missing
    <3> SUFFICES ASSUME lookup_missing PROVE FALSE
      OBVIOUS
    <3>1. look' = [look EXCEPT !.state = "done", !.res = Nowhere]
      BY DEF lookup_missing, Answer
    <3> QED
      BY <1>1, <3>1 DEF Walking, Lookups
  <2>3. LookupStep
    BY <1>1 DEF Next, cpio_install_entry, cpio_skip_entry, cpio_ends, boot_entry, lookup
  <2> QED
    BY <2>1, <2>2, <2>3 DEF LookupStep
<1>3. CASE lookup_name
  <2>1. look' = [look EXCEPT !.pos = look.pos + 1] /\ look.pos \in Nat
    BY <1>1, <1>3 DEF lookup_name, Lookups
  <2>2. look'.path = look.path /\ look'.pos = look.pos + 1
    BY <1>1, <2>1 DEF Lookups
  <2> QED
    BY <2>1, <2>2
<1>4. CASE lookup_link
  <2>1. AtLink
    BY <1>4 DEF lookup_link
  <2>2. PICK p, n, target, more, all :
          /\ p = look.path /\ n = look.pos /\ target = tree[Step].target
          /\ more = SlashFollows /\ all = After(p, n + 1)
    OBVIOUS
  <2>3. PICK rest, linkbuf, b :
          /\ rest = Cut(all, RestBuf)
          /\ linkbuf = vfs_symlink_resolve(target, more)
          /\ b = (look.bent \/ Bends(target, more, all))
    OBVIOUS
  <2>4. ~(look.depth + 1 > MaxDepth)
    BY <1>1, VfsAssumption
  <2>5. PICK sl \in BOOLEAN :
          look' = [look EXCEPT !.path = linkbuf \o rest, !.pos = 0, !.depth = 0, !.slash = sl, !.bent = b]
    <3>1. \/ look' = [look EXCEPT !.state = "done", !.res = Nowhere, !.bent = TRUE]
          \/ \E sl \in SlashLeft(target, all) :
               look' = [look EXCEPT !.path = linkbuf \o rest, !.pos = 0, !.depth = 0, !.slash = sl, !.bent = b]
      BY <1>4, <2>2, <2>3, <2>4 DEF lookup_link
    <3>2. ~(look' = [look EXCEPT !.state = "done", !.res = Nowhere, !.bent = TRUE])
      BY <1>1 DEF Walking, Lookups
    <3> QED
      BY <2>1, <2>2, <3>1, <3>2, SlashIsBoolean
  <2>6. look'.bent = b /\ look'.path = linkbuf \o rest
    BY <1>1, <2>5 DEF Lookups
  <2>7. ~look.bent /\ ~Bends(target, more, all)
    BY <2>3, <2>6
  <2>8. OnTrack(tree, look)
    BY <1>1, <2>7 DEF RightInv
  <2>9. rest = all
    BY <2>3, <2>7 DEF Bends, Cut
  <2>10. LinkedIn(tree, p) /\ OnceIn(tree, p) = linkbuf \o all
    <3>1. Passed(tree, look.path, look.pos)
      BY <2>8 DEF OnTrack
    <3>2. ~Bends(tree[Step].target, SlashFollows, After(look.path, look.pos + 1))
      BY <2>2, <2>7
    <3> QED
      BY <2>1, <2>2, <2>3, <3>1, <3>2, LinkMeans
  <2>11. PICK f, a : f = Unlinked /\ a = look.ask
    OBVIOUS
  <2>12. Unlinks(f, tree)
    BY <1>1, <2>11, UnlinkedUnlinks
  <2>13. ~LinkedIn(tree, f[Fuel][a])
    BY <2>11, InThisTree DEF Loops
  <2>14. PICK k \in 0 .. Fuel : f[k][p] = f[Fuel][a]
    BY <2>2, <2>8, <2>11, <2>12, <2>13 DEF OnTrack
  <2>15. Fuel \in Nat /\ k \in Nat /\ k <= Fuel
    BY <2>14, VfsAssumption DEF Fuel
  <2>16. ~LinkedIn(tree, f[k][p])
    BY <2>13, <2>14
  <2>17. p \in Seq(Names)
    BY <2>2, HereIsPath
  <2>18. PICK m \in Nat : m <= k /\ ~LinkedIn(tree, f[m][OnceIn(tree, p)]) /\ LinkedIn(tree, f[m][p])
    BY <2>10, <2>12, <2>15, <2>16, <2>17, OneLinkLess
  <2>19. m \in 0 .. Fuel
    BY <2>15, <2>18
  <2>20. OnceIn(tree, p) = look'.path
    BY <2>6, <2>9, <2>10
  <2>21. ~LinkedIn(tree, f[m][look'.path]) /\ LinkedIn(tree, f[m][look.path])
    BY <2>2, <2>18, <2>20
  <2>22. Ends(look'.path, m) /\ ~Ends(look.path, m)
    BY <2>11, <2>21, InThisTree DEF Ends
  <2> QED
    BY <2>19, <2>22
<1> QED
  BY <1>2, <1>3, <1>4

\* Every step of a lookup that goes on passes a name or leaves fewer links,
\* unless it is bent or its links go in circles (vfs_lookup_path).
THEOREM LookupsDescend == Spec => LookupDescends
<1>1. VfsInv /\ RightInv /\ [Next]_vars =>
        [Walking /\ Walking' /\ look.follow /\ ~look'.bent /\ ~Loops(look.ask) =>
           \/ look'.path = look.path /\ look'.pos > look.pos
           \/ \E n \in 0 .. Fuel : Ends(look'.path, n) /\ ~Ends(look.path, n)]_look
  BY DescendStep DEF vars
<1> QED
  BY <1>1, RightInit, RightNext, VfsInvariant, PTL DEF Spec, LookupDescends

=============================================================================
