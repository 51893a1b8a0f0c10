---------------------------- MODULE FilesProofs ----------------------------
(***************************************************************************)
(* Proofs about Files, for any tree, any files and buffers of any size.    *)
(*                                                                         *)
(* That a listing which has come to its end has given every name cannot be *)
(* seen from the end alone.  Listings says where a listing is on the way:  *)
(* mount only adds in front, so what the directory held at open is still   *)
(* its tail, and a name whose place the listing has passed was given.      *)
(***************************************************************************)
EXTENDS Files, SequenceTheorems, TLAPS

AllNames == UNION {Names(s) : s \in Given}

\* The tree: vfs_dir_add keeps names, vfs_mkdir paths that can be taken apart.
TreeSound ==
  /\ Root \in Dirs
  /\ Dirs \subseteq Seq(AllNames)
  /\ \A d \in Dirs : children[d] \in Seq(AllNames)

Descriptors(dirs) ==
  [kind : {"null", "device", "closed", "file", "dir"}, path : dirs \cup FilePaths,
   pos : 0 .. PosMod - 1, start : Seq(AllNames), seen : Seq(AllNames), sure : BOOLEAN]

TablesSound ==
  /\ alive \subseteq Tasks
  /\ cwd \in [Tasks -> Dirs]
  /\ fds \in [Tasks -> [Fds -> Descriptors(Dirs)]]

Typed(d, dirs) ==
  /\ d.kind = "file" => d.path \in FilePaths
  /\ d.kind = "dir" => d.path \in dirs /\ d.pos <= MaxDents

\* How many names were added in front of list since it was start.
Ahead(start, list) == Len(list) - Len(start)

IsTail(start, list) ==
  /\ Len(start) <= Len(list)
  /\ \A i \in 1 .. Len(start) : start[i] = list[i + Ahead(start, list)]

Listing(d, list) ==
  /\ d.pos = Len(d.seen)
  /\ IsTail(d.start, list)
  /\ \A i \in 1 .. Len(d.start) : i + Ahead(d.start, list) <= d.pos => d.start[i] \in Names(d.seen)
  /\ Len(list) = Len(d.start) =>
       /\ Len(d.seen) <= Len(d.start)
       /\ \A i \in 1 .. Len(d.seen) : d.seen[i] = d.start[i]

Good(d, tree) ==
  /\ Typed(d, DOMAIN tree)
  /\ d.kind = "dir" /\ d.sure => Listing(d, tree[d.path])

Listings == \A t \in Tasks, f \in Fds : Good(fds[t][f], children)

FilesInv == TreeSound /\ TablesSound /\ Listings /\ ReadInside

-----------------------------------------------------------------------------
(***************************************************************************)
(* Sequences of names.                                                     *)
(***************************************************************************)
LEMMA GivenAreNames == \A s \in Given : s \in Seq(AllNames)
<1> SUFFICES ASSUME NEW s \in Given PROVE s \in Seq(AllNames)
  OBVIOUS
<1>1. s \in Seq(Names(s))
  BY FilesAssumption
<1>2. Names(s) \subseteq AllNames
  BY DEF AllNames
<1> QED
  BY <1>1, <1>2, SeqMonotonic

LEMMA CutIsPrefix ==
  ASSUME NEW S, NEW s \in Seq(S), NEW n \in Nat
  PROVE  /\ Cut(s, n) \in Seq(S)
         /\ Len(Cut(s, n)) = Least(Len(s), n)
         /\ \A i \in 1 .. Len(Cut(s, n)) : Cut(s, n)[i] = s[i]
<1> DEFINE m == IF Len(s) <= n THEN Len(s) ELSE n
<1>1. Len(s) \in Nat /\ \A i \in 1 .. Len(s) : s[i] \in S
  BY LenProperties, ElementOfSeq
<1>2. m \in Nat /\ m <= Len(s) /\ m = Least(Len(s), n)
  BY <1>1 DEF Least
<1>3. Cut(s, n) = SubSeq(s, 1, m)
  BY DEF Cut
<1> HIDE DEF m
<1>4. \A i \in 1 .. m : s[i] \in S
  BY <1>1, <1>2
<1>5. /\ SubSeq(s, 1, m) \in Seq(S)
      /\ Len(SubSeq(s, 1, m)) = IF 1 <= m THEN m - 1 + 1 ELSE 0
      /\ \A i \in 1 .. m - 1 + 1 : SubSeq(s, 1, m)[i] = s[1 + i - 1]
  BY <1>2, <1>4, SubSeqProperties
<1>6. Len(SubSeq(s, 1, m)) = m /\ \A i \in 1 .. m : SubSeq(s, 1, m)[i] = s[i]
  BY <1>2, <1>5
<1> QED
  BY <1>2, <1>3, <1>5, <1>6

LEMMA InFront ==
  ASSUME NEW S, NEW s \in Seq(S), NEW x \in S
  PROVE  /\ <<x>> \o s \in Seq(S)
         /\ Len(<<x>> \o s) = Len(s) + 1
         /\ \A i \in 1 .. Len(s) : (<<x>> \o s)[i + 1] = s[i]
<1>1. <<x>> \in Seq(S) /\ Len(<<x>>) = 1 /\ Len(s) \in Nat
  BY LenProperties
<1>2. /\ <<x>> \o s \in Seq(S)
      /\ Len(<<x>> \o s) = 1 + Len(s)
      /\ \A i \in 1 .. 1 + Len(s) : (<<x>> \o s)[i] = IF i <= 1 THEN <<x>>[i] ELSE s[i - 1]
  BY <1>1, ConcatProperties
<1>3. ASSUME NEW i \in 1 .. Len(s) PROVE (<<x>> \o s)[i + 1] = s[i]
  <2>1. i + 1 \in 1 .. 1 + Len(s) /\ ~(i + 1 <= 1) /\ (i + 1) - 1 = i
    BY <1>1
  <2> QED
    BY <1>2, <2>1
<1> QED
  BY <1>1, <1>2, <1>3

LEMMA NamesOfConcat ==
  ASSUME NEW S, NEW s \in Seq(S), NEW r \in Seq(S)
  PROVE  /\ Names(s) \subseteq Names(s \o r)
         /\ \A j \in 1 .. Len(r) : r[j] \in Names(s \o r)
<1>1. Len(s) \in Nat /\ Len(r) \in Nat /\ DOMAIN s = 1 .. Len(s)
  BY LenProperties
<1>2. /\ s \o r \in Seq(S)
      /\ Len(s \o r) = Len(s) + Len(r)
      /\ \A i \in 1 .. Len(s) + Len(r) : (s \o r)[i] = IF i <= Len(s) THEN s[i] ELSE r[i - Len(s)]
  BY ConcatProperties
<1>3. DOMAIN (s \o r) = 1 .. Len(s) + Len(r)
  BY <1>2, LenProperties
<1>4. ASSUME NEW i \in 1 .. Len(s) PROVE s[i] \in Names(s \o r)
  <2>1. i \in 1 .. Len(s) + Len(r) /\ (s \o r)[i] = s[i]
    BY <1>1, <1>2
  <2> QED
    BY <1>3, <2>1 DEF Names
<1>5. ASSUME NEW j \in 1 .. Len(r) PROVE r[j] \in Names(s \o r)
  <2>1. Len(s) + j \in 1 .. Len(s) + Len(r) /\ ~(Len(s) + j <= Len(s)) /\ (Len(s) + j) - Len(s) = j
    BY <1>1
  <2>2. (s \o r)[Len(s) + j] = r[j]
    BY <1>2, <2>1
  <2> QED
    BY <1>3, <2>1, <2>2 DEF Names
<1>6. Names(s) \subseteq Names(s \o r)
  BY <1>1, <1>4 DEF Names
<1> QED
  BY <1>5, <1>6

-----------------------------------------------------------------------------
(***************************************************************************)
(* What can happen to a listing: mount puts a name in front, getdents64    *)
(* hands out the next names.                                               *)
(***************************************************************************)
LEMMA ListingGrows ==
  ASSUME NEW d, NEW list \in Seq(AllNames), NEW x \in AllNames,
         d.start \in Seq(AllNames), d.pos \in Nat, Listing(d, list)
  PROVE  Listing(d, <<x>> \o list)
<1> DEFINE new == <<x>> \o list
           start == d.start
<1>1. Len(list) \in Nat /\ Len(start) \in Nat /\ Len(start) <= Len(list)
  BY LenProperties DEF Listing, IsTail
<1>2. Len(new) = Len(list) + 1 /\ \A i \in 1 .. Len(list) : new[i + 1] = list[i]
  BY InFront
<1> HIDE DEF new
<1>3. Ahead(start, new) = Ahead(start, list) + 1 /\ Ahead(start, list) \in Nat
  BY <1>1, <1>2 DEF Ahead
<1>4. \A i \in 1 .. Len(start) : i + Ahead(start, list) \in 1 .. Len(list)
  BY <1>1 DEF Ahead
<1>5. ASSUME NEW i \in 1 .. Len(start) PROVE start[i] = new[i + Ahead(start, new)]
  <2>1. i + Ahead(start, new) = (i + Ahead(start, list)) + 1
    BY <1>1, <1>3
  <2>2. start[i] = list[i + Ahead(start, list)]
    BY DEF Listing, IsTail
  <2> QED
    BY <1>2, <1>4, <2>1, <2>2
<1>6. ASSUME NEW i \in 1 .. Len(start), i + Ahead(start, new) <= d.pos
      PROVE  start[i] \in Names(d.seen)
  <2>1. i + Ahead(start, list) <= d.pos
    BY <1>1, <1>3, <1>6
  <2> QED
    BY <2>1 DEF Listing
<1>7. Len(new) # Len(start) /\ Len(start) <= Len(new)
  BY <1>1, <1>2
<1>8. IsTail(start, new)
  BY <1>5, <1>7 DEF IsTail
<1>9. Listing(d, new)
  BY <1>6, <1>7, <1>8 DEF Listing
<1> QED
  BY <1>9 DEF new

LEMMA ListingMoves ==
  ASSUME NEW d, NEW list \in Seq(AllNames), NEW more \in Seq(AllNames), NEW e,
         d.start \in Seq(AllNames), d.seen \in Seq(AllNames), d.pos \in Nat,
         Listing(d, list),
         \A j \in 1 .. Len(more) : d.pos + j <= Len(list) /\ more[j] = list[d.pos + j],
         e.start = d.start, e.pos = d.pos + Len(more), e.seen = d.seen \o more
  PROVE  Listing(e, list)
<1> DEFINE start == d.start
           seen == d.seen \o more
           A == Ahead(start, list)
           pos == d.pos
<1>1. Len(list) \in Nat /\ Len(start) \in Nat /\ Len(more) \in Nat /\ pos \in Nat /\ pos = Len(d.seen)
  BY LenProperties DEF Listing
<1>2. IsTail(start, list) /\ Len(start) <= Len(list) /\ A \in Nat /\ A = Len(list) - Len(start)
  <2>1. IsTail(start, list)
    BY DEF Listing
  <2>2. Len(start) <= Len(list)
    BY <2>1 DEF IsTail
  <2>3. A = Len(list) - Len(start)
    BY DEF Ahead
  <2> HIDE DEF A
  <2> QED
    BY <1>1, <2>1, <2>2, <2>3
<1>3. /\ Len(seen) = pos + Len(more)
      /\ \A i \in 1 .. pos + Len(more) : seen[i] = IF i <= pos THEN d.seen[i] ELSE more[i - pos]
  BY <1>1, ConcatProperties
<1>4. Names(d.seen) \subseteq Names(seen) /\ \A j \in 1 .. Len(more) : more[j] \in Names(seen)
  BY NamesOfConcat
<1>5. \A i \in 1 .. Len(start) : start[i] = list[i + A]
  BY <1>2 DEF IsTail
<1>6. \A i \in 1 .. Len(start) : i + A <= pos => start[i] \in Names(d.seen)
  BY DEF Listing
<1>7. Len(list) = Len(start) =>
        Len(d.seen) <= Len(start) /\ \A i \in 1 .. Len(d.seen) : d.seen[i] = start[i]
  BY DEF Listing
<1>8. \A j \in 1 .. Len(more) : pos + j <= Len(list) /\ more[j] = list[pos + j]
  OBVIOUS
<1>9. e.start = start /\ e.pos = pos + Len(more) /\ e.seen = seen
  OBVIOUS
<1> HIDE DEF start, seen, pos, A
<1>10. ASSUME NEW i \in 1 .. Len(start), i + A <= pos + Len(more)
       PROVE  start[i] \in Names(seen)
  <2>1. CASE i + A <= pos
    BY <1>4, <1>6, <2>1
  <2>2. CASE ~(i + A <= pos)
    <3>1. (i + A) - pos \in 1 .. Len(more) /\ pos + ((i + A) - pos) = i + A
      BY <1>1, <1>2, <1>10, <2>2
    <3>2. more[(i + A) - pos] = list[i + A]
      BY <1>8, <3>1
    <3> QED
      BY <1>4, <1>5, <3>1, <3>2
  <2> QED
    BY <2>1, <2>2
<1>11. ASSUME Len(list) = Len(start)
       PROVE  Len(seen) <= Len(start) /\ \A i \in 1 .. Len(seen) : seen[i] = start[i]
  <2>1. A = 0 /\ pos <= Len(start)
    BY <1>1, <1>2, <1>7, <1>11
  <2>2. Len(seen) <= Len(start)
    <3>1. CASE Len(more) = 0
      BY <1>1, <1>3, <2>1, <3>1
    <3>2. CASE Len(more) # 0
      <4>1. Len(more) \in 1 .. Len(more)
        BY <1>1, <3>2
      <4> QED
        BY <1>3, <1>8, <1>11, <4>1
    <3> QED
      BY <3>1, <3>2
  <2>3. ASSUME NEW i \in 1 .. Len(seen) PROVE seen[i] = start[i]
    <3>0. i \in 1 .. pos + Len(more) /\ i \in 1 .. Len(start)
      BY <1>1, <1>3, <2>2
    <3>1. CASE i <= pos
      BY <1>1, <1>3, <1>7, <1>11, <3>0, <3>1
    <3>2. CASE ~(i <= pos)
      <4>1. i - pos \in 1 .. Len(more) /\ pos + (i - pos) = i
        BY <1>1, <3>0, <3>2
      <4>2. seen[i] = list[i]
        BY <1>3, <1>8, <3>0, <3>2, <4>1
      <4>3. start[i] = list[i + 0]
        BY <1>5, <2>1, <3>0
      <4> QED
        BY <3>0, <4>2, <4>3
    <3> QED
      BY <3>1, <3>2
  <2> QED
    BY <2>2, <2>3
<1> QED
  BY <1>2, <1>3, <1>9, <1>10, <1>11 DEF Listing, A

-----------------------------------------------------------------------------
(***************************************************************************)
(* Steps.                                                                  *)
(***************************************************************************)

\* A call that gives one descriptor a new object and leaves the tree alone.
LEMMA OneDescriptor ==
  ASSUME FilesInv, NEW t \in Tasks, NEW f \in Fds, NEW d \in Descriptors(Dirs), Good(d, children),
         UNCHANGED <<children, alive, cwd>>, fds' = [fds EXCEPT ![t][f] = d], ReadInside'
  PROVE  FilesInv'
<1>1. TreeSound'
  BY DEF FilesInv, TreeSound, Dirs
<1>2. Dirs' = Dirs
  BY DEF Dirs
<1>3. fds \in [Tasks -> [Fds -> Descriptors(Dirs)]] /\ cwd \in [Tasks -> Dirs] /\ alive \subseteq Tasks
  BY DEF FilesInv, TablesSound
<1>4. fds' \in [Tasks -> [Fds -> Descriptors(Dirs)]]
  BY <1>3
<1>5. TablesSound'
  BY <1>2, <1>3, <1>4 DEF TablesSound, Descriptors
<1>6. ASSUME NEW u \in Tasks, NEW g \in Fds PROVE Good(fds'[u][g], children)
  <2>1. CASE u = t /\ g = f
    BY <1>3, <2>1
  <2>2. CASE ~(u = t /\ g = f)
    <3>1. fds'[u][g] = fds[u][g]
      BY <1>3, <2>2
    <3> QED
      BY <3>1 DEF FilesInv, Listings
  <2> QED
    BY <2>1, <2>2
<1>7. Listings'
  BY <1>6 DEF Listings
<1> QED
  BY <1>1, <1>5, <1>7 DEF FilesInv

LEMMA NothingRead == got' = Nothing => ReadInside'
  BY DEF Nothing, ReadInside

\* The objects that stand for no file.
LEMMA BareDescriptors ==
  ASSUME TreeSound
  PROVE  \A d \in {NULL, Device, Closed} : d \in Descriptors(Dirs) /\ Good(d, children)
<1>1. Root \in Dirs /\ <<>> \in Seq(AllNames) /\ 0 \in 0 .. PosMod - 1
  BY FilesAssumption, EmptySeq DEF TreeSound
<1>2. ASSUME NEW k \in {"null", "device", "closed"}
      PROVE  Descriptor(k, Root, <<>>) \in Descriptors(Dirs) /\ Good(Descriptor(k, Root, <<>>), children)
  <2>1. Descriptor(k, Root, <<>>) \in Descriptors(Dirs)
    BY <1>1 DEF Descriptor, Descriptors
  <2>2. Descriptor(k, Root, <<>>).kind = k /\ k # "dir" /\ k # "file"
    BY DEF Descriptor
  <2> QED
    BY <2>1, <2>2 DEF Good, Typed
<1> QED
  BY <1>2 DEF NULL, Device, Closed

LEMMA OpenStep ==
  ASSUME FilesInv, NEW t \in Tasks, sys_open_path(t)
  PROVE  FilesInv'
<1>0. TreeSound
  BY DEF FilesInv
<1>1. PICK f \in Fds, arg \in Args :
        \E d \in Opened(resolve_path(t, arg)) : fds' = [fds EXCEPT ![t][f] = d]
  BY DEF sys_open_path
<1>2. PICK p : \E d \in Opened(p) : fds' = [fds EXCEPT ![t][f] = d]
  BY <1>1
<1>3. PICK d \in Opened(p) : fds' = [fds EXCEPT ![t][f] = d]
  BY <1>2
<1>4. <<>> \in Seq(AllNames) /\ Len(<<>>) = 0 /\ 0 \in 0 .. PosMod - 1 /\ 0 <= MaxDents
  BY FilesAssumption, EmptySeq
<1>5. d \in Descriptors(Dirs) /\ Good(d, children)
  <2>1. CASE d = Device
    BY <1>0, <2>1, BareDescriptors
  <2>2. CASE p \in Dirs /\ d = Descriptor("dir", p, children[p])
    <3>1. children[p] \in Seq(AllNames) /\ Len(children[p]) \in Nat
      BY <1>0, <2>2, LenProperties DEF TreeSound
    <3>2. d.start = children[p] /\ d.seen = <<>> /\ d.pos = 0 /\ d.kind = "dir" /\ d.path = p
      BY <2>2 DEF Descriptor
    <3>3. d \in Descriptors(Dirs)
      BY <1>4, <2>2, <3>1 DEF Descriptor, Descriptors
    <3>4. Ahead(children[p], children[p]) = 0
      BY <3>1 DEF Ahead
    <3>5. IsTail(children[p], children[p])
      BY <3>1, <3>4 DEF IsTail
    <3>6. Listing(d, children[p])
      <4>1. \A i \in 1 .. Len(children[p]) : ~(i + 0 <= 0)
        BY <3>1
      <4>2. \A i \in 1 .. 0 : FALSE
        OBVIOUS
      <4> QED
        BY <1>4, <3>1, <3>2, <3>4, <3>5, <4>1, <4>2 DEF Listing
    <3> QED
      BY <1>4, <2>2, <3>2, <3>3, <3>6 DEF Good, Typed, Dirs
  <2>3. CASE p \in FilePaths /\ d = Descriptor("file", p, <<>>)
    BY <1>4, <2>3 DEF Descriptor, Descriptors, Good, Typed
  <2> QED
    BY <2>1, <2>2, <2>3 DEF Opened
<1> QED
  BY <1>3, <1>5, OneDescriptor, NothingRead DEF sys_open_path

LEMMA ChdirStep ==
  ASSUME FilesInv, NEW t \in Tasks, sys_chdir(t)
  PROVE  FilesInv'
<1>1. PICK p \in Dirs : cwd' = [cwd EXCEPT ![t] = p]
  BY DEF sys_chdir
<1>2. UNCHANGED <<children, alive, fds>> /\ got' = Nothing
  BY DEF sys_chdir
<1>3. TreeSound' /\ Dirs' = Dirs
  BY <1>2 DEF FilesInv, TreeSound, Dirs
<1>4. TablesSound'
  BY <1>1, <1>2, <1>3 DEF FilesInv, TablesSound, Descriptors
<1>5. Listings'
  BY <1>2 DEF FilesInv, Listings
<1> QED
  BY <1>2, <1>3, <1>4, <1>5, NothingRead DEF FilesInv

LEMMA ReadStep ==
  ASSUME FilesInv, NEW t \in Tasks, sys_read(t)
  PROVE  FilesInv'
<1>1. PICK f \in Fds \ {0}, count \in Counts, fault \in BOOLEAN :
        LET d == fds[t][f]
            n == Least(Least(count, ReadBuf), Available(d))
        IN  /\ d.kind = "file"
            /\ fds' = [fds EXCEPT ![t][f].pos = (@ + n) % PosMod]
            /\ got' = IF fault \/ n = 0 THEN Nothing ELSE [file |-> d.path, from |-> d.pos, n |-> n]
            /\ UNCHANGED <<children, alive, cwd>>
  BY DEF sys_read
<1>2. PICK d : d = fds[t][f]
  OBVIOUS
<1>3. PICK n : n = Least(Least(count, ReadBuf), Available(d))
  OBVIOUS
<1>4. d \in Descriptors(Dirs) /\ Good(d, children) /\ d.kind = "file"
  BY <1>1, <1>2 DEF FilesInv, TablesSound, Listings
<1>5. d.path \in FilePaths /\ d.pos \in 0 .. PosMod - 1 /\ PosMod \in Nat \ {0}
  BY <1>4, FilesAssumption DEF Good, Typed, Descriptors
<1>6. Sizes[d.path] \in Nat /\ count \in Nat /\ ReadBuf \in Nat
  BY <1>5, FilesAssumption DEF FilePaths
<1>7. Available(d) \in Nat /\ (Available(d) > 0 => d.pos + Available(d) = Sizes[d.path])
  BY <1>5, <1>6 DEF Available
<1>8. n \in Nat /\ n <= Available(d)
  BY <1>3, <1>6, <1>7 DEF Least
<1>9. (d.pos + n) % PosMod \in 0 .. PosMod - 1
  BY <1>5, <1>8
<1> DEFINE e == [d EXCEPT !.pos = (d.pos + n) % PosMod]
<1>10. fds' = [fds EXCEPT ![t][f] = e]
  BY <1>1, <1>2, <1>3 DEF FilesInv, TablesSound, Descriptors
<1>11. e \in Descriptors(Dirs) /\ Good(e, children)
  <2>1. e \in Descriptors(Dirs)
    BY <1>4, <1>9 DEF Descriptors
  <2>2. e.kind = "file" /\ e.path = d.path
    BY <1>4 DEF Descriptors
  <2> QED
    BY <1>5, <2>1, <2>2 DEF Good, Typed
<1>12. ReadInside'
  <2>1. CASE got' = Nothing
    BY <2>1, NothingRead
  <2>2. CASE n # 0 /\ got' = [file |-> d.path, from |-> d.pos, n |-> n]
    <3>1. d.pos + n <= Sizes[d.path]
      BY <1>5, <1>6, <1>7, <1>8, <2>2
    <3> QED
      BY <2>2, <3>1 DEF ReadInside
  <2> QED
    BY <1>1, <1>2, <1>3, <2>1, <2>2
<1> HIDE DEF e
<1> QED
  BY <1>1, <1>10, <1>11, <1>12, OneDescriptor

LEMMA LseekStep ==
  ASSUME FilesInv, NEW t \in Tasks, sys_lseek(t)
  PROVE  FilesInv'
<1>1. PICK f \in Fds, offset \in Offsets :
        /\ fds[t][f].kind = "file"
        /\ \E base \in {0, fds[t][f].pos, Sizes[fds[t][f].path]} :
             fds' = [fds EXCEPT ![t][f].pos = (base + offset) % PosMod]
  BY DEF sys_lseek
<1>2. PICK d : d = fds[t][f]
  OBVIOUS
<1>3. PICK base \in {0, d.pos, Sizes[d.path]} : fds' = [fds EXCEPT ![t][f].pos = (base + offset) % PosMod]
  BY <1>1, <1>2
<1>4. d \in Descriptors(Dirs) /\ Good(d, children) /\ d.kind = "file"
  BY <1>1, <1>2 DEF FilesInv, TablesSound, Listings
<1>5. d.path \in FilePaths /\ d.pos \in 0 .. PosMod - 1 /\ PosMod \in Nat \ {0} /\ offset \in Int
  BY <1>4, FilesAssumption DEF Good, Typed, Descriptors
<1>6. Sizes[d.path] \in Nat
  BY <1>5, FilesAssumption DEF FilePaths
<1>7. base \in Int
  BY <1>3, <1>5, <1>6
<1>8. (base + offset) % PosMod \in 0 .. PosMod - 1
  BY <1>5, <1>7
<1> DEFINE e == [d EXCEPT !.pos = (base + offset) % PosMod]
<1>9. fds' = [fds EXCEPT ![t][f] = e]
  BY <1>2, <1>3 DEF FilesInv, TablesSound, Descriptors
<1>10. e \in Descriptors(Dirs) /\ Good(e, children)
  <2>1. e \in Descriptors(Dirs)
    BY <1>4, <1>8 DEF Descriptors
  <2>2. e.kind = "file" /\ e.path = d.path
    BY <1>4 DEF Descriptors
  <2> QED
    BY <1>5, <2>1, <2>2 DEF Good, Typed
<1> HIDE DEF e
<1> QED
  BY <1>9, <1>10, OneDescriptor, NothingRead DEF sys_lseek

LEMMA GetdentsStep ==
  ASSUME FilesInv, NEW t \in Tasks, sys_getdents64(t)
  PROVE  FilesInv'
<1>1. PICK f \in Fds, room \in Rooms, fault \in BOOLEAN :
        LET d    == fds[t][f]
            list == Cut(children[d.path], MaxDents)
            left == IF d.pos <= Len(list) THEN Len(list) - d.pos ELSE 0
            fit  == Least(room, left)
        IN  /\ d.kind = "dir"
            /\ \E m \in 0 .. fit :
                 /\ IF fault THEN m < fit ELSE m = fit
                 /\ fds' = [fds EXCEPT ![t][f] =
                      IF (fault /\ m > 0) \/ ~d.sure THEN Unsure(d, Moved(d.pos, m, Len(list)))
                      ELSE [d EXCEPT !.pos  = Moved(d.pos, m, Len(list)),
                                     !.seen = d.seen \o SubSeq(list, d.pos + 1, d.pos + m)]]
            /\ UNCHANGED <<children, alive, cwd>> /\ got' = Nothing
  BY DEF sys_getdents64
<1>2. PICK d : d = fds[t][f]
  OBVIOUS
<1>3. d \in Descriptors(Dirs) /\ Good(d, children) /\ d.kind = "dir"
  BY <1>1, <1>2 DEF FilesInv, TablesSound, Listings
<1>4. /\ d.path \in Dirs /\ d.pos \in 0 .. PosMod - 1 /\ d.pos <= MaxDents
      /\ d.start \in Seq(AllNames) /\ d.seen \in Seq(AllNames)
      /\ d.sure \in BOOLEAN /\ (d.sure => Listing(d, children[d.path]))
  BY <1>3 DEF Good, Typed, Descriptors, Dirs
<1>5. PICK all : all = children[d.path]
  OBVIOUS
<1>6. all \in Seq(AllNames) /\ Len(all) \in Nat
  BY <1>4, <1>5, LenProperties DEF FilesInv, TreeSound
<1>7. PICK list : list = Cut(all, MaxDents)
  OBVIOUS
<1>8. /\ MaxDents \in 0 .. PosMod - 1 /\ PosMod \in Nat \ {0} /\ room \in Nat
      /\ MaxDents \in Nat /\ d.pos \in Nat
  BY <1>4, FilesAssumption
<1>9. /\ list \in Seq(AllNames) /\ Len(list) = Least(Len(all), MaxDents)
      /\ \A i \in 1 .. Len(list) : list[i] = all[i]
  BY <1>6, <1>7, <1>8, CutIsPrefix
<1>10. Len(list) \in Nat /\ Len(list) <= Len(all) /\ Len(list) <= MaxDents
  BY <1>6, <1>8, <1>9 DEF Least
<1>11. PICK left \in Nat : left = IF d.pos <= Len(list) THEN Len(list) - d.pos ELSE 0
  <2>1. (IF d.pos <= Len(list) THEN Len(list) - d.pos ELSE 0) \in Nat
    BY <1>8, <1>10
  <2> QED
    BY <2>1
<1>12. PICK m \in 0 .. Least(room, left) :
         fds' = [fds EXCEPT ![t][f] =
                   IF (fault /\ m > 0) \/ ~d.sure THEN Unsure(d, Moved(d.pos, m, Len(list)))
                   ELSE [d EXCEPT !.pos  = Moved(d.pos, m, Len(list)),
                                  !.seen = d.seen \o SubSeq(list, d.pos + 1, d.pos + m)]]
  BY <1>1, <1>2, <1>5, <1>7, <1>11
<1>13. m \in Nat /\ m <= left
  BY <1>8, <1>11, <1>12 DEF Least
<1>14. (m > 0 => d.pos + m <= Len(list)) /\ d.pos + m <= MaxDents /\ d.pos + m \in 0 .. PosMod - 1
  BY <1>4, <1>8, <1>10, <1>11, <1>13
<1> DEFINE more == SubSeq(list, d.pos + 1, d.pos + m)
<1>15. /\ more \in Seq(AllNames) /\ Len(more) = m
       /\ \A j \in 1 .. m : d.pos + j <= Len(all) /\ more[j] = all[d.pos + j]
  <2>1. CASE m = 0
    <3>1. more = <<>>
      BY <1>8, <2>1, SubSeqEmpty
    <3>2. <<>> \in Seq(AllNames) /\ Len(<<>>) = 0 /\ \A j \in 1 .. 0 : FALSE
      BY EmptySeq
    <3> HIDE DEF more
    <3> QED
      BY <2>1, <3>1, <3>2
  <2>2. CASE m # 0
    <3>1. \A i \in d.pos + 1 .. d.pos + m : i \in 1 .. Len(list)
      BY <1>8, <1>10, <1>13, <1>14, <2>2
    <3>2. \A i \in d.pos + 1 .. d.pos + m : list[i] \in AllNames
      BY <1>9, <3>1, ElementOfSeq
    <3>3. /\ more \in Seq(AllNames)
          /\ Len(more) = IF d.pos + 1 <= d.pos + m THEN (d.pos + m) - (d.pos + 1) + 1 ELSE 0
          /\ \A j \in 1 .. (d.pos + m) - (d.pos + 1) + 1 : more[j] = list[(d.pos + 1) + j - 1]
      BY <1>8, <1>13, <3>2, SubSeqProperties
    <3> HIDE DEF more
    <3>4. Len(more) = m /\ \A j \in 1 .. m : more[j] = list[d.pos + j]
      <4>1. (d.pos + m) - (d.pos + 1) + 1 = m /\ d.pos + 1 <= d.pos + m
        BY <1>8, <1>13, <2>2
      <4>2. \A j \in 1 .. m : (d.pos + 1) + j - 1 = d.pos + j
        BY <1>8, <1>13
      <4> QED
        BY <3>3, <4>1, <4>2
    <3>5. \A j \in 1 .. m : d.pos + j \in 1 .. Len(list) /\ d.pos + j <= Len(all)
      <4> SUFFICES ASSUME NEW j \in 1 .. m
                   PROVE  d.pos + j \in 1 .. Len(list) /\ d.pos + j <= Len(all)
        OBVIOUS
      <4>1. d.pos + m <= Len(list) /\ d.pos \in Nat
        BY <1>8, <1>13, <1>14, <2>2
      <4>2. d.pos + j <= d.pos + m /\ d.pos + j \in Nat \ {0}
        BY <1>13, <4>1
      <4> QED
        BY <1>6, <1>10, <1>13, <4>1, <4>2
    <3> QED
      BY <1>9, <3>3, <3>4, <3>5
  <2> QED
    BY <2>1, <2>2
<1>16. Moved(d.pos, m, Len(list)) = d.pos + m
  BY DEF Moved
<1> DEFINE e == [d EXCEPT !.pos = d.pos + m, !.seen = d.seen \o more]
<1>17. fds' = [fds EXCEPT ![t][f] = Unsure(d, d.pos + m)] \/ (d.sure /\ fds' = [fds EXCEPT ![t][f] = e])
  <2>1. CASE (fault /\ m > 0) \/ ~d.sure
    BY <1>12, <1>16, <2>1
  <2>2. CASE ~((fault /\ m > 0) \/ ~d.sure)
    <3>1. fds' = [fds EXCEPT ![t][f] = e]
      BY <1>12, <1>16, <2>2
    <3> QED
      BY <2>2, <3>1
  <2> QED
    BY <2>1, <2>2
<1> HIDE DEF more
<1>18. Unsure(d, d.pos + m) \in Descriptors(Dirs) /\ Good(Unsure(d, d.pos + m), children)
  <2>1. <<>> \in Seq(AllNames)
    BY EmptySeq
  <2>2. Unsure(d, d.pos + m) \in Descriptors(Dirs)
    BY <1>4, <1>14, <2>1 DEF Unsure, Descriptor, Descriptors
  <2>3. LET u == Unsure(d, d.pos + m)
        IN  u.kind = "dir" /\ u.path = d.path /\ u.sure = FALSE /\ u.pos = d.pos + m
    BY DEF Unsure, Descriptor
  <2> QED
    BY <1>4, <1>14, <2>2, <2>3 DEF Good, Typed, Dirs
<1>19. d.sure => e \in Descriptors(Dirs) /\ Good(e, children)
  <2> SUFFICES ASSUME d.sure PROVE e \in Descriptors(Dirs) /\ Good(e, children)
    OBVIOUS
  <2>1. d.seen \o more \in Seq(AllNames)
    BY <1>4, <1>15, ConcatProperties
  <2>2. e \in Descriptors(Dirs)
    BY <1>3, <1>14, <2>1 DEF Descriptors
  <2>3. /\ e.start = d.start /\ e.pos = d.pos + m /\ e.seen = d.seen \o more
        /\ e.kind = "dir" /\ e.path = d.path
    BY <1>3 DEF Descriptors
  <2> HIDE DEF e
  <2>4. Listing(d, all)
    BY <1>4, <1>5
  <2>5. Listing(e, all)
    BY <1>4, <1>6, <1>8, <1>15, <2>3, <2>4, ListingMoves
  <2> QED
    BY <1>4, <1>5, <1>14, <2>2, <2>3, <2>5 DEF Good, Typed, Dirs
<1> HIDE DEF e
<1>20. UNCHANGED <<children, alive, cwd>> /\ ReadInside'
  BY NothingRead DEF sys_getdents64
<1> QED
  BY <1>17, <1>18, <1>19, <1>20, OneDescriptor

LEMMA DupStep ==
  ASSUME FilesInv, NEW t \in Tasks, fd_dup_to(t)
  PROVE  FilesInv'
<1>1. PICK old \in Fds, new \in Fds :
        \E copy \in IF new = old THEN AfterFree(fds[t][old]) ELSE {fds[t][old]} :
          fds' = [fds EXCEPT ![t][new] = copy]
  BY DEF fd_dup_to
<1>2. PICK copy \in IF new = old THEN AfterFree(fds[t][old]) ELSE {fds[t][old]} :
        fds' = [fds EXCEPT ![t][new] = copy]
  BY <1>1
<1>3. copy \in {Device, Closed} \/ copy = fds[t][old]
  BY <1>2 DEF AfterFree
<1>4. fds[t][old] \in Descriptors(Dirs) /\ Good(fds[t][old], children) /\ TreeSound
  BY DEF FilesInv, TablesSound, Listings
<1>5. copy \in Descriptors(Dirs) /\ Good(copy, children)
  BY <1>3, <1>4, BareDescriptors
<1> QED
  BY <1>2, <1>5, OneDescriptor, NothingRead DEF fd_dup_to

LEMMA CloseStep ==
  ASSUME FilesInv, NEW t \in Tasks, sys_close(t)
  PROVE  FilesInv'
<1>1. PICK f \in Fds : fds' = [fds EXCEPT ![t][f] = NULL]
  BY DEF sys_close
<1>2. NULL \in Descriptors(Dirs) /\ Good(NULL, children)
  BY BareDescriptors DEF FilesInv
<1>3. PICK d : d = NULL
  OBVIOUS
<1> QED
  BY <1>1, <1>2, <1>3, OneDescriptor, NothingRead DEF sys_close

\* fork and exit write the table of one task and its working directory.
LEMMA OneTask ==
  ASSUME FilesInv, NEW c \in Tasks, NEW table \in [Fds -> Descriptors(Dirs)], NEW dir \in Dirs,
         \A f \in Fds : Good(table[f], children),
         UNCHANGED children, alive' \subseteq Tasks, got' = Nothing,
         fds' = [fds EXCEPT ![c] = table], cwd' = [cwd EXCEPT ![c] = dir]
  PROVE  FilesInv'
<1>1. TreeSound' /\ Dirs' = Dirs
  BY DEF FilesInv, TreeSound, Dirs
<1>2. fds \in [Tasks -> [Fds -> Descriptors(Dirs)]] /\ cwd \in [Tasks -> Dirs]
  BY DEF FilesInv, TablesSound
<1>3. fds' \in [Tasks -> [Fds -> Descriptors(Dirs)]] /\ cwd' \in [Tasks -> Dirs]
  BY <1>2
<1>4. TablesSound'
  BY <1>1, <1>3 DEF TablesSound, Descriptors
<1>5. ASSUME NEW u \in Tasks, NEW g \in Fds PROVE Good(fds'[u][g], children)
  <2>1. CASE u = c
    <3>1. fds'[u] = table
      BY <1>2, <2>1
    <3> QED
      BY <3>1
  <2>2. CASE u # c
    <3>1. fds'[u] = fds[u]
      BY <1>2, <2>2
    <3> QED
      BY <3>1 DEF FilesInv, Listings
  <2> QED
    BY <2>1, <2>2
<1>6. Listings'
  BY <1>5 DEF Listings
<1> QED
  BY <1>1, <1>4, <1>6, NothingRead DEF FilesInv

LEMMA ForkAndExitStep ==
  ASSUME FilesInv, NEW t \in alive, proc_fork(t) \/ proc_exit(t)
  PROVE  FilesInv'
<1>1. /\ t \in Tasks /\ alive \subseteq Tasks /\ TreeSound /\ Root \in Dirs
      /\ fds \in [Tasks -> [Fds -> Descriptors(Dirs)]] /\ cwd \in [Tasks -> Dirs]
  BY DEF FilesInv, TablesSound, TreeSound
<1>2. CASE proc_fork(t)
  <2>1. PICK c \in Tasks \ alive :
          /\ alive' = alive \cup {c}
          /\ fds' = [fds EXCEPT ![c] = fds[t]]
          /\ cwd' = [cwd EXCEPT ![c] = cwd[t]]
    BY <1>2 DEF proc_fork
  <2>2. PICK table, dir : table = fds[t] /\ dir = cwd[t]
    OBVIOUS
  <2>3. table \in [Fds -> Descriptors(Dirs)] /\ dir \in Dirs /\ \A f \in Fds : Good(table[f], children)
    BY <1>1, <2>2 DEF FilesInv, Listings
  <2>4. fds' = [fds EXCEPT ![c] = table] /\ cwd' = [cwd EXCEPT ![c] = dir] /\ alive' \subseteq Tasks
    BY <1>1, <2>1, <2>2
  <2>5. UNCHANGED children /\ got' = Nothing
    BY <1>2 DEF proc_fork
  <2> QED
    BY <2>3, <2>4, <2>5, OneTask
<1>3. CASE proc_exit(t)
  <2>1. PICK table : table = [f \in Fds |-> NULL]
    OBVIOUS
  <2>2. table \in [Fds -> Descriptors(Dirs)] /\ \A f \in Fds : Good(table[f], children)
    BY <1>1, <2>1, BareDescriptors
  <2>3. fds' = [fds EXCEPT ![t] = table] /\ cwd' = [cwd EXCEPT ![t] = Root] /\ alive' \subseteq Tasks
    BY <1>1, <1>3, <2>1 DEF proc_exit
  <2>4. UNCHANGED children /\ got' = Nothing
    BY <1>3 DEF proc_exit
  <2> QED
    BY <1>1, <2>2, <2>3, <2>4, OneTask
<1> QED
  BY <1>2, <1>3

\* mount makes directories and puts at most one name in front of those there.
LEMMA TreeGrows ==
  ASSUME TreeSound, NEW p \in Mounts, NEW k \in 1 .. Len(p), vfs_mkdir(p, k)
  PROVE  /\ TreeSound' /\ Dirs \subseteq Dirs'
         /\ \A d \in Dirs : \/ children'[d] = children[d]
                            \/ \E x \in AllNames : children'[d] = <<x>> \o children[d]
<1> DEFINE old(d) == IF d \in Dirs THEN children[d] ELSE <<>>
           grows(d) == Len(d) + 1 <= k /\ d = Cut(p, (Len(d) + 1) - 1)
                         /\ Cut(p, Len(d) + 1) \in NewDirs(p, k)
<1>1. /\ children' = [d \in Dirs \cup NewDirs(p, k) |->
                        IF grows(d) THEN <<p[Len(d) + 1]>> \o old(d) ELSE old(d)]
      /\ Dirs' = Dirs \cup NewDirs(p, k)
  BY DEF vfs_mkdir, Dirs
<1>2. p \in Seq(AllNames) /\ Len(p) \in Nat
  BY GivenAreNames, LenProperties DEF Given
<1>3. k \in Nat /\ k <= Len(p)
  BY <1>2
<1>4. \A i \in 1 .. k : p[i] \in AllNames /\ Cut(p, i) \in Seq(AllNames)
  BY <1>2, <1>3, ElementOfSeq, CutIsPrefix
<1>5. NewDirs(p, k) \subseteq Seq(AllNames)
  BY <1>4 DEF NewDirs
<1>6. Dirs' \subseteq Seq(AllNames) /\ Root \in Dirs'
  BY <1>1, <1>5 DEF TreeSound
<1>7. ASSUME NEW d \in Dirs'
      PROVE  \/ children'[d] = old(d)
             \/ \E x \in AllNames : children'[d] = <<x>> \o old(d)
  <2>1. Len(d) \in Nat
    BY <1>6, LenProperties
  <2>2. CASE ~grows(d)
    BY <1>1, <2>2
  <2>3. CASE grows(d)
    <3>1. Len(d) + 1 \in 1 .. k
      BY <1>3, <2>1, <2>3
    <3>2. children'[d] = <<p[Len(d) + 1]>> \o old(d)
      BY <1>1, <2>3
    <3> QED
      BY <1>4, <3>1, <3>2
  <2> QED
    BY <2>2, <2>3
<1>8. ASSUME NEW d \in Dirs' PROVE children'[d] \in Seq(AllNames)
  <2>1. old(d) \in Seq(AllNames)
    BY EmptySeq DEF TreeSound
  <2> HIDE DEF old
  <2> QED
    BY <1>7, <2>1, InFront
<1>9. TreeSound'
  BY <1>6, <1>8 DEF TreeSound
<1> QED
  BY <1>1, <1>7, <1>9

LEMMA MountStep ==
  ASSUME FilesInv, NEW t \in Tasks, sys_mount(t)
  PROVE  FilesInv'
<1>1. PICK p \in Mounts : \E k \in 1 .. Len(p) : vfs_mkdir(p, k)
  BY DEF sys_mount
<1>2. PICK k \in 1 .. Len(p) : vfs_mkdir(p, k)
  BY <1>1
<1>3. UNCHANGED <<alive, fds, cwd>> /\ got' = Nothing
  BY DEF sys_mount
<1>4. TreeSound
  BY DEF FilesInv
<1>5. /\ TreeSound' /\ Dirs \subseteq Dirs'
      /\ \A d \in Dirs : \/ children'[d] = children[d]
                         \/ \E x \in AllNames : children'[d] = <<x>> \o children[d]
  BY <1>2, <1>4, TreeGrows
<1>6. fds \in [Tasks -> [Fds -> Descriptors(Dirs)]] /\ cwd \in [Tasks -> Dirs] /\ alive \subseteq Tasks
  BY DEF FilesInv, TablesSound
<1>7. Descriptors(Dirs) \subseteq Descriptors(Dirs')
  BY <1>5 DEF Descriptors
<1>8. fds' \in [Tasks -> [Fds -> Descriptors(Dirs')]]
  BY <1>3, <1>6, <1>7
<1>9. TablesSound'
  BY <1>3, <1>5, <1>6, <1>8 DEF TablesSound, Descriptors
<1>10. ASSUME NEW u \in Tasks, NEW g \in Fds PROVE Good(fds'[u][g], children')
  <2>1. PICK d : d = fds[u][g]
    OBVIOUS
  <2>2. d \in Descriptors(Dirs) /\ Good(d, children)
    BY <1>6, <2>1 DEF FilesInv, Listings
  <2>3. d.start \in Seq(AllNames) /\ d.pos \in Nat
    BY <2>2, FilesAssumption DEF Descriptors
  <2>4. Typed(d, Dirs')
    BY <1>5, <2>2 DEF Good, Typed, Dirs
  <2>5. ASSUME d.kind = "dir" /\ d.sure PROVE Listing(d, children'[d.path])
    <3>1. Listing(d, children[d.path]) /\ d.path \in Dirs
      BY <2>2, <2>5 DEF Good, Typed, Dirs
    <3>2. children[d.path] \in Seq(AllNames)
      BY <1>4, <3>1 DEF TreeSound
    <3> QED
      BY <1>5, <2>3, <3>1, <3>2, ListingGrows
  <2>6. Good(d, children')
    BY <2>4, <2>5 DEF Good, Dirs
  <2> QED
    BY <1>3, <2>1, <2>6
<1>11. Listings'
  BY <1>10 DEF Listings
<1> QED
  BY <1>3, <1>5, <1>9, <1>11, NothingRead DEF FilesInv

-----------------------------------------------------------------------------
(***************************************************************************)
(* Theorems.                                                               *)
(***************************************************************************)
LEMMA InitInv == Init => FilesInv
<1> SUFFICES ASSUME Init PROVE FilesInv
  OBVIOUS
<1>1. children = Children0 /\ Dirs = DOMAIN Children0 /\ Root \in Dirs
  BY FilesAssumption DEF Init, Dirs, Root
<1>2. TreeSound
  BY <1>1, GivenAreNames DEF TreeSound, Given
<1>3. \A d \in {NULL, Device} : d \in Descriptors(Dirs) /\ Good(d, children)
  BY <1>2, BareDescriptors
<1>4. \A t \in Tasks, f \in Fds : fds[t][f] \in {NULL, Device}
  BY DEF Init
<1>5. TablesSound
  <2>1. 0 \in Tasks
    BY FilesAssumption DEF Tasks
  <2>2. fds \in [Tasks -> [Fds -> {NULL, Device}]]
    BY DEF Init
  <2>3. fds \in [Tasks -> [Fds -> Descriptors(Dirs)]]
    BY <1>3, <2>2
  <2>4. alive \subseteq Tasks /\ cwd \in [Tasks -> Dirs]
    BY <1>1, <2>1 DEF Init
  <2> QED
    BY <2>3, <2>4 DEF TablesSound
<1>6. Listings
  BY <1>3, <1>4 DEF Listings
<1>7. ReadInside
  BY DEF Init, Nothing, ReadInside
<1> QED
  BY <1>2, <1>5, <1>6, <1>7 DEF FilesInv

LEMMA NextInv == FilesInv /\ [Next]_vars => FilesInv'
<1> SUFFICES ASSUME FilesInv, [Next]_vars PROVE FilesInv'
  OBVIOUS
<1>1. CASE UNCHANGED vars
  BY <1>1 DEF vars, FilesInv, TreeSound, Dirs, TablesSound, Descriptors, Listings, ReadInside
<1>2. ASSUME NEW t \in alive,
             \/ sys_open_path(t) \/ sys_chdir(t) \/ sys_mount(t)
             \/ sys_read(t) \/ sys_lseek(t) \/ sys_getdents64(t)
             \/ fd_dup_to(t) \/ sys_close(t) \/ proc_fork(t) \/ proc_exit(t)
      PROVE  FilesInv'
  <2>1. t \in Tasks
    BY DEF FilesInv, TablesSound
  <2> QED
    BY <1>2, <2>1, OpenStep, ChdirStep, MountStep, ReadStep, LseekStep, GetdentsStep,
       DupStep, CloseStep, ForkAndExitStep
<1> QED
  BY <1>1, <1>2 DEF Next

\* FilesInv holds whatever calls the tasks make in whatever order.
THEOREM FilesInvariant == Spec => []FilesInv
<1> QED
  BY InitInv, NextInv, PTL DEF Spec

\* Descriptors name what exists, working directories are directories and
\* positions stay unsigned, whatever seeks, cut paths and copies did before
\* (SYS_chdir, resolve_path, sys_lseek, sys_getdents64).
THEOREM TypeCorrect == Spec => []TypeOK
<1>1. FilesInv => TypeOK
  <2> SUFFICES ASSUME FilesInv PROVE TypeOK
    OBVIOUS
  <2>1. alive \subseteq Tasks /\ \A t \in Tasks : cwd[t] \in Dirs
    BY DEF FilesInv, TablesSound
  <2>2. ASSUME NEW t \in Tasks, NEW f \in Fds
        PROVE  LET d == fds[t][f] IN
               /\ d.kind \in {"null", "device", "closed", "file", "dir"}
               /\ d.pos \in 0 .. PosMod - 1
               /\ d.kind = "file" => d.path \in FilePaths
               /\ d.kind = "dir" => d.path \in Dirs /\ d.pos <= MaxDents
    <3>1. fds[t][f] \in Descriptors(Dirs) /\ Typed(fds[t][f], Dirs)
      BY DEF FilesInv, TablesSound, Listings, Good, Dirs
    <3> QED
      BY <3>1 DEF Descriptors, Typed
  <2> QED
    BY <2>1, <2>2 DEF TypeOK
<1> QED
  BY <1>1, FilesInvariant, PTL

\* No seek makes a read leave its file (sys_lseek, vfs_read).
THEOREM ReadsStayInside == Spec => []ReadInside
<1>1. FilesInv => ReadInside
  BY DEF FilesInv
<1> QED
  BY <1>1, FilesInvariant, PTL

\* A listing is in order and, at its end, complete, while mount adds
\* directories to what is being listed (sys_getdents64, vfs_dir_add).
THEOREM ListingsAreFaithful == Spec => []ListingFaithful
<1>1. FilesInv => ListingFaithful
  <2> SUFFICES ASSUME FilesInv, NEW t \in Tasks, NEW f \in Fds,
                      fds[t][f].kind = "dir", fds[t][f].sure
               PROVE  LET d == fds[t][f] IN
                      /\ children[d.path] = d.start => d.seen = Cut(d.start, Len(d.seen))
                      /\ Len(children[d.path]) \in 0 .. Least(d.pos, MaxDents)
                           => Names(d.start) \subseteq Names(d.seen)
    BY DEF ListingFaithful
  <2>1. PICK d, list : d = fds[t][f] /\ list = children[d.path]
    OBVIOUS
  <2>2. d \in Descriptors(Dirs) /\ Listing(d, list) /\ d.path \in Dirs
    BY <2>1 DEF FilesInv, TablesSound, Listings, Good, Typed, Dirs
  <2>3. /\ d.start \in Seq(AllNames) /\ d.seen \in Seq(AllNames) /\ list \in Seq(AllNames)
        /\ d.pos \in Nat /\ MaxDents \in Nat
    <3>1. d.start \in Seq(AllNames) /\ d.seen \in Seq(AllNames) /\ d.pos \in 0 .. PosMod - 1
      BY <2>2 DEF Descriptors
    <3>2. list \in Seq(AllNames)
      BY <2>1, <2>2, Zenon DEF FilesInv, TreeSound
    <3>3. MaxDents \in Nat /\ PosMod \in Nat
      BY FilesAssumption
    <3> QED
      BY <3>1, <3>2, <3>3
  <2>4. /\ Len(d.start) \in Nat /\ Len(d.seen) \in Nat /\ Len(list) \in Nat
        /\ DOMAIN d.start = 1 .. Len(d.start)
    BY <2>3, LenProperties
  <2>5. ASSUME list = d.start PROVE d.seen = Cut(d.start, Len(d.seen))
    <3>1. Len(d.seen) <= Len(d.start) /\ \A i \in 1 .. Len(d.seen) : d.seen[i] = d.start[i]
      BY <2>2, <2>5 DEF Listing
    <3>2. /\ Cut(d.start, Len(d.seen)) \in Seq(AllNames)
          /\ Len(Cut(d.start, Len(d.seen))) = Least(Len(d.start), Len(d.seen))
          /\ \A i \in 1 .. Len(Cut(d.start, Len(d.seen))) : Cut(d.start, Len(d.seen))[i] = d.start[i]
      BY <2>3, <2>4, CutIsPrefix
    <3>3. Least(Len(d.start), Len(d.seen)) = Len(d.seen)
      BY <2>4, <3>1 DEF Least
    <3> DEFINE c == Cut(d.start, Len(d.seen))
               e == d.seen
    <3>4. /\ c \in Seq(AllNames) /\ e \in Seq(AllNames) /\ Len(e) = Len(c)
          /\ \A i \in 1 .. Len(e) : e[i] = c[i]
      BY <2>3, <3>1, <3>2, <3>3
    <3> HIDE DEF c, e
    <3>5. e = c
      BY <3>4, SeqEqual
    <3> QED
      BY <3>5 DEF c, e
  <2>6. ASSUME Len(list) \in 0 .. Least(d.pos, MaxDents) PROVE Names(d.start) \subseteq Names(d.seen)
    <3>1. Len(list) <= d.pos
      BY <2>3, <2>4, <2>6 DEF Least
    <3>2. ASSUME NEW i \in 1 .. Len(d.start) PROVE i + Ahead(d.start, list) <= d.pos
      <4>1. i <= Len(d.start) /\ i \in Nat
        BY <2>4
      <4> DEFINE a == Len(list)
                 b == Len(d.start)
                 c == d.pos
      <4>2. a \in Nat /\ b \in Nat /\ c \in Nat /\ a <= c /\ i <= b
        BY <2>3, <2>4, <3>1, <4>1
      <4> HIDE DEF a, b, c
      <4>3. i + (a - b) <= c
        BY <4>1, <4>2
      <4> QED
        BY <4>3 DEF Ahead, a, b, c
    <3>3. \A i \in 1 .. Len(d.start) : d.start[i] \in Names(d.seen)
      BY <2>2, <3>2 DEF Listing
    <3> QED
      BY <2>4, <3>3 DEF Names
  <2> QED
    BY <2>1, <2>5, <2>6
<1> QED
  BY <1>1, FilesInvariant, PTL
=============================================================================
