---------------------------- MODULE PipesProofs ----------------------------
(***************************************************************************)
(* Proofs about pipes: their reference counts (Pipes), then the bytes that *)
(* go through them (PipeRing).                                             *)
(*                                                                         *)
(* For any number of tasks, descriptors and pipes: a pipe counts at least  *)
(* the descriptors that are open on it, and none is open on a freed pipe.  *)
(* The two facts need each other: a pipe is freed when both counts are     *)
(* zero, and only because the counts cover the open ends does that mean    *)
(* that nobody has it open.                                                *)
(***************************************************************************)
EXTENDS Pipes, PipeRing, SequenceTheorems, FiniteSetTheorems, TLAPS

PipesInv == TypeOK /\ CountsCoverOpenEnds /\ OpenEndsInUse

LEMMA EndInjective ==
  \A p, q \in PipeIds, e, f \in Ends : End(p, e) = End(q, f) => p = q /\ e = f
BY DEF End

LEMMA EndNotOther ==
  ASSUME NEW p \in PipeIds, NEW e \in Ends
  PROVE  /\ End(p, e) \notin {NULL, Console, File, Closed}
         /\ End(p, e).pipe = p /\ End(p, e).kind = e
         /\ p # NoPipe
BY SizesAssumption DEF End, NULL, Console, File, Closed, Ends, PipeIds, NoPipe

LEMMA FinitelyMany ==
  ASSUME NEW tab, NEW F \in SUBSET Fds, NEW p, NEW e
  PROVE  /\ IsFiniteSet({f \in F : tab[f] = End(p, e)})
         /\ Copied(p, e, tab, F) \in Nat
<1>1. IsFiniteSet(Fds)
  BY FS_Interval, SizesAssumption DEF Fds
<1>2. IsFiniteSet({f \in F : tab[f] = End(p, e)})
  BY <1>1, FS_Subset
<1> QED
  BY <1>2, FS_CardinalityType DEF Copied

LEMMA OpenEndsFinite ==
  ASSUME TypeOK, NEW p, NEW e
  PROVE  /\ IsFiniteSet(OpenEnds(p, e))
         /\ Cardinality(OpenEnds(p, e)) \in Nat
<1>1. IsFiniteSet(Tasks) /\ IsFiniteSet(Fds)
  BY FS_Interval, SizesAssumption DEF Tasks, Fds
<1>2. IsFiniteSet(Tasks \X Fds)
  BY <1>1, FS_Product
<1>3. OpenEnds(p, e) \in SUBSET (Tasks \X Fds)
  BY DEF OpenEnds, TypeOK
<1> QED
  BY <1>2, <1>3, FS_Subset, FS_CardinalityType

LEMMA AddAtMostOne ==
  ASSUME NEW S, IsFiniteSet(S), NEW x, NEW T, T \subseteq S \cup {x}
  PROVE  /\ IsFiniteSet(T)
         /\ Cardinality(T) \in Nat
         /\ Cardinality(T) <= Cardinality(S) + 1
<1>1. IsFiniteSet(S \cup {x}) /\ Cardinality(S \cup {x}) <= Cardinality(S) + 1
  <2>1. Cardinality(S) \in Nat
    BY FS_CardinalityType
  <2> QED
    BY <2>1, FS_AddElement
<1>2. IsFiniteSet(T) /\ Cardinality(T) <= Cardinality(S \cup {x})
  BY <1>1, FS_Subset
<1>3. Cardinality(T) \in Nat /\ Cardinality(S) \in Nat /\ Cardinality(S \cup {x}) \in Nat
  BY <1>1, <1>2, FS_CardinalityType
<1> QED
  BY <1>1, <1>2, <1>3

LEMMA UnionAtMostSum ==
  ASSUME NEW S, IsFiniteSet(S), NEW T, IsFiniteSet(T)
  PROVE  /\ Cardinality(S \cup T) \in Nat
         /\ Cardinality(S \cup T) <= Cardinality(S) + Cardinality(T)
<1>1. /\ IsFiniteSet(S \cup T) /\ IsFiniteSet(S \cap T)
      /\ Cardinality(S \cup T) = Cardinality(S) + Cardinality(T) - Cardinality(S \cap T)
  BY FS_Union, FS_Intersection
<1>2. /\ Cardinality(S) \in Nat /\ Cardinality(T) \in Nat
      /\ Cardinality(S \cup T) \in Nat /\ Cardinality(S \cap T) \in Nat
  BY <1>1, FS_CardinalityType
<1> QED
  BY <1>1, <1>2

(***************************************************************************)
(* A step that opens nothing keeps the invariant.                          *)
(***************************************************************************)
LEMMA NothingOpened ==
  ASSUME PipesInv, TypeOK', UNCHANGED in_use,
         \A p \in PipeIds, e \in Ends :
           /\ OpenEnds(p, e)' \subseteq OpenEnds(p, e)
           /\ in_use[p] => refs'[p][e] >= refs[p][e]
  PROVE  PipesInv'
<1>1. ASSUME NEW p \in PipeIds, NEW e \in Ends, in_use[p]
      PROVE  refs'[p][e] >= Cardinality(OpenEnds(p, e)')
  <2>1. Cardinality(OpenEnds(p, e)') <= Cardinality(OpenEnds(p, e))
    BY OpenEndsFinite, FS_Subset DEF PipesInv
  <2>2. Cardinality(OpenEnds(p, e)') \in Nat
    BY OpenEndsFinite, FS_Subset, FS_CardinalityType DEF PipesInv
  <2>3. refs[p][e] \in Nat /\ refs'[p][e] \in Nat
    BY DEF PipesInv, TypeOK
  <2> QED
    BY <1>1, <2>1, <2>2, <2>3, OpenEndsFinite DEF PipesInv, CountsCoverOpenEnds
<1>2. CountsCoverOpenEnds'
  BY <1>1 DEF CountsCoverOpenEnds
<1>3. OpenEndsInUse'
  BY DEF OpenEndsInUse, PipesInv
<1> QED
  BY <1>2, <1>3 DEF PipesInv

LEMMA CopyCounts ==
  ASSUME TypeOK, NEW t \in Tasks, NEW F \in SUBSET Fds
  PROVE  /\ CountsAfterCopy(fds[t], F) \in [PipeIds -> [Ends -> Nat]]
         /\ \A p \in PipeIds, e \in Ends :
              /\ Copied(p, e, fds[t], F) \in Nat
              /\ CountsAfterCopy(fds[t], F)[p][e] = refs[p][e] + Copied(p, e, fds[t], F)
<1>1. \A p \in PipeIds, e \in Ends : Copied(p, e, fds[t], F) \in Nat
  BY FinitelyMany
<1>2. \A p \in PipeIds, e \in Ends : refs[p][e] \in Nat
  BY DEF TypeOK
<1> QED
  BY <1>1, <1>2 DEF CountsAfterCopy

(***************************************************************************)
(* dup, dup2 and fcntl: one descriptor more on the source's end of the     *)
(* pipe, one less perhaps on the end the target had open.                  *)
(***************************************************************************)
LEMMA CopyStep ==
  ASSUME PipesInv, NEW t \in alive, NEW old \in Fds, NEW new \in Fds,
         NEW src \in Descriptors, CopyDescriptor(t, old, new, src),
         \A p \in PipeIds, e \in Ends : src = End(p, e) => fds[t][old] = End(p, e)
  PROVE  PipesInv'
<1> USE DEF PipesInv, TypeOK
<1>1. /\ fds' = [fds EXCEPT ![t][new] = src]
      /\ refs' = CountsAfterCopy(fds[t], {old})
      /\ alive' = alive /\ in_use' = in_use /\ t \in Tasks
  BY DEF CopyDescriptor
<1>2. TypeOK'
  BY <1>1, CopyCounts
<1>3. ASSUME NEW p \in PipeIds, NEW e \in Ends
      PROVE  /\ in_use'[p] => refs'[p][e] >= Cardinality(OpenEnds(p, e)')
             /\ OpenEnds(p, e)' # {} => in_use'[p]
  <2> DEFINE O == OpenEnds(p, e)
  <2>1. IsFiniteSet(O) /\ Cardinality(O) \in Nat
    BY OpenEndsFinite
  <2>2. /\ refs'[p][e] = refs[p][e] + Copied(p, e, fds[t], {old})
        /\ refs[p][e] \in Nat /\ Copied(p, e, fds[t], {old}) \in Nat
    BY <1>1, CopyCounts
  <2>3. CASE src = End(p, e)
    <3>1. O' \subseteq O \cup {<<t, new>>}
      BY <1>1 DEF OpenEnds
    <3>2. Cardinality(O') <= Cardinality(O) + 1 /\ Cardinality(O') \in Nat
      BY <2>1, <3>1, AddAtMostOne
    <3>3. {f \in {old} : fds[t][f] = End(p, e)} = {old}
      BY <2>3
    <3>4. Copied(p, e, fds[t], {old}) = 1
      BY <3>3, FS_Singleton DEF Copied
    <3>5. <<t, old>> \in O
      BY <2>3 DEF OpenEnds
    <3>6. in_use[p] /\ refs[p][e] >= Cardinality(O)
      BY <3>5 DEF OpenEndsInUse, CountsCoverOpenEnds
    <3> QED
      BY <1>1, <2>1, <2>2, <3>2, <3>4, <3>6
  <2>4. CASE src # End(p, e)
    <3>1. O' \subseteq O
      BY <1>1, <2>4 DEF OpenEnds
    <3>2. Cardinality(O') <= Cardinality(O) /\ Cardinality(O') \in Nat
      BY <2>1, <3>1, FS_Subset, FS_CardinalityType
    <3>3. in_use[p] => refs[p][e] >= Cardinality(O)
      BY DEF CountsCoverOpenEnds
    <3>4. O # {} => in_use[p]
      BY DEF OpenEndsInUse
    <3> QED
      BY <1>1, <2>1, <2>2, <3>1, <3>2, <3>3, <3>4
  <2> QED
    BY <2>3, <2>4
<1> QED
  BY <1>2, <1>3 DEF CountsCoverOpenEnds, OpenEndsInUse

(***************************************************************************)
(* fork: the child's descriptors are all new, and all counted.             *)
(***************************************************************************)
LEMMA ForkStep ==
  ASSUME PipesInv, NEW t \in alive, proc_fork(t)
  PROVE  PipesInv'
<1> USE DEF PipesInv, TypeOK
<1>1. PICK c \in Tasks \ alive :
        /\ fds' = [fds EXCEPT ![c] = fds[t]]
        /\ refs' = CountsAfterCopy(fds[t], Fds)
        /\ alive' = alive \cup {c}
        /\ in_use' = in_use
  BY DEF proc_fork
<1>2. TypeOK'
  BY <1>1, CopyCounts
<1>3. ASSUME NEW p \in PipeIds, NEW e \in Ends
      PROVE  /\ in_use'[p] => refs'[p][e] >= Cardinality(OpenEnds(p, e)')
             /\ OpenEnds(p, e)' # {} => in_use'[p]
  <2> DEFINE O == OpenEnds(p, e)
             C == {f \in Fds : fds[t][f] = End(p, e)}
  <2>1. IsFiniteSet(O) /\ Cardinality(O) \in Nat
    BY OpenEndsFinite
  <2>2. IsFiniteSet(C) /\ Cardinality(C) \in Nat
    <3>1. IsFiniteSet(Fds)
      BY FS_Interval, SizesAssumption DEF Fds
    <3>2. IsFiniteSet(C)
      BY <3>1, FS_Subset
    <3> QED
      BY <3>2, FS_CardinalityType
  <2>3. refs'[p][e] = refs[p][e] + Cardinality(C) /\ refs[p][e] \in Nat
    BY <1>1, CopyCounts DEF Copied
  <2>4. O' = O \cup ({c} \X C)
    BY <1>1 DEF OpenEnds
  <2>5. IsFiniteSet({c} \X C) /\ Cardinality({c} \X C) = Cardinality(C)
    <3>1. IsFiniteSet({c}) /\ Cardinality({c}) = 1
      BY FS_Singleton
    <3>2. Cardinality({c} \X C) = 1 * Cardinality(C) /\ IsFiniteSet({c} \X C)
      BY <2>2, <3>1, FS_Product
    <3> QED
      BY <2>2, <3>2
  <2>6. Cardinality(O') <= Cardinality(O) + Cardinality(C) /\ Cardinality(O') \in Nat
    BY <2>1, <2>4, <2>5, UnionAtMostSum
  <2>7. C # {} => O # {}
    <3>1. \A f \in C : <<t, f>> \in O
      BY DEF OpenEnds
    <3> QED
      BY <3>1
  <2> HIDE DEF O, C
  <2>8. (in_use[p] => refs[p][e] >= Cardinality(O)) /\ (O # {} => in_use[p])
    BY DEF CountsCoverOpenEnds, OpenEndsInUse, O
  <2>9. O' # {} => O # {}
    BY <2>4, <2>7
  <2>10. /\ in_use'[p] => refs'[p][e] >= Cardinality(O')
         /\ O' # {} => in_use'[p]
    BY <1>1, <2>1, <2>2, <2>3, <2>6, <2>8, <2>9
  <2> QED
    BY <2>10 DEF O
<1> QED
  BY <1>2, <1>3 DEF CountsCoverOpenEnds, OpenEndsInUse

(***************************************************************************)
(* pipe: a slot nobody has open gets one reader and one writer.            *)
(***************************************************************************)
LEMMA PipeStep ==
  ASSUME PipesInv, NEW t \in alive, sys_pipe_impl(t)
  PROVE  PipesInv'
<1> USE DEF PipesInv, TypeOK
<1>1. PICK q \in PipeIds, r \in Fds, w \in Fds :
        /\ ~in_use[q] /\ r # w /\ fds[t][r] = NULL /\ fds[t][w] = NULL
        /\ fds' = [fds EXCEPT ![t][r] = End(q, "read"), ![t][w] = End(q, "write")]
        /\ in_use' = [in_use EXCEPT ![q] = TRUE]
        /\ refs' = [refs EXCEPT ![q] = [e \in Ends |-> 1]]
        /\ alive' = alive
  <2>1. \A r, w \in Fds : w >= r + 1 => r # w
    BY SizesAssumption DEF Fds
  <2> QED
    BY <2>1 DEF sys_pipe_impl, FirstFreePipe, FirstFree
<1>2. TypeOK'
  BY <1>1 DEF Descriptors, Ends
<1>3. ASSUME NEW p \in PipeIds, NEW e \in Ends
      PROVE  /\ in_use'[p] => refs'[p][e] >= Cardinality(OpenEnds(p, e)')
             /\ OpenEnds(p, e)' # {} => in_use'[p]
  <2>1. CASE p = q
    <3> DEFINE x == <<t, IF e = "read" THEN r ELSE w>>
    <3>1. OpenEnds(p, e) = {}
      BY <1>1, <2>1 DEF OpenEndsInUse
    <3>2. OpenEnds(p, e)' \subseteq {x}
      BY <1>1, <2>1, <3>1, EndInjective DEF OpenEnds, Ends
    <3>3. Cardinality(OpenEnds(p, e)') <= 1
      <4> HIDE DEF x
      <4>1. IsFiniteSet({x}) /\ Cardinality({x}) = 1
        BY FS_Singleton
      <4> QED
        BY <3>2, <4>1, FS_Subset
    <3> QED
      BY <1>1, <2>1, <3>3
  <2>2. CASE p # q
    <3>1. OpenEnds(p, e)' = OpenEnds(p, e)
      BY <1>1, <2>2, EndInjective, EndNotOther DEF OpenEnds, Ends
    <3>2. refs'[p] = refs[p] /\ in_use'[p] = in_use[p]
      BY <1>1, <2>2
    <3> QED
      BY <3>1, <3>2 DEF CountsCoverOpenEnds, OpenEndsInUse
  <2> QED
    BY <2>1, <2>2
<1> QED
  BY <1>2, <1>3 DEF CountsCoverOpenEnds, OpenEndsInUse

(***************************************************************************)
(* close: one open end less and one less counted.                          *)
(***************************************************************************)
LEMMA CloseStep ==
  ASSUME PipesInv, NEW t \in alive, sys_close(t)
  PROVE  PipesInv'
<1> USE DEF PipesInv, TypeOK
<1>1. PICK f \in Fds :
        /\ fds[t][f] # NULL
        /\ fds' = [fds EXCEPT ![t][f] = NULL]
        /\ alive' = alive
        /\ IF fds[t][f].pipe = NoPipe
             THEN UNCHANGED <<in_use, refs>>
             ELSE /\ refs' = [refs EXCEPT ![fds[t][f].pipe][fds[t][f].kind] = Lowered(@)]
                  /\ in_use' = [in_use EXCEPT ![fds[t][f].pipe] =
                                  @ /\ \E e \in Ends : refs'[fds[t][f].pipe][e] # 0]
  BY DEF sys_close
<1>2. \A p \in PipeIds, e \in Ends : OpenEnds(p, e)' = OpenEnds(p, e) \ {<<t, f>>}
  BY <1>1, EndNotOther DEF OpenEnds
<1>3. NULL \in Descriptors /\ t \in Tasks /\ fds[t][f] \in Descriptors
  BY DEF Descriptors
<1>4. CASE fds[t][f].pipe = NoPipe
  <2>1. UNCHANGED <<in_use, refs>>
    BY <1>1, <1>4
  <2>2. TypeOK'
    BY <1>1, <1>3, <2>1
  <2>3. \A p \in PipeIds, e \in Ends :
          /\ OpenEnds(p, e)' \subseteq OpenEnds(p, e)
          /\ in_use[p] => refs'[p][e] >= refs[p][e]
    BY <1>2, <2>1
  <2> QED
    BY <2>1, <2>2, <2>3, NothingOpened
<1>5. CASE fds[t][f].pipe # NoPipe
  <2>1. PICK q \in PipeIds, g \in Ends : fds[t][f] = End(q, g)
    BY <1>3, <1>5 DEF Descriptors, NULL, Console, File, Closed
  <2>2. /\ refs' = [refs EXCEPT ![q][g] = Lowered(@)]
        /\ in_use' = [in_use EXCEPT ![q] = @ /\ \E e \in Ends : refs'[q][e] # 0]
    BY <1>1, <1>5, <2>1, EndNotOther
  <2>3. <<t, f>> \in OpenEnds(q, g)
    BY <2>1 DEF OpenEnds
  <2>4. in_use[q] /\ refs[q][g] >= Cardinality(OpenEnds(q, g))
    BY <2>3 DEF OpenEndsInUse, CountsCoverOpenEnds
  <2>5. /\ IsFiniteSet(OpenEnds(q, g)) /\ Cardinality(OpenEnds(q, g)) \in Nat
        /\ Cardinality(OpenEnds(q, g)) # 0
    BY <2>3, OpenEndsFinite, FS_EmptySet
  <2>6. refs[q][g] \in Nat /\ refs[q][g] > 0
    BY <2>4, <2>5
  <2>7. refs' = [refs EXCEPT ![q][g] = refs[q][g] - 1]
    BY <2>2, <2>6 DEF Lowered
  <2>8. TypeOK'
    BY <1>1, <1>3, <2>2, <2>6, <2>7
  <2>9. ASSUME NEW p \in PipeIds, NEW e \in Ends
        PROVE  refs'[p][e] >= Cardinality(OpenEnds(p, e)') \/ ~in_use[p]
    <3>1. CASE p = q /\ e = g
      <4>1. Cardinality(OpenEnds(p, e)') = Cardinality(OpenEnds(q, g)) - 1
        BY <1>2, <2>3, <2>5, <3>1, FS_RemoveElement
      <4> QED
        BY <2>4, <2>5, <2>6, <2>7, <3>1, <4>1
    <3>2. CASE ~(p = q /\ e = g)
      <4>1. OpenEnds(p, e)' = OpenEnds(p, e)
        <5>1. <<t, f>> \notin OpenEnds(p, e)
          BY <2>1, <3>2, EndInjective DEF OpenEnds
        <5>2. OpenEnds(p, e) \ {<<t, f>>} = OpenEnds(p, e)
          BY <5>1
        <5> QED
          BY <1>2, <5>2
      <4>2. refs'[p][e] = refs[p][e]
        BY <2>7, <3>2
      <4> QED
        BY <4>1, <4>2 DEF CountsCoverOpenEnds
    <3> QED
      BY <3>1, <3>2
  <2>10. CountsCoverOpenEnds'
    <3>1. \A p \in PipeIds : in_use'[p] => in_use[p]
      BY <2>2
    <3> QED
      BY <2>9, <3>1 DEF CountsCoverOpenEnds
  <2>11. ASSUME NEW p \in PipeIds, NEW e \in Ends, OpenEnds(p, e)' # {}
         PROVE  in_use'[p]
    <3>1. OpenEnds(p, e) # {} /\ in_use[p]
      BY <1>2, <2>11 DEF OpenEndsInUse
    <3>2. CASE p # q
      BY <2>2, <3>1, <3>2
    <3>3. CASE p = q
      <4>1. refs'[p][e] # 0
        <5>1. IsFiniteSet(OpenEnds(p, e)') /\ Cardinality(OpenEnds(p, e)') \in Nat
          <6>1. IsFiniteSet(OpenEnds(p, e)) /\ OpenEnds(p, e)' \subseteq OpenEnds(p, e)
            BY <1>2, OpenEndsFinite
          <6>2. IsFiniteSet(OpenEnds(p, e)')
            BY <6>1, FS_Subset
          <6> QED
            BY <6>2, FS_CardinalityType
        <5>2. Cardinality(OpenEnds(p, e)') # 0
          BY <2>11, <5>1, FS_EmptySet
        <5>3. refs'[p][e] >= Cardinality(OpenEnds(p, e)')
          BY <2>9, <3>1
        <5> QED
          BY <2>8, <5>1, <5>2, <5>3
      <4> QED
        BY <2>2, <3>1, <3>3, <4>1
    <3> QED
      BY <3>2, <3>3
  <2> QED
    BY <2>8, <2>10, <2>11 DEF OpenEndsInUse
<1> QED
  BY <1>4, <1>5

-----------------------------------------------------------------------------
LEMMA InitInv == Init => PipesInv
<1> SUFFICES ASSUME Init PROVE PipesInv
  OBVIOUS
<1>1. TypeOK
  BY SizesAssumption DEF Init, TypeOK, Descriptors, Tasks
<1>2. \A p \in PipeIds, e \in Ends : OpenEnds(p, e) = {}
  <2>1. 0 \in Tasks
    BY SizesAssumption DEF Tasks
  <2>2. \A f \in Fds : fds[0][f] \in {NULL, Console}
    BY <2>1 DEF Init
  <2>3. \A x \in alive \X Fds : fds[x[1]][x[2]] \in {NULL, Console}
    BY <2>2 DEF Init
  <2> QED
    BY <2>3, EndNotOther DEF OpenEnds
<1> QED
  BY <1>1, <1>2 DEF Init, PipesInv, CountsCoverOpenEnds, OpenEndsInUse

LEMMA NextInv == PipesInv /\ [Next]_vars => PipesInv'
<1> SUFFICES ASSUME PipesInv, [Next]_vars PROVE PipesInv'
  OBVIOUS
<1>1. CASE UNCHANGED vars
  BY <1>1 DEF vars, PipesInv, TypeOK, CountsCoverOpenEnds, OpenEndsInUse, OpenEnds
<1>2. ASSUME NEW t \in alive,
             \/ sys_open_path(t) \/ sys_pipe_impl(t) \/ sys_pipe_fails(t)
             \/ sys_dup(t) \/ sys_dup2(t) \/ fd_dup_from(t) \/ sys_close(t)
             \/ proc_fd_close_all(t) \/ proc_fork(t) \/ proc_fork_fails(t) \/ proc_exit(t)
      PROVE  PipesInv'
  <2>0. /\ TypeOK /\ t \in Tasks /\ fds[t] \in [Fds -> Descriptors]
        /\ {NULL, Console, File, Closed} \subseteq Descriptors
    BY DEF PipesInv, TypeOK, Descriptors
  <2>1. CASE sys_open_path(t)
    <3>1. PICK f \in Fds, d \in {File, Console} : fds' = [fds EXCEPT ![t][f] = d]
      BY <2>1 DEF sys_open_path
    <3>2. UNCHANGED <<alive, in_use, refs>>
      BY <2>1 DEF sys_open_path
    <3>3. TypeOK'
      BY <2>0, <3>1, <3>2 DEF TypeOK
    <3>4. \A p \in PipeIds, e \in Ends : OpenEnds(p, e)' \subseteq OpenEnds(p, e)
      BY <2>0, <3>1, <3>2, EndNotOther DEF OpenEnds, TypeOK
    <3> QED
      BY <3>2, <3>3, <3>4, NothingOpened DEF TypeOK
  <2>2. CASE sys_pipe_impl(t)
    BY <2>2, PipeStep
  <2>3. CASE sys_pipe_fails(t)
    <3>1. PICK q \in PipeIds, n \in {0, 1} :
            ~in_use[q] /\ refs' = [refs EXCEPT ![q] = [e \in Ends |-> n]]
      BY <2>3 DEF sys_pipe_fails, FirstFreePipe
    <3>2. UNCHANGED <<alive, fds, in_use>>
      BY <2>3 DEF sys_pipe_fails
    <3>3. TypeOK'
      BY <2>0, <3>1, <3>2 DEF TypeOK
    <3>4. \A p \in PipeIds, e \in Ends :
            /\ OpenEnds(p, e)' \subseteq OpenEnds(p, e)
            /\ in_use[p] => refs'[p][e] >= refs[p][e]
      BY <2>0, <3>1, <3>2 DEF OpenEnds, TypeOK
    <3> QED
      BY <3>2, <3>3, <3>4, NothingOpened
  <2>4. CASE sys_dup(t)
    <3>1. PICK old \in Fds, new \in Fds : CopyDescriptor(t, old, new, fds[t][old])
      BY <2>4 DEF sys_dup
    <3> QED
      BY <2>0, <3>1, CopyStep
  <2>5. CASE sys_dup2(t)
    <3>1. PICK old \in Fds, new \in Fds :
            \E src \in IF new = old THEN VfsClosed(fds[t][old]) ELSE {fds[t][old]} :
              CopyDescriptor(t, old, new, src)
      BY <2>5 DEF sys_dup2
    <3>2. PICK src \in {fds[t][old]} \cup {Console, Closed} : CopyDescriptor(t, old, new, src)
      BY <3>1 DEF VfsClosed
    <3>3. src \in Descriptors
      BY <2>0, <3>2
    <3>4. \A p \in PipeIds, e \in Ends : src = End(p, e) => fds[t][old] = End(p, e)
      BY <3>2, EndNotOther
    <3> QED
      BY <3>2, <3>3, <3>4, CopyStep
  <2>6. CASE fd_dup_from(t)
    <3>1. PICK old \in Fds, new \in Fds : CopyDescriptor(t, old, new, fds[t][old])
      BY <2>6 DEF fd_dup_from
    <3> QED
      BY <2>0, <3>1, CopyStep
  <2>7. CASE sys_close(t)
    BY <2>7, CloseStep
  <2>8. CASE proc_fd_close_all(t)
    <3>1. /\ fds' = [fds EXCEPT ![t] = [f \in Fds |-> IF f >= StdFds THEN NULL ELSE fds[t][f]]]
          /\ UNCHANGED <<alive, in_use, refs>>
      BY <2>8 DEF proc_fd_close_all
    <3>2. TypeOK'
      BY <2>0, <3>1 DEF TypeOK
    <3>3. \A p \in PipeIds, e \in Ends : OpenEnds(p, e)' \subseteq OpenEnds(p, e)
      BY <2>0, <3>1, EndNotOther DEF OpenEnds, TypeOK
    <3> QED
      BY <3>1, <3>2, <3>3, NothingOpened DEF TypeOK
  <2>9. CASE proc_fork(t)
    BY <2>9, ForkStep
  <2>10. CASE proc_fork_fails(t)
    <3>1. PICK k \in Fds : refs' = CountsAfterCopy(fds[t], {f \in Fds : f < k})
      BY <2>10 DEF proc_fork_fails
    <3>2. UNCHANGED <<alive, fds, in_use>>
      BY <2>10 DEF proc_fork_fails
    <3>3. /\ refs' \in [PipeIds -> [Ends -> Nat]]
          /\ \A p \in PipeIds, e \in Ends : refs'[p][e] >= refs[p][e]
      <4> DEFINE F == {f \in Fds : f < k}
      <4>1. F \in SUBSET Fds /\ refs' = CountsAfterCopy(fds[t], F)
        BY <3>1
      <4> HIDE DEF F
      <4>2. \A p \in PipeIds, e \in Ends : refs[p][e] \in Nat
        BY <2>0 DEF TypeOK
      <4>3. refs' \in [PipeIds -> [Ends -> Nat]]
        BY <2>0, <4>1, CopyCounts
      <4>4. ASSUME NEW p \in PipeIds, NEW e \in Ends PROVE refs'[p][e] >= refs[p][e]
        <5>1. /\ Copied(p, e, fds[t], F) \in Nat
              /\ refs'[p][e] = refs[p][e] + Copied(p, e, fds[t], F)
          BY <2>0, <4>1, CopyCounts
        <5> QED
          BY <4>2, <5>1
      <4> QED
        BY <4>3, <4>4
    <3>4. TypeOK'
      BY <2>0, <3>2, <3>3 DEF TypeOK
    <3>5. \A p \in PipeIds, e \in Ends : OpenEnds(p, e)' \subseteq OpenEnds(p, e)
      BY <3>2 DEF OpenEnds
    <3> QED
      BY <3>2, <3>3, <3>4, <3>5, NothingOpened
  <2>11. CASE proc_exit(t)
    <3>1. /\ alive' = alive \ {t} /\ UNCHANGED <<in_use, refs>>
          /\ fds' = [fds EXCEPT ![t] = [f \in Fds |-> NULL]]
      BY <2>11 DEF proc_exit
    <3>2. TypeOK'
      BY <2>0, <3>1 DEF TypeOK
    <3>3. \A p \in PipeIds, e \in Ends : OpenEnds(p, e)' \subseteq OpenEnds(p, e)
      BY <2>0, <3>1 DEF OpenEnds, TypeOK
    <3> QED
      BY <3>1, <3>2, <3>3, NothingOpened DEF TypeOK
  <2> QED
    BY <1>2, <2>1, <2>2, <2>3, <2>4, <2>5, <2>6, <2>7, <2>8, <2>9, <2>10, <2>11
<1> QED
  BY <1>1, <1>2 DEF Next

\* The reference counts of pipes are sound: they cover every open descriptor,
\* and no live task has a descriptor on a freed pipe.
THEOREM PipeCountsSound == Spec => [](TypeOK /\ CountsCoverOpenEnds /\ OpenEndsInUse)
<1>1. PipesInv <=> TypeOK /\ CountsCoverOpenEnds /\ OpenEndsInUse
  BY DEF PipesInv
<1> QED
  BY <1>1, InitInv, NextInv, PTL DEF Spec

\* Descriptors and counts keep their types: no count goes below zero, however
\* often close, exit and failed forks lower it.
THEOREM TypeCorrect == Spec => []TypeOK
BY PipeCountsSound, PTL

\* No live task holds an end of a pipe slot that has been freed and may be
\* handed out again.
THEOREM NoFreedPipeIsOpen == Spec => []OpenEndsInUse
BY PipeCountsSound, PTL

-----------------------------------------------------------------------------
(***************************************************************************)
(* An end whose count is zero is open nowhere, so no copy can raise it.    *)
(***************************************************************************)
LEMMA NobodyCopiesZero ==
  ASSUME PipesInv, NEW t \in alive, NEW F \in SUBSET Fds,
         NEW p \in PipeIds, NEW e \in Ends, in_use[p], refs[p][e] = 0
  PROVE  CountsAfterCopy(fds[t], F)[p][e] = 0
<1>1. OpenEnds(p, e) = {}
  <2>1. IsFiniteSet(OpenEnds(p, e)) /\ Cardinality(OpenEnds(p, e)) \in Nat
    BY OpenEndsFinite DEF PipesInv
  <2>2. Cardinality(OpenEnds(p, e)) <= 0
    BY DEF PipesInv, CountsCoverOpenEnds
  <2> QED
    BY <2>1, <2>2, FS_EmptySet
<1>2. {f \in F : fds[t][f] = End(p, e)} = {}
  <2>1. \A f \in Fds : fds[t][f] = End(p, e) => <<t, f>> \in OpenEnds(p, e)
    BY DEF OpenEnds
  <2> QED
    BY <1>1, <2>1
<1>3. Copied(p, e, fds[t], F) = 0
  BY <1>2, FS_EmptySet DEF Copied
<1>4. t \in Tasks /\ TypeOK
  BY DEF PipesInv, TypeOK
<1>5. CountsAfterCopy(fds[t], F)[p][e] = refs[p][e] + Copied(p, e, fds[t], F)
  BY <1>4, CopyCounts, Zenon
<1> QED
  BY <1>3, <1>5

\* End of file and EPIPE are final for as long as the pipe exists.
THEOREM ZeroStaysZero == Spec => EndOfFileIsFinal
<1>1. PipesInv /\ [Next]_vars => [ZeroIsFinal]_vars
  <2> SUFFICES ASSUME PipesInv, NEW t \in alive,
                 \/ sys_open_path(t) \/ sys_pipe_impl(t) \/ sys_pipe_fails(t)
                 \/ sys_dup(t) \/ sys_dup2(t) \/ fd_dup_from(t) \/ sys_close(t)
                 \/ proc_fd_close_all(t) \/ proc_fork(t) \/ proc_fork_fails(t) \/ proc_exit(t),
                 NEW p \in PipeIds, NEW e \in Ends,
                 in_use[p], in_use'[p], refs[p][e] = 0
               PROVE  refs'[p][e] = 0
    BY DEF Next, ZeroIsFinal
  <2>1. CASE sys_open_path(t) \/ proc_fd_close_all(t) \/ proc_exit(t)
    BY <2>1 DEF sys_open_path, proc_fd_close_all, proc_exit
  <2>2. CASE sys_pipe_impl(t) \/ sys_pipe_fails(t)
    BY <2>2 DEF sys_pipe_impl, sys_pipe_fails, FirstFreePipe, PipesInv, TypeOK
  <2>3. CASE sys_dup(t) \/ sys_dup2(t) \/ fd_dup_from(t)
    <3>1. PICK old \in Fds : refs' = CountsAfterCopy(fds[t], {old})
      BY <2>3 DEF sys_dup, sys_dup2, fd_dup_from, CopyDescriptor
    <3>2. {old} \in SUBSET Fds
      OBVIOUS
    <3> QED
      BY <3>1, <3>2, NobodyCopiesZero
  <2>4. CASE proc_fork(t) \/ proc_fork_fails(t)
    <3>1. PICK F \in SUBSET Fds : refs' = CountsAfterCopy(fds[t], F)
      BY <2>4 DEF proc_fork, proc_fork_fails
    <3> QED
      BY <3>1, NobodyCopiesZero
  <2>5. CASE sys_close(t)
    <3>1. \/ refs' = refs
          \/ \E q, g : refs' = [refs EXCEPT ![q][g] = Lowered(@)]
      BY <2>5 DEF sys_close
    <3> QED
      BY <3>1 DEF Lowered, PipesInv, TypeOK
  <2> QED
    BY <2>1, <2>2, <2>3, <2>4, <2>5
<1>2. PipesInv <=> TypeOK /\ CountsCoverOpenEnds /\ OpenEndsInUse
  BY DEF PipesInv
<1> QED
  BY <1>1, <1>2, PipeCountsSound, PTL DEF Spec, EndOfFileIsFinal

-----------------------------------------------------------------------------
(***************************************************************************)
(* The data path.  The ring buffer of a pipe is a queue of bytes, for a    *)
(* ring, chunks, writes and reads of every size and any number of readers  *)
(* and writers.                                                            *)
(*                                                                         *)
(* The types alone are not inductive: that the counters of ends stay       *)
(* above zero depends on who has closed, and that the queue survives a     *)
(* write depends on head, which is always count places after tail.         *)
(***************************************************************************)

\* head is redundant: pipe_write and pipe_read move it and tail together.
HeadAfterCount == head = (tail + count) % Size

\* The counters of struct pipe say how many tasks hold their end open.
CountersExact ==
  /\ readers = Cardinality(open \cap Readers)
  /\ writers = Cardinality(open \cap Writers)

\* Whoever waits in a read still holds the read end.
AskersOpen == \A r \in Readers : rcall[r] # NoRead => r \in open

RingInv == RingTypeOK /\ HeadAfterCount /\ CountersExact /\ AskersOpen

-----------------------------------------------------------------------------
(***************************************************************************)
(* Places in the ring.                                                     *)
(***************************************************************************)

\* One subtraction is enough to wrap a place that is at most once around.
LEMMA Wrap ==
  ASSUME NEW a \in 0 .. 2 * Size - 1
  PROVE  a % Size = IF a < Size THEN a ELSE a - Size
<1>1. Size \in Nat /\ Size > 0
  BY RingAssumption
<1> DEFINE q == a \div Size
           r == a % Size
<1>2. q \in Int /\ r \in 0 .. Size - 1 /\ a = Size * q + r
  BY <1>1
<1> HIDE DEF q, r
<1>3. q >= 0
  <2>1. q <= -1 => Size * q <= Size * (-1)
    BY <1>1, <1>2
  <2> QED
    BY <1>1, <1>2, <2>1
<1>4. q <= 1
  <2>1. q >= 2 => Size * q >= Size * 2
    BY <1>1, <1>2
  <2> QED
    BY <1>1, <1>2, <2>1
<1>5. CASE q = 0
  BY <1>1, <1>2, <1>5 DEF r
<1>6. CASE q = 1
  BY <1>1, <1>2, <1>6 DEF r
<1> QED
  BY <1>2, <1>3, <1>4, <1>5, <1>6

\* The places of the ring, counted from tail.
Place(j) == (tail + j) % Size

\* How far a place is behind head: less than the free room exactly for the
\* places that hold no byte.
LEMMA Distance ==
  ASSUME RingTypeOK, HeadAfterCount, NEW j \in Places
  PROVE  /\ Place(j) \in Places
         /\ (Place(j) - head + Size) % Size = IF j >= count THEN j - count ELSE j - count + Size
<1>1. Size \in Nat /\ Size > 0 /\ tail \in 0 .. Size - 1 /\ count \in 0 .. Size /\ j \in 0 .. Size - 1
  BY RingAssumption DEF RingTypeOK, Places
<1>2. head = IF tail + count < Size THEN tail + count ELSE tail + count - Size
  BY <1>1, Wrap DEF HeadAfterCount
<1>3. Place(j) = IF tail + j < Size THEN tail + j ELSE tail + j - Size
  BY <1>1, Wrap DEF Place
<1>4. Place(j) - head + Size \in 0 .. 2 * Size - 1
  BY <1>1, <1>2, <1>3
<1>5. (Place(j) - head + Size) % Size =
        IF Place(j) - head + Size < Size THEN Place(j) - head + Size ELSE Place(j) - head
  BY <1>1, <1>2, <1>3, <1>4, Wrap
<1> QED
  BY <1>1, <1>2, <1>3, <1>5 DEF Places

-----------------------------------------------------------------------------
(***************************************************************************)
(* Sequences of bytes.                                                     *)
(***************************************************************************)
LEMMA BoundedSeqs ==
  ASSUME NEW n \in Nat, NEW s
  PROVE  s \in SeqsUpTo(n) <=> s \in Seq(Bytes) /\ Len(s) <= n
<1>1. ASSUME s \in SeqsUpTo(n) PROVE s \in Seq(Bytes) /\ Len(s) <= n
  <2>1. PICK k \in 0 .. n : s \in [1 .. k -> Bytes]
    BY <1>1 DEF SeqsUpTo
  <2> QED
    BY <2>1
<1>2. ASSUME s \in Seq(Bytes), Len(s) <= n PROVE s \in SeqsUpTo(n)
  <2>1. Len(s) \in 0 .. n /\ s \in [1 .. Len(s) -> Bytes]
    BY <1>2, LenProperties
  <2> QED
    BY <2>1 DEF SeqsUpTo
<1> QED
  BY <1>1, <1>2

\* The rest of some bytes is no longer than they are.
LEMMA RestIsShorter ==
  ASSUME NEW s \in SeqsUpTo(MaxWrite), NEW n \in 0 .. Len(s)
  PROVE  Rest(s, n) \in SeqsUpTo(MaxWrite)
<1>1. MaxWrite \in Nat /\ s \in Seq(Bytes) /\ Len(s) <= MaxWrite /\ Len(s) \in Nat
  BY RingAssumption, BoundedSeqs, LenProperties
<1>2. \A i \in n + 1 .. Len(s) : s[i] \in Bytes
  BY <1>1, ElementOfSeq
<1>3. Rest(s, n) \in Seq(Bytes) /\ Len(Rest(s, n)) <= Len(s)
  BY <1>1, <1>2, SubSeqProperties DEF Rest
<1>4. Len(Rest(s, n)) <= MaxWrite
  BY <1>1, <1>3, LenProperties
<1> QED
  BY <1>1, <1>3, <1>4, BoundedSeqs

LEMMA NothingIsSeq == \A n \in Nat : <<>> \in SeqsUpTo(n)
<1>1. <<>> \in Seq(Bytes) /\ Len(<<>>) = 0
  BY EmptySeq
<1>2. \A n \in Nat : Len(<<>>) <= n
  BY <1>1
<1> QED
  BY <1>1, <1>2, BoundedSeqs, Zenon

\* What is read is a sequence of bytes.
LEMMA OldestAreBytes ==
  ASSUME RingTypeOK, NEW n \in 0 .. count
  PROVE  /\ Oldest(n) \in Seq(Bytes) /\ Len(Oldest(n)) = n
         /\ \A i \in 1 .. n : Oldest(n)[i] = buf[Place(i - 1)]
<1>1. Size \in Nat \ {0} /\ tail \in Nat /\ n \in Nat
  BY RingAssumption DEF RingTypeOK, Places
<1>2. \A i \in 1 .. n : (tail + i - 1) % Size \in Places
  BY <1>1 DEF Places
<1>3. Oldest(n) \in [1 .. n -> Bytes]
  BY <1>2 DEF Oldest, RingTypeOK
<1>4. \A i \in 1 .. n : tail + i - 1 = tail + (i - 1)
  BY <1>1
<1>5. \A i \in 1 .. n : Oldest(n)[i] = buf[Place(i - 1)]
  BY <1>4 DEF Oldest, Place
<1>6. Oldest(n) \in Seq(Bytes) /\ Len(Oldest(n)) = n
  BY <1>1, <1>3
<1> QED
  BY <1>5, <1>6

-----------------------------------------------------------------------------
(***************************************************************************)
(* pipe_write and pipe_read, seen as changes of the queue of bytes.        *)
(***************************************************************************)

\* pipe_write puts bytes behind the ones that are there and keeps those.
LEMMA WriteAppends ==
  ASSUME RingInv, NEW data \in SeqsUpTo(MaxWrite), NEW n \in 0 .. Len(data),
         n <= Size - count, pipe_write(data, n)
  PROVE  /\ buf' \in [Places -> Bytes] /\ head' \in Places /\ count' \in 0 .. Size
         /\ tail' = tail /\ HeadAfterCount'
         /\ Oldest(count)' = Oldest(count) \o SubSeq(data, 1, n)
<1>1. /\ Size \in Nat /\ Size > 0 /\ tail \in 0 .. Size - 1 /\ count \in 0 .. Size
      /\ head \in 0 .. Size - 1 /\ MaxWrite \in Nat /\ RingTypeOK /\ HeadAfterCount
  BY RingAssumption DEF RingInv, RingTypeOK, Places
<1>2. data \in Seq(Bytes) /\ Len(data) \in Nat
  BY <1>1, BoundedSeqs, LenProperties
<1>3. n \in Nat /\ n <= Len(data) /\ count + n <= Size
  BY <1>1, <1>2
<1>4. /\ buf' = [i \in Places |->
                   LET k == ((i - head + Size) % Size) + 1
                   IN  IF k <= n THEN data[k] ELSE buf[i]]
      /\ head' = (head + n) % Size /\ count' = count + n /\ tail' = tail
  BY DEF pipe_write
<1>5. \A k \in 1 .. n : data[k] \in Bytes
  BY <1>2, <1>3, ElementOfSeq
<1>6. \A i \in Places : (i - head + Size) % Size \in Places
  BY <1>1 DEF Places
<1>7. buf' \in [Places -> Bytes]
  <2>1. ASSUME NEW i \in Places
        PROVE  (LET k == ((i - head + Size) % Size) + 1 IN IF k <= n THEN data[k] ELSE buf[i]) \in Bytes
    BY <1>1, <1>3, <1>5, <1>6 DEF RingTypeOK, Places
  <2> QED
    BY <1>4, <2>1
<1>8. count' \in 0 .. Size
  BY <1>1, <1>3, <1>4
<1>9. HeadAfterCount' /\ head' \in Places
  <2>1. head = IF tail + count < Size THEN tail + count ELSE tail + count - Size
    BY <1>1, Wrap DEF HeadAfterCount
  <2>2. (head + n) % Size = IF head + n < Size THEN head + n ELSE head + n - Size
    BY <1>1, <1>3, <2>1, Wrap
  <2>3. (tail + (count + n)) % Size =
          IF tail + (count + n) < Size THEN tail + (count + n) ELSE tail + (count + n) - Size
    BY <1>1, <1>3, Wrap
  <2>4. (head + n) % Size = (tail + (count + n)) % Size
    BY <1>1, <1>3, <2>1, <2>2, <2>3
  <2>5. HeadAfterCount'
    BY <1>4, <2>4 DEF HeadAfterCount
  <2>6. head' \in Places
    BY <1>1, <1>3, <1>4, <2>1, <2>2 DEF Places
  <2> QED
    BY <2>5, <2>6
<1> DEFINE new == [i \in 1 .. count + n |-> buf'[Place(i - 1)]]
           old == Oldest(count) \o SubSeq(data, 1, n)
<1>10. Oldest(count)' = new
  <2>1. \A i \in 1 .. count + n : tail + i - 1 = tail + (i - 1)
    BY <1>1, <1>3
  <2> QED
    BY <1>4, <2>1 DEF Oldest, Place
<1>11. /\ Oldest(count) \in Seq(Bytes) /\ Len(Oldest(count)) = count
       /\ \A i \in 1 .. count : Oldest(count)[i] = buf[Place(i - 1)]
  <2>1. count \in 0 .. count
    BY <1>1
  <2> QED
    BY <2>1, OldestAreBytes DEF RingInv
<1>12. /\ SubSeq(data, 1, n) \in Seq(Bytes) /\ Len(SubSeq(data, 1, n)) = n
       /\ \A i \in 1 .. n : SubSeq(data, 1, n)[i] = data[i]
  BY <1>3, <1>5, SubSeqProperties
<1>13. /\ old \in Seq(Bytes) /\ Len(old) = count + n
       /\ \A i \in 1 .. count + n : old[i] = IF i <= count THEN buf[Place(i - 1)] ELSE data[i - count]
  <2>0. /\ old \in Seq(Bytes) /\ Len(old) = Len(Oldest(count)) + Len(SubSeq(data, 1, n))
        /\ \A i \in 1 .. Len(Oldest(count)) + Len(SubSeq(data, 1, n)) :
             old[i] = IF i <= Len(Oldest(count)) THEN Oldest(count)[i]
                      ELSE SubSeq(data, 1, n)[i - Len(Oldest(count))]
    BY <1>11, <1>12, ConcatProperties, Zenon
  <2>1. /\ old \in Seq(Bytes) /\ Len(old) = count + n
        /\ \A i \in 1 .. count + n :
             old[i] = IF i <= count THEN Oldest(count)[i] ELSE SubSeq(data, 1, n)[i - count]
    BY <1>11, <1>12, <2>0, Zenon
  <2> HIDE DEF old
  <2>2. ASSUME NEW i \in 1 .. count + n
        PROVE  old[i] = IF i <= count THEN buf[Place(i - 1)] ELSE data[i - count]
    <3>1. CASE i <= count
      BY <1>1, <1>3, <1>11, <2>1, <3>1
    <3>2. CASE i > count
      <4>1. i - count \in 1 .. n
        BY <1>1, <1>3, <3>2
      <4> QED
        BY <1>1, <1>3, <1>12, <2>1, <3>2, <4>1
    <3> QED
      BY <1>1, <1>3, <3>1, <3>2
  <2> QED
    BY <2>1, <2>2
<1>14. ASSUME NEW i \in 1 .. count + n
       PROVE  buf'[Place(i - 1)] = IF i <= count THEN buf[Place(i - 1)] ELSE data[i - count]
  <2>1. i - 1 \in Places /\ i \in Int
    BY <1>1, <1>3 DEF Places
  <2>2. /\ Place(i - 1) \in Places
        /\ (Place(i - 1) - head + Size) % Size =
             IF i - 1 >= count THEN i - 1 - count ELSE i - 1 - count + Size
    BY <1>1, <2>1, Distance
  <2>3. buf'[Place(i - 1)] = LET k == ((Place(i - 1) - head + Size) % Size) + 1
                             IN  IF k <= n THEN data[k] ELSE buf[Place(i - 1)]
    BY <1>4, <2>2
  <2>4. CASE i <= count
    <3>1. ~(i - 1 - count + Size + 1 <= n)
      BY <1>1, <1>3, <2>1, <2>4
    <3> QED
      BY <1>1, <2>1, <2>2, <2>3, <2>4, <3>1
  <2>5. CASE i > count
    <3>1. i - 1 - count + 1 = i - count /\ i - count <= n
      BY <1>1, <1>3, <2>1, <2>5
    <3> QED
      BY <1>1, <2>1, <2>2, <2>3, <2>5, <3>1
  <2> QED
    BY <1>1, <2>1, <2>4, <2>5
<1>15. new \in Seq(Bytes) /\ Len(new) = count + n /\ \A i \in 1 .. count + n : new[i] = buf'[Place(i - 1)]
  <2>1. ASSUME NEW i \in 1 .. count + n PROVE buf'[Place(i - 1)] \in Bytes
    <3>1. i - 1 \in Places
      BY <1>1, <1>3 DEF Places
    <3> QED
      BY <1>1, <1>7, <3>1, Distance
  <2>2. new \in [1 .. count + n -> Bytes] /\ count + n \in Nat
    BY <1>1, <1>3, <2>1
  <2>3. \A i \in 1 .. count + n : new[i] = buf'[Place(i - 1)]
    OBVIOUS
  <2> HIDE DEF new
  <2> QED
    BY <2>2, <2>3
<1> HIDE DEF new, old
<1>16. new = old
  BY <1>13, <1>14, <1>15, SeqEqual
<1> QED
  BY <1>1, <1>4, <1>7, <1>8, <1>9, <1>10, <1>16 DEF old

\* pipe_read takes the oldest bytes off the queue.
LEMMA ReadDrops ==
  ASSUME RingInv, NEW n \in 0 .. count, pipe_read(n)
  PROVE  /\ tail' \in Places /\ count' \in 0 .. Size
         /\ HeadAfterCount'
         /\ Oldest(count)' = SubSeq(Oldest(count), n + 1, Len(Oldest(count)))
         /\ Oldest(n) = SubSeq(Oldest(count), 1, n)
<1>1. /\ Size \in Nat /\ Size > 0 /\ tail \in 0 .. Size - 1 /\ count \in 0 .. Size
      /\ head \in 0 .. Size - 1 /\ RingTypeOK /\ HeadAfterCount /\ n \in Nat /\ n <= count
  BY RingAssumption DEF RingInv, RingTypeOK, Places
<1>2. tail' = (tail + n) % Size /\ count' = count - n /\ buf' = buf /\ head' = head
  BY DEF pipe_read
<1>3. tail' = IF tail + n < Size THEN tail + n ELSE tail + n - Size
  BY <1>1, <1>2, Wrap
<1>4. HeadAfterCount'
  <2>1. head = IF tail + count < Size THEN tail + count ELSE tail + count - Size
    BY <1>1, Wrap DEF HeadAfterCount
  <2>2. tail' + (count - n) \in 0 .. 2 * Size - 1
    BY <1>1, <1>3
  <2>3. (tail' + (count - n)) % Size =
          IF tail' + (count - n) < Size THEN tail' + (count - n) ELSE tail' + (count - n) - Size
    BY <1>1, <1>3, <2>2, Wrap
  <2> QED
    BY <1>1, <1>2, <1>3, <2>1, <2>3 DEF HeadAfterCount
<1>5. ASSUME NEW i \in 1 .. count - n
      PROVE  (tail' + i - 1) % Size = Place(n + i - 1)
  <2>1. tail' + i - 1 \in 0 .. 2 * Size - 1 /\ tail + (n + i - 1) \in 0 .. 2 * Size - 1
    BY <1>1, <1>3
  <2> QED
    BY <1>1, <1>3, <2>1, Wrap DEF Place
<1>6. /\ Oldest(count) \in Seq(Bytes) /\ Len(Oldest(count)) = count
      /\ \A i \in 1 .. count : Oldest(count)[i] = buf[Place(i - 1)] /\ Oldest(count)[i] \in Bytes
  <2>1. count \in 0 .. count
    BY <1>1
  <2>2. /\ Oldest(count) \in Seq(Bytes) /\ Len(Oldest(count)) = count
        /\ \A i \in 1 .. count : Oldest(count)[i] = buf[Place(i - 1)]
    BY <1>1, <2>1, OldestAreBytes
  <2>3. \A i \in 1 .. count : Oldest(count)[i] \in Bytes
    BY <2>2, ElementOfSeq
  <2> QED
    BY <2>2, <2>3
<1>7. Oldest(n) \in Seq(Bytes) /\ Len(Oldest(n)) = n /\ \A i \in 1 .. n : Oldest(n)[i] = buf[Place(i - 1)]
  BY <1>1, OldestAreBytes
<1>8. Oldest(n) = SubSeq(Oldest(count), 1, n)
  <2>1. /\ SubSeq(Oldest(count), 1, n) \in Seq(Bytes) /\ Len(SubSeq(Oldest(count), 1, n)) = n
        /\ \A i \in 1 .. n : SubSeq(Oldest(count), 1, n)[i] = Oldest(count)[i]
    <3>1. \A i \in 1 .. n : Oldest(count)[i] \in Bytes
      BY <1>1, <1>6
    <3> QED
      BY <1>1, <3>1, SubSeqProperties
  <2>2. \A i \in 1 .. n : Oldest(n)[i] = SubSeq(Oldest(count), 1, n)[i]
    <3> SUFFICES ASSUME NEW i \in 1 .. n PROVE Oldest(n)[i] = SubSeq(Oldest(count), 1, n)[i]
      OBVIOUS
    <3>1. i \in 1 .. count
      BY <1>1
    <3>2. Oldest(count)[i] = buf[Place(i - 1)]
      BY <1>6, <3>1, Zenon
    <3> QED
      BY <1>7, <2>1, <3>2, Zenon
  <2> QED
    BY <1>7, <2>1, <2>2, SeqEqual
<1> DEFINE rest == SubSeq(Oldest(count), n + 1, Len(Oldest(count)))
           new  == [i \in 1 .. count - n |-> buf[Place(n + i - 1)]]
<1>9. rest \in Seq(Bytes) /\ Len(rest) = count - n /\ \A i \in 1 .. count - n : rest[i] = buf[Place(n + i - 1)]
  <2>1. \A i \in n + 1 .. count : Oldest(count)[i] \in Bytes
    BY <1>1, <1>6
  <2>2. /\ rest \in Seq(Bytes) /\ Len(rest) = IF n + 1 <= count THEN count - (n + 1) + 1 ELSE 0
        /\ \A i \in 1 .. count - (n + 1) + 1 : rest[i] = Oldest(count)[n + 1 + i - 1]
    BY <1>1, <1>6, <2>1, SubSeqProperties
  <2> HIDE DEF rest
  <2>3. ASSUME NEW i \in 1 .. count - n PROVE rest[i] = buf[Place(n + i - 1)]
    <3>1. n + 1 + i - 1 = n + i /\ n + i \in 1 .. count /\ i \in 1 .. count - (n + 1) + 1
      BY <1>1
    <3>2. rest[i] = Oldest(count)[n + 1 + i - 1]
      BY <2>2, <3>1, Zenon
    <3>3. PICK k \in 1 .. count : k = n + i
      BY <3>1
    <3>4. Oldest(count)[k] = buf[Place(k - 1)]
      BY <1>6, Zenon
    <3> QED
      BY <3>1, <3>2, <3>3, <3>4
  <2> QED
    BY <1>1, <2>2, <2>3
<1>10. new \in Seq(Bytes) /\ Len(new) = count - n /\ \A i \in 1 .. count - n : new[i] = rest[i]
  <2>1. ASSUME NEW i \in 1 .. count - n PROVE buf[Place(n + i - 1)] \in Bytes
    <3>1. n + i - 1 \in Places
      BY <1>1 DEF Places
    <3> QED
      BY <1>1, <3>1, Distance DEF RingTypeOK
  <2>2. new \in [1 .. count - n -> Bytes] /\ count - n \in Nat
    BY <1>1, <2>1
  <2>3. \A i \in 1 .. count - n : new[i] = buf[Place(n + i - 1)]
    OBVIOUS
  <2> HIDE DEF new, rest
  <2> QED
    BY <1>9, <2>2, <2>3
<1>11. Oldest(count)' = new
  BY <1>2, <1>5 DEF Oldest
<1> HIDE DEF new, rest
<1>12. new = rest
  BY <1>9, <1>10, SeqEqual
<1> QED
  BY <1>1, <1>2, <1>3, <1>4, <1>8, <1>11, <1>12 DEF rest, Places

-----------------------------------------------------------------------------
(***************************************************************************)
(* Every operation keeps RingInv and is a step of ByteQueue.               *)
(***************************************************************************)
LEMMA RingInitInv == RingInit => RingInv
<1> SUFFICES ASSUME RingInit PROVE RingInv
  OBVIOUS
<1>1. Size \in Nat \ {0} /\ MaxWrite \in Nat /\ MaxRead \in Nat \ {0} /\ IsFiniteSet(Writers) /\ IsFiniteSet(Readers)
  BY RingAssumption
<1>2. Cardinality(Writers) \in Nat /\ Cardinality(Readers) \in Nat
  BY <1>1, FS_CardinalityType
<1>3. buf \in [Places -> Bytes] /\ 0 \in Places
  BY <1>1 DEF RingInit, Places
<1>4. <<>> \in SeqsUpTo(MaxWrite) /\ <<>> \in SeqsUpTo(MaxRead)
  BY <1>1, NothingIsSeq
<1>5. RingTypeOK
  BY <1>1, <1>2, <1>3, <1>4 DEF RingInit, RingTypeOK, NoRead
<1>6. HeadAfterCount
  <2>1. 0 % Size = 0
    BY <1>1, Wrap
  <2> QED
    BY <2>1 DEF RingInit, HeadAfterCount
<1>7. open \cap Readers = Readers /\ open \cap Writers = Writers
  BY DEF RingInit
<1> QED
  BY <1>5, <1>6, <1>7 DEF RingInit, RingInv, CountersExact, AskersOpen

\* A task hands over n of its bytes and keeps the rest, or gives them up.
LEMMA AcceptStep ==
  ASSUME RingInv, NEW w \in Writers, NEW data \in SeqsUpTo(MaxWrite), NEW n \in 0 .. Len(data),
         n <= Size - count, pipe_write(data, n),
         \/ wcall' = [wcall EXCEPT ![w] = Rest(data, n)]
         \/ wcall' = [wcall EXCEPT ![w] = <<>>],
         UNCHANGED <<readers, writers, open, rcall, got>>
  PROVE  RingInv' /\ Q!Accept(w, data)
<1>1. MaxWrite \in Nat
  BY RingAssumption
<1>2. /\ buf' \in [Places -> Bytes] /\ head' \in Places /\ count' \in 0 .. Size
      /\ tail' = tail /\ HeadAfterCount'
      /\ Oldest(count)' = Oldest(count) \o SubSeq(data, 1, n)
  BY WriteAppends
<1>3. Rest(data, n) \in SeqsUpTo(MaxWrite) /\ <<>> \in SeqsUpTo(MaxWrite)
  BY <1>1, RestIsShorter, NothingIsSeq
<1>4. wcall' \in [Writers -> SeqsUpTo(MaxWrite)]
  BY <1>3 DEF RingInv, RingTypeOK
<1>5. RingTypeOK'
  BY <1>2, <1>4 DEF RingInv, RingTypeOK
<1>6. CountersExact' /\ AskersOpen'
  BY DEF RingInv, CountersExact, AskersOpen
<1> QED
  BY <1>2, <1>5, <1>6 DEF RingInv, Q!Accept, Q!Drop, Rest

LEMMA WriteTurnStep ==
  ASSUME RingInv, NEW w \in Writers, NEW data \in SeqsUpTo(MaxWrite),
         WriteTurn(w, data) \/ WriteFault(w, data)
  PROVE  RingInv' /\ Q!Accept(w, data)
<1>1. /\ Size \in Nat /\ count \in 0 .. Size /\ MaxWrite \in Nat /\ Len(data) \in Nat
  BY RingAssumption, BoundedSeqs, LenProperties DEF RingInv, RingTypeOK
<1>2. CASE WriteTurn(w, data)
  <2> DEFINE n == Least(Len(data), Size - count)
  <2>1. n \in 0 .. Len(data) /\ n <= Size - count
    BY <1>1 DEF Least
  <2>2. /\ pipe_write(data, n)
        /\ \/ wcall' = [wcall EXCEPT ![w] = Rest(data, n)]
           \/ wcall' = [wcall EXCEPT ![w] = <<>>]
        /\ UNCHANGED <<readers, writers, open, rcall, got>>
    BY <1>2 DEF WriteTurn
  <2> HIDE DEF n
  <2> QED
    BY <2>1, <2>2, AcceptStep
<1>3. CASE WriteFault(w, data)
  <2>1. PICK n \in 1 .. Least(Len(data) - 1, Size - count) : pipe_write(data, n)
    BY <1>3 DEF WriteFault
  <2>2. n \in 0 .. Len(data) /\ n <= Size - count
    BY <1>1, <2>1 DEF Least
  <2>3. wcall' = [wcall EXCEPT ![w] = <<>>] /\ UNCHANGED <<readers, writers, open, rcall, got>>
    BY <1>3 DEF WriteFault
  <2> QED
    BY <2>1, <2>2, <2>3, AcceptStep
<1> QED
  BY <1>2, <1>3

\* No writer is left exactly when the counter says so.
LEMMA WritersLeft ==
  ASSUME RingInv
  PROVE  writers = 0 <=> open \cap Writers = {}
<1>1. IsFiniteSet(open \cap Writers)
  BY RingAssumption, FS_Subset
<1> QED
  BY <1>1, FS_EmptySet DEF RingInv, CountersExact

LEMMA ReadTurnStep ==
  ASSUME RingInv, NEW r \in Readers, r \in open, NEW want \in 0 .. MaxRead, ReadTurn(r, want)
  PROVE  RingInv' /\ Q!Answer(r, want)
<1> DEFINE n == Least(want, count)
<1>1. Size \in Nat /\ count \in 0 .. Size /\ MaxRead \in Nat /\ RingTypeOK
  BY RingAssumption DEF RingInv, RingTypeOK
<1>2. /\ n \in 0 .. count /\ n <= MaxRead /\ (n = 0 => count = 0 \/ want = 0)
      /\ n = want \/ (n = count /\ n < want)
  BY <1>1 DEF Least
<1>3. pipe_read(n) /\ UNCHANGED <<readers, writers, open, wcall>>
  BY DEF ReadTurn
<1>4. /\ n > 0 => /\ got' = [got EXCEPT ![r] = Oldest(n)] \/ UNCHANGED got
                  /\ rcall' = [rcall EXCEPT ![r] = NoRead]
      /\ n = 0 => \/ /\ writers = 0 /\ got' = [got EXCEPT ![r] = <<>>]
                     /\ rcall' = [rcall EXCEPT ![r] = NoRead]
                  \/ writers > 0 /\ rcall' = [rcall EXCEPT ![r] = want] /\ UNCHANGED got
  BY <1>1, <1>2 DEF ReadTurn
<1> HIDE DEF n
<1>5. n > 0 \/ n = 0
  BY <1>1, <1>2
<1>6. /\ tail' \in Places /\ count' \in 0 .. Size /\ HeadAfterCount'
      /\ Oldest(count)' = SubSeq(Oldest(count), n + 1, Len(Oldest(count)))
      /\ Oldest(n) = SubSeq(Oldest(count), 1, n)
      /\ buf' = buf /\ head' = head
  BY <1>2, <1>3, ReadDrops DEF pipe_read
<1>7. Oldest(n) \in SeqsUpTo(MaxRead) /\ <<>> \in SeqsUpTo(MaxRead)
  BY <1>1, <1>2, OldestAreBytes, BoundedSeqs, NothingIsSeq
<1>8. got' \in [Readers -> SeqsUpTo(MaxRead)]
  BY <1>1, <1>4, <1>5, <1>7 DEF RingTypeOK
<1>9. rcall' \in [Readers -> {NoRead} \cup 0 .. MaxRead]
  BY <1>1, <1>4, <1>5 DEF RingTypeOK
<1>10. RingTypeOK'
  BY <1>1, <1>3, <1>6, <1>8, <1>9 DEF RingTypeOK
<1>11. CountersExact' /\ AskersOpen'
  BY <1>1, <1>3, <1>4, <1>5 DEF RingInv, CountersExact, AskersOpen, RingTypeOK
<1>12. RingInv'
  BY <1>6, <1>10, <1>11 DEF RingInv
<1>13. Oldest(count) \in Seq(Bytes) /\ Len(Oldest(count)) = count
  BY <1>1, OldestAreBytes
<1>14. CASE n > 0
  <2>1. n \in 1 .. Len(Oldest(count)) /\ (n = want \/ (n = Len(Oldest(count)) /\ n < want))
    BY <1>1, <1>2, <1>13, <1>14
  <2>2. rcall' = [rcall EXCEPT ![r] = NoRead]
    BY <1>4, <1>14
  <2>3. got' = [got EXCEPT ![r] = SubSeq(Oldest(count), 1, n)] \/ UNCHANGED got
    BY <1>4, <1>6, <1>14
  <2>4. Q!Deliver(r, want)
    BY <1>3, <1>6, <2>1, <2>2, <2>3 DEF Q!Deliver, Q!Drop, Q!NotAsking, NoRead
  <2> QED
    BY <1>12, <2>4 DEF Q!Answer
<1>15. CASE n = 0
  <2>1. Oldest(count) = <<>> \/ want = 0
    BY <1>2, <1>13, <1>15, EmptySeq
  <2>2. UNCHANGED Oldest(count)
    <3>1. Oldest(count)' = SubSeq(Oldest(count), 1, Len(Oldest(count)))
      BY <1>6, <1>15
    <3> QED
      BY <1>13, <3>1, SubSeqFull
  <2>3. CASE writers = 0
    <3>1. rcall' = [rcall EXCEPT ![r] = NoRead] /\ got' = [got EXCEPT ![r] = <<>>] /\ open \cap Writers = {}
      BY <1>1, <1>4, <1>15, <2>3, WritersLeft DEF RingTypeOK
    <3> QED
      BY <1>3, <1>12, <2>1, <2>2, <3>1 DEF Q!EndOfFile, Q!Answer, Q!NotAsking, NoRead
  <2>4. CASE writers > 0
    <3>1. rcall' = [rcall EXCEPT ![r] = want] /\ got' = got
      BY <1>1, <1>4, <1>15, <2>4 DEF RingTypeOK
    <3>2. open \cap Writers # {}
      BY <2>4, WritersLeft
    <3> QED
      BY <1>3, <1>12, <2>1, <2>2, <3>1, <3>2 DEF Q!Wait, Q!Answer
  <2> QED
    BY <1>4, <1>15, <2>3, <2>4
<1> QED
  BY <1>5, <1>14, <1>15

\* One fewer of the tasks of a kind has its end open.
LEMMA OneLess ==
  ASSUME NEW S, IsFiniteSet(S), NEW T, NEW x \in S \cap T
  PROVE  /\ Cardinality((T \ {x}) \cap S) = Cardinality(T \cap S) - 1
         /\ Cardinality((T \ {x}) \cap S) \in 0 .. Cardinality(S)
<1>1. IsFiniteSet(T \cap S) /\ (T \ {x}) \cap S = (T \cap S) \ {x} /\ x \in T \cap S
  BY FS_Subset
<1>2. Cardinality((T \ {x}) \cap S) = Cardinality(T \cap S) - 1
  BY <1>1, FS_RemoveElement
<1>3. IsFiniteSet((T \ {x}) \cap S) /\ Cardinality((T \ {x}) \cap S) <= Cardinality(S)
  BY FS_Subset
<1>4. Cardinality((T \ {x}) \cap S) \in Nat /\ Cardinality(S) \in Nat
  BY <1>3, FS_CardinalityType
<1> QED
  BY <1>2, <1>3, <1>4

LEMMA CloseReadStep ==
  ASSUME RingInv, NEW r \in Readers, close_read(r)
  PROVE  RingInv' /\ Q!Close(r)
<1>1. /\ r \in open /\ rcall[r] = NoRead /\ open' = open \ {r} /\ readers' = readers - 1
      /\ UNCHANGED <<buf, head, tail, count, writers, wcall, rcall, got>>
  BY DEF close_read, ring
<1>2. IsFiniteSet(Readers) /\ r \notin Writers
  BY RingAssumption
<1>3. readers' = Cardinality(open' \cap Readers) /\ readers' \in 0 .. Cardinality(Readers)
  BY <1>1, <1>2, OneLess DEF RingInv, CountersExact
<1>4. open' \cap Writers = open \cap Writers
  BY <1>1, <1>2
<1>5. RingTypeOK'
  BY <1>1, <1>3 DEF RingInv, RingTypeOK
<1>6. HeadAfterCount' /\ CountersExact'
  BY <1>1, <1>3, <1>4 DEF RingInv, HeadAfterCount, CountersExact
<1>7. AskersOpen'
  BY <1>1 DEF RingInv, AskersOpen
<1>8. UNCHANGED Oldest(count)
  BY <1>1 DEF Oldest
<1> QED
  BY <1>1, <1>2, <1>5, <1>6, <1>7, <1>8 DEF RingInv, Q!Close, Q!NotAsking, NoRead

LEMMA CloseWriteStep ==
  ASSUME RingInv, NEW w \in Writers, close_write(w)
  PROVE  RingInv' /\ Q!Close(w)
<1>1. /\ w \in open /\ wcall[w] = <<>> /\ open' = open \ {w} /\ writers' = writers - 1
      /\ UNCHANGED <<buf, head, tail, count, readers, wcall, rcall, got>>
  BY DEF close_write, ring
<1>2. IsFiniteSet(Writers) /\ w \notin Readers
  BY RingAssumption
<1>3. writers' = Cardinality(open' \cap Writers) /\ writers' \in 0 .. Cardinality(Writers)
  BY <1>1, <1>2, OneLess DEF RingInv, CountersExact
<1>4. open' \cap Readers = open \cap Readers
  BY <1>1, <1>2
<1>5. RingTypeOK'
  BY <1>1, <1>3 DEF RingInv, RingTypeOK
<1>6. HeadAfterCount' /\ CountersExact'
  BY <1>1, <1>3, <1>4 DEF RingInv, HeadAfterCount, CountersExact
<1>7. AskersOpen'
  BY <1>1, <1>2 DEF RingInv, AskersOpen
<1>8. UNCHANGED Oldest(count)
  BY <1>1 DEF Oldest
<1> QED
  BY <1>1, <1>2, <1>5, <1>6, <1>7, <1>8 DEF RingInv, Q!Close, Q!NotAsking, NoRead

\* A call given up by the scheduler leaves the ring alone.
LEMMA AbandonedStep ==
  ASSUME RingInv
  PROVE  /\ \A w \in Writers : write_abandoned(w) => RingInv' /\ Q!Accept(w, wcall[w])
         /\ \A r \in Readers : read_abandoned(r) => RingInv' /\ Q!Quit(r)
<1>1. MaxWrite \in Nat /\ MaxRead \in Nat
  BY RingAssumption
<1>2. ASSUME NEW w \in Writers, write_abandoned(w) PROVE RingInv' /\ Q!Accept(w, wcall[w])
  <2>1. /\ wcall' = [wcall EXCEPT ![w] = <<>>]
        /\ UNCHANGED <<buf, head, tail, count, readers, writers, open, rcall, got>>
    BY <1>2 DEF write_abandoned, ring
  <2>2. UNCHANGED Oldest(count)
    BY <2>1 DEF Oldest
  <2>3. wcall' \in [Writers -> SeqsUpTo(MaxWrite)]
    BY <1>1, <2>1, NothingIsSeq DEF RingInv, RingTypeOK
  <2>4. RingInv'
    BY <2>1, <2>3 DEF RingInv, RingTypeOK, HeadAfterCount, CountersExact, AskersOpen
  <2>5. Oldest(count) \in Seq(Bytes) /\ wcall[w] \in Seq(Bytes) /\ Len(wcall[w]) \in Nat
    <3>1. count \in 0 .. count /\ RingTypeOK /\ wcall[w] \in SeqsUpTo(MaxWrite)
      BY RingAssumption DEF RingInv, RingTypeOK
    <3> QED
      BY <1>1, <3>1, OldestAreBytes, BoundedSeqs, LenProperties
  <2>6. SubSeq(wcall[w], 1, 0) = <<>>
    BY SubSeqEmpty
  <2>7. Oldest(count) \o SubSeq(wcall[w], 1, 0) = Oldest(count) /\ 0 \in 0 .. Len(wcall[w])
    BY <2>5, <2>6, ConcatEmptySeq
  <2> QED
    BY <2>1, <2>2, <2>4, <2>7 DEF Q!Accept
<1>3. ASSUME NEW r \in Readers, read_abandoned(r) PROVE RingInv' /\ Q!Quit(r)
  <2>1. /\ rcall[r] # NoRead /\ rcall' = [rcall EXCEPT ![r] = NoRead]
        /\ UNCHANGED <<buf, head, tail, count, readers, writers, open, wcall, got>>
    BY <1>3 DEF read_abandoned, ring
  <2>2. UNCHANGED Oldest(count)
    BY <2>1 DEF Oldest
  <2>3. rcall' \in [Readers -> {NoRead} \cup 0 .. MaxRead]
    BY <1>1, <2>1 DEF RingInv, RingTypeOK
  <2>4. RingInv'
    BY <2>1, <2>3 DEF RingInv, RingTypeOK, HeadAfterCount, CountersExact, AskersOpen
  <2> QED
    BY <2>1, <2>2, <2>4 DEF Q!Quit, Q!NotAsking, NoRead
<1> QED
  BY <1>2, <1>3

\* Every step keeps the invariant and is a step of the queue or none.
LEMMA RingNextStep == RingInv /\ [RingNext]_ringvars => RingInv' /\ [Q!Next]_(Q!qvars)
<1> SUFFICES ASSUME RingInv, [RingNext]_ringvars PROVE RingInv' /\ [Q!Next]_(Q!qvars)
  OBVIOUS
<1>0. MaxWrite \in Nat /\ MaxRead \in Nat
  BY RingAssumption
<1>1. ASSUME NEW w \in Writers, sys_write(w)
      PROVE  RingInv' /\ Q!Next
  <2>1. PICK data \in SeqsUpTo(MaxWrite) \ {<<>>} : WriteTurn(w, data) \/ WriteFault(w, data)
    BY <1>1 DEF sys_write
  <2>2. RingInv' /\ Q!Accept(w, data)
    BY <2>1, WriteTurnStep
  <2>3. PICK k \in 0 .. MaxWrite : data \in [1 .. k -> Bytes]
    BY <2>1 DEF SeqsUpTo
  <2>4. k # 0
    BY <2>1, <2>3
  <2>5. k \in 1 .. MaxWrite
    BY <1>0, <2>3, <2>4
  <2> QED
    BY <1>1, <2>2, <2>3, <2>5 DEF sys_write, Q!Next, Q!Write
<1>2. ASSUME NEW w \in Writers, write_again(w)
      PROVE  RingInv' /\ Q!Next
  <2>1. wcall[w] \in SeqsUpTo(MaxWrite)
    BY DEF RingInv, RingTypeOK
  <2> QED
    BY <1>2, <2>1, WriteTurnStep DEF write_again, Q!Next
<1>3. ASSUME NEW w \in Writers, write_abandoned(w)
      PROVE  RingInv' /\ Q!Next
  BY <1>3, AbandonedStep DEF Q!Next
<1>4. ASSUME NEW w \in Writers, close_write(w)
      PROVE  RingInv' /\ Q!Next
  BY <1>4, CloseWriteStep DEF Q!Next
<1>5. ASSUME NEW r \in Readers, sys_read(r)
      PROVE  RingInv' /\ Q!Next
  <2>1. PICK want \in 0 .. MaxRead : ReadTurn(r, want)
    BY <1>5 DEF sys_read
  <2> QED
    BY <1>5, <2>1, ReadTurnStep DEF sys_read, Q!Next, Q!Read, Q!NotAsking, NoRead
<1>6. ASSUME NEW r \in Readers, read_again(r)
      PROVE  RingInv' /\ Q!Next
  <2>1. rcall[r] \in 0 .. MaxRead /\ rcall[r] # NoRead /\ r \in open /\ ReadTurn(r, rcall[r])
    BY <1>0, <1>6 DEF read_again, RingInv, RingTypeOK, AskersOpen
  <2> QED
    BY <2>1, ReadTurnStep DEF Q!Next, Q!Read, Q!NotAsking, NoRead
<1>7. ASSUME NEW r \in Readers, read_abandoned(r)
      PROVE  RingInv' /\ Q!Next
  <2>1. r \in open
    BY <1>7 DEF read_abandoned, RingInv, AskersOpen
  <2> QED
    BY <1>7, <2>1, AbandonedStep DEF Q!Next, Q!Read
<1>8. ASSUME NEW r \in Readers, close_read(r)
      PROVE  RingInv' /\ Q!Next
  BY <1>8, CloseReadStep DEF Q!Next
<1>9. CASE UNCHANGED ringvars
  <2>1. UNCHANGED <<buf, head, tail, count, readers, writers, open, wcall, rcall, got>>
    BY <1>9 DEF ringvars, ring
  <2>2. RingInv'
    BY <2>1 DEF RingInv, RingTypeOK, HeadAfterCount, CountersExact, AskersOpen
  <2>3. UNCHANGED Oldest(count)
    BY <2>1 DEF Oldest
  <2> QED
    BY <2>1, <2>2, <2>3 DEF Q!qvars
<1> QED
  BY <1>1, <1>2, <1>3, <1>4, <1>5, <1>6, <1>7, <1>8, <1>9 DEF RingNext

\* The inductive invariant of the ring and of the calls in progress on it.
THEOREM RingInvariant == RingSpec => []RingInv
BY RingInitInv, RingNextStep, PTL DEF RingSpec

\* Indices stay inside the ring, no counter of ends goes below zero, and no
\* read returns more than was asked for.
THEOREM RingTypeCorrect == RingSpec => []RingTypeOK
BY RingInvariant, PTL DEF RingInv

\* The ring buffer, with partial writes, calls that wait, faults half way and
\* closes in any order, is a queue of bytes.
THEOREM RingImplementsQueue == RingSpec => ImplementsByteQueue
<1>1. RingInit => Q!Init
  <2> SUFFICES ASSUME RingInit PROVE Q!Init
    OBVIOUS
  <2>1. RingTypeOK /\ count = 0 /\ count \in 0 .. count
    BY RingInitInv DEF RingInit, RingInv
  <2>2. Oldest(count) = <<>>
    BY <2>1, OldestAreBytes, EmptySeq
  <2> QED
    BY <2>2 DEF RingInit, Q!Init, Q!NotAsking, NoRead
<1> QED
  BY <1>1, RingNextStep, RingInvariant, PTL DEF RingSpec, ImplementsByteQueue, Q!Spec
=============================================================================
