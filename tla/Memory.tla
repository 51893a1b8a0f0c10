------------------------------- MODULE Memory -------------------------------
(***************************************************************************)
(* Physical frames and address spaces (core/mm/paging.c) and the calls     *)
(* that change them: fork, execve, brk, mmap, exit and the growth of the   *)
(* kernel heap (core/proc.c, core/elf.c, core/syscall.c, core/mm/heap.c).  *)
(*                                                                         *)
(* An address space is a directory of page tables; the upper levels (pml4, *)
(* page directory pointers, page directories) are taken as one table, its  *)
(* root.  Virtual pages are numbers and PerTable pages in a row, an area,  *)
(* share a page table.  fork copies the tables of user areas and the       *)
(* frames behind them, and shares the tables of kernel areas; execve       *)
(* copies the root only, so the address space stays the same.              *)
(*                                                                         *)
(* A program is linked to fixed addresses and loaded into the frames with  *)
(* the same addresses, which every task's image may map.                   *)
(*                                                                         *)
(* RAM ends below IDENTITY_MAP_LIMIT.  Every operation is atomic and any   *)
(* live task may make the next call.  brk and mmap handle one page a call: *)
(* a longer call is a sequence of these, also when it fails half way.      *)
(***************************************************************************)
EXTENDS Integers, FiniteSets

CONSTANTS
  NTasks,     \* PROC_MAX_TASKS
  NFrames,    \* frames that are not reserved at boot
  PerTable,   \* entries of a page table (512)
  NPages,     \* bound: virtual pages
  Image,      \* pages between USER_IMAGE_PHYS_START and USER_IMAGE_PHYS_END
  HeapStart, HeapLimit,   \* KERNEL_HEAP_START, KERNEL_HEAP_LIMIT
  Stack,      \* the page of the user stack
  BrkStart,   \* USER_BRK_START
  MmapBase,   \* the address sys_mmap chooses
  Wishes,     \* pages programs ask mmap for
  Window      \* the frame whose own address is KERNEL_KMAP_WINDOW

Tasks  == 0 .. NTasks - 1
Frames == 1 .. NFrames
Pages  == 0 .. NPages - 1
Area(v)  == v \div PerTable
Off(v)   == v % PerTable
Areas    == {Area(v) : v \in Pages}
Offsets  == 0 .. PerTable - 1

ASSUME LayoutAssumption ==
  /\ NTasks \in Nat \ {0} /\ PerTable \in Nat \ {0} /\ NPages \in Nat
  /\ Image \subseteq Pages /\ Stack \in Pages
  /\ {HeapStart, BrkStart, MmapBase} \subseteq Pages /\ HeapLimit \in HeapStart + 1 .. NPages
  /\ BrkStart < MmapBase
  /\ {Area(v) : v \in HeapStart .. HeapLimit - 1}
       \cap {Area(v) : v \in Image \cup {Stack} \cup BrkStart .. NPages - 1} = {}
  /\ NFrames \in Nat /\ Window \in Frames

NoFrame  == 0
Fixed(v) == -1 - v     \* the frame below a page of the image
HeapPages == HeapStart .. HeapLimit - 1
UserPages == Pages \ HeapPages
UserAreas == {Area(v) : v \in Image \cup {Stack} \cup BrkStart .. NPages - 1}

\* Programs ask for addresses that are theirs to use.  The kernel does not
\* check that: it would map one in a kernel area into every address space.
ASSUME WishesAssumption == Wishes \subseteq {v \in Pages : Area(v) \in UserAreas}

VARIABLES
  used,      \* frame_bitmap
  live,      \* slots of tasks that have not exited
  root,      \* the frame of each task's root table (cr3)
  dir,       \* the page table of each area, by task
  pte,       \* the entries of the frames that are page tables
  brk,       \* tasks[t].brk
  heap_end,  \* heap_mapped_end
  fault      \* the kernel took a page fault, and halted

vars == <<used, live, root, dir, pte, brk, heap_end, fault>>

FixedFrames == {Fixed(v) : v \in Image}

TypeOK ==
  /\ used \subseteq Frames
  /\ live \subseteq Tasks
  /\ root \in [Tasks -> Frames \cup {NoFrame}]
  /\ dir \in [Tasks -> [Areas -> Frames \cup {NoFrame}]]
  /\ pte \in [Frames -> [Offsets -> Frames \cup FixedFrames \cup {NoFrame}]]
  /\ brk \in [Tasks -> BrkStart .. NPages]
  /\ heap_end \in HeapStart .. HeapLimit
  /\ fault \in BOOLEAN

Empty == [i \in Offsets |-> NoFrame]

\* What task t finds at page v.
Pte(t, v) == IF dir[t][Area(v)] = NoFrame THEN NoFrame ELSE pte[dir[t][Area(v)]][Off(v)]

-----------------------------------------------------------------------------
(***************************************************************************)
(* Frames.  The lowest free frame is taken, for a page or for a table.  A  *)
(* table is cleared through its own address, which every frame has but the *)
(* one whose address is the temporary window: unmapping the window has     *)
(* left that address without a mapping since boot.                         *)
(***************************************************************************)
Free   == Frames \ used
Nth(n) == CHOOSE f \in Free : Cardinality({g \in Free : g <= f}) = n

\* Faulty variant, for mutation testing.
Taken_one_less(n) == {f \in Free : Cardinality({g \in Free : g <= f}) < n}

\* The frames the next n allocations get, or all that are left.
Taken(n) == {f \in Free : Cardinality({g \in Free : g <= f}) <= n}

Halts == /\ fault' = TRUE
         /\ UNCHANGED <<used, live, root, dir, pte, brk, heap_end>>

-----------------------------------------------------------------------------
(***************************************************************************)
(* Mapping a page that gets a frame of its own: the frame first, then,     *)
(* where the area has no table yet, the table (get_or_create_table).  If   *)
(* there is no frame for the table, the page's is given back.              *)
(***************************************************************************)
Needs(t, v) == IF dir[t][Area(v)] = NoFrame THEN 2 ELSE 1

CanMap(t, v) == Cardinality(Free) >= Needs(t, v)

TableFaults(t, v) == Needs(t, v) = 2 /\ CanMap(t, v) /\ Nth(2) = Window

paging_map_page_flags(t, v) ==
  LET a     == Area(v)
      new   == dir[t][a] = NoFrame
      table == IF new THEN Nth(2) ELSE dir[t][a]
      old   == IF new THEN Empty ELSE pte[table]
  IN  /\ CanMap(t, v) /\ ~TableFaults(t, v)
      /\ used' = used \cup Taken(Needs(t, v))
      /\ dir' = [dir EXCEPT ![t][a] = table]
      /\ pte' = [pte EXCEPT ![table] = [old EXCEPT ![Off(v)] = Nth(1)]]

\* Faulty variants, for mutation testing.
sys_brk_grow_unmapped(t) ==
  /\ brk[t] < NPages
  /\ brk' = [brk EXCEPT ![t] = @ + 1]
  /\ IF CanMap(t, brk[t]) THEN paging_map_page_flags(t, brk[t]) ELSE UNCHANGED <<used, dir, pte>>
  /\ UNCHANGED <<live, root, heap_end, fault>>

heap_map_more_unlimited(t) ==
  /\ heap_end < NPages
  /\ paging_map_page_flags(t, heap_end)
  /\ heap_end' = heap_end + 1
  /\ UNCHANGED <<live, root, brk, fault>>

\* sys_brk, a page up.  The frame is cleared through the window.
sys_brk_grow(t) ==
  /\ brk[t] < NPages
  /\ paging_map_page_flags(t, brk[t])
  /\ brk' = [brk EXCEPT ![t] = @ + 1]
  /\ UNCHANGED <<live, root, heap_end, fault>>

\* Down: nothing is unmapped.
sys_brk_shrink(t) ==
  /\ \E b \in BrkStart .. brk[t] - 1 : brk' = [brk EXCEPT ![t] = b]
  /\ UNCHANGED <<used, live, root, dir, pte, heap_end, fault>>

\* sys_mmap, at the address asked for or at its own; a page that is there
\* already is replaced, its frame stays marked.
sys_mmap(t) ==
  /\ \E v \in {MmapBase} \cup Wishes : paging_map_page_flags(t, v)
  /\ UNCHANGED <<live, root, brk, heap_end, fault>>

\* kmalloc in a call of task t needs another page.
heap_map_more(t) ==
  /\ heap_end < HeapLimit
  /\ paging_map_page_flags(t, heap_end)
  /\ heap_end' = heap_end + 1
  /\ UNCHANGED <<live, root, brk, fault>>

map_faults(t) ==
  /\ \/ brk[t] < NPages /\ TableFaults(t, brk[t])
     \/ \E v \in {MmapBase} \cup Wishes : TableFaults(t, v)
     \/ heap_end < HeapLimit /\ TableFaults(t, heap_end)
  /\ Halts

-----------------------------------------------------------------------------
(***************************************************************************)
(* fork: paging_clone_current_address_space walks the directory in order.  *)
(* Every user area gets a table, then a frame for every page it maps.  The *)
(* child's slot is one that was never used, or one of an exited task: the  *)
(* lower slots are taken, an exited task's until its parent waits for it.  *)
(***************************************************************************)
OwnAreas(t) == {a \in UserAreas : dir[t][a] # NoFrame}
OwnPages(t) == {v \in UserPages : Pte(t, v) # NoFrame}

AreaKey(a) == a * (PerTable + 1)
PageKey(v) == AreaKey(Area(v)) + 1 + Off(v)
Keys(t)    == {AreaKey(a) : a \in OwnAreas(t)} \cup {PageKey(v) : v \in OwnPages(t)}

\* The number of the allocation that serves key k; the root is the first.
Rank(t, k)    == 1 + Cardinality({j \in Keys(t) : j <= k})
CloneNeeds(t) == 1 + Cardinality(Keys(t))

\* A table or a copy in the window's frame, or a page that lies there and is
\* copied: all are reached through the frame's own address.
CloneFaults(t) ==
  \/ Window \in Taken(CloneNeeds(t))
  \/ \E v \in OwnPages(t) : Pte(t, v) = Window /\ Rank(t, PageKey(v)) <= Cardinality(Free)

\* Faulty variant, for mutation testing.
CloneTable_of_parent(t, a) == dir[t][a]

CloneTable(t, a) == Nth(Rank(t, AreaKey(a)))

\* Faulty variant, for mutation testing.
ClonedEntries_shared(t, a) == pte[dir[t][a]]

\* paging_clone_user_pt
ClonedEntries(t, a) ==
  [i \in Offsets |->
     LET v == a * PerTable + i IN
     IF v \in OwnPages(t) THEN Nth(Rank(t, PageKey(v))) ELSE NoFrame]

proc_fork(t) ==
  \E c \in Tasks \ live :
    /\ \A d \in 0 .. c - 1 : root[d] # NoFrame
    /\ CloneNeeds(t) <= Cardinality(Free) /\ ~CloneFaults(t)
    /\ used' = used \cup Taken(CloneNeeds(t))
    /\ root' = [root EXCEPT ![c] = Nth(1)]
    /\ dir' = [dir EXCEPT ![c] =
                 [a \in Areas |-> IF a \in OwnAreas(t) THEN CloneTable(t, a) ELSE dir[t][a]]]
    /\ pte' = [f \in Frames |->
                 IF \E a \in OwnAreas(t) : f = CloneTable(t, a)
                   THEN ClonedEntries(t, CHOOSE a \in OwnAreas(t) : f = CloneTable(t, a))
                   ELSE pte[f]]
    /\ brk' = [brk EXCEPT ![c] = brk[t]]
    /\ live' = live \cup {c}
    /\ UNCHANGED <<heap_end, fault>>

\* Memory runs out on the way: what was taken is not given back.
proc_fork_fails(t) ==
  /\ live # Tasks
  /\ CloneNeeds(t) > Cardinality(Free) /\ ~CloneFaults(t)
  /\ used' = Frames
  /\ UNCHANGED <<live, root, dir, pte, brk, heap_end, fault>>

proc_fork_faults(t) == live # Tasks /\ CloneFaults(t) /\ Halts

-----------------------------------------------------------------------------
(***************************************************************************)
(* execve: a new root, if there is memory for one, brk at its start, then  *)
(* the image and the stack.  A file that is no program is noticed after    *)
(* brk was reset, a bad segment after the ones before it, and perhaps some *)
(* of its own pages, are loaded, a lack of memory for the stack after all  *)
(* of them.  The call then returns to the old program.                     *)
(***************************************************************************)
NewRoot(t) == IF Free = {} THEN root[t] ELSE Nth(1)

\* elf_map_segment: the frames of the pages a program's segments have are
\* written at their physical addresses, then mapped
\* (paging_promote_user_identity).
WithImage(t, loaded) ==
  [f \in Frames |-> [i \in Offsets |->
     IF \E v \in loaded : f = dir[t][Area(v)] /\ i = Off(v)
       THEN Fixed(CHOOSE v \in loaded : f = dir[t][Area(v)] /\ i = Off(v))
       ELSE pte[f][i]]]

exec_fails(t) ==
  /\ Window \notin Taken(1)
  /\ used' = used \cup Taken(1)
  /\ root' = [root EXCEPT ![t] = NewRoot(t)]
  /\ brk' = [brk EXCEPT ![t] = BrkStart]
  /\ \E loaded \in SUBSET Image : pte' = WithImage(t, loaded)
  /\ UNCHANGED <<live, dir, heap_end, fault>>

proc_exec(t) ==
  /\ Window \notin Taken(1)
  /\ Cardinality(Free) >= 2
  /\ used' = used \cup Taken(2)
  /\ root' = [root EXCEPT ![t] = NewRoot(t)]
  /\ brk' = [brk EXCEPT ![t] = BrkStart]
  /\ \E loaded \in SUBSET Image :
       pte' = [WithImage(t, loaded) EXCEPT ![dir[t][Area(Stack)]][Off(Stack)] = Nth(2)]
  /\ UNCHANGED <<live, dir, heap_end, fault>>

exec_faults(t) == Window \in Taken(1) /\ Halts

\* exit frees nothing; the slot's address space is gone with the next fork.
proc_exit(t) ==
  /\ live' = live \ {t}
  /\ UNCHANGED <<used, root, dir, pte, brk, heap_end, fault>>

-----------------------------------------------------------------------------
(***************************************************************************)
(* proc_init and the execve of /bin/sh in task 0: tables for the image,    *)
(* the stack and the first heap page, their frames and the root.           *)
(***************************************************************************)
BootAreas   == {Area(v) : v \in Image \cup {Stack, HeapStart}}
BootTable(a) == Cardinality({b \in BootAreas : b <= a})
NTables     == Cardinality(BootAreas)
BootFrame(v) == NTables + (IF v = Stack THEN 1 ELSE 2)
BootRoot    == NTables + 3

\* A machine that gets as far as the shell has the frames for it.
ASSUME BootAssumption == BootRoot \in Frames

BootEntry(v) ==
  CASE v \in {Stack, HeapStart}         -> BootFrame(v)
    [] v \in Image \ {Stack, HeapStart} -> Fixed(v)
    [] OTHER                           -> NoFrame

Init ==
  /\ used = 1 .. BootRoot
  /\ live = {0}
  /\ root = [t \in Tasks |-> IF t = 0 THEN BootRoot ELSE NoFrame]
  /\ dir = [t \in Tasks |-> [a \in Areas |->
              IF t = 0 /\ a \in BootAreas THEN BootTable(a) ELSE NoFrame]]
  /\ pte = [f \in Frames |->
              IF f \in 1 .. NTables
                THEN LET a == CHOOSE a \in BootAreas : BootTable(a) = f
                     IN  [i \in Offsets |-> BootEntry(a * PerTable + i)]
                ELSE Empty]
  /\ brk = [t \in Tasks |-> BrkStart]
  /\ heap_end = HeapStart + 1
  /\ fault = FALSE

Next ==
  \E t \in live :
    /\ ~fault
    /\ \/ sys_brk_grow(t) \/ sys_brk_shrink(t) \/ sys_mmap(t)
       \/ heap_map_more(t) \/ map_faults(t)
       \/ proc_fork(t) \/ proc_fork_fails(t) \/ proc_fork_faults(t)
       \/ proc_exec(t) \/ exec_fails(t) \/ exec_faults(t)
       \/ proc_exit(t)

Spec == Init /\ [][Next]_vars

-----------------------------------------------------------------------------
(***************************************************************************)
(* Properties.                                                             *)
(***************************************************************************)

\* No two pages of live programs share a frame, except for the frames the
\* image is linked to: what one program writes to its stack or its heap no
\* other sees, across fork, execve, failed calls and reused slots
\* (paging_clone_user_pt, paging_map_user_page).
PagesPrivate ==
  \A t, u \in live : \A v \in OwnPages(t), w \in OwnPages(u) :
    Pte(t, v) = Pte(u, w) /\ Pte(t, v) \in Frames => t = u /\ v = w

\* The roots and tables of live tasks are marked in the bitmap and mapped
\* into no program; a table of a user area belongs to one task, a table of
\* a kernel area stands for the same area in every task that has it
\* (paging_alloc_table, paging_clone_current_address_space).
TablesSound ==
  \A t \in live :
    /\ root[t] \in used
    /\ \A a \in Areas : dir[t][a] # NoFrame =>
         /\ dir[t][a] \in used
         /\ \A u \in live, b \in Areas : dir[u][b] = dir[t][a] =>
              a = b /\ (a \in UserAreas => t = u)
         /\ \A u \in live : root[u] # dir[t][a] /\ \A v \in Pages : Pte(u, v) # dir[t][a]

\* A frame that a live task has mapped is never free for the next allocation
\* (every path that gives a frame back after a failure).
MappedIsUsed == \A t \in live, v \in Pages : Pte(t, v) \in Frames => Pte(t, v) \in used

\* Every page below the break is there, after growth that failed half way,
\* in the child of a fork and after execve (sys_brk, proc_fork, proc_exec).
BrkBacked == \A t \in live : \A v \in BrkStart .. brk[t] - 1 : Pte(t, v) \in Frames

-----------------------------------------------------------------------------
(***************************************************************************)
(* What the kernel does not keep.                                          *)
(***************************************************************************)

\* Every frame that becomes a page table can be edited through its address
\* (the window's frame is not reserved).
TablesReachable == ~fault
=============================================================================
