-------------------------------- MODULE Heap --------------------------------
(***************************************************************************)
(* The kernel heap (core/mm/heap.c): a doubly linked list of blocks, each  *)
(* a header followed by its bytes, that tiles the heap from its start to   *)
(* heap_current.  kmalloc takes the first block that fits and splits it,   *)
(* or maps more pages and appends a block; kfree merges a block with its   *)
(* free neighbours.                                                        *)
(*                                                                         *)
(* Addresses are counted from KERNEL_HEAP_START.  paging_alloc_page and    *)
(* paging_map_page may fail at any page.  A header written at an address   *)
(* that has no page is a fault that halts the machine: past its limit the  *)
(* heap grows, but no pages come with it.  Callers free only what they got *)
(* and free it once.                                                       *)
(***************************************************************************)
EXTENDS Integers

CONSTANTS
  Hdr,        \* sizeof (heap_block_t)
  Align,      \* HEAP_ALIGN
  Page,       \* PAGE_SIZE
  MinExpand,  \* HEAP_MIN_EXPAND
  Limit,      \* KERNEL_HEAP_LIMIT
  Sizes,      \* the sizes callers ask for
  Top         \* bound: the heap does not grow beyond this address

ASSUME HeapAssumption ==
  /\ Hdr \in Nat \ {0} /\ Align \in Nat \ {0} /\ Page \in Nat \ {0}
  /\ MinExpand \in Nat /\ Limit \in Nat /\ Top \in Nat
  /\ Hdr < MinExpand /\ MinExpand <= Limit
  /\ Sizes \subseteq Nat \ {0}

NULL == -1

VARIABLES
  head,        \* heap_head
  current,     \* heap_current
  mapped_end,  \* heap_mapped_end
  block,       \* the headers of the list, by address
  live,        \* size asked for of every pointer kmalloc handed out, until kfree
  fault        \* the machine halted: a header was written where no page is mapped

vars == <<head, current, mapped_end, block, live, fault>>

Blocks  == DOMAIN block
Headers == [size : Nat, free : BOOLEAN, next : Nat \cup {NULL}, prev : Nat \cup {NULL}]

TypeOK ==
  /\ head \in Nat \cup {NULL}
  /\ current \in Nat
  /\ mapped_end \in Nat
  /\ Blocks \subseteq Nat
  /\ block \in [Blocks -> Headers]
  /\ DOMAIN live \subseteq Nat
  /\ live \in [DOMAIN live -> Nat]
  /\ fault \in BOOLEAN

Header(size, free, next, prev) ==
  [size |-> size, free |-> free, next |-> next, prev |-> prev]

\* The function f with f[x] = y added.
With(f, x, y) == [a \in DOMAIN f \cup {x} |-> IF a = x THEN y ELSE f[a]]
Without(f, x) == [a \in DOMAIN f \ {x} |-> f[a]]

-----------------------------------------------------------------------------
(***************************************************************************)
(* heap_map_more: pages are mapped one by one up to the target, which is   *)
(* silently cut off at the limit; a failure keeps the pages mapped so far. *)
(***************************************************************************)
Target(bytes) == IF mapped_end + bytes > Limit THEN Limit ELSE mapped_end + bytes

\* Faulty variant, for mutation testing.
heap_map_more_page_short(bytes) ==
  mapped_end' = IF mapped_end < Target(bytes) THEN Target(bytes) - Page ELSE mapped_end

heap_map_more(bytes) ==
  mapped_end' = IF mapped_end < Target(bytes) THEN Target(bytes) ELSE mapped_end

heap_map_more_fails(bytes) ==
  /\ mapped_end' \in mapped_end .. Target(bytes) - 1
  /\ (mapped_end' - mapped_end) % Page = 0

\* heap_init, where mapping the first pages may fail.
Init ==
  /\ live = [p \in {} |-> 0]
  /\ fault = FALSE
  /\ \/ /\ head = 0 /\ current = MinExpand /\ mapped_end = MinExpand
        /\ block = [a \in {0} |-> Header(MinExpand - Hdr, TRUE, NULL, NULL)]
     \/ /\ head = NULL /\ current = 0
        /\ mapped_end \in 0 .. MinExpand - 1 /\ mapped_end % Page = 0
        /\ block = [a \in {} |-> Header(0, FALSE, NULL, NULL)]

-----------------------------------------------------------------------------
(***************************************************************************)
(* The list.                                                               *)
(***************************************************************************)

\* Faulty variant, for mutation testing.
align_down(value, align) == (value \div align) * align

align_up(value, align) == ((value + align - 1) \div align) * align

\* Faulty variant, for mutation testing.
split_block_always(h, b, size) ==
  LET new == b + Hdr + size IN
  IF h[b].size = size THEN h
  ELSE [a \in DOMAIN h \cup {new} |->
          CASE a = new       -> Header(h[b].size - size - Hdr, TRUE, h[b].next, b)
            [] a = b         -> Header(size, h[b].free, new, h[b].prev)
            [] a = h[b].next -> [h[a] EXCEPT !.prev = new]
            [] OTHER         -> h[a]]

\* b keeps size bytes; the rest becomes a free block, if it is worth one.
split_block(h, b, size) ==
  LET new == b + Hdr + size IN
  IF h[b].size < size + Hdr + Align THEN h
  ELSE [a \in DOMAIN h \cup {new} |->
          CASE a = new       -> Header(h[b].size - size - Hdr, TRUE, h[b].next, b)
            [] a = b         -> Header(size, h[b].free, new, h[b].prev)
            [] a = h[b].next -> [h[a] EXCEPT !.prev = new]
            [] OTHER         -> h[a]]

\* Faulty variant, for mutation testing.
Absorb_stale_prev(h, a, b) ==
  [c \in DOMAIN h \ {b} |->
     IF c = a THEN Header(h[a].size + Hdr + h[b].size, h[a].free, h[b].next, h[a].prev)
     ELSE h[c]]

\* b is swallowed by a.
Absorb(h, a, b) ==
  [c \in DOMAIN h \ {b} |->
     CASE c = a         -> Header(h[a].size + Hdr + h[b].size, h[a].free, h[b].next, h[a].prev)
       [] c = h[b].next -> [h[c] EXCEPT !.prev = a]
       [] OTHER         -> h[c]]

FreeAt(h, a) == a # NULL /\ h[a].free

MergeNext(h, b) == IF FreeAt(h, h[b].next) THEN Absorb(h, b, h[b].next) ELSE h
MergePrev(h, b) == IF FreeAt(h, h[b].prev) THEN Absorb(h, h[b].prev, b) ELSE h

\* Faulty variant, for mutation testing.
coalesce_next_only(h, b) == MergeNext(h, b)

coalesce(h, b) == MergePrev(MergeNext(h, b), b)

-----------------------------------------------------------------------------
(***************************************************************************)
(* kmalloc and kfree.                                                      *)
(***************************************************************************)
Fits(b, size) == block[b].free /\ block[b].size >= size

\* The list is walked from heap_head, which is in the order of addresses.
FirstFit(b, size) == Fits(b, size) /\ \A c \in Blocks : c < b => ~Fits(c, size)

NoFit(size) == \A b \in Blocks : ~Fits(b, size)

\* The list when b is taken for size bytes.
Taken(b, size) == split_block([block EXCEPT ![b].free = FALSE], b, size)

\* Every header of the list h lies below end.
HeadersBelow(h, end) == \A a \in DOMAIN h : a + Hdr <= end

kmalloc_fit(n) ==
  LET size == align_up(n, Align) IN
  /\ \E b \in Blocks :
       /\ FirstFit(b, size)
       /\ HeadersBelow(Taken(b, size), mapped_end)
       /\ block' = Taken(b, size)
       /\ live' = With(live, b + Hdr, n)
  /\ UNCHANGED <<head, current, mapped_end, fault>>

\* The rest that split_block cuts off begins where no page is mapped.
fit_faults(n) ==
  LET size == align_up(n, Align) IN
  /\ \E b \in Blocks : FirstFit(b, size) /\ ~HeadersBelow(Taken(b, size), mapped_end)
  /\ fault' = TRUE
  /\ UNCHANGED <<head, current, mapped_end, block, live>>

Expansion(size) ==
  LET expand == align_up(size + Hdr, Page)
  IN  IF expand < MinExpand THEN MinExpand ELSE expand

IsTail(t) == block[t].next = NULL

\* The new block, in use, hung behind the tail.
Appended(expand) ==
  LET tail == IF head = NULL THEN NULL ELSE CHOOSE t \in Blocks : IsTail(t)
      new  == Header(expand - Hdr, FALSE, NULL, tail)
  IN  [a \in Blocks \cup {current} |->
         CASE a = current -> new
           [] a = tail    -> [block[a] EXCEPT !.next = current]
           [] OTHER       -> block[a]]

\* The list when it has grown for size bytes.
Grown(size) == split_block(Appended(Expansion(size)), current, size)

kmalloc_expand(n) ==
  LET size   == align_up(n, Align)
      expand == Expansion(size)
  IN  /\ NoFit(size)
      /\ current + expand <= Top
      /\ heap_map_more(expand)
      /\ HeadersBelow(Grown(size), mapped_end')
      /\ block' = Grown(size)
      /\ head' = IF head = NULL THEN current ELSE head
      /\ current' = current + expand
      /\ live' = With(live, current + Hdr, n)
      /\ UNCHANGED fault

\* Pages were mapped, but cut off at the limit: the header of the new block,
\* or of the rest cut off from it, is written where there is none.
expand_faults(n) ==
  LET size   == align_up(n, Align)
      expand == Expansion(size)
  IN  /\ NoFit(size)
      /\ current + expand <= Top
      /\ heap_map_more(expand)
      /\ ~HeadersBelow(Grown(size), mapped_end')
      /\ fault' = TRUE
      /\ UNCHANGED <<head, current, block, live>>

kmalloc_fails(n) ==
  LET size == align_up(n, Align) IN
  /\ NoFit(size)
  /\ heap_map_more_fails(Expansion(size))
  /\ UNCHANGED <<head, current, block, live, fault>>

kfree(p) ==
  LET b == p - Hdr IN
  /\ block' = coalesce([block EXCEPT ![b].free = TRUE], b)
  /\ live' = Without(live, p)
  /\ UNCHANGED <<head, current, mapped_end, fault>>

Next ==
  /\ ~fault
  /\ \/ \E n \in Sizes :
          \/ kmalloc_fit(n) \/ kmalloc_expand(n) \/ kmalloc_fails(n)
          \/ fit_faults(n) \/ expand_faults(n)
     \/ \E p \in DOMAIN live : kfree(p)

Spec == Init /\ [][Next]_vars

-----------------------------------------------------------------------------
(***************************************************************************)
(* Properties.                                                             *)
(***************************************************************************)
EndOf(b) == b + Hdr + block[b].size

\* The list tiles the heap: blocks follow one another without gap or overlap
\* up to heap_current, and next and prev are each other's inverse
\* (split_block, coalesce, the append in kmalloc).
ListTilesHeap ==
  /\ head = NULL <=> Blocks = {}
  /\ head # NULL => head \in Blocks /\ block[head].prev = NULL
  /\ \A b \in Blocks :
       /\ IF block[b].next = NULL
            THEN EndOf(b) = current
            ELSE /\ block[b].next \in Blocks
                 /\ EndOf(b) = block[b].next
                 /\ block[block[b].next].prev = b
       /\ block[b].prev # NULL =>
            block[b].prev \in Blocks /\ block[block[b].prev].next = b
       /\ block[b].prev = NULL => b = head

\* What kmalloc handed out is disjoint: the bytes of one allocation never
\* reach the header or the bytes of another, nor a free block's header that
\* kfree will write to (split_block, coalesce).
AllocationsDisjoint ==
  \A p \in DOMAIN live :
    /\ p - Hdr \in Blocks
    /\ ~block[p - Hdr].free
    /\ \A b \in Blocks : b > p - Hdr => p + live[p] <= b
    /\ p + live[p] <= current

NothingLeaks == \A b \in Blocks : block[b].free \/ b + Hdr \in DOMAIN live

FreeBlocksMerged ==
  \A b \in Blocks :
    block[b].free /\ block[b].next # NULL => ~block[block[b].next].free

\* Freed memory can be used again: a block that is not free belongs to an
\* allocation that was not freed, and two free blocks are never neighbours,
\* so that freeing everything leaves one block: merging one step to either
\* side is enough (kmalloc, kfree, coalesce).
FreedIsReusable == NothingLeaks /\ FreeBlocksMerged

\* Until the heap has reached its limit there are pages under every block and
\* no header is written without one, whatever happened to earlier attempts to
\* map: heap_map_more and heap_current drift apart after a failure, never the
\* wrong way.  At the limit both fail: heap_map_more reports success without
\* mapping what was asked for, so that kmalloc hands out bytes without pages
\* or faults itself, which fit_faults and expand_faults show (heap_map_more,
\* kmalloc).
BlocksMapped == mapped_end < Limit => current <= mapped_end /\ ~fault
=============================================================================
