----------------------------- MODULE HeapProofs -----------------------------
(***************************************************************************)
(* Proofs about Heap, for all sizes of headers, pages and requests.        *)
(*                                                                         *)
(* The lemmas speak of a list h of headers from hd to top, whatever state  *)
(* it is in: splitting a block and swallowing a neighbour keep it a list.  *)
(* The inductive invariant adds to the list's shape what the callers hold. *)
(***************************************************************************)
EXTENDS Heap, TLAPS

Stop(h, b) == b + Hdr + h[b].size

Typed(h) ==
  /\ DOMAIN h \subseteq Nat
  /\ h \in [DOMAIN h -> Headers]

Linked(h, hd, top) ==
  /\ hd = NULL <=> DOMAIN h = {}
  /\ hd # NULL => hd \in DOMAIN h /\ h[hd].prev = NULL
  /\ \A b \in DOMAIN h : h[b].next = NULL => Stop(h, b) = top
  /\ \A b \in DOMAIN h : h[b].next # NULL =>
       /\ h[b].next \in DOMAIN h
       /\ Stop(h, b) = h[b].next
       /\ h[h[b].next].prev = b
  /\ \A b \in DOMAIN h : h[b].prev # NULL =>
       h[b].prev \in DOMAIN h /\ h[h[b].prev].next = b
  /\ \A b \in DOMAIN h : h[b].prev = NULL => b = hd
  /\ hd # NULL => \E t \in DOMAIN h : h[t].next = NULL

\* What links alone do not say: also blocks far apart do not overlap.
Ordered(h, top) ==
  /\ \A b, c \in DOMAIN h : b < c => Stop(h, b) <= c
  /\ \A b \in DOMAIN h : Stop(h, b) <= top

List(h, hd, top) == Typed(h) /\ Linked(h, hd, top) /\ Ordered(h, top)

-----------------------------------------------------------------------------
\* A header updated in place.
LEMMA Relinked ==
  ASSUME NEW r \in Headers, NEW q
  PROVE  [r EXCEPT !.prev = q] = Header(r.size, r.free, r.next, q)
<1>1. PICK sz, fr, nx, pv : r = Header(sz, fr, nx, pv)
  BY DEF Headers, Header
<1> QED  BY <1>1 DEF Header

LEMMA Continued ==
  ASSUME NEW r \in Headers, NEW n
  PROVE  [r EXCEPT !.next = n] = Header(r.size, r.free, n, r.prev)
<1>1. PICK sz, fr, nx, pv : r = Header(sz, fr, nx, pv)
  BY DEF Headers, Header
<1> QED  BY <1>1 DEF Header

LEMMA Marked ==
  ASSUME NEW r \in Headers, NEW f
  PROVE  [r EXCEPT !.free = f] = Header(r.size, f, r.next, r.prev)
<1>1. PICK sz, fr, nx, pv : r = Header(sz, fr, nx, pv)
  BY DEF Headers, Header
<1> QED  BY <1>1 DEF Header

\* Splitting keeps the list, every block, and what the blocks are used for
\* (split_block).
LEMMA SplitList ==
  ASSUME NEW h, NEW hd, NEW top \in Nat, List(h, hd, top),
         NEW b \in DOMAIN h, NEW size \in Nat, h[b].size >= size
  PROVE  LET g == split_block(h, b, size) IN
         /\ List(g, hd, top)
         /\ DOMAIN h \subseteq DOMAIN g
         /\ g[b].size >= size
         /\ \A c \in DOMAIN h : g[c].free = h[c].free
         /\ \A c \in DOMAIN h \ {b} : g[c].size = h[c].size /\ g[c].next = h[c].next
         /\ \A c \in DOMAIN g \ DOMAIN h : g[c].free
         /\ \A c \in DOMAIN g \ DOMAIN h : g[c].next = h[b].next
         /\ g[b].next # h[b].next => g[b].next \in DOMAIN g \ DOMAIN h
<1> DEFINE g == split_block(h, b, size)
           new == b + Hdr + size
<1> USE HeapAssumption
<1>1. CASE h[b].size < size + Hdr + Align
  <2>1. g = h  BY <1>1 DEF split_block
  <2> QED  BY <2>1
<1>2. CASE ~(h[b].size < size + Hdr + Align)
  <2> DEFINE rest == Header(h[b].size - size - Hdr, TRUE, h[b].next, b)
             kept == Header(size, h[b].free, new, h[b].prev)
  <2>0. /\ b \in Nat /\ h[b] \in Headers /\ new \in Nat
        /\ DOMAIN h \subseteq Nat
        /\ \A c \in DOMAIN h : h[c] \in Headers
    BY DEF List, Typed
  <2>01. /\ h[b].size \in Nat /\ h[b].next \in Nat \cup {NULL} /\ h[b].free \in BOOLEAN
         /\ h[b].prev \in Nat \cup {NULL}
         /\ size + Hdr + Align <= h[b].size
    BY <2>0, <1>2 DEF Headers
  <2>1. new \notin DOMAIN h /\ new # NULL /\ b # NULL /\ h[b].next # new /\ h[b].next # b
    <3>1. \A c \in DOMAIN h : b < c => b + Hdr + h[b].size <= c
      BY DEF List, Ordered, Stop
    <3>2. new \notin DOMAIN h /\ new # NULL /\ b # NULL
      BY <3>1, <2>0, <2>01 DEF NULL
    <3>3. h[b].next # NULL => h[b].next \in DOMAIN h /\ h[b].next = b + Hdr + h[b].size
      BY DEF List, Linked, Stop
    <3> QED  BY <3>2, <3>3, <2>0, <2>01
  <2>2. g = [a \in DOMAIN h \cup {new} |->
               CASE a = new       -> rest
                 [] a = b         -> kept
                 [] a = h[b].next -> [h[a] EXCEPT !.prev = new]
                 [] OTHER         -> h[a]]
    BY <1>2 DEF split_block
  <2>3. DOMAIN g = DOMAIN h \cup {new}  BY <2>2
  <2>4. g[new] = rest  BY <2>2, <2>1
  <2>5. g[b] = kept  BY <2>2, <2>1
  <2>6. h[b].next # NULL => g[h[b].next] = [h[h[b].next] EXCEPT !.prev = new]
    BY <2>2, <2>1 DEF List, Linked
  <2>7. \A c \in DOMAIN h : c # b /\ c # h[b].next => g[c] = h[c]
    BY <2>2, <2>1
  <2>8. /\ rest \in Headers /\ kept \in Headers
        /\ rest.size = h[b].size - size - Hdr /\ rest.free /\ rest.next = h[b].next
        /\ rest.prev = b
        /\ kept.size = size /\ kept.next = new /\ kept.free = h[b].free
        /\ kept.prev = h[b].prev
    <3>3. h[b].size - size - Hdr \in Nat
      BY <2>01
    <3> QED  BY <2>0, <2>01, <3>3 DEF Header, Headers
  <2>9. h[b].next # NULL =>
          /\ h[b].next \in DOMAIN h
          /\ g[h[b].next] \in Headers
          /\ g[h[b].next].size = h[h[b].next].size
          /\ g[h[b].next].free = h[h[b].next].free
          /\ g[h[b].next].next = h[h[b].next].next
          /\ g[h[b].next].prev = new
    <3> SUFFICES ASSUME h[b].next # NULL
                 PROVE  /\ h[b].next \in DOMAIN h
                        /\ g[h[b].next] \in Headers
                        /\ g[h[b].next].size = h[h[b].next].size
                        /\ g[h[b].next].free = h[h[b].next].free
                        /\ g[h[b].next].next = h[h[b].next].next
                        /\ g[h[b].next].prev = new
      OBVIOUS
    <3>1. PICK n \in DOMAIN h : n = h[b].next
      BY DEF List, Linked
    <3>2. h[n] \in Headers /\ g[n] = [h[n] EXCEPT !.prev = new]
      BY <3>1, <2>0, <2>6
    <3>3. g[n] = Header(h[n].size, h[n].free, h[n].next, new)
      BY <3>2, Relinked
    <3> QED  BY <3>1, <3>2, <3>3, <2>0 DEF Header, Headers
  <2> HIDE DEF g, new, rest, kept
  <2>10. Typed(g)
    <3>1. \A c \in DOMAIN g : g[c] \in Headers
      <4> SUFFICES ASSUME NEW c \in DOMAIN g PROVE g[c] \in Headers
        OBVIOUS
      <4>1. CASE c = new  BY <4>1, <2>4, <2>8
      <4>2. CASE c = b  BY <4>2, <2>5, <2>8
      <4>3. CASE c = h[b].next /\ c \in DOMAIN h  BY <4>3, <2>9, <2>0 DEF NULL
      <4>4. CASE c \in DOMAIN h /\ c # b /\ c # h[b].next  BY <4>4, <2>7, <2>0
      <4> QED  BY <4>1, <4>2, <4>3, <4>4, <2>3
    <3> QED  BY <3>1, <2>0, <2>2, <2>3 DEF Typed
  <2>11. \A c \in DOMAIN h : g[c].free = h[c].free
    <3> SUFFICES ASSUME NEW c \in DOMAIN h PROVE g[c].free = h[c].free
      OBVIOUS
    <3>1. CASE c = b  BY <3>1, <2>5, <2>8
    <3>2. CASE c # b /\ c # h[b].next  BY <3>2, <2>7
    <3>3. CASE c # b /\ c = h[b].next  BY <3>3, <2>9, <2>0 DEF NULL
    <3> QED  BY <3>1, <3>2, <3>3
  <2>12. \A c \in DOMAIN h \ {b} : g[c].size = h[c].size /\ g[c].next = h[c].next
    <3> SUFFICES ASSUME NEW c \in DOMAIN h \ {b}
                 PROVE  g[c].size = h[c].size /\ g[c].next = h[c].next
      OBVIOUS
    <3>1. CASE c # h[b].next  BY <3>1, <2>7
    <3>2. CASE c = h[b].next  BY <3>2, <2>9, <2>0 DEF NULL
    <3> QED  BY <3>1, <3>2
  <2>13. new = b + Hdr + size /\ Stop(g, b) = new /\ Stop(g, new) = Stop(h, b)
    BY <2>0, <2>4, <2>5, <2>8 DEF Stop, new, Headers
  <2>14. Ordered(g, top)
    BY <2>0, <2>3, <2>12, <2>13, <2>1, <1>2 DEF List, Ordered, Stop, Headers
  <2>15. \A c \in DOMAIN h : c # h[b].next => g[c].prev = h[c].prev
    BY <2>5, <2>7, <2>8
  <2>16. Linked(g, hd, top)
    <3>1. hd # NULL /\ hd \in DOMAIN g /\ g[hd].prev = NULL
      BY <2>3, <2>15, <2>1 DEF List, Linked
    <3>2. \A c \in DOMAIN g : g[c].next = NULL => Stop(g, c) = top
      BY <2>3, <2>4, <2>5, <2>8, <2>12, <2>13, <2>1 DEF List, Linked, Stop
    <3>3. \A c \in DOMAIN g : g[c].next # NULL =>
            /\ g[c].next \in DOMAIN g
            /\ Stop(g, c) = g[c].next
            /\ g[g[c].next].prev = c
      BY <2>3, <2>4, <2>5, <2>8, <2>9, <2>12, <2>13, <2>15, <2>1 DEF List, Linked, Stop
    <3>4. \A c \in DOMAIN g : g[c].prev # NULL =>
            g[c].prev \in DOMAIN g /\ g[g[c].prev].next = c
      <4> SUFFICES ASSUME NEW c \in DOMAIN g, g[c].prev # NULL
                   PROVE  g[c].prev \in DOMAIN g /\ g[g[c].prev].next = c
        OBVIOUS
      <4>1. CASE c = new  BY <4>1, <2>3, <2>4, <2>5, <2>8
      <4>2. CASE c = h[b].next /\ c \in DOMAIN h
        <5>1. g[c].prev = new  BY <4>2, <2>9, <2>0 DEF NULL
        <5> QED  BY <5>1, <4>2, <2>3, <2>4, <2>8
      <4>3. CASE c \in DOMAIN h /\ c # h[b].next
        <5>1. g[c].prev = h[c].prev /\ h[c].prev \in DOMAIN h /\ h[h[c].prev].next = c
          BY <4>3, <2>15 DEF List, Linked
        <5>2. h[c].prev # b  BY <5>1, <4>3
        <5> QED  BY <5>1, <5>2, <2>3, <2>12
      <4> QED  BY <4>1, <4>2, <4>3, <2>3
    <3>5. \A c \in DOMAIN g : g[c].prev = NULL => c = hd
      <4> SUFFICES ASSUME NEW c \in DOMAIN g, g[c].prev = NULL PROVE c = hd
        OBVIOUS
      <4>1. c # new  BY <2>1, <2>4, <2>8
      <4>2. c # h[b].next  BY <4>1, <2>0, <2>1, <2>3, <2>9 DEF NULL
      <4> QED  BY <4>1, <4>2, <2>3, <2>15 DEF List, Linked
    <3>6. \E t \in DOMAIN g : g[t].next = NULL
      BY <2>3, <2>4, <2>8, <2>12, <3>1 DEF List, Linked
    <3> QED  BY <3>1, <3>2, <3>3, <3>4, <3>5, <3>6 DEF Linked
  <2>17. g[b].size >= size  BY <2>5, <2>8
  <2>18. \A c \in DOMAIN g \ DOMAIN h : g[c].free /\ g[c].next = h[b].next
    BY <2>3, <2>4, <2>8
  <2>19. g[b].next \in DOMAIN g \ DOMAIN h
    BY <2>1, <2>3, <2>5, <2>8
  <2> QED  BY <2>3, <2>10, <2>11, <2>12, <2>14, <2>16, <2>17, <2>18, <2>19 DEF List, g
<1> QED  BY <1>1, <1>2

\* Swallowing the next block keeps the list and every other block (coalesce).
LEMMA AbsorbList ==
  ASSUME NEW h, NEW hd, NEW top \in Nat, List(h, hd, top),
         NEW a \in DOMAIN h, NEW b \in DOMAIN h, h[a].next = b
  PROVE  LET g == Absorb(h, a, b) IN
         /\ List(g, hd, top)
         /\ DOMAIN g = DOMAIN h \ {b}
         /\ a # b
         /\ h[b].next # b
         /\ g[a].next = h[b].next
         /\ g[a].prev = h[a].prev
         /\ \A c \in DOMAIN g : g[c].free = h[c].free
         /\ \A c \in DOMAIN g \ {a} : g[c].size = h[c].size /\ g[c].next = h[c].next
<1> DEFINE g == Absorb(h, a, b)
           n == h[b].next
           big == Header(h[a].size + Hdr + h[b].size, h[a].free, n, h[a].prev)
<1> USE HeapAssumption
<1>1. /\ DOMAIN h \subseteq Nat /\ a \in Nat /\ b \in Nat
      /\ \A c \in DOMAIN h : h[c] \in Headers
  BY DEF List, Typed
<1>2. /\ h[a].size \in Nat /\ h[b].size \in Nat /\ n \in Nat \cup {NULL}
      /\ h[a].free \in BOOLEAN /\ h[a].prev \in Nat \cup {NULL}
  BY <1>1 DEF Headers
<1>3. b = a + Hdr + h[a].size /\ h[b].prev = a /\ b # NULL /\ a # NULL
  BY <1>1 DEF List, Linked, Stop, NULL
<1>4. n # NULL => n \in DOMAIN h /\ n = b + Hdr + h[b].size /\ h[n].prev = b
  BY DEF List, Linked, Stop
<1>5. a # b /\ n # a /\ n # b
  BY <1>1, <1>2, <1>3, <1>4
<1>6. g = [c \in DOMAIN h \ {b} |->
             CASE c = a -> big
               [] c = n -> [h[c] EXCEPT !.prev = a]
               [] OTHER -> h[c]]
  BY DEF Absorb
<1>7. DOMAIN g = DOMAIN h \ {b}  BY <1>6
<1>8. g[a] = big  BY <1>5, <1>6
<1>9. \A c \in DOMAIN g : c # a /\ c # n => g[c] = h[c]  BY <1>6
<1>10. n # NULL => g[n] = Header(h[n].size, h[n].free, h[n].next, a)
  <2> SUFFICES ASSUME n # NULL
               PROVE  g[n] = Header(h[n].size, h[n].free, h[n].next, a)
    OBVIOUS
  <2>1. PICK m \in DOMAIN h : m = n  BY <1>4
  <2>2. g[m] = [h[m] EXCEPT !.prev = a]  BY <1>5, <1>6, <2>1
  <2>3. h[m] \in Headers  BY <1>1
  <2> HIDE DEF g
  <2> QED  BY <2>1, <2>2, <2>3, Relinked
<1>11. /\ big \in Headers
       /\ big.size = h[a].size + Hdr + h[b].size /\ big.free = h[a].free
       /\ big.next = n /\ big.prev = h[a].prev
  BY <1>2 DEF Header, Headers
<1> HIDE DEF g, n, big
<1>12. n # NULL => /\ n \in DOMAIN g /\ g[n] \in Headers /\ g[n].size = h[n].size
                   /\ g[n].free = h[n].free /\ g[n].next = h[n].next /\ g[n].prev = a
  BY <1>1, <1>4, <1>5, <1>7, <1>10 DEF Header, Headers
<1>13. \A c \in DOMAIN g : c # NULL  BY <1>1, <1>7 DEF NULL
<1>14. Typed(g)
  <2>1. \A c \in DOMAIN g : g[c] \in Headers
    BY <1>1, <1>7, <1>8, <1>9, <1>11, <1>12, <1>13
  <2> QED  BY <2>1, <1>1, <1>6, <1>7 DEF Typed
<1>15. \A c \in DOMAIN g : g[c].free = h[c].free
  BY <1>8, <1>9, <1>11, <1>12, <1>13
<1>16. \A c \in DOMAIN g \ {a} : g[c].size = h[c].size /\ g[c].next = h[c].next
  BY <1>9, <1>12, <1>13
<1>17. \A c \in DOMAIN g : c # n => g[c].prev = h[c].prev
  BY <1>8, <1>9, <1>11
<1>18. Stop(g, a) = Stop(h, b)
  BY <1>1, <1>2, <1>3, <1>8, <1>11 DEF Stop
<1>19. Ordered(g, top)
  <2>1. \A c \in DOMAIN g \ {a} : Stop(g, c) = Stop(h, c)
    BY <1>16 DEF Stop
  <2>2. \A c \in DOMAIN g : a < c => b < c
    BY <1>1, <1>3, <1>7 DEF List, Ordered, Stop
  <2> QED  BY <2>1, <2>2, <1>7, <1>18 DEF List, Ordered
<1>20. Linked(g, hd, top)
  <2>1. a \in DOMAIN g /\ hd # NULL /\ hd \in DOMAIN h /\ h[hd].prev = NULL
    BY <1>5, <1>7 DEF List, Linked
  <2>2. hd # b /\ hd # n
    BY <2>1, <1>1, <1>3, <1>4 DEF NULL
  <2>3. hd \in DOMAIN g /\ g[hd].prev = NULL
    BY <2>1, <2>2, <1>7, <1>17
  <2>4. \A c \in DOMAIN g : g[c].next = NULL => Stop(g, c) = top
    BY <1>7, <1>8, <1>11, <1>16, <1>18 DEF List, Linked, Stop, n
  <2>5. \A c \in DOMAIN g : g[c].next # NULL =>
          /\ g[c].next \in DOMAIN g
          /\ Stop(g, c) = g[c].next
          /\ g[g[c].next].prev = c
    <3> SUFFICES ASSUME NEW c \in DOMAIN g, g[c].next # NULL
                 PROVE  /\ g[c].next \in DOMAIN g
                        /\ Stop(g, c) = g[c].next
                        /\ g[g[c].next].prev = c
      OBVIOUS
    <3>1. CASE c = a
      <4>1. g[c].next = n  BY <3>1, <1>8, <1>11
      <4>2. Stop(h, b) = n  BY <4>1 DEF List, Linked, n
      <4> QED  BY <3>1, <4>1, <4>2, <1>12, <1>18
    <3>2. CASE c # a
      <4>1. /\ g[c].next = h[c].next /\ Stop(g, c) = Stop(h, c) /\ c \in DOMAIN h
            /\ h[c].next \in DOMAIN h /\ Stop(h, c) = h[c].next /\ h[h[c].next].prev = c
        BY <3>2, <1>7, <1>16 DEF List, Linked, Stop
      <4>2. h[c].next # b  BY <3>2, <4>1, <1>3
      <4>3. h[c].next # n  BY <4>1, <1>4, <1>7
      <4> QED  BY <4>1, <4>2, <4>3, <1>7, <1>17
    <3> QED  BY <3>1, <3>2
  <2>6. \A c \in DOMAIN g : g[c].prev # NULL =>
          g[c].prev \in DOMAIN g /\ g[g[c].prev].next = c
    <3> SUFFICES ASSUME NEW c \in DOMAIN g, g[c].prev # NULL
                 PROVE  g[c].prev \in DOMAIN g /\ g[g[c].prev].next = c
      OBVIOUS
    <3>1. CASE c = n  BY <3>1, <2>1, <1>8, <1>11, <1>12, <1>13
    <3>2. CASE c # n
      <4>1. /\ g[c].prev = h[c].prev /\ h[c].prev \in DOMAIN h
            /\ h[h[c].prev].next = c /\ c \in DOMAIN h /\ c # b
        BY <3>2, <1>7, <1>17 DEF List, Linked
      <4>2. h[c].prev # b  BY <3>2, <4>1 DEF n
      <4>3. h[c].prev # a  BY <4>1
      <4> QED  BY <4>1, <4>2, <4>3, <1>7, <1>16
    <3> QED  BY <3>1, <3>2
  <2>7. \A c \in DOMAIN g : g[c].prev = NULL => c = hd
    BY <1>3, <1>7, <1>12, <1>13, <1>17 DEF List, Linked
  <2>8. \E t \in DOMAIN g : g[t].next = NULL
    <3>1. PICK t \in DOMAIN h : h[t].next = NULL
      BY <2>1 DEF List, Linked
    <3>2. t # a  BY <3>1, <1>3
    <3>3. CASE t = b  BY <3>1, <3>3, <2>1, <1>8, <1>11 DEF n
    <3>4. CASE t # b  BY <3>1, <3>2, <3>4, <1>7, <1>16
    <3> QED  BY <3>3, <3>4
  <2> QED  BY <2>1, <2>3, <2>4, <2>5, <2>6, <2>7, <2>8 DEF Linked
<1> QED  BY <1>5, <1>7, <1>8, <1>11, <1>14, <1>15, <1>16, <1>19, <1>20 DEF List, g, n

-----------------------------------------------------------------------------
(***************************************************************************)
(* Freeing a block.                                                        *)
(***************************************************************************)
Merged(h) ==
  \A c \in DOMAIN h : h[c].free /\ h[c].next # NULL => ~h[h[c].next].free

\* Only the pair that ends in b may still consist of two free blocks.
MergedBut(h, b) ==
  \A c \in DOMAIN h :
    h[c].free /\ h[c].next # NULL /\ h[c].next # b => ~h[h[c].next].free

\* g has the blocks of h that were in use, as they were, and no others in use.
SameInUse(g, h) ==
  /\ DOMAIN g \subseteq DOMAIN h
  /\ \A c \in DOMAIN g : g[c].free = h[c].free
  /\ \A c \in DOMAIN h : ~h[c].free => c \in DOMAIN g /\ g[c].size = h[c].size

\* kfree's two merges leave a list without free neighbours (coalesce).
LEMMA CoalesceList ==
  ASSUME NEW h, NEW hd, NEW top \in Nat, List(h, hd, top),
         NEW b \in DOMAIN h, h[b].free,
         \A c \in DOMAIN h :
           h[c].free /\ h[c].next # NULL /\ h[c].next # b /\ c # b => ~h[h[c].next].free
  PROVE  LET g == coalesce(h, b) IN
         List(g, hd, top) /\ Merged(g) /\ SameInUse(g, h)
<1> DEFINE k == MergeNext(h, b)
           g == MergePrev(k, b)
<1>1. List(k, hd, top) /\ b \in DOMAIN k /\ k[b].free /\ MergedBut(k, b) /\ SameInUse(k, h)
  <2>1. CASE FreeAt(h, h[b].next)
    <3> DEFINE n == h[b].next
    <3>1. n \in DOMAIN h /\ h[n].free /\ n # NULL
      BY <2>1 DEF FreeAt, List, Linked
    <3>2. k = Absorb(h, b, n)  BY <2>1 DEF MergeNext
    <3> HIDE DEF k
    <3>3. /\ List(k, hd, top) /\ DOMAIN k = DOMAIN h \ {n} /\ b # n
          /\ h[n].next # n /\ k[b].next = h[n].next
          /\ \A c \in DOMAIN k : k[c].free = h[c].free
          /\ \A c \in DOMAIN k \ {b} : k[c].size = h[c].size /\ k[c].next = h[c].next
      <4>1. h[b].next = n  OBVIOUS
      <4> HIDE DEF n
      <4> QED  BY <3>1, <3>2, <4>1, AbsorbList
    <3>4. MergedBut(k, b)
      <4> SUFFICES ASSUME NEW c \in DOMAIN k, k[c].free, k[c].next # NULL, k[c].next # b
                   PROVE  ~k[k[c].next].free
        BY DEF MergedBut
      <4>1. k[c].next \in DOMAIN k  BY <3>3 DEF List, Linked
      <4>2. CASE c = b  BY <4>1, <4>2, <3>1, <3>3
      <4>3. CASE c # b  BY <4>1, <4>3, <3>3
      <4> QED  BY <4>2, <4>3
    <3>5. SameInUse(k, h)  BY <3>1, <3>3 DEF SameInUse
    <3> QED  BY <3>3, <3>4, <3>5
  <2>2. CASE ~FreeAt(h, h[b].next)
    <3>1. k = h  BY <2>2 DEF MergeNext
    <3> QED  BY <3>1, <2>2 DEF MergedBut, SameInUse, FreeAt
  <2> QED  BY <2>1, <2>2
<1> HIDE DEF k
<1>2. List(g, hd, top) /\ Merged(g) /\ SameInUse(g, k)
  <2>1. CASE FreeAt(k, k[b].prev)
    <3> DEFINE p == k[b].prev
    <3>1. p \in DOMAIN k /\ k[p].free /\ k[p].next = b
      BY <2>1, <1>1 DEF FreeAt, List, Linked
    <3>2. g = Absorb(k, p, b)  BY <2>1 DEF MergePrev
    <3> HIDE DEF g
    <3>3. /\ List(g, hd, top) /\ DOMAIN g = DOMAIN k \ {b}
          /\ k[b].next # b /\ g[p].next = k[b].next
          /\ \A c \in DOMAIN g : g[c].free = k[c].free
          /\ \A c \in DOMAIN g \ {p} : g[c].size = k[c].size /\ g[c].next = k[c].next
      BY <3>1, <3>2, <1>1, AbsorbList
    <3>4. Merged(g)
      <4> SUFFICES ASSUME NEW c \in DOMAIN g, g[c].free, g[c].next # NULL
                   PROVE  ~g[g[c].next].free
        BY DEF Merged
      <4>1. g[c].next \in DOMAIN g  BY <3>3 DEF List, Linked
      <4>2. CASE c = p  BY <4>1, <4>2, <3>3, <1>1 DEF MergedBut
      <4>3. CASE c # p  BY <4>1, <4>3, <3>3, <1>1 DEF MergedBut
      <4> QED  BY <4>2, <4>3
    <3>5. SameInUse(g, k)  BY <3>1, <3>3, <1>1 DEF SameInUse
    <3> QED  BY <3>3, <3>4, <3>5
  <2>2. CASE ~FreeAt(k, k[b].prev)
    <3>1. g = k  BY <2>2 DEF MergePrev
    <3>2. Merged(k)
      <4> SUFFICES ASSUME NEW c \in DOMAIN k, k[c].free, k[c].next = b, b # NULL
                   PROVE  FALSE
        BY <1>1 DEF MergedBut, Merged
      <4>1. k[b].prev = c  BY <1>1 DEF List, Linked
      <4>2. c # NULL  BY <1>1 DEF List, Typed, NULL
      <4> QED  BY <4>1, <4>2, <2>2 DEF FreeAt
    <3> QED  BY <3>1, <3>2, <1>1 DEF SameInUse
  <2> QED  BY <2>1, <2>2
<1>3. SameInUse(g, h)  BY <1>1, <1>2 DEF SameInUse
<1>4. coalesce(h, b) = g  BY DEF coalesce, k
<1> HIDE DEF g
<1> QED  BY <1>2, <1>3, <1>4

-----------------------------------------------------------------------------
(***************************************************************************)
(* Growing the heap.                                                       *)
(***************************************************************************)

\* Rounding up does not round down (align_up).
LEMMA AlignUp ==
  ASSUME NEW v \in Nat, NEW a \in Nat \ {0}
  PROVE  align_up(v, a) \in Nat /\ align_up(v, a) >= v
<1> DEFINE x == v + a - 1
           q == x \div a
           r == x % a
<1>1. x \in Nat /\ a \in Nat /\ a > 0  OBVIOUS
<1>2. q \in Nat /\ r \in 0 .. a - 1 /\ x = a * q + r  BY <1>1
<1>3. q * a = a * q /\ q * a \in Nat  BY <1>1, <1>2
<1>4. align_up(v, a) = q * a  BY DEF align_up
<1> HIDE DEF x, q, r
<1>5. x = v + a - 1  BY DEF x
<1> QED  BY <1>1, <1>2, <1>3, <1>4, <1>5

\* An expansion has room for its header and the request (kmalloc).
LEMMA ExpansionFits ==
  ASSUME NEW size \in Nat
  PROVE  Expansion(size) \in Nat /\ Expansion(size) >= size + Hdr
<1> USE HeapAssumption
<1>1. size + Hdr \in Nat  OBVIOUS
<1>2. align_up(size + Hdr, Page) \in Nat /\ align_up(size + Hdr, Page) >= size + Hdr
  BY <1>1, AlignUp
<1> QED  BY <1>1, <1>2 DEF Expansion

\* The append keeps the list, every block, and adds one in use (kmalloc).
LEMMA AppendList ==
  ASSUME List(block, head, current), current \in Nat,
         NEW expand \in Nat, expand >= Hdr
  PROVE  LET g == Appended(expand) IN
         /\ List(g, IF head = NULL THEN current ELSE head, current + expand)
         /\ current \notin Blocks
         /\ DOMAIN g = Blocks \cup {current}
         /\ g[current] = Header(expand - Hdr, FALSE, NULL, g[current].prev)
         /\ \A c \in Blocks : g[c].size = block[c].size /\ g[c].free = block[c].free
         /\ \A c \in Blocks : g[c].next # current => g[c].next = block[c].next
<1> USE HeapAssumption
<1> DEFINE g == Appended(expand)
           tail == IF head = NULL THEN NULL ELSE CHOOSE t \in Blocks : IsTail(t)
           new == Header(expand - Hdr, FALSE, NULL, tail)
           hd == IF head = NULL THEN current ELSE head
           top == current + expand
<1>1. Blocks \subseteq Nat /\ \A c \in Blocks : block[c] \in Headers /\ block[c].size \in Nat
  BY DEF List, Typed, Blocks, Headers
<1>2. \A c \in Blocks : c + Hdr + block[c].size <= current
  BY DEF List, Ordered, Stop, Blocks
<1>3. current \notin Blocks /\ current # NULL /\ \A c \in Blocks : c < current /\ c # NULL
  BY <1>1, <1>2 DEF NULL
<1>4. head = NULL => Blocks = {} /\ tail = NULL
  BY DEF List, Linked, Blocks
<1>5. head # NULL => tail \in Blocks /\ block[tail].next = NULL
  BY DEF List, Linked, Blocks, IsTail
<1>6. g = [a \in Blocks \cup {current} |->
             CASE a = current -> new
               [] a = tail    -> [block[a] EXCEPT !.next = current]
               [] OTHER       -> block[a]]
  BY DEF Appended
<1>7. tail # current  BY <1>3, <1>4, <1>5
<1>8. tail \in Nat \cup {NULL}  BY <1>1, <1>4, <1>5
<1> HIDE DEF tail
<1>9. DOMAIN g = Blocks \cup {current} /\ g[current] = new
  BY <1>6, <1>7
<1>10. \A c \in Blocks : c # tail => g[c] = block[c]
  BY <1>3, <1>6
<1>11. head # NULL =>
         g[tail] = Header(block[tail].size, block[tail].free, current, block[tail].prev)
  <2> SUFFICES ASSUME head # NULL
               PROVE  g[tail] = Header(block[tail].size, block[tail].free, current, block[tail].prev)
    OBVIOUS
  <2>1. g[tail] = [block[tail] EXCEPT !.next = current]  BY <1>5, <1>6, <1>7
  <2>2. block[tail] \in Headers  BY <1>1, <1>5
  <2> HIDE DEF g
  <2>3. [block[tail] EXCEPT !.next = current]
           = Header(block[tail].size, block[tail].free, current, block[tail].prev)
    BY <2>2, Continued
  <2> QED  BY <2>1, <2>3
<1>12. new \in Headers /\ new.size = expand - Hdr /\ new.free = FALSE
       /\ new.next = NULL /\ new.prev = tail
  BY <1>8 DEF Header, Headers
<1> HIDE DEF g, new
<1>13. head # NULL => /\ g[tail] \in Headers /\ g[tail].size = block[tail].size
                      /\ g[tail].free = block[tail].free /\ g[tail].next = current
                      /\ g[tail].prev = block[tail].prev
  <2> SUFFICES ASSUME head # NULL
               PROVE  /\ g[tail] \in Headers /\ g[tail].size = block[tail].size
                      /\ g[tail].free = block[tail].free /\ g[tail].next = current
                      /\ g[tail].prev = block[tail].prev
    OBVIOUS
  <2>1. PICK t \in Blocks : t = tail  BY <1>5
  <2>2. block[t] \in Headers  BY <1>1
  <2>3. g[t] = Header(block[t].size, block[t].free, current, block[t].prev)
    BY <1>11, <2>1
  <2> QED  BY <2>1, <2>2, <2>3 DEF Header, Headers
<1>14. \A c \in Blocks : /\ g[c] \in Headers /\ g[c].size = block[c].size
                         /\ g[c].free = block[c].free /\ g[c].prev = block[c].prev
  BY <1>1, <1>4, <1>10, <1>13
<1>15. \A c \in Blocks : c # tail => g[c].next = block[c].next
  BY <1>10
<1>16. Typed(g)
  <2>1. \A c \in DOMAIN g : g[c] \in Headers  BY <1>9, <1>12, <1>14
  <2> QED  BY <2>1, <1>1, <1>6, <1>9 DEF Typed
<1>17. Stop(g, current) = top /\ \A c \in Blocks : Stop(g, c) = Stop(block, c)
  BY <1>9, <1>12, <1>14 DEF Stop
<1>18. Ordered(g, top)
  BY <1>1, <1>2, <1>3, <1>9, <1>17 DEF List, Ordered, Blocks, Stop
<1>19. \A c \in Blocks : block[c].next = NULL => c = tail
  <2> SUFFICES ASSUME NEW c \in Blocks, block[c].next = NULL, c # tail PROVE FALSE
    OBVIOUS
  <2>1. PICK t \in Blocks : t = tail  BY <1>4, <1>5
  <2>2. Stop(block, c) = current /\ Stop(block, t) = current
    BY <2>1, <1>4, <1>5 DEF List, Linked, Blocks
  <2>3. (c < t => Stop(block, c) <= t) /\ (t < c => Stop(block, t) <= c)
    BY DEF List, Ordered, Blocks
  <2> QED  BY <2>1, <2>2, <2>3, <1>1, <1>3
<1>20. Linked(g, hd, top)
  <2>1. hd # NULL /\ hd \in DOMAIN g /\ g[hd].prev = NULL
    BY <1>3, <1>4, <1>9, <1>12, <1>14 DEF List, Linked, Blocks
  <2>2. \A c \in DOMAIN g : g[c].next = NULL => Stop(g, c) = top
    BY <1>3, <1>9, <1>13, <1>15, <1>17, <1>19, <1>4
  <2>3. \A c \in DOMAIN g : g[c].next # NULL =>
          /\ g[c].next \in DOMAIN g
          /\ Stop(g, c) = g[c].next
          /\ g[g[c].next].prev = c
    <3> SUFFICES ASSUME NEW c \in DOMAIN g, g[c].next # NULL
                 PROVE  /\ g[c].next \in DOMAIN g
                        /\ Stop(g, c) = g[c].next
                        /\ g[g[c].next].prev = c
      OBVIOUS
    <3>1. c \in Blocks  BY <1>9, <1>12
    <3>2. CASE c = tail
      <4>1. head # NULL  BY <3>1, <1>4
      <4>2. Stop(block, c) = current
        BY <3>1, <3>2, <4>1, <1>5 DEF List, Linked, Blocks
      <4> QED  BY <3>1, <3>2, <4>1, <4>2, <1>9, <1>12, <1>13, <1>17
    <3>3. CASE c # tail
      <4>1. /\ block[c].next \in Blocks /\ Stop(block, c) = block[c].next
            /\ block[block[c].next].prev = c /\ g[c].next = block[c].next
        BY <3>1, <3>3, <1>15 DEF List, Linked, Blocks
      <4> QED  BY <3>1, <4>1, <1>9, <1>14, <1>17
    <3> QED  BY <3>2, <3>3
  <2>4. \A c \in DOMAIN g : g[c].prev # NULL =>
          g[c].prev \in DOMAIN g /\ g[g[c].prev].next = c
    <3> SUFFICES ASSUME NEW c \in DOMAIN g, g[c].prev # NULL
                 PROVE  g[c].prev \in DOMAIN g /\ g[g[c].prev].next = c
      OBVIOUS
    <3>1. CASE c = current  BY <3>1, <1>4, <1>5, <1>9, <1>12, <1>13
    <3>2. CASE c \in Blocks
      <4>1. /\ g[c].prev = block[c].prev /\ block[c].prev \in Blocks
            /\ block[block[c].prev].next = c
        BY <3>2, <1>14 DEF List, Linked, Blocks
      <4>2. block[c].prev # tail  BY <3>2, <4>1, <1>3, <1>4, <1>5
      <4> QED  BY <4>1, <4>2, <1>9, <1>15
    <3> QED  BY <3>1, <3>2, <1>9
  <2>5. \A c \in DOMAIN g : g[c].prev = NULL => c = hd
    BY <1>3, <1>4, <1>5, <1>9, <1>12, <1>14 DEF List, Linked, Blocks
  <2>6. \E t \in DOMAIN g : g[t].next = NULL
    BY <1>9, <1>12
  <2> QED  BY <2>1, <2>2, <2>3, <2>4, <2>5, <2>6 DEF Linked
<1>21. g[current] = Header(expand - Hdr, FALSE, NULL, g[current].prev)
  BY <1>9, <1>12 DEF new
<1>22. \A c \in Blocks : g[c].next # current => g[c].next = block[c].next
  BY <1>4, <1>13, <1>15
<1> QED  BY <1>3, <1>9, <1>14, <1>16, <1>18, <1>20, <1>21, <1>22 DEF List, g

-----------------------------------------------------------------------------
(***************************************************************************)
(* The inductive invariant.                                                *)
(***************************************************************************)

\* Every pointer handed out is the start of a block in use that is big enough.
Held ==
  /\ DOMAIN live \subseteq Nat
  /\ live \in [DOMAIN live -> Nat]
  /\ \A p \in DOMAIN live :
       /\ p - Hdr \in Blocks
       /\ ~block[p - Hdr].free
       /\ live[p] <= block[p - Hdr].size

Sound ==
  /\ head \in Nat \cup {NULL} /\ current \in Nat /\ mapped_end \in Nat
  /\ fault \in BOOLEAN
  /\ mapped_end <= Limit
  /\ List(block, head, current)
  /\ Held
  /\ NothingLeaks
  /\ Merged(block)
  /\ BlocksMapped

LEMMA InitSound == Init => Sound
<1> SUFFICES ASSUME Init PROVE Sound
  OBVIOUS
<1> USE HeapAssumption
<1>1. Held
  BY DEF Held, Init
<1>2. CASE /\ head = 0 /\ current = MinExpand /\ mapped_end = MinExpand
           /\ block = [a \in {0} |-> Header(MinExpand - Hdr, TRUE, NULL, NULL)]
  <2>1. block = [a \in {0} |-> Header(MinExpand - Hdr, TRUE, NULL, NULL)]
    BY <1>2
  <2>2. DOMAIN block = {0} /\ block[0] = Header(MinExpand - Hdr, TRUE, NULL, NULL)
    BY <2>1
  <2>3. /\ block[0] \in Headers /\ block[0].size = MinExpand - Hdr /\ block[0].free
        /\ block[0].next = NULL /\ block[0].prev = NULL
    BY <2>2 DEF Header, Headers
  <2>4. Typed(block)
    <3>1. Header(MinExpand - Hdr, TRUE, NULL, NULL) \in Headers  BY <2>2, <2>3
    <3>2. block \in [{0} -> Headers]  BY <2>1, <3>1
    <3> QED  BY <2>2, <3>2 DEF Typed
  <2>5. Stop(block, 0) = current
    <3>1. block[0].size = MinExpand - Hdr /\ current = MinExpand  BY <1>2, <2>3
    <3> QED  BY <3>1 DEF Stop
  <2>6. List(block, head, current)
    <3>1. Linked(block, head, current)
      <4>1. head = 0 /\ head # NULL  BY <1>2 DEF NULL
      <4> QED  BY <4>1, <2>2, <2>3, <2>5 DEF Linked
    <3>2. Ordered(block, current)
      <4>1. current \in Nat  BY <1>2
      <4> QED  BY <4>1, <2>2, <2>5 DEF Ordered
    <3> QED  BY <3>1, <3>2, <2>4 DEF List
  <2>7. NothingLeaks /\ Merged(block)
    BY <2>2, <2>3 DEF NothingLeaks, Merged, Blocks
  <2>8. fault \in BOOLEAN /\ ~fault  BY DEF Init
  <2>9. /\ head \in Nat \cup {NULL} /\ current \in Nat /\ mapped_end \in Nat
        /\ mapped_end <= Limit /\ current <= mapped_end
    BY <1>2
  <2> QED  BY <1>1, <2>6, <2>7, <2>8, <2>9, Zenon DEF Sound, BlocksMapped
<1>3. CASE /\ head = NULL /\ current = 0
           /\ mapped_end \in 0 .. MinExpand - 1 /\ mapped_end % Page = 0
           /\ block = [a \in {} |-> Header(0, FALSE, NULL, NULL)]
  <2>1. DOMAIN block = {} /\ head = NULL /\ current = 0 /\ mapped_end \in 0 .. MinExpand - 1
        /\ block = [a \in {} |-> Header(0, FALSE, NULL, NULL)]
    BY <1>3
  <2>2. List(block, head, current)
    BY <2>1 DEF List, Typed, Linked, Ordered
  <2>3. NothingLeaks /\ Merged(block)
    BY <2>1 DEF NothingLeaks, Merged, Blocks
  <2>4. fault \in BOOLEAN /\ ~fault  BY DEF Init
  <2>5. /\ head \in Nat \cup {NULL} /\ current \in Nat /\ mapped_end \in Nat
        /\ mapped_end <= Limit /\ current <= mapped_end
    BY <2>1
  <2> QED  BY <1>1, <2>2, <2>3, <2>4, <2>5, Zenon DEF Sound, BlocksMapped
<1> QED  BY <1>2, <1>3 DEF Init

\* Turning the flag of one block leaves the list alone.
LEMMA MarkList ==
  ASSUME NEW h, NEW hd, NEW top \in Nat, List(h, hd, top),
         NEW b \in DOMAIN h, NEW f \in BOOLEAN
  PROVE  LET g == [h EXCEPT ![b].free = f] IN
         /\ List(g, hd, top)
         /\ DOMAIN g = DOMAIN h
         /\ g[b].free = f
         /\ \A c \in DOMAIN h : g[c].size = h[c].size /\ g[c].next = h[c].next
         /\ \A c \in DOMAIN h \ {b} : g[c].free = h[c].free
<1> DEFINE g == [h EXCEPT ![b].free = f]
<1>1. \A c \in DOMAIN h : h[c] \in Headers  BY DEF List, Typed
<1>2. DOMAIN g = DOMAIN h /\ g[b] = [h[b] EXCEPT !.free = f]
      /\ \A c \in DOMAIN h \ {b} : g[c] = h[c]
  BY DEF List, Typed
<1>3. g \in [DOMAIN h -> {g[c] : c \in DOMAIN h}]
  OBVIOUS
<1> HIDE DEF g
<1>4. g[b] = Header(h[b].size, f, h[b].next, h[b].prev)
  BY <1>1, <1>2, Marked
<1>5. h[b] \in Headers  BY <1>1
<1>6. g[b] \in Headers /\ g[b].size = h[b].size /\ g[b].next = h[b].next
      /\ g[b].prev = h[b].prev /\ g[b].free = f
  BY <1>4, <1>5 DEF Header, Headers
<1>7. \A c \in DOMAIN h : /\ g[c] \in Headers /\ g[c].size = h[c].size
                          /\ g[c].next = h[c].next /\ g[c].prev = h[c].prev
  BY <1>1, <1>2, <1>6
<1>8. Typed(g)  BY <1>2, <1>3, <1>7 DEF List, Typed
<1>9. \A c \in DOMAIN h : Stop(g, c) = Stop(h, c)  BY <1>7 DEF Stop
<1>10. Linked(g, hd, top)  BY <1>2, <1>7, <1>9 DEF List, Linked
<1>11. Ordered(g, top)  BY <1>2, <1>9 DEF List, Ordered
<1> QED  BY <1>2, <1>6, <1>7, <1>8, <1>10, <1>11 DEF List, g

-----------------------------------------------------------------------------
\* kmalloc finds a block: it is marked, split, and handed out.
LEMMA FitSound ==
  ASSUME Sound, NEW n \in Sizes, kmalloc_fit(n)
  PROVE  Sound'
<1> USE HeapAssumption
<1> DEFINE size == align_up(n, Align)
<1>1. n \in Nat /\ size \in Nat /\ size >= n  BY AlignUp
<1>2. PICK b \in Blocks :
        /\ FirstFit(b, size)
        /\ block' = split_block([block EXCEPT ![b].free = FALSE], b, size)
        /\ live' = With(live, b + Hdr, n)
  BY DEF kmalloc_fit, Taken
<1>3. UNCHANGED <<head, current, mapped_end, fault>>  BY DEF kmalloc_fit
<1> HIDE DEF size
<1> DEFINE h == [block EXCEPT ![b].free = FALSE]
<1>4. b \in Nat /\ block[b].free /\ block[b].size >= size /\ b \in DOMAIN block
  BY <1>2 DEF FirstFit, Fits, Sound, List, Typed, Blocks
<1>5. /\ List(h, head, current) /\ DOMAIN h = Blocks /\ ~h[b].free
      /\ \A c \in Blocks : h[c].size = block[c].size /\ h[c].next = block[c].next
      /\ \A c \in Blocks \ {b} : h[c].free = block[c].free
  BY <1>4, MarkList DEF Sound, Blocks
<1> HIDE DEF h
<1>6. /\ List(block', head, current) /\ Blocks \subseteq DOMAIN block'
      /\ block'[b].size >= size
      /\ \A c \in Blocks : block'[c].free = h[c].free
      /\ \A c \in Blocks \ {b} : block'[c].size = h[c].size /\ block'[c].next = h[c].next
      /\ \A c \in DOMAIN block' \ Blocks : block'[c].free /\ block'[c].next = h[b].next
      /\ block'[b].next # h[b].next => block'[b].next \in DOMAIN block' \ Blocks
  <2>1. /\ current \in Nat /\ b \in DOMAIN h /\ h[b].size >= size
        /\ block' = split_block(h, b, size)
    BY <1>2, <1>4, <1>5 DEF Sound, h
  <2> QED  BY <2>1, <1>1, <1>5, SplitList
<1>7. Held'
  <2>1. /\ DOMAIN live' = DOMAIN live \cup {b + Hdr}
        /\ live'[b + Hdr] = n
        /\ \A p \in DOMAIN live \ {b + Hdr} : live'[p] = live[p]
    BY <1>2 DEF With
  <2>2. live' \in [DOMAIN live' -> Nat] /\ DOMAIN live' \subseteq Nat
    BY <1>1, <1>2, <1>4, <2>1 DEF With, Sound, Held
  <2>3. b + Hdr - Hdr = b  BY <1>4
  <2>4. \A p \in DOMAIN live : p - Hdr # b  BY <1>4 DEF Sound, Held
  <2>5. \A p \in DOMAIN live' :
          /\ p - Hdr \in DOMAIN block'
          /\ ~block'[p - Hdr].free
          /\ live'[p] <= block'[p - Hdr].size
    <3> SUFFICES ASSUME NEW p \in DOMAIN live'
                 PROVE  /\ p - Hdr \in DOMAIN block'
                        /\ ~block'[p - Hdr].free
                        /\ live'[p] <= block'[p - Hdr].size
      OBVIOUS
    <3>1. CASE p = b + Hdr
      <4>1. block'[b].size \in Nat
        BY <1>4, <1>6 DEF List, Typed, Headers, Blocks
      <4> QED  BY <3>1, <4>1, <2>1, <2>3, <1>1, <1>4, <1>5, <1>6
    <3>2. CASE p # b + Hdr
      <4>1. p \in DOMAIN live /\ live'[p] = live[p] /\ p - Hdr # b
        BY <3>2, <2>1, <2>4
      <4>2. p - Hdr \in Blocks /\ ~block[p - Hdr].free /\ live[p] <= block[p - Hdr].size
        BY <4>1 DEF Sound, Held
      <4> QED  BY <4>1, <4>2, <1>5, <1>6
    <3> QED  BY <3>1, <3>2
  <2> QED  BY <2>2, <2>5 DEF Held, Blocks
<1>8. NothingLeaks'
  <2> SUFFICES ASSUME NEW c \in DOMAIN block', ~block'[c].free
               PROVE  c + Hdr \in DOMAIN live'
    BY DEF NothingLeaks, Blocks
  <2>1. c \in Blocks  BY <1>6
  <2>2. c = b \/ c + Hdr \in DOMAIN live
    BY <2>1, <1>5, <1>6 DEF Sound, NothingLeaks
  <2> QED  BY <2>2, <1>2 DEF With
<1>9. Merged(block')
  <2> SUFFICES ASSUME NEW c \in DOMAIN block', block'[c].free, block'[c].next # NULL
               PROVE  ~block'[block'[c].next].free
    BY DEF Merged
  <2>1. CASE c \in Blocks
    <3>1. c # b /\ block[c].free /\ block'[c].next = block[c].next
      BY <2>1, <1>5, <1>6
    <3>2. block[c].next \in Blocks /\ ~block[block[c].next].free /\ block[c].next # b
      BY <3>1, <2>1, <1>4 DEF Sound, Merged, List, Linked, Blocks
    <3> QED  BY <3>1, <3>2, <1>5, <1>6
  <2>2. CASE c \notin Blocks
    <3>1. block'[c].next = block[b].next  BY <2>2, <1>4, <1>5, <1>6
    <3>2. block[b].next \in Blocks /\ ~block[block[b].next].free /\ block[b].next # b
      BY <3>1, <1>4 DEF Sound, Merged, List, Linked, Blocks
    <3> QED  BY <3>1, <3>2, <1>5, <1>6
  <2> QED  BY <2>1, <2>2
<1>10. BlocksMapped'  BY <1>3 DEF BlocksMapped, Sound
<1> QED  BY <1>3, <1>6, <1>7, <1>8, <1>9, <1>10 DEF Sound

\* kfree: the block is marked and merged.
LEMMA FreeSound ==
  ASSUME Sound, NEW p \in DOMAIN live, kfree(p)
  PROVE  Sound'
<1> USE HeapAssumption
<1> DEFINE b == p - Hdr
           h == [block EXCEPT ![b].free = TRUE]
<1>1. /\ b \in DOMAIN block /\ ~block[b].free /\ p \in Nat /\ b \in Nat
  BY DEF Sound, Held, List, Typed, Blocks
<1>2. /\ block' = coalesce(h, b) /\ live' = Without(live, p)
      /\ UNCHANGED <<head, current, mapped_end, fault>>
  BY DEF kfree
<1>3. b + Hdr = p  BY <1>1
<1>4. /\ List(h, head, current) /\ DOMAIN h = Blocks /\ h[b].free
      /\ \A c \in Blocks : h[c].size = block[c].size /\ h[c].next = block[c].next
      /\ \A c \in Blocks \ {b} : h[c].free = block[c].free
  <2>1. current \in Nat /\ List(block, head, current)  BY DEF Sound
  <2> HIDE DEF b
  <2> QED  BY <1>1, <2>1, MarkList DEF Blocks
<1> HIDE DEF h, b
<1>5. List(block', head, current) /\ Merged(block') /\ SameInUse(block', h)
  <2>1. \A c \in DOMAIN h :
          h[c].free /\ h[c].next # NULL /\ h[c].next # b /\ c # b => ~h[h[c].next].free
    BY <1>4 DEF Sound, Merged, List, Linked, Blocks
  <2>2. current \in Nat /\ b \in DOMAIN h  BY <1>1, <1>4 DEF Sound, Blocks
  <2> QED  BY <2>1, <2>2, <1>2, <1>4, CoalesceList
<1>6. DOMAIN live' = DOMAIN live \ {p} /\ \A q \in DOMAIN live' : live'[q] = live[q]
  BY <1>2 DEF Without
<1>7. Held'
  <2>1. DOMAIN live' \subseteq Nat /\ live' \in [DOMAIN live' -> Nat]
    BY <1>2, <1>6 DEF Without, Sound, Held
  <2>2. \A q \in DOMAIN live' :
          /\ q - Hdr \in DOMAIN block'
          /\ ~block'[q - Hdr].free
          /\ live'[q] <= block'[q - Hdr].size
    <3> SUFFICES ASSUME NEW q \in DOMAIN live'
                 PROVE  /\ q - Hdr \in DOMAIN block'
                        /\ ~block'[q - Hdr].free
                        /\ live'[q] <= block'[q - Hdr].size
      OBVIOUS
    <3>1. q \in Nat /\ q # p /\ q \in DOMAIN live /\ live'[q] = live[q]
      BY <1>6 DEF Sound, Held
    <3>2. q - Hdr # b  BY <3>1, <1>1, <1>3
    <3>3. q - Hdr \in Blocks /\ ~block[q - Hdr].free /\ live[q] <= block[q - Hdr].size
      BY <3>1 DEF Sound, Held
    <3>4. ~h[q - Hdr].free /\ h[q - Hdr].size = block[q - Hdr].size
      BY <3>2, <3>3, <1>4
    <3> QED  BY <3>1, <3>3, <3>4, <1>4, <1>5 DEF SameInUse
  <2> QED  BY <2>1, <2>2 DEF Held, Blocks
<1>8. NothingLeaks'
  <2> SUFFICES ASSUME NEW c \in DOMAIN block', ~block'[c].free
               PROVE  c + Hdr \in DOMAIN live'
    BY DEF NothingLeaks, Blocks
  <2>1. c \in Blocks /\ ~h[c].free  BY <1>4, <1>5 DEF SameInUse
  <2>2. c # b /\ ~block[c].free  BY <2>1, <1>4
  <2>3. c + Hdr \in DOMAIN live  BY <2>1, <2>2 DEF Sound, NothingLeaks
  <2>4. c \in Nat  BY <2>1 DEF Sound, List, Typed, Blocks
  <2> QED  BY <2>2, <2>3, <2>4, <1>1, <1>3, <1>6
<1>9. BlocksMapped'  BY <1>2 DEF BlocksMapped, Sound
<1> QED  BY <1>2, <1>5, <1>7, <1>8, <1>9 DEF Sound

\* kmalloc maps more pages: a block is appended, split, and handed out.
LEMMA ExpandSound ==
  ASSUME Sound, NEW n \in Sizes, kmalloc_expand(n)
  PROVE  Sound'
<1> USE HeapAssumption
<1> DEFINE size   == align_up(n, Align)
           expand == Expansion(size)
           g      == Appended(expand)
           hd     == IF head = NULL THEN current ELSE head
<1>1. n \in Nat /\ size \in Nat /\ size >= n  BY AlignUp
<1>2. /\ heap_map_more(expand)
      /\ block' = split_block(g, current, size)
      /\ head' = hd
      /\ current' = current + expand
      /\ live' = With(live, current + Hdr, n)
      /\ fault' = fault
  BY DEF kmalloc_expand, Grown
<1> HIDE DEF size
<1>3. expand \in Nat /\ expand >= size + Hdr /\ expand >= Hdr /\ current \in Nat
  BY <1>1, ExpansionFits DEF Sound
<1> HIDE DEF expand
<1>4. /\ List(g, hd, current + expand)
      /\ current \notin Blocks
      /\ DOMAIN g = Blocks \cup {current}
      /\ g[current] = Header(expand - Hdr, FALSE, NULL, g[current].prev)
      /\ \A c \in Blocks : g[c].size = block[c].size /\ g[c].free = block[c].free
      /\ \A c \in Blocks : g[c].next # current => g[c].next = block[c].next
  BY <1>3, AppendList DEF Sound
<1> HIDE DEF g
<1>5. g[current].size = expand - Hdr /\ g[current].free = FALSE /\ g[current].next = NULL
  BY <1>4 DEF Header
<1>6. /\ List(block', hd, current + expand) /\ DOMAIN g \subseteq DOMAIN block'
      /\ block'[current].size >= size
      /\ \A c \in DOMAIN g : block'[c].free = g[c].free
      /\ \A c \in DOMAIN g \ {current} : block'[c].size = g[c].size /\ block'[c].next = g[c].next
      /\ \A c \in DOMAIN block' \ DOMAIN g : block'[c].free /\ block'[c].next = NULL
  <2>1. /\ current + expand \in Nat /\ current \in DOMAIN g /\ g[current].size >= size
    BY <1>1, <1>3, <1>4, <1>5
  <2>2. block' = split_block(g, current, size)  BY <1>2
  <2> HIDE DEF hd
  <2> QED  BY <2>1, <2>2, <1>1, <1>4, <1>5, SplitList
<1>7. Held'
  <2>1. /\ DOMAIN live' = DOMAIN live \cup {current + Hdr}
        /\ live'[current + Hdr] = n
        /\ \A p \in DOMAIN live \ {current + Hdr} : live'[p] = live[p]
    BY <1>2 DEF With
  <2>2. live' \in [DOMAIN live' -> Nat] /\ DOMAIN live' \subseteq Nat
    BY <1>1, <1>2, <1>3, <2>1 DEF With, Sound, Held
  <2>3. current + Hdr - Hdr = current  BY <1>3
  <2>4. \A p \in DOMAIN live : p - Hdr # current  BY <1>4 DEF Sound, Held
  <2>5. \A p \in DOMAIN live' :
          /\ p - Hdr \in DOMAIN block'
          /\ ~block'[p - Hdr].free
          /\ live'[p] <= block'[p - Hdr].size
    <3> SUFFICES ASSUME NEW p \in DOMAIN live'
                 PROVE  /\ p - Hdr \in DOMAIN block'
                        /\ ~block'[p - Hdr].free
                        /\ live'[p] <= block'[p - Hdr].size
      OBVIOUS
    <3>1. CASE p = current + Hdr
      <4>1. current \in DOMAIN g  BY <1>4
      <4>2. block'[current].size \in Nat
        BY <4>1, <1>6 DEF List, Typed, Headers
      <4>3. current \in DOMAIN block' /\ ~block'[current].free
        BY <4>1, <1>5, <1>6
      <4>4. p - Hdr = current  BY <3>1, <1>3
      <4>5. live'[p] = n  BY <3>1, <2>1
      <4> QED  BY <4>2, <4>3, <4>4, <4>5, <1>1, <1>6
    <3>2. CASE p # current + Hdr
      <4>1. p \in DOMAIN live /\ live'[p] = live[p] /\ p - Hdr # current
        BY <3>2, <2>1, <2>4
      <4>2. p - Hdr \in Blocks /\ ~block[p - Hdr].free /\ live[p] <= block[p - Hdr].size
        BY <4>1 DEF Sound, Held
      <4> QED  BY <4>1, <4>2, <1>4, <1>6
    <3> QED  BY <3>1, <3>2
  <2> QED  BY <2>2, <2>5 DEF Held, Blocks
<1>8. NothingLeaks'
  <2> SUFFICES ASSUME NEW c \in DOMAIN block', ~block'[c].free
               PROVE  c + Hdr \in DOMAIN live'
    BY DEF NothingLeaks, Blocks
  <2>1. c \in Blocks \/ c = current  BY <1>4, <1>6
  <2>2. c = current \/ c + Hdr \in DOMAIN live
    BY <2>1, <1>4, <1>6 DEF Sound, NothingLeaks
  <2> QED  BY <2>2, <1>2 DEF With
<1>9. Merged(block')
  <2> SUFFICES ASSUME NEW c \in DOMAIN block', block'[c].free, block'[c].next # NULL
               PROVE  ~block'[block'[c].next].free
    BY DEF Merged
  <2>1. c \in Blocks /\ c # current  BY <1>4, <1>5, <1>6
  <2>2. block'[c].next = g[c].next /\ block[c].free  BY <2>1, <1>4, <1>6
  <2>3. CASE g[c].next = current  BY <2>2, <2>3, <1>4, <1>5, <1>6
  <2>4. CASE g[c].next # current
    <3>1. block[c].next \in Blocks /\ ~block[block[c].next].free /\ g[c].next = block[c].next
      BY <2>1, <2>2, <2>4, <1>4 DEF Sound, Merged, List, Linked, Blocks
    <3> QED  BY <3>1, <2>2, <1>4, <1>6
  <2> QED  BY <2>3, <2>4
<1>10. mapped_end' \in Nat /\ mapped_end' <= Limit /\ BlocksMapped'
  BY <1>2, <1>3 DEF heap_map_more, Target, BlocksMapped, Sound
<1>11. head' \in Nat \cup {NULL} /\ current' \in Nat /\ fault' \in BOOLEAN
  BY <1>2, <1>3 DEF Sound
<1> QED  BY <1>2, <1>6, <1>7, <1>8, <1>9, <1>10, <1>11 DEF Sound

-----------------------------------------------------------------------------
(***************************************************************************)
(* The machine faults only once the heap has reached its limit.            *)
(***************************************************************************)

\* The headers of a list that ends at top lie below top.
LEMMA HeadersInside ==
  ASSUME NEW h, NEW hd, NEW top \in Nat, List(h, hd, top)
  PROVE  HeadersBelow(h, top)
<1> SUFFICES ASSUME NEW a \in DOMAIN h PROVE a + Hdr <= top
  BY DEF HeadersBelow
<1>1. a \in Nat /\ h[a].size \in Nat  BY DEF List, Typed, Headers
<1>2. Stop(h, a) <= top  BY DEF List, Ordered
<1> QED  BY <1>1, <1>2, HeapAssumption DEF Stop

\* Moving the end up keeps headers below it.
LEMMA HeadersBelowMore ==
  ASSUME NEW h, DOMAIN h \subseteq Nat, NEW low \in Nat, NEW high \in Nat,
         low <= high, HeadersBelow(h, low)
  PROVE  HeadersBelow(h, high)
BY HeapAssumption DEF HeadersBelow

\* A fault when a block is taken: the heap is at its limit.
LEMMA FitFaultSound ==
  ASSUME Sound, NEW n \in Sizes, fit_faults(n)
  PROVE  Sound'
<1> USE HeapAssumption
<1> DEFINE size == align_up(n, Align)
<1>1. n \in Nat /\ size \in Nat  BY AlignUp
<1>2. PICK b \in Blocks : FirstFit(b, size) /\ ~HeadersBelow(Taken(b, size), mapped_end)
  BY DEF fit_faults
<1>3. fault' = TRUE /\ UNCHANGED <<head, current, mapped_end, block, live>>
  BY DEF fit_faults
<1> HIDE DEF size
<1> DEFINE h == [block EXCEPT ![b].free = FALSE]
           g == split_block(h, b, size)
<1>4. /\ current \in Nat /\ mapped_end \in Nat /\ List(block, head, current)
      /\ b \in DOMAIN block /\ block[b].size >= size
  BY <1>2 DEF Sound, FirstFit, Fits, Blocks
<1>5. /\ List(h, head, current) /\ DOMAIN h = DOMAIN block /\ ~h[b].free
      /\ h[b].size = block[b].size
  BY <1>4, MarkList
<1>6. ~HeadersBelow(g, mapped_end)  BY <1>2 DEF Taken
<1> HIDE DEF h
<1>7. List(g, head, current)
  BY <1>1, <1>4, <1>5, SplitList
<1> HIDE DEF g
<1>8. HeadersBelow(g, current) /\ DOMAIN g \subseteq Nat
  BY <1>4, <1>7, HeadersInside DEF List, Typed
<1>9. ~(current <= mapped_end)  BY <1>4, <1>6, <1>8, HeadersBelowMore
<1>10. BlocksMapped'  BY <1>3, <1>9 DEF BlocksMapped, Sound
<1> QED  BY <1>3, <1>10 DEF Sound, Held, NothingLeaks, Blocks

\* A fault when the heap grows: what was mapped was cut off at the limit.
LEMMA ExpandFaultSound ==
  ASSUME Sound, NEW n \in Sizes, expand_faults(n)
  PROVE  Sound'
<1> USE HeapAssumption
<1> DEFINE size   == align_up(n, Align)
           expand == Expansion(size)
           h      == Appended(expand)
           g      == split_block(h, current, size)
           hd     == IF head = NULL THEN current ELSE head
<1>1. n \in Nat /\ size \in Nat  BY AlignUp
<1>2. /\ heap_map_more(expand) /\ ~HeadersBelow(g, mapped_end')
      /\ fault' = TRUE /\ UNCHANGED <<head, current, block, live>>
  BY DEF expand_faults, Grown
<1> HIDE DEF size
<1>3. expand \in Nat /\ expand >= size + Hdr /\ expand >= Hdr /\ current \in Nat
  BY <1>1, ExpansionFits DEF Sound
<1> HIDE DEF expand
<1>4. /\ List(h, hd, current + expand) /\ DOMAIN h = Blocks \cup {current}
      /\ h[current] = Header(expand - Hdr, FALSE, NULL, h[current].prev)
  BY <1>3, AppendList DEF Sound
<1> HIDE DEF h
<1>5. PICK top \in Nat : top = current + expand  BY <1>3
<1>6. /\ current \in DOMAIN h /\ h[current].size >= size /\ List(h, hd, top)
      /\ h[current].free = FALSE
  BY <1>3, <1>4, <1>5, <1>1 DEF Header
<1>7. List(g, hd, top)
  <2> HIDE DEF hd
  <2> QED  BY <1>1, <1>5, <1>6, SplitList
<1> HIDE DEF g, hd
<1>8. HeadersBelow(g, top) /\ DOMAIN g \subseteq Nat
  BY <1>5, <1>7, HeadersInside DEF List, Typed
<1>9. mapped_end' \in Nat /\ mapped_end' <= Limit
  BY <1>2, <1>3 DEF heap_map_more, Target, Sound
<1>10. ~(top <= mapped_end')
  <2>1. PICK end \in Nat : end = mapped_end'  BY <1>9
  <2> QED  BY <1>2, <1>5, <1>8, <2>1, HeadersBelowMore
<1>11. mapped_end' < Limit => current + expand <= mapped_end'
  BY <1>2, <1>3 DEF heap_map_more, Target, BlocksMapped, Sound
<1>12. BlocksMapped'  BY <1>5, <1>10, <1>11 DEF BlocksMapped
<1> QED  BY <1>2, <1>9, <1>12 DEF Sound, Held, NothingLeaks, Blocks

LEMMA NextSound == Sound /\ [Next]_vars => Sound'
<1> SUFFICES ASSUME Sound, [Next]_vars PROVE Sound'
  OBVIOUS
<1>1. ASSUME NEW n \in Sizes, kmalloc_fit(n) PROVE Sound'
  BY <1>1, FitSound
<1>2. ASSUME NEW n \in Sizes, kmalloc_expand(n) PROVE Sound'
  BY <1>2, ExpandSound
<1>3. ASSUME NEW n \in Sizes, kmalloc_fails(n) PROVE Sound'
  <2>1. UNCHANGED <<head, current, block, live, fault>> /\ mapped_end' \in Nat
        /\ mapped_end' >= mapped_end /\ mapped_end' <= Limit
    <3> DEFINE e == Expansion(align_up(n, Align))
    <3>1. mapped_end' \in mapped_end .. Target(e) - 1  BY <1>3 DEF kmalloc_fails, heap_map_more_fails
    <3>2. n \in Nat /\ Align \in Nat \ {0}  BY HeapAssumption
    <3>3. align_up(n, Align) \in Nat  BY <3>2, AlignUp
    <3>4. e \in Nat  BY <3>3, ExpansionFits
    <3> HIDE DEF e
    <3>5. Target(e) \in Nat /\ Target(e) <= Limit /\ mapped_end \in Nat
      BY <3>4, HeapAssumption DEF Target, Sound
    <3>6. UNCHANGED <<head, current, block, live, fault>>  BY <1>3 DEF kmalloc_fails
    <3> QED  BY <3>1, <3>5, <3>6, HeapAssumption
  <2> QED  BY <2>1, HeapAssumption DEF Sound, Held, NothingLeaks, BlocksMapped, Blocks
<1>4. ASSUME NEW p \in DOMAIN live, kfree(p) PROVE Sound'
  BY <1>4, FreeSound
<1>5. CASE UNCHANGED vars
  BY <1>5 DEF vars, Sound, Held, NothingLeaks, BlocksMapped, Blocks
<1>6. ASSUME NEW n \in Sizes, fit_faults(n) PROVE Sound'
  BY <1>6, FitFaultSound
<1>7. ASSUME NEW n \in Sizes, expand_faults(n) PROVE Sound'
  BY <1>7, ExpandFaultSound
<1> QED  BY <1>1, <1>2, <1>3, <1>4, <1>5, <1>6, <1>7 DEF Next

\* Every reachable heap is sound (heap.c as a whole).
THEOREM HeapSound == Spec => []Sound
<1> QED  BY InitSound, NextSound, PTL DEF Spec

-----------------------------------------------------------------------------
\* The variables have their types.
THEOREM TypeCorrect == Spec => []TypeOK
<1>1. Sound => TypeOK
  BY DEF Sound, List, Typed, Held, TypeOK, Blocks
<1> QED  BY <1>1, HeapSound, PTL

\* The list tiles the heap, with links that agree (split_block, coalesce and
\* the append in kmalloc).
THEOREM TheListTilesTheHeap == Spec => []ListTilesHeap
<1>1. Sound => ListTilesHeap
  BY DEF Sound, List, Linked, ListTilesHeap, Blocks, EndOf, Stop
<1> QED  BY <1>1, HeapSound, PTL

\* No allocation reaches into another block (kmalloc, kfree).
THEOREM AllocationsAreDisjoint == Spec => []AllocationsDisjoint
<1>1. Sound => AllocationsDisjoint
  <2> SUFFICES ASSUME Sound, NEW p \in DOMAIN live
               PROVE  /\ p - Hdr \in Blocks /\ ~block[p - Hdr].free
                      /\ \A b \in Blocks : b > p - Hdr => p + live[p] <= b
                      /\ p + live[p] <= current
    BY DEF AllocationsDisjoint
  <2>1. /\ p - Hdr \in Blocks /\ ~block[p - Hdr].free
        /\ live[p] <= block[p - Hdr].size /\ p \in Nat /\ live[p] \in Nat
    BY DEF Sound, Held
  <2>2. Blocks \subseteq Nat /\ block[p - Hdr].size \in Nat
    BY <2>1 DEF Sound, List, Typed, Headers, Blocks
  <2>3. Stop(block, p - Hdr) = p + block[p - Hdr].size
    BY <2>1, <2>2, HeapAssumption DEF Stop
  <2>4. /\ \A b \in Blocks : p - Hdr < b => Stop(block, p - Hdr) <= b
        /\ Stop(block, p - Hdr) <= current /\ current \in Nat
    BY <2>1 DEF Sound, List, Ordered, Blocks
  <2> HIDE DEF Sound
  <2> QED  BY <2>1, <2>2, <2>3, <2>4, HeapAssumption
<1> QED  BY <1>1, HeapSound, PTL

\* Freed memory is merged and reusable, memory in use is somebody's (kmalloc,
\* kfree, coalesce).
THEOREM FreedMemoryIsReusable == Spec => []FreedIsReusable
<1>1. Sound => FreedIsReusable
  BY DEF Sound, Merged, FreedIsReusable, FreeBlocksMerged, Blocks
<1> QED  BY <1>1, HeapSound, PTL

\* Until the heap has reached its limit there are pages under every block and
\* no header is written without one, also after attempts to map more that
\* failed (heap_map_more, kmalloc).
THEOREM BlocksAreMapped == Spec => []BlocksMapped
<1>1. Sound => BlocksMapped  BY DEF Sound
<1> QED  BY <1>1, HeapSound, PTL
=============================================================================
