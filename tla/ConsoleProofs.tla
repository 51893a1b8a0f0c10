--------------------------- MODULE ConsoleProofs ---------------------------
(***************************************************************************)
(* The two halves of the console.                                          *)
(*                                                                         *)
(* Output.  The cursor never leaves the screen, for a screen of any size,  *)
(* and what the screen shows below the rows that have scrolled off is what *)
(* an endless paper would hold.  The character memory is addressed by one  *)
(* index, so writing a cell is writing one row only because an index       *)
(* splits into a row and a column in one way.  A scroll moves the first    *)
(* row to above and every other row up by one: together they are what they *)
(* were, with a blank row at the end.                                      *)
(*                                                                         *)
(* Input.  The keyboard driver is a queue of the keys typed.  The codes    *)
(* not yet decoded mean, to a driver in the state it is in now, the keys   *)
(* they were sent for: that is kept by a stroke, which adds codes at the   *)
(* end, and by a poll, which reads the first.                              *)
(***************************************************************************)
EXTENDS Console, Keyboard, Induction, SequenceTheorems, TLAPS

LEMMA IndexInside ==
  ASSUME NEW x \in 0 .. Width - 1, NEW y \in 0 .. Height - 1
  PROVE  Index(x, y) \in Cells
<1>1. Width \in Nat /\ Height \in Nat  BY ConsoleAssumption
<1>2. y * Width \in Nat /\ y * Width <= (Height - 1) * Width  BY <1>1
<1>3. (Height - 1) * Width + Width = Width * Height  BY <1>1
<1>4. Width * Height \in Nat /\ (Height - 1) * Width \in Int  BY <1>1
<1> QED  BY <1>1, <1>2, <1>3, <1>4 DEF Index, Cells

\* The next tabulator stop is a column, on the screen or just past its edge.
LEMMA StopIsColumn ==
  ASSUME NEW x \in Nat
  PROVE  ((x + TabStop) \div TabStop) * TabStop \in Nat
<1>1. TabStop \in Nat /\ TabStop > 0  BY ConsoleAssumption
<1>2. (x + TabStop) \div TabStop \in Nat  BY <1>1
<1> QED  BY <1>1, <1>2

\* Settle brings any place one step past the edges back to the screen.
LEMMA SettleStays ==
  ASSUME NEW m \in [Cells -> Glyphs \cup {Blank}],
         NEW x \in Nat, NEW y \in 0 .. Height,
         x >= Width => y < Height,
         Settle(m, x, y)
  PROVE  TypeOK'
<1>1. Width \in Nat \ {0} /\ Height \in Nat \ {0}  BY ConsoleAssumption
<1>2. cursor_x' \in 0 .. Width - 1 /\ cursor_y' \in 0 .. Height - 1
  BY <1>1 DEF Settle
<1>3. mem' \in [Cells -> Glyphs \cup {Blank}]
  <2>1. vga_scroll(m) \in [Cells -> Glyphs \cup {Blank}]  BY DEF vga_scroll
  <2> QED  BY <2>1 DEF Settle
<1> QED  BY <1>2, <1>3 DEF TypeOK

LEMMA PutcharStays == TypeOK /\ [vga_putchar]_vars => TypeOK'
<1> SUFFICES ASSUME TypeOK, [vga_putchar]_vars PROVE TypeOK'  OBVIOUS
<1>0. Width \in Nat \ {0} /\ Height \in Nat \ {0}  BY ConsoleAssumption
<1>1. ASSUME NEW g \in Glyphs, putchar_glyph(g) PROVE TypeOK'
  <2> DEFINE m == [mem EXCEPT ![Index(cursor_x, cursor_y)] = g]
  <2>1. m \in [Cells -> Glyphs \cup {Blank}]  BY DEF TypeOK
  <2>2. Settle(m, cursor_x + 1, cursor_y)  BY <1>1 DEF putchar_glyph
  <2>3. cursor_x + 1 \in Nat /\ cursor_y \in 0 .. Height /\ cursor_y < Height
    BY <1>0 DEF TypeOK
  <2> QED  BY <2>1, <2>2, <2>3, SettleStays
<1>2. CASE putchar_newline
  <2>1. Settle(mem, 0, cursor_y + 1) /\ cursor_y + 1 \in 0 .. Height /\ ~(0 >= Width)
    BY <1>0, <1>2 DEF putchar_newline, TypeOK
  <2> QED  BY <2>1, SettleStays DEF TypeOK
<1>3. CASE putchar_return
  <2>1. Settle(mem, 0, cursor_y) /\ cursor_y \in 0 .. Height /\ cursor_y < Height
    BY <1>0, <1>3 DEF putchar_return, TypeOK
  <2> QED  BY <2>1, SettleStays DEF TypeOK
<1>4. CASE putchar_tab
  <2> DEFINE stop == ((cursor_x + TabStop) \div TabStop) * TabStop
  <2>1. stop \in Nat  BY StopIsColumn, <1>0 DEF TypeOK
  <2>2. Settle(mem, stop, cursor_y)  BY <1>4 DEF putchar_tab
  <2>3. cursor_y \in 0 .. Height /\ cursor_y < Height  BY <1>0 DEF TypeOK
  <2> HIDE DEF stop
  <2> QED  BY <2>1, <2>2, <2>3, SettleStays DEF TypeOK
<1>5. CASE putchar_backspace
  <2>1. cursor_x' \in 0 .. Width - 1 /\ cursor_y' \in 0 .. Height - 1
    BY <1>0, <1>5 DEF putchar_backspace, TypeOK
  <2>2. mem' \in [Cells -> Glyphs \cup {Blank}]
    BY <1>5 DEF putchar_backspace, TypeOK
  <2> QED  BY <2>1, <2>2 DEF TypeOK
<1>6. CASE UNCHANGED vars  BY <1>6 DEF vars, TypeOK
<1> QED  BY <1>1, <1>2, <1>3, <1>4, <1>5, <1>6 DEF vga_putchar

\* Whatever is printed, the cursor stays on the screen and every write of
\* vga_putchar is inside the character memory, also when wrapping and
\* scrolling meet at the lower right corner.
THEOREM CursorOnScreen == Spec => [](TypeOK /\ Index(cursor_x, cursor_y) \in Cells)
<1>1. Init => TypeOK  BY ConsoleAssumption DEF Init, TypeOK
<1>2. TypeOK => Index(cursor_x, cursor_y) \in Cells  BY IndexInside DEF TypeOK
<1> QED  BY <1>1, <1>2, PutcharStays, PTL DEF Spec

-----------------------------------------------------------------------------
(***************************************************************************)
(* Rows of the character memory.                                           *)
(***************************************************************************)
RowSet    == [0 .. Width - 1 -> Glyphs \cup {Blank}]
Screen(m) == [y \in 1 .. Height |-> Row(m, y - 1)]

\* The rows above the screen are rows.
ConsoleInv == TypeOK /\ above \in Seq(RowSet)

\* An index stands for one cell.
LEMMA IndexSplits ==
  ASSUME NEW x \in 0 .. Width - 1, NEW u \in 0 .. Width - 1,
         NEW y \in Nat, NEW v \in Nat, Index(x, y) = Index(u, v)
  PROVE  x = u /\ y = v
<1>1. Width \in Nat \ {0}  BY ConsoleAssumption
<1>2. y * Width \in Int /\ v * Width \in Int /\ y * Width + x = v * Width + u
  BY <1>1 DEF Index
<1>3. ~(y < v)
  <2>1. y < v => (y + 1) * Width <= v * Width  BY <1>1
  <2>2. (y + 1) * Width = y * Width + Width  BY <1>1
  <2> QED  BY <1>1, <1>2, <2>1, <2>2
<1>4. ~(v < y)
  <2>1. v < y => (v + 1) * Width <= y * Width  BY <1>1
  <2>2. (v + 1) * Width = v * Width + Width  BY <1>1
  <2> QED  BY <1>1, <1>2, <2>1, <2>2
<1>5. y = v  BY <1>3, <1>4
<1> QED  BY <1>2, <1>5

LEMMA RowType ==
  ASSUME NEW m \in [Cells -> Glyphs \cup {Blank}], NEW y \in 0 .. Height - 1
  PROVE  Row(m, y) \in RowSet
  BY IndexInside DEF Row, RowSet

LEMMA ScreenType ==
  ASSUME NEW m \in [Cells -> Glyphs \cup {Blank}]
  PROVE  /\ Screen(m) \in Seq(RowSet) /\ Len(Screen(m)) = Height
         /\ \A y \in 1 .. Height : Screen(m)[y] = Row(m, y - 1)
<1>1. Height \in Nat /\ \A y \in 1 .. Height : y - 1 \in 0 .. Height - 1  BY ConsoleAssumption
<1>2. \A y \in 1 .. Height : Row(m, y - 1) \in RowSet  BY <1>1, RowType
<1>3. Screen(m) \in [1 .. Height -> RowSet]  BY <1>2 DEF Screen
<1>4. Screen(m) \in Seq(RowSet)  BY <1>1, <1>3, SeqDef
<1>5. Len(Screen(m)) = Height  BY <1>1, <1>3, <1>4, LenProperties
<1> QED  BY <1>4, <1>5 DEF Screen

Written(f, i, g) == [f EXCEPT ![i] = g]

\* A write changes one cell of one row.
LEMMA RowWritten ==
  ASSUME NEW m \in [Cells -> Glyphs \cup {Blank}], NEW g,
         NEW x \in 0 .. Width - 1, NEW y \in 0 .. Height - 1, NEW r \in 0 .. Height - 1,
         NEW n, n = Written(m, Index(x, y), g)
  PROVE  Row(n, r) = IF r = y THEN Written(Row(m, r), x, g) ELSE Row(m, r)
<1>1. ASSUME NEW u \in 0 .. Width - 1
      PROVE  n[Index(u, r)] = IF r = y /\ u = x THEN g ELSE m[Index(u, r)]
  <2>1. Index(u, r) \in Cells /\ Index(x, y) \in Cells  BY IndexInside
  <2>2. Index(u, r) = Index(x, y) => u = x /\ r = y
    <3>1. r \in Nat /\ y \in Nat  BY ConsoleAssumption
    <3> QED  BY <3>1, IndexSplits
  <2> QED  BY <2>1, <2>2 DEF Written
<1>2. CASE r = y
  <2>1. Row(n, r) = [u \in 0 .. Width - 1 |-> IF u = x THEN g ELSE m[Index(u, r)]]
    BY <1>1, <1>2 DEF Row
  <2>2. Written(Row(m, r), x, g) = [u \in 0 .. Width - 1 |-> IF u = x THEN g ELSE m[Index(u, r)]]
    BY DEF Row, Written
  <2> QED  BY <1>2, <2>1, <2>2
<1>3. CASE r # y
  <2>1. Row(n, r) = [u \in 0 .. Width - 1 |-> m[Index(u, r)]]  BY <1>1, <1>3 DEF Row
  <2> QED  BY <1>3, <2>1 DEF Row
<1> QED  BY <1>2, <1>3

\* A scroll moves the rows up and clears the last one.
LEMMA RowScrolled ==
  ASSUME NEW m \in [Cells -> Glyphs \cup {Blank}], NEW r \in 0 .. Height - 1
  PROVE  Row(vga_scroll(m), r) = IF r < Height - 1 THEN Row(m, r + 1) ELSE Roll!BlankRow
<1>1. Width \in Nat \ {0} /\ Height \in Nat \ {0} /\ r \in Nat  BY ConsoleAssumption
<1>2. ASSUME NEW u \in 0 .. Width - 1
      PROVE  vga_scroll(m)[Index(u, r)] = IF r < Height - 1 THEN m[Index(u, r + 1)] ELSE Blank
  <2>1. Index(u, r) \in Cells  BY IndexInside
  <2>2. Index(u, r) + Width = Index(u, r + 1)
    <3>1. (r + 1) * Width = r * Width + Width /\ r * Width \in Int  BY <1>1
    <3> QED  BY <1>1, <3>1 DEF Index
  <2>3. CASE r < Height - 1
    <3>1. r + 1 \in 0 .. Height - 1  BY <1>1, <2>3
    <3>2. Index(u, r + 1) \in Cells  BY <3>1, IndexInside
    <3> QED  BY <2>1, <2>2, <2>3, <3>2 DEF vga_scroll
  <2>4. CASE ~(r < Height - 1)
    <3>1. r + 1 = Height  BY <1>1, <2>4
    <3>2. Height * Width = Width * Height /\ Height * Width \in Int  BY <1>1
    <3>3. Index(u, r + 1) >= Width * Height /\ Index(u, r + 1) \in Int
      BY <1>1, <3>1, <3>2 DEF Index
    <3>4. Index(u, r + 1) \notin Cells  BY <3>2, <3>3 DEF Cells
    <3> QED  BY <2>1, <2>2, <2>4, <3>4 DEF vga_scroll
  <2> QED  BY <2>3, <2>4
<1>3. CASE r < Height - 1
  <2>1. Row(vga_scroll(m), r) = [u \in 0 .. Width - 1 |-> m[Index(u, r + 1)]]
    BY <1>2, <1>3 DEF Row
  <2> QED  BY <1>3, <2>1 DEF Row
<1>4. CASE ~(r < Height - 1)
  <2>1. Row(vga_scroll(m), r) = [u \in 0 .. Width - 1 |-> Blank]
    BY <1>2, <1>4 DEF Row
  <2> QED  BY <1>4, <2>1 DEF Roll!BlankRow
<1> QED  BY <1>3, <1>4

-----------------------------------------------------------------------------
(***************************************************************************)
(* The whole paper.                                                        *)
(***************************************************************************)
LEMMA PaperRows ==
  ASSUME NEW a \in Seq(RowSet), NEW m \in [Cells -> Glyphs \cup {Blank}]
  PROVE  /\ a \o Screen(m) \in Seq(RowSet) /\ Len(a) \in Nat
         /\ Len(a \o Screen(m)) = Len(a) + Height
         /\ \A i \in 1 .. Len(a) + Height :
              (a \o Screen(m))[i] = IF i <= Len(a) THEN a[i] ELSE Row(m, i - Len(a) - 1)
<1>1. Screen(m) \in Seq(RowSet) /\ Len(Screen(m)) = Height
  BY ScreenType
<1>2. Len(a) \in Nat /\ Height \in Nat  BY LenProperties, ConsoleAssumption
<1> DEFINE s == Screen(m)
<1> HIDE DEF s
<1>3. s \in Seq(RowSet) /\ Len(s) = Height  BY <1>1 DEF s
<1>4. /\ a \o s \in Seq(RowSet)
      /\ Len(a \o s) = Len(a) + Len(s)
      /\ \A i \in 1 .. Len(a) + Len(s) : (a \o s)[i] = IF i <= Len(a) THEN a[i] ELSE s[i - Len(a)]
  BY <1>3, ConcatProperties
<1>5. ASSUME NEW i \in 1 .. Len(a) + Height
      PROVE  (a \o s)[i] = IF i <= Len(a) THEN a[i] ELSE Row(m, i - Len(a) - 1)
  <2>1. CASE i <= Len(a)
    BY <1>3, <1>4, <2>1
  <2>2. CASE ~(i <= Len(a))
    <3>1. i - Len(a) \in 1 .. Height  BY <1>2, <2>2
    <3>2. s[i - Len(a)] = Row(m, i - Len(a) - 1)  BY <3>1, ScreenType DEF s
    <3> QED  BY <1>3, <1>4, <2>2, <3>2
  <2> QED  BY <2>1, <2>2
<1> QED  BY <1>2, <1>3, <1>4, <1>5 DEF s

Inked(p, k, x, g) == [p EXCEPT ![k] = [@ EXCEPT ![x] = g]]

LEMMA PaperWritten ==
  ASSUME NEW a \in Seq(RowSet), NEW m \in [Cells -> Glyphs \cup {Blank}],
         NEW x \in 0 .. Width - 1, NEW y \in 0 .. Height - 1, NEW g \in Glyphs \cup {Blank},
         NEW n, n = Written(m, Index(x, y), g), NEW k, k = Len(a) + y + 1
  PROVE  Inked(a \o Screen(m), k, x, g) = a \o Screen(n)
<1> DEFINE p == a \o Screen(m)
           q == a \o Screen(n)
           r == [p[k] EXCEPT ![x] = g]
<1>1. Height \in Nat /\ y \in Nat /\ Len(a) \in Nat  BY ConsoleAssumption, LenProperties
<1>2. n \in [Cells -> Glyphs \cup {Blank}]  BY DEF Written
<1>3. /\ p \in Seq(RowSet) /\ Len(p) = Len(a) + Height
      /\ \A i \in 1 .. Len(a) + Height : p[i] = IF i <= Len(a) THEN a[i] ELSE Row(m, i - Len(a) - 1)
  BY PaperRows
<1>4. ASSUME NEW i \in 0 .. Height - 1
      PROVE  Row(n, i) = IF i = y THEN Written(Row(m, i), x, g) ELSE Row(m, i)
  BY RowWritten
<1>5. /\ q \in Seq(RowSet) /\ Len(q) = Len(a) + Height
      /\ \A i \in 1 .. Len(a) + Height : q[i] = IF i <= Len(a) THEN a[i] ELSE Row(n, i - Len(a) - 1)
  BY <1>2, PaperRows
<1> HIDE DEF p, q
<1>6. k \in 1 .. Len(p)  BY <1>1, <1>3
<1>7. r \in RowSet
  <2>1. p[k] \in RowSet  BY <1>3, <1>6, ElementOfSeq
  <2> QED  BY <2>1 DEF RowSet
<1>8. k - Len(a) - 1 = y /\ ~(k <= Len(a)) /\ k \in Nat  BY <1>1
<1>9. p[k] = Row(m, y)  BY <1>3, <1>6, <1>8
<1> DEFINE e == [p EXCEPT ![k] = r]
<1>10. e \in Seq(RowSet) /\ Len(e) = Len(p) /\ \A j \in 1 .. Len(p) : e[j] = IF j = k THEN r ELSE p[j]
  BY <1>3, <1>6, <1>7, ExceptSeq
<1>11. ASSUME NEW i \in 1 .. Len(p) PROVE e[i] = q[i]
  <2>1. CASE i = k
    <3>1. q[k] = Row(n, y) /\ y \in 0 .. Height - 1  BY <1>3, <1>5, <1>6, <1>8
    <3>2. q[k] = Written(Row(m, y), x, g)  BY <1>4, <3>1
    <3> QED  BY <1>6, <1>9, <1>10, <2>1, <3>2 DEF Written
  <2>2. CASE i # k /\ i <= Len(a)
    BY <1>3, <1>5, <1>10, <2>2
  <2>3. CASE i # k /\ ~(i <= Len(a))
    <3>1. i - Len(a) - 1 \in 0 .. Height - 1 /\ i - Len(a) - 1 # y  BY <1>1, <1>3, <2>3
    <3>2. q[i] = Row(m, i - Len(a) - 1)  BY <1>3, <1>4, <1>5, <2>3, <3>1
    <3> QED  BY <1>3, <1>10, <2>3, <3>2
  <2> QED  BY <2>1, <2>2, <2>3
<1> HIDE DEF e
<1>12. Len(e) = Len(q) /\ \A i \in 1 .. Len(e) : e[i] = q[i]  BY <1>3, <1>5, <1>10, <1>11
<1>13. e = q  BY <1>5, <1>10, <1>12, SeqEqual
<1> QED  BY <1>13 DEF e, q, p, Inked

LEMMA PaperScrolled ==
  ASSUME NEW a \in Seq(RowSet), NEW m \in [Cells -> Glyphs \cup {Blank}]
  PROVE  Append(a, Row(m, 0)) \o Screen(vga_scroll(m)) = Append(a \o Screen(m), Roll!BlankRow)
<1> DEFINE b == Append(a, Row(m, 0))
           n == vga_scroll(m)
           p == a \o Screen(m)
           q == b \o Screen(n)
           e == Append(p, Roll!BlankRow)
<1>1. Height \in Nat \ {0} /\ Len(a) \in Nat /\ 0 \in 0 .. Height - 1
  BY ConsoleAssumption, LenProperties
<1>2. n \in [Cells -> Glyphs \cup {Blank}]  BY DEF vga_scroll
<1>3. Row(m, 0) \in RowSet  BY <1>1, RowType
<1>4. b \in Seq(RowSet) /\ Len(b) = Len(a) + 1 /\ b[Len(a) + 1] = Row(m, 0) /\ \A i \in 1 .. Len(a) : b[i] = a[i]
  BY <1>3, AppendProperties
<1>5. Roll!BlankRow \in RowSet  BY DEF Roll!BlankRow, RowSet
<1>6. /\ p \in Seq(RowSet) /\ Len(p) = Len(a) + Height
      /\ \A i \in 1 .. Len(a) + Height : p[i] = IF i <= Len(a) THEN a[i] ELSE Row(m, i - Len(a) - 1)
  BY PaperRows
<1>7. \A i \in 0 .. Height - 1 : Row(n, i) = IF i < Height - 1 THEN Row(m, i + 1) ELSE Roll!BlankRow
  BY RowScrolled
<1> HIDE DEF b, n
<1>8. /\ q \in Seq(RowSet) /\ Len(q) = Len(b) + Height
      /\ \A i \in 1 .. Len(b) + Height : q[i] = IF i <= Len(b) THEN b[i] ELSE Row(n, i - Len(b) - 1)
  BY <1>2, <1>4, PaperRows
<1> HIDE DEF p, q
<1>9. e \in Seq(RowSet) /\ Len(e) = Len(p) + 1 /\ e[Len(p) + 1] = Roll!BlankRow /\ \A i \in 1 .. Len(p) : e[i] = p[i]
  BY <1>5, <1>6, AppendProperties
<1> HIDE DEF e
<1>10. Len(e) = Len(q) /\ Len(e) = Len(a) + Height + 1  BY <1>1, <1>4, <1>6, <1>8, <1>9
<1>11. ASSUME NEW i \in 1 .. Len(e) PROVE q[i] = e[i]
  <2>1. CASE i <= Len(a)
    <3>1. i \in 1 .. Len(b) + Height /\ i <= Len(b) /\ i \in 1 .. Len(p) /\ i \in 1 .. Len(a)
      BY <1>1, <1>4, <1>6, <2>1
    <3>2. q[i] = a[i]  BY <1>4, <1>8, <3>1
    <3> QED  BY <1>6, <1>9, <2>1, <3>1, <3>2
  <2>2. CASE i = Len(a) + 1
    <3>1. i \in 1 .. Len(b) + Height /\ i <= Len(b) /\ i \in 1 .. Len(p)
          /\ ~(i <= Len(a)) /\ i - Len(a) - 1 = 0
      BY <1>1, <1>4, <1>6, <2>2
    <3>2. q[i] = Row(m, 0)  BY <1>4, <1>8, <2>2, <3>1
    <3> QED  BY <1>6, <1>9, <3>1, <3>2
  <2>3. CASE ~(i <= Len(a) + 1) /\ i <= Len(p)
    <3>1. i \in 1 .. Len(b) + Height /\ ~(i <= Len(b)) /\ i \in 1 .. Len(p) /\ ~(i <= Len(a))
      BY <1>1, <1>4, <1>6, <2>3
    <3> DEFINE j == i - Len(b) - 1
    <3>2. j \in 0 .. Height - 1 /\ j < Height - 1 /\ j + 1 = i - Len(a) - 1
      BY <1>1, <1>4, <1>6, <2>3
    <3>3. q[i] = Row(n, j)  BY <1>8, <3>1
    <3> HIDE DEF j
    <3>4. q[i] = Row(m, j + 1)  BY <1>7, <3>2, <3>3
    <3> QED  BY <1>6, <1>9, <3>1, <3>2, <3>4
  <2>4. CASE ~(i <= Len(p))
    <3>0. Len(p) = Len(a) + Height /\ Len(b) = Len(a) + 1 /\ i \in 1 .. Len(a) + Height + 1
      BY <1>4, <1>6, <1>10
    <3>1. i = Len(p) + 1 /\ i \in 1 .. Len(b) + Height /\ ~(i <= Len(b))
      BY <1>1, <2>4, <3>0
    <3> DEFINE j == i - Len(b) - 1
    <3>2. j \in 0 .. Height - 1 /\ ~(j < Height - 1)
      BY <1>1, <1>4, <1>6, <3>1
    <3>3. q[i] = Row(n, j)  BY <1>8, <3>1
    <3> HIDE DEF j
    <3>4. q[i] = Roll!BlankRow  BY <1>7, <3>2, <3>3
    <3> QED  BY <1>9, <3>1, <3>4
  <2> QED  BY <1>1, <1>6, <2>1, <2>2, <2>3, <2>4
<1>12. \A i \in 1 .. Len(q) : q[i] = e[i]  BY <1>10, <1>11
<1>13. q = e  BY <1>8, <1>9, <1>10, <1>12, SeqEqual
<1> QED  BY <1>13 DEF q, e, p, b, n

-----------------------------------------------------------------------------
(***************************************************************************)
(* Steps.                                                                  *)
(***************************************************************************)
LEMMA RowsStay ==
  ASSUME ConsoleInv, [vga_putchar]_vars
  PROVE  above' \in Seq(RowSet)
<1>1. ASSUME NEW m \in [Cells -> Glyphs \cup {Blank}], NEW x, NEW y, Settle(m, x, y)
      PROVE  above' \in Seq(RowSet)
  <2>1. 0 \in 0 .. Height - 1  BY ConsoleAssumption
  <2>2. Row(m, 0) \in RowSet  BY <2>1, RowType
  <2>3. above' = above \/ above' = Append(above, Row(m, 0))  BY <1>1 DEF Settle
  <2> QED  BY <2>2, <2>3, AppendProperties DEF ConsoleInv
<1>2. mem \in [Cells -> Glyphs \cup {Blank}]  BY DEF ConsoleInv, TypeOK
<1>3. ASSUME NEW g \in Glyphs, putchar_glyph(g) PROVE above' \in Seq(RowSet)
  <2> DEFINE m == [mem EXCEPT ![Index(cursor_x, cursor_y)] = g]
  <2>1. m \in [Cells -> Glyphs \cup {Blank}]  BY <1>2
  <2>2. Settle(m, cursor_x + 1, cursor_y)  BY <1>3 DEF putchar_glyph
  <2> HIDE DEF m
  <2> QED  BY <1>1, <2>1, <2>2
<1>4. CASE putchar_newline \/ putchar_return \/ putchar_tab
  <2>1. PICK x, y : Settle(mem, x, y)  BY <1>4 DEF putchar_newline, putchar_return, putchar_tab
  <2>2. 0 \in 0 .. Height - 1  BY ConsoleAssumption
  <2>3. Row(mem, 0) \in RowSet  BY <1>2, <2>2, RowType
  <2>4. above' = above \/ above' = Append(above, Row(mem, 0))  BY <2>1 DEF Settle
  <2> QED  BY <2>3, <2>4, AppendProperties DEF ConsoleInv
<1>5. CASE putchar_backspace  BY <1>5 DEF putchar_backspace, ConsoleInv
<1>6. CASE UNCHANGED vars  BY <1>6 DEF vars, ConsoleInv
<1> QED  BY <1>3, <1>4, <1>5, <1>6 DEF vga_putchar

\* The end of vga_putchar moves the pen of the paper.
LEMMA SettleIsGoTo ==
  ASSUME ConsoleInv, NEW m \in [Cells -> Glyphs \cup {Blank}],
         NEW x \in Nat, NEW y \in 0 .. Height, x >= Width => y < Height,
         Settle(m, x, y)
  PROVE  Roll!GoTo(above \o Screen(m), x, Len(above) + y + 1)
<1>1. Width \in Nat \ {0} /\ Height \in Nat \ {0} /\ above \in Seq(RowSet) /\ Len(above) \in Nat
  BY ConsoleAssumption, LenProperties DEF ConsoleInv
<1> DEFINE p == above \o Screen(m)
           line == IF x < Width THEN Len(above) + y + 1 ELSE Len(above) + y + 1 + 1
           sline == IF x >= Width THEN y + 1 ELSE y
<1>2. Len(p) = Len(above) + Height  BY <1>1, PaperRows
<1>3. line = Len(above) + sline + 1 /\ sline \in 0 .. Height  BY <1>1
<1>4. cursor_x' = IF x < Width THEN x ELSE 0  BY <1>1 DEF Settle
<1>5. CASE sline >= Height
  <2>1. mem' = vga_scroll(m) /\ cursor_y' = Height - 1 /\ above' = Append(above, Row(m, 0))
    BY <1>5 DEF Settle
  <2>2. Len(above') = Len(above) + 1
    <3>1. 0 \in 0 .. Height - 1  BY <1>1
    <3>2. Row(m, 0) \in RowSet  BY <3>1, RowType
    <3> QED  BY <1>1, <2>1, <3>2, AppendProperties
  <2>3. Len(above') + cursor_y' + 1 = line /\ line > Len(p)
    <3>1. sline = Height  BY <1>1, <1>3, <1>5
    <3>2. line = Len(above) + Height + 1  BY <1>3, <3>1
    <3> HIDE DEF line, p, sline
    <3> QED  BY <1>1, <1>2, <2>1, <2>2, <3>2
  <2>4. above' \o Screen(mem') = Append(p, Roll!BlankRow)
    BY <1>1, <2>1, PaperScrolled
  <2> HIDE DEF line, p
  <2>5. above' \o Screen(mem') = IF line > Len(p) THEN Append(p, Roll!BlankRow) ELSE p
    BY <2>3, <2>4
  <2> QED  BY <1>4, <2>3, <2>5 DEF Roll!GoTo, Roll!BlankRow, Screen, line, p
<1>6. CASE ~(sline >= Height)
  <2>1. mem' = m /\ cursor_y' = sline /\ above' = above
    BY <1>6 DEF Settle
  <2>2. Len(above') + cursor_y' + 1 = line /\ ~(line > Len(p))
    BY <1>1, <1>2, <1>3, <1>6, <2>1
  <2>3. above' \o Screen(mem') = p
    BY <2>1
  <2> HIDE DEF line, p
  <2>4. above' \o Screen(mem') = IF line > Len(p) THEN Append(p, Roll!BlankRow) ELSE p
    BY <2>2, <2>3
  <2> QED  BY <1>4, <2>2, <2>4 DEF Roll!GoTo, Roll!BlankRow, Screen, line, p
<1> QED  BY <1>5, <1>6

\* (x + 8) & ~7 is the next stop.
LEMMA NextStop ==
  ASSUME NEW x \in Nat, NEW stop, stop = ((x + TabStop) \div TabStop) * TabStop
  PROVE  stop \in x + 1 .. x + TabStop /\ stop % TabStop = 0
<1>1. TabStop \in Nat \ {0}  BY ConsoleAssumption
<1> DEFINE n == x + TabStop
           q == n \div TabStop
           r == n % TabStop
<1>2. q \in Int /\ r \in 0 .. TabStop - 1 /\ n = TabStop * q + r /\ n \in Nat
  BY <1>1
<1>3. stop = q * TabStop  OBVIOUS
<1> HIDE DEF q, r
<1>4. stop = TabStop * q /\ TabStop * q \in Int  BY <1>1, <1>2, <1>3
<1>5. stop = n - r  BY <1>1, <1>2, <1>4
<1>6. stop \in x + 1 .. x + TabStop  BY <1>1, <1>2, <1>5
<1>7. stop % TabStop = 0
  <2> DEFINE d == stop \div TabStop
             e == stop % TabStop
  <2>0. stop \in Int  BY <1>4
  <2>1. d \in Int /\ e \in 0 .. TabStop - 1 /\ stop = TabStop * d + e
    BY <1>1, <2>0
  <2> HIDE DEF d, e
  <2>2. TabStop * d \in Int /\ TabStop * (d + 1) = TabStop * d + TabStop  BY <1>1, <2>1
  <2>3. ~(q > d)
    <3>1. q > d => TabStop * q >= TabStop * (d + 1)  BY <1>1, <1>2, <2>1
    <3> QED  BY <1>1, <1>2, <1>4, <2>1, <2>2, <3>1
  <2>4. ~(q < d)
    <3>1. q < d => TabStop * (q + 1) <= TabStop * d  BY <1>1, <1>2, <2>1
    <3>2. TabStop * (q + 1) = TabStop * q + TabStop  BY <1>1, <1>2
    <3> QED  BY <1>1, <1>2, <1>4, <2>1, <2>2, <3>1, <3>2
  <2>5. q = d  BY <1>2, <2>1, <2>3, <2>4
  <2>6. e = 0  BY <1>4, <2>1, <2>2, <2>5
  <2> QED  BY <2>6 DEF e
<1> QED  BY <1>4, <1>6, <1>7

LEMMA MemoryWritten ==
  ASSUME NEW x \in 0 .. Width - 1, NEW y \in 0 .. Height - 1, NEW g \in Glyphs \cup {Blank},
         mem \in [Cells -> Glyphs \cup {Blank}], above \in Seq(RowSet)
  PROVE  Inked(above \o Screen(mem), Len(above) + y + 1, x, g)
           = above \o Screen(Written(mem, Index(x, y), g))
  BY PaperWritten

LEMMA PutcharRefines == ConsoleInv /\ [vga_putchar]_vars => [Roll!Next]_(Roll!papervars)
<1> SUFFICES ASSUME ConsoleInv, [vga_putchar]_vars PROVE [Roll!Next]_(Roll!papervars)
  OBVIOUS
<1>1. /\ Width \in Nat \ {0} /\ Height \in Nat \ {0} /\ above \in Seq(RowSet) /\ Len(above) \in Nat
      /\ mem \in [Cells -> Glyphs \cup {Blank}]
      /\ cursor_x \in 0 .. Width - 1 /\ cursor_y \in 0 .. Height - 1
  BY ConsoleAssumption, LenProperties DEF ConsoleInv, TypeOK
<1>2. ASSUME NEW g \in Glyphs, putchar_glyph(g) PROVE Roll!Ink(g)
  <2> DEFINE m == [mem EXCEPT ![Index(cursor_x, cursor_y)] = g]
  <2>1. m \in [Cells -> Glyphs \cup {Blank}]  BY <1>1
  <2>2. Settle(m, cursor_x + 1, cursor_y)  BY <1>2 DEF putchar_glyph
  <2>0. m = Written(mem, Index(cursor_x, cursor_y), g)  BY DEF Written
  <2> HIDE DEF m
  <2>3. Inked(above \o Screen(mem), Len(above) + cursor_y + 1, cursor_x, g) = above \o Screen(m)
    <3>1. g \in Glyphs \cup {Blank}  OBVIOUS
    <3> QED  BY <1>1, <2>0, <3>1, MemoryWritten
  <2>4. Roll!Inked(cursor_x, Len(above) + cursor_y + 1, g) = above \o Screen(m)
    BY <2>3 DEF Roll!Inked, Inked, Screen
  <2>5. cursor_x + 1 \in Nat /\ cursor_y \in 0 .. Height /\ cursor_y < Height  BY <1>1
  <2>6. Roll!GoTo(above \o Screen(m), cursor_x + 1, Len(above) + cursor_y + 1)
    BY <2>1, <2>2, <2>5, SettleIsGoTo
  <2> QED  BY <2>4, <2>6 DEF Roll!Ink
<1>3. ASSUME NEW x \in Nat, NEW y \in 0 .. Height, x >= Width => y < Height, Settle(mem, x, y)
      PROVE  Roll!GoTo(above \o [r \in 1 .. Height |-> Row(mem, r - 1)], x, Len(above) + y + 1)
  <2>1. Roll!GoTo(above \o Screen(mem), x, Len(above) + y + 1)  BY <1>1, <1>3, SettleIsGoTo
  <2> QED  BY <2>1 DEF Screen
<1>4. CASE putchar_newline
  <2>1. Settle(mem, 0, cursor_y + 1) /\ cursor_y + 1 \in 0 .. Height /\ ~(0 >= Width)
    BY <1>1, <1>4 DEF putchar_newline
  <2>2. Len(above) + (cursor_y + 1) + 1 = (Len(above) + cursor_y + 1) + 1  BY <1>1
  <2>3. Roll!GoTo(above \o [r \in 1 .. Height |-> Row(mem, r - 1)], 0, Len(above) + (cursor_y + 1) + 1)
    BY <1>3, <2>1
  <2>4. Roll!NewLine  BY <2>2, <2>3 DEF Roll!NewLine
  <2> QED  BY <2>4 DEF Roll!Next
<1>5. CASE putchar_return
  <2>1. Settle(mem, 0, cursor_y) /\ cursor_y \in 0 .. Height /\ ~(0 >= Width)
    BY <1>1, <1>5 DEF putchar_return
  <2>2. Roll!CarriageReturn  BY <1>3, <2>1 DEF Roll!CarriageReturn
  <2> QED  BY <2>2 DEF Roll!Next
<1>6. CASE putchar_tab
  <2>1. PICK stop : stop = ((cursor_x + TabStop) \div TabStop) * TabStop  OBVIOUS
  <2>2. Settle(mem, stop, cursor_y)  BY <1>6, <2>1 DEF putchar_tab
  <2>3. stop \in cursor_x + 1 .. cursor_x + TabStop /\ stop % TabStop = 0
    BY <1>1, <2>1, NextStop
  <2>4. stop \in Nat /\ cursor_y \in 0 .. Height /\ cursor_y < Height
    BY <1>1, <2>3, ConsoleAssumption
  <2>5. Roll!GoTo(above \o [r \in 1 .. Height |-> Row(mem, r - 1)], stop, Len(above) + cursor_y + 1)
    BY <1>3, <2>2, <2>4
  <2>6. Roll!Tab  BY <2>3, <2>5 DEF Roll!Tab
  <2> QED  BY <2>6 DEF Roll!Next
<1>7. CASE putchar_backspace
  <2>1. PICK x, y : x = cursor_x' /\ y = cursor_y'  OBVIOUS
  <2>2. /\ x = IF cursor_x > 0 THEN cursor_x - 1 ELSE Width - 1
        /\ y = IF cursor_x > 0 THEN cursor_y ELSE cursor_y - 1
        /\ ~(cursor_x = 0 /\ cursor_y = 0)
    BY <1>7, <2>1 DEF putchar_backspace
  <2>3. x \in 0 .. Width - 1 /\ y \in 0 .. Height - 1  BY <1>1, <2>2
  <2>4. mem' = [mem EXCEPT ![Index(x, y)] = Blank] /\ above' = above
    BY <1>7, <2>1 DEF putchar_backspace
  <2>5. Inked(above \o Screen(mem), Len(above) + y + 1, x, Blank) = above \o Screen(mem')
    <3>1. mem' = Written(mem, Index(x, y), Blank)  BY <2>4 DEF Written
    <3>2. Blank \in Glyphs \cup {Blank}  OBVIOUS
    <3> QED  BY <1>1, <2>3, <3>1, <3>2, MemoryWritten
  <2>6. Roll!Inked(x, Len(above) + y + 1, Blank) = above' \o Screen(mem')
    BY <2>4, <2>5 DEF Roll!Inked, Inked, Screen
  <2>7. Roll!BackTo(x, Len(above) + y + 1)
    <3>1. Len(above') + cursor_y' + 1 = Len(above) + y + 1  BY <2>1, <2>4
    <3> QED  BY <2>1, <2>6, <3>1 DEF Roll!BackTo, Screen
  <2>8. CASE cursor_x > 0
    BY <2>2, <2>7, <2>8 DEF Roll!Back, Roll!Next
  <2>9. CASE ~(cursor_x > 0)
    <3>1. x = Width - 1 /\ Len(above) + y + 1 = (Len(above) + cursor_y + 1) - 1
          /\ Len(above) + cursor_y + 1 > 1
      BY <1>1, <2>2, <2>9
    <3>2. Roll!BackTo(Width - 1, (Len(above) + cursor_y + 1) - 1)  BY <2>7, <3>1
    <3>3. Roll!Back  BY <2>9, <3>1, <3>2 DEF Roll!Back
    <3> QED  BY <3>3 DEF Roll!Next
  <2> QED  BY <2>8, <2>9
<1>8. CASE UNCHANGED vars
  BY <1>8 DEF vars, Roll!papervars, Row
<1> QED  BY <1>2, <1>4, <1>5, <1>6, <1>7, <1>8 DEF vga_putchar, Roll!Next

LEMMA InitRefines == Init => ConsoleInv /\ Roll!Init
<1> SUFFICES ASSUME Init PROVE ConsoleInv /\ Roll!Init
  OBVIOUS
<1>1. Height \in Nat /\ TypeOK /\ above = <<>> /\ <<>> \in Seq(RowSet) /\ Len(<<>>) = 0
  BY ConsoleAssumption, EmptySeq DEF Init, TypeOK
<1>2. mem \in [Cells -> Glyphs \cup {Blank}]  BY <1>1 DEF TypeOK
<1>3. \A y \in 0 .. Height - 1 : Row(mem, y) = Roll!BlankRow
  BY IndexInside DEF Init, Row, Roll!BlankRow
<1>4. \A y \in 1 .. Height : y - 1 \in 0 .. Height - 1  BY <1>1
<1>5. Screen(mem) = [y \in 1 .. Height |-> Roll!BlankRow]  BY <1>3, <1>4 DEF Screen
<1>6. <<>> \o Screen(mem) = Screen(mem)  BY <1>2, ScreenType, ConcatEmptySeq
<1>7. above \o [y \in 1 .. Height |-> Row(mem, y - 1)] = [y \in 1 .. Height |-> Roll!BlankRow]
  BY <1>1, <1>5, <1>6 DEF Screen
<1>8. Len(above) + cursor_y + 1 = 1 /\ cursor_x = 0  BY <1>1 DEF Init
<1> QED  BY <1>1, <1>7, <1>8 DEF ConsoleInv, Roll!Init, Roll!BlankRow

\* Nothing printed is lost, doubled or put anywhere but at the cursor: what
\* is on the screen, below what has scrolled off, is an endless paper
\* (vga_putchar, vga_scroll).
THEOREM ConsoleShowsPaper == Spec => ShowsPaper
<1>1. ConsoleInv /\ [vga_putchar]_vars => ConsoleInv'
  <2> SUFFICES ASSUME ConsoleInv, [vga_putchar]_vars PROVE ConsoleInv'
    OBVIOUS
  <2>1. TypeOK'  BY PutcharStays DEF ConsoleInv
  <2> QED  BY <2>1, RowsStay DEF ConsoleInv
<1> QED  BY <1>1, InitRefines, PutcharRefines, PTL DEF Spec, ShowsPaper, Roll!Spec

-----------------------------------------------------------------------------
(***************************************************************************)
(* The keyboard: the keys of a sequence of codes.                          *)
(***************************************************************************)
CodeSet == [code : Codes, key : KeySet \cup {NoKey}]

(***************************************************************************)
(* KeysOf is defined by recursion over the codes.  Counts says that f is   *)
(* the function it goes by.                                                *)
(***************************************************************************)
Counts(f, q) ==
  /\ f[0] = <<>>
  /\ \A n \in 1 .. Len(q) :
       f[n] = IF q[n].key = NoKey THEN f[n - 1] ELSE Append(f[n - 1], q[n].key)

\* It depends on the codes only.
LEMMA CountsAgree ==
  ASSUME NEW q, NEW r, NEW f, NEW g, Counts(f, q), Counts(g, r), Len(q) \in Nat, Len(r) \in Nat,
         NEW m \in Nat, m <= Len(q), m <= Len(r), \A n \in 1 .. m : q[n] = r[n]
  PROVE  f[m] = g[m]
<1> DEFINE S == {k \in Nat : k <= m => f[k] = g[k]}
<1>1. 0 \in S
  BY DEF Counts
<1>2. \A k \in Nat : k \in S => k + 1 \in S
  <2> SUFFICES ASSUME NEW k \in Nat, k \in S, k + 1 <= m PROVE f[k + 1] = g[k + 1]
    OBVIOUS
  <2>1. PICK n \in Nat : n = k + 1 /\ n - 1 = k /\ n \in 1 .. m /\ n \in 1 .. Len(q) /\ n \in 1 .. Len(r)
    OBVIOUS
  <2>2. f[k] = g[k] /\ q[n] = r[n]
    BY <2>1
  <2>3. f[n] = IF q[n].key = NoKey THEN f[n - 1] ELSE Append(f[n - 1], q[n].key)
    BY <2>1, Zenon DEF Counts
  <2>4. g[n] = IF r[n].key = NoKey THEN g[n - 1] ELSE Append(g[n - 1], r[n].key)
    BY <2>1, Zenon DEF Counts
  <2>5. f[n] = g[n]
    BY <2>1, <2>2, <2>3, <2>4, Zenon
  <2> QED
    BY <2>1, <2>5, Zenon
<1> HIDE DEF S
<1>3. m \in S
  BY <1>1, <1>2, SetInduction, Zenon
<1> QED
  BY <1>3 DEF S

LEMMA KeysOfCounts ==
  ASSUME NEW q \in Seq(CodeSet)
  PROVE  \E f \in [0 .. Len(q) -> Seq(KeySet)] : Counts(f, q) /\ KeysOf(q) = f[Len(q)]
<1> DEFINE X == Seq(KeySet)
           Turn(n, s) == IF n + 1 \in 1 .. Len(q)
                           THEN IF q[n + 1].key = NoKey THEN s ELSE Append(s, q[n + 1].key)
                           ELSE s
           F == [n \in Nat |-> [s \in X |-> Turn(n, s)]]
<1>1. Len(q) \in Nat /\ \A n \in 1 .. Len(q) : q[n] \in CodeSet
  BY LenProperties, ElementOfSeq
<1>2. \A n \in Nat, s \in X : Turn(n, s) \in X
  <2> SUFFICES ASSUME NEW n \in Nat, NEW s \in X, n + 1 \in 1 .. Len(q), q[n + 1].key # NoKey
               PROVE  Append(s, q[n + 1].key) \in X
    OBVIOUS
  <2>1. q[n + 1].key \in KeySet
    BY <1>1 DEF CodeSet
  <2> QED
    BY <2>1, AppendProperties
<1>3. F \in [Nat -> [X -> X]]
  BY <1>2
<1>4. <<>> \in X
  BY EmptySeq
<1>5. \A n \in Nat, s \in X : F[n][s] = Turn(n, s)
  OBVIOUS
<1> HIDE DEF F, X
<1>6. PICK g \in [Nat -> X] : g[0] = <<>> /\ \A n \in Nat : g[n + 1] = F[n][g[n]]
  <2>1. PICK x \in X : x = <<>>
    BY <1>4
  <2>2. \E g : Iterates(g, x, F, X)
    BY <1>3, Recursion, Zenon
  <2> QED
    BY <2>1, <2>2 DEF Iterates
<1> DEFINE f == [n \in 0 .. Len(q) |-> g[n]]
           Body(h, n) == IF n = 0 THEN <<>>
                         ELSE IF q[n].key = NoKey THEN h[n - 1] ELSE Append(h[n - 1], q[n].key)
<1>7. f \in [0 .. Len(q) -> X] /\ f[0] = <<>>
  BY <1>1, <1>6
<1>8. \A n \in 1 .. Len(q) : f[n] = IF q[n].key = NoKey THEN f[n - 1] ELSE Append(f[n - 1], q[n].key)
  <2> SUFFICES ASSUME NEW n \in 1 .. Len(q)
               PROVE  f[n] = IF q[n].key = NoKey THEN f[n - 1] ELSE Append(f[n - 1], q[n].key)
    OBVIOUS
  <2>1. PICK m \in Nat : m = n - 1 /\ m + 1 = n /\ m \in 0 .. Len(q)
    BY <1>1
  <2>2. f[n] = g[n] /\ f[n - 1] = g[m]
    BY <1>1, <2>1
  <2>3. g[m] \in X /\ g[n] = F[m][g[m]]
    BY <1>6, <2>1
  <2>4. F[m][g[m]] = Turn(m, g[m])
    BY <1>5, <2>3
  <2>5. Turn(m, g[m]) = IF q[n].key = NoKey THEN g[m] ELSE Append(g[m], q[n].key)
    BY <2>1
  <2> QED
    BY <2>2, <2>3, <2>4, <2>5
<1> HIDE DEF f
<1>9. f = [n \in 0 .. Len(q) |-> Body(f, n)]
  <2>1. \A n \in 1 .. Len(q) : f[n] = Body(f, n)
    BY <1>1, <1>8
  <2>2. f[0] = Body(f, 0)
    BY <1>7
  <2>3. \A n \in 0 .. Len(q) : n = 0 \/ n \in 1 .. Len(q)
    BY <1>1
  <2>4. \A n \in 0 .. Len(q) : f[n] = Body(f, n)
    BY <2>1, <2>2, <2>3, Zenon
  <2> QED
    BY <1>7, <2>4
<1> DEFINE keys == CHOOSE h : h = [n \in 0 .. Len(q) |-> Body(h, n)]
<1>10. keys = [n \in 0 .. Len(q) |-> Body(keys, n)]
  BY <1>9, Zenon
<1>11. KeysOf(q) = keys[Len(q)]
  BY DEF KeysOf
<1> HIDE DEF keys
<1>12. Counts(keys, q)
  <2>1. \A n \in 0 .. Len(q) : keys[n] = Body(keys, n)
    BY <1>10
  <2>2. 0 \in 0 .. Len(q) /\ \A n \in 1 .. Len(q) : n \in 0 .. Len(q) /\ n # 0
    BY <1>1
  <2>3. keys[0] = Body(keys, 0) /\ \A n \in 1 .. Len(q) : n # 0 /\ keys[n] = Body(keys, n)
    BY <2>1, <2>2, Zenon
  <2> QED
    BY <2>3 DEF Counts
<1>13. Counts(f, q)
  BY <1>7, <1>8 DEF Counts
<1>14. f[Len(q)] = keys[Len(q)]
  BY <1>1, <1>12, <1>13, CountsAgree
<1> QED
  BY <1>7, <1>11, <1>13, <1>14 DEF X

LEMMA KeysOfNone == KeysOf(<<>>) = <<>>
<1>1. <<>> \in Seq(CodeSet) /\ Len(<<>>) = 0
  BY EmptySeq
<1>2. PICK f : Counts(f, <<>>) /\ KeysOf(<<>>) = f[Len(<<>>)]
  BY <1>1, KeysOfCounts
<1> QED
  BY <1>1, <1>2 DEF Counts

\* A code at the end brings its key, if it completes one.
LEMMA KeysOfAppend ==
  ASSUME NEW q \in Seq(CodeSet), NEW c \in CodeSet
  PROVE  /\ KeysOf(q) \in Seq(KeySet)
         /\ KeysOf(Append(q, c)) = IF c.key = NoKey THEN KeysOf(q) ELSE Append(KeysOf(q), c.key)
<1>1. PICK r : r = Append(q, c)
  OBVIOUS
<1>2. /\ r \in Seq(CodeSet) /\ Len(r) = Len(q) + 1 /\ Len(q) \in Nat
      /\ r[Len(q) + 1] = c /\ \A n \in 1 .. Len(q) : r[n] = q[n]
  BY <1>1, AppendProperties, LenProperties
<1>3. PICK f \in [0 .. Len(q) -> Seq(KeySet)] : Counts(f, q) /\ KeysOf(q) = f[Len(q)]
  BY KeysOfCounts
<1>4. PICK g \in [0 .. Len(r) -> Seq(KeySet)] : Counts(g, r) /\ KeysOf(r) = g[Len(r)]
  BY <1>2, KeysOfCounts
<1>5. f[Len(q)] = g[Len(q)]
  <2>1. Len(r) \in Nat /\ Len(q) <= Len(q) /\ Len(q) <= Len(r)
    BY <1>2
  <2>2. \A n \in 1 .. Len(q) : q[n] = r[n]
    BY <1>2
  <2>3. PICK m \in Nat : m = Len(q)
    BY <1>2
  <2>4. m <= Len(q) /\ m <= Len(r) /\ \A n \in 1 .. m : q[n] = r[n]
    BY <2>1, <2>2, <2>3
  <2>5. Counts(f, q) /\ Counts(g, r) /\ Len(q) \in Nat /\ Len(r) \in Nat
    BY <1>2, <1>3, <1>4, <2>1
  <2> HIDE <1>2, <1>3, <1>4, <2>1, <2>2
  <2>6. f[m] = g[m]
    BY <2>4, <2>5, CountsAgree
  <2> QED
    BY <2>3, <2>6
<1>6. PICK n \in 1 .. Len(r) : n = Len(r) /\ n - 1 = Len(q)
  BY <1>2
<1>7. g[n] = IF r[n].key = NoKey THEN g[n - 1] ELSE Append(g[n - 1], r[n].key)
  BY <1>4, Zenon DEF Counts
<1>8. r[n] = c
  BY <1>2, <1>6
<1>9. KeysOf(q) \in Seq(KeySet)
  BY <1>2, <1>3
<1> QED
  BY <1>1, <1>3, <1>4, <1>5, <1>6, <1>7, <1>8, <1>9

LEMMA AppendToConcat ==
  ASSUME NEW T, NEW s \in Seq(T), NEW t \in Seq(T), NEW x \in T
  PROVE  Append(s \o t, x) = s \o Append(t, x)
<1>1. PICK u \in Seq(T) : u = <<x>>
  <2>1. <<x>> \in Seq(T)
    OBVIOUS
  <2> QED
    BY <2>1
<1>2. s \o t \in Seq(T)
  BY ConcatProperties
<1>3. Append(s \o t, x) = (s \o t) \o u /\ Append(t, x) = t \o u
  BY <1>1, <1>2, AppendIsConcat
<1>4. (s \o t) \o u = s \o (t \o u)
  BY ConcatAssociative
<1> QED
  BY <1>3, <1>4

\* The first code brings the first key, if it completes one.
First(c) == IF c.key = NoKey THEN <<>> ELSE <<c.key>>

LEMMA KeysOfTail ==
  ASSUME NEW q \in Seq(CodeSet), q # <<>>
  PROVE  KeysOf(q) = First(Head(q)) \o KeysOf(Tail(q))
<1>1. PICK r, c : r = Tail(q) /\ c = Head(q)
  OBVIOUS
<1>2. /\ r \in Seq(CodeSet) /\ c \in CodeSet /\ Len(r) \in Nat /\ Len(q) = Len(r) + 1
      /\ c = q[1] /\ \A n \in 1 .. Len(r) : r[n] = q[n + 1]
  BY <1>1, HeadTailProperties, LenProperties, ElementOfSeq
<1>3. PICK f \in [0 .. Len(q) -> Seq(KeySet)] : Counts(f, q) /\ KeysOf(q) = f[Len(q)]
  BY KeysOfCounts
<1>4. PICK g \in [0 .. Len(r) -> Seq(KeySet)] : Counts(g, r) /\ KeysOf(r) = g[Len(r)]
  BY <1>2, KeysOfCounts
<1>5. PICK first \in Seq(KeySet) : first = First(c)
  <2>1. CASE c.key = NoKey
    BY <2>1, EmptySeq DEF First
  <2>2. CASE c.key # NoKey
    <3>1. c.key \in KeySet
      BY <1>2, <2>2 DEF CodeSet
    <3>2. <<c.key>> \in Seq(KeySet)
      BY <3>1
    <3> QED
      BY <2>2, <3>2 DEF First
  <2> QED
    BY <2>1, <2>2
<1> DEFINE S == {k \in Nat : k <= Len(r) => f[k + 1] = first \o g[k]}
<1>6. 0 \in S
  <2>1. 1 \in 1 .. Len(q) /\ 1 - 1 = 0
    BY <1>2
  <2>2. f[1] = IF q[1].key = NoKey THEN f[0] ELSE Append(f[0], q[1].key)
    BY <1>3, <2>1 DEF Counts
  <2>3. f[0] = <<>> /\ g[0] = <<>> /\ first \o <<>> = first
    BY <1>3, <1>4, <1>5, ConcatEmptySeq DEF Counts
  <2>4. f[1] = first
    BY <1>2, <1>5, <2>2, <2>3 DEF First
  <2> QED
    BY <2>3, <2>4
<1>7. \A k \in Nat : k \in S => k + 1 \in S
  <2> SUFFICES ASSUME NEW k \in Nat, k \in S PROVE k + 1 \in S
    OBVIOUS
  <2>0. CASE ~(k + 1 <= Len(r))
    BY <2>0
  <2> SUFFICES ASSUME k + 1 <= Len(r) PROVE k + 1 \in S
    BY <2>0
  <2>1. PICK m \in Nat, n \in Nat : m = k + 1 /\ m - 1 = k /\ n = m + 1 /\ n - 1 = m
    OBVIOUS
  <2>2. m \in 1 .. Len(r) /\ n \in 1 .. Len(q) /\ k \in 0 .. Len(r)
    BY <1>2, <2>1
  <2>a. f[m] = first \o g[k]
    BY <1>2, <2>1, <2>2
  <2>b. q[n] = r[m]
    BY <1>2, <2>1, <2>2
  <2>c. r[m] \in CodeSet
    BY <1>2, <2>2, ElementOfSeq
  <2>3. f[m] = first \o g[k] /\ q[n] = r[m] /\ g[k] \in Seq(KeySet) /\ r[m] \in CodeSet
    BY <1>4, <2>2, <2>a, <2>b, <2>c
  <2>4. f[n] = IF q[n].key = NoKey THEN f[n - 1] ELSE Append(f[n - 1], q[n].key)
    BY <1>3, <2>2, Zenon DEF Counts
  <2>5. g[m] = IF r[m].key = NoKey THEN g[m - 1] ELSE Append(g[m - 1], r[m].key)
    BY <1>4, <2>2, Zenon DEF Counts
  <2>6. r[m].key # NoKey => Append(first \o g[k], r[m].key) = first \o Append(g[k], r[m].key)
    <3>1. r[m].key # NoKey => r[m].key \in KeySet
      BY <2>3 DEF CodeSet
    <3> SUFFICES ASSUME r[m].key # NoKey
                 PROVE  Append(first \o g[k], r[m].key) = first \o Append(g[k], r[m].key)
      OBVIOUS
    <3>2. PICK x \in KeySet, t \in Seq(KeySet) : x = r[m].key /\ t = g[k]
      BY <2>3, <3>1
    <3>3. Append(first \o t, x) = first \o Append(t, x)
      BY <3>2, AppendToConcat
    <3> QED
      BY <3>2, <3>3
  <2>7. f[n] = first \o g[m]
    BY <2>1, <2>3, <2>4, <2>5, <2>6
  <2> QED
    BY <2>1, <2>7
<1> HIDE DEF S
<1>8. Len(r) \in S
  BY <1>2, <1>6, <1>7, SetInduction, Zenon
<1>9. f[Len(r) + 1] = first \o g[Len(r)]
  BY <1>2, <1>8 DEF S
<1> QED
  BY <1>1, <1>2, <1>3, <1>4, <1>5, <1>9

-----------------------------------------------------------------------------
(***************************************************************************)
(* The circular buffer.                                                    *)
(***************************************************************************)

\* One subtraction is enough to wrap an index that is at most once around.
LEMMA Wrap ==
  ASSUME NEW a \in 0 .. 2 * BufferSize - 1
  PROVE  a % BufferSize = IF a < BufferSize THEN a ELSE a - BufferSize
<1>1. BufferSize \in Nat /\ BufferSize > 0
  BY KeyboardAssumption
<1> DEFINE q == a \div BufferSize
           r == a % BufferSize
<1>2. q \in Int /\ r \in 0 .. BufferSize - 1 /\ a = BufferSize * q + r
  BY <1>1
<1> HIDE DEF q, r
<1>3. q >= 0
  <2>1. q <= -1 => BufferSize * q <= BufferSize * (-1)
    BY <1>1, <1>2
  <2> QED
    BY <1>1, <1>2, <2>1
<1>4. q <= 1
  <2>1. q >= 2 => BufferSize * q >= BufferSize * 2
    BY <1>1, <1>2
  <2> QED
    BY <1>1, <1>2, <2>1
<1>5. CASE q = 0
  BY <1>1, <1>2, <1>5 DEF r
<1>6. CASE q = 1
  BY <1>1, <1>2, <1>6 DEF r
<1> QED
  BY <1>2, <1>3, <1>4, <1>5, <1>6

\* What the buffer b holds between the indices t and h.
Held(h, t)   == IF h >= t THEN h - t ELSE h - t + BufferSize
At(t, i)     == IF t + i - 1 < BufferSize THEN t + i - 1 ELSE t + i - 1 - BufferSize
Next1(i)     == IF i + 1 < BufferSize THEN i + 1 ELSE 0
Ring(b, h, t) == [i \in 1 .. Held(h, t) |-> b[At(t, i)]]

Span(b, h, t) ==
  [i \in 1 .. (h - t + BufferSize) % BufferSize |-> b[(t + i - 1) % BufferSize]]

LEMMA RingMeans ==
  ASSUME NEW b, NEW h \in Places, NEW t \in Places
  PROVE  /\ Ring(b, h, t) = Span(b, h, t)
         /\ \A i \in Places : Succ(i) = Next1(i) /\ Succ(i) \in Places
<1>1. BufferSize \in Nat /\ BufferSize > 1
  BY KeyboardAssumption
<1>3. h \in 0 .. BufferSize - 1 /\ t \in 0 .. BufferSize - 1
  BY DEF Places
<1>4. (h - t + BufferSize) % BufferSize = Held(h, t) /\ Held(h, t) \in 0 .. BufferSize - 1
  <2>1. h - t + BufferSize \in 0 .. 2 * BufferSize - 1
    BY <1>1, <1>3
  <2>2. (h - t + BufferSize) % BufferSize =
          IF h - t + BufferSize < BufferSize THEN h - t + BufferSize ELSE h - t + BufferSize - BufferSize
    <3>1. PICK a \in 0 .. 2 * BufferSize - 1 : a = h - t + BufferSize
      BY <2>1
    <3>2. a % BufferSize = IF a < BufferSize THEN a ELSE a - BufferSize
      BY <3>1, Wrap
    <3> QED
      BY <1>1, <1>3, <3>1, <3>2
  <2> QED
    BY <1>1, <1>3, <2>2 DEF Held
<1>5. \A i \in 1 .. Held(h, t) : (t + i - 1) % BufferSize = At(t, i)
  <2> SUFFICES ASSUME NEW i \in 1 .. Held(h, t) PROVE (t + i - 1) % BufferSize = At(t, i)
    OBVIOUS
  <2>1. i \in 1 .. BufferSize - 1
    BY <1>1, <1>4
  <2>2. t + i - 1 \in 0 .. 2 * BufferSize - 1
    BY <1>1, <1>3, <2>1
  <2> QED
    <3>1. PICK a \in 0 .. 2 * BufferSize - 1 : a = t + i - 1
      BY <2>2
    <3>2. a % BufferSize = IF a < BufferSize THEN a ELSE a - BufferSize
      BY <3>1, Wrap
    <3> QED
      BY <1>1, <1>3, <2>1, <3>1, <3>2 DEF At
<1>6. Ring(b, h, t) = [i \in 1 .. (h - t + BufferSize) % BufferSize |-> b[(t + i - 1) % BufferSize]]
  BY <1>4, <1>5 DEF Ring
<1>7. ASSUME NEW i \in Places PROVE Succ(i) = Next1(i) /\ Succ(i) \in Places
  <2>1. i \in 0 .. BufferSize - 1 /\ i + 1 \in 0 .. 2 * BufferSize - 1
    BY <1>1 DEF Places
  <2>2. (i + 1) % BufferSize = IF i + 1 < BufferSize THEN i + 1 ELSE i + 1 - BufferSize
    <3>1. PICK a \in 0 .. 2 * BufferSize - 1 : a = i + 1
      BY <2>1
    <3>2. a % BufferSize = IF a < BufferSize THEN a ELSE a - BufferSize
      BY <3>1, Wrap
    <3> QED
      BY <1>1, <2>1, <3>1, <3>2
  <2> QED
    BY <1>1, <2>1, <2>2 DEF Succ, Next1, Places
<1> QED
  BY <1>6, <1>7 DEF Span

LEMMA RingIsBuffered ==
  ASSUME KbdTypeOK
  PROVE  /\ Buffered = Ring(keyboard_buffer, buffer_head, buffer_tail)
         /\ \A i \in Places : Succ(i) = Next1(i) /\ Succ(i) \in Places
<1>1. buffer_head \in Places /\ buffer_tail \in Places
  BY DEF KbdTypeOK
<1> QED
  BY <1>1, RingMeans DEF Buffered, Span

LEMMA HeldBounds ==
  ASSUME NEW h \in Places, NEW t \in Places
  PROVE  /\ Held(h, t) \in 0 .. BufferSize - 1
         /\ Held(h, t) = BufferSize - 1 <=> Next1(h) = t
         /\ Held(h, t) = 0 <=> h = t
         /\ \A i \in 1 .. Held(h, t) : At(t, i) \in Places /\ At(t, i) # h
<1>1. BufferSize \in Nat /\ BufferSize > 1 /\ h \in 0 .. BufferSize - 1 /\ t \in 0 .. BufferSize - 1
  BY KeyboardAssumption DEF Places
<1>2. Held(h, t) \in 0 .. BufferSize - 1
  BY <1>1 DEF Held
<1>3. Held(h, t) = BufferSize - 1 <=> Next1(h) = t
  BY <1>1 DEF Held, Next1
<1>4. Held(h, t) = 0 <=> h = t
  BY <1>1 DEF Held
<1>5. ASSUME NEW i \in 1 .. Held(h, t) PROVE At(t, i) \in Places /\ At(t, i) # h
  BY <1>1, <1>2, <1>5 DEF At, Places, Held
<1> QED
  BY <1>2, <1>3, <1>4, <1>5

LEMMA RingLen ==
  ASSUME NEW b, NEW h \in Places, NEW t \in Places
  PROVE  Len(Ring(b, h, t)) = Held(h, t) /\ DOMAIN Ring(b, h, t) = 1 .. Held(h, t)
<1>1. PICK n \in Nat : n = Held(h, t)
  BY HeldBounds, KeyboardAssumption
<1>2. Ring(b, h, t) = [i \in 1 .. n |-> b[At(t, i)]]
  BY <1>1 DEF Ring
<1> QED
  BY <1>1, <1>2

Put(b, h, k) == [b EXCEPT ![h] = k]

\* A key put at the head is the last one to be read.
LEMMA PushAppends ==
  ASSUME NEW b \in [Places -> KeySet \cup {NoKey}], NEW h \in Places, NEW t \in Places,
         Ring(b, h, t) \in Seq(KeySet), NEW k \in KeySet, Next1(h) # t,
         NEW g, g = Next1(h), NEW c, c = Put(b, h, k)
  PROVE  /\ Ring(c, g, t) = Append(Ring(b, h, t), k)
         /\ Len(Ring(b, h, t)) < BufferSize - 1
<1>1. BufferSize \in Nat /\ BufferSize > 1 /\ h \in 0 .. BufferSize - 1 /\ t \in 0 .. BufferSize - 1
  BY KeyboardAssumption DEF Places
<1>2. PICK n \in Nat, q \in Seq(KeySet) : n = Held(h, t) /\ q = Ring(b, h, t)
  BY <1>1, HeldBounds
<1>3. n < BufferSize - 1 /\ Len(q) = n
  BY <1>1, <1>2, HeldBounds, RingLen
<1>4. Held(g, t) = n + 1
  BY <1>1, <1>2, <1>3 DEF Held, Next1
<1>5. PICK r : r = Ring(c, g, t)
  OBVIOUS
<1>6. r = [i \in 1 .. n + 1 |-> c[At(t, i)]]
  BY <1>4, <1>5 DEF Ring
<1>7. At(t, n + 1) = h
  BY <1>1, <1>2, <1>3 DEF At, Held
<1>8. \A i \in 1 .. n : r[i] = q[i]
  <2> SUFFICES ASSUME NEW i \in 1 .. n PROVE r[i] = q[i]
    OBVIOUS
  <2>1. At(t, i) \in Places /\ At(t, i) # h
    BY <1>2, HeldBounds
  <2>2. c[At(t, i)] = b[At(t, i)]
    BY <1>2, <2>1 DEF Put
  <2>3. q[i] = b[At(t, i)]
    BY <1>2 DEF Ring
  <2> QED
    BY <1>6, <2>2, <2>3
<1>9. r[n + 1] = k
  BY <1>2, <1>6, <1>7 DEF Put
<1>10. Append(q, k) = [i \in 1 .. n + 1 |-> IF i <= n THEN q[i] ELSE k]
  <2>1. Append(q, k) \in Seq(KeySet) /\ Len(Append(q, k)) = n + 1
    BY <1>3, AppendProperties
  <2>2. \A i \in 1 .. n + 1 : Append(q, k)[i] = IF i <= n THEN q[i] ELSE k
    BY <1>3, AppendProperties
  <2> QED
    BY <2>1, <2>2, LenProperties
<1>11. \A i \in 1 .. n + 1 : r[i] = IF i <= n THEN q[i] ELSE k
  BY <1>8, <1>9
<1>12. r = Append(q, k)
  BY <1>6, <1>10, <1>11
<1> QED
  BY <1>2, <1>3, <1>5, <1>12

\* The key at the tail is the first of them.
LEMMA TakeDrops ==
  ASSUME NEW b \in [Places -> KeySet \cup {NoKey}], NEW h \in Places, NEW t \in Places,
         Ring(b, h, t) \in Seq(KeySet), h # t
  PROVE  /\ Ring(b, h, t) # <<>>
         /\ Ring(b, h, Next1(t)) = Tail(Ring(b, h, t))
         /\ Head(Ring(b, h, t)) = b[t]
<1>1. BufferSize \in Nat /\ BufferSize > 1 /\ h \in 0 .. BufferSize - 1 /\ t \in 0 .. BufferSize - 1
  BY KeyboardAssumption DEF Places
<1>2. PICK n \in Nat, u \in Places, q \in Seq(KeySet) :
        n = Held(h, t) /\ u = Next1(t) /\ q = Ring(b, h, t)
  <2>1. Held(h, t) \in Nat
    BY <1>1, HeldBounds
  <2>2. Next1(t) \in Places
    BY <1>1 DEF Next1, Places
  <2> QED
    BY <2>1, <2>2
<1>3. n > 0 /\ n <= BufferSize - 1 /\ Len(q) = n /\ q # <<>>
  <2>1. n \in 0 .. BufferSize - 1 /\ n # 0 /\ Len(q) = n
    BY <1>2, HeldBounds, RingLen
  <2> QED
    BY <1>1, <2>1, EmptySeq
<1>4. Held(h, u) = n - 1
  BY <1>1, <1>2, <1>3 DEF Held, Next1
<1>5. \A i \in 1 .. n - 1 : At(u, i) = At(t, i + 1)
  BY <1>1, <1>2, <1>3 DEF At, Next1
<1>6. At(t, 1) = t
  BY <1>1 DEF At
<1>7. \A i \in 1 .. n : q[i] = b[At(t, i)]
  BY <1>2 DEF Ring
<1>8. Head(q) = b[t]
  BY <1>3, <1>6, <1>7, HeadTailProperties
<1>9. PICK r : r = Ring(b, h, u)
  OBVIOUS
<1>10. r = [i \in 1 .. n - 1 |-> b[At(u, i)]]
  BY <1>4, <1>9 DEF Ring
<1>11. \A i \in 1 .. n - 1 : r[i] = q[i + 1]
  BY <1>5, <1>7, <1>10
<1>12. Tail(q) = [i \in 1 .. n - 1 |-> q[i + 1]]
  <2>1. Tail(q) \in Seq(KeySet) /\ Len(Tail(q)) = n - 1 /\ \A i \in 1 .. n - 1 : Tail(q)[i] = q[i + 1]
    BY <1>3, HeadTailProperties
  <2>2. Tail(q) = [i \in 1 .. Len(Tail(q)) |-> Tail(q)[i]]
    BY <2>1, LenProperties
  <2> QED
    BY <2>1, <2>2
<1>13. r = Tail(q)
  BY <1>10, <1>11, <1>12
<1> QED
  BY <1>2, <1>3, <1>8, <1>9, <1>13

-----------------------------------------------------------------------------
(***************************************************************************)
(* What the codes on their way mean to the driver.                         *)
(***************************************************************************)
ShiftAfter(c, s) == IF c.code \in {"shift", "shift_up"} THEN c.code = "shift" ELSE s

\* The key a code completes, with shift down or not, behind a prefix or not.
Meant(c, s, e) ==
  IF c.code = "letter" THEN Letter(s)
  ELSE IF c.code = "pad" THEN (IF e THEN Arrow ELSE PadKey)
  ELSE NoKey

\* The code before the i-th of w is a prefix; e stands for the one before w.
Behind(w, e, i) == IF i = 1 THEN e ELSE w[i - 1].code = "E0"

\* Where each code of w finds the shift key, from s on.
Shifts(sh, w, s) ==
  /\ sh \in [0 .. Len(w) -> BOOLEAN]
  /\ sh[0] = s
  /\ \A i \in 1 .. Len(w) : sh[i] = ShiftAfter(w[i], sh[i - 1])

Sensible(sh, w, e) ==
  \A i \in 1 .. Len(w) :
    /\ w[i].key = Meant(w[i], sh[i - 1], Behind(w, e, i))
    /\ Behind(w, e, i) => w[i].code \in {"pad", "pad_up"}

\* A driver that starts with shift s behind a prefix or not (e) and reads
\* the codes w finds in each the key it was sent for, and is left with x, d.
Decodes(w, e, s, x, d) ==
  \E sh \in [0 .. Len(w) -> BOOLEAN] :
    /\ Shifts(sh, w, s) /\ Sensible(sh, w, e)
    /\ Behind(w, e, Len(w) + 1) = x
    /\ sh[Len(w)] = d

LEMMA DecodesNone ==
  ASSUME NEW e \in BOOLEAN, NEW s \in BOOLEAN
  PROVE  Decodes(<<>>, e, s, e, s)
<1> DEFINE sh == [i \in 0 .. 0 |-> s]
<1>1. Len(<<>>) = 0 /\ 1 .. 0 = {} /\ 0 + 1 = 1
  BY EmptySeq
<1>2. sh \in [0 .. 0 -> BOOLEAN] /\ sh[0] = s
  OBVIOUS
<1> HIDE DEF sh
<1>3. Shifts(sh, <<>>, s) /\ Sensible(sh, <<>>, e)
  BY <1>1, <1>2 DEF Shifts, Sensible
<1>4. Behind(<<>>, e, 1) = e
  BY DEF Behind
<1> QED
  BY <1>1, <1>2, <1>3, <1>4 DEF Decodes

LEMMA DecodesAppend ==
  ASSUME NEW w \in Seq(CodeSet), NEW e \in BOOLEAN, NEW s \in BOOLEAN,
         NEW x \in BOOLEAN, NEW d \in BOOLEAN, Decodes(w, e, s, x, d),
         NEW c \in CodeSet, c.key = Meant(c, d, x), x => c.code \in {"pad", "pad_up"}
  PROVE  Decodes(Append(w, c), e, s, c.code = "E0", ShiftAfter(c, d))
<1>1. PICK sh \in [0 .. Len(w) -> BOOLEAN] :
        /\ Shifts(sh, w, s) /\ Sensible(sh, w, e)
        /\ Behind(w, e, Len(w) + 1) = x
        /\ sh[Len(w)] = d
  BY DEF Decodes
<1>2. PICK r \in Seq(CodeSet), n \in Nat, m \in Nat : r = Append(w, c) /\ n = Len(w) /\ m = n + 1
  <2>1. Append(w, c) \in Seq(CodeSet) /\ Len(w) \in Nat /\ Len(w) + 1 \in Nat
    BY LenProperties, AppendProperties
  <2> QED
    BY <2>1
<1>3. /\ r \in Seq(CodeSet) /\ Len(r) = m
      /\ r[m] = c /\ \A i \in 1 .. n : r[i] = w[i]
  BY <1>2, AppendProperties
<1> DEFINE th == [i \in 0 .. m |-> IF i = m THEN ShiftAfter(c, d) ELSE sh[i]]
<1>4. ShiftAfter(c, d) \in BOOLEAN
  BY DEF ShiftAfter
<1>5. th \in [0 .. m -> BOOLEAN] /\ th[m] = ShiftAfter(c, d) /\ \A i \in 0 .. n : th[i] = sh[i]
  BY <1>1, <1>2, <1>4
<1> HIDE DEF th
<1>6. ASSUME NEW i \in 1 .. n
      PROVE  /\ i - 1 \in 0 .. n /\ i \in 0 .. n
             /\ th[i] = sh[i] /\ th[i - 1] = sh[i - 1] /\ r[i] = w[i]
             /\ Behind(r, e, i) = Behind(w, e, i)
  <2>1. i - 1 \in 0 .. n /\ i \in 0 .. n /\ (i # 1 => i - 1 \in 1 .. n)
    BY <1>2
  <2>2. th[i] = sh[i] /\ th[i - 1] = sh[i - 1] /\ r[i] = w[i]
    BY <1>3, <1>5, <2>1
  <2>3. i # 1 => r[i - 1] = w[i - 1]
    BY <1>3, <2>1
  <2> QED
    BY <2>1, <2>2, <2>3 DEF Behind
<1>7. th[m - 1] = d /\ Behind(r, e, m) = x
  <2>1. m - 1 = n /\ n \in 0 .. n /\ n = Len(w) /\ Len(w) + 1 = m /\ (m # 1 => n \in 1 .. n)
    BY <1>2
  <2>2. th[n] = d
    BY <1>1, <1>5, <2>1
  <2>3. Behind(w, e, m) = x
    BY <1>1, <2>1
  <2>4. m # 1 => r[n] = w[n]
    BY <1>3, <2>1
  <2> QED
    BY <2>1, <2>2, <2>3, <2>4 DEF Behind
<1>8. \A i \in 1 .. m : i = m \/ i \in 1 .. n
  BY <1>2
<1>9. ASSUME NEW i \in 1 .. m
      PROVE  /\ th[i] = ShiftAfter(r[i], th[i - 1])
             /\ r[i].key = Meant(r[i], th[i - 1], Behind(r, e, i))
             /\ Behind(r, e, i) => r[i].code \in {"pad", "pad_up"}
  <2>1. CASE i = m
    BY <1>3, <1>5, <1>7, <2>1
  <2>2. CASE i \in 1 .. n
    <3>1. th[i] = sh[i] /\ th[i - 1] = sh[i - 1] /\ r[i] = w[i] /\ Behind(r, e, i) = Behind(w, e, i)
      BY <1>6, <2>2
    <3>2. sh[i] = ShiftAfter(w[i], sh[i - 1])
      BY <1>1, <1>2, <2>2, Zenon DEF Shifts
    <3>3. /\ w[i].key = Meant(w[i], sh[i - 1], Behind(w, e, i))
          /\ Behind(w, e, i) => w[i].code \in {"pad", "pad_up"}
      BY <1>1, <1>2, <2>2, Zenon DEF Sensible
    <3> QED
      BY <3>1, <3>2, <3>3, Zenon
  <2> QED
    BY <1>8, <2>1, <2>2
<1>10. th[0] = s
  BY <1>1, <1>2, <1>5 DEF Shifts
<1>11. Shifts(th, r, s)
  BY <1>3, <1>5, <1>9, <1>10, Zenon DEF Shifts
<1>12. Sensible(th, r, e)
  BY <1>3, <1>9, Zenon DEF Sensible
<1>13. Behind(r, e, Len(r) + 1) = (c.code = "E0")
  <2>1. Len(r) + 1 # 1 /\ Len(r) + 1 - 1 = m
    BY <1>2, <1>3
  <2> QED
    BY <1>3, <2>1 DEF Behind
<1> QED
  BY <1>2, <1>3, <1>5, <1>11, <1>12, <1>13 DEF Decodes

LEMMA DecodesTail ==
  ASSUME NEW w \in Seq(CodeSet), NEW e \in BOOLEAN, NEW s \in BOOLEAN,
         NEW x \in BOOLEAN, NEW d \in BOOLEAN, Decodes(w, e, s, x, d),
         w # <<>>, NEW c, c = Head(w)
  PROVE  /\ c \in CodeSet
         /\ c.key = Meant(c, s, e)
         /\ e => c.code \in {"pad", "pad_up"}
         /\ Decodes(Tail(w), c.code = "E0", ShiftAfter(c, s), x, d)
<1>1. PICK sh \in [0 .. Len(w) -> BOOLEAN] :
        /\ Shifts(sh, w, s) /\ Sensible(sh, w, e)
        /\ Behind(w, e, Len(w) + 1) = x
        /\ sh[Len(w)] = d
  BY DEF Decodes
<1>2. PICK r \in Seq(CodeSet), n \in Nat, m \in Nat : r = Tail(w) /\ m = Len(w) /\ m = n + 1 /\ n = m - 1
  <2>1. Len(w) \in Nat /\ Len(w) # 0
    BY LenProperties, EmptySeq
  <2>2. Len(w) - 1 \in Nat /\ Len(w) = (Len(w) - 1) + 1 /\ Tail(w) \in Seq(CodeSet)
    BY <2>1, HeadTailProperties
  <2> QED
    BY <2>1, <2>2
<1>3. /\ r \in Seq(CodeSet) /\ Len(r) = n /\ c \in CodeSet
      /\ c = w[1] /\ \A i \in 1 .. n : r[i] = w[i + 1]
  BY <1>2, HeadTailProperties
<1>4. 1 \in 1 .. Len(w) /\ 1 - 1 = 0
  BY <1>2
<1>5. /\ sh[0] = s /\ Behind(w, e, 1) = e
      /\ sh[1] = ShiftAfter(c, s) /\ c.key = Meant(c, s, e)
      /\ e => c.code \in {"pad", "pad_up"}
  <2>1. sh[0] = s /\ Behind(w, e, 1) = e
    BY <1>1 DEF Shifts, Behind
  <2>2. sh[1] = ShiftAfter(w[1], sh[1 - 1])
    BY <1>1, <1>4, Zenon DEF Shifts
  <2>3. /\ w[1].key = Meant(w[1], sh[1 - 1], Behind(w, e, 1))
        /\ Behind(w, e, 1) => w[1].code \in {"pad", "pad_up"}
    BY <1>1, <1>4, Zenon DEF Sensible
  <2> QED
    BY <1>3, <1>4, <2>1, <2>2, <2>3
<1> DEFINE th == [i \in 0 .. n |-> sh[i + 1]]
           p == (c.code = "E0")
<1>6. th \in [0 .. n -> BOOLEAN] /\ \A i \in 0 .. n : th[i] = sh[i + 1]
  BY <1>1, <1>2
<1> HIDE DEF th
<1>7. ASSUME NEW i \in 1 .. n + 1
      PROVE  Behind(r, p, i) = Behind(w, e, i + 1)
  <2>1. CASE i = 1
    <3>1. i + 1 # 1 /\ i + 1 - 1 = 1
      BY <2>1
    <3> QED
      BY <1>3, <2>1, <3>1 DEF Behind
  <2>2. CASE i # 1
    <3>1. i + 1 # 1 /\ i + 1 - 1 = i /\ i - 1 \in 1 .. n /\ i - 1 + 1 = i
      BY <1>2, <2>2
    <3>2. r[i - 1] = w[i]
      BY <1>3, <3>1
    <3> QED
      BY <2>2, <3>1, <3>2 DEF Behind
  <2> QED
    BY <2>1, <2>2
<1>8. ASSUME NEW i \in 1 .. n
      PROVE  /\ th[i] = ShiftAfter(r[i], th[i - 1])
             /\ r[i].key = Meant(r[i], th[i - 1], Behind(r, p, i))
             /\ Behind(r, p, i) => r[i].code \in {"pad", "pad_up"}
  <2>1. PICK j \in 1 .. Len(w) : j = i + 1 /\ j - 1 = i /\ i - 1 + 1 = i /\ i \in 0 .. n /\ i - 1 \in 0 .. n /\ i \in 1 .. n + 1
    BY <1>2
  <2>2. th[i] = sh[j] /\ th[i - 1] = sh[j - 1] /\ r[i] = w[j]
    BY <1>3, <1>6, <2>1
  <2>3. Behind(r, p, i) = Behind(w, e, j)
    BY <1>7, <2>1
  <2>4. sh[j] = ShiftAfter(w[j], sh[j - 1])
    BY <1>1, Zenon DEF Shifts
  <2>5. /\ w[j].key = Meant(w[j], sh[j - 1], Behind(w, e, j))
        /\ Behind(w, e, j) => w[j].code \in {"pad", "pad_up"}
    BY <1>1, Zenon DEF Sensible
  <2> HIDE DEF p
  <2> QED
    BY <2>2, <2>3, <2>4, <2>5, Zenon
<1>9. th[0] = ShiftAfter(c, s)
  <2>1. 0 \in 0 .. n /\ 0 + 1 = 1
    BY <1>2
  <2> QED
    BY <1>5, <1>6, <2>1
<1>10. th[n] = d
  BY <1>1, <1>2, <1>6
<1>11. Behind(r, p, Len(r) + 1) = x
  <2>1. Len(r) + 1 = n + 1 /\ n + 1 \in 1 .. n + 1 /\ n + 1 + 1 = Len(w) + 1
    BY <1>2, <1>3
  <2> QED
    BY <1>1, <1>7, <2>1
<1> HIDE DEF p
<1>12. Shifts(th, r, ShiftAfter(c, s))
  BY <1>3, <1>6, <1>8, <1>9, Zenon DEF Shifts
<1>13. Sensible(th, r, p)
  BY <1>3, <1>8, Zenon DEF Sensible
<1>14. Decodes(r, p, ShiftAfter(c, s), x, d)
  BY <1>3, <1>6, <1>10, <1>11, <1>12, <1>13 DEF Decodes
<1> QED
  BY <1>2, <1>3, <1>5, <1>14 DEF p

-----------------------------------------------------------------------------
(***************************************************************************)
(* The inductive invariant.                                                *)
(***************************************************************************)
KbdInv ==
  /\ KbdTypeOK
  /\ hw \in Seq(CodeSet) /\ coming \in Seq(CodeSet)
  /\ Decodes(OnTheWay, extended_scancode, shift_pressed, FALSE, held)
  /\ Buffered \in Seq(KeySet)

LEMMA CodesAreTyped ==
  ASSUME NEW q \in Seq(CodeSet)
  PROVE  \A i \in DOMAIN q : q[i].code \in Codes /\ q[i].key \in KeySet \cup {NoKey}
<1>1. \A i \in DOMAIN q : q[i] \in CodeSet
  BY LenProperties, ElementOfSeq
<1> QED
  BY <1>1 DEF CodeSet

LEMMA KbdInitInv == KbdInit => KbdInv /\ K!Init
<1> SUFFICES ASSUME KbdInit PROVE KbdInv /\ K!Init
  OBVIOUS
<1> USE DEF KbdInit
<1>1. BufferSize \in Nat /\ BufferSize > 1 /\ MaxCodes \in Nat /\ 0 \in Places
  BY KeyboardAssumption DEF Places
<1>2. hw = <<>> /\ coming = <<>> /\ Len(hw) = 0 /\ Len(coming) = 0 /\ OnTheWay = <<>>
      /\ hw \in Seq(CodeSet) /\ coming \in Seq(CodeSet)
  BY EmptySeq, ConcatEmptySeq DEF OnTheWay
<1>3. KbdTypeOK
  <2>1. Len(coming) <= 2 /\ Len(hw) <= MaxCodes
    BY <1>1, <1>2
  <2>2. \A i \in DOMAIN hw : hw[i].code \in Codes /\ hw[i].key \in KeySet \cup {NoKey}
    BY <1>2, CodesAreTyped
  <2> QED
    BY <1>1, <2>1, <2>2 DEF KbdTypeOK
<1>4. Buffered = <<>>
  <2>1. Buffered = Ring(keyboard_buffer, 0, 0)
    BY <1>3, RingIsBuffered
  <2>2. Held(0, 0) = 0
    BY <1>1 DEF Held
  <2> QED
    BY <2>1, <2>2 DEF Ring
<1>5. Decodes(OnTheWay, extended_scancode, shift_pressed, FALSE, held)
  BY <1>2, DecodesNone
<1>6. KeysOf(OnTheWay) = <<>>
  BY <1>2, KeysOfNone
<1>7. Buffered \in Seq(KeySet)
  BY <1>4, EmptySeq
<1> QED
  BY <1>2, <1>3, <1>4, <1>5, <1>6, <1>7 DEF KbdInv, K!Init

\* The buffer is as it was when its variables are.
LEMMA BufferedSame ==
  UNCHANGED <<keyboard_buffer, buffer_head, buffer_tail>> => Buffered' = Buffered
  BY DEF Buffered

\* The codes w grow to v, which the driver can read as well, by at most a key.
Grows(w, v, e, s, d) ==
  /\ v \in Seq(CodeSet)
  /\ Decodes(v, e, s, FALSE, d)
  /\ KeysOf(v) = KeysOf(w) \/ \E k \in KeySet : KeysOf(v) = Append(KeysOf(w), k)

\* A stroke of one code.
LEMMA OneCode ==
  ASSUME NEW w \in Seq(CodeSet), NEW e \in BOOLEAN, NEW s \in BOOLEAN, NEW d \in BOOLEAN,
         Decodes(w, e, s, FALSE, d), NEW c \in CodeSet, c.key = Meant(c, d, FALSE), c.code # "E0"
  PROVE  Grows(w, Append(w, c), e, s, ShiftAfter(c, d))
<1>1. Append(w, c) \in Seq(CodeSet)
  BY AppendProperties
<1>2. Decodes(Append(w, c), e, s, c.code = "E0", ShiftAfter(c, d))
  <2>1. PICK x \in BOOLEAN : x = FALSE
    OBVIOUS
  <2>2. Decodes(w, e, s, x, d) /\ c.key = Meant(c, d, x)
    BY <2>1
  <2> QED
    BY <2>1, <2>2, DecodesAppend
<1>3. (c.code = "E0") = FALSE
  OBVIOUS
<1>4. KeysOf(Append(w, c)) = IF c.key = NoKey THEN KeysOf(w) ELSE Append(KeysOf(w), c.key)
  BY KeysOfAppend
<1>5. c.key \in KeySet \cup {NoKey}
  BY DEF CodeSet
<1>6. Decodes(Append(w, c), e, s, FALSE, ShiftAfter(c, d))
  BY <1>2, <1>3
<1> QED
  BY <1>1, <1>4, <1>5, <1>6 DEF Grows

\* A stroke of two.
LEMMA TwoCodes ==
  ASSUME NEW w \in Seq(CodeSet), NEW e \in BOOLEAN, NEW s \in BOOLEAN, NEW d \in BOOLEAN,
         Decodes(w, e, s, FALSE, d), NEW p \in CodeSet, p = Code("E0", NoKey),
         NEW c \in CodeSet, c.code \in {"pad", "pad_up"}, c.key = Meant(c, d, TRUE)
  PROVE  Grows(w, Append(Append(w, p), c), e, s, d)
<1>1. PICK u \in Seq(CodeSet) : u = Append(w, p)
  BY AppendProperties
<1>2. p.code = "E0" /\ p.key = NoKey
  BY DEF Code
<1>3. Decodes(Append(w, p), e, s, p.code = "E0", ShiftAfter(p, d))
  <2>1. PICK x \in BOOLEAN : x = FALSE
    OBVIOUS
  <2>2. Decodes(w, e, s, x, d) /\ p.key = Meant(p, d, x)
    BY <1>2, <2>1 DEF Meant
  <2> QED
    BY <2>1, <2>2, DecodesAppend
<1>4. (p.code = "E0") = TRUE /\ ShiftAfter(p, d) = d
  BY <1>2 DEF ShiftAfter
<1>5. Decodes(u, e, s, TRUE, d)
  BY <1>1, <1>3, <1>4
<1>6. Decodes(Append(u, c), e, s, c.code = "E0", ShiftAfter(c, d))
  <2>1. PICK x \in BOOLEAN : x = TRUE
    OBVIOUS
  <2>2. Decodes(u, e, s, x, d) /\ c.key = Meant(c, d, x)
    BY <1>5, <2>1
  <2>3. (x => c.code \in {"pad", "pad_up"}) /\ x \in BOOLEAN
    BY <2>1
  <2>4. u \in Seq(CodeSet)
    BY <1>1
  <2> QED
    BY <2>2, <2>3, <2>4, DecodesAppend
<1>7. (c.code = "E0") = FALSE /\ ShiftAfter(c, d) = d
  BY DEF ShiftAfter
<1>8. Decodes(Append(u, c), e, s, FALSE, d)
  BY <1>6, <1>7
<1>9. KeysOf(u) = KeysOf(w)
  BY <1>1, <1>2, KeysOfAppend
<1>10. KeysOf(Append(u, c)) = IF c.key = NoKey THEN KeysOf(u) ELSE Append(KeysOf(u), c.key)
  BY <1>1, KeysOfAppend
<1>11. c.key \in KeySet \cup {NoKey} /\ Append(u, c) \in Seq(CodeSet)
  BY <1>1, AppendProperties DEF CodeSet
<1> QED
  BY <1>1, <1>8, <1>9, <1>10, <1>11 DEF Grows

\* One more code at the end of those on their way, or two.
LEMMA ConcatCodes ==
  ASSUME NEW w \in Seq(CodeSet), NEW c \in CodeSet, NEW b \in CodeSet
  PROVE  /\ w \o <<c>> = Append(w, c)
         /\ w \o <<b, c>> = Append(Append(w, b), c)
         /\ <<c>> \in Seq(CodeSet) /\ Len(<<c>>) = 1
         /\ <<b, c>> \in Seq(CodeSet) /\ Len(<<b, c>>) = 2
<1>1. <<c>> \in Seq(CodeSet) /\ Len(<<c>>) = 1
  OBVIOUS
<1>2. <<b, c>> \in Seq(CodeSet) /\ Len(<<b, c>>) = 2
  OBVIOUS
<1>3. w \o <<c>> = Append(w, c)
  BY AppendIsConcat
<1>4. PICK u \in Seq(CodeSet) : u = <<b>>
  <2>1. <<b>> \in Seq(CodeSet)
    OBVIOUS
  <2> QED
    BY <2>1
<1>5. <<b, c>> = Append(u, c)
  BY <1>4
<1>6. w \o Append(u, c) = Append(w \o u, c)
  BY <1>4, AppendToConcat
<1>7. w \o u = Append(w, b)
  BY <1>4, AppendIsConcat
<1> QED
  BY <1>1, <1>2, <1>3, <1>5, <1>6, <1>7

\* A stroke is one code that needs no prefix, or a prefix and its code.
LEMMA StrokeForms ==
  ASSUME NEW q \in Strokes, held \in BOOLEAN
  PROVE  \/ \E c \in CodeSet : /\ q = <<c>> /\ c.code \notin {"E0", "shift", "shift_up"}
                               /\ c.key = Meant(c, held, FALSE)
         \/ \E p, c \in CodeSet : /\ q = <<p, c>> /\ p = Code("E0", NoKey)
                                  /\ c.code \in {"pad", "pad_up"} /\ c.key = Meant(c, held, TRUE)
<1> DEFINE One(c) == /\ c \in CodeSet /\ c.code \notin {"E0", "shift", "shift_up"}
                     /\ c.key = Meant(c, held, FALSE)
           Two(p, c) == /\ p \in CodeSet /\ c \in CodeSet /\ p = Code("E0", NoKey)
                        /\ c.code \in {"pad", "pad_up"} /\ c.key = Meant(c, held, TRUE)
<1>1. One(Code("letter", Letter(held)))
  BY DEF Code, CodeSet, Codes, KeySet, Letter, Meant
<1>2. One(Code("letter_up", NoKey))
  BY DEF Code, CodeSet, Codes, Meant
<1>3. One(Code("pad", PadKey))
  BY DEF Code, CodeSet, Codes, KeySet, Meant
<1>4. One(Code("pad_up", NoKey))
  BY DEF Code, CodeSet, Codes, Meant
<1>5. Two(Code("E0", NoKey), Code("pad", Arrow))
  BY DEF Code, CodeSet, Codes, KeySet, Meant
<1>6. Two(Code("E0", NoKey), Code("pad_up", NoKey))
  BY DEF Code, CodeSet, Codes, Meant
<1>7. One(Code("E1", NoKey))
  BY DEF Code, CodeSet, Codes, Meant
<1> HIDE DEF One, Two
<1>8. (\E c : One(c) /\ q = <<c>>) \/ (\E p, c : Two(p, c) /\ q = <<p, c>>)
  BY <1>1, <1>2, <1>3, <1>4, <1>5, <1>6, <1>7, Zenon DEF Strokes
<1> QED
  BY <1>8, Zenon DEF One, Two

LEMMA StrokeStep == KbdInv /\ stroke => KbdInv' /\ [K!Next]_(K!kvars)
<1> SUFFICES ASSUME KbdInv, stroke PROVE KbdInv' /\ [K!Next]_(K!kvars)
  OBVIOUS
<1>1. /\ coming = <<>> /\ coming' \in Strokes
      /\ UNCHANGED <<held, hw, shift_pressed, extended_scancode, keyboard_buffer,
                     buffer_head, buffer_tail, pc, got>>
  BY DEF stroke, driver
<1>2. PICK w \in Seq(CodeSet), e \in BOOLEAN, s \in BOOLEAN, d \in BOOLEAN :
        w = hw /\ e = extended_scancode /\ s = shift_pressed /\ d = held
  BY DEF KbdInv, KbdTypeOK
<1>3. OnTheWay = w
  BY <1>1, <1>2, ConcatEmptySeq DEF OnTheWay
<1>4. Decodes(w, e, s, FALSE, d)
  BY <1>2, <1>3 DEF KbdInv
<1>5. \E q : /\ q \in Seq(CodeSet) /\ Len(q) <= 2 /\ q = coming'
             /\ Grows(w, w \o q, e, s, d)
  <2>1. PICK q : q = coming'
    OBVIOUS
  <2>2. CASE \E c \in CodeSet : /\ q = <<c>> /\ c.code \notin {"E0", "shift", "shift_up"}
                                /\ c.key = Meant(c, d, FALSE)
    <3>1. PICK c \in CodeSet : /\ q = <<c>> /\ c.code \notin {"E0", "shift", "shift_up"}
                               /\ c.key = Meant(c, d, FALSE)
      BY <2>2
    <3>2. ShiftAfter(c, d) = d /\ c.code # "E0"
      BY <3>1 DEF ShiftAfter
    <3>3. w \o q = Append(w, c) /\ q \in Seq(CodeSet) /\ Len(q) = 1
      BY <1>2, <3>1, ConcatCodes
    <3>4. Grows(w, Append(w, c), e, s, ShiftAfter(c, d))
      BY <1>2, <1>4, <3>1, <3>2, OneCode, Zenon
    <3>5. Grows(w, w \o q, e, s, d)
      BY <3>2, <3>3, <3>4, Zenon
    <3>6. Len(q) <= 2
      BY <3>3
    <3> QED
      BY <2>1, <3>3, <3>5, <3>6, Zenon
  <2>3. CASE \E p, c \in CodeSet : /\ q = <<p, c>> /\ p = Code("E0", NoKey)
                                   /\ c.code \in {"pad", "pad_up"} /\ c.key = Meant(c, d, TRUE)
    <3>1. PICK p \in CodeSet, c \in CodeSet :
             /\ q = <<p, c>> /\ p = Code("E0", NoKey)
             /\ c.code \in {"pad", "pad_up"} /\ c.key = Meant(c, d, TRUE)
      BY <2>3
    <3>2. PICK v : v = Append(Append(w, p), c)
      OBVIOUS
    <3>3. w \o q = v /\ q \in Seq(CodeSet) /\ Len(q) = 2
      BY <1>2, <3>1, <3>2, ConcatCodes
    <3>4. Grows(w, v, e, s, d)
      BY <1>2, <1>4, <3>1, <3>2, TwoCodes, Zenon
    <3>5. Grows(w, w \o q, e, s, d)
      BY <3>3, <3>4, Zenon
    <3>6. Len(q) <= 2
      BY <3>3
    <3> QED
      BY <2>1, <3>3, <3>5, <3>6, Zenon
  <2> QED
    BY <1>1, <1>2, <2>1, <2>2, <2>3, StrokeForms
<1>6. PICK q : /\ q \in Seq(CodeSet) /\ Len(q) <= 2 /\ q = coming'
               /\ Decodes(w \o q, e, s, FALSE, d)
               /\ KeysOf(w \o q) = KeysOf(w) \/ \E k \in KeySet : KeysOf(w \o q) = Append(KeysOf(w), k)
  BY <1>5 DEF Grows
<1>7. OnTheWay' = w \o q
  BY <1>1, <1>2, <1>6 DEF OnTheWay
<1>8. Buffered' = Buffered
  BY <1>1, BufferedSame
<1>9. KbdTypeOK'
  BY <1>1, <1>6 DEF KbdInv, KbdTypeOK
<1>10. KbdInv'
  BY <1>1, <1>2, <1>6, <1>7, <1>8, <1>9 DEF KbdInv
<1>11. KeysOf(OnTheWay) = KeysOf(w) /\ KeysOf(OnTheWay)' = KeysOf(w \o q)
  BY <1>3, <1>7
<1>12. [K!Next]_(K!kvars)
  BY <1>1, <1>6, <1>8, <1>11 DEF K!Next, K!Type, K!kvars
<1> QED
  BY <1>10, <1>12

LEMMA ShiftKeyStep == KbdInv /\ shift_key => KbdInv' /\ [K!Next]_(K!kvars)
<1> SUFFICES ASSUME KbdInv, shift_key PROVE KbdInv' /\ [K!Next]_(K!kvars)
  OBVIOUS
<1>1. PICK w \in Seq(CodeSet), e \in BOOLEAN, s \in BOOLEAN, d \in BOOLEAN :
        w = hw /\ e = extended_scancode /\ s = shift_pressed /\ d = held
  BY DEF KbdInv, KbdTypeOK
<1>2. PICK c : c = Code(IF d THEN "shift_up" ELSE "shift", NoKey)
  OBVIOUS
<1>3. /\ coming = <<>> /\ coming' = <<c>> /\ held' = ~d
      /\ UNCHANGED <<hw, shift_pressed, extended_scancode, keyboard_buffer,
                     buffer_head, buffer_tail, pc, got>>
  BY <1>1, <1>2 DEF shift_key, driver
<1>4. c \in CodeSet /\ c.key = NoKey /\ c.code \in {"shift", "shift_up"} /\ c.code = (IF d THEN "shift_up" ELSE "shift")
  BY <1>2 DEF Code, CodeSet, Codes
<1>5. c.key = Meant(c, d, FALSE) /\ ShiftAfter(c, d) = ~d /\ c.code # "E0"
  BY <1>1, <1>4 DEF Meant, ShiftAfter
<1>6. OnTheWay = w
  BY <1>1, <1>3, ConcatEmptySeq DEF OnTheWay
<1>7. Decodes(w, e, s, FALSE, d)
  BY <1>1, <1>6 DEF KbdInv
<1>8. PICK v : v = Append(w, c)
  OBVIOUS
<1>9. Decodes(v, e, s, FALSE, ~d)
  <2>1. Decodes(v, e, s, FALSE, ShiftAfter(c, d))
    <3>1. Grows(w, Append(w, c), e, s, ShiftAfter(c, d))
      BY <1>1, <1>4, <1>5, <1>7, OneCode, Zenon
    <3> QED
      BY <1>8, <3>1 DEF Grows
  <2> QED
    BY <1>5, <2>1
<1>10. KeysOf(v) = KeysOf(w)
  BY <1>1, <1>4, <1>8, KeysOfAppend
<1>11. OnTheWay' = v /\ coming' \in Seq(CodeSet) /\ Len(coming') = 1
  BY <1>1, <1>3, <1>4, <1>8, ConcatCodes DEF OnTheWay
<1>12. Buffered' = Buffered
  BY <1>3, BufferedSame
<1>13. KbdTypeOK'
  BY <1>1, <1>3, <1>11 DEF KbdInv, KbdTypeOK
<1>14. KbdInv'
  BY <1>1, <1>3, <1>9, <1>11, <1>12, <1>13 DEF KbdInv
<1>15. KeysOf(OnTheWay)' = KeysOf(OnTheWay)
  BY <1>6, <1>10, <1>11
<1> QED
  BY <1>3, <1>12, <1>14, <1>15 DEF K!kvars

\* The first code of b goes to the end of a.
LEMMA ConcatMoves ==
  ASSUME NEW a \in Seq(CodeSet), NEW b \in Seq(CodeSet), b # <<>>
  PROVE  /\ Append(a, Head(b)) \o Tail(b) = a \o b
         /\ Append(a, Head(b)) \in Seq(CodeSet) /\ Len(Append(a, Head(b))) = Len(a) + 1
         /\ Tail(b) \in Seq(CodeSet) /\ Len(Tail(b)) <= Len(b)
<1>1. PICK c \in CodeSet, t \in Seq(CodeSet) : c = Head(b) /\ t = Tail(b)
  BY HeadTailProperties
<1>2. PICK u \in Seq(CodeSet) : u = <<c>>
  <2>1. <<c>> \in Seq(CodeSet)
    BY <1>1
  <2> QED
    BY <2>1
<1>3. b = u \o t
  <2>1. /\ Len(b) \in Nat /\ Len(b) # 0 /\ c = b[1] /\ Len(t) = Len(b) - 1
        /\ \A i \in 1 .. Len(t) : t[i] = b[i + 1]
    BY <1>1, HeadTailProperties, LenProperties, EmptySeq
  <2>2. Len(u) = 1 /\ u[1] = c
    BY <1>2
  <2>3. /\ u \o t \in Seq(CodeSet) /\ Len(u \o t) = Len(b)
        /\ \A i \in 1 .. Len(b) : (u \o t)[i] = b[i]
    <3>1. Len(t) \in Nat /\ 1 + Len(t) = Len(b)
      BY <2>1
    <3>2. /\ u \o t \in Seq(CodeSet) /\ Len(u \o t) = Len(u) + Len(t)
          /\ \A i \in 1 .. Len(u) + Len(t) : (u \o t)[i] = IF i <= Len(u) THEN u[i] ELSE t[i - Len(u)]
      BY <1>1, <1>2, ConcatProperties
    <3>3. ASSUME NEW i \in 1 .. Len(b) PROVE (u \o t)[i] = b[i]
      <4>1. (u \o t)[i] = IF i <= 1 THEN u[i] ELSE t[i - 1]
        BY <2>2, <3>1, <3>2
      <4>2. CASE i = 1
        BY <2>1, <2>2, <4>1, <4>2
      <4>3. CASE i # 1
        <5>1. i - 1 \in 1 .. Len(t) /\ i - 1 + 1 = i /\ ~(i <= 1)
          BY <3>1, <4>3
        <5> QED
          BY <2>1, <4>1, <5>1
      <4> QED
        BY <4>2, <4>3
    <3> QED
      BY <2>2, <3>1, <3>2, <3>3
  <2> QED
    BY <2>3, SeqEqual
<1>4. Append(a, c) = a \o u
  BY <1>1, <1>2, AppendIsConcat
<1>5. (a \o u) \o t = a \o (u \o t)
  BY <1>1, <1>2, ConcatAssociative
<1>6. Append(a, c) \in Seq(CodeSet) /\ Len(Append(a, c)) = Len(a) + 1
  BY <1>1, AppendProperties
<1>7. Len(t) <= Len(b)
  <2>1. Len(t) = Len(b) - 1 /\ Len(b) \in Nat
    BY <1>1, HeadTailProperties, LenProperties
  <2> QED
    BY <2>1
<1> QED
  BY <1>1, <1>3, <1>4, <1>5, <1>6, <1>7

LEMMA ArriveStep == KbdInv /\ arrive => KbdInv' /\ [K!Next]_(K!kvars)
<1> SUFFICES ASSUME KbdInv, arrive PROVE KbdInv' /\ [K!Next]_(K!kvars)
  OBVIOUS
<1>1. /\ coming # <<>> /\ Len(hw) < MaxCodes
      /\ hw' = Append(hw, Head(coming)) /\ coming' = Tail(coming)
      /\ UNCHANGED <<held, shift_pressed, extended_scancode, keyboard_buffer,
                     buffer_head, buffer_tail, pc, got>>
  BY DEF arrive, driver
<1>2. hw \in Seq(CodeSet) /\ coming \in Seq(CodeSet) /\ Len(hw) \in Nat /\ Len(coming) <= 2
      /\ MaxCodes \in Nat /\ Len(coming) \in Nat
  BY KeyboardAssumption, LenProperties DEF KbdInv, KbdTypeOK
<1>3. /\ hw' \in Seq(CodeSet) /\ coming' \in Seq(CodeSet)
      /\ Len(hw') = Len(hw) + 1 /\ Len(coming') <= Len(coming)
  BY <1>1, <1>2, ConcatMoves
<1>4. OnTheWay' = OnTheWay
  BY <1>1, <1>2, ConcatMoves DEF OnTheWay
<1>5. Buffered' = Buffered
  BY <1>1, BufferedSame
<1>6. KbdTypeOK'
  <2>1. Len(hw') <= MaxCodes
    BY <1>1, <1>2, <1>3
  <2>2. Len(coming') <= 2
    <3>1. Len(coming') \in Nat
      BY <1>3, LenProperties
    <3> QED
      BY <1>2, <1>3, <3>1
  <2>3. \A i \in DOMAIN hw' : hw'[i].code \in Codes /\ hw'[i].key \in KeySet \cup {NoKey}
    BY <1>3, CodesAreTyped
  <2> QED
    BY <1>1, <2>1, <2>2, <2>3 DEF KbdInv, KbdTypeOK
<1>7. KbdInv'
  BY <1>1, <1>3, <1>4, <1>5, <1>6 DEF KbdInv
<1>8. KeysOf(OnTheWay)' = KeysOf(OnTheWay)
  BY <1>4
<1> QED
  BY <1>1, <1>5, <1>7, <1>8 DEF K!kvars

LEMMA ReadStep ==
  ASSUME NEW r \in Readers
  PROVE  KbdInv /\ sys_read(r) => KbdInv' /\ [K!Next]_(K!kvars)
<1> SUFFICES ASSUME KbdInv, sys_read(r) PROVE KbdInv' /\ [K!Next]_(K!kvars)
  OBVIOUS
<1>1. /\ pc' = [pc EXCEPT ![r] = "poll"]
      /\ UNCHANGED <<held, coming, hw, shift_pressed, extended_scancode, keyboard_buffer,
                     buffer_head, buffer_tail, got>>
  BY DEF sys_read, driver
<1>2. OnTheWay' = OnTheWay /\ Buffered' = Buffered
  BY <1>1, BufferedSame DEF OnTheWay
<1>3. KbdTypeOK'
  BY <1>1 DEF KbdInv, KbdTypeOK
<1>4. KbdInv'
  BY <1>1, <1>2, <1>3 DEF KbdInv
<1>5. KeysOf(OnTheWay)' = KeysOf(OnTheWay)
  BY <1>2
<1> QED
  BY <1>1, <1>2, <1>4, <1>5 DEF K!kvars

\* What the driver makes of a code it can read.
LEMMA HandlerReads ==
  ASSUME KbdTypeOK, NEW c \in CodeSet,
         c.key = Meant(c, shift_pressed, extended_scancode),
         extended_scancode => c.code \in {"pad", "pad_up"},
         keyboard_handle_scancode(c.code)
  PROVE  /\ extended_scancode' = (c.code = "E0")
         /\ shift_pressed' = ShiftAfter(c, shift_pressed)
         /\ IF c.key = NoKey THEN NoPush ELSE c.key \in KeySet /\ keyboard_push(c.key)
<1>1. c.code \in Codes /\ shift_pressed \in BOOLEAN /\ extended_scancode \in BOOLEAN
  BY DEF KbdTypeOK, CodeSet
<1>2. NoKey \notin KeySet /\ Arrow \in KeySet /\ PadKey \in KeySet /\ Letter(shift_pressed) \in KeySet
      /\ NoKey # Arrow /\ NoKey # PadKey /\ NoKey # Letter(shift_pressed)
  BY DEF NoKey, KeySet, Arrow, PadKey, Letter
<1>3. CASE c.code \in {"E0", "E1"}
  <2>1. ~extended_scancode /\ extended_scancode' = (c.code = "E0") /\ NoPush /\ UNCHANGED shift_pressed
    BY <1>3 DEF keyboard_handle_scancode
  <2>2. c.key = NoKey /\ ShiftAfter(c, shift_pressed) = shift_pressed
    BY <1>3 DEF Meant, ShiftAfter
  <2> QED
    BY <2>1, <2>2
<1>4. CASE extended_scancode
  <2>1. c.code \in {"pad", "pad_up"} /\ extended_scancode' = FALSE /\ UNCHANGED shift_pressed
        /\ keyboard_handle_extended(c.code)
    BY <1>4 DEF keyboard_handle_scancode
  <2>2. ShiftAfter(c, shift_pressed) = shift_pressed /\ (c.code = "E0") = FALSE
    BY <2>1 DEF ShiftAfter
  <2>3. c.code = "pad" => c.key = Arrow /\ keyboard_push(Arrow)
    BY <1>4, <2>1 DEF Meant, keyboard_handle_extended
  <2>4. c.code = "pad_up" => c.key = NoKey /\ NoPush
    BY <2>1 DEF Meant, keyboard_handle_extended
  <2> QED
    BY <1>2, <2>1, <2>2, <2>3, <2>4
<1>5. CASE c.code \in {"shift", "shift_up"} /\ ~extended_scancode
  <2>1. shift_pressed' = (c.code = "shift") /\ NoPush /\ UNCHANGED extended_scancode
    BY <1>5 DEF keyboard_handle_scancode
  <2>2. c.key = NoKey /\ ShiftAfter(c, shift_pressed) = (c.code = "shift") /\ (c.code = "E0") = FALSE
    BY <1>5 DEF Meant, ShiftAfter
  <2>3. extended_scancode' = FALSE
    BY <1>1, <1>5, <2>1
  <2> QED
    BY <2>1, <2>2, <2>3
<1>6. CASE c.code \in {"letter_up", "pad_up"} /\ ~extended_scancode
  <2>1. NoPush /\ UNCHANGED <<shift_pressed, extended_scancode>>
    BY <1>6 DEF keyboard_handle_scancode
  <2>2. c.key = NoKey /\ ShiftAfter(c, shift_pressed) = shift_pressed /\ (c.code = "E0") = FALSE
    BY <1>6 DEF Meant, ShiftAfter
  <2>3. extended_scancode' = FALSE
    BY <1>1, <1>6, <2>1
  <2> QED
    BY <2>1, <2>2, <2>3
<1>7. CASE c.code \in {"letter", "pad"} /\ ~extended_scancode
  <2>1. keyboard_push(IF c.code = "letter" THEN Letter(shift_pressed) ELSE PadKey)
        /\ UNCHANGED <<shift_pressed, extended_scancode>>
    BY <1>7 DEF keyboard_handle_scancode
  <2>2. ShiftAfter(c, shift_pressed) = shift_pressed /\ (c.code = "E0") = FALSE
    BY <1>7 DEF ShiftAfter
  <2>3. c.key = IF c.code = "letter" THEN Letter(shift_pressed) ELSE PadKey
    BY <1>7 DEF Meant
  <2>4. extended_scancode' = FALSE
    BY <1>1, <1>7, <2>1
  <2>5. c.key \in KeySet /\ c.key # NoKey /\ keyboard_push(c.key)
    BY <1>2, <2>1, <2>3
  <2> QED
    BY <2>1, <2>2, <2>4, <2>5
<1> QED
  BY <1>1, <1>3, <1>4, <1>5, <1>6, <1>7 DEF Codes

\* The queue of the codes on their way is read where the controller is.
LEMMA HeadOfConcat ==
  ASSUME NEW a \in Seq(CodeSet), NEW b \in Seq(CodeSet), a # <<>>
  PROVE  /\ a \o b \in Seq(CodeSet) /\ a \o b # <<>>
         /\ Head(a \o b) = Head(a) /\ Tail(a \o b) = Tail(a) \o b
         /\ Tail(a) \in Seq(CodeSet) /\ Len(Tail(a)) <= Len(a)
<1>1. PICK n \in Nat, m \in Nat : n = Len(a) /\ m = Len(b) /\ n # 0
  BY LenProperties, EmptySeq
<1>2. PICK w \in Seq(CodeSet) : w = a \o b
  BY ConcatProperties
<1>3. Len(w) = n + m /\ \A i \in 1 .. n + m : w[i] = IF i <= n THEN a[i] ELSE b[i - n]
  BY <1>1, <1>2, ConcatProperties
<1>4. w # <<>>
  BY <1>1, <1>3, EmptySeq
<1>5. Head(w) = Head(a)
  <2>1. Head(w) = w[1] /\ Head(a) = a[1]
    BY <1>2, <1>4, HeadTailProperties
  <2>2. 1 \in 1 .. n + m /\ 1 <= n
    BY <1>1
  <2> QED
    BY <1>3, <2>1, <2>2
<1>6. PICK t \in Seq(CodeSet), u \in Seq(CodeSet) : t = Tail(a) /\ u = Tail(w)
  BY <1>2, <1>4, HeadTailProperties
<1>7. /\ Len(t) = n - 1 /\ \A i \in 1 .. n - 1 : t[i] = a[i + 1]
      /\ Len(u) = n + m - 1 /\ \A i \in 1 .. n + m - 1 : u[i] = w[i + 1]
  BY <1>1, <1>2, <1>3, <1>4, <1>6, HeadTailProperties
<1>8. PICK v \in Seq(CodeSet) : v = t \o b
  BY <1>6, ConcatProperties
<1>9. Len(v) = n - 1 + m /\ \A i \in 1 .. n - 1 + m : v[i] = IF i <= n - 1 THEN t[i] ELSE b[i - (n - 1)]
  BY <1>1, <1>6, <1>7, <1>8, ConcatProperties
<1>10. ASSUME NEW i \in 1 .. n + m - 1 PROVE u[i] = v[i]
  <2>1. i + 1 \in 1 .. n + m /\ i \in 1 .. n - 1 + m
    BY <1>1
  <2>2. u[i] = IF i + 1 <= n THEN a[i + 1] ELSE b[i + 1 - n]
    BY <1>3, <1>7, <2>1
  <2>3. v[i] = IF i <= n - 1 THEN t[i] ELSE b[i - (n - 1)]
    BY <1>9, <2>1
  <2>4. CASE i <= n - 1
    <3>1. i \in 1 .. n - 1 /\ i + 1 <= n
      BY <1>1, <2>4
    <3> QED
      BY <1>7, <2>2, <2>3, <3>1
  <2>5. CASE ~(i <= n - 1)
    <3>1. ~(i + 1 <= n) /\ i + 1 - n = i - (n - 1)
      BY <1>1, <2>5
    <3> QED
      BY <2>2, <2>3, <2>5, <3>1
  <2> QED
    BY <2>4, <2>5
<1>11. u = v
  <2>1. Len(u) = Len(v) /\ Len(u) = n + m - 1
    BY <1>1, <1>7, <1>9
  <2>2. \A i \in 1 .. Len(u) : u[i] = v[i]
    BY <1>10, <2>1
  <2> QED
    BY <1>6, <1>8, <2>1, <2>2, SeqEqual
<1>12. Len(t) <= Len(a)
  BY <1>1, <1>7
<1> QED
  BY <1>2, <1>4, <1>5, <1>6, <1>8, <1>11, <1>12

\* A first element is the head.
LEMMA ConsHeadTail ==
  ASSUME NEW T, NEW k \in T, NEW t \in Seq(T)
  PROVE  <<k>> \o t # <<>> /\ Head(<<k>> \o t) = k /\ Tail(<<k>> \o t) = t
<1>1. PICK u \in Seq(T), n \in Nat : u = <<k>> /\ n = Len(t)
  <2>1. <<k>> \in Seq(T) /\ Len(t) \in Nat
    BY LenProperties
  <2> QED
    BY <2>1
<1>2. Len(u) = 1 /\ u[1] = k
  BY <1>1
<1>3. PICK w \in Seq(T) : w = u \o t
  BY <1>1, ConcatProperties
<1>4. Len(w) = 1 + n /\ \A i \in 1 .. 1 + n : w[i] = IF i <= 1 THEN u[i] ELSE t[i - 1]
  BY <1>1, <1>2, <1>3, ConcatProperties
<1>5. w # <<>> /\ Head(w) = k
  <2>1. w # <<>>
    BY <1>1, <1>4, EmptySeq
  <2>2. Head(w) = w[1]
    BY <1>3, <2>1, HeadTailProperties
  <2>3. 1 \in 1 .. 1 + n /\ 1 <= 1
    BY <1>1
  <2> QED
    BY <1>2, <1>4, <2>1, <2>2, <2>3
<1>6. PICK v \in Seq(T) : v = Tail(w)
  BY <1>3, <1>5, HeadTailProperties
<1>7. Len(v) = n /\ \A i \in 1 .. n : v[i] = w[i + 1]
  BY <1>1, <1>3, <1>4, <1>5, <1>6, HeadTailProperties
<1>8. ASSUME NEW i \in 1 .. n PROVE v[i] = t[i]
  <2>1. i + 1 \in 1 .. 1 + n /\ ~(i + 1 <= 1) /\ i + 1 - 1 = i
    BY <1>1
  <2> QED
    BY <1>4, <1>7, <2>1
<1>9. v = t
  BY <1>1, <1>6, <1>7, <1>8, SeqEqual
<1> QED
  BY <1>1, <1>3, <1>5, <1>6, <1>9

\* A pushed key is the last in the buffer, unless the buffer is full.
LEMMA PushStep ==
  ASSUME KbdTypeOK, Buffered \in Seq(KeySet), NEW k \in KeySet, keyboard_push(k)
  PROVE  /\ keyboard_buffer' \in [Places -> KeySet \cup {NoKey}]
         /\ buffer_head' \in Places /\ buffer_tail' \in Places
         /\ Buffered' = IF Len(Buffered) < BufferSize - 1 THEN Append(Buffered, k) ELSE Buffered
         /\ Buffered' \in Seq(KeySet)
<1>1. PICK b \in [Places -> KeySet \cup {NoKey}], h \in Places, t \in Places :
        b = keyboard_buffer /\ h = buffer_head /\ t = buffer_tail
  BY DEF KbdTypeOK
<1>2. Buffered = Ring(b, h, t) /\ Ring(b, h, t) \in Seq(KeySet) /\ Succ(h) = Next1(h) /\ Next1(h) \in Places
  BY <1>1, RingIsBuffered
<1>3. CASE Next1(h) = t
  <2>1. UNCHANGED <<keyboard_buffer, buffer_head, buffer_tail>>
    BY <1>1, <1>2, <1>3 DEF keyboard_push
  <2>2. Len(Buffered) = BufferSize - 1
    BY <1>1, <1>2, <1>3, RingLen, HeldBounds
  <2>3. ~(Len(Buffered) < BufferSize - 1)
    BY <2>2, KeyboardAssumption
  <2> QED
    BY <1>1, <2>1, <2>3, BufferedSame
<1>4. CASE Next1(h) # t
  <2>1. /\ keyboard_buffer' = [b EXCEPT ![h] = k] /\ buffer_head' = Next1(h) /\ buffer_tail' = t
    BY <1>1, <1>2, <1>4 DEF keyboard_push
  <2>2. PICK c \in [Places -> KeySet \cup {NoKey}], g \in Places : c = [b EXCEPT ![h] = k] /\ g = Next1(h)
    BY <1>1, <1>2
  <2>3. Ring(c, g, t) = Append(Ring(b, h, t), k) /\ Len(Ring(b, h, t)) < BufferSize - 1
    <3>1. c = Put(b, h, k) /\ g = Next1(h)
      BY <2>2 DEF Put
    <3>2. Ring(b, h, t) \in Seq(KeySet) /\ Next1(h) # t
      BY <1>2, <1>4
    <3>3. b \in [Places -> KeySet \cup {NoKey}] /\ h \in Places /\ t \in Places
      BY <1>1
    <3> QED
      BY <3>1, <3>2, <3>3, PushAppends
  <2>4. Buffered' = Ring(c, g, t)
    <3>1. KbdTypeOK /\ keyboard_buffer' = c /\ buffer_head' = g /\ buffer_tail' = t
      BY <2>1, <2>2
    <3>2. Buffered' = Span(c, g, t)
      BY <3>1 DEF Buffered, Span
    <3>3. Ring(c, g, t) = Span(c, g, t)
      BY <1>1, <2>2, RingMeans
    <3> QED
      BY <3>2, <3>3, Zenon
  <2>5. Append(Ring(b, h, t), k) \in Seq(KeySet)
    BY <1>2, AppendProperties
  <2> QED
    BY <1>1, <1>2, <2>1, <2>2, <2>3, <2>4, <2>5
<1> QED
  BY <1>3, <1>4

LEMMA PollStep ==
  ASSUME NEW r \in Readers
  PROVE  KbdInv /\ keyboard_poll(r) => KbdInv' /\ [K!Next]_(K!kvars)
<1> SUFFICES ASSUME KbdInv, keyboard_poll(r) PROVE KbdInv' /\ [K!Next]_(K!kvars)
  OBVIOUS
<1>1. /\ hw # <<>> /\ keyboard_handle_scancode(Head(hw).code) /\ hw' = Tail(hw)
      /\ UNCHANGED <<held, coming, pc, got>>
  BY DEF keyboard_poll
<1>2. PICK h \in Seq(CodeSet), q \in Seq(CodeSet), e \in BOOLEAN, s \in BOOLEAN, d \in BOOLEAN :
        h = hw /\ q = coming /\ e = extended_scancode /\ s = shift_pressed /\ d = held
  BY DEF KbdInv, KbdTypeOK
<1>3. PICK w : w = h \o q
  OBVIOUS
<1>4. w = OnTheWay /\ Decodes(w, e, s, FALSE, d)
  BY <1>2, <1>3 DEF KbdInv, OnTheWay
<1>5. /\ w \in Seq(CodeSet) /\ w # <<>> /\ Head(w) = Head(h) /\ Tail(w) = Tail(h) \o q
      /\ Tail(h) \in Seq(CodeSet) /\ Len(Tail(h)) <= Len(h)
  BY <1>1, <1>2, <1>3, HeadOfConcat
<1>6. PICK c : c = Head(w)
  OBVIOUS
<1>7. /\ c \in CodeSet /\ c.key = Meant(c, s, e)
      /\ e => c.code \in {"pad", "pad_up"}
      /\ Decodes(Tail(w), c.code = "E0", ShiftAfter(c, s), FALSE, d)
  <2>1. PICK x \in BOOLEAN : x = FALSE
    OBVIOUS
  <2>2. Decodes(w, e, s, x, d)
    BY <1>4, <2>1
  <2>3. /\ c \in CodeSet /\ c.key = Meant(c, s, e)
        /\ e => c.code \in {"pad", "pad_up"}
        /\ Decodes(Tail(w), c.code = "E0", ShiftAfter(c, s), x, d)
    BY <1>2, <1>5, <1>6, <2>1, <2>2, DecodesTail
  <2> QED
    BY <2>1, <2>3
<1>8. /\ extended_scancode' = (c.code = "E0")
      /\ shift_pressed' = ShiftAfter(c, s)
      /\ IF c.key = NoKey THEN NoPush ELSE c.key \in KeySet /\ keyboard_push(c.key)
  <2>1. c = Head(hw) /\ KbdTypeOK
    BY <1>2, <1>5, <1>6 DEF KbdInv
  <2> QED
    BY <1>1, <1>2, <1>7, <2>1, HandlerReads
<1>9. OnTheWay' = Tail(w)
  BY <1>1, <1>2, <1>5 DEF OnTheWay
<1>10. KeysOf(w) = First(c) \o KeysOf(Tail(w)) /\ KeysOf(Tail(w)) \in Seq(KeySet)
  <2>1. KeysOf(w) = First(c) \o KeysOf(Tail(w))
    BY <1>5, <1>6, KeysOfTail
  <2>2. Tail(w) \in Seq(CodeSet)
    BY <1>5, HeadTailProperties
  <2>3. KeysOf(Tail(w)) \in Seq(KeySet)
    BY <1>7, <2>2, KeysOfAppend
  <2> QED
    BY <2>1, <2>3
<1>11. /\ hw' \in Seq(CodeSet) /\ coming' \in Seq(CodeSet)
       /\ Len(hw') <= MaxCodes /\ Len(coming') <= 2
       /\ \A i \in DOMAIN hw' : hw'[i].code \in Codes /\ hw'[i].key \in KeySet \cup {NoKey}
  <2>1. hw' \in Seq(CodeSet) /\ coming' = coming /\ coming \in Seq(CodeSet)
    BY <1>1, <1>2, <1>5
  <2>2. Len(hw') <= Len(hw) /\ Len(hw) <= MaxCodes /\ Len(hw) \in Nat /\ Len(hw') \in Nat /\ MaxCodes \in Nat
    BY <1>1, <1>2, <1>5, <2>1, LenProperties, KeyboardAssumption DEF KbdInv, KbdTypeOK
  <2>3. Len(hw') <= MaxCodes
    BY <2>2
  <2>4. \A i \in DOMAIN hw' : hw'[i].code \in Codes /\ hw'[i].key \in KeySet \cup {NoKey}
    BY <2>1, CodesAreTyped
  <2> QED
    BY <2>1, <2>3, <2>4 DEF KbdInv, KbdTypeOK
<1>12. Decodes(OnTheWay', extended_scancode', shift_pressed', FALSE, held')
  BY <1>1, <1>2, <1>7, <1>8, <1>9
<1>13. ShiftAfter(c, s) \in BOOLEAN
  BY <1>2 DEF ShiftAfter
<1>14. CASE c.key = NoKey
  <2>1. UNCHANGED <<keyboard_buffer, buffer_head, buffer_tail>> /\ Buffered' = Buffered
    BY <1>8, <1>14, BufferedSame DEF NoPush
  <2>2. KbdTypeOK'
    BY <1>1, <1>8, <1>11, <1>13, <2>1 DEF KbdInv, KbdTypeOK
  <2>3. KbdInv'
    BY <1>11, <1>12, <2>1, <2>2 DEF KbdInv
  <2>4. KeysOf(w) = KeysOf(Tail(w))
    BY <1>10, <1>14, ConcatEmptySeq DEF First
  <2>5. KeysOf(OnTheWay)' = KeysOf(OnTheWay)
    BY <1>4, <1>9, <2>4
  <2> QED
    BY <1>1, <2>1, <2>3, <2>5 DEF K!kvars
<1>15. CASE c.key # NoKey
  <2>1. PICK k \in KeySet : k = c.key /\ keyboard_push(k)
    BY <1>8, <1>15
  <2>2. /\ keyboard_buffer' \in [Places -> KeySet \cup {NoKey}]
        /\ buffer_head' \in Places /\ buffer_tail' \in Places
        /\ Buffered' = IF Len(Buffered) < BufferSize - 1 THEN Append(Buffered, k) ELSE Buffered
        /\ Buffered' \in Seq(KeySet)
    BY <2>1, PushStep DEF KbdInv
  <2>3. KbdTypeOK'
    BY <1>1, <1>8, <1>11, <1>13, <2>2 DEF KbdInv, KbdTypeOK
  <2>4. KbdInv'
    BY <1>11, <1>12, <2>2, <2>3 DEF KbdInv
  <2>5. PICK t, z : t = KeysOf(Tail(w)) /\ z = KeysOf(w) /\ t \in Seq(KeySet)
    BY <1>10
  <2>6. z # <<>> /\ Head(z) = k /\ Tail(z) = t
    <3>1. z = <<k>> \o t
      BY <1>10, <1>15, <2>1, <2>5 DEF First
    <3> QED
      BY <2>1, <2>5, <3>1, ConsHeadTail
  <2>7. KeysOf(OnTheWay) = z /\ KeysOf(OnTheWay)' = t
    BY <1>4, <1>9, <2>5
  <2>8. K!See
    BY <1>1, <2>2, <2>6, <2>7 DEF K!See
  <2> QED
    BY <2>4, <2>8 DEF K!Next
<1> QED
  BY <1>14, <1>15

LEMMA GetcharStep ==
  ASSUME NEW r \in Readers
  PROVE  KbdInv /\ keyboard_getchar(r) => KbdInv' /\ [K!Next]_(K!kvars)
<1> SUFFICES ASSUME KbdInv, keyboard_getchar(r) PROVE KbdInv' /\ [K!Next]_(K!kvars)
  OBVIOUS
<1>1. UNCHANGED <<held, coming, hw, shift_pressed, extended_scancode, keyboard_buffer, buffer_head>>
  BY DEF keyboard_getchar
<1>2. OnTheWay' = OnTheWay
  BY <1>1 DEF OnTheWay
<1>3. KeysOf(OnTheWay)' = KeysOf(OnTheWay)
  BY <1>2
<1>4. PICK b \in [Places -> KeySet \cup {NoKey}], h \in Places, t \in Places :
        b = keyboard_buffer /\ h = buffer_head /\ t = buffer_tail
  BY DEF KbdInv, KbdTypeOK
<1>5. CASE h = t
  <2>1. pc' = [pc EXCEPT ![r] = "wait"] /\ UNCHANGED <<got, buffer_tail>>
    BY <1>4, <1>5 DEF keyboard_getchar
  <2>2. Buffered' = Buffered
    BY <1>1, <2>1, BufferedSame
  <2>3. KbdTypeOK'
    BY <1>1, <2>1 DEF KbdInv, KbdTypeOK
  <2>4. KbdInv'
    BY <1>1, <1>2, <2>2, <2>3 DEF KbdInv
  <2> QED
    BY <1>3, <2>1, <2>2, <2>4 DEF K!kvars
<1>6. CASE h # t
  <2>1. Buffered = Ring(b, h, t) /\ Ring(b, h, t) \in Seq(KeySet) /\ Succ(t) = Next1(t) /\ Next1(t) \in Places
    BY <1>4, RingIsBuffered DEF KbdInv
  <2>2. /\ got' = Char(b[t]) \/ got' = got
        /\ buffer_tail' = Next1(t) /\ pc' = [pc EXCEPT ![r] = "away"]
    BY <1>4, <1>6, <2>1 DEF keyboard_getchar
  <2>3. PICK u \in Places : u = Next1(t)
    BY <2>1
  <2>4. Ring(b, h, t) # <<>> /\ Ring(b, h, u) = Tail(Ring(b, h, t)) /\ Head(Ring(b, h, t)) = b[t]
    <3>1. /\ Ring(b, h, t) # <<>> /\ Ring(b, h, Next1(t)) = Tail(Ring(b, h, t))
          /\ Head(Ring(b, h, t)) = b[t]
      BY <1>4, <1>6, <2>1, TakeDrops, Zenon
    <3> QED
      BY <2>3, <3>1, Zenon
  <2>5. Buffered' = Ring(b, h, u)
    <3>1. keyboard_buffer' = b /\ buffer_head' = h /\ buffer_tail' = u
      BY <1>1, <1>4, <2>2, <2>3
    <3>2. Buffered' = Span(b, h, u)
      BY <3>1 DEF Buffered, Span
    <3>3. Ring(b, h, u) = Span(b, h, u)
      BY <1>4, <2>3, RingMeans
    <3> QED
      BY <3>2, <3>3, Zenon
  <2>6. Buffered' = Tail(Buffered) /\ Buffered # <<>> /\ Head(Buffered) = b[t]
    BY <2>1, <2>4, <2>5, Zenon
  <2>7. Buffered' \in Seq(KeySet) /\ b[t] \in KeySet
    BY <2>1, <2>6, HeadTailProperties
  <2>8. KbdTypeOK'
    <3>1. got' \in {Char(k) : k \in KeySet} \cup {NoKey}
      BY <2>2, <2>7 DEF KbdInv, KbdTypeOK
    <3>2. pc' \in [Readers -> {"away", "poll", "wait"}]
      BY <2>2 DEF KbdInv, KbdTypeOK
    <3> QED
      BY <1>1, <2>1, <2>2, <3>1, <3>2 DEF KbdInv, KbdTypeOK
  <2>9. KbdInv'
    BY <1>1, <1>2, <2>7, <2>8 DEF KbdInv
  <2>10. K!Take
    BY <1>3, <2>2, <2>6 DEF K!Take
  <2> QED
    BY <2>9, <2>10 DEF K!Next
<1> QED
  BY <1>5, <1>6

LEMMA KbdNextStep == KbdInv /\ [KbdNext]_kbdvars => KbdInv' /\ [K!Next]_(K!kvars)
<1> SUFFICES ASSUME KbdInv, [KbdNext]_kbdvars PROVE KbdInv' /\ [K!Next]_(K!kvars)
  OBVIOUS
<1>1. CASE UNCHANGED kbdvars
  <2>1. UNCHANGED <<held, coming, hw, shift_pressed, extended_scancode, keyboard_buffer,
                    buffer_head, buffer_tail, pc, got>>
    BY <1>1 DEF kbdvars, driver
  <2>2. OnTheWay' = OnTheWay /\ Buffered' = Buffered
    BY <2>1, BufferedSame DEF OnTheWay
  <2>3. KbdTypeOK'
    BY <2>1 DEF KbdInv, KbdTypeOK
  <2>4. KbdInv'
    BY <2>1, <2>2, <2>3 DEF KbdInv
  <2>5. KeysOf(OnTheWay)' = KeysOf(OnTheWay)
    BY <2>2
  <2> QED
    BY <2>1, <2>2, <2>4, <2>5 DEF K!kvars
<1>2. CASE stroke
  BY <1>2, StrokeStep
<1>3. CASE shift_key
  BY <1>3, ShiftKeyStep
<1>4. CASE arrive
  BY <1>4, ArriveStep
<1>5. ASSUME NEW r \in Readers, sys_read(r) \/ keyboard_poll(r) \/ keyboard_getchar(r)
      PROVE  KbdInv' /\ [K!Next]_(K!kvars)
  BY <1>5, ReadStep, PollStep, GetcharStep
<1> QED
  BY <1>1, <1>2, <1>3, <1>4, <1>5 DEF KbdNext

\* Whatever is typed before, between and during polls, the codes not yet
\* decoded mean to the driver, from the state it is in, the keys they were
\* sent for, and the buffer holds keys and nothing else.
THEOREM KeyboardInvariant == KbdSpec => []KbdInv
  BY KbdInitInv, KbdNextStep, PTL DEF KbdSpec

\* The indices of the buffer stay inside it whatever is typed and however
\* often it wraps, and readers are handed only characters of keys.
THEOREM KeyboardTypeCorrect == KbdSpec => []KbdTypeOK
<1>1. KbdInv => KbdTypeOK
  BY DEF KbdInv
<1> QED
  BY <1>1, KeyboardInvariant, PTL

\* For a buffer of any size and any readers, the driver is a queue of the
\* keys typed: in order, each read once, shifted as typed, an arrow never
\* taken for the pad key its last code is, and dropped only when
\* BUFFER_SIZE - 1 of them wait.
THEOREM KeyboardImplementsKeyQueue == KbdSpec => ImplementsKeyQueue
  BY KbdInitInv, KbdNextStep, KeyboardInvariant, PTL DEF KbdSpec, ImplementsKeyQueue, K!Spec
=============================================================================
