------------------------------ MODULE Console ------------------------------
(***************************************************************************)
(* The text console of core/drivers/vga.c: a character memory addressed by *)
(* one index, a cursor, and vga_putchar, through which every byte of the   *)
(* system reaches the screen (sys_write, kprintf and the echo of the       *)
(* keyboard).  The rows that have scrolled off are kept in above, so that  *)
(* screen and past together can be compared with an endless Paper.         *)
(*                                                                         *)
(* A cell is its character: the colour is set once, at boot.  The cursor   *)
(* is never set by anyone else than vga_putchar after vga_init.            *)
(***************************************************************************)
EXTENDS Integers, Sequences

CONSTANTS
  Width,     \* VGA_WIDTH
  Height,    \* VGA_HEIGHT
  TabStop,   \* 8
  Glyphs,    \* printable characters
  Blank,     \* ' '
  MaxAbove   \* bound: rows that scroll off

ASSUME ConsoleAssumption ==
  /\ Width \in Nat \ {0} /\ Height \in Nat \ {0} /\ TabStop \in Nat \ {0}
  /\ Width % TabStop = 0
  /\ MaxAbove \in Nat

VARIABLES
  mem,       \* VGA_MEMORY
  cursor_x,
  cursor_y,
  above      \* the rows that have scrolled off, oldest first

vars == <<mem, cursor_x, cursor_y, above>>

Cells == 0 .. Width * Height - 1
Index(x, y) == y * Width + x

\* The cursor stays on the screen, so every write of vga_putchar is inside
\* the character memory, whatever is printed.
TypeOK ==
  /\ mem \in [Cells -> Glyphs \cup {Blank}]
  /\ cursor_x \in 0 .. Width - 1
  /\ cursor_y \in 0 .. Height - 1

\* vga_init
Init ==
  /\ mem = [i \in Cells |-> Blank]
  /\ cursor_x = 0
  /\ cursor_y = 0
  /\ above = <<>>

-----------------------------------------------------------------------------
Row(m, y) == [x \in 0 .. Width - 1 |-> m[Index(x, y)]]

\* Faulty variant, for mutation testing.
vga_scroll_uncleared(m) ==
  [i \in Cells |-> IF i + Width \in Cells THEN m[i + Width] ELSE m[i]]

\* Every row moves up, the last one is cleared.
vga_scroll(m) ==
  [i \in Cells |-> IF i + Width \in Cells THEN m[i + Width] ELSE Blank]

\* Faulty variant, for mutation testing.
Settle_unscrolled(m, x, y) ==
  /\ cursor_x' = IF x >= Width THEN 0 ELSE x
  /\ cursor_y' = IF x >= Width THEN y + 1 ELSE y
  /\ mem' = m
  /\ UNCHANGED above

\* The end of vga_putchar, with the memory m and the cursor at (x, y): first
\* the right edge, then the lower one.
Settle(m, x, y) ==
  LET line == IF x >= Width THEN y + 1 ELSE y IN
  /\ cursor_x' = IF x >= Width THEN 0 ELSE x
  /\ IF line >= Height
       THEN /\ Len(above) < MaxAbove
            /\ mem' = vga_scroll(m)
            /\ cursor_y' = Height - 1
            /\ above' = Append(above, Row(m, 0))
       ELSE /\ mem' = m
            /\ cursor_y' = line
            /\ UNCHANGED above

\* vga_putchar, one action for each kind of character.
putchar_glyph(g) ==
  Settle([mem EXCEPT ![Index(cursor_x, cursor_y)] = g], cursor_x + 1, cursor_y)

putchar_newline == Settle(mem, 0, cursor_y + 1)

putchar_return == Settle(mem, 0, cursor_y)

\* (cursor_x + 8) & ~7
putchar_tab == Settle(mem, ((cursor_x + TabStop) \div TabStop) * TabStop, cursor_y)

\* Back over the start of a row to the end of the one above, but not past
\* the upper left corner.  This branch returns without the end part.
putchar_backspace ==
  /\ ~(cursor_x = 0 /\ cursor_y = 0)
  /\ cursor_x' = IF cursor_x > 0 THEN cursor_x - 1 ELSE Width - 1
  /\ cursor_y' = IF cursor_x > 0 THEN cursor_y ELSE cursor_y - 1
  /\ mem' = [mem EXCEPT ![Index(cursor_x', cursor_y')] = Blank]
  /\ UNCHANGED above

vga_putchar ==
  \/ \E g \in Glyphs : putchar_glyph(g)
  \/ putchar_newline
  \/ putchar_return
  \/ putchar_tab
  \/ putchar_backspace

Spec == Init /\ [][vga_putchar]_vars

-----------------------------------------------------------------------------
Roll == INSTANCE Paper WITH
          rows <- above \o [y \in 1 .. Height |-> Row(mem, y - 1)],
          row <- Len(above) + cursor_y + 1,
          col <- cursor_x

\* What is on the screen below what has scrolled off is what an endless
\* paper would hold: no character is lost, doubled or written anywhere but
\* at the cursor by wrapping, scrolling, tabulators or stepping back
\* (vga_putchar, vga_scroll).
ShowsPaper == Roll!Spec
=============================================================================
