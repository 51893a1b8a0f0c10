------------------------------- MODULE Paper -------------------------------
(***************************************************************************)
(* What the console promises whoever writes to it: an endless roll of      *)
(* paper and a pen.  A step changes at most the cell under the pen, the    *)
(* pen moves forward, to the start of a line or one cell back, and no line *)
(* is ever lost.  The pen need not get back past the start of a line: that *)
(* depends on how much of the paper is in sight.                           *)
(***************************************************************************)
EXTENDS Integers, Sequences

CONSTANTS
  Width,    \* columns
  Height,   \* rows of blank paper at the start
  TabStop,  \* distance of the tabulator stops
  Glyphs,   \* printable characters
  Blank     \* the empty cell

VARIABLES
  rows,     \* the paper, a sequence of rows
  row,      \* where the pen is
  col

papervars == <<rows, row, col>>

BlankRow == [x \in 0 .. Width - 1 |-> Blank]

Init ==
  /\ rows = [y \in 1 .. Height |-> BlankRow]
  /\ row = 1
  /\ col = 0

\* The pen goes to (x, y) of a paper p; both edges are turned into lines.
GoTo(p, x, y) ==
  LET line == IF x < Width THEN y ELSE y + 1 IN
  /\ col' = IF x < Width THEN x ELSE 0
  /\ row' = line
  /\ rows' = IF line > Len(p) THEN Append(p, BlankRow) ELSE p

Inked(x, y, g) == [rows EXCEPT ![y] = [@ EXCEPT ![x] = g]]

Ink(g)         == GoTo(Inked(col, row, g), col + 1, row)
NewLine        == GoTo(rows, 0, row + 1)
CarriageReturn == GoTo(rows, 0, row)
Tab            == \E stop \in col + 1 .. col + TabStop :
                    stop % TabStop = 0 /\ GoTo(rows, stop, row)

BackTo(x, y) == row' = y /\ col' = x /\ rows' = Inked(x, y, Blank)

Back == IF col > 0 THEN BackTo(col - 1, row)
        ELSE row > 1 /\ BackTo(Width - 1, row - 1)

Next == (\E g \in Glyphs : Ink(g)) \/ NewLine \/ CarriageReturn \/ Tab \/ Back

Spec == Init /\ [][Next]_papervars
=============================================================================
