------------------------------ MODULE Kprintf ------------------------------
(***************************************************************************)
(* kprintf of core/drivers/vga.c as a function from a directive and its    *)
(* argument to the characters it prints, and what C says printf prints.    *)
(*                                                                         *)
(* A directive has been parsed: [left, zero_pad, alt, width, precision,    *)
(* length, spec], precision -1 when there is none.  A character is a       *)
(* string of length one, a text a sequence of them.  The integer types     *)
(* keep their order but have only a few bits each.                         *)
(***************************************************************************)
EXTENDS Integers, Sequences, SequencesExt

CONSTANTS
  Bits,        \* bits of the types the length modifiers name
  Widths,      \* widths of the directives compared with C
  Precisions   \* their precisions, -1 for none

ASSUME KprintfAssumption ==
  /\ \A l \in DOMAIN Bits : Bits[l] \in Nat \ {0}
  /\ Widths \subseteq Nat /\ Precisions \subseteq {-1} \cup Nat

Digits(upper) ==
  <<"0", "1", "2", "3", "4", "5", "6", "7", "8", "9">> \o
  (IF upper THEN <<"A", "B", "C", "D", "E", "F">> ELSE <<"a", "b", "c", "d", "e", "f">>)

Fill(ch, n) == [i \in 1 .. n |-> ch]

Bases == [d |-> 10, u |-> 10, x |-> 16, X |-> 16, o |-> 8, p |-> 16]

-----------------------------------------------------------------------------
\* va_arg and the cast: the low bits of the argument, with or without sign.
Unsigned(word, length) == word % 2 ^ Bits[length]

Signed(word, length) ==
  LET v == Unsigned(word, length) IN
  IF v >= 2 ^ (Bits[length] - 1) THEN v - 2 ^ Bits[length] ELSE v

\* Faulty variant, for mutation testing.
abs_s64_complement(value) == IF value < 0 THEN -(value + 1) ELSE value

\* The smallest number has no positive counterpart of its type.  No step leaves
\* the range of its own: the sum is not the smallest number when it is negated,
\* and the last 1 is added to an unsigned number.
abs_s64(value) == IF value < 0 THEN -(value + 1) + 1 ELSE value

\* The digits, lowest first.
u64_to_str(value, base, upper) ==
  LET low[v \in 0 .. value] ==
        IF v = 0 THEN <<>> ELSE <<Digits(upper)[(v % base) + 1]>> \o low[v \div base]
  IN  IF value = 0 THEN <<"0">> ELSE low[value]

kputs_padded(str, left, width, pad) ==
  IF left THEN str \o Fill(" ", width - Len(str)) ELSE Fill(pad, width - Len(str)) \o str

format_number(value, sign, dir) ==
  LET base   == Bases[dir.spec]
      upper  == dir.spec = "X"
      str    == Reverse(u64_to_str(value, base, upper))
      prec   == IF dir.precision < 0 THEN 1 ELSE dir.precision
      number == IF value = 0 /\ prec = 0 THEN <<>>
                ELSE Fill("0", prec - Len(str)) \o str
      prefix == CASE dir.alt /\ value # 0 /\ base = 16 -> <<"0", IF upper THEN "X" ELSE "x">>
                  [] dir.alt /\ value # 0 /\ base = 8 -> <<"0">>
                  [] OTHER -> <<>>
      zero   == dir.zero_pad /\ ~dir.left /\ dir.precision < 0
      width  == dir.width - Len(prefix) - Len(sign)
  IN  CASE zero -> sign \o prefix \o kputs_padded(number, FALSE, width, "0")
        [] ~zero /\ sign # <<>> ->
             kputs_padded(sign, dir.left, width, " ") \o prefix
               \o kputs_padded(number, dir.left, dir.width - Len(prefix) - 1, " ")
        [] OTHER -> prefix \o kputs_padded(number, dir.left, width, " ")

format_string(str, dir) ==
  kputs_padded(IF dir.precision >= 0 /\ Len(str) > dir.precision
                 THEN SubSeq(str, 1, dir.precision) ELSE str, dir.left, dir.width, " ")

format_char(ch, dir) == kputs_padded(<<ch>>, dir.left, dir.width, " ")

\* A pointer has all its digits and a prefix, unless it is NULL.
format_pointer(value, dir) ==
  format_number(value, <<>>,
    [dir EXCEPT !.alt = TRUE,
                !.precision = IF @ < 0 THEN (Bits["z"] + 3) \div 4 ELSE @])

\* The switch of kvprintf: the argument is a word, a text or a character.
kvprintf(dir, arg) ==
  CASE dir.spec = "d" ->
         LET v == Signed(arg, dir.length) IN
         format_number(abs_s64(v), IF v < 0 THEN <<"-">> ELSE <<>>, dir)
    [] dir.spec \in {"u", "x", "X", "o"} ->
         format_number(Unsigned(arg, dir.length), <<>>, dir)
    [] dir.spec = "p" -> format_pointer(Unsigned(arg, "z"), dir)
    [] dir.spec = "s" -> format_string(arg, dir)
    [] dir.spec = "c" -> format_char(arg, dir)

-----------------------------------------------------------------------------
(***************************************************************************)
(* What C says: the numeral of the value, at least precision digits long,  *)
(* behind sign and prefix, filled up to the width on the left, on the      *)
(* right, or with zeros in between.                                        *)
(***************************************************************************)
Places(value, base) ==
  CHOOSE n \in 1 .. 16 : base ^ n > value /\ (n = 1 \/ base ^ (n - 1) <= value)

Numeral(value, base, upper) ==
  LET n == Places(value, base) IN
  [i \in 1 .. n |-> Digits(upper)[((value \div base ^ (n - i)) % base) + 1]]

CText(value, dir) ==
  LET size   == IF value < 0 THEN -value ELSE value
      base   == Bases[dir.spec]
      plain  == IF size = 0 /\ dir.precision = 0 THEN <<>>
                ELSE Numeral(size, base, dir.spec = "X")
      number == Fill("0", dir.precision - Len(plain)) \o plain
      before == (IF value < 0 THEN <<"-">> ELSE <<>>) \o
                (IF dir.alt /\ size # 0 THEN <<"0", dir.spec>> ELSE <<>>)
      gap    == dir.width - Len(before) - Len(number)
  IN  IF dir.left THEN before \o number \o Fill(" ", gap)
      ELSE IF dir.zero_pad /\ dir.precision < 0 THEN before \o Fill("0", gap) \o number
      ELSE Fill(" ", gap) \o before \o number

\* A text, cut to the precision, in a field of at least width columns.
CField(text, dir) ==
  LET n   == IF dir.precision >= 0 /\ dir.precision < Len(text) THEN dir.precision ELSE Len(text)
      gap == IF dir.width > n THEN dir.width - n ELSE 0
  IN  [i \in 1 .. gap + n |->
         LET at == IF dir.left THEN i ELSE i - gap IN
         IF at \in 1 .. n THEN text[at] ELSE " "]

\* What a pointer is printed like: all its digits behind 0x.
AsPointer(dir) ==
  [dir EXCEPT !.spec = "x", !.alt = TRUE, !.length = "z",
              !.precision = IF @ < 0 THEN (Bits["z"] + 3) \div 4 ELSE @]

Value(dir, word) ==
  IF dir.spec = "d" THEN Signed(word, dir.length) ELSE Unsigned(word, dir.length)

Directives ==
  [left : BOOLEAN, zero_pad : BOOLEAN, alt : BOOLEAN, width : Widths,
   precision : Precisions, length : DOMAIN Bits, spec : {"d", "u", "x", "X", "o"}]

Texts == UNION {[1 .. n -> {"a", "b"}] : n \in 0 .. 4}

Words == UNION {0 .. 2 ^ Bits[l] - 1 : l \in DOMAIN Bits}

\* Where the two part: a sign is filled up by itself, a prefix comes before
\* the blanks, and '#' with 'o' adds a zero to a number that has one.
ZeroFilled(dir) == dir.zero_pad /\ ~dir.left /\ dir.precision < 0

Apart(dir, word) ==
  \/ dir.alt /\ dir.spec \in {"d", "u", "o"}
  \/ ~ZeroFilled(dir) /\ Value(dir, word) < 0 /\ dir.width > 2
  \/ ~ZeroFilled(dir) /\ ~dir.left /\ dir.alt /\ dir.width > 2 /\ Value(dir, word) # 0

With(dir, spec) == [dir EXCEPT !.spec = spec]

LikeC ==
  \A dir \in Directives :
    /\ \A word \in Words :
         /\ ~Apart(dir, word) => kvprintf(dir, word) = CText(Value(dir, word), dir)
         /\ ~Apart(AsPointer(dir), word) =>
              kvprintf(With(dir, "p"), word) = CText(Value(AsPointer(dir), word), AsPointer(dir))
    /\ \A text \in Texts : kvprintf(With(dir, "s"), text) = CField(text, dir)
    /\ kvprintf(With(dir, "c"), "a") = CField(<<"a">>, [dir EXCEPT !.precision = -1])
=============================================================================
