----------------------------- MODULE MCConsole -----------------------------
(***************************************************************************)
(* A screen of two rows of four columns with tabulator stops every two,    *)
(* and the directives of kprintf on words of a few bits.                   *)
(***************************************************************************)
EXTENDS Console, Kprintf

SomeBits       == [H |-> 3, h |-> 4, i |-> 5, z |-> 6]
SomePrecisions == {-1, 0, 3}

\* Whatever is on the screen, kprintf prints integers, pointers, texts and
\* characters as C says: for every value of every type, the smallest ones
\* and zero included, the flags kprintf knows ('-', '0' and '#') and every
\* width and precision, but for the directives on which the two part: a
\* negative number or one with a prefix in a field filled with blanks, and '#'
\* with 'o' (abs_s64, u64_to_str, format_number, kputs_padded).  kprintf takes
\* '+' and ' ' for no flags and '*' with a negative width for no width; these
\* are left out.
FormatsLikeC == [][LikeC]_vars
=============================================================================
