------------------------------ MODULE MCFiles ------------------------------
(***************************************************************************)
(* An instance of Files: a file of two bytes in the root, read two at a    *)
(* time, and a directory m that mount adds to while it is being listed, in *)
(* two steps of which the second may fail, and a path buffer so small that *)
(* a relative path is cut to the working directory itself.                 *)
(***************************************************************************)
EXTENDS Files

SomeChildren == [p \in {<<>>, <<"m">>} |-> IF p = <<>> THEN <<"f", "m">> ELSE <<"g">>]
SomeSizes    == [p \in {<<"f">>, <<"m", "g">>} |-> IF p = <<"f">> THEN 2 ELSE 1]
SomeDevices  == {<<"dev">>}
SomeArgs     == {[abs |-> TRUE, path |-> <<"m">>], [abs |-> FALSE, path |-> <<"f">>]}
SomeMounts   == {<<"m", "n", "o">>, <<"f", "n">>}
SomeOffsets  == {-1}
=============================================================================
