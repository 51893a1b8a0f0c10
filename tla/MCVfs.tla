------------------------------- MODULE MCVfs -------------------------------
(***************************************************************************)
(* An instance of Vfs: two names, paths of two, a device and a system        *)
(* directory that archives may get in the way of.                          *)
(***************************************************************************)
EXTENDS Vfs

Abs(p, slash) == [abs |-> TRUE, path |-> p, slash |-> slash]
Rel(p, slash) == [abs |-> FALSE, path |-> p, slash |-> slash]

SomeTargets == {Abs(<<"a">>, FALSE), Abs(<<"b", "a">>, TRUE), Rel(<<"b">>, FALSE)}
OneDevice   == << <<"a", "b">> >>
OneDir      == << <<"b">> >>
=============================================================================
