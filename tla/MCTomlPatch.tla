---------------------------- MODULE MCTomlPatch ----------------------------
(***************************************************************************)
(* Small instances of TomlPatch: the keys x and y at the root, in table a  *)
(* and in its sub-table a.b, some of them with a value of several lines.   *)
(***************************************************************************)
EXTENDS TomlPatch

A == <<"a">>
AB == <<"a", "b">>
X == <<"x">>
Y == <<"y">>

AllLines ==
    {Key(X, 0), Key(X, 1), Commented(Key(X, 0)), Commented(Key(X, 1)), Key(Y, 0)}
    \cup {Table(A), Table(AB), Commented(Table(A))}
    \cup {Text(-1), Commented(Text(-1))}

AllPaths == {X, Y, A \o X}
ShownPaths == {X, A \o X}
=============================================================================
