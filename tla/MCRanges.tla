------------------------------ MODULE MCRanges ------------------------------
(* The range specifiers the runs of Ranges use. *)
EXTENDS Ranges

Both(first, last) == [count |-> 2, first |-> first, last |-> last]
From(first) == [count |-> 1, first |-> first, last |-> 0]
Suffix(n) == From(-n)
Text == [count |-> 0, first |-> 0, last |-> 0]
Empty == [count |-> EOF, first |-> 0, last |-> 0]

SomeSpecs ==
    {Both(0, 1), Both(1, 3), Both(2, 2), Both(4, 9), From(2), Both(3, 1), Text, Empty, Suffix(2)}

SmallSizes == {0, 1, 4, 9}
Junk == {-7, 0, 3, 40}
=============================================================================
