----------------------------- MODULE ListContract -----------------------------
(***************************************************************************)
(* What the lists of Collections-C promise their callers: a sequence of    *)
(* elements, and an iterator that stands somewhere in it.  before is what  *)
(* the iterator went past, rest what it has still to return; without an    *)
(* iterator before is empty.  call is the last call made and answer what   *)
(* came of it.                                                             *)
(***************************************************************************)
EXTENDS Integers, Sequences, SequencesExt, FiniteSets, TLC

CONSTANT Junk    \* the answer's element when there is none

VARIABLES before, rest, call, answer

Elements(s) == {s[i] : i \in DOMAIN s}
Places(s, e) == {i \in DOMAIN s : s[i] = e}
First(s, e) == CHOOSE i \in Places(s, e) : \A j \in Places(s, e) : i <= j

Gives(s, x) == [list |-> s, ok |-> TRUE, out |-> x]
Leaves(s) == Gives(s, Junk)
Refuses(s) == [list |-> s, ok |-> FALSE, out |-> Junk]

\* The element at place i, counted from 0.
OrRefuse(s, i, promised) == IF i < Len(s) THEN promised ELSE Refuses(s)
OrRefuseElement(s, e, promised) == IF e \in Elements(s) THEN promised ELSE Refuses(s)

\* The call may refuse an empty sequence.
OnEmpty(s) == IF s = <<>> THEN {Refuses(s)} ELSE {}

\* What reduce makes of a sequence with the function below, whose second argument is Junk
\* for a sequence of one.
Fold(x, y) == 10 * x + y
Folded(s) ==
    LET upto[k \in 1..Len(s)] == IF k = 1 THEN s[1] ELSE Fold(upto[k - 1], s[k])
    IN  IF Len(s) = 1 THEN Fold(s[1], Junk) ELSE upto[Len(s)]

\* What a call on the sequence s may give.
Promised(s, c) ==
    LET n == Len(s) IN
    CASE c.op = "add_first"  -> {Leaves(<<c.e>> \o s)}
      [] c.op = "add_last"   -> {Leaves(Append(s, c.e))}
      [] c.op = "add_at"     -> IF c.at = n THEN {Leaves(Append(s, c.e)), Refuses(s)}
                                ELSE {OrRefuse(s, c.at, Leaves(InsertAt(s, c.at + 1, c.e)))}
      [] c.op = "replace_at" -> {OrRefuse(s, c.at, Gives([s EXCEPT ![c.at + 1] = c.e], s[c.at + 1]))}
      [] c.op = "swap_at"    -> {OrRefuse(s, c.at, OrRefuse(s, c.e, Leaves(
                                   [s EXCEPT ![c.at + 1] = s[c.e + 1], ![c.e + 1] = s[c.at + 1]])))}
      [] c.op = "remove"     -> {OrRefuseElement(s, c.e, Gives(RemoveAt(s, First(s, c.e)), c.e))}
      [] c.op = "remove_at"  -> {OrRefuse(s, c.at, Gives(RemoveAt(s, c.at + 1), s[c.at + 1]))}
      [] c.op = "remove_first" -> {OrRefuse(s, 0, Gives(Tail(s), Head(s)))}
      [] c.op = "remove_last"  -> {OrRefuse(s, 0, Gives(Front(s), Last(s)))}
      [] c.op = "remove_all" -> {Leaves(<<>>)} \cup OnEmpty(s)
      [] c.op \in {"add_all", "splice"} -> {Leaves(s \o c.e)}
      [] c.op \in {"add_all_at", "splice_at"} ->
           (IF c.at <= n THEN {Leaves(SubSeq(s, 1, c.at) \o c.e \o SubSeq(s, c.at + 1, n))} ELSE {})
           \cup (IF c.at >= n THEN {Refuses(s)} ELSE {})
      [] c.op = "sort"       -> {Leaves(SortSeq(s, LAMBDA a, b : a < b))} \cup OnEmpty(s)
      [] c.op = "to_array"   -> {Gives(s, s)}
      [] c.op = "reduce"     -> IF n = 0 THEN {Leaves(s), Refuses(s)} ELSE {Gives(s, Folded(s))}
      [] c.op = "filter"     -> {OrRefuse(s, 0, Leaves(SelectSeq(s, LAMBDA x : x \in c.e)))}
      [] c.op = "subarray"   -> {IF c.at <= c.e THEN OrRefuse(s, c.e, Leaves(SubSeq(s, c.at + 1, c.e + 1)))
                                                ELSE Refuses(s)}
      [] c.op \in {"copy", "trim"} -> {Leaves(s)}
      [] c.op = "reverse"    -> {Leaves(Reverse(s))}
      [] c.op = "get_at"     -> {OrRefuse(s, c.at, Gives(s, s[c.at + 1]))}
      [] c.op = "get_first"  -> {OrRefuse(s, 0, Gives(s, Head(s)))}
      [] c.op = "get_last"   -> {OrRefuse(s, 0, Gives(s, Last(s)))}
      [] c.op = "index_of"   -> {OrRefuseElement(s, c.e, Gives(s, First(s, c.e) - 1))}
      [] c.op = "contains"   -> {Gives(s, Cardinality(Places(s, c.e)))}

IterOps == {"iter_init", "diter_init", "iter_next", "iter_remove", "iter_add", "iter_replace"}

\* A call on the list: it does what it promises, or fails for lack of memory and leaves
\* the list alone.  An array of no elements may be refused or not.
CallList ==
    /\ call'.op \notin IterOps
    /\ before' = <<>>
    /\ \/ \E p \in Promised(before \o rest, call') :
             rest' = p.list /\ (answer'.stat = "OK" <=> p.ok) /\ answer'.out = p.out
       \/ /\ answer'.stat \in {"ALLOC", "MAX_CAPACITY"} /\ ~call'.alloc
          /\ rest' = before \o rest
       \/ call'.op = "to_array" /\ before \o rest = <<>> /\ rest' = <<>>

StartIter ==
    /\ before' = <<>>
    /\ \/ call'.op = "iter_init" /\ rest' = before \o rest
       \/ call'.op = "diter_init" /\ rest' = Reverse(before \o rest)

NextIter ==
    /\ call'.op = "iter_next"
    /\ IF rest = <<>>
       THEN answer'.stat = "ITER_END" /\ before' = before /\ rest' = rest
       ELSE /\ answer' = [stat |-> "OK", out |-> Head(rest)]
            /\ before' = Append(before, Head(rest)) /\ rest' = Tail(rest)

\* An iterator's own changes are around the element it returned last, or one it added
\* since; it may refuse them.  call'.at says how many it added since.
Recent == {Len(before) - call'.at, Len(before)} \cap DOMAIN before

ChangeIter ==
    /\ call'.op \in {"iter_remove", "iter_add", "iter_replace"}
    /\ rest' = rest
    /\ \/ answer'.stat # "OK" /\ before' = before
       \/ answer'.stat = "OK" /\ call'.op = "iter_add" /\ before' = Append(before, call'.e)
       \/ \E k \in Recent :
             /\ answer' = [stat |-> "OK", out |-> before[k]]
             /\ \/ call'.op = "iter_remove" /\ before' = RemoveAt(before, k)
                \/ call'.op = "iter_replace" /\ before' = [before EXCEPT ![k] = call'.e]

Next == CallList \/ StartIter \/ NextIter \/ ChangeIter
=============================================================================
