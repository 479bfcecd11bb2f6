-------------------------------- MODULE Nodes --------------------------------
(***************************************************************************)
(* What the two linked lists of Collections-C have in common.  A list is a *)
(* record: at, its nodes by address, each with data, next and prev (which  *)
(* a node of a CC_SList does not use); head, tail and size, its fields;    *)
(* spilt, whether a node that is not there was ever written or read        *)
(* through.  As in Deque, an operation is an operator from the list it     *)
(* finds to the list it leaves, its status and what it puts in *out.       *)
(***************************************************************************)
EXTENDS Integers, Sequences, FiniteSets, TLC

CONSTANT Junk

LOCAL INSTANCE FiniteSetsExt

Null == 0

Done(l) == [list |-> l, stat |-> "OK", out |-> Junk]
DoneWith(l, x) == [list |-> l, stat |-> "OK", out |-> x]
Refused(l, stat) == [list |-> l, stat |-> stat, out |-> Junk]

Allocated(l) == DOMAIN l.at
Spilt(l) == [l EXCEPT !.spilt = TRUE]

\* A field of the node n, set through a pointer to it, and read.
SetNext(l, n, x) == IF n \in Allocated(l) THEN [l EXCEPT !.at[n].next = x] ELSE Spilt(l)
SetPrev(l, n, x) == IF n \in Allocated(l) THEN [l EXCEPT !.at[n].prev = x] ELSE Spilt(l)
SetData(l, n, e) == IF n \in Allocated(l) THEN [l EXCEPT !.at[n].data = e] ELSE Spilt(l)
NextOf(l, n) == IF n \in Allocated(l) THEN l.at[n].next ELSE Null
PrevOf(l, n) == IF n \in Allocated(l) THEN l.at[n].prev ELSE Null
DataOf(l, n) == IF n \in Allocated(l) THEN l.at[n].data ELSE Junk

\* The nodes from n on, by next or by prev: a circle is cut after its first round.
Along(l, n, next) ==
    LET N == Cardinality(Allocated(l))
        step[k \in 1..(N + 1)] ==
            IF k = 1 THEN n
            ELSE IF next THEN NextOf(l, step[k - 1]) ELSE PrevOf(l, step[k - 1])
    IN  SelectSeq(step, LAMBDA m : m # Null)
Forward(l) == Along(l, l.head, TRUE)
Backward(l) == Along(l, l.tail, FALSE)
Data(l, nodes) == [i \in DOMAIN nodes |-> DataOf(l, nodes[i])]
Contents(l) == Data(l, Forward(l))

\* Nodes a call allocates are new ones.
Last(l) == Max(Allocated(l) \cup {Null})
Fresh(l) == Last(l) + 1
WithNode(l, e) == [l EXCEPT !.at = (Fresh(l) :> [data |-> e, next |-> Null, prev |-> Null]) @@ @]
Freed(l, n) == [l EXCEPT !.at = [m \in DOMAIN @ \ {n} |-> @[m]]]

\* The nodes of the elements s, at the addresses after base, linked with one another.
Chained(s, base) ==
    [n \in (base + 1)..(base + Len(s)) |->
        [data |-> s[n - base],
         next |-> IF n = base + Len(s) THEN Null ELSE n + 1,
         prev |-> IF n = base + 1 THEN Null ELSE n - 1]]

ListOf(s, base) ==
    [at |-> Chained(s, base), head |-> IF s = <<>> THEN Null ELSE base + 1,
     tail |-> IF s = <<>> THEN Null ELSE base + Len(s), size |-> Len(s), spilt |-> FALSE]

NewList == ListOf(<<>>, 0)

\* link_all_externally: copies of the nodes of l2, in the memory of l1.
LinkAllExternally(l1, l2) ==
    [list |-> [l1 EXCEPT !.at = Chained(SubSeq(Contents(l2), 1, l2.size), Last(l1)) @@ @],
     head |-> Fresh(l1), tail |-> Last(l1) + l2.size]

\* All of l2 goes to l1, whose links are made by the caller.
Given(l1, l2) == [l1 EXCEPT !.at = l2.at @@ @, !.size = @ + l2.size]
Emptied(l2) == [NewList EXCEPT !.spilt = l2.spilt]

Places(l, e) == {i \in 1..Len(Contents(l)) : Contents(l)[i] = e}
IndexOf(l, e) ==
    IF Places(l, e) = {} THEN Refused(l, "OUT_OF_RANGE") ELSE DoneWith(l, Min(Places(l, e)) - 1)
ContainsCount(l, e) == DoneWith(l, Cardinality(Places(l, e)))
GetNode(l, e) == IF Places(l, e) = {} THEN Null ELSE Forward(l)[Min(Places(l, e))]

\* cc_list_sort and cc_slist_sort: the elements sorted by qsort, the nodes left alone.
SortedData(l) ==
    LET sorted == SortSeq(Contents(l), LAMBDA a, b : a < b)
        nodes == Forward(l)
    IN  [l EXCEPT !.at = [n \in DOMAIN @ |->
            IF \E i \in 1..Len(nodes) : nodes[i] = n
            THEN [@[n] EXCEPT !.data = sorted[CHOOSE i \in 1..Len(nodes) : nodes[i] = n]]
            ELSE @[n]]]
=============================================================================
