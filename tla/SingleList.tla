------------------------------ MODULE SingleList ------------------------------
(***************************************************************************)
(* CC_SList, the singly linked list (lib/collectc/src/cc_slist.c).  alloc  *)
(* says whether every allocation of the call succeeds.                     *)
(***************************************************************************)
EXTENDS Nodes

\* unlinkn: prev is the node the caller holds for the one before n.
Unlink(l, n, prev) ==
    LET x == NextOf(l, n)
        front == IF prev = Null THEN [l EXCEPT !.head = x] ELSE SetNext(l, prev, x)
    IN  [Freed(front, n) EXCEPT !.tail = IF x = Null THEN prev ELSE @, !.size = @ - 1]

\* get_node_at, for an index inside the list: the node, and the one before it.
NodeAt(l, i) == Forward(l)[i + 1]
BeforeAt(l, i) == IF i = 0 THEN Null ELSE Forward(l)[i]
BeforeNode(l, n) ==
    LET f == Forward(l)
        i == CHOOSE i \in DOMAIN f : f[i] = n /\ \A j \in DOMAIN f : f[j] = n => i <= j
    IN  IF i = 1 THEN Null ELSE f[i - 1]
----------------------------------------------------------------------------
(* Adding.                                                                 *)

AddFirst(l, e, alloc) ==
    LET n == Fresh(l)
        w == [WithNode(l, e) EXCEPT !.size = @ + 1]
    IN  IF ~alloc THEN Refused(l, "ALLOC")
        ELSE IF l.size = 0 THEN Done([w EXCEPT !.head = n, !.tail = n])
        ELSE Done([SetNext(w, n, l.head) EXCEPT !.head = n])

AddLast(l, e, alloc) ==
    LET n == Fresh(l)
        w == [WithNode(l, e) EXCEPT !.size = @ + 1]
    IN  IF ~alloc THEN Refused(l, "ALLOC")
        ELSE IF l.size = 0 THEN Done([w EXCEPT !.head = n, !.tail = n])
        ELSE Done([SetNext(w, l.tail, n) EXCEPT !.tail = n])

AddAt(l, e, index, alloc) ==
    LET n == Fresh(l)
        p == BeforeAt(l, index)
        w == [WithNode(l, e) EXCEPT !.size = @ + 1]
    IN  IF index >= l.size THEN Refused(l, "OUT_OF_RANGE")
        ELSE IF ~alloc THEN Refused(l, "ALLOC")
        ELSE Done(IF p = Null THEN [SetNext(w, n, l.head) EXCEPT !.head = n]
                  ELSE SetNext(SetNext(w, n, NextOf(w, p)), p, n))

AddAll(l1, l2, alloc) ==
    LET x == LinkAllExternally(l1, l2)
        w == IF l1.size = 0 THEN [x.list EXCEPT !.head = x.head] ELSE SetNext(x.list, l1.tail, x.head)
    IN  IF l2.size = 0 THEN Done(l1)
        ELSE IF ~alloc THEN Refused(l1, "ALLOC")
        ELSE Done([w EXCEPT !.tail = x.tail, !.size = @ + l2.size])

AddAllAt(l1, l2, index, alloc) ==
    LET x == LinkAllExternally(l1, l2)
        p == BeforeAt(l1, index)
        w == SetNext(x.list, x.tail, NodeAt(l1, index))
    IN  IF l2.size = 0 THEN Done(l1)
        ELSE IF index >= l1.size THEN Refused(l1, "OUT_OF_RANGE")
        ELSE IF ~alloc THEN Refused(l1, "ALLOC")
        ELSE Done([(IF p = Null THEN [w EXCEPT !.head = x.head] ELSE SetNext(w, p, x.head))
                   EXCEPT !.size = @ + l2.size])

\* Both lists change: other is what is left of l2.
Splice(l1, l2) ==
    LET g == Given(l1, l2)
        w == IF l1.size = 0 THEN [g EXCEPT !.head = l2.head] ELSE SetNext(g, l1.tail, l2.head)
    IN  IF l2.size = 0 THEN [r |-> Done(l1), other |-> l2]
        ELSE [r |-> Done([w EXCEPT !.tail = l2.tail]), other |-> Emptied(l2)]

\* splice_between; a node at the index there always is.
SpliceBetween(l1, l2, base, end) ==
    LET g == Given(l1, l2) IN
    IF base = Null THEN [SetNext(g, l2.tail, l1.head) EXCEPT !.head = l2.head]
    ELSE SetNext(SetNext(g, base, l2.head), l2.tail, end)

SpliceAt(l1, l2, index) ==
    IF l2.size = 0 THEN [r |-> Done(l1), other |-> l2]
    ELSE IF index >= l1.size THEN [r |-> Refused(l1, "OUT_OF_RANGE"), other |-> l2]
    ELSE [r |-> Done(SpliceBetween(l1, l2, BeforeAt(l1, index), NodeAt(l1, index))),
          other |-> Emptied(l2)]

ReplaceAt(l, e, index) ==
    IF index >= l.size THEN Refused(l, "OUT_OF_RANGE")
    ELSE DoneWith(SetData(l, NodeAt(l, index), e), DataOf(l, NodeAt(l, index)))
----------------------------------------------------------------------------
(* Removing.                                                               *)

RemoveNode(l, n, prev) == DoneWith(Unlink(l, n, prev), DataOf(l, n))

Remove(l, e) ==
    LET n == GetNode(l, e) IN
    IF n = Null THEN Refused(l, "VALUE_NOT_FOUND") ELSE RemoveNode(l, n, BeforeNode(l, n))
RemoveAt(l, index) ==
    IF index >= l.size THEN Refused(l, "OUT_OF_RANGE")
    ELSE RemoveNode(l, NodeAt(l, index), BeforeAt(l, index))
RemoveFirst(l) == IF l.size = 0 THEN Refused(l, "VALUE_NOT_FOUND") ELSE RemoveNode(l, l.head, Null)
RemoveLast(l) == IF l.size = 0 THEN Refused(l, "VALUE_NOT_FOUND") ELSE RemoveAt(l, l.size - 1)
RemoveAll(l) == IF l.size = 0 THEN Refused(l, "VALUE_NOT_FOUND") ELSE Done([NewList EXCEPT !.spilt = l.spilt])

\* The node before the next one is kept up only when nothing was removed.
FilterMut(l, keep) ==
    LET nodes == Forward(l)
        turn[k \in 0..Len(nodes)] ==
            IF k = 0 THEN [list |-> l, prev |-> Null]
            ELSE LET t == turn[k - 1] IN
                 IF DataOf(l, nodes[k]) \in keep THEN [t EXCEPT !.prev = nodes[k]]
                 ELSE [t EXCEPT !.list = Unlink(@, nodes[k], t.prev)]
    IN  IF l.size = 0 THEN Refused(l, "OUT_OF_RANGE") ELSE Done(turn[Len(nodes)].list)
----------------------------------------------------------------------------
(* Copies, in lists of the default configuration.                          *)

Added(s) ==
    LET upto[k \in 0..Len(s)] == IF k = 0 THEN NewList ELSE AddLast(upto[k - 1], s[k], TRUE).list
    IN  upto[Len(s)]
Copied(l, s, alloc) == IF alloc THEN Done(Added(s)) ELSE Refused(l, "ALLOC")

CopyShallow(l, alloc) == Copied(l, Contents(l), alloc)
CopyDeep(l, cp, alloc) == Copied(l, [i \in DOMAIN Contents(l) |-> cp[Contents(l)[i]]], alloc)
Sublist(l, from, to, alloc) ==
    IF from > to \/ to >= l.size THEN Refused(l, "INVALID_RANGE")
    ELSE Copied(l, SubSeq(Data(l, Along(l, NodeAt(l, from), TRUE)), 1, to - from + 1), alloc)

\* What there is no memory for is left out: room nodes are to be had.
Filter(l, keep, alloc, room) ==
    LET kept == SelectSeq(Contents(l), LAMBDA x : x \in keep)
    IN  IF l.size = 0 THEN Refused(l, "OUT_OF_RANGE")
        ELSE Copied(l, SubSeq(kept, 1, IF room < Len(kept) THEN room ELSE Len(kept)), alloc)
----------------------------------------------------------------------------
(* Reading, reversing and sorting.                                         *)

GetAt(l, index) ==
    IF index >= l.size THEN Refused(l, "OUT_OF_RANGE") ELSE DoneWith(l, DataOf(l, NodeAt(l, index)))
GetFirst(l) == IF l.size = 0 THEN Refused(l, "VALUE_NOT_FOUND") ELSE DoneWith(l, DataOf(l, l.head))
GetLast(l) == IF l.size = 0 THEN Refused(l, "VALUE_NOT_FOUND") ELSE DoneWith(l, DataOf(l, l.tail))

\* Every link is flipped on one way through the list.
Reverse(l) ==
    LET nodes == Forward(l)
        flipped[k \in 0..Len(nodes)] ==
            IF k = 0 THEN [l EXCEPT !.tail = l.head]
            ELSE SetNext(flipped[k - 1], nodes[k], IF k = 1 THEN Null ELSE nodes[k - 1])
    IN  IF l.size < 2 THEN Done(l) ELSE Done([flipped[Len(nodes)] EXCEPT !.head = nodes[Len(nodes)]])

ToArray(l, alloc) ==
    IF alloc THEN DoneWith(l, SubSeq(Contents(l), 1, l.size)) ELSE Refused(l, "ALLOC")
Sort(l, alloc) ==
    IF l.size = 1 THEN Done(l)
    ELSE IF ToArray(l, alloc).stat # "OK" THEN Refused(l, "ALLOC") ELSE Done(SortedData(l))
----------------------------------------------------------------------------
(* Iterators: last is the field current, the node returned last, and prev  *)
(* the one returned before it that is still there.                         *)

IterInit(l) == [index |-> 0, last |-> Null, prev |-> Null, next |-> l.head]

Ended(it) == [it |-> it, stat |-> "ITER_END", out |-> Junk]
IterNext(l, it) ==
    IF it.next = Null THEN Ended(it)
    ELSE [it |-> [index |-> it.index + 1, last |-> it.next, next |-> NextOf(l, it.next),
                  prev |-> IF it.last # Null THEN it.last ELSE it.prev],
          stat |-> "OK", out |-> DataOf(l, it.next)]

IterRemove(l, it) ==
    IF it.last = Null THEN [r |-> Refused(l, "VALUE_NOT_FOUND"), it |-> it]
    ELSE [r |-> RemoveNode(l, it.last, it.prev), it |-> [it EXCEPT !.last = Null, !.index = @ - 1]]

IterReplace(l, it, e) ==
    IF it.last = Null THEN [r |-> Refused(l, "VALUE_NOT_FOUND"), it |-> it]
    ELSE [r |-> DoneWith(SetData(l, it.last, e), DataOf(l, it.last)), it |-> it]

\* A new node between the one returned last and the next one.
AddedBetween(l, last, next, index, e) ==
    LET n == Fresh(l)
        w == SetNext(SetNext(WithNode(l, e), n, next), last, n)
    IN  [w EXCEPT !.tail = IF index = l.size THEN n ELSE @, !.size = @ + 1]

IterAdd(l, it, e, alloc) ==
    IF ~alloc THEN [r |-> Refused(l, "ALLOC"), it |-> it]
    ELSE [r |-> Done(AddedBetween(l, it.last, it.next, it.index, e)), it |-> [it EXCEPT !.index = @ + 1]]

ZipInit(l1, l2) ==
    [index |-> 0, last |-> Null, prev |-> Null, next |-> l1.head,
     last2 |-> Null, prev2 |-> Null, next2 |-> l2.head]

ZipNext(l1, l2, it) ==
    IF it.next = Null \/ it.next2 = Null THEN Ended(it)
    ELSE [it |-> [index |-> it.index + 1,
                  last |-> it.next, next |-> NextOf(l1, it.next),
                  prev |-> IF it.last # Null THEN it.last ELSE it.prev,
                  last2 |-> it.next2, next2 |-> NextOf(l2, it.next2),
                  prev2 |-> IF it.last2 # Null THEN it.last2 ELSE it.prev2],
          stat |-> "OK", out |-> <<DataOf(l1, it.next), DataOf(l2, it.next2)>>]

ZipOn(it) == it.last # Null /\ it.last2 # Null
ZipRefused(l1, l2, it, stat) == [r1 |-> Refused(l1, stat), r2 |-> Refused(l2, stat), it |-> it]

ZipRemove(l1, l2, it) ==
    IF ~ZipOn(it) THEN ZipRefused(l1, l2, it, "VALUE_NOT_FOUND")
    ELSE [r1 |-> RemoveNode(l1, it.last, it.prev), r2 |-> RemoveNode(l2, it.last2, it.prev2),
          it |-> [it EXCEPT !.last = Null, !.last2 = Null, !.index = @ - 1]]

ZipAdd(l1, l2, it, e1, e2, alloc) ==
    IF ~alloc THEN ZipRefused(l1, l2, it, "ALLOC")
    ELSE [r1 |-> Done(AddedBetween(l1, it.last, it.next, it.index, e1)),
          r2 |-> Done(AddedBetween(l2, it.last2, it.next2, it.index, e2)),
          it |-> [it EXCEPT !.index = @ + 1]]

ZipReplace(l1, l2, it, e1, e2) ==
    IF ~ZipOn(it) THEN ZipRefused(l1, l2, it, "VALUE_NOT_FOUND")
    ELSE [r1 |-> DoneWith(SetData(l1, it.last, e1), DataOf(l1, it.last)),
          r2 |-> DoneWith(SetData(l2, it.last2, e2), DataOf(l2, it.last2)), it |-> it]
=============================================================================
