------------------------------ MODULE LinkedList ------------------------------
(***************************************************************************)
(* CC_List, the doubly linked list (lib/collectc/src/cc_list.c), without a *)
(* pool that copies its elements.  alloc says whether every allocation of  *)
(* the call succeeds; what a call allocated before one failed it gives     *)
(* back.                                                                   *)
(***************************************************************************)
EXTENDS Nodes
----------------------------------------------------------------------------
(* Links.                                                                  *)

\* A node taken from between its neighbours.
Detached(l, ins) ==
    LET n == NextOf(l, ins)
        p == PrevOf(l, ins)
        behind == IF n # Null THEN SetPrev(l, n, p) ELSE l
    IN  IF p # Null THEN SetNext(behind, p, n) ELSE behind

LinkBehind(l, base, ins) ==
    LET d == Detached(l, ins)
        p == PrevOf(d, base)
        w == SetPrev(SetNext(SetPrev(d, ins, p), ins, base), base, ins)
    IN  IF p = Null THEN w ELSE SetNext(w, p, ins)

LinkAfter(l, base, ins) ==
    LET d == Detached(l, ins)
        n == NextOf(d, base)
        w == SetNext(SetPrev(SetNext(d, ins, n), ins, base), base, ins)
    IN  IF n = Null THEN w ELSE SetPrev(w, n, ins)

\* The neighbour behind the node keeps its link to it.
UnlinkOneWay(l, n) ==
    LET p == PrevOf(l, n)
        x == NextOf(l, n)
        front == IF p = Null THEN [l EXCEPT !.head = x] ELSE SetNext(l, p, x)
        back == IF x = Null THEN [front EXCEPT !.tail = p] ELSE front
    IN  [Freed(back, n) EXCEPT !.size = @ - 1]

Unlink(l, n) ==
    LET p == PrevOf(l, n)
        x == NextOf(l, n)
        front == IF p = Null THEN [l EXCEPT !.head = x] ELSE SetNext(l, p, x)
        back == IF x = Null THEN [front EXCEPT !.tail = p] ELSE SetPrev(front, x, p)
    IN  [Freed(back, n) EXCEPT !.size = @ - 1]

\* Two nodes exchanged, the first directly before the second or the other way round.
SwapAdjacent(l, n1, n2) ==
    LET a == IF NextOf(l, n1) = n2 THEN n1 ELSE n2
        b == IF a = n1 THEN n2 ELSE n1
        p == PrevOf(l, a)
        x == NextOf(l, b)
        after == SetNext(IF x # Null THEN SetPrev(l, x, a) ELSE l, a, x)
        before == SetPrev(IF p # Null THEN SetNext(after, p, b) ELSE after, b, p)
    IN  SetNext(SetPrev(before, a, b), b, a)

\* m put between p and x.
Between(l, p, m, x) ==
    LET left == SetPrev(IF p # Null THEN SetNext(l, p, m) ELSE l, m, p)
    IN  SetNext(IF x # Null THEN SetPrev(left, x, m) ELSE left, m, x)

Swap(l, n1, n2) ==
    IF NextOf(l, n1) = n2 \/ NextOf(l, n2) = n1 THEN SwapAdjacent(l, n1, n2)
    ELSE Between(Between(l, PrevOf(l, n1), n2, NextOf(l, n1)), PrevOf(l, n2), n1, NextOf(l, n2))

\* get_node_at, from the nearer end.
NodeAt(l, i) ==
    IF i >= l.size THEN Null
    ELSE IF i < l.size \div 2 THEN Forward(l)[i + 1]
    ELSE Backward(l)[l.size - i]
----------------------------------------------------------------------------
(* Adding.                                                                 *)

AddFirst(l, e, alloc) ==
    LET n == Fresh(l)
        w == [WithNode(l, e) EXCEPT !.size = @ + 1]
    IN  IF ~alloc THEN Refused(l, "ALLOC")
        ELSE IF l.size = 0 THEN Done([w EXCEPT !.head = n, !.tail = n])
        ELSE Done([SetPrev(SetNext(w, n, l.head), l.head, n) EXCEPT !.head = n])

AddLast(l, e, alloc) ==
    LET n == Fresh(l)
        w == [WithNode(l, e) EXCEPT !.size = @ + 1]
    IN  IF ~alloc THEN Refused(l, "ALLOC")
        ELSE IF l.size = 0 THEN Done([w EXCEPT !.head = n, !.tail = n])
        ELSE Done([SetNext(SetPrev(w, n, l.tail), l.tail, n) EXCEPT !.tail = n])

AddAt(l, e, index, alloc) ==
    LET n == Fresh(l)
        w == [LinkBehind(WithNode(l, e), NodeAt(l, index), n) EXCEPT !.size = @ + 1]
    IN  IF index >= l.size THEN Refused(l, "OUT_OF_RANGE")
        ELSE IF ~alloc THEN Refused(l, "ALLOC")
        ELSE Done(IF index = 0 THEN [w EXCEPT !.head = n] ELSE w)

\* Where a call puts several nodes: the node they come before and the one they come after.
EndAt(l, index) == NodeAt(l, index)
BaseAt(l, index) == IF EndAt(l, index) # Null THEN PrevOf(l, EndAt(l, index)) ELSE NodeAt(l, index - 1)

\* The nodes from h to t, linked with one another, put between base and end.
Inserted(l, base, end, h, t) ==
    IF end = Null THEN [SetPrev(SetNext(l, l.tail, h), h, l.tail) EXCEPT !.tail = t]
    ELSE IF base = Null THEN [SetNext(SetPrev(l, l.head, t), t, l.head) EXCEPT !.head = h]
    ELSE SetPrev(SetNext(SetNext(SetPrev(l, h, base), base, h), t, end), end, t)

\* A call on an empty list writes to the tail it does not have.
AddAllAt(l1, l2, index, alloc) ==
    LET x == LinkAllExternally(l1, l2)
        w == Inserted(x.list, IF l1.size = 0 THEN Null ELSE BaseAt(l1, index), EndAt(l1, index), x.head, x.tail)
    IN  IF l2.size = 0 THEN Done(l1)
        ELSE IF index > l1.size THEN Refused(l1, "OUT_OF_RANGE")
        ELSE IF ~alloc THEN Refused(l1, "ALLOC")
        ELSE Done([w EXCEPT !.size = @ + l2.size])

AddAllToEmpty(l1, l2, alloc) ==
    LET x == LinkAllExternally(l1, l2)
    IN  IF l2.size = 0 THEN Done(l1)
        ELSE IF ~alloc THEN Refused(l1, "ALLOC")
        ELSE Done([x.list EXCEPT !.head = x.head, !.tail = x.tail, !.size = l2.size])

AddAll(l1, l2, alloc) ==
    IF l1.size = 0 THEN AddAllToEmpty(l1, l2, alloc) ELSE AddAllAt(l1, l2, l1.size, alloc)

\* splice_between
SpliceBetween(l1, l2, base, end) ==
    LET g == Given(l1, l2) IN
    IF base = Null THEN [SetNext(SetPrev(g, g.head, l2.tail), l2.tail, g.head) EXCEPT !.head = l2.head]
    ELSE IF end = Null THEN [SetPrev(SetNext(g, g.tail, l2.head), l2.head, g.tail) EXCEPT !.tail = l2.tail]
    ELSE SetNext(SetPrev(SetPrev(SetNext(g, base, l2.head), l2.head, base), end, l2.tail), l2.tail, end)

\* Both lists change: other is what is left of l2.
SpliceAt(l1, l2, index) ==
    IF l2.size = 0 THEN [r |-> Done(l1), other |-> l2]
    ELSE IF index > l1.size THEN [r |-> Refused(l1, "OUT_OF_RANGE"), other |-> l2]
    ELSE [r |-> Done(IF l1.size = 0 THEN [Given(l1, l2) EXCEPT !.head = l2.head, !.tail = l2.tail]
                     ELSE SpliceBetween(l1, l2, BaseAt(l1, index), EndAt(l1, index))),
          other |-> Emptied(l2)]
Splice(l1, l2) == SpliceAt(l1, l2, l1.size)

ReplaceAt(l, e, index) ==
    IF index >= l.size THEN Refused(l, "OUT_OF_RANGE")
    ELSE DoneWith(SetData(l, NodeAt(l, index), e), DataOf(l, NodeAt(l, index)))
----------------------------------------------------------------------------
(* Removing.                                                               *)

RemoveNode(l, n) == DoneWith(Unlink(l, n), DataOf(l, n))

Remove(l, e) ==
    IF GetNode(l, e) = Null THEN Refused(l, "VALUE_NOT_FOUND") ELSE RemoveNode(l, GetNode(l, e))
RemoveAt(l, index) ==
    IF index >= l.size THEN Refused(l, "OUT_OF_RANGE") ELSE RemoveNode(l, NodeAt(l, index))
RemoveFirst(l) == IF l.size = 0 THEN Refused(l, "VALUE_NOT_FOUND") ELSE RemoveNode(l, l.head)
RemoveLast(l) == IF l.size = 0 THEN Refused(l, "VALUE_NOT_FOUND") ELSE RemoveNode(l, l.tail)

\* Those nodes of the list unlinked, one after the other.
UnlinkEach(l, nodes) ==
    LET gone[k \in 0..Len(nodes)] == IF k = 0 THEN l ELSE Unlink(gone[k - 1], nodes[k])
    IN  gone[Len(nodes)]

RemoveAll(l) ==
    IF l.size = 0 THEN Refused(l, "VALUE_NOT_FOUND")
    ELSE Done([UnlinkEach(l, Forward(l)) EXCEPT !.head = Null, !.tail = Null])

FilterMut(l, keep) ==
    IF l.size = 0 THEN Refused(l, "OUT_OF_RANGE")
    ELSE Done(UnlinkEach(l, SelectSeq(Forward(l), LAMBDA n : DataOf(l, n) \notin keep)))
----------------------------------------------------------------------------
(* Copies.  The configuration of a copy is a local variable whose pool     *)
(* nobody sets: unset says that it happened to be something else than NULL *)
(* and the first element added is copied through it.                       *)

\* The elements of s added to a new list one by one.
Added(s) ==
    LET upto[k \in 0..Len(s)] == IF k = 0 THEN NewList ELSE AddLast(upto[k - 1], s[k], TRUE).list
    IN  upto[Len(s)]

Copied(l, s, alloc, unset) ==
    IF ~alloc THEN Refused(l, "ALLOC")
    ELSE Done(IF unset /\ s # <<>> THEN Spilt(Added(s)) ELSE Added(s))

CopyShallow(l, alloc, unset) == Copied(l, Contents(l), alloc, unset)
CopyDeep(l, cp, alloc, unset) ==
    Copied(l, [i \in DOMAIN Contents(l) |-> cp[Contents(l)[i]]], alloc, unset)

Sublist(l, b, e, alloc, unset) ==
    IF b > e \/ e >= l.size THEN Refused(l, "INVALID_RANGE")
    ELSE Copied(l, SubSeq(Data(l, Along(l, NodeAt(l, b), TRUE)), 1, e - b + 1), alloc, unset)

\* The new list has the default configuration.  What there is no memory for is left out:
\* room is the number of nodes there is memory for.
Filter(l, keep, alloc, room) ==
    LET kept == SelectSeq(Contents(l), LAMBDA x : x \in keep)
    IN  IF l.size = 0 THEN Refused(l, "OUT_OF_RANGE")
        ELSE Copied(l, SubSeq(kept, 1, IF room < Len(kept) THEN room ELSE Len(kept)),
                    alloc, FALSE)
----------------------------------------------------------------------------
(* Reading, reversing and sorting.                                         *)

GetAt(l, index) ==
    IF index >= l.size THEN Refused(l, "OUT_OF_RANGE") ELSE DoneWith(l, DataOf(l, NodeAt(l, index)))
GetFirst(l) == IF l.size = 0 THEN Refused(l, "VALUE_NOT_FOUND") ELSE DoneWith(l, DataOf(l, l.head))
GetLast(l) == IF l.size = 0 THEN Refused(l, "VALUE_NOT_FOUND") ELSE DoneWith(l, DataOf(l, l.tail))

\* A caller's function for reduce, one that tells every order of elements apart.
Fold(x, y) == 10 * x + y

\* cc_list_reduce: it is given the result so far and an element.
Reduce(l) ==
    LET s == Contents(l)
        upto[k \in 1..l.size] ==
            IF k = 1 THEN s[1] ELSE Fold(upto[k - 1], s[k])
    IN  IF l.size = 0 THEN Refused(l, "OUT_OF_RANGE")
        ELSE DoneWith(l, IF l.size = 1 THEN Fold(s[1], Junk) ELSE upto[l.size])

\* Pairs from both ends exchanged.
Reverse(l) ==
    LET left == Forward(l)
        right == Backward(l)
        turn[k \in 0..(l.size \div 2)] == IF k = 0 THEN l ELSE Swap(turn[k - 1], left[k], right[k])
    IN  IF l.size < 2 THEN Done(l)
        ELSE Done([turn[l.size \div 2] EXCEPT !.head = l.tail, !.tail = l.head])

ToArray(l, alloc) ==
    IF l.size = 0 THEN Refused(l, "INVALID_RANGE")
    ELSE IF alloc THEN DoneWith(l, SubSeq(Contents(l), 1, l.size)) ELSE Refused(l, "ALLOC")

Sort(l, alloc) ==
    IF ToArray(l, alloc).stat # "OK" THEN Refused(l, ToArray(l, alloc).stat) ELSE Done(SortedData(l))

(***************************************************************************)
(* merge: one turn of its loop compares the next nodes l and r of the two  *)
(* parts and goes past l or moves r before it.  i and j are how many of    *)
(* each part are merged, left and right the ends of what becomes of it.    *)
(***************************************************************************)
MergeTurn(m, k, lSize, rSize) ==
    LET keep == DataOf(m.list, m.l) <= DataOf(m.list, m.r)
        moved == LinkBehind(m.list, m.l, m.r)
        pair == k = 1 /\ lSize + rSize = 2
    IN  CASE keep /\ pair -> [m EXCEPT !.ended = TRUE]
          [] keep /\ ~pair /\ m.i = lSize ->
               [m EXCEPT !.right = Along(m.list, m.r, TRUE)[rSize - m.j], !.ended = TRUE]
          [] keep /\ ~pair /\ m.i # lSize -> [m EXCEPT !.l = NextOf(m.list, m.l), !.i = @ + 1]
          [] ~keep /\ pair -> [m EXCEPT !.list = moved, !.right = m.l, !.left = m.r, !.ended = TRUE]
          [] ~keep /\ ~pair /\ m.j + 1 = rSize ->
               [m EXCEPT !.list = moved, !.right = Along(moved, m.l, TRUE)[lSize - m.i], !.ended = TRUE]
          [] OTHER -> [m EXCEPT !.list = moved, !.left = IF k = 1 THEN m.r ELSE @,
                                !.r = NextOf(m.list, m.r), !.j = @ + 1]

Merge(l, left, right, lSize, rSize) ==
    LET turn[k \in 0..(lSize + rSize)] ==
            IF k = 0 THEN [list |-> l, l |-> left, r |-> right, i |-> 0, j |-> 0,
                           left |-> left, right |-> right, ended |-> FALSE]
            ELSE IF turn[k - 1].ended THEN turn[k - 1]
            ELSE MergeTurn(turn[k - 1], k, lSize, rSize)
    IN  turn[lSize + rSize]

\* split: the halves of the size nodes from b on are sorted, then merged.
RECURSIVE Split(_, _, _)
Split(l, b, size) ==
    IF size < 2 THEN [list |-> l, head |-> b]
    ELSE LET lSize == size \div 2
             rSize == size - lSize
             center == Along(l, b, TRUE)[lSize + 1]
             left == Split(l, b, lSize)
             right == Split(left.list, center, rSize)
             m == Merge(right.list, left.head, right.head, lSize, rSize)
         IN  [list |-> [m.list EXCEPT !.head = m.left, !.tail = m.right], head |-> m.left]

SortInPlace(l) == Done(Split(l, l.head, l.size).list)
----------------------------------------------------------------------------
(* Iterators: the index of the next element, the node returned last and    *)
(* the next one.  A descending iterator has the same functions but for     *)
(* where it starts, steps and adds.                                        *)

IterInit(l) == [index |-> 0, last |-> Null, next |-> l.head]
DiterInit(l) == [index |-> l.size, last |-> Null, next |-> l.tail]

Ended(it) == [it |-> it, stat |-> "ITER_END", out |-> Junk]
IterNext(l, it) ==
    IF it.next = Null THEN Ended(it)
    ELSE [it |-> [index |-> it.index + 1, last |-> it.next, next |-> NextOf(l, it.next)],
          stat |-> "OK", out |-> DataOf(l, it.next)]
DiterNext(l, it) ==
    IF it.next = Null THEN Ended(it)
    ELSE [it |-> [index |-> it.index - 1, last |-> it.next, next |-> PrevOf(l, it.next)],
          stat |-> "OK", out |-> DataOf(l, it.next)]

\* The index is left as it was.
IterRemove(l, it) ==
    IF it.last = Null THEN [r |-> Refused(l, "VALUE_NOT_FOUND"), it |-> it]
    ELSE [r |-> RemoveNode(l, it.last), it |-> [it EXCEPT !.last = Null]]
DiterRemove(l, it) == IterRemove(l, it)

IterReplace(l, it, e) ==
    IF it.last = Null THEN [r |-> Refused(l, "VALUE_NOT_FOUND"), it |-> it]
    ELSE [r |-> DoneWith(SetData(l, it.last, e), DataOf(l, it.last)), it |-> it]
DiterReplace(l, it, e) == IterReplace(l, it, e)

\* A new node behind last, and the tail if the index says so.
AddedAfter(l, last, index, e) ==
    LET n == Fresh(l)
        w == LinkAfter(WithNode(l, e), last, n)
    IN  [w EXCEPT !.tail = IF index = l.size THEN n ELSE @, !.size = @ + 1]

IterAdd(l, it, e, alloc) ==
    IF ~alloc THEN [r |-> Refused(l, "ALLOC"), it |-> it]
    ELSE [r |-> Done(AddedAfter(l, it.last, it.index, e)), it |-> [it EXCEPT !.index = @ + 1]]

DiterAdd(l, it, e, alloc) ==
    LET n == Fresh(l)
        w == LinkBehind(WithNode(l, e), it.last, n)
    IN  IF ~alloc THEN [r |-> Refused(l, "ALLOC"), it |-> it]
        ELSE [r |-> Done([w EXCEPT !.head = IF it.index = 0 THEN n ELSE @, !.size = @ + 1]),
              it |-> [it EXCEPT !.last = n]]

\* Over two lists at once: an index, and last and next of each.
ZipInit(l1, l2) ==
    [index |-> 0, last |-> Null, next |-> l1.head, last2 |-> Null, next2 |-> l2.head]

ZipNext(l1, l2, it) ==
    IF it.next = Null \/ it.next2 = Null THEN Ended(it)
    ELSE [it |-> [index |-> it.index + 1, last |-> it.next, next |-> NextOf(l1, it.next),
                  last2 |-> it.next2, next2 |-> NextOf(l2, it.next2)],
          stat |-> "OK", out |-> <<DataOf(l1, it.next), DataOf(l2, it.next2)>>]

ZipOn(it) == it.last # Null /\ it.last2 # Null
ZipRefused(l1, l2, it, stat) == [r1 |-> Refused(l1, stat), r2 |-> Refused(l2, stat), it |-> it]

ZipRemove(l1, l2, it) ==
    IF ~ZipOn(it) THEN ZipRefused(l1, l2, it, "VALUE_NOT_FOUND")
    ELSE [r1 |-> RemoveNode(l1, it.last), r2 |-> RemoveNode(l2, it.last2),
          it |-> [it EXCEPT !.last = Null, !.last2 = Null]]

ZipAdd(l1, l2, it, e1, e2, alloc) ==
    IF ~alloc THEN ZipRefused(l1, l2, it, "ALLOC")
    ELSE [r1 |-> Done(AddedAfter(l1, it.last, it.index, e1)),
          r2 |-> Done(AddedAfter(l2, it.last2, it.index, e2)),
          it |-> [it EXCEPT !.index = @ + 1]]

ZipReplace(l1, l2, it, e1, e2) ==
    IF ~ZipOn(it) THEN ZipRefused(l1, l2, it, "VALUE_NOT_FOUND")
    ELSE [r1 |-> DoneWith(SetData(l1, it.last, e1), DataOf(l1, it.last)),
          r2 |-> DoneWith(SetData(l2, it.last2, e2), DataOf(l2, it.last2)), it |-> it]
=============================================================================
