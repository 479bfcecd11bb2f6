------------------------------- MODULE PQueue -------------------------------
(***************************************************************************)
(* The binary heap of Collections-C (src/lib/collectc/src/cc_pqueue.c).    *)
(* A queue is a record: items, the elements in the order of the buffer,    *)
(* and cap, the slots of that buffer.  The slot the source numbers i is    *)
(* items[i + 1], so that the parent of slot k is slot k \div 2.            *)
(***************************************************************************)
EXTENDS Integers, Sequences

CONSTANTS Above(_, _), \* cmp(a, b) > 0
          Capacity,    \* DEFAULT_CAPACITY
          MaxElements  \* CC_MAX_ELEMENTS

NewQueue == [items |-> <<>>, cap |-> Capacity]

\* The slots above k: above[n] is n levels higher, 0 past the root.
Ancestors(k) ==
    LET above[n \in Nat] == IF n = 0 THEN k ELSE above[n - 1] \div 2
    IN  {above[n] : n \in 1..k} \ {0}

ExpandCapacity(q) ==
    [q EXCEPT !.cap = IF 2 * q.cap <= q.cap \/ 2 * q.cap > MaxElements THEN MaxElements ELSE 2 * q.cap]

\* A push that compares the element with its first parent only.
PushOnce(q, x) ==
    LET k   == Len(q.items) + 1
        old == Append(q.items, x)
    IN  [items |-> IF k > 1 /\ Above(x, old[k \div 2])
                   THEN [old EXCEPT ![k] = old[k \div 2], ![k \div 2] = x] ELSE old,
         cap   |-> IF k > q.cap THEN 2 * q.cap ELSE q.cap]

\* The element rises past every ancestor it is above, up to the first it is not.
Push(q, x) ==
    LET k      == Len(q.items) + 1
        passed == {a \in Ancestors(k) :
                      \A b \in Ancestors(k) : b >= a => Above(x, q.items[b])}
        path   == passed \cup {k}
        roomy  == IF Len(q.items) < q.cap THEN q ELSE ExpandCapacity(q)
        old    == Append(q.items, x)
    IN  IF Len(q.items) = MaxElements
        THEN q
        ELSE [roomy EXCEPT !.items =
                [i \in DOMAIN old |-> IF i \notin path THEN old[i]
                                      ELSE IF i \div 2 \in path THEN old[i \div 2] ELSE x]]

Top(q) == q.items[1]

\* The child that takes the place of x at slot i: 0 if x stays.
Riser(s, i, x) ==
    LET left   == 2 * i
        right  == 2 * i + 1
        byLeft == left <= Len(s) /\ Above(s[left], x)
        best   == IF byLeft THEN s[left] ELSE x
    IN  IF right <= Len(s) /\ Above(s[right], best) THEN right
        ELSE IF byLeft THEN left ELSE 0

\* cc_pqueue_heapify from the root, where x was put: its way down, 0 once it stays.
Heapify(s, x) ==
    LET way[n \in Nat] == IF n = 0 THEN 1 ELSE IF way[n - 1] = 0 THEN 0 ELSE Riser(s, way[n - 1], x)
        path == {way[n] : n \in 0..Len(s)} \ {0}
    IN  [i \in 1..Len(s) |->
            IF i \notin path THEN s[i]
            ELSE IF Riser(s, i, x) = 0 THEN x ELSE s[Riser(s, i, x)]]

Pop(q) ==
    LET n == Len(q.items)
    IN  [q EXCEPT !.items = IF n = 1 THEN <<>>
                            ELSE Heapify(SubSeq(q.items, 1, n - 1), q.items[n])]

=============================================================================
