------------------------------ MODULE ArrayList ------------------------------
(***************************************************************************)
(* CC_Array, the growing array that holds routes, filters, threads and     *)
(* ranges (lib/collectc/src/cc_array.c).  An array is a record: buf, the   *)
(* slots of its buffer; size and cap, its fields; factor, its expansion    *)
(* factor; spilt, whether a write ever left the buffer.  The operators     *)
(* are of the form of those of Deque.                                      *)
(***************************************************************************)
EXTENDS Integers, Sequences, FiniteSets

CONSTANTS Junk,          \* what a slot holds that was never written
          MaxElements    \* CC_MAX_ELEMENTS, more than any allocator grants

Done(a) == [list |-> a, stat |-> "OK", out |-> Junk]
DoneWith(a, x) == [list |-> a, stat |-> "OK", out |-> x]
Refused(a, stat) == [list |-> a, stat |-> stat, out |-> Junk]

At(a, i) == IF i \in DOMAIN a.buf THEN a.buf[i] ELSE Junk
Contents(a) == [i \in 1..a.size |-> At(a, i - 1)]

\* No allocator grants the largest capacity.
Granted(cap, alloc) == alloc /\ cap < MaxElements

\* memmove of n slots inside one buffer.
Moved(buf, to, from, n) ==
    [i \in DOMAIN buf |-> IF i \in to..(to + n - 1) THEN buf[i - to + from] ELSE buf[i]]

\* A buffer with a slot written, if it has that slot.
Written(a, i, e) ==
    IF i \in DOMAIN a.buf THEN [a EXCEPT !.buf[i] = e] ELSE [a EXCEPT !.spilt = TRUE]

NewArray(capacity, factor) ==
    [buf |-> [i \in 0..(capacity - 1) |-> Junk], size |-> 0, cap |-> capacity, factor |-> factor,
     spilt |-> FALSE]

\* The first n slots of a buffer in a new one.
Rebuilt(a, n, room) ==
    [i \in 0..(room - 1) |-> IF i < n /\ i \in DOMAIN a.buf THEN a.buf[i] ELSE Junk]
----------------------------------------------------------------------------
(* Growing: capacity is set before the buffer is asked for, and stays when *)
(* there is none.                                                          *)

NextCapacity(a) == IF a.cap * a.factor <= a.cap THEN MaxElements ELSE a.cap * a.factor

ExpandCapacity(a, alloc) ==
    LET cap == NextCapacity(a) IN
    IF a.cap = MaxElements THEN Refused(a, "MAX_CAPACITY")
    ELSE IF ~Granted(cap, alloc) THEN Refused([a EXCEPT !.cap = cap], "ALLOC")
    ELSE Done([a EXCEPT !.cap = cap, !.buf = Rebuilt(a, a.size, cap)])

\* What an insertion starts from.
Holding(a, alloc) == IF a.size >= a.cap THEN ExpandCapacity(a, alloc) ELSE Done(a)

Add(a, e, alloc) ==
    LET h == Holding(a, alloc) IN
    IF h.stat # "OK" THEN h ELSE Done([Written(h.list, a.size, e) EXCEPT !.size = @ + 1])

AddAt(a, e, index, alloc) ==
    LET h == Holding(a, alloc) IN
    IF index = a.size THEN Add(a, e, alloc)
    ELSE IF index > a.size THEN Refused(a, "OUT_OF_RANGE")
    ELSE IF h.stat # "OK" THEN h
    ELSE Done([h.list EXCEPT !.buf = [Moved(@, index + 1, index, a.size - index)
                                          EXCEPT ![index] = e],
                             !.size = @ + 1,
                             !.spilt = @ \/ a.size \notin DOMAIN h.list.buf])

ReplaceAt(a, e, index) ==
    IF index >= a.size THEN Refused(a, "OUT_OF_RANGE")
    ELSE DoneWith([a EXCEPT !.buf[index] = e], a.buf[index])

SwapAt(a, i, j) ==
    IF i >= a.size \/ j >= a.size THEN Refused(a, "OUT_OF_RANGE")
    ELSE Done([a EXCEPT !.buf = [@ EXCEPT ![i] = a.buf[j], ![j] = a.buf[i]]])
----------------------------------------------------------------------------
(* Removing.                                                               *)

\* One slot too few moves.
ClosedShort(a, index) ==
    [a EXCEPT !.buf = Moved(@, index, index + 1, a.size - 2 - index), !.size = @ - 1]

Closed(a, index) ==
    [a EXCEPT !.buf = Moved(@, index, index + 1, a.size - 1 - index), !.size = @ - 1]

RemoveAt(a, index) ==
    IF index >= a.size THEN Refused(a, "OUT_OF_RANGE")
    ELSE DoneWith(Closed(a, index), a.buf[index])

Places(a, e) == {i \in 0..(a.size - 1) : a.buf[i] = e}
LeastOf(S) == CHOOSE i \in S : \A j \in S : i <= j

IndexOf(a, e) ==
    IF Places(a, e) = {} THEN Refused(a, "OUT_OF_RANGE") ELSE DoneWith(a, LeastOf(Places(a, e)))
Contains(a, e) == DoneWith(a, Cardinality(Places(a, e)))

Remove(a, e) ==
    IF Places(a, e) = {} THEN Refused(a, "VALUE_NOT_FOUND")
    ELSE DoneWith(Closed(a, LeastOf(Places(a, e))), e)

\* With size 0 the index wraps round and is out of range.
RemoveLast(a) ==
    IF a.size = 0 THEN Refused(a, "OUT_OF_RANGE") ELSE RemoveAt(a, a.size - 1)
RemoveAll(a) == Done([a EXCEPT !.size = 0])

\* cc_array_filter_mut works from the end; rm counts the elements to drop met in a row,
\* kept those to keep behind them.
FilterMut(a, keep) ==
    LET n == a.size
        turn[k \in 0..n] ==
            IF k = 0 THEN [list |-> a, rm |-> 0, kept |-> 0]
            ELSE LET t == turn[k - 1]
                     i == n - k
                 IN  IF a.buf[i] \notin keep THEN [t EXCEPT !.rm = @ + 1]
                     ELSE [list |-> [t.list EXCEPT !.buf = Moved(@, i + 1, i + 1 + t.rm, t.kept),
                                                   !.size = @ - t.rm],
                           rm |-> 0, kept |-> t.kept + 1]
        last == turn[n]
    IN  IF n = 0 THEN Refused(a, "OUT_OF_RANGE")
        ELSE Done([last.list EXCEPT !.buf = Moved(@, 0, last.rm, last.kept), !.size = @ - last.rm])
----------------------------------------------------------------------------
(* Copies.                                                                 *)

CopyShallow(a, alloc) ==
    IF ~Granted(a.cap, alloc) THEN Refused(a, "ALLOC")
    ELSE Done([a EXCEPT !.buf = Rebuilt(a, a.size, a.cap)])

\* cp maps an element to its copy.
CopyDeep(a, cp, alloc) ==
    IF ~Granted(a.cap, alloc) THEN Refused(a, "ALLOC")
    ELSE Done([a EXCEPT !.buf = [i \in 0..(a.cap - 1) |-> IF i < a.size THEN cp[a.buf[i]] ELSE Junk]])

Filter(a, keep, alloc) ==
    LET kept == SelectSeq(Contents(a), LAMBDA e : e \in keep) IN
    IF a.size = 0 THEN Refused(a, "OUT_OF_RANGE")
    ELSE IF ~Granted(a.cap, alloc) THEN Refused(a, "ALLOC")
    ELSE Done([a EXCEPT !.buf = [i \in 0..(a.cap - 1) |-> IF i < Len(kept) THEN kept[i + 1] ELSE Junk],
                        !.size = Len(kept)])

\* The buffer has room for the capacity of the array it comes from, the fields say that
\* it is full, and the expansion factor is left at zero.
Subarray(a, b, e, alloc) ==
    IF b > e \/ e >= a.size THEN Refused(a, "INVALID_RANGE")
    ELSE IF ~Granted(a.cap, alloc) THEN Refused(a, "ALLOC")
    ELSE Done([buf |-> [i \in 0..(a.cap - 1) |-> IF i <= e - b THEN a.buf[b + i] ELSE Junk],
               size |-> e - b + 1, cap |-> e - b + 1, factor |-> 0, spilt |-> a.spilt])

\* At least one slot is copied, whatever the size of the new buffer.
TrimCapacity(a, alloc) ==
    IF a.size = a.cap THEN Done(a)
    ELSE IF ~alloc THEN Refused(a, "ALLOC")
    ELSE Done([a EXCEPT !.buf = Rebuilt(a, a.size, a.size), !.cap = a.size,
                        !.spilt = @ \/ a.size = 0])
----------------------------------------------------------------------------
(* Reading and ordering.                                                   *)

GetAt(a, index) ==
    IF index >= a.size THEN Refused(a, "OUT_OF_RANGE") ELSE DoneWith(a, a.buf[index])
GetLast(a) == IF a.size = 0 THEN Refused(a, "VALUE_NOT_FOUND") ELSE GetAt(a, a.size - 1)

Reverse(a) ==
    Done([a EXCEPT !.buf = [i \in DOMAIN @ |-> IF i < a.size THEN @[a.size - 1 - i] ELSE @[i]]])

\* A caller's function for reduce, one that tells every order of elements apart.
Fold(x, y) == 10 * x + y

\* cc_array_reduce: one element alone is handed over with NULL.
Reduce(a) ==
    LET acc[i \in 0..(a.size - 1)] == IF i = 0 THEN a.buf[0] ELSE Fold(acc[i - 1], a.buf[i])
    IN  IF a.size = 0 THEN Done(a)
        ELSE DoneWith(a, IF a.size = 1 THEN Fold(a.buf[0], Junk) ELSE acc[a.size - 1])
----------------------------------------------------------------------------
(* Iterators.                                                              *)

IterInit == [index |-> 0, removed |-> FALSE]

AtEnd(a, it) == it.index >= a.size

IterNext(a, it) ==
    IF AtEnd(a, it) THEN [it |-> it, stat |-> "ITER_END", out |-> Junk]
    ELSE [it |-> [index |-> it.index + 1, removed |-> FALSE], stat |-> "OK", out |-> a.buf[it.index]]

\* The index is not taken back.
IterRemove(a, it) ==
    LET r == IF it.removed THEN Refused(a, "VALUE_NOT_FOUND")
             ELSE IF it.index = 0 THEN Refused(a, "OUT_OF_RANGE")
             ELSE RemoveAt(a, it.index - 1)
    IN  [r |-> r, it |-> IF r.stat = "OK" THEN [it EXCEPT !.removed = TRUE] ELSE it]

IterAdd(a, it, e, alloc) ==
    [r |-> AddAt(a, e, it.index, alloc), it |-> [it EXCEPT !.index = @ + 1]]

IterReplace(a, it, e) ==
    [r |-> IF it.index = 0 THEN Refused(a, "OUT_OF_RANGE") ELSE ReplaceAt(a, e, it.index - 1), it |-> it]
----------------------------------------------------------------------------
(* Iterators over two arrays at once; r1 and r2 are what is done to each.  *)

ZipNext(a1, a2, it) ==
    IF AtEnd(a1, it) \/ AtEnd(a2, it) THEN [it |-> it, stat |-> "ITER_END", out |-> Junk]
    ELSE [it |-> [index |-> it.index + 1, removed |-> FALSE], stat |-> "OK",
          out |-> <<a1.buf[it.index], a2.buf[it.index]>>]

ZipOn(a1, a2, it) == it.index - 1 \in 0..(a1.size - 1) /\ it.index - 1 \in 0..(a2.size - 1)

ZipRefused(a1, a2, it, stat) == [r1 |-> Refused(a1, stat), r2 |-> Refused(a2, stat), it |-> it]

ZipRemove(a1, a2, it) ==
    IF ~ZipOn(a1, a2, it) THEN ZipRefused(a1, a2, it, "OUT_OF_RANGE")
    ELSE IF it.removed THEN ZipRefused(a1, a2, it, "VALUE_NOT_FOUND")
    ELSE [r1 |-> RemoveAt(a1, it.index - 1), r2 |-> RemoveAt(a2, it.index - 1),
          it |-> [it EXCEPT !.removed = TRUE]]

\* The index is past the new pair even when there was no room for it.
ZipAdd(a1, a2, it, e1, e2, alloc1, alloc2) ==
    LET past == [it EXCEPT !.index = @ + 1]
        full(a) == a.size = a.cap
        h1 == IF full(a1) THEN ExpandCapacity(a1, alloc1) ELSE Done(a1)
        h2 == IF full(a2) THEN ExpandCapacity(a2, alloc2) ELSE Done(a2)
    IN  IF h1.stat # "OK" THEN ZipRefused(h1.list, a2, past, "ALLOC")
        ELSE IF h2.stat # "OK" THEN ZipRefused(h1.list, h2.list, past, "ALLOC")
        ELSE [r1 |-> AddAt(h1.list, e1, it.index, alloc1), r2 |-> AddAt(h2.list, e2, it.index, alloc2),
              it |-> past]

ZipReplace(a1, a2, it, e1, e2) ==
    IF ~ZipOn(a1, a2, it) THEN ZipRefused(a1, a2, it, "OUT_OF_RANGE")
    ELSE [r1 |-> ReplaceAt(a1, e1, it.index - 1), r2 |-> ReplaceAt(a2, e2, it.index - 1), it |-> it]
=============================================================================
