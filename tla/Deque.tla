-------------------------------- MODULE Deque --------------------------------
(***************************************************************************)
(* CC_Deque, the ring buffer behind the queue of connections and every     *)
(* path (lib/collectc/src/cc_deque.c).  A deque is a record: buf, the      *)
(* slots 0..room-1 of its buffer; first, last, size and cap, its fields;   *)
(* spilt, whether a write ever left the buffer.  Each function that        *)
(* changes a deque is an operator from the deque it finds to a record of   *)
(* the deque it leaves, its status and what it puts in *out; alloc says    *)
(* whether the allocator, if asked, has memory.  cap is a power of two, so *)
(* that x & (cap - 1) is x % cap.                                          *)
(***************************************************************************)
EXTENDS Integers, Sequences, FiniteSets

CONSTANTS Junk,        \* what a slot holds that was never written
          MaxPowTwo    \* MAX_POW_TWO

Done(d) == [list |-> d, stat |-> "OK", out |-> Junk]
DoneWith(d, x) == [list |-> d, stat |-> "OK", out |-> x]
Refused(d, stat) == [list |-> d, stat |-> stat, out |-> Junk]

Slot(d, i) == (d.first + i) % d.cap
At(d, i) == d.buf[Slot(d, i)]

\* The elements from first to last.
Contents(d) == [i \in 1..d.size |-> At(d, i - 1)]

\* memmove of n slots inside one buffer.
Moved(buf, to, from, n) ==
    [i \in DOMAIN buf |-> IF i \in to..(to + n - 1) THEN buf[i - to + from] ELSE buf[i]]

UpperPowTwo(n) ==
    IF n >= MaxPowTwo THEN MaxPowTwo
    ELSE 2^(CHOOSE k \in 0..n : 2^k >= n /\ (k = 0 \/ 2^(k - 1) < n))

NewDeque(capacity) ==
    [buf |-> [i \in 0..(capacity - 1) |-> Junk], first |-> 0, last |-> 0, size |-> 0,
     cap |-> UpperPowTwo(capacity), spilt |-> FALSE]
----------------------------------------------------------------------------
(* Growing and copying.                                                    *)

\* The number of slots copy_buffer copies: an empty deque passes for a full one.
Copied(d) == IF d.last > d.first THEN d.size ELSE d.cap - d.first + d.last

\* The two runs of a wrapped deque copied in the order they lie in.
CopyBufferFlat(d, room) ==
    [i \in 0..(room - 1) |-> IF i < d.cap THEN d.buf[i] ELSE Junk]

CopyBuffer(d, room) ==
    [i \in 0..(room - 1) |->
        CASE i >= Copied(d) -> Junk
          [] i < Copied(d) /\ d.last > d.first -> d.buf[d.first + i]
          [] OTHER -> IF i < d.cap - d.first THEN d.buf[d.first + i]
                                             ELSE d.buf[i - (d.cap - d.first)]]

Rebuilt(d, room) ==
    [buf |-> CopyBuffer(d, room), first |-> 0, last |-> d.size, size |-> d.size,
     cap |-> room, spilt |-> d.spilt \/ Copied(d) > room]

ExpandCapacity(d) == Rebuilt(d, 2 * d.cap)

\* The test that comes before every insertion, and what it leaves.
CanHold(d, alloc) == d.size # d.cap \/ (alloc /\ d.cap # MaxPowTwo)
Holding(d) == IF d.size = d.cap THEN ExpandCapacity(d) ELSE d

CopyShallow(d, alloc) ==
    IF alloc THEN Done(Rebuilt(d, d.cap)) ELSE Refused(d, "ALLOC")

\* cp maps an element to its copy.
CopyDeep(d, cp, alloc) ==
    IF ~alloc THEN Refused(d, "ALLOC")
    ELSE Done([d EXCEPT !.buf = [i \in DOMAIN @ |-> IF i < d.size THEN cp[At(d, i)] ELSE Junk],
                        !.first = 0, !.last = d.size])

TrimCapacity(d, alloc) ==
    LET room == UpperPowTwo(d.size) IN
    IF d.size = d.cap \/ room = d.cap THEN Done(d)
    ELSE IF alloc THEN Done(Rebuilt(d, room)) ELSE Refused(d, "ALLOC")
----------------------------------------------------------------------------
(* Adding.                                                                 *)

AddFirst(d, e, alloc) ==
    IF ~CanHold(d, alloc) THEN Refused(d, "ALLOC")
    ELSE LET h == Holding(d)
             f == (h.first - 1) % h.cap
         IN  Done([h EXCEPT !.first = f, !.buf[f] = e, !.size = @ + 1])

AddLast(d, e, alloc) ==
    IF ~CanHold(d, alloc) THEN Refused(d, "ALLOC")
    ELSE LET h == Holding(d)
             inside == h.last \in DOMAIN h.buf
         IN  Done([h EXCEPT !.buf = IF inside THEN [@ EXCEPT ![h.last] = e] ELSE @,
                            !.last = (@ + 1) % h.cap,
                            !.size = @ + 1,
                            !.spilt = @ \/ ~inside])

\* cc_deque_add_at, index > 0, in the first half: what lies before index moves down.
ShiftedDown(h, p, index) ==
    LET c == h.cap - 1
        f == h.first
    IN  IF p < f \/ f = 0
        THEN LET upper == IF f # 0 THEN Moved(h.buf, f - 1, f, c - f + 1) ELSE h.buf
             IN  [Moved(upper, 0, 1, p) EXCEPT ![c] = h.buf[0]]
        ELSE Moved(h.buf, f - 1, f, index)

\* In the second half: what lies from index on moves up.
ShiftedUp(h, p, index) ==
    LET c == h.cap - 1
        l == h.last % h.cap
    IN  IF p > l \/ l = c
        THEN LET upper == Moved(h.buf, p + 1, p, c - p)
             IN  [(IF l # c THEN Moved(upper, 1, 0, l + 1) ELSE upper) EXCEPT ![0] = h.buf[c]]
        ELSE Moved(h.buf, p + 1, p, h.size - index)

InFirstHalf(d, index) == index < d.size \div 2

AddAt(d, e, index, alloc) ==
    IF index >= d.size THEN Refused(d, "OUT_OF_RANGE")
    ELSE IF ~CanHold(d, alloc) THEN Refused(d, "ALLOC")
    ELSE LET h == Holding(d)
             p == Slot(h, index)
         IN  CASE index = 0 -> AddFirst(h, e, alloc)
               [] index # 0 /\ index = h.cap - 1 -> AddLast(h, e, alloc)
               [] index \notin {0, h.cap - 1} /\ InFirstHalf(h, index) ->
                    Done([h EXCEPT !.buf = [ShiftedDown(h, p, index) EXCEPT ![p] = e],
                                   !.first = (@ - 1) % h.cap, !.size = @ + 1])
               [] OTHER ->
                    Done([h EXCEPT !.buf = [ShiftedUp(h, p, index) EXCEPT ![p] = e],
                                   !.last = (@ + 1) % h.cap, !.size = @ + 1])

ReplaceAt(d, e, index) ==
    IF index >= d.size THEN Refused(d, "OUT_OF_RANGE")
    ELSE DoneWith([d EXCEPT !.buf[Slot(d, index)] = e], At(d, index))
----------------------------------------------------------------------------
(* Removing.                                                               *)

RemoveFirst(d) ==
    IF d.size = 0 THEN Refused(d, "OUT_OF_RANGE")
    ELSE DoneWith([d EXCEPT !.first = (@ + 1) % d.cap, !.size = @ - 1], d.buf[d.first])

RemoveLast(d) ==
    IF d.size = 0 THEN Refused(d, "OUT_OF_RANGE")
    ELSE LET last == (d.last - 1) % d.cap
         IN  DoneWith([d EXCEPT !.last = last, !.size = @ - 1], d.buf[last])

\* cc_deque_remove_at in the first half: what lies before index moves up.
ClosedUp(d, p, index) ==
    LET c == d.cap - 1
        f == d.first
    IN  IF p < f
        THEN [Moved(Moved(d.buf, f + 1, f, c - f), 1, 0, p) EXCEPT ![0] = d.buf[c]]
        ELSE Moved(d.buf, f + 1, f, index)

\* In the second half: what lies after index moves down; but the part of a wrapped
\* deque that lies at the start of the buffer is moved up.
ClosedDown(d, p) ==
    LET c == d.cap - 1
        l == d.last % d.cap
    IN  IF p > l
        THEN [Moved(Moved(d.buf, p, p + 1, c - p), 1, 0, l) EXCEPT ![c] = d.buf[0]]
        ELSE Moved(d.buf, p, p + 1, l - p)

RemoveAt(d, index) ==
    LET p == Slot(d, index) IN
    CASE index >= d.size -> Refused(d, "OUT_OF_RANGE")
      [] index = 0 /\ index < d.size -> RemoveFirst(d)
      [] index = d.cap - 1 /\ index # 0 /\ index < d.size -> RemoveLast(d)
      [] OTHER ->
           DoneWith(IF InFirstHalf(d, index)
                    THEN [d EXCEPT !.buf = ClosedUp(d, p, index),
                                   !.first = (@ + 1) % d.cap, !.size = @ - 1]
                    ELSE [d EXCEPT !.buf = ClosedDown(d, p),
                                   !.last = (@ - 1) % d.cap, !.size = @ - 1],
                    d.buf[p])

\* The places of an element, in the order of the deque.
Places(d, e) == {i \in 0..(d.size - 1) : At(d, i) = e}
LeastOf(S) == CHOOSE i \in S : \A j \in S : i <= j

IndexOf(d, e) ==
    IF Places(d, e) = {} THEN Refused(d, "OUT_OF_RANGE") ELSE DoneWith(d, LeastOf(Places(d, e)))
Contains(d, e) == DoneWith(d, Cardinality(Places(d, e)))

Remove(d, e) ==
    IF Places(d, e) = {} THEN Refused(d, "OUT_OF_RANGE") ELSE RemoveAt(d, LeastOf(Places(d, e)))

RemoveAll(d) == Done([d EXCEPT !.first = 0, !.last = 0, !.size = 0])

\* cc_deque_filter_mut: each turn of its loop removes an element or goes past it.
FilterMut(d, keep) ==
    LET turn[k \in 0..d.size] ==
            IF k = 0 THEN [list |-> d, i |-> 0]
            ELSE LET t == turn[k - 1] IN
                 IF At(t.list, t.i) \in keep THEN [t EXCEPT !.i = @ + 1]
                 ELSE [t EXCEPT !.list = RemoveAt(@, t.i).list]
    IN  IF d.size = 0 THEN Refused(d, "OUT_OF_RANGE") ELSE Done(turn[d.size].list)

\* cc_deque_filter: the elements to keep, added to a new deque.
Filter(d, keep, capacity, alloc) ==
    LET added[k \in 0..d.size] ==
            IF k = 0 THEN NewDeque(capacity)
            ELSE IF At(d, k - 1) \in keep THEN AddLast(added[k - 1], At(d, k - 1), alloc).list
            ELSE added[k - 1]
    IN  IF d.size = 0 THEN Refused(d, "OUT_OF_RANGE")
        ELSE IF ~alloc THEN Refused(d, "ALLOC") ELSE Done(added[d.size])
----------------------------------------------------------------------------
(* Reading and reversing.                                                  *)

\* The index of the slot after the last element passes.
GetAt(d, index) ==
    IF index > d.size THEN Refused(d, "OUT_OF_RANGE") ELSE DoneWith(d, At(d, index))
GetFirst(d) ==
    IF d.size = 0 THEN Refused(d, "OUT_OF_RANGE") ELSE DoneWith(d, d.buf[d.first])
GetLast(d) ==
    IF d.size = 0 THEN Refused(d, "OUT_OF_RANGE") ELSE DoneWith(d, d.buf[(d.last - 1) % d.cap])

Reverse(d) ==
    Done([d EXCEPT !.buf = [p \in DOMAIN @ |->
        LET i == (p - d.first) % d.cap IN IF i < d.size THEN At(d, d.size - 1 - i) ELSE @[p]]])

\* CC_Queue, a deque that is filled in front and emptied at the back.
Enqueue(d, e, alloc) == AddFirst(d, e, alloc)
Poll(d) == RemoveLast(d)
Peek(d) == GetLast(d)
----------------------------------------------------------------------------
(* Iterators: the index of the next element, and whether the last one      *)
(* returned is gone.  A deque whose indices meet passes for an empty one.  *)

IterInit == [index |-> 0, removed |-> FALSE]

AtEnd(d, it) == d.last % d.cap = d.first % d.cap \/ it.index >= d.size

IterNext(d, it) ==
    IF AtEnd(d, it) THEN [it |-> it, stat |-> "ITER_END", out |-> Junk]
    ELSE [it |-> [index |-> it.index + 1, removed |-> FALSE], stat |-> "OK", out |-> At(d, it.index)]

\* What an iterator does to the deque under it, and what becomes of the iterator.
IterRemove(d, it) ==
    LET r == IF it.removed THEN Refused(d, "VALUE_NOT_FOUND")
             ELSE IF it.index = 0 THEN Refused(d, "OUT_OF_RANGE")
             ELSE RemoveAt(d, it.index - 1)
    IN  [r |-> r, it |-> IF r.stat = "OK" THEN [index |-> it.index - 1, removed |-> TRUE] ELSE it]

IterAdd(d, it, e, alloc) ==
    LET r == AddAt(d, e, it.index, alloc)
    IN  [r |-> r, it |-> IF r.stat = "OK" THEN [it EXCEPT !.index = @ + 1] ELSE it]

\* The element replaced is the next one.
IterReplace(d, it, e) == [r |-> ReplaceAt(d, e, it.index), it |-> it]
----------------------------------------------------------------------------
(* Iterators over two deques at once; r1 and r2 are what is done to each.  *)

ZipNext(d1, d2, it) ==
    IF AtEnd(d1, it) \/ AtEnd(d2, it) THEN [it |-> it, stat |-> "ITER_END", out |-> Junk]
    ELSE [it |-> [index |-> it.index + 1, removed |-> FALSE], stat |-> "OK",
          out |-> <<At(d1, it.index), At(d2, it.index)>>]

\* The element returned last is in both deques.
ZipOn(d1, d2, it) == it.index - 1 \in 0..(d1.size - 1) /\ it.index - 1 \in 0..(d2.size - 1)

ZipRefused(d1, d2, it, stat) == [r1 |-> Refused(d1, stat), r2 |-> Refused(d2, stat), it |-> it]

ZipRemove(d1, d2, it) ==
    IF it.removed THEN ZipRefused(d1, d2, it, "VALUE_NOT_FOUND")
    ELSE IF ~ZipOn(d1, d2, it) THEN ZipRefused(d1, d2, it, "OUT_OF_RANGE")
    ELSE [r1 |-> RemoveAt(d1, it.index - 1), r2 |-> RemoveAt(d2, it.index - 1),
          it |-> [index |-> it.index - 1, removed |-> TRUE]]

\* Both deques are grown before either is added to; the first stays grown when the
\* second cannot be.
ZipAdd(d1, d2, it, e1, e2, alloc1, alloc2) ==
    IF it.index >= d1.size \/ it.index >= d2.size THEN ZipRefused(d1, d2, it, "OUT_OF_RANGE")
    ELSE IF ~CanHold(d1, alloc1) THEN ZipRefused(d1, d2, it, "ALLOC")
    ELSE IF ~CanHold(d2, alloc2) THEN ZipRefused(Holding(d1), d2, it, "ALLOC")
    ELSE [r1 |-> AddAt(Holding(d1), e1, it.index, alloc1),
          r2 |-> AddAt(Holding(d2), e2, it.index, alloc2),
          it |-> [it EXCEPT !.index = @ + 1]]

ZipReplace(d1, d2, it, e1, e2) ==
    IF ~ZipOn(d1, d2, it) THEN ZipRefused(d1, d2, it, "OUT_OF_RANGE")
    ELSE [r1 |-> ReplaceAt(d1, e1, it.index - 1), r2 |-> ReplaceAt(d2, e2, it.index - 1), it |-> it]
=============================================================================
