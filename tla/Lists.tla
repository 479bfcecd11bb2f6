-------------------------------- MODULE Lists --------------------------------
(***************************************************************************)
(* A client of one list of Collections-C: a deque, a queue, an array, or a *)
(* doubly or singly linked list ("list", "slist").  It makes any call with *)
(* any arguments, walks over the list with an iterator and changes the     *)
(* list under it, or walks over two lists at once.  Each call is meant to  *)
(* do what ListContract says.                                              *)
(***************************************************************************)
EXTENDS Integers, Sequences, FiniteSets

CONSTANTS Junk, MaxPowTwo, MaxElements,
          Kinds,         \* the lists looked at
          Capacities,    \* bound: the capacities a list starts with, powers of two
          Seconds,       \* bound: those of the second list of a walk over two
          MaxNodes,      \* bound on the nodes a linked list starts with
          New,           \* an element added
          MaxCalls,      \* bound on the calls that follow one another
          MaxLinkedCalls \* bound on those on a linked list that make no use of an iterator

D == INSTANCE Deque
A == INSTANCE ArrayList
L == INSTANCE LinkedList
S == INSTANCE SingleList

ASSUME ListsAssumption ==
    /\ Kinds \subseteq {"deque", "queue", "array", "list", "slist"}
    /\ Capacities \cup Seconds \subseteq {D!UpperPowTwo(n) : n \in 1..MaxPowTwo}
    /\ {MaxCalls, MaxLinkedCalls, MaxNodes} \subseteq Nat /\ New \in Int /\ \A c \in Capacities : New > c

VARIABLES
    kind,
    list,      \* the list
    other,     \* the second list of a walk over two, or of a call that takes two
    it,        \* the iterator
    pc,        \* "idle", "walk", "down" (a walk to the front) or "zip"
    call,      \* the last call: op, its arguments e and at, and whether memory was there
    answer,    \* its status and *out, for list
    answer2,   \* the same for other
    calls      \* how many calls there were

vars == <<kind, list, other, it, pc, call, answer, answer2, calls>>

IsArray == kind = "array"
IsDeque == kind = "deque"
IsList == kind = "list"
IsSList == kind = "slist"
IsLinked == kind \in {"list", "slist"}
Contents(l) == IF IsArray THEN A!Contents(l) ELSE IF IsLinked THEN L!Contents(l) ELSE D!Contents(l)

\* Lists of the elements 1, 2, ...; those of a deque may start anywhere in its buffer.
Arrays(cap, n) == {[A!NewArray(cap, 2) EXCEPT !.buf = [i \in DOMAIN @ |-> IF i < n THEN i + 1 ELSE @[i]],
                                              !.size = n]}
Deques(cap, n) ==
    {[D!NewDeque(cap) EXCEPT
         !.buf = [i \in DOMAIN @ |-> IF (i - f) % cap < n THEN ((i - f) % cap) + 1 ELSE @[i]],
         !.first = f, !.last = (f + n) % cap, !.size = n] : f \in 0..(cap - 1)}
\* Those of a linked list are in any order, and its nodes at the addresses after base.
Orders(n) == {s \in [1..n -> 1..n] : \A i, j \in 1..n : s[i] = s[j] => i = j}
Linked(n, base) == IF n <= MaxNodes THEN {L!ListOf(s, base) : s \in Orders(n)} ELSE {}
Some(k, cap, n) ==
    CASE k = "array" -> Arrays(cap, n)
      [] k \in {"list", "slist"} -> Linked(n, 0)
      [] OTHER -> Deques(cap, n)

\* The links of a linked list lead from its head over as many nodes as it has to its tail,
\* and back, and no other node is left in memory.
LinksAgree(l) ==
    LET there == L!Forward(l) IN
    /\ Len(there) = l.size /\ Cardinality(L!Allocated(l)) = l.size
    /\ IF l.size = 0 THEN l.head = L!Null /\ l.tail = L!Null ELSE l.tail = there[l.size]
    /\ IsList => \A i \in 1..l.size : L!Backward(l)[i] = there[l.size + 1 - i]

NoCall == [op |-> "none", e |-> Junk, at |-> 0, alloc |-> TRUE]

Init ==
    /\ kind \in Kinds
    /\ \E cap \in Capacities : \E n \in 0..cap : list \in Some(kind, cap, n)
    /\ other = list
    /\ it = D!IterInit
    /\ pc = "idle"
    /\ call = NoCall
    /\ answer = [stat |-> "OK", out |-> Junk] /\ answer2 = answer
    /\ calls = 0

Indices == 0..list.size
Members == 1..list.size
Answered(r) == [stat |-> r.stat, out |-> r.out]

\* Once a write has left the buffer, or a link is lost, nothing more is said.
Intact(l) == ~l.spilt /\ (IsLinked => LinksAgree(l))
Usable == calls < (IF IsLinked /\ pc = "idle" THEN MaxLinkedCalls ELSE MaxCalls) /\ Intact(list)

\* A call on the list that ends with r.
Call(op, e, at, alloc, r) ==
    /\ pc = "idle" /\ Usable
    /\ list' = r.list
    /\ call' = [op |-> op, e |-> e, at |-> at, alloc |-> alloc]
    /\ answer' = Answered(r)
    /\ it' = D!IterInit
    /\ calls' = calls + 1
    /\ UNCHANGED <<kind, other, pc, answer2>>

\* A call with a second list, of which second is left, in "list" and "slist".
Pairs == IF IsLinked THEN {L!ListOf(s, L!Last(list)) : s \in {<<>>, <<New - 1>>, <<New - 1, New - 2>>}}
         ELSE {}
CallBoth(op, from, at, alloc, r, second) ==
    /\ IsLinked /\ pc = "idle" /\ Usable
    /\ list' = r.list /\ other' = second
    /\ call' = [op |-> op, e |-> L!Contents(from), at |-> at, alloc |-> alloc]
    /\ answer' = Answered(r)
    /\ it' = D!IterInit
    /\ calls' = calls + 1
    /\ UNCHANGED <<kind, pc, answer2>>
----------------------------------------------------------------------------
(* Calls.                                                                  *)

AddLast == \E alloc \in BOOLEAN :
    \/ IsDeque /\ Call("add_last", New, 0, alloc, D!AddLast(list, New, alloc))
    \/ IsArray /\ Call("add_last", New, 0, alloc, A!Add(list, New, alloc))
    \/ IsList /\ Call("add_last", New, 0, alloc, L!AddLast(list, New, alloc))
    \/ IsSList /\ Call("add_last", New, 0, alloc, S!AddLast(list, New, alloc))
AddFirst == \E alloc \in BOOLEAN :
    \/ IsDeque /\ Call("add_first", New, 0, alloc, D!AddFirst(list, New, alloc))
    \/ kind = "queue" /\ Call("add_first", New, 0, alloc, D!Enqueue(list, New, alloc))
    \/ IsList /\ Call("add_first", New, 0, alloc, L!AddFirst(list, New, alloc))
    \/ IsSList /\ Call("add_first", New, 0, alloc, S!AddFirst(list, New, alloc))
AddAt == \E i \in Indices, alloc \in BOOLEAN :
    \/ IsDeque /\ Call("add_at", New, i, alloc, D!AddAt(list, New, i, alloc))
    \/ IsArray /\ Call("add_at", New, i, alloc, A!AddAt(list, New, i, alloc))
    \/ IsList /\ Call("add_at", New, i, alloc, L!AddAt(list, New, i, alloc))
    \/ IsSList /\ Call("add_at", New, i, alloc, S!AddAt(list, New, i, alloc))
ReplaceAt == \E i \in Indices :
    \/ IsDeque /\ Call("replace_at", New, i, TRUE, D!ReplaceAt(list, New, i))
    \/ IsArray /\ Call("replace_at", New, i, TRUE, A!ReplaceAt(list, New, i))
    \/ IsList /\ Call("replace_at", New, i, TRUE, L!ReplaceAt(list, New, i))
    \/ IsSList /\ Call("replace_at", New, i, TRUE, S!ReplaceAt(list, New, i))
SwapAt == \E i, j \in Indices :
    IsArray /\ Call("swap_at", j, i, TRUE, A!SwapAt(list, i, j))
Remove == \E e \in Members \cup {New} :
    \/ IsDeque /\ Call("remove", e, 0, TRUE, D!Remove(list, e))
    \/ IsArray /\ Call("remove", e, 0, TRUE, A!Remove(list, e))
    \/ IsList /\ Call("remove", e, 0, TRUE, L!Remove(list, e))
    \/ IsSList /\ Call("remove", e, 0, TRUE, S!Remove(list, e))
RemoveAt == \E i \in Indices :
    \/ IsDeque /\ Call("remove_at", Junk, i, TRUE, D!RemoveAt(list, i))
    \/ IsArray /\ Call("remove_at", Junk, i, TRUE, A!RemoveAt(list, i))
    \/ IsList /\ Call("remove_at", Junk, i, TRUE, L!RemoveAt(list, i))
    \/ IsSList /\ Call("remove_at", Junk, i, TRUE, S!RemoveAt(list, i))
RemoveFirst ==
    \/ IsDeque /\ Call("remove_first", Junk, 0, TRUE, D!RemoveFirst(list))
    \/ IsList /\ Call("remove_first", Junk, 0, TRUE, L!RemoveFirst(list))
    \/ IsSList /\ Call("remove_first", Junk, 0, TRUE, S!RemoveFirst(list))
RemoveLast ==
    \/ IsDeque /\ Call("remove_last", Junk, 0, TRUE, D!RemoveLast(list))
    \/ kind = "queue" /\ Call("remove_last", Junk, 0, TRUE, D!Poll(list))
    \/ IsArray /\ Call("remove_last", Junk, 0, TRUE, A!RemoveLast(list))
    \/ IsList /\ Call("remove_last", Junk, 0, TRUE, L!RemoveLast(list))
    \/ IsSList /\ Call("remove_last", Junk, 0, TRUE, S!RemoveLast(list))
RemoveAll ==
    \/ IsDeque /\ Call("remove_all", Junk, 0, TRUE, D!RemoveAll(list))
    \/ IsArray /\ Call("remove_all", Junk, 0, TRUE, A!RemoveAll(list))
    \/ IsList /\ Call("remove_all", Junk, 0, TRUE, L!RemoveAll(list))
    \/ IsSList /\ Call("remove_all", Junk, 0, TRUE, S!RemoveAll(list))

\* Predicates: odd elements, those below a bound, none.
Keeps == {{e \in 1..New : e % 2 = 1}, {}} \cup {m..New : m \in {2, 4}}
FilterMut == \E keep \in Keeps :
    \/ IsDeque /\ Call("filter", keep, 0, TRUE, D!FilterMut(list, keep))
    \/ IsArray /\ Call("filter", keep, 0, TRUE, A!FilterMut(list, keep))
    \/ IsList /\ Call("filter", keep, 0, TRUE, L!FilterMut(list, keep))
    \/ IsSList /\ Call("filter", keep, 0, TRUE, S!FilterMut(list, keep))
Filter == \E keep \in Keeps, alloc \in BOOLEAN :
    \/ IsDeque /\ Call("filter", keep, 0, alloc, D!Filter(list, keep, list.cap, alloc))
    \/ IsArray /\ Call("filter", keep, 0, alloc, A!Filter(list, keep, alloc))
    \/ \E room \in {0, 1, list.size} :
          \/ IsList /\ Call("filter", keep, 0, alloc /\ room = list.size, L!Filter(list, keep, alloc, room))
          \/ IsSList /\ Call("filter", keep, 0, alloc /\ room = list.size, S!Filter(list, keep, alloc, room))

\* Copies: the client goes on with the copy.  A deep one copies an element to itself.
Same == [e \in {Junk} \cup 1..New |-> e]
CopyShallow == \E alloc \in BOOLEAN :
    \/ IsDeque /\ Call("copy", Junk, 0, alloc, D!CopyShallow(list, alloc))
    \/ IsArray /\ Call("copy", Junk, 0, alloc, A!CopyShallow(list, alloc))
    \/ IsList /\ \E unset \in BOOLEAN : Call("copy", Junk, 0, alloc, L!CopyShallow(list, alloc, unset))
    \/ IsSList /\ Call("copy", Junk, 0, alloc, S!CopyShallow(list, alloc))
CopyDeep == \E alloc \in BOOLEAN :
    \/ IsDeque /\ Call("copy", Junk, 1, alloc, D!CopyDeep(list, Same, alloc))
    \/ IsArray /\ Call("copy", Junk, 1, alloc, A!CopyDeep(list, Same, alloc))
    \/ IsList /\ \E unset \in BOOLEAN : Call("copy", Junk, 1, alloc, L!CopyDeep(list, Same, alloc, unset))
    \/ IsSList /\ Call("copy", Junk, 1, alloc, S!CopyDeep(list, Same, alloc))
Subarray == \E i, j \in Indices, alloc \in BOOLEAN :
    \/ IsArray /\ Call("subarray", j, i, alloc, A!Subarray(list, i, j, alloc))
    \/ IsList /\ \E unset \in BOOLEAN : Call("subarray", j, i, alloc, L!Sublist(list, i, j, alloc, unset))
    \/ IsSList /\ Call("subarray", j, i, alloc, S!Sublist(list, i, j, alloc))
TrimCapacity == \E alloc \in BOOLEAN :
    \/ IsDeque /\ Call("trim", Junk, 0, alloc, D!TrimCapacity(list, alloc))
    \/ IsArray /\ Call("trim", Junk, 0, alloc, A!TrimCapacity(list, alloc))
Reverse ==
    \/ IsDeque /\ Call("reverse", Junk, 0, TRUE, D!Reverse(list))
    \/ IsArray /\ Call("reverse", Junk, 0, TRUE, A!Reverse(list))
    \/ IsList /\ Call("reverse", Junk, 0, TRUE, L!Reverse(list))
    \/ IsSList /\ Call("reverse", Junk, 0, TRUE, S!Reverse(list))

AddAll == \E second \in Pairs, alloc \in BOOLEAN :
    \/ IsList /\ CallBoth("add_all", second, 0, alloc, L!AddAll(list, second, alloc), second)
    \/ IsSList /\ CallBoth("add_all", second, 0, alloc, S!AddAll(list, second, alloc), second)
AddAllAt == \E second \in Pairs, i \in Indices, alloc \in BOOLEAN :
    \/ IsList /\ CallBoth("add_all_at", second, i, alloc, L!AddAllAt(list, second, i, alloc), second)
    \/ IsSList /\ CallBoth("add_all_at", second, i, alloc, S!AddAllAt(list, second, i, alloc), second)
Splice == \E second \in Pairs :
    \/ IsList /\ LET p == L!Splice(list, second) IN CallBoth("splice", second, 0, TRUE, p.r, p.other)
    \/ IsSList /\ LET p == S!Splice(list, second) IN CallBoth("splice", second, 0, TRUE, p.r, p.other)
SpliceAt == \E second \in Pairs, i \in Indices :
    \/ IsList /\ LET p == L!SpliceAt(list, second, i)
                  IN  CallBoth("splice_at", second, i, TRUE, p.r, p.other)
    \/ IsSList /\ LET p == S!SpliceAt(list, second, i)
                   IN  CallBoth("splice_at", second, i, TRUE, p.r, p.other)
Sort ==
    \/ \E alloc \in BOOLEAN :
          \/ IsList /\ Call("sort", Junk, 0, alloc, L!Sort(list, alloc))
          \/ IsSList /\ Call("sort", Junk, 0, alloc, S!Sort(list, alloc))
    \/ IsList /\ Call("sort", Junk, 1, TRUE, L!SortInPlace(list))

Look ==
    \/ IsArray /\ Call("reduce", Junk, 0, TRUE, A!Reduce(list))
    \/ IsList /\ Call("reduce", Junk, 0, TRUE, L!Reduce(list))
    \/ \E alloc \in BOOLEAN :
          \/ IsList /\ Call("to_array", Junk, 0, alloc, L!ToArray(list, alloc))
          \/ IsSList /\ Call("to_array", Junk, 0, alloc, S!ToArray(list, alloc))
    \/ \E i \in Indices :
          \/ IsDeque /\ Call("get_at", Junk, i, TRUE, D!GetAt(list, i))
          \/ IsArray /\ Call("get_at", Junk, i, TRUE, A!GetAt(list, i))
          \/ IsList /\ Call("get_at", Junk, i, TRUE, L!GetAt(list, i))
          \/ IsSList /\ Call("get_at", Junk, i, TRUE, S!GetAt(list, i))
    \/ IsDeque /\ Call("get_first", Junk, 0, TRUE, D!GetFirst(list))
    \/ IsList /\ Call("get_first", Junk, 0, TRUE, L!GetFirst(list))
    \/ IsSList /\ Call("get_first", Junk, 0, TRUE, S!GetFirst(list))
    \/ \/ IsDeque /\ Call("get_last", Junk, 0, TRUE, D!GetLast(list))
       \/ kind = "queue" /\ Call("get_last", Junk, 0, TRUE, D!Peek(list))
       \/ IsArray /\ Call("get_last", Junk, 0, TRUE, A!GetLast(list))
       \/ IsList /\ Call("get_last", Junk, 0, TRUE, L!GetLast(list))
       \/ IsSList /\ Call("get_last", Junk, 0, TRUE, S!GetLast(list))
    \/ \E e \in Members \cup {New} :
          \/ IsDeque /\ Call("index_of", e, 0, TRUE, D!IndexOf(list, e))
          \/ IsArray /\ Call("index_of", e, 0, TRUE, A!IndexOf(list, e))
          \/ IsDeque /\ Call("contains", e, 0, TRUE, D!Contains(list, e))
          \/ IsArray /\ Call("contains", e, 0, TRUE, A!Contains(list, e))
          \/ IsLinked /\ Call("index_of", e, 0, TRUE, L!IndexOf(list, e))
          \/ IsLinked /\ Call("contains", e, 0, TRUE, L!ContainsCount(list, e))
----------------------------------------------------------------------------
(* Walks.                                                                  *)

StartWalk ==
    /\ pc = "idle" /\ Usable
    /\ \/ /\ pc' = "walk" /\ call' = [NoCall EXCEPT !.op = "iter_init"]
          /\ it' = CASE IsList -> L!IterInit(list) [] IsSList -> S!IterInit(list)
                     [] OTHER -> D!IterInit
       \/ /\ IsList /\ pc' = "down" /\ call' = [NoCall EXCEPT !.op = "diter_init"]
          /\ it' = L!DiterInit(list)
    /\ UNCHANGED <<kind, list, other, answer, answer2, calls>>

WalkNext ==
    /\ pc \in {"walk", "down"} /\ Intact(list)
    /\ LET n == CASE IsArray -> A!IterNext(list, it)
                  [] IsList -> IF pc = "down" THEN L!DiterNext(list, it) ELSE L!IterNext(list, it)
                  [] IsSList -> S!IterNext(list, it)
                  [] OTHER -> D!IterNext(list, it)
       IN  /\ it' = n.it
           /\ answer' = Answered(n)
           /\ pc' = IF n.stat = "OK" \/ IsLinked THEN pc ELSE "idle"
    /\ call' = [NoCall EXCEPT !.op = "iter_next", !.at = IF answer'.stat = "OK" THEN 0 ELSE call.at]
    /\ UNCHANGED <<kind, list, other, answer2, calls>>

\* For a change through an iterator, call.at is how many elements it added since it
\* returned one.
AddedSince(op, stat) == IF op = "iter_add" /\ stat = "OK" THEN call.at + 1 ELSE call.at

\* A change w made through the iterator.
Change(op, e, alloc, w) ==
    /\ pc \in {"walk", "down"} /\ Usable
    /\ list' = w.r.list
    /\ it' = w.it
    /\ call' = [op |-> op, e |-> e, at |-> AddedSince(op, w.r.stat), alloc |-> alloc]
    /\ answer' = Answered(w.r)
    /\ calls' = calls + 1
    /\ UNCHANGED <<kind, other, pc, answer2>>

WalkRemove ==
    \/ IsDeque /\ Change("iter_remove", Junk, TRUE, D!IterRemove(list, it))
    \/ IsArray /\ Change("iter_remove", Junk, TRUE, A!IterRemove(list, it))
    \/ IsList /\ pc = "walk" /\ Change("iter_remove", Junk, TRUE, L!IterRemove(list, it))
    \/ IsList /\ pc = "down" /\ Change("iter_remove", Junk, TRUE, L!DiterRemove(list, it))
    \/ IsSList /\ Change("iter_remove", Junk, TRUE, S!IterRemove(list, it))
WalkAdd == \E alloc \in BOOLEAN :
    \/ IsDeque /\ Change("iter_add", New, alloc, D!IterAdd(list, it, New, alloc))
    \/ IsArray /\ Change("iter_add", New, alloc, A!IterAdd(list, it, New, alloc))
    \/ IsList /\ pc = "walk" /\ Change("iter_add", New, alloc, L!IterAdd(list, it, New, alloc))
    \/ IsList /\ pc = "down" /\ Change("iter_add", New, alloc, L!DiterAdd(list, it, New, alloc))
    \/ IsSList /\ Change("iter_add", New, alloc, S!IterAdd(list, it, New, alloc))
WalkReplace ==
    \/ kind \in {"deque", "queue"} /\ Change("iter_replace", New, TRUE, D!IterReplace(list, it, New))
    \/ IsArray /\ Change("iter_replace", New, TRUE, A!IterReplace(list, it, New))
    \/ IsList /\ pc = "walk" /\ Change("iter_replace", New, TRUE, L!IterReplace(list, it, New))
    \/ IsList /\ pc = "down" /\ Change("iter_replace", New, TRUE, L!DiterReplace(list, it, New))
    \/ IsSList /\ Change("iter_replace", New, TRUE, S!IterReplace(list, it, New))

\* Over two lists, the second of a capacity in Seconds.
StartZip ==
    /\ pc = "idle" /\ Usable /\ calls = 0
    /\ \E cap \in Seconds : \E n \in 0..cap : other' \in Some(kind, cap, n)
    /\ pc' = "zip"
    /\ it' = CASE IsList -> L!ZipInit(list, other') [] IsSList -> S!ZipInit(list, other')
               [] OTHER -> D!IterInit
    /\ call' = [NoCall EXCEPT !.op = "iter_init"]
    /\ UNCHANGED <<kind, list, answer, answer2, calls>>

ZipNext ==
    /\ pc = "zip" /\ Intact(list) /\ Intact(other)
    /\ LET n == CASE IsArray -> A!ZipNext(list, other, it)
                  [] IsList -> L!ZipNext(list, other, it)
                  [] IsSList -> S!ZipNext(list, other, it)
                  [] OTHER -> D!ZipNext(list, other, it)
       IN
       IF n.stat = "OK"
       THEN /\ it' = n.it /\ pc' = pc
            /\ answer' = [stat |-> "OK", out |-> n.out[1]] /\ answer2' = [stat |-> "OK", out |-> n.out[2]]
       ELSE /\ it' = it /\ pc' = IF IsLinked THEN pc ELSE "idle"
            /\ answer' = Answered(n) /\ answer2' = answer'
    /\ call' = [NoCall EXCEPT !.op = "iter_next", !.at = IF answer'.stat = "OK" THEN 0 ELSE call.at]
    /\ UNCHANGED <<kind, list, other, calls>>

ChangeBoth(op, alloc, z) ==
    /\ pc = "zip" /\ Usable /\ Intact(other)
    /\ list' = z.r1.list /\ other' = z.r2.list
    /\ it' = z.it
    /\ call' = [op |-> op, e |-> New, at |-> AddedSince(op, z.r1.stat), alloc |-> alloc]
    /\ answer' = Answered(z.r1) /\ answer2' = Answered(z.r2)
    /\ calls' = calls + 1
    /\ UNCHANGED <<kind, pc>>

ZipRemove ==
    \/ IsDeque /\ ChangeBoth("iter_remove", TRUE, D!ZipRemove(list, other, it))
    \/ IsArray /\ ChangeBoth("iter_remove", TRUE, A!ZipRemove(list, other, it))
    \/ IsList /\ ChangeBoth("iter_remove", TRUE, L!ZipRemove(list, other, it))
    \/ IsSList /\ ChangeBoth("iter_remove", TRUE, S!ZipRemove(list, other, it))
ZipAdd == \E alloc1, alloc2 \in BOOLEAN :
    \/ IsDeque /\ ChangeBoth("iter_add", alloc1 /\ alloc2,
                             D!ZipAdd(list, other, it, New, New, alloc1, alloc2))
    \/ IsArray /\ ChangeBoth("iter_add", alloc1 /\ alloc2,
                             A!ZipAdd(list, other, it, New, New, alloc1, alloc2))
    \/ IsList /\ ChangeBoth("iter_add", alloc1 /\ alloc2, L!ZipAdd(list, other, it, New, New, alloc1 /\ alloc2))
    \/ IsSList /\ ChangeBoth("iter_add", alloc1 /\ alloc2, S!ZipAdd(list, other, it, New, New, alloc1 /\ alloc2))
ZipReplace ==
    \/ kind \in {"deque", "queue"} /\ ChangeBoth("iter_replace", TRUE, D!ZipReplace(list, other, it, New, New))
    \/ IsArray /\ ChangeBoth("iter_replace", TRUE, A!ZipReplace(list, other, it, New, New))
    \/ IsList /\ ChangeBoth("iter_replace", TRUE, L!ZipReplace(list, other, it, New, New))
    \/ IsSList /\ ChangeBoth("iter_replace", TRUE, S!ZipReplace(list, other, it, New, New))

Next ==
    \/ AddLast \/ AddFirst \/ AddAt \/ ReplaceAt \/ SwapAt
    \/ Remove \/ RemoveAt \/ RemoveFirst \/ RemoveLast \/ RemoveAll
    \/ FilterMut \/ Filter \/ CopyShallow \/ CopyDeep \/ Subarray \/ TrimCapacity
    \/ AddAll \/ AddAllAt \/ Splice \/ SpliceAt \/ Reverse \/ Sort \/ Look
    \/ StartWalk \/ WalkNext \/ WalkRemove \/ WalkAdd \/ WalkReplace
    \/ StartZip \/ ZipNext \/ ZipRemove \/ ZipAdd \/ ZipReplace

Spec == Init /\ [][Next]_vars
----------------------------------------------------------------------------
(* Properties.                                                             *)

\* The fields of a list agree with one another: no list holds more than its capacity,
\* the indices of a deque enclose its elements, and the elements of an array are in its
\* buffer, whatever the capacity says.
FieldsAgree(l) ==
    /\ l.size \in 0..l.cap
    /\ IF IsArray THEN l.spilt \/ 0..(l.size - 1) \subseteq DOMAIN l.buf
       ELSE /\ DOMAIN l.buf = 0..(l.cap - 1)
            /\ l.first \in DOMAIN l.buf /\ l.last \in 0..l.cap
            /\ (l.first + l.size) % l.cap = l.last % l.cap

----------------------------------------------------------------------------
(* What the lists keep of their contract.  before and rest are what the    *)
(* iterator has passed and what it has not.                                *)

Passed(l) == IF it.index <= l.size THEN it.index ELSE l.size

\* In a linked list, from the node it comes to next; the walk to the front sees the list
\* the other way round.
Ahead(l, next) ==
    CASE pc = "idle" -> Contents(l)
      [] pc = "down" -> L!Data(l, L!Along(l, next, FALSE))
      [] OTHER -> L!Data(l, L!Along(l, next, TRUE))
Whole(l) == IF pc = "down" THEN L!Data(l, L!Backward(l)) ELSE Contents(l)
Behind(l, next) == SubSeq(Whole(l), 1, Len(Whole(l)) - Len(Ahead(l, next)))

Next1 == IF pc = "idle" THEN L!Null ELSE it.next
Next2 == IF pc = "zip" THEN it.next2 ELSE L!Null
Before(l) == IF IsLinked THEN Behind(l, Next1) ELSE SubSeq(Contents(l), 1, Passed(l))
Rest(l) == IF IsLinked THEN Ahead(l, Next1) ELSE SubSeq(Contents(l), Passed(l) + 1, l.size)
BeforeOther == IF IsLinked THEN Behind(other, Next2) ELSE Before(other)
RestOther == IF IsLinked THEN Ahead(other, Next2) ELSE Rest(other)

First == INSTANCE ListContract WITH before <- Before(list), rest <- Rest(list)
Second == INSTANCE ListContract WITH before <- BeforeOther, rest <- RestOther, answer <- answer2

\* Where the code of the deque does something else than its comments say.  An insertion
\* in the first half, but for the front, comes one place late or over another element;
\* one in the second half that fills the buffer overwrites the first element, when the
\* end of the buffer lies between the place and the last element.
InsertsWrong(l, i) ==
    IF D!InFirstHalf(l, i) THEN i > 0
    ELSE l.size = l.cap - 1 /\ (D!Slot(l, i) > l.last \/ l.last = l.cap - 1)

\* A removal that has to move two elements or more from the start of the buffer, or one
\* of a full buffer.
ClosesWrong(l, i) ==
    /\ i > 0 /\ i < l.size /\ ~D!InFirstHalf(l, i) /\ i # l.cap - 1
    /\ D!Slot(l, i) > l.last % l.cap /\ l.last % l.cap >= (IF l.size = l.cap THEN 1 ELSE 2)

\* A copy of a full deque, with its first elements taken off: last is outside the buffer.
Overhangs(l) == l.last \notin DOMAIN l.buf /\ l.size < l.cap

DequeStrays(l, c) ==
    \/ c.op = "add_at" /\ InsertsWrong(l, c.at)
    \/ c.op = "iter_add" /\ InsertsWrong(l, it.index)
    \/ c.op = "remove_at" /\ ClosesWrong(l, c.at)
    \/ c.op = "iter_remove" /\ ClosesWrong(l, it.index - 1)
    \/ c.op = "remove" /\ \E i \in D!Places(l, c.e) : ClosesWrong(l, i)
    \/ c.op = "filter" /\ \E i \in 0..l.size : ClosesWrong(l, i)
    \/ c.op = "get_at" /\ c.at = l.size
    \/ c.op = "iter_next" /\ l.size = l.cap
    \/ c.op = "iter_replace" /\ pc = "walk"
    \/ c.op = "add_last" /\ Overhangs(l)
    \/ c.op = "trim" /\ l.size = 0

\* And the array: an iterator goes past the element that follows one it removed, and past
\* one it could not add; a failed expansion leaves a capacity the buffer does not have,
\* and so does trimming an empty array; a subarray cannot grow.
ArrayStrays(l, c) ==
    \/ c.op = "iter_remove"
    \/ c.op = "iter_add" /\ (~c.alloc \/ it.index > l.size)
    \/ /\ c.op \in {"add_last", "add_at", "iter_add"}
       /\ l.factor = 0 \/ (l.size < l.cap /\ l.size \notin DOMAIN l.buf)
    \/ c.op = "trim" /\ l.size = 0

\* A step is one the contract allows to each list of the walk, and writes in no memory
\* but the buffers'.
Kept ==
    /\ First!Next \/ (pc = "zip" /\ call'.op = "iter_next" /\ answer'.stat = "ITER_END" /\ RestOther = <<>>)
    /\ pc = "zip" =>
          Second!Next \/ (call'.op = "iter_next" /\ answer'.stat = "ITER_END" /\ Rest(list) = <<>>)
    /\ ~list'.spilt /\ ~other'.spilt

Strays(l) == IF IsArray THEN ArrayStrays(l, call') ELSE DequeStrays(l, call')

\* And the linked lists: an iterator that returned nothing yet, or removed what it
\* returned, adds through NULL; one over a CC_List that removed something is one ahead in
\* its count and takes the tail for some other node, and one over a CC_SList that added
\* something removes the next node with its own addition; a copy of a CC_List uses a pool
\* nobody set; lists added to an empty CC_List at an index need a tail; a filter leaves out
\* what there is no memory for.
LinkedStrays(l, last, prev, c) ==
    \/ /\ c.op = "iter_add" /\ c.alloc
       /\ \/ last = L!Null
          \/ (IsList /\ pc # "down" /\ (it.index = l.size) # (last = l.tail))
          \/ IsSList /\ call.at > 0
    \/ /\ c.op = "iter_remove" /\ IsSList /\ last # L!Null
       /\ prev # S!BeforeNode(l, last)
    \/ c.op \in {"copy", "subarray"} /\ list'.spilt /\ IsList
    \/ c.op = "add_all_at" /\ c.alloc /\ c.e # <<>> /\ l.size = 0 /\ IsList
    \/ c.op = "filter" /\ ~c.alloc /\ answer'.stat = "OK"

LinkedStray ==
    \/ LinkedStrays(list, it.last, IF IsSList THEN it.prev ELSE L!Null, call')
    \/ pc = "zip" /\ LinkedStrays(other, it.last2, IF IsSList THEN it.prev2 ELSE L!Null, call')

\* What becomes of the second list of a call on two.
SecondKept ==
    CASE call'.op \in {"add_all", "add_all_at"} -> Contents(other') = call'.e
      [] call'.op \in {"splice", "splice_at"} ->
           Contents(other') = IF answer'.stat = "OK" THEN <<>> ELSE call'.e
      [] OTHER -> TRUE

\* Deques and queues do what the contract says whatever the calls before, wherever in the
\* ring their elements lie, when they grow and when there is no memory to grow; iterators
\* return each element once and change the list around them.  The calls that stray are
\* the ones named; they too leave fields that agree.
StrayOrKept ==
    /\ FieldsAgree(list)' /\ FieldsAgree(other)'
    /\ Strays(list) \/ (pc = "zip" /\ Strays(other)) \/ Kept
DequesKept == [][~IsArray /\ ~IsLinked => StrayOrKept]_vars

\* The same of arrays.
ArraysKept == [][IsArray => StrayOrKept]_vars

\* The linked lists do what the contract says, in both directions, with one list and with
\* two; their links and sizes stay right and no node is lost or left over, but for the
\* calls that stray.
LinkedKept ==
    [][IsLinked => \/ LinkedStray
                   \/ Kept /\ SecondKept /\ LinksAgree(list)' /\ LinksAgree(other)']_vars
=============================================================================
