------------------------------- MODULE HashTable -------------------------------
(***************************************************************************)
(* CC_HashTable, behind headers, cookies, sessions and users               *)
(* (lib/collectc/src/cc_hashtable.c).  A table is a record: buckets, the   *)
(* chains of entries, each a sequence whose head is the entry the bucket   *)
(* points at; size and threshold, its fields; cap, its capacity, a power   *)
(* of two.  Keys are equal when the table's key_cmp says so, and Hash is   *)
(* the table's hash.  The null key hashes to 0 and is compared with        *)
(* nothing.  Operators give the table they leave, their status and *out.   *)
(***************************************************************************)
EXTENDS Integers, Sequences, FiniteSets

Seqs == INSTANCE SequencesExt

CONSTANTS Keys, NullKey,
          Hash,            \* the hash of each key
          Junk,            \* *out when nothing is put there
          MaxPowTwo        \* MAX_POW_TWO

Done(t) == [table |-> t, stat |-> "OK", out |-> Junk]
DoneWith(t, x) == [table |-> t, stat |-> "OK", out |-> x]
Refused(t, stat) == [table |-> t, stat |-> stat, out |-> Junk]

\* The load factor is 0.75.
Threshold(cap) == (3 * cap) \div 4

\* One, doubled while it is less than n.
RoundPowTwo(n) ==
    LET doubled[k \in 0..n] ==
            IF k = 0 THEN 1
            ELSE IF doubled[k - 1] >= n THEN doubled[k - 1] ELSE 2 * doubled[k - 1]
    IN  IF n >= MaxPowTwo THEN MaxPowTwo ELSE doubled[n]

NewTable(n) ==
    LET cap == RoundPowTwo(n) IN
    [buckets |-> [i \in 0..(cap - 1) |-> <<>>], size |-> 0, cap |-> cap, threshold |-> Threshold(cap)]

Index(cap, key) == Hash[key] % cap
Chain(t, key) == t.buckets[Index(t.cap, key)]

\* The places of a key in a chain: where the walk along it stops first.
Places(chain, key) == {i \in DOMAIN chain : chain[i].key = key}
Holds(chain, key) == Places(chain, key) # {}
Place(chain, key) == CHOOSE i \in Places(chain, key) : \A j \in Places(chain, key) : i <= j
----------------------------------------------------------------------------
(* Growing.                                                                *)

\* The entries of a bucket left in the bucket they came from.
MoveEntriesStill(buckets, from, to) ==
    [i \in 0..(to - 1) |-> IF i < from THEN buckets[i] ELSE <<>>]

\* A chain is walked from its head, and each entry becomes the head of its new bucket:
\* moved[n] is what the first n entries make of bucket i.
MovedTo(chain, to, i) ==
    LET moved[n \in 0..Len(chain)] ==
            IF n = 0 THEN <<>>
            ELSE IF Index(to, chain[n].key) = i THEN <<chain[n]>> \o moved[n - 1]
            ELSE moved[n - 1]
    IN  moved[Len(chain)]

\* The new capacity is a multiple of the old one: a new bucket is fed by one old bucket.
MoveEntries(buckets, from, to) == [i \in 0..(to - 1) |-> MovedTo(buckets[i % from], to, i)]

Resize(t, alloc) ==
    IF t.cap = MaxPowTwo THEN Refused(t, "MAX_CAPACITY")
    ELSE IF ~alloc THEN Refused(t, "ALLOC")
    ELSE Done([t EXCEPT !.buckets = MoveEntries(@, t.cap, 2 * t.cap), !.cap = 2 * @,
                        !.threshold = Threshold(2 * t.cap)])
----------------------------------------------------------------------------
(* Operations.                                                             *)

\* The walk of cc_hashtable_add and of add_null_key: an entry of the key gets the value,
\* else a new one is put in front.
Put(t, key, val, alloc) ==
    LET i == Index(t.cap, key)
        chain == t.buckets[i]
    IN  IF Holds(chain, key) THEN Done([t EXCEPT !.buckets[i][Place(chain, key)].val = val])
        ELSE IF ~alloc THEN Refused(t, "ALLOC")
        ELSE Done([t EXCEPT !.buckets[i] = <<[key |-> key, val |-> val]>> \o @, !.size = @ + 1])

\* A table at its threshold grows first, and stays grown when the entry finds no memory.
Add(t, key, val, room, alloc) ==
    LET grown == IF t.size >= t.threshold THEN Resize(t, room) ELSE Done(t) IN
    IF grown.stat # "OK" THEN grown ELSE Put(grown.table, key, val, alloc)

Get(t, key) ==
    LET chain == Chain(t, key) IN
    IF Holds(chain, key) THEN DoneWith(t, chain[Place(chain, key)].val) ELSE Refused(t, "KEY_NOT_FOUND")

Remove(t, key) ==
    LET i == Index(t.cap, key)
        chain == t.buckets[i]
    IN  IF ~Holds(chain, key) THEN Refused(t, "KEY_NOT_FOUND")
        ELSE DoneWith([t EXCEPT !.buckets[i] = Seqs!RemoveAt(@, Place(chain, key)), !.size = @ - 1],
                      chain[Place(chain, key)].val)

RemoveAll(t) == Done([t EXCEPT !.buckets = [i \in DOMAIN @ |-> <<>>], !.size = 0])

\* The comparison reads every key on its way, the null key too: it ends the program.
ContainsKey(t, key) ==
    LET chain == Chain(t, key)
        read == IF Holds(chain, key) THEN 1..Place(chain, key) ELSE DOMAIN chain
    IN  IF \E i \in read : chain[i].key = NullKey THEN Refused(t, "CRASH")
        ELSE DoneWith(t, Holds(chain, key))

\* Buckets in order, chains from their heads.
Entries(t) ==
    LET upto[i \in 0..t.cap] == IF i = 0 THEN <<>> ELSE upto[i - 1] \o t.buckets[i - 1]
    IN  upto[t.cap]

\* The array for the entries of an empty table has no capacity and is refused.
Listed(t, column, alloc) ==
    IF t.size = 0 THEN Refused(t, "INVALID_CAPACITY")
    ELSE IF ~alloc THEN Refused(t, "ALLOC")
    ELSE DoneWith(t, column)
GetKeys(t, alloc) == Listed(t, [i \in DOMAIN Entries(t) |-> Entries(t)[i].key], alloc)
GetValues(t, alloc) == Listed(t, [i \in DOMAIN Entries(t) |-> Entries(t)[i].val], alloc)
----------------------------------------------------------------------------
(* Iterators: the bucket index, and the keys of next_entry and prev_entry, *)
(* each a sequence of no key or one.                                       *)

\* The first entry of a bucket from i on, and its bucket.
FullFrom(t, i) == {j \in i..(t.cap - 1) : t.buckets[j] # <<>>}
LeastOf(S) == CHOOSE i \in S : \A j \in S : i <= j

IterInit(t) ==
    IF FullFrom(t, 0) = {} THEN [bucket |-> 0, next |-> <<>>, prev |-> <<>>]
    ELSE LET i == LeastOf(FullFrom(t, 0)) IN
         [bucket |-> i, next |-> <<Head(t.buckets[i]).key>>, prev |-> <<>>]

\* The chain left only when the buckets from the present one on are looked through.
IterNextSame(t, it) ==
    IF it.next = <<>> THEN [it |-> it, stat |-> "ITER_END", entry |-> Junk]
    ELSE LET chain == t.buckets[it.bucket]
             p == Place(chain, it.next[1])
         IN  [it |-> [it EXCEPT !.prev = it.next,
                                !.next = IF p < Len(chain) THEN <<chain[p + 1].key>> ELSE <<>>],
              stat |-> "OK", entry |-> chain[p]]

IterNext(t, it) ==
    IF it.next = <<>> THEN [it |-> it, stat |-> "ITER_END", entry |-> Junk]
    ELSE LET chain == t.buckets[it.bucket]
             p == Place(chain, it.next[1])
             later == FullFrom(t, it.bucket + 1)
             i == LeastOf(later)
         IN  [it |-> CASE p < Len(chain) -> [it EXCEPT !.prev = it.next, !.next = <<chain[p + 1].key>>]
                       [] p = Len(chain) /\ later = {} -> [it EXCEPT !.prev = it.next, !.next = <<>>]
                       [] OTHER -> [bucket |-> i, prev |-> it.next, next |-> <<Head(t.buckets[i]).key>>],
              stat |-> "OK", entry |-> chain[p]]

\* The entry returned last is looked up by its key; after that it is gone.
IterRemove(t, it) == Remove(t, it.prev[1])
=============================================================================
