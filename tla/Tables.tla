------------------------------- MODULE Tables -------------------------------
(***************************************************************************)
(* A client of one hash table: any calls with any keys, with and without   *)
(* memory, and walks with an iterator that remove the entry just returned  *)
(* or put a value in the place of another.  The table is meant to do what  *)
(* TableContract says.                                                     *)
(***************************************************************************)
EXTENDS Integers, Sequences, FiniteSets

CONSTANTS Keys, NullKey, Hash, Junk, MaxPowTwo,
          Values,
          Capacities    \* bound: the capacities tables are made with

H == INSTANCE HashTable

ASSUME TablesAssumption ==
    /\ NullKey \notin Keys /\ Junk \notin Values
    /\ Hash \in [Keys \cup {NullKey} -> Nat] /\ Hash[NullKey] = 0
    /\ MaxPowTwo \in Nat \ {0} /\ Capacities \subseteq Nat

VARIABLES
    table,     \* the table
    it,        \* the iterator
    mode,      \* "idle", "walk", or "crashed"
    call,      \* the last call: op, its arguments key and val, whether memory was there
    answer     \* its status and *out

tableVars == <<table, it, mode, call, answer>>

AnyKey == Keys \cup {NullKey}
NoIter == [bucket |-> 0, next |-> <<>>, prev |-> <<>>]
NoCall == [op |-> "none", key |-> NullKey, val |-> Junk, alloc |-> TRUE]

TablesInit ==
    /\ \E n \in Capacities : table = H!NewTable(n)
    /\ it = NoIter
    /\ mode = "idle"
    /\ call = NoCall
    /\ answer = [stat |-> "OK", out |-> Junk]

\* A call that ends with r.
Call(op, key, val, alloc, r) ==
    /\ table' = r.table
    /\ call' = [op |-> op, key |-> key, val |-> val, alloc |-> alloc]
    /\ answer' = [stat |-> r.stat, out |-> r.out]
    /\ mode' = IF r.stat = "CRASH" THEN "crashed" ELSE mode

OwnCall(op, key, val, alloc, r) == mode = "idle" /\ Call(op, key, val, alloc, r) /\ UNCHANGED it

Add == \E key \in AnyKey, val \in Values, room, alloc \in BOOLEAN :
    OwnCall("add", key, val, room /\ alloc, H!Add(table, key, val, room, alloc))
Get == \E key \in AnyKey : OwnCall("get", key, Junk, TRUE, H!Get(table, key))
RemoveKey == \E key \in AnyKey : OwnCall("remove", key, Junk, TRUE, H!Remove(table, key))
RemoveAll == OwnCall("remove_all", NullKey, Junk, TRUE, H!RemoveAll(table))
ContainsKey == \E key \in Keys : OwnCall("contains", key, Junk, TRUE, H!ContainsKey(table, key))
GetKeys == \E alloc \in BOOLEAN : OwnCall("keys", NullKey, Junk, alloc, H!GetKeys(table, alloc))
GetValues == \E alloc \in BOOLEAN : OwnCall("values", NullKey, Junk, alloc, H!GetValues(table, alloc))
----------------------------------------------------------------------------
(* Walks.                                                                  *)

StartWalk ==
    /\ mode = "idle"
    /\ mode' = "walk"
    /\ it' = H!IterInit(table)
    /\ call' = [NoCall EXCEPT !.op = "iter_init"]
    /\ answer' = [stat |-> "OK", out |-> Junk]
    /\ UNCHANGED table

WalkNext ==
    /\ mode = "walk"
    /\ LET n == H!IterNext(table, it) IN
       /\ it' = IF n.stat = "OK" THEN n.it ELSE NoIter
       /\ answer' = [stat |-> n.stat, out |-> n.entry]
       /\ mode' = IF n.stat = "OK" THEN mode ELSE "idle"
    /\ call' = [NoCall EXCEPT !.op = "iter_next"]
    /\ UNCHANGED table

\* Once after each entry returned.
WalkRemove ==
    /\ mode = "walk" /\ it.prev # <<>>
    /\ Call("iter_remove", it.prev[1], Junk, TRUE, H!IterRemove(table, it))
    /\ it' = [it EXCEPT !.prev = <<>>]

\* A value put in the place of another, which must not make the table grow.
WalkReplace ==
    /\ mode = "walk" /\ table.size < table.threshold
    /\ \E key \in AnyKey, val \in Values :
          /\ H!Holds(H!Chain(table, key), key)
          /\ Call("add", key, val, TRUE, H!Add(table, key, val, TRUE, TRUE))
    /\ UNCHANGED it

TablesNext ==
    \/ Add \/ Get \/ RemoveKey \/ RemoveAll \/ ContainsKey \/ GetKeys \/ GetValues
    \/ StartWalk \/ WalkNext \/ WalkRemove \/ WalkReplace

TablesSpec == TablesInit /\ [][TablesNext]_tableVars
----------------------------------------------------------------------------
(* Properties.                                                             *)

\* Every entry is in the bucket of its key's hash, no key is in the table twice, and the
\* fields agree: size counts the entries, and no table is loaded past its threshold,
\* whatever its capacity was and whichever allocation failed.
Stored ==
    /\ DOMAIN table.buckets = 0..(table.cap - 1)
    /\ \A i \in DOMAIN table.buckets : \A n \in DOMAIN table.buckets[i] :
          /\ H!Index(table.cap, table.buckets[i][n].key) = i
          /\ H!Places(table.buckets[i], table.buckets[i][n].key) = {n}
    /\ table.size = Len(H!Entries(table))
    /\ table.threshold = H!Threshold(table.cap) /\ table.size <= table.threshold

\* The function a table stands for, and what its iterator has still to return: the rest of
\* the chain it is in, and the chains of the buckets after it.
Stands ==
    LET entries == {H!Entries(table)[i] : i \in DOMAIN H!Entries(table)} IN
    [k \in {e.key : e \in entries} |-> (CHOOSE e \in entries : e.key = k).val]
Todo ==
    IF it.next = <<>> THEN {}
    ELSE LET chain == table.buckets[it.bucket] IN
         {chain[i].key : i \in H!Place(chain, it.next[1])..Len(chain)}
         \cup {k \in DOMAIN Stands : H!Index(table.cap, k) > it.bucket}

Contract == INSTANCE TableContract WITH dict <- Stands, todo <- Todo

\* A table does what a function would, through growth, collisions, the null key, failed
\* allocations and changes under an iterator, which returns every entry once; only asking
\* contains_key in a chain with the null key does not.
ImplementsTable == [][answer'.stat = "CRASH" \/ Contract!Next]_tableVars
=============================================================================
