---------------------------- MODULE TableContract ----------------------------
(***************************************************************************)
(* What a hash table promises its callers: a function from keys to         *)
(* values, and an iterator that returns every entry of it once.  todo is   *)
(* what the iterator has still to return, call the last call made and      *)
(* answer what came of it.                                                 *)
(***************************************************************************)
EXTENDS Integers, FiniteSets, Sequences, Functions

CONSTANTS Junk

VARIABLES dict, todo, call, answer

Refusals == {"ALLOC", "MAX_CAPACITY"}

Failed == answer'.stat # "OK" /\ UNCHANGED dict
With(key, val) == [k \in DOMAIN dict \cup {key} |-> IF k = key THEN val ELSE dict[k]]
Without(key) == Restrict(dict, DOMAIN dict \ {key})

\* An addition may fail for lack of memory, and then changes nothing.
AddEntry ==
    /\ call'.op = "add"
    /\ \/ answer'.stat = "OK" /\ dict' = With(call'.key, call'.val)
       \/ answer'.stat \in Refusals /\ Failed

GetValue ==
    /\ call'.op = "get" /\ UNCHANGED dict
    /\ IF call'.key \in DOMAIN dict
       THEN answer' = [stat |-> "OK", out |-> dict[call'.key]] ELSE answer'.stat # "OK"

RemoveEntry ==
    /\ call'.op \in {"remove", "iter_remove"}
    /\ IF call'.key \in DOMAIN dict
       THEN answer' = [stat |-> "OK", out |-> dict[call'.key]] /\ dict' = Without(call'.key)
       ELSE Failed

Clear == call'.op = "remove_all" /\ dict' = <<>>

AskKey ==
    /\ call'.op = "contains" /\ UNCHANGED dict
    /\ answer' = [stat |-> "OK", out |-> call'.key \in DOMAIN dict]

\* Each key, or the value of each key, in some order; nothing for lack of memory.
List ==
    /\ call'.op \in {"keys", "values"} /\ UNCHANGED dict
    /\ IF answer'.stat # "OK" THEN ~call'.alloc \/ dict = <<>>
       ELSE LET listed == answer'.out IN
            /\ Len(listed) = Cardinality(DOMAIN dict)
            /\ \E order \in Bijection(DOMAIN listed, DOMAIN dict) :
                  \A i \in DOMAIN listed :
                     listed[i] = IF call'.op = "keys" THEN order[i] ELSE dict[order[i]]

\* An iterator starts with every key still to be returned.
StartIter == call'.op = "iter_init" /\ todo' = DOMAIN dict /\ UNCHANGED dict

\* It returns one of those, with its value, or ends when there is none.
NextIter ==
    /\ call'.op = "iter_next" /\ UNCHANGED dict
    /\ IF todo = {} THEN answer'.stat = "ITER_END" /\ todo' = {}
       ELSE /\ answer'.stat = "OK"
            /\ answer'.out.key \in todo /\ answer'.out.val = dict[answer'.out.key]
            /\ todo' = todo \ {answer'.out.key}

\* Between two steps of an iterator a value may be put in the place of another, and the
\* entry returned last may be removed; what is still to come stays so.
Next ==
    \/ (AddEntry \/ GetValue \/ RemoveEntry \/ Clear \/ AskKey \/ List) /\ UNCHANGED todo
    \/ StartIter \/ NextIter
=============================================================================
