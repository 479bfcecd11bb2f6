----------------------------- MODULE AuthProofs -----------------------------
(***************************************************************************)
(* Sessions, tokens and users for any number of workers, sessions, users   *)
(* and requests: what holds through races, and what holds without them.    *)
(* Then the key pair the same users' cookies are signed with, over the     *)
(* restarts of the process; and the hash table that sessions and users are *)
(* kept in, for any calls of one caller.                                   *)
(***************************************************************************)
EXTENDS Sessions, KeyStore, Tables, NumberInduction, FiniteSetTheorems

Words == Tokens \cup Roles \cup {None}
InTable == {"scan", "link", "publish"}
Before == {"get", "allocate", "bump", "filter", "auth", "role", "login", "handle"}
Behind == {"filter", "auth", "role", "login", "handle"}

\* The request of a worker is one that gets where the worker is.
Fitting(l, r, s) ==
    /\ s \in Sessions
    /\ r.kind \in {"csrf", "login", "file", "signup"}
    /\ l \in {"get", "answer"} => r.kind = "csrf"
    /\ l \in {"allocate", "bump", "fill"} \cup InTable => r.kind \in {"csrf", "signup"}
    /\ l \in Behind => r.kind # "csrf"
    /\ l = "login" => r.kind = "login"
    /\ l \in {"auth", "handle"} => r.kind \in {"file", "signup"}
    /\ l = "role" => r.kind = "signup"
    /\ r.kind \in {"login", "signup"} => r.name \in Users
    /\ r.kind = "signup" => r.role \in Roles
    /\ r.kind \in {"file", "signup"} => r.cookie \in Users \cup {None}

Types ==
    /\ TypeOK
    /\ requests \in 0..MaxRequests /\ raced \in BOOLEAN
    /\ DOMAIN req = Workers
    /\ link \in [Workers -> Seq(Entries)]
    /\ DOMAIN tables = {"csrf", "users"}
    /\ answers \subseteq Sessions \X Words
    /\ loggedIn \subseteq Users
    /\ signedUp \in [Users -> Seq(Roles)]
    /\ \A w \in Workers : pc[w] # "idle" => Fitting(pc[w], req[w], session[w])

(***************************************************************************)
(* Each request allocates once at most, so the arena does not run out; an  *)
(* address taken before the count fell back stays below the bound as well. *)
(***************************************************************************)
Pending == {w \in Workers : pc[w] \in Before}
Spent == requests - Cardinality(Pending)
Room ==
    /\ count <= Spent + 2
    /\ \A w \in Workers : pc[w] = "bump" => cell[w] <= Spent + 2
    /\ \A w \in Workers : pc[w] \in {"bump", "fill", "answer"} \cup InTable => cell[w] # 0

Filled ==
    /\ \A w \in Workers : pc[w] \in InTable => memory[cell[w]] # None
    /\ \A w \in Workers : \A i \in DOMAIN link[w] : memory[link[w][i].cell] # None
    /\ \A t \in {"csrf", "users"} : \A i \in DOMAIN tables[t] : memory[tables[t][i].cell] # None

IInv == Types /\ Room /\ Filled

(***************************************************************************)
(* cc_hashtable_get: the cell of the first entry with the key.             *)
(***************************************************************************)
HasKey(t, k) == \E i \in DOMAIN tables[t] : tables[t][i].key = k
FirstWith(t, k, i) ==
    /\ i \in DOMAIN tables[t] /\ tables[t][i].key = k
    /\ \A j \in DOMAIN tables[t] : tables[t][j].key = k => i <= j

LEMMA Finds ==
  ASSUME Types, NEW t \in {"csrf", "users"}, NEW k
  PROVE  LET n == SelectInSeq(tables[t], LAMBDA e : e.key = k) IN
         /\ HasKey(t, k) => FirstWith(t, k, n) /\ n # 0
         /\ ~HasKey(t, k) => n = 0
<1> DEFINE I == {i \in 1..Len(tables[t]) : tables[t][i].key = k}
           n == SelectInSeq(tables[t], LAMBDA e : e.key = k)
<1>1. tables[t] \in Seq(Entries) /\ DOMAIN tables[t] = 1..Len(tables[t])
  BY DEF Types, TypeOK
<1>2. n = IF I # {} THEN Min(I) ELSE 0
  BY DEF SelectInSeq
<1>3. HasKey(t, k) <=> I # {}
  BY <1>1 DEF HasKey
<1>6. I \subseteq Nat \ {0} /\ \A i : i \in I <=> i \in DOMAIN tables[t] /\ tables[t][i].key = k
  BY <1>1
<1> HIDE DEF I, n
<1>4. ASSUME I # {} PROVE Min(I) \in I /\ \A j \in I : Min(I) <= j
  <2>1. \E m \in I : \A j \in I : m <= j
    BY <1>4, <1>6, Smallest
  <2> QED
    BY <2>1 DEF Min
<1>5. ASSUME HasKey(t, k) PROVE FirstWith(t, k, n) /\ n # 0
  BY <1>2, <1>3, <1>4, <1>5, <1>6 DEF FirstWith
<1> QED
  BY <1>2, <1>3, <1>5 DEF n

LEMMA LookupFinds ==
  ASSUME Types, NEW t \in {"csrf", "users"}, NEW k
  PROVE  /\ Lookup(t, k) \in Cells \cup {0}
         /\ Lookup(t, k) # 0 <=> HasKey(t, k)
         /\ \A i : FirstWith(t, k, i) => Lookup(t, k) = tables[t][i].cell
<1> DEFINE n == SelectInSeq(tables[t], LAMBDA e : e.key = k)
<1>1. tables[t] \in Seq(Entries) /\ DOMAIN tables[t] = 1..Len(tables[t]) /\ 0 \notin Cells
  BY DEF Types, TypeOK, Cells
<1>2. Lookup(t, k) = IF n = 0 THEN 0 ELSE tables[t][n].cell
  BY DEF Lookup
<1>3. (HasKey(t, k) => FirstWith(t, k, n) /\ n # 0) /\ (~HasKey(t, k) => n = 0)
  BY Finds
<1> HIDE DEF n
<1>4. \A i : FirstWith(t, k, i) => HasKey(t, k) /\ i = n
  <2> SUFFICES ASSUME NEW i, FirstWith(t, k, i) PROVE HasKey(t, k) /\ i = n
    OBVIOUS
  <2>1. HasKey(t, k)
    BY DEF FirstWith, HasKey
  <2>2. i \in DOMAIN tables[t] /\ n \in DOMAIN tables[t] /\ i <= n /\ n <= i
    BY <1>3, <2>1 DEF FirstWith
  <2> QED
    BY <1>1, <2>1, <2>2
<1>5. ASSUME HasKey(t, k) PROVE tables[t][n].cell \in Cells
  <2>1. tables[t][n] \in Entries
    BY <1>1, <1>3, <1>5 DEF FirstWith
  <2> QED
    BY <2>1 DEF Entries
<1> QED
  BY <1>1, <1>2, <1>3, <1>4, <1>5
----------------------------------------------------------------------------
(***************************************************************************)
(* Through races: the types, the arena's room, and no blank memory in a    *)
(* table.                                                                  *)
(***************************************************************************)
LEMMA Bounds ==
  /\ MaxRequests + 2 \in Cells /\ MaxRequests \in Nat
  /\ \A n \in 1..(MaxRequests + 2) : n \in Cells
  /\ Cells \subseteq Nat \ {0}
<1>1. Cardinality(Tokens) \in Nat /\ Cardinality(Tokens) >= MaxRequests /\ MaxRequests \in Nat \ {0}
  BY SessionsAssumption, FS_CardinalityType
<1> QED
  BY <1>1 DEF Cells

LEMMA Addresses ==
  ASSUME Types
  PROVE  count \in Nat /\ \A v \in Workers : cell[v] \in Nat
<1>1. count \in Cells /\ \A v \in Workers : cell[v] \in Cells \cup {0}
  BY DEF Types, TypeOK
<1>2. Cells \subseteq Nat \ {0} /\ 0 \in Nat
  BY Bounds
<1> HIDE DEF Cells
<1> QED
  BY <1>1, <1>2

LEMMA SpentType ==
  ASSUME requests \in 0..MaxRequests
  PROVE  /\ IsFiniteSet(Pending) /\ Cardinality(Pending) \in Nat
         /\ Spent \in Int /\ Spent <= requests /\ Spent <= MaxRequests
<1>1. IsFiniteSet(Pending) /\ Cardinality(Pending) \in Nat
  BY SessionsAssumption, FS_Subset, FS_CardinalityType DEF Pending
<1> QED
  BY <1>1, Bounds DEF Spent

\* A step of one worker spends a request when it passes the allocation or does without.
LEMMA Spending ==
  ASSUME Types, Types', NEW w \in Workers, NEW l, pc' = [pc EXCEPT ![w] = l],
         \/ requests' = requests /\ (l \in Before => pc[w] \in Before)
         \/ requests' = requests + 1 /\ pc[w] \notin Before
  PROVE  /\ Spent' >= Spent
         /\ pc[w] \in Before /\ l \notin Before => Spent' = Spent + 1
<1>2. /\ requests \in 0..MaxRequests /\ requests' \in 0..MaxRequests
      /\ pc'[w] = l /\ \A v \in Workers \ {w} : pc'[v] = pc[v]
  BY DEF Types, TypeOK
<1>3. IsFiniteSet(Pending) /\ Cardinality(Pending) \in Nat
  BY <1>2, SpentType
<1>4. CASE pc[w] \in Before /\ l \in Before
  <2>1. Pending' = Pending
    BY <1>2, <1>4 DEF Pending
  <2> QED
    BY <1>2, <1>3, <1>4, <2>1 DEF Spent
<1>5. CASE pc[w] \in Before /\ l \notin Before
  <2>1. Pending' = Pending \ {w} /\ w \in Pending
    BY <1>2, <1>5 DEF Pending
  <2>2. Cardinality(Pending') = Cardinality(Pending) - 1
    BY <1>3, <2>1, FS_RemoveElement
  <2> QED
    BY <1>2, <1>3, <1>5, <2>2 DEF Spent
<1>6. CASE pc[w] \notin Before /\ l \in Before
  <2>1. Pending' = Pending \cup {w} /\ w \notin Pending
    BY <1>2, <1>6 DEF Pending
  <2>2. Cardinality(Pending') = Cardinality(Pending) + 1
    BY <1>3, <2>1, FS_AddElement
  <2> QED
    BY <1>2, <1>3, <1>6, <2>2 DEF Spent
<1>7. CASE pc[w] \notin Before /\ l \notin Before
  <2>1. Pending' = Pending
    BY <1>2, <1>7 DEF Pending
  <2> QED
    BY <1>2, <1>3, <1>7, <2>1 DEF Spent
<1> QED
  BY <1>4, <1>5, <1>6, <1>7

LEMMA Initially == Init => IInv
<1> SUFFICES ASSUME Init PROVE IInv
  OBVIOUS
<1>1. 1 \in Cells /\ 2 \in Cells
  BY Bounds
<1>2. Types
  <2>1. tables.csrf \in Seq(Entries) /\ tables.users \in Seq(Entries)
    BY <1>1, SessionsAssumption DEF Init, Entries
  <2>2. memory \in [Cells -> Words]
    BY SessionsAssumption DEF Init, Words
  <2>3. signedUp \in [Users -> Seq(Roles)]
    BY SessionsAssumption DEF Init
  <2>4. TypeOK
    BY <1>1, <2>1, <2>2 DEF Init, TypeOK, Words
  <2> QED
    <3>1. link \in [Workers -> Seq(Entries)] /\ DOMAIN tables = {"csrf", "users"} /\ DOMAIN req = Workers
      BY DEF Init
    <3>2. requests \in 0..MaxRequests /\ raced \in BOOLEAN /\ answers = {} /\ loggedIn = {}
      <4>1. 0 \in 0..MaxRequests
        BY Bounds
      <4> QED
        BY <4>1 DEF Init
    <3>3. \A w \in Workers : pc[w] = "idle"
      BY DEF Init
    <3> QED
      BY <2>3, <2>4, <3>1, <3>2, <3>3 DEF Types
<1>3. Room
  <2>1. Pending = {}
    BY DEF Init, Pending, Before
  <2>2. Spent = 0
    BY <2>1, FS_EmptySet DEF Spent, Init
  <2> QED
    BY <2>2 DEF Room, Init, InTable
<1>4. Filled
  BY <1>1, SessionsAssumption DEF Filled, Init, InTable
<1> QED
  BY <1>2, <1>3, <1>4 DEF IInv

\* A step that leaves tables, memory and insertions alone.
LEMMA QuietKeeps ==
  ASSUME IInv, Types', NEW w \in Workers, NEW l, pc' = [pc EXCEPT ![w] = l],
         \/ requests' = requests /\ (l \in Before => pc[w] \in Before)
         \/ requests' = requests + 1 /\ pc[w] \notin Before,
         l \notin {"bump", "fill", "answer"} \cup InTable,
         UNCHANGED <<cell, link, count, memory, tables>>
  PROVE  IInv'
<1>1. \A v \in Workers : pc'[v] # pc[v] => v = w /\ pc'[v] = l
  BY DEF IInv, Types, TypeOK
<1>2. Spent' >= Spent /\ Spent \in Int /\ Spent' \in Int
  <2>1. Spent' >= Spent
    BY Spending DEF IInv
  <2>2. requests \in 0..MaxRequests /\ requests' \in 0..MaxRequests
    BY DEF IInv, Types
  <2>3. Spent' \in Int
    <3>1. Cardinality(Pending') \in Nat
      BY SessionsAssumption, FS_Subset, FS_CardinalityType DEF Pending
    <3> QED
      BY <2>2, <3>1, Bounds DEF Spent
  <2> QED
    BY <2>1, <2>2, <2>3, SpentType
<1>3. count \in Nat /\ \A v \in Workers : cell[v] \in Nat
  BY Addresses DEF IInv
<1>4. Room'
  <2>1. count <= Spent + 2 /\ \A v \in Workers : pc[v] = "bump" => cell[v] <= Spent + 2
    BY DEF IInv, Room
  <2>2. count' <= Spent' + 2
    <3>1. count' = count /\ count <= Spent + 2 /\ count \in Nat /\ count' \in Nat
      BY <1>3, <2>1
    <3>2. \A x, y \in Int : \A c \in Nat : c <= x + 2 /\ y >= x => c <= y + 2
      OBVIOUS
    <3> QED
      BY <1>2, <3>1, <3>2
  <2>3. \A v \in Workers : pc'[v] = "bump" => pc[v] = "bump"
    BY <1>1
  <2>4. \A v \in Workers : pc'[v] = "bump" => cell'[v] <= Spent' + 2
    BY <1>2, <1>3, <2>1, <2>3
  <2>5. \A v \in Workers : pc'[v] \in {"bump", "fill", "answer"} \cup InTable => cell'[v] # 0
    BY <1>1 DEF IInv, Room
  <2> QED
    BY <2>2, <2>4, <2>5 DEF Room
<1>5. Filled'
  BY <1>1 DEF IInv, Filled
<1> QED
  BY <1>4, <1>5 DEF IInv

LEMMA BeginKeeps ==
  ASSUME IInv, NEW w \in Workers, NEW r \in Requests, Begin(w, r)
  PROVE  IInv'
<1> DEFINE l == IF r.kind = "csrf" THEN "get" ELSE "filter"
<1>1. PICK s \in IF r.session = None THEN Sessions \ Known ELSE {r.session} :
         session' = [session EXCEPT ![w] = s]
  BY DEF Begin
<1>2. /\ r.kind \in {"csrf", "login", "file", "signup"} /\ r.session \in MaybeSessions
      /\ r.kind \in {"login", "signup"} => r.name \in Users
      /\ r.kind = "signup" => r.role \in Roles
      /\ r.kind \in {"file", "signup"} => r.cookie \in Cookies
  BY DEF Requests
<1>3. s \in Sessions
  BY <1>1, <1>2 DEF MaybeSessions
<1>4. Cookies \subseteq Users \cup {None}
  BY SessionsAssumption DEF IInv, Types, Cookies
<1>5. /\ pc[w] = "idle" /\ requests' = requests + 1 /\ requests' \in 0..MaxRequests
      /\ pc' = [pc EXCEPT ![w] = l] /\ req' = [req EXCEPT ![w] = r] /\ role' = [role EXCEPT ![w] = 0]
      /\ UNCHANGED <<cell, link, count, memory, tables, loggedIn, answers, signedUp, raced>>
  BY Bounds DEF IInv, Types, Begin, At, Goto, arenaVars, historyVars
<1>6. Fitting(l, r, s)
  BY <1>2, <1>3, <1>4 DEF Fitting, InTable, Behind
<1>7. TypeOK'
  BY <1>1, <1>3, <1>5 DEF IInv, Types, TypeOK
<1>8. Types'
  BY <1>1, <1>5, <1>6, <1>7 DEF IInv, Types, TypeOK
<1> QED
  BY <1>5, <1>8, QuietKeeps DEF Before, InTable

Labels == {"idle", "get", "allocate", "bump", "fill", "scan", "link", "publish",
           "answer", "filter", "auth", "role", "login", "handle"}

\* A worker goes on with its request.
Goes(w, l) ==
    /\ pc' = [pc EXCEPT ![w] = l] /\ l \in Labels
    /\ l = "idle" \/ (pc[w] # "idle" /\ Fitting(l, req[w], session[w]))
    /\ UNCHANGED <<requests, req, session>>

LEMMA GoesTyped ==
  ASSUME Types, NEW w \in Workers, NEW l, Goes(w, l)
  PROVE  /\ \A v \in Workers : pc'[v] # "idle" => Fitting(pc'[v], req'[v], session'[v])
         /\ pc' \in [Workers -> Labels]
         /\ requests' \in 0..MaxRequests /\ DOMAIN req' = Workers
         /\ session' \in [Workers -> Sessions \cup {None}]
<1>1. pc \in [Workers -> Labels]
  BY DEF Types, TypeOK, Labels
<1>2. pc' \in [Workers -> Labels] /\ \A v \in Workers : pc'[v] = IF v = w THEN l ELSE pc[v]
  BY <1>1 DEF Goes
<1> QED
  BY <1>2 DEF Goes, Types, TypeOK

\* A step of a filter or a handler around the tables.
LEMMA MoveKeeps ==
  ASSUME IInv, NEW w \in Workers, NEW l, Goes(w, l),
         l \in Before => pc[w] \in Before,
         l \notin {"bump", "fill", "answer"} \cup InTable,
         role' = role \/ (\E c \in Cells : role' = [role EXCEPT ![w] = c]),
         l = "role" => role'[w] # 0,
         answers' \subseteq Sessions \X Words, loggedIn' \subseteq Users, raced' \in BOOLEAN,
         UNCHANGED <<cell, link, count, memory, tables, signedUp>>
  PROVE  IInv'
<1>1. /\ \A v \in Workers : pc'[v] # "idle" => Fitting(pc'[v], req'[v], session'[v])
      /\ pc' \in [Workers -> Labels]
      /\ requests' \in 0..MaxRequests /\ DOMAIN req' = Workers
      /\ session' \in [Workers -> Sessions \cup {None}]
  BY GoesTyped DEF IInv
<1>2. pc' = [pc EXCEPT ![w] = l] /\ requests' = requests
  BY DEF Goes
<1>3. role' \in [Workers -> Cells \cup {0}] /\ \A v \in Workers : pc'[v] = "role" => role'[v] # 0
  <2>1. role \in [Workers -> Cells \cup {0}] /\ \A v \in Workers : pc[v] = "role" => role[v] # 0
    BY DEF IInv, Types, TypeOK
  <2>2. \A v \in Workers \ {w} : role'[v] = role[v] /\ pc'[v] = pc[v]
    BY <1>2, <2>1 DEF IInv, Types, TypeOK
  <2>3. pc'[w] = l
    BY <1>2 DEF IInv, Types, TypeOK
  <2> QED
    BY <2>1, <2>2, <2>3
<1>4. TypeOK'
  BY <1>1, <1>3 DEF IInv, Types, TypeOK, Labels
<1>5. Types'
  BY <1>1, <1>4 DEF IInv, Types
<1> QED
  BY <1>2, <1>5, QuietKeeps

LEMMA AnswerKeeps ==
  ASSUME IInv, NEW w \in Workers, Answer(w)
  PROVE  IInv'
<1>1. /\ pc[w] = "answer" /\ pc' = [pc EXCEPT ![w] = "idle"]
      /\ answers' = answers \cup {<<session[w], memory[cell[w]]>>}
      /\ UNCHANGED <<requests, req, session, role, cell, link, count, memory, tables, loggedIn,
                     signedUp, raced>>
  BY DEF Answer, At, Goto, arenaVars
<1>2. session[w] \in Sessions /\ cell[w] # 0
  BY <1>1 DEF IInv, Types, Fitting, Room
<1>3. memory[cell[w]] \in Words
  BY <1>2 DEF IInv, Types, TypeOK, Words
<1>4. /\ answers' \subseteq Sessions \X Words
      /\ loggedIn' \subseteq Users /\ raced' \in BOOLEAN
  BY <1>1, <1>2, <1>3 DEF IInv, Types
<1>5. Goes(w, "idle")
  BY <1>1 DEF Goes, Labels
<1> QED
  BY <1>1, <1>4, <1>5, MoveKeeps DEF Before, InTable

LEMMA FilterKeeps ==
  ASSUME IInv, NEW w \in Workers, CsrfFilter(w) \/ RoleFilter(w)
  PROVE  IInv'
<1>1. /\ UNCHANGED <<requests, req, session, role, cell, link, count, memory, tables, loggedIn,
                     answers, signedUp, raced>>
      /\ \/ pc' = [pc EXCEPT ![w] = "idle"]
         \/ pc[w] = "filter" /\ pc' = [pc EXCEPT ![w] = Passed(w)]
         \/ pc[w] = "role" /\ pc' = [pc EXCEPT ![w] = "handle"]
  BY DEF CsrfFilter, RoleFilter, Refuse, At, Goto, arenaVars
<1>2. loggedIn' \subseteq Users /\ raced' \in BOOLEAN /\ answers' \subseteq Sessions \X Words
  BY <1>1 DEF IInv, Types
<1>3. PICK l \in {"idle", "login", "auth", "handle"} :
         pc' = [pc EXCEPT ![w] = l] /\ (l # "idle" => pc[w] \in Before) /\ Goes(w, l)
  <2>1. CASE pc' = [pc EXCEPT ![w] = "idle"]
    BY <1>1, <2>1 DEF Goes, Labels
  <2>2. CASE pc[w] = "filter" /\ pc' = [pc EXCEPT ![w] = Passed(w)]
    <3>1. Fitting("filter", req[w], session[w])
      BY <2>2 DEF IInv, Types
    <3>2. Passed(w) \in {"login", "auth"} /\ Fitting(Passed(w), req[w], session[w])
      BY <3>1 DEF Passed, Fitting, InTable, Behind
    <3> QED
      BY <1>1, <2>2, <3>2 DEF Goes, Labels, Before
  <2>3. CASE pc[w] = "role" /\ pc' = [pc EXCEPT ![w] = "handle"]
    <3>1. Fitting("role", req[w], session[w])
      BY <2>3 DEF IInv, Types
    <3>2. Fitting("handle", req[w], session[w])
      BY <3>1 DEF Fitting, InTable, Behind
    <3> QED
      BY <1>1, <2>3, <3>2 DEF Goes, Labels, Before
  <2> QED
    BY <1>1, <2>1, <2>2, <2>3
<1> QED
  BY <1>1, <1>2, <1>3, MoveKeeps DEF Before, InTable

LEMMA AuthKeeps ==
  ASSUME IInv, NEW w \in Workers, AuthFilter(w)
  PROVE  IInv'
<1> DEFINE c == Lookup("users", req[w].cookie)
<1>1. /\ pc[w] = "auth"
      /\ UNCHANGED <<requests, req, session, cell, link, count, memory, tables, loggedIn,
                     answers, signedUp, raced>>
      /\ \/ pc' = [pc EXCEPT ![w] = "idle"] /\ role' = role
         \/ /\ c # 0 /\ role' = [role EXCEPT ![w] = c]
            /\ pc' = [pc EXCEPT ![w] = IF req[w].kind = "signup" THEN "role" ELSE "handle"]
  BY DEF AuthFilter, Refuse, At, Goto, arenaVars
<1>2. loggedIn' \subseteq Users /\ raced' \in BOOLEAN /\ answers' \subseteq Sessions \X Words
  BY <1>1 DEF IInv, Types
<1>3. c \in Cells \cup {0} /\ 0 \notin Cells
  BY LookupFinds, Bounds DEF IInv
<1>4. PICK l \in {"idle", "role", "handle"} :
         /\ pc' = [pc EXCEPT ![w] = l] /\ Goes(w, l)
         /\ (role' = role /\ l = "idle") \/ (c # 0 /\ role' = [role EXCEPT ![w] = c])
  <2>1. Fitting("auth", req[w], session[w])
    BY <1>1 DEF IInv, Types
  <2>2. CASE pc' = [pc EXCEPT ![w] = "idle"] /\ role' = role
    <3>1. Goes(w, "idle")
      BY <1>1, <2>2 DEF Goes, Labels
    <3> QED
      BY <2>2, <3>1
  <2>3. CASE /\ c # 0 /\ role' = [role EXCEPT ![w] = c]
             /\ pc' = [pc EXCEPT ![w] = IF req[w].kind = "signup" THEN "role" ELSE "handle"]
    <3>1. PICK l \in {"role", "handle"} : l = IF req[w].kind = "signup" THEN "role" ELSE "handle"
      OBVIOUS
    <3>2. Fitting(l, req[w], session[w])
      BY <2>1, <3>1 DEF Fitting, InTable, Behind
    <3> QED
      BY <1>1, <2>3, <3>1, <3>2 DEF Goes, Labels
  <2> QED
    BY <1>1, <2>2, <2>3
<1>5. role' = role \/ \E d \in Cells : role' = [role EXCEPT ![w] = d]
  BY <1>3, <1>4
<1>6. l = "role" => role'[w] # 0
  BY <1>3, <1>4 DEF IInv, Types, TypeOK
<1> QED
  BY <1>1, <1>2, <1>4, <1>5, <1>6, MoveKeeps DEF Before, InTable

LEMMA LoginKeeps ==
  ASSUME IInv, NEW w \in Workers, Login(w)
  PROVE  IInv'
<1> DEFINE c == Lookup("users", req[w].name)
<1>1. /\ pc[w] = "login" /\ pc' = [pc EXCEPT ![w] = "idle"]
      /\ UNCHANGED <<requests, req, session, cell, link, count, memory, tables,
                     answers, signedUp, raced>>
      /\ \/ role' = role /\ loggedIn' = loggedIn
         \/ c # 0 /\ role' = [role EXCEPT ![w] = c] /\ loggedIn' = loggedIn \cup {req[w].name}
  BY DEF Login, Refuse, At, Goto, arenaVars
<1>2. raced' \in BOOLEAN /\ answers' \subseteq Sessions \X Words
  BY <1>1 DEF IInv, Types
<1>3. c \in Cells \cup {0}
  BY LookupFinds DEF IInv
<1>4. req[w].name \in Users
  BY <1>1 DEF IInv, Types, Fitting
<1>5. loggedIn' \subseteq Users
  BY <1>1, <1>4 DEF IInv, Types
<1>6. Goes(w, "idle")
  BY <1>1 DEF Goes, Labels
<1>7. role' = role \/ \E d \in Cells : role' = [role EXCEPT ![w] = d]
  BY <1>1, <1>3
<1> QED
  BY <1>1, <1>2, <1>5, <1>6, <1>7, MoveKeeps DEF Before, InTable

LEMMA HandleKeeps ==
  ASSUME IInv, NEW w \in Workers, Handle(w)
  PROVE  IInv'
<1>1. /\ pc[w] = "handle"
      /\ UNCHANGED <<requests, req, session, role, cell, link, count, memory, tables, loggedIn,
                     answers, signedUp>>
      /\ raced' = raced \/ raced' = (raced \/ \E v \in Workers \ {w} : Inserting(v))
      /\ \/ pc' = [pc EXCEPT ![w] = "idle"]
         \/ req[w].kind = "signup" /\ pc' = [pc EXCEPT ![w] = "allocate"]
  BY DEF Handle, StartInsertion, At, Goto, arenaVars, historyVars
<1>2. loggedIn' \subseteq Users /\ raced' \in BOOLEAN /\ answers' \subseteq Sessions \X Words
  BY <1>1 DEF IInv, Types
<1>3. PICK l \in {"idle", "allocate"} : pc' = [pc EXCEPT ![w] = l] /\ Goes(w, l)
  <2>1. Fitting("handle", req[w], session[w])
    BY <1>1 DEF IInv, Types
  <2>2. req[w].kind = "signup" => Fitting("allocate", req[w], session[w])
    BY <2>1 DEF Fitting, InTable, Behind
  <2> QED
    BY <1>1, <2>2 DEF Goes, Labels
<1> QED
  BY <1>1, <1>2, <1>3, MoveKeeps DEF Before, InTable

\* A step of an insertion leaves the filters' state alone.
InsertionStep(w, l) ==
    /\ Goes(w, l) /\ l # "role" /\ l \notin Before \ {"bump"}
    /\ UNCHANGED <<role, loggedIn, answers>>

LEMMA InsertionTyped ==
  ASSUME Types, NEW w \in Workers, NEW l, InsertionStep(w, l),
         cell' \in [Workers -> Cells \cup {0}], link' \in [Workers -> Seq(Entries)],
         count' \in Cells, memory' \in [Cells -> Words],
         DOMAIN tables' = {"csrf", "users"},
         tables'["csrf"] \in Seq(Entries), tables'["users"] \in Seq(Entries),
         signedUp' \in [Users -> Seq(Roles)], raced' \in BOOLEAN
  PROVE  Types'
<1>1. /\ \A v \in Workers : pc'[v] # "idle" => Fitting(pc'[v], req'[v], session'[v])
      /\ pc' \in [Workers -> Labels]
      /\ requests' \in 0..MaxRequests /\ DOMAIN req' = Workers
      /\ session' \in [Workers -> Sessions \cup {None}]
  BY GoesTyped DEF InsertionStep
<1>2. \A v \in Workers : pc'[v] = "role" => role'[v] # 0
  BY DEF InsertionStep, Goes, Types, TypeOK
<1>3. TypeOK'
  BY <1>1, <1>2 DEF InsertionStep, Types, TypeOK, Labels, Words
<1> QED
  BY <1>1, <1>3 DEF InsertionStep, Types

\* What is common to the steps that move within the tables.
LEMMA RoomStays ==
  ASSUME IInv, Types', NEW w \in Workers, NEW l, InsertionStep(w, l), l # "bump",
         pc[w] \notin Before \/ count' = count,
         UNCHANGED count,
         \A v \in Workers \ {w} : cell'[v] = cell[v],
         l \in {"fill", "answer"} \cup InTable => cell'[w] # 0
  PROVE  Room'
<1>1. /\ pc' = [pc EXCEPT ![w] = l] /\ requests' = requests /\ l \notin Before
      /\ \A v \in Workers : pc'[v] = IF v = w THEN l ELSE pc[v]
  BY DEF IInv, Types, TypeOK, InsertionStep, Goes
<1>2. Spent' >= Spent
  BY <1>1, Spending DEF IInv
<1>3. Spent \in Int /\ Spent' \in Int
  <2>1. requests \in 0..MaxRequests /\ requests' \in 0..MaxRequests
    BY DEF IInv, Types
  <2>2. Cardinality(Pending') \in Nat
    BY SessionsAssumption, FS_Subset, FS_CardinalityType DEF Pending
  <2> QED
    BY <2>1, <2>2, SpentType, Bounds DEF Spent
<1>4. count \in Nat /\ \A v \in Workers : cell[v] \in Nat
  BY Addresses DEF IInv
<1>5. \A v \in Workers : pc'[v] = "bump" => v # w /\ cell'[v] <= Spent + 2
  BY <1>1 DEF IInv, Room
<1>6. count' = count /\ count <= Spent + 2
  BY DEF IInv, Room
<1>7. \A v \in Workers : pc'[v] \in {"bump", "fill", "answer"} \cup InTable => cell'[v] # 0
  BY <1>1 DEF IInv, Room
<1>8. \A v \in Workers : pc'[v] = "bump" => cell'[v] <= Spent' + 2
  BY <1>2, <1>3, <1>4, <1>5
<1>9. count' <= Spent' + 2
  <2>1. count \in Nat /\ count' \in Nat
    BY <1>4, <1>6
  <2>2. \A x, y \in Int : \A c \in Nat : c <= x + 2 /\ y >= x => c <= y + 2
    OBVIOUS
  <2> QED
    BY <1>2, <1>3, <1>6, <2>1, <2>2
<1> QED
  BY <1>7, <1>8, <1>9 DEF Room

LEMMA FittingPending ==
  ASSUME Types, NEW w \in Workers, pc[w] \in {"allocate", "bump", "fill"} \cup InTable
  PROVE  /\ \A l \in {"bump", "fill"} \cup InTable : Fitting(l, req[w], session[w])
         /\ req[w].kind = "csrf" => Fitting("answer", req[w], session[w])
         /\ Table(w) \in {"csrf", "users"} /\ Key(w) \in Sessions \cup Users
<1>1. Fitting(pc[w], req[w], session[w])
  BY DEF Types, InTable
<1>2. /\ session[w] \in Sessions /\ req[w].kind \in {"csrf", "signup"}
      /\ req[w].kind = "signup" => /\ req[w].name \in Users /\ req[w].role \in Roles
                                  /\ req[w].cookie \in Users \cup {None}
  BY <1>1 DEF Fitting, InTable
<1> QED
  BY <1>2 DEF Fitting, InTable, Behind, Table, Key

LEMMA AllocateKeeps ==
  ASSUME IInv, NEW w \in Workers, Allocate(w)
  PROVE  IInv'
<1>1. /\ pc[w] = "allocate" /\ pc' = [pc EXCEPT ![w] = "bump"] /\ cell' = [cell EXCEPT ![w] = count]
      /\ UNCHANGED <<requests, req, session, role, link, count, memory, tables, loggedIn,
                     answers, signedUp, raced>>
  BY DEF Allocate, At, Goto, arenaVars, historyVars
<1>2. InsertionStep(w, "bump")
  <2>1. Fitting("bump", req[w], session[w])
    BY <1>1, FittingPending DEF IInv
  <2> QED
    BY <1>1, <2>1 DEF InsertionStep, Goes, Labels
<1>3. count \in Cells /\ cell \in [Workers -> Cells \cup {0}] /\ count \in Nat \ {0}
  <2>1. count \in Cells /\ cell \in [Workers -> Cells \cup {0}]
    BY DEF IInv, Types, TypeOK
  <2> QED
    BY <2>1, Bounds
<1>4. Types'
  <2>1. /\ link' \in [Workers -> Seq(Entries)] /\ DOMAIN tables' = {"csrf", "users"}
        /\ signedUp' \in [Users -> Seq(Roles)] /\ raced' \in BOOLEAN
    BY <1>1 DEF IInv, Types
  <2>2. /\ memory' \in [Cells -> Words] /\ tables'["csrf"] \in Seq(Entries)
        /\ tables'["users"] \in Seq(Entries)
    BY <1>1 DEF IInv, Types, TypeOK, Words
  <2> QED
    BY <1>1, <1>2, <1>3, <2>1, <2>2, InsertionTyped DEF IInv
<1>5. \A v \in Workers : pc'[v] = (IF v = w THEN "bump" ELSE pc[v]) /\ cell'[v] = IF v = w THEN count ELSE cell[v]
  BY <1>1 DEF IInv, Types, TypeOK
<1>6. Room'
  <2>1. Pending' = Pending
    BY <1>1, <1>5 DEF Pending, Before
  <2>2. Spent' = Spent
    BY <1>1, <2>1 DEF Spent
  <2> QED
    BY <1>1, <1>3, <1>5, <2>2 DEF IInv, Room
<1>7. Filled'
  BY <1>1, <1>5 DEF IInv, Filled, InTable
<1> QED
  BY <1>4, <1>6, <1>7 DEF IInv

LEMMA BumpKeeps ==
  ASSUME IInv, NEW w \in Workers, Bump(w)
  PROVE  IInv'
<1>1. /\ pc[w] = "bump" /\ pc' = [pc EXCEPT ![w] = "fill"] /\ count' \in {cell[w] + 1, count + 1}
      /\ UNCHANGED <<requests, req, session, role, cell, link, memory, tables, loggedIn,
                     answers, signedUp, raced>>
  BY DEF Bump, At, Goto, arenaVars, historyVars
<1>2. InsertionStep(w, "fill")
  <2>1. Fitting("fill", req[w], session[w])
    BY <1>1, FittingPending DEF IInv
  <2> QED
    BY <1>1, <2>1 DEF InsertionStep, Goes, Labels, Before
<1>3. count \in Nat /\ \A v \in Workers : cell[v] \in Nat
  BY Addresses DEF IInv
<1>4. requests \in 0..MaxRequests /\ requests' = requests
  BY <1>1 DEF IInv, Types
<1>5. \A v \in Workers : pc'[v] = IF v = w THEN "fill" ELSE pc[v]
  BY <1>1 DEF IInv, Types, TypeOK
<1>6. Spent' = Spent + 1 /\ Spent \in Int /\ Spent' <= MaxRequests
  <2>1. IsFiniteSet(Pending) /\ Cardinality(Pending) \in Nat
    BY <1>4, SpentType
  <2>2. Pending' = Pending \ {w} /\ w \in Pending
    BY <1>1, <1>5 DEF Pending, Before
  <2>3. Cardinality(Pending') = Cardinality(Pending) - 1 /\ Cardinality(Pending') \in Nat
    BY <2>1, <2>2, FS_RemoveElement, FS_CardinalityType
  <2> QED
    BY <1>4, <2>1, <2>3, Bounds DEF Spent
<1>7. count <= Spent + 2 /\ cell[w] <= Spent + 2
  BY <1>1 DEF IInv, Room
<1>8. count' \in Nat \ {0} /\ count' <= Spent' + 2
  BY <1>1, <1>3, <1>6, <1>7
<1>9. count' \in Cells
  BY <1>6, <1>8, Bounds
<1>10. Types'
  <2>1. /\ link' \in [Workers -> Seq(Entries)] /\ DOMAIN tables' = {"csrf", "users"}
        /\ signedUp' \in [Users -> Seq(Roles)] /\ raced' \in BOOLEAN
    BY <1>1 DEF IInv, Types
  <2>2. /\ memory' \in [Cells -> Words] /\ tables'["csrf"] \in Seq(Entries)
        /\ tables'["users"] \in Seq(Entries) /\ cell' \in [Workers -> Cells \cup {0}]
    BY <1>1 DEF IInv, Types, TypeOK, Words
  <2> QED
    BY <1>2, <1>9, <2>1, <2>2, InsertionTyped DEF IInv
<1>11. Room'
  <2>1. \A v \in Workers : pc'[v] = "bump" => pc[v] = "bump" /\ cell'[v] <= Spent + 2
    BY <1>1, <1>5 DEF IInv, Room
  <2>2. \A v \in Workers : pc'[v] = "bump" => cell'[v] <= Spent' + 2
    BY <1>1, <1>3, <1>6, <2>1
  <2>3. \A v \in Workers : pc'[v] \in {"bump", "fill", "answer"} \cup InTable => cell'[v] # 0
    BY <1>1, <1>5 DEF IInv, Room
  <2> QED
    BY <1>8, <2>2, <2>3 DEF Room
<1>12. Filled'
  BY <1>1, <1>5 DEF IInv, Filled, InTable
<1> QED
  BY <1>10, <1>11, <1>12 DEF IInv

LEMMA FillKeeps ==
  ASSUME IInv, NEW w \in Workers, Fill(w)
  PROVE  IInv'
<1>1. PICK v \in IF req[w].kind = "csrf" THEN Tokens \ Used ELSE {req[w].role} :
         memory' = [memory EXCEPT ![cell[w]] = v]
  BY DEF Fill
<1>2. /\ pc[w] = "fill" /\ pc' = [pc EXCEPT ![w] = "scan"]
      /\ UNCHANGED <<requests, req, session, role, cell, link, count, tables, loggedIn,
                     answers, signedUp, raced>>
  BY DEF Fill, At, Goto, arenaVars, historyVars
<1>3. v \in Words \ {None}
  <2>1. Fitting("fill", req[w], session[w])
    BY <1>2, FittingPending DEF IInv
  <2> QED
    BY <1>1, <2>1, SessionsAssumption DEF Fitting, Words, InTable
<1>4. InsertionStep(w, "scan")
  <2>1. Fitting("scan", req[w], session[w])
    BY <1>2, FittingPending DEF IInv, InTable
  <2> QED
    BY <1>2, <2>1 DEF InsertionStep, Goes, Labels, Before
<1>5. memory \in [Cells -> Words] /\ memory' \in [Cells -> Words]
  BY <1>1, <1>3 DEF IInv, Types, TypeOK, Words
<1>6. Types'
  <2>1. /\ link' \in [Workers -> Seq(Entries)] /\ DOMAIN tables' = {"csrf", "users"}
        /\ signedUp' \in [Users -> Seq(Roles)] /\ raced' \in BOOLEAN
    BY <1>2 DEF IInv, Types
  <2>2. /\ count' \in Cells /\ tables'["csrf"] \in Seq(Entries)
        /\ tables'["users"] \in Seq(Entries) /\ cell' \in [Workers -> Cells \cup {0}]
    BY <1>2 DEF IInv, Types, TypeOK
  <2> QED
    BY <1>4, <1>5, <2>1, <2>2, InsertionTyped DEF IInv
<1>7. cell[w] # 0
  BY <1>2 DEF IInv, Room
<1>8. Room'
  BY <1>2, <1>4, <1>6, <1>7, RoomStays
<1>9. cell[w] \in Cells
  BY <1>7 DEF IInv, Types, TypeOK
<1>10. memory'[cell[w]] # None /\ \A c : memory[c] # None /\ c \in Cells => memory'[c] # None
  BY <1>1, <1>3, <1>5, <1>9
<1>11. Filled'
  <2>1. \A u \in Workers : pc'[u] \in InTable => memory'[cell[u]] # None
    <3> SUFFICES ASSUME NEW u \in Workers, pc'[u] \in InTable, u # w PROVE memory'[cell[u]] # None
      BY <1>10
    <3>1. pc[u] \in InTable
      BY <1>2 DEF IInv, Types, TypeOK
    <3>2. memory[cell[u]] # None /\ cell[u] # 0
      BY <3>1 DEF IInv, Filled, Room
    <3>3. cell[u] \in Cells
      BY <3>2 DEF IInv, Types, TypeOK
    <3> QED
      BY <1>10, <3>2, <3>3
  <2>2. ASSUME NEW q \in Seq(Entries), NEW i \in DOMAIN q PROVE q[i].cell \in Cells
    <3>1. q[i] \in Entries
      OBVIOUS
    <3> QED
      BY <3>1 DEF Entries
  <2>3. \A u \in Workers : \A i \in DOMAIN link[u] : memory'[link[u][i].cell] # None
    <3> SUFFICES ASSUME NEW u \in Workers, NEW i \in DOMAIN link[u]
                 PROVE  memory'[link[u][i].cell] # None
      OBVIOUS
    <3>1. link[u] \in Seq(Entries)
      BY DEF IInv, Types
    <3>2. link[u][i].cell \in Cells
      BY <2>2, <3>1
    <3> QED
      BY <1>10, <3>2 DEF IInv, Filled
  <2>4. \A t \in {"csrf", "users"} : \A i \in DOMAIN tables[t] : memory'[tables[t][i].cell] # None
    <3> SUFFICES ASSUME NEW t \in {"csrf", "users"}, NEW i \in DOMAIN tables[t]
                 PROVE  memory'[tables[t][i].cell] # None
      OBVIOUS
    <3>1. tables[t] \in Seq(Entries)
      BY DEF IInv, Types, TypeOK
    <3>2. tables[t][i].cell \in Cells
      BY <2>2, <3>1
    <3> QED
      BY <1>10, <3>2 DEF IInv, Filled
  <2> QED
    BY <1>2, <2>1, <2>3, <2>4 DEF Filled
<1> QED
  BY <1>6, <1>8, <1>11 DEF IInv
LEMMA Ends ==
  ASSUME Types, NEW w \in Workers, pc[w] \in InTable, EndInsertion(w),
         UNCHANGED <<requests, req, session, role, loggedIn, answers>>
  PROVE  /\ signedUp' \in [Users -> Seq(Roles)]
         /\ \E l \in {"answer", "idle"} : pc' = [pc EXCEPT ![w] = l] /\ InsertionStep(w, l)
<1>1. /\ req[w].kind = "csrf" => Fitting("answer", req[w], session[w])
      /\ Fitting("scan", req[w], session[w])
  BY FittingPending DEF InTable
<1>2. req[w].kind # "csrf" => req[w].name \in Users /\ req[w].role \in Roles
  BY <1>1 DEF Fitting, InTable
<1>3. signedUp \in [Users -> Seq(Roles)]
  BY DEF Types
<1>4. signedUp' \in [Users -> Seq(Roles)]
  <2>1. CASE req[w].kind = "csrf"
    BY <1>3, <2>1 DEF EndInsertion
  <2>2. CASE req[w].kind # "csrf"
    <3>1. Append(signedUp[req[w].name], req[w].role) \in Seq(Roles)
      BY <1>2, <1>3, <2>2
    <3>2. signedUp' = [signedUp EXCEPT ![req[w].name] = Append(signedUp[req[w].name], req[w].role)]
      BY <2>2 DEF EndInsertion
    <3> QED
      BY <1>3, <3>1, <3>2
  <2> QED
    BY <2>1, <2>2
<1>5. CASE req[w].kind = "csrf"
  <2>1. pc' = [pc EXCEPT ![w] = "answer"] /\ InsertionStep(w, "answer")
    BY <1>1, <1>5 DEF EndInsertion, Goto, InsertionStep, Goes, Labels, Before, InTable
  <2> QED
    BY <1>4, <2>1
<1>6. CASE req[w].kind # "csrf"
  <2>1. pc' = [pc EXCEPT ![w] = "idle"] /\ InsertionStep(w, "idle")
    BY <1>1, <1>6 DEF EndInsertion, Goto, InsertionStep, Goes, Labels, Before
  <2> QED
    BY <1>4, <2>1
<1> QED
  BY <1>5, <1>6

LEMMA EntryTyped ==
  ASSUME IInv, NEW w \in Workers, pc[w] \in InTable
  PROVE  Entry(w) \in Entries /\ cell[w] # 0 /\ cell[w] \in Cells /\ memory[cell[w]] # None
<1>1. cell[w] # 0 /\ memory[cell[w]] # None
  BY DEF IInv, Room, Filled
<1>2. cell[w] \in Cells
  BY <1>1 DEF IInv, Types, TypeOK
<1>3. Key(w) \in Sessions \cup Users
  BY FittingPending DEF IInv
<1> QED
  BY <1>1, <1>2, <1>3 DEF Entry, Entries

\* A step that stores in one table, in the worker's link or nowhere.
LEMMA StoreKeeps ==
  ASSUME IInv, NEW w \in Workers, NEW l, InsertionStep(w, l), l \notin Before,
         pc[w] \in InTable, UNCHANGED <<cell, count, memory, raced>>,
         signedUp' \in [Users -> Seq(Roles)],
         NEW q \in Seq(Entries), \A i \in DOMAIN q : memory[q[i].cell] # None,
         tables' = tables \/ tables' = [tables EXCEPT ![Table(w)] = q],
         link' = link \/ link' = [link EXCEPT ![w] = q] \/ link' = [link EXCEPT ![w] = <<>>]
  PROVE  IInv'
<1>1. Table(w) \in {"csrf", "users"}
  BY FittingPending DEF IInv
<1>2. tables["csrf"] \in Seq(Entries) /\ tables["users"] \in Seq(Entries) /\ DOMAIN tables = {"csrf", "users"}
  BY DEF IInv, Types, TypeOK
<1>3. /\ DOMAIN tables' = {"csrf", "users"}
      /\ \A t \in {"csrf", "users"} : tables'[t] = tables[t] \/ tables'[t] = q
  BY <1>1, <1>2
<1>4. link \in [Workers -> Seq(Entries)]
  BY DEF IInv, Types
<1>5. /\ link' \in [Workers -> Seq(Entries)]
      /\ \A u \in Workers : link'[u] = link[u] \/ link'[u] = q \/ link'[u] = <<>>
  <2>1. <<>> \in Seq(Entries)
    OBVIOUS
  <2>2. CASE link' = link
    BY <1>4, <2>2
  <2>3. CASE link' = [link EXCEPT ![w] = q]
    BY <1>4, <2>3
  <2>4. CASE link' = [link EXCEPT ![w] = <<>>]
    BY <1>4, <2>1, <2>4
  <2> QED
    BY <2>2, <2>3, <2>4
<1>6. Types'
  <2>1. /\ count' \in Cells /\ cell' \in [Workers -> Cells \cup {0}] /\ memory' \in [Cells -> Words]
        /\ raced' \in BOOLEAN
    BY DEF IInv, Types, TypeOK, Words
  <2>2. tables'["csrf"] \in Seq(Entries) /\ tables'["users"] \in Seq(Entries)
    BY <1>2, <1>3
  <2> QED
    BY <1>3, <1>5, <2>1, <2>2, InsertionTyped DEF IInv
<1>7. Room'
  <2>1. cell[w] # 0
    BY EntryTyped
  <2>2. l # "bump" /\ pc[w] \notin Before
    BY DEF Before, InTable
  <2> QED
    BY <1>6, <2>1, <2>2, RoomStays
<1>8. Filled'
  <2>1. \A u \in Workers : pc'[u] \in InTable => memory[cell[u]] # None
    <3>1. \A u \in Workers : pc'[u] \in InTable => pc[u] \in InTable
      BY DEF IInv, Types, TypeOK, InsertionStep, Goes
    <3> QED
      BY <3>1 DEF IInv, Filled
  <2>2. \A u \in Workers : \A i \in DOMAIN link'[u] : memory[link'[u][i].cell] # None
    BY <1>5 DEF IInv, Filled
  <2>3. \A t \in {"csrf", "users"} : \A i \in DOMAIN tables'[t] : memory[tables'[t][i].cell] # None
    BY <1>3 DEF IInv, Filled
  <2> QED
    BY <2>1, <2>2, <2>3 DEF Filled
<1> QED
  BY <1>6, <1>7, <1>8 DEF IInv

LEMMA ScanKeeps ==
  ASSUME IInv, NEW w \in Workers, Scan(w)
  PROVE  IInv'
<1> DEFINE t == Table(w)
           n == SelectInSeq(tables[Table(w)], LAMBDA e : e.key = Key(w))
<1>1. /\ pc[w] = "scan" /\ pc[w] \in InTable
      /\ UNCHANGED <<requests, req, session, role, cell, link, count, memory, loggedIn, answers, raced>>
  BY DEF Scan, At, arenaVars, InTable
<1>2. t \in {"csrf", "users"}
  BY <1>1, FittingPending DEF IInv
<1>3. tables[t] \in Seq(Entries)
  BY <1>2 DEF IInv, Types, TypeOK
<1>4. CASE \E i \in DOMAIN tables[t] : tables' = [tables EXCEPT ![t][i].cell = cell[w]] /\ EndInsertion(w)
  <2>1. PICK i \in DOMAIN tables[t] : tables' = [tables EXCEPT ![t][i].cell = cell[w]]
    BY <1>4
  <2> DEFINE e == [tables[t][i] EXCEPT !.cell = cell[w]]
             q == [tables[t] EXCEPT ![i] = e]
  <2>2. cell[w] \in Cells /\ memory[cell[w]] # None
    BY <1>1, EntryTyped
  <2>3. e \in Entries /\ e.cell = cell[w]
    <3>1. tables[t][i] \in Entries
      BY <1>3
    <3> QED
      BY <2>2, <3>1 DEF Entries
  <2>4. q \in Seq(Entries) /\ \A j \in DOMAIN q : q[j] = IF j = i THEN e ELSE tables[t][j]
    <3> HIDE DEF e
    <3> QED
      BY <1>3, <2>3
  <2>5. \A j \in DOMAIN q : memory[q[j].cell] # None
    <3>1. \A j \in DOMAIN tables[t] : memory[tables[t][j].cell] # None
      BY <1>2 DEF IInv, Filled
    <3>2. DOMAIN q = DOMAIN tables[t]
      OBVIOUS
    <3> HIDE DEF e, q
    <3> QED
      BY <2>2, <2>3, <2>4, <3>1, <3>2
  <2>6. tables' = [tables EXCEPT ![t] = q]
    BY <2>1
  <2>7. EndInsertion(w)
    BY <1>4
  <2>8. PICK l \in {"answer", "idle"} : InsertionStep(w, l)
    BY <1>1, <2>7, Ends DEF IInv
  <2>9. signedUp' \in [Users -> Seq(Roles)]
    BY <1>1, <2>7, Ends DEF IInv
  <2>10. l \notin Before
    BY DEF Before
  <2> HIDE DEF q
  <2> QED
    BY <1>1, <2>4, <2>5, <2>6, <2>8, <2>9, <2>10, StoreKeeps
<1>5. CASE pc' = [pc EXCEPT ![w] = "link"] /\ UNCHANGED <<tables, signedUp>>
  <2>1. InsertionStep(w, "link")
    <3>1. Fitting("link", req[w], session[w])
      BY <1>1, FittingPending DEF IInv, InTable
    <3> QED
      BY <1>1, <1>5, <3>1 DEF InsertionStep, Goes, Labels, Before
  <2>2. signedUp' \in [Users -> Seq(Roles)]
    BY <1>5 DEF IInv, Types
  <2>3. "link" \notin Before /\ <<>> \in Seq(Entries) /\ \A i \in DOMAIN <<>> : memory[<<>>[i].cell] # None
    BY DEF Before
  <2> QED
    BY <1>1, <1>5, <2>1, <2>2, <2>3, StoreKeeps
<1> QED
  BY <1>4, <1>5 DEF Scan, Goto

LEMMA LinkKeeps ==
  ASSUME IInv, NEW w \in Workers, Link(w)
  PROVE  IInv'
<1>1. /\ pc[w] = "link" /\ pc[w] \in InTable /\ pc' = [pc EXCEPT ![w] = "publish"]
      /\ link' = [link EXCEPT ![w] = tables[Table(w)]]
      /\ UNCHANGED <<requests, req, session, role, cell, count, memory, tables, loggedIn, answers,
                     signedUp, raced>>
  BY DEF Link, At, Goto, arenaVars, historyVars, InTable
<1>2. Table(w) \in {"csrf", "users"}
  BY <1>1, FittingPending DEF IInv
<1>3. tables[Table(w)] \in Seq(Entries) /\ \A i \in DOMAIN tables[Table(w)] : memory[tables[Table(w)][i].cell] # None
  BY <1>2 DEF IInv, Types, TypeOK, Filled
<1>4. InsertionStep(w, "publish")
  <2>1. Fitting("publish", req[w], session[w])
    BY <1>1, FittingPending DEF IInv, InTable
  <2> QED
    BY <1>1, <2>1 DEF InsertionStep, Goes, Labels, Before
<1>5. signedUp' \in [Users -> Seq(Roles)] /\ "publish" \notin Before
  BY <1>1 DEF IInv, Types, Before
<1> QED
  BY <1>1, <1>3, <1>4, <1>5, StoreKeeps

LEMMA PublishKeeps ==
  ASSUME IInv, NEW w \in Workers, Publish(w)
  PROVE  IInv'
<1> DEFINE q == <<Entry(w)>> \o link[w]
<1>1. /\ pc[w] = "publish" /\ pc[w] \in InTable /\ EndInsertion(w)
      /\ tables' = [tables EXCEPT ![Table(w)] = q] /\ link' = [link EXCEPT ![w] = <<>>]
      /\ UNCHANGED <<requests, req, session, role, cell, count, memory, loggedIn, answers, raced>>
  BY DEF Publish, At, arenaVars, InTable
<1>2. Entry(w) \in Entries /\ Entry(w).cell = cell[w] /\ memory[cell[w]] # None
  BY <1>1, EntryTyped DEF Entry
<1>3. link[w] \in Seq(Entries) /\ \A i \in DOMAIN link[w] : memory[link[w][i].cell] # None
  BY DEF IInv, Types, Filled
<1>4. q \in Seq(Entries) /\ \A i \in DOMAIN q : q[i] = Entry(w) \/ \E j \in DOMAIN link[w] : q[i] = link[w][j]
  BY <1>2, <1>3
<1> HIDE DEF q
<1>5. \A i \in DOMAIN q : memory[q[i].cell] # None
  BY <1>2, <1>3, <1>4
<1>6. PICK l \in {"answer", "idle"} : InsertionStep(w, l)
  BY <1>1, Ends DEF IInv
<1>7. signedUp' \in [Users -> Seq(Roles)] /\ l \notin Before
  BY <1>1, Ends DEF IInv, Before
<1> QED
  BY <1>1, <1>4, <1>5, <1>6, <1>7, StoreKeeps

LEMMA GetTokenKeeps ==
  ASSUME IInv, NEW w \in Workers, GetToken(w)
  PROVE  IInv'
<1> DEFINE c == Lookup("csrf", session[w])
<1>1. /\ pc[w] = "get"
      /\ UNCHANGED <<requests, req, session, role, link, count, memory, tables, loggedIn, answers,
                     signedUp>>
  BY DEF GetToken, At, arenaVars, historyVars
<1>2. Fitting("get", req[w], session[w])
  BY <1>1 DEF IInv, Types
<1>3. CASE c # 0 /\ cell' = [cell EXCEPT ![w] = c] /\ pc' = [pc EXCEPT ![w] = "answer"] /\ UNCHANGED raced
  <2>1. c \in Cells
    BY <1>3, LookupFinds DEF IInv
  <2>2. InsertionStep(w, "answer")
    <3>1. Fitting("answer", req[w], session[w])
      BY <1>2 DEF Fitting, InTable, Behind
    <3> QED
      BY <1>1, <1>3, <3>1 DEF InsertionStep, Goes, Labels, Before
  <2>3. cell' \in [Workers -> Cells \cup {0}] /\ \A v \in Workers : cell'[v] = IF v = w THEN c ELSE cell[v]
    BY <1>3, <2>1 DEF IInv, Types, TypeOK
  <2>4. Types'
    <3>1. /\ link' \in [Workers -> Seq(Entries)] /\ DOMAIN tables' = {"csrf", "users"}
          /\ signedUp' \in [Users -> Seq(Roles)] /\ raced' \in BOOLEAN
      BY <1>1, <1>3 DEF IInv, Types
    <3>2. /\ count' \in Cells /\ tables'["csrf"] \in Seq(Entries) /\ tables'["users"] \in Seq(Entries)
          /\ memory' \in [Cells -> Words]
      BY <1>1 DEF IInv, Types, TypeOK, Words
    <3> QED
      BY <2>2, <2>3, <3>1, <3>2, InsertionTyped DEF IInv
  <2>5. Room'
    <3>1. \A v \in Workers \ {w} : cell'[v] = cell[v]
      BY <2>3
    <3>2. cell'[w] # 0
      BY <1>3, <2>3
    <3> HIDE DEF c
    <3> QED
      BY <1>1, <2>2, <2>4, <3>1, <3>2, RoomStays
  <2>6. Filled'
    <3>1. \A v \in Workers : pc'[v] \in InTable => pc[v] \in InTable /\ v # w
      BY <1>1, <1>3 DEF IInv, Types, TypeOK, InTable
    <3> HIDE DEF c
    <3> QED
      BY <1>1, <2>3, <3>1 DEF IInv, Filled
  <2> QED
    BY <2>4, <2>5, <2>6 DEF IInv
<1>4. CASE StartInsertion(w) /\ UNCHANGED cell
  <2>1. pc' = [pc EXCEPT ![w] = "allocate"] /\ raced' \in BOOLEAN
    BY <1>4 DEF StartInsertion, Goto, IInv, Types
  <2>2. Goes(w, "allocate")
    <3>1. Fitting("allocate", req[w], session[w])
      BY <1>2 DEF Fitting, InTable, Behind
    <3> QED
      BY <1>1, <2>1, <3>1 DEF Goes, Labels
  <2>3. answers' \subseteq Sessions \X Words /\ loggedIn' \subseteq Users
    BY <1>1 DEF IInv, Types
  <2> QED
    BY <1>1, <1>4, <2>1, <2>2, <2>3, MoveKeeps DEF Before, InTable
<1> QED
  BY <1>3, <1>4 DEF GetToken, Goto

THEOREM Invariance == Spec => []IInv
<1>1. IInv /\ [Next]_vars => IInv'
  <2> SUFFICES ASSUME IInv, [Next]_vars PROVE IInv'
    OBVIOUS
  <2>1. CASE UNCHANGED vars
    BY <2>1 DEF vars, arenaVars, historyVars, IInv, Types, TypeOK, Room, Filled, Spent, Pending
  <2>2. ASSUME NEW w \in Workers, Step(w) PROVE IInv'
    BY <2>2, GetTokenKeeps, AnswerKeeps, FilterKeeps, AuthKeeps, LoginKeeps, HandleKeeps,
       AllocateKeeps, BumpKeeps, FillKeeps, ScanKeeps, LinkKeeps, PublishKeeps DEF Step
  <2>3. ASSUME NEW w \in Workers, NEW r \in Requests, Begin(w, r) PROVE IInv'
    BY <2>3, BeginKeeps
  <2> QED
    BY <2>1, <2>2, <2>3 DEF Next
<1> QED
  BY <1>1, Initially, PTL DEF Spec

\* Through every race of any number of workers, an entry that can be found points to
\* memory that was written: no lookup returns blank memory (hash tables of auth.c, csrf.c).
THEOREM NothingBlank == Spec => []PublishedFilled
<1>1. IInv => PublishedFilled
  <2> SUFFICES ASSUME IInv, NEW t \in {"csrf", "users"}, NEW e \in Range(tables[t])
               PROVE  memory[e.cell] # None
    BY DEF PublishedFilled, IInv, Types
  <2>1. PICK i \in DOMAIN tables[t] : e = tables[t][i]
    BY DEF Range
  <2> QED
    BY <2>1 DEF IInv, Filled
<1> QED
  BY <1>1, Invariance, PTL
----------------------------------------------------------------------------
(***************************************************************************)
(* Without a race: at most one worker inserts, so what it read of the      *)
(* arena and of the table stays true until it stores.  Busy is what such a *)
(* worker relies on, Waiting what every other does, Shared what holds of   *)
(* the tables between insertions.                                          *)
(***************************************************************************)
Single == \A u, v \in Workers : Inserting(u) /\ Inserting(v) => u = v

\* A role that is being looked at is not where a record is being written.
Apart == \A u, v \in Workers : pc[u] = "fill" /\ pc[v] = "role" => role[v] < cell[u]

Honoured(a) ==
    \E i \in DOMAIN tables["csrf"] : /\ tables["csrf"][i].key = a[1]
                                     /\ memory[tables["csrf"][i].cell] = a[2]
Shared ==
    /\ \A t \in {"csrf", "users"} : \A i \in DOMAIN tables[t] : tables[t][i].cell < count
    /\ \A t \in {"csrf", "users"} : \A i, j \in DOMAIN tables[t] :
          tables[t][i].key = tables[t][j].key => i = j
    /\ \A i, j \in DOMAIN tables["csrf"] :
          memory[tables["csrf"][i].cell] = memory[tables["csrf"][j].cell] => i = j
    /\ \A a \in answers : Honoured(a)
    /\ \A i \in DOMAIN tables["users"] :
          /\ tables["users"][i].key \in Users
          /\ signedUp[tables["users"][i].key] # <<>>
          /\ memory[tables["users"][i].cell] = Last(signedUp[tables["users"][i].key])
    /\ \A u \in Users : signedUp[u] # <<>> => HasKey("users", u)

Busy(w) == Inserting(w) =>
    /\ pc[w] = "bump" => cell[w] = count
    /\ pc[w] \in {"fill"} \cup InTable => cell[w] < count
    /\ pc[w] = "fill" =>
          \A t \in {"csrf", "users"} : \A i \in DOMAIN tables[t] : tables[t][i].cell < cell[w]
    /\ req[w].kind = "csrf" => ~HasKey("csrf", session[w])
    /\ pc[w] \in {"link", "publish"} => ~HasKey(Table(w), Key(w))
    /\ pc[w] = "publish" => link[w] = tables[Table(w)]
    /\ pc[w] \in InTable /\ req[w].kind = "csrf" =>
          \A i \in DOMAIN tables["csrf"] : memory[tables["csrf"][i].cell] # memory[cell[w]]
    /\ pc[w] \in InTable /\ req[w].kind = "signup" => memory[cell[w]] = req[w].role

Waiting(w) ==
    /\ pc[w] = "answer" =>
          \E i \in DOMAIN tables["csrf"] : /\ tables["csrf"][i].key = session[w]
                                           /\ tables["csrf"][i].cell = cell[w]
    /\ pc[w] = "filter" => req[w].token \in MaybeTokens
    /\ pc[w] \in {"auth", "role", "login", "handle"} => <<session[w], req[w].token>> \in answers
    /\ pc[w] \in {"role", "handle"} => req[w].cookie \in Users /\ signedUp[req[w].cookie] # <<>>
    /\ pc[w] = "role" => role[w] < count /\ memory[role[w]] \in Range(signedUp[req[w].cookie])
    /\ pc[w] = "handle" /\ req[w].kind = "signup" => "admin" \in Range(signedUp[req[w].cookie])

Alone == Single /\ Apart /\ Shared /\ \A w \in Workers : Busy(w) /\ Waiting(w)

\* The step of a worker leaves the others where they are.
Others(w, l) ==
    /\ \A u \in Workers : pc'[u] = IF u = w THEN l ELSE pc[u]
    /\ \A u \in Workers \ {w} :
          /\ req'[u] = req[u] /\ session'[u] = session[u] /\ role'[u] = role[u]
          /\ cell'[u] = cell[u] /\ link'[u] = link[u]

LEMMA LookupIs ==
  ASSUME Types, Shared, NEW t \in {"csrf", "users"}, NEW k
  PROVE  /\ Lookup(t, k) # 0 <=> HasKey(t, k)
         /\ \A i \in DOMAIN tables[t] : tables[t][i].key = k => Lookup(t, k) = tables[t][i].cell
<1>1. DOMAIN tables[t] \subseteq Nat
  BY DEF Types, TypeOK
<1>2. ASSUME NEW i \in DOMAIN tables[t], tables[t][i].key = k PROVE FirstWith(t, k, i)
  BY <1>1, <1>2 DEF FirstWith, Shared
<1> QED
  BY <1>2, LookupFinds

\* A worker that does not insert is not disturbed by one that stores nothing.
LEMMA QuietAlone ==
  ASSUME Types, Alone, NEW w \in Workers, NEW l, Others(w, l),
         UNCHANGED <<count, memory, tables, signedUp>>, answers \subseteq answers',
         \A a \in answers' : Honoured(a),
         Inserting(w) \/ ~Inserting(w)' \/ \A v \in Workers \ {w} : ~Inserting(v),
         l # "fill",
         l = "role" => \E i \in DOMAIN tables["users"] : role'[w] = tables["users"][i].cell,
         Busy(w)', Waiting(w)'
  PROVE  Alone'
<1>1. Single'
  BY DEF Single, Alone, Others, Inserting
<1>2. Apart'
  <2> SUFFICES ASSUME NEW u \in Workers, NEW v \in Workers, pc'[u] = "fill", pc'[v] = "role"
               PROVE  role'[v] < cell'[u]
    BY DEF Apart
  <2>1. u # w /\ pc[u] = "fill" /\ cell'[u] = cell[u] /\ Inserting(u)
    BY DEF Others, Inserting
  <2>2. CASE v = w
    BY <2>1, <2>2 DEF Alone, Busy, Others
  <2>3. CASE v # w
    BY <2>1, <2>3 DEF Alone, Apart, Others
  <2> QED
    BY <2>2, <2>3
<1>3. Shared'
  BY DEF Alone, Shared, Honoured, HasKey
<1>4. ASSUME NEW u \in Workers, u # w PROVE Busy(u)' /\ Waiting(u)'
  <2>1. Busy(u) /\ Waiting(u)
    BY DEF Alone
  <2>2. /\ pc'[u] = pc[u] /\ req'[u] = req[u] /\ session'[u] = session[u] /\ role'[u] = role[u]
        /\ cell'[u] = cell[u] /\ link'[u] = link[u]
    BY <1>4 DEF Others
  <2>3. Busy(u)'
    BY <2>1, <2>2 DEF Busy, HasKey, Inserting, Table, Key
  <2>4. MaybeTokens \subseteq MaybeTokens'
    BY DEF MaybeTokens
  <2>5. Waiting(u)'
    BY <2>1, <2>2, <2>4 DEF Waiting
  <2> QED
    BY <2>3, <2>5
<1> QED
  BY <1>1, <1>2, <1>3, <1>4 DEF Alone

LEMMA AloneInitially == Init => Alone
<1> SUFFICES ASSUME Init PROVE Alone
  OBVIOUS
<1>1. \A w \in Workers : pc[w] = "idle"
  BY DEF Init
<1>2. tables["csrf"] = <<>> /\ tables["users"] = <<[key |-> Admin, cell |-> 1]>>
  BY DEF Init
<1>3. /\ 1 \in Cells /\ memory[1] = "admin" /\ count = 2 /\ answers = {}
      /\ signedUp[Admin] = <<"admin">> /\ \A u \in Users : signedUp[u] # <<>> => u = Admin
  BY Bounds, SessionsAssumption DEF Init
<1>4. Last(<<"admin">>) = "admin"
  BY DEF Last
<1>5. Shared
  BY <1>2, <1>3, <1>4, SessionsAssumption DEF Shared, HasKey
<1>6. \A w \in Workers : Busy(w) /\ Waiting(w)
  BY <1>1 DEF Busy, Waiting, Inserting
<1> QED
  BY <1>1, <1>5, <1>6 DEF Alone, Single, Apart, Inserting
LEMMA LeavesOthers ==
  ASSUME Types, NEW w \in Workers, NEW l, pc' = [pc EXCEPT ![w] = l],
         req' = req \/ (\E x : req' = [req EXCEPT ![w] = x]),
         session' = session \/ (\E x : session' = [session EXCEPT ![w] = x]),
         role' = role \/ (\E x : role' = [role EXCEPT ![w] = x]),
         cell' = cell \/ (\E x : cell' = [cell EXCEPT ![w] = x]),
         link' = link \/ (\E x : link' = [link EXCEPT ![w] = x])
  PROVE  Others(w, l)
  BY DEF Others, Types, TypeOK

LEMMA BeginAlone ==
  ASSUME Types, Alone, NEW w \in Workers, NEW r \in Requests, Begin(w, r)
  PROVE  Alone'
<1> DEFINE l == IF r.kind = "csrf" THEN "get" ELSE "filter"
<1>1. /\ pc' = [pc EXCEPT ![w] = l] /\ req' = [req EXCEPT ![w] = r]
      /\ \E s : session' = [session EXCEPT ![w] = s]
      /\ role' = [role EXCEPT ![w] = 0]
      /\ UNCHANGED <<cell, link, count, memory, tables, answers, signedUp>>
  BY DEF Begin, Goto, arenaVars, historyVars
<1>2. Others(w, l)
  BY <1>1, LeavesOthers
<1>3. pc'[w] = l /\ req'[w] = r
  BY <1>1 DEF Types, TypeOK
<1>4. r.kind # "csrf" => r.token \in MaybeTokens
  BY DEF Requests
<1>5. Busy(w)' /\ ~Inserting(w)'
  BY <1>3 DEF Busy, Inserting
<1>6. Waiting(w)'
  BY <1>1, <1>3, <1>4 DEF Waiting, MaybeTokens
<1>7. \A a \in answers' : Honoured(a)
  BY <1>1 DEF Alone, Shared
<1>8. l # "fill" /\ l # "role"
  OBVIOUS
<1> HIDE DEF l
<1> QED
  BY <1>1, <1>2, <1>5, <1>6, <1>7, <1>8, QuietAlone

LEMMA AnswerAlone ==
  ASSUME Types, Alone, NEW w \in Workers, Answer(w)
  PROVE  Alone'
<1>1. /\ pc[w] = "answer" /\ pc' = [pc EXCEPT ![w] = "idle"]
      /\ answers' = answers \cup {<<session[w], memory[cell[w]]>>}
      /\ UNCHANGED <<req, session, role, cell, link, count, memory, tables, signedUp>>
  BY DEF Answer, At, Goto, arenaVars
<1>2. Others(w, "idle") /\ pc'[w] = "idle"
  BY <1>1, LeavesOthers DEF Types, TypeOK
<1>3. Honoured(<<session[w], memory[cell[w]]>>)
  BY <1>1 DEF Alone, Waiting, Honoured
<1>4. \A a \in answers' : Honoured(a)
  BY <1>1, <1>3 DEF Alone, Shared
<1>5. Busy(w)' /\ Waiting(w)' /\ ~Inserting(w)'
  BY <1>2 DEF Busy, Waiting, Inserting
<1> QED
  BY <1>1, <1>2, <1>4, <1>5, QuietAlone

LEMMA CsrfFilterAlone ==
  ASSUME Types, Alone, NEW w \in Workers, CsrfFilter(w)
  PROVE  Alone'
<1>1. /\ pc[w] = "filter"
      /\ UNCHANGED <<req, session, role, cell, link, count, memory, tables, signedUp, answers>>
  BY DEF CsrfFilter, Refuse, At, arenaVars
<1>2. PICK l \in {"idle", "login", "auth"} :
         pc' = [pc EXCEPT ![w] = l] /\ (l # "idle" => TokenMatches(w))
  BY DEF CsrfFilter, Refuse, Goto, Passed
<1>3. Others(w, l) /\ pc'[w] = l
  BY <1>1, <1>2, LeavesOthers DEF Types, TypeOK
<1>4. ASSUME TokenMatches(w) PROVE <<session[w], req[w].token>> \in answers
  <2> DEFINE c == Lookup("csrf", session[w])
  <2>1. req[w].token # None /\ c # 0 /\ memory[c] = req[w].token
    BY <1>4 DEF TokenMatches
  <2>2. PICK i \in DOMAIN tables["csrf"] : tables["csrf"][i].key = session[w] /\ tables["csrf"][i].cell = c
    BY <2>1, LookupIs DEF Alone, HasKey
  <2>3. PICK a \in answers : a[2] = req[w].token
    BY <1>1, <2>1 DEF Alone, Waiting, MaybeTokens
  <2>4. PICK j \in DOMAIN tables["csrf"] :
           tables["csrf"][j].key = a[1] /\ memory[tables["csrf"][j].cell] = a[2]
    BY DEF Alone, Shared, Honoured
  <2>5. i = j
    BY <2>1, <2>2, <2>3, <2>4 DEF Alone, Shared
  <2>6. a \in Sessions \X Words /\ a[1] = session[w]
    BY <2>2, <2>4, <2>5 DEF Types
  <2> QED
    BY <2>3, <2>6
<1>5. Waiting(w)'
  BY <1>1, <1>2, <1>3, <1>4 DEF Waiting
<1>6. Busy(w)' /\ ~Inserting(w)'
  BY <1>3 DEF Busy, Inserting
<1>7. \A a \in answers' : Honoured(a)
  BY <1>1 DEF Alone, Shared
<1> QED
  BY <1>1, <1>2, <1>3, <1>5, <1>6, <1>7, QuietAlone

LEMMA AuthAlone ==
  ASSUME Types, Alone, NEW w \in Workers, AuthFilter(w)
  PROVE  Alone'
<1> DEFINE c == Lookup("users", req[w].cookie)
<1>1. /\ pc[w] = "auth"
      /\ UNCHANGED <<req, session, cell, link, count, memory, tables, signedUp, answers>>
  BY DEF AuthFilter, Refuse, At, arenaVars
<1>2. PICK l \in {"idle", "role", "handle"} :
         /\ pc' = [pc EXCEPT ![w] = l]
         /\ l = "idle" => role' = role
         /\ l # "idle" => req[w].cookie # None /\ c # 0 /\ role' = [role EXCEPT ![w] = c]
         /\ l = "handle" => req[w].kind # "signup"
  BY DEF AuthFilter, Refuse, Goto
<1>3. Others(w, l) /\ pc'[w] = l /\ (l # "idle" => role'[w] = c)
  <2>1. role' = role \/ \E x : role' = [role EXCEPT ![w] = x]
    BY <1>2
  <2>2. pc'[w] = l /\ (l # "idle" => role'[w] = c)
    BY <1>2 DEF Types, TypeOK
  <2>3. pc' = [pc EXCEPT ![w] = l]
    BY <1>2
  <2> QED
    BY <1>1, <2>1, <2>2, <2>3, LeavesOthers
<1>4. ASSUME l # "idle"
      PROVE  \E i \in DOMAIN tables["users"] :
                tables["users"][i].key = req[w].cookie /\ tables["users"][i].cell = c
  BY <1>2, <1>4, LookupIs DEF Alone, HasKey
<1>5. ASSUME l # "idle"
      PROVE  /\ req[w].cookie \in Users /\ signedUp[req[w].cookie] # <<>>
             /\ c < count /\ memory[c] \in Range(signedUp[req[w].cookie])
  <2>1. PICK i \in DOMAIN tables["users"] :
            tables["users"][i].key = req[w].cookie /\ tables["users"][i].cell = c
    BY <1>4, <1>5
  <2>2. /\ req[w].cookie \in Users /\ signedUp[req[w].cookie] # <<>>
        /\ c < count /\ memory[c] = Last(signedUp[req[w].cookie])
    BY <2>1 DEF Alone, Shared
  <2>3. signedUp[req[w].cookie] \in Seq(Roles)
    BY <2>2 DEF Types
  <2>4. Last(signedUp[req[w].cookie]) \in Range(signedUp[req[w].cookie])
    BY <2>2, <2>3 DEF Last, Range
  <2> QED
    BY <2>2, <2>4
<1>6. Waiting(w)'
  BY <1>1, <1>2, <1>3, <1>5 DEF Waiting, Alone
<1>7. Busy(w)' /\ ~Inserting(w)'
  BY <1>3 DEF Busy, Inserting
<1>8. \A a \in answers' : Honoured(a)
  BY <1>1 DEF Alone, Shared
<1>9. l = "role" => \E i \in DOMAIN tables["users"] : role'[w] = tables["users"][i].cell
  BY <1>3, <1>4
<1> HIDE DEF c
<1> QED
  BY <1>1, <1>3, <1>6, <1>7, <1>8, <1>9, QuietAlone

LEMMA RoleAlone ==
  ASSUME Types, Alone, NEW w \in Workers, RoleFilter(w)
  PROVE  Alone'
<1>1. /\ pc[w] = "role"
      /\ UNCHANGED <<req, session, role, cell, link, count, memory, tables, signedUp, answers>>
  BY DEF RoleFilter, Refuse, At, arenaVars
<1>2. PICK l \in {"idle", "handle"} :
         pc' = [pc EXCEPT ![w] = l] /\ (l = "handle" => memory[role[w]] = "admin")
  BY DEF RoleFilter, Refuse, Goto
<1>3. Others(w, l) /\ pc'[w] = l
  BY <1>1, <1>2, LeavesOthers DEF Types, TypeOK
<1>4. Waiting(w)'
  BY <1>1, <1>2, <1>3 DEF Waiting, Alone
<1>5. Busy(w)' /\ ~Inserting(w)'
  BY <1>3 DEF Busy, Inserting
<1>6. \A a \in answers' : Honoured(a)
  BY <1>1 DEF Alone, Shared
<1> QED
  BY <1>1, <1>2, <1>3, <1>4, <1>5, <1>6, QuietAlone

LEMMA LoginAlone ==
  ASSUME Types, Alone, NEW w \in Workers, Login(w)
  PROVE  Alone'
<1>1. /\ pc' = [pc EXCEPT ![w] = "idle"]
      /\ role' = role \/ (\E x : role' = [role EXCEPT ![w] = x])
      /\ UNCHANGED <<req, session, cell, link, count, memory, tables, signedUp, answers>>
  BY DEF Login, Refuse, Goto, arenaVars
<1>2. Others(w, "idle") /\ pc'[w] = "idle"
  BY <1>1, LeavesOthers DEF Types, TypeOK
<1>3. Busy(w)' /\ Waiting(w)' /\ ~Inserting(w)'
  BY <1>2 DEF Busy, Waiting, Inserting
<1>4. \A a \in answers' : Honoured(a)
  BY <1>1 DEF Alone, Shared
<1> QED
  BY <1>1, <1>2, <1>3, <1>4, QuietAlone

\* An insertion starts while no other worker inserts.
LEMMA StartAlone ==
  ASSUME Types, Alone, ~raced', NEW w \in Workers, StartInsertion(w),
         req[w].kind = "csrf" => ~HasKey("csrf", session[w]),
         UNCHANGED <<req, session, role, cell, link, count, memory, tables, signedUp, answers>>
  PROVE  Alone'
<1>1. pc' = [pc EXCEPT ![w] = "allocate"] /\ \A v \in Workers \ {w} : ~Inserting(v)
  BY DEF StartInsertion, Goto
<1>2. Others(w, "allocate") /\ pc'[w] = "allocate"
  BY <1>1, LeavesOthers DEF Types, TypeOK
<1>3. Busy(w)' /\ Waiting(w)'
  BY <1>2 DEF Busy, Waiting, InTable, HasKey
<1>4. \A a \in answers' : Honoured(a)
  BY DEF Alone, Shared
<1> QED
  BY <1>1, <1>2, <1>3, <1>4, QuietAlone

LEMMA HandleAlone ==
  ASSUME Types, Alone, ~raced', NEW w \in Workers, Handle(w)
  PROVE  Alone'
<1>1. UNCHANGED <<req, session, role, cell, link, count, memory, tables, signedUp, answers>>
  BY DEF Handle, arenaVars, historyVars
<1>2. CASE pc' = [pc EXCEPT ![w] = "idle"]
  <2>1. Others(w, "idle") /\ pc'[w] = "idle"
    BY <1>1, <1>2, LeavesOthers DEF Types, TypeOK
  <2>2. Busy(w)' /\ Waiting(w)' /\ ~Inserting(w)'
    BY <2>1 DEF Busy, Waiting, Inserting
  <2>3. \A a \in answers' : Honoured(a)
    BY <1>1 DEF Alone, Shared
  <2> QED
    BY <1>1, <2>1, <2>2, <2>3, QuietAlone
<1>3. CASE req[w].kind = "signup" /\ StartInsertion(w)
  BY <1>1, <1>3, StartAlone
<1> QED
  BY <1>2, <1>3 DEF Handle, Goto

LEMMA GetTokenAlone ==
  ASSUME Types, Alone, ~raced', NEW w \in Workers, GetToken(w)
  PROVE  Alone'
<1> DEFINE c == Lookup("csrf", session[w])
<1>1. UNCHANGED <<req, session, role, link, count, memory, tables, signedUp, answers>>
  BY DEF GetToken, arenaVars, historyVars
<1>2. CASE c # 0 /\ cell' = [cell EXCEPT ![w] = c] /\ pc' = [pc EXCEPT ![w] = "answer"]
  <2>1. Others(w, "answer") /\ pc'[w] = "answer" /\ cell'[w] = c
    BY <1>1, <1>2, LeavesOthers DEF Types, TypeOK
  <2>2. \E i \in DOMAIN tables["csrf"] :
           tables["csrf"][i].key = session[w] /\ tables["csrf"][i].cell = c
    BY <1>2, LookupIs DEF Alone, HasKey
  <2>3. Busy(w)' /\ Waiting(w)' /\ ~Inserting(w)'
    <3> HIDE DEF c
    <3> QED
      BY <1>1, <2>1, <2>2 DEF Busy, Waiting, Inserting
  <2>4. \A a \in answers' : Honoured(a)
    BY <1>1 DEF Alone, Shared
  <2> QED
    BY <1>1, <2>1, <2>3, <2>4, QuietAlone
<1>3. CASE c = 0 /\ StartInsertion(w) /\ UNCHANGED cell
  <2>1. ~HasKey("csrf", session[w])
    BY <1>3, LookupIs DEF Alone
  <2> QED
    BY <1>1, <1>3, <2>1, StartAlone
<1> QED
  BY <1>2, <1>3 DEF GetToken, Goto
LEMMA AllocateAlone ==
  ASSUME Types, Alone, NEW w \in Workers, Allocate(w)
  PROVE  Alone'
<1>1. /\ pc[w] = "allocate" /\ pc' = [pc EXCEPT ![w] = "bump"] /\ cell' = [cell EXCEPT ![w] = count]
      /\ UNCHANGED <<req, session, role, link, count, memory, tables, signedUp, answers>>
  BY DEF Allocate, At, Goto, arenaVars, historyVars
<1>2. Others(w, "bump") /\ pc'[w] = "bump" /\ cell'[w] = count
  BY <1>1, LeavesOthers DEF Types, TypeOK
<1>3. Inserting(w)
  BY <1>1 DEF Inserting
<1>4. Busy(w)' /\ Waiting(w)'
  BY <1>1, <1>2, <1>3 DEF Alone, Busy, Waiting, InTable, HasKey
<1>5. \A a \in answers' : Honoured(a)
  BY <1>1 DEF Alone, Shared
<1> QED
  BY <1>1, <1>2, <1>3, <1>4, <1>5, QuietAlone

LEMMA LinkAlone ==
  ASSUME Types, Alone, NEW w \in Workers, Link(w)
  PROVE  Alone'
<1>1. /\ pc[w] = "link" /\ pc' = [pc EXCEPT ![w] = "publish"]
      /\ link' = [link EXCEPT ![w] = tables[Table(w)]]
      /\ UNCHANGED <<req, session, role, cell, count, memory, tables, signedUp, answers>>
  BY DEF Link, At, Goto, arenaVars, historyVars
<1>2. Others(w, "publish") /\ pc'[w] = "publish" /\ link'[w] = tables[Table(w)]
  BY <1>1, LeavesOthers DEF Types, TypeOK
<1>3. Inserting(w) /\ pc[w] \in InTable
  BY <1>1 DEF Inserting, InTable
<1>4. Busy(w)' /\ Waiting(w)'
  BY <1>1, <1>2, <1>3 DEF Alone, Busy, Waiting, InTable, HasKey, Table, Key
<1>5. \A a \in answers' : Honoured(a)
  BY <1>1 DEF Alone, Shared
<1> QED
  BY <1>1, <1>2, <1>3, <1>4, <1>5, QuietAlone

\* While one worker inserts, the others wait.
LEMMA OthersWait ==
  ASSUME Alone, NEW w \in Workers, NEW l, Inserting(w), Others(w, l)
  PROVE  /\ \A u \in Workers \ {w} : /\ ~Inserting(u) /\ ~Inserting(u)' /\ Busy(u)'
                                     /\ pc[u] \notin InTable /\ pc'[u] \notin InTable \cup {"fill"}
         /\ Single'
<1>1. \A u \in Workers \ {w} : ~Inserting(u) /\ ~Inserting(u)'
  BY DEF Alone, Single, Others, Inserting
<1>2. \A u \in Workers \ {w} : pc[u] \notin InTable /\ pc'[u] \notin InTable \cup {"fill"}
  BY <1>1 DEF Inserting, InTable
<1> QED
  BY <1>1, <1>2 DEF Single, Busy

LEMMA BumpAlone ==
  ASSUME Types, Alone, NEW w \in Workers, Bump(w)
  PROVE  Alone'
<1>1. /\ pc[w] = "bump" /\ pc' = [pc EXCEPT ![w] = "fill"] /\ count' \in {cell[w] + 1, count + 1}
      /\ UNCHANGED <<req, session, role, cell, link, memory, tables, signedUp, answers>>
  BY DEF Bump, At, Goto, arenaVars, historyVars
<1>2. Others(w, "fill") /\ pc'[w] = "fill"
  BY <1>1, LeavesOthers DEF Types, TypeOK
<1>3. Inserting(w) /\ cell[w] = count /\ count \in Nat /\ count' = count + 1
  <2>1. Inserting(w)
    BY <1>1 DEF Inserting
  <2> QED
    BY <1>1, <2>1, Addresses DEF Alone, Busy
<1>4. \A t \in {"csrf", "users"} : \A i \in DOMAIN tables[t] :
         tables[t][i].cell < count /\ tables[t][i].cell < count + 1
  <2> SUFFICES ASSUME NEW t \in {"csrf", "users"}, NEW i \in DOMAIN tables[t]
               PROVE  tables[t][i].cell < count /\ tables[t][i].cell < count + 1
    OBVIOUS
  <2>1. tables[t][i] \in Entries
    BY DEF Types, TypeOK
  <2>2. tables[t][i].cell \in Nat
    BY <2>1, Bounds DEF Entries
  <2>3. tables[t][i].cell < count
    BY DEF Alone, Shared
  <2> QED
    BY <1>3, <2>2, <2>3
<1>5. \A u \in Workers : pc[u] = "role" => role[u] < count /\ role[u] < count + 1
  <2> SUFFICES ASSUME NEW u \in Workers, pc[u] = "role" PROVE role[u] < count /\ role[u] < count + 1
    OBVIOUS
  <2>1. role[u] \in Nat
    <3>1. role[u] \in Cells \cup {0}
      BY DEF Types, TypeOK
    <3>2. Cells \cup {0} \subseteq Nat
      BY Bounds
    <3> QED
      BY <3>1, <3>2
  <2>2. role[u] < count
    BY DEF Alone, Waiting
  <2> QED
    BY <1>3, <2>1, <2>2
<1>6. Shared'
  BY <1>1, <1>3, <1>4 DEF Alone, Shared, Honoured, HasKey
<1>7. Busy(w)'
  BY <1>1, <1>2, <1>3, <1>4 DEF Alone, Busy, InTable, HasKey
<1>8. \A u \in Workers : Waiting(u)'
  <2> SUFFICES ASSUME NEW u \in Workers PROVE Waiting(u)'
    OBVIOUS
  <2>1. CASE u = w
    BY <1>2, <2>1 DEF Waiting
  <2>2. CASE u # w
    <3>1. Waiting(u) /\ pc'[u] = pc[u] /\ MaybeTokens' = MaybeTokens
      BY <1>1, <1>2, <2>2 DEF Alone, Others, MaybeTokens
    <3> QED
      BY <1>1, <1>3, <1>5, <3>1 DEF Waiting
  <2> QED
    BY <2>1, <2>2
<1>9. Apart'
  BY <1>1, <1>2, <1>3, <1>5, OthersWait DEF Apart, Others
<1>10. Single' /\ \A u \in Workers \ {w} : Busy(u)'
  BY <1>2, <1>3, OthersWait
<1> QED
  BY <1>6, <1>7, <1>8, <1>9, <1>10 DEF Alone

LEMMA FillAlone ==
  ASSUME IInv, Alone, NEW w \in Workers, Fill(w)
  PROVE  Alone'
<1>1. PICK x \in IF req[w].kind = "csrf" THEN Tokens \ Used ELSE {req[w].role} :
         memory' = [memory EXCEPT ![cell[w]] = x]
  BY DEF Fill
<1>2. /\ pc[w] = "fill" /\ pc' = [pc EXCEPT ![w] = "scan"]
      /\ UNCHANGED <<req, session, role, cell, link, count, tables, signedUp, answers>>
  BY DEF Fill, At, Goto, arenaVars, historyVars
<1>3. Others(w, "scan") /\ pc'[w] = "scan" /\ Inserting(w)
  BY <1>2, LeavesOthers DEF IInv, Types, TypeOK, Inserting
<1>4. cell[w] \in Cells /\ cell[w] \in Nat
  <2>1. cell[w] # 0 /\ cell[w] \in Cells \cup {0}
    BY <1>2 DEF IInv, Types, TypeOK, Room
  <2> QED
    BY <2>1, Bounds
<1>5. memory'[cell[w]] = x /\ \A c \in Cells : c # cell[w] => memory'[c] = memory[c]
  BY <1>1, <1>4 DEF IInv, Types, TypeOK
<1>6. \A t \in {"csrf", "users"} : \A i \in DOMAIN tables[t] :
         tables[t][i].cell \in Cells /\ memory'[tables[t][i].cell] = memory[tables[t][i].cell]
  <2> SUFFICES ASSUME NEW t \in {"csrf", "users"}, NEW i \in DOMAIN tables[t]
               PROVE  tables[t][i].cell \in Cells /\ memory'[tables[t][i].cell] = memory[tables[t][i].cell]
    OBVIOUS
  <2>1. tables[t][i] \in Entries
    BY DEF IInv, Types, TypeOK
  <2>2. tables[t][i].cell \in Cells /\ tables[t][i].cell \in Nat
    BY <2>1, Bounds DEF Entries
  <2>3. tables[t][i].cell < cell[w]
    BY <1>2, <1>3 DEF Alone, Busy
  <2> QED
    BY <1>4, <1>5, <2>2, <2>3
<1>7. \A u \in Workers : pc[u] = "role" => memory'[role[u]] = memory[role[u]]
  <2> SUFFICES ASSUME NEW u \in Workers, pc[u] = "role" PROVE memory'[role[u]] = memory[role[u]]
    OBVIOUS
  <2>1. role[u] \in Cells /\ role[u] \in Nat
    <3>1. role[u] # 0 /\ role[u] \in Cells \cup {0}
      BY DEF IInv, Types, TypeOK
    <3> QED
      BY <3>1, Bounds
  <2>2. role[u] < cell[w]
    BY <1>2 DEF Alone, Apart
  <2> QED
    BY <1>4, <1>5, <2>1, <2>2
<1>8. Shared'
  BY <1>2, <1>6 DEF Alone, Shared, Honoured, HasKey
<1>9. Busy(w)'
  <2>1. Busy(w)
    BY DEF Alone
  <2>2. ASSUME req[w].kind = "csrf", NEW i \in DOMAIN tables["csrf"]
        PROVE  memory'[tables["csrf"][i].cell] # memory'[cell[w]]
    <3>1. x \notin {memory[c] : c \in Cells}
      BY <1>1, <2>2 DEF Used
    <3> QED
      BY <1>5, <1>6, <3>1
  <2>3. req[w].kind = "signup" => memory'[cell[w]] = req[w].role
    BY <1>1, <1>5
  <2> QED
    BY <1>2, <1>3, <2>1, <2>2, <2>3 DEF Busy, HasKey, InTable
<1>10. \A u \in Workers : Waiting(u)'
  <2> SUFFICES ASSUME NEW u \in Workers PROVE Waiting(u)'
    OBVIOUS
  <2>1. CASE u = w
    BY <1>3, <2>1 DEF Waiting
  <2>2. CASE u # w
    <3>1. Waiting(u) /\ pc'[u] = pc[u] /\ MaybeTokens' = MaybeTokens
      BY <1>2, <1>3, <2>2 DEF Alone, Others, MaybeTokens
    <3> QED
      BY <1>2, <1>7, <3>1 DEF Waiting
  <2> QED
    BY <2>1, <2>2
<1>11. Single' /\ \A u \in Workers \ {w} : Busy(u)' /\ pc'[u] # "fill"
  BY <1>3, OthersWait
<1>12. Apart'
  BY <1>3, <1>11 DEF Apart
<1> QED
  BY <1>8, <1>9, <1>10, <1>11, <1>12 DEF Alone
\* What a sign up appends.
LEMMA SignsUp ==
  ASSUME Types, NEW w \in Workers, pc[w] \in InTable, EndInsertion(w), req[w].kind = "signup"
  PROVE  /\ req[w].name \in Users
         /\ signedUp'[req[w].name] # <<>> /\ Last(signedUp'[req[w].name]) = req[w].role
         /\ \A u \in Users : u # req[w].name => signedUp'[u] = signedUp[u]
         /\ \A u \in Users : signedUp[u] # <<>> =>
               signedUp'[u] # <<>> /\ Range(signedUp[u]) \subseteq Range(signedUp'[u])
<1> DEFINE n == req[w].name
           q == Append(signedUp[n], req[w].role)
<1>1. n \in Users /\ req[w].role \in Roles
  <2>1. Fitting("scan", req[w], session[w])
    BY FittingPending DEF InTable
  <2> QED
    BY <2>1 DEF Fitting, InTable
<1>2. signedUp \in [Users -> Seq(Roles)] /\ signedUp' = [signedUp EXCEPT ![n] = q]
  BY DEF Types, EndInsertion
<1>3. signedUp'[n] = q /\ \A u \in Users : u # n => signedUp'[u] = signedUp[u]
  BY <1>1, <1>2
<1>4. signedUp[n] \in Seq(Roles)
  BY <1>1, <1>2
<1>5. /\ q # <<>> /\ Len(q) = Len(signedUp[n]) + 1 /\ q[Len(q)] = req[w].role
      /\ \A i \in DOMAIN signedUp[n] : i \in DOMAIN q /\ q[i] = signedUp[n][i]
  BY <1>1, <1>4
<1>6. Last(q) = req[w].role
  BY <1>5 DEF Last
<1>7. Range(signedUp[n]) \subseteq Range(q)
  BY <1>5 DEF Range
<1> HIDE DEF q
<1> QED
  BY <1>1, <1>3, <1>5, <1>6, <1>7

\* The others do not notice what a worker stores in a table.
LEMMA StoreUnnoticed ==
  ASSUME Types, Alone, NEW w \in Workers, NEW l \in {"answer", "idle"},
         pc[w] \in InTable, Others(w, l), UNCHANGED <<count, memory, answers>>,
         l = "answer" => \E i \in DOMAIN tables'["csrf"] :
            tables'["csrf"][i].key = session'[w] /\ tables'["csrf"][i].cell = cell'[w],
         \A i \in DOMAIN tables["csrf"] :
            \E j \in DOMAIN tables'["csrf"] : tables'["csrf"][j] = tables["csrf"][i],
         \A u \in Users : signedUp[u] # <<>> =>
            signedUp'[u] # <<>> /\ Range(signedUp[u]) \subseteq Range(signedUp'[u]),
         Shared'
  PROVE  Alone'
<1>1. pc'[w] = l /\ Inserting(w)
  BY DEF Others, Inserting, InTable
<1>2. /\ \A u \in Workers \ {w} : Busy(u)' /\ pc'[u] # "fill"
      /\ Single'
  BY <1>1, OthersWait
<1>3. Busy(w)' /\ Waiting(w)'
  BY <1>1 DEF Busy, Waiting, Inserting
<1>4. ASSUME NEW u \in Workers, u # w PROVE Waiting(u)'
  <2>1. Waiting(u) /\ MaybeTokens' = MaybeTokens
    BY DEF Alone, MaybeTokens
  <2>2. /\ pc'[u] = pc[u] /\ req'[u] = req[u] /\ session'[u] = session[u] /\ role'[u] = role[u]
        /\ cell'[u] = cell[u]
    BY <1>4 DEF Others
  <2>3. pc[u] = "answer" =>
          \E i \in DOMAIN tables'["csrf"] : /\ tables'["csrf"][i].key = session[u]
                                            /\ tables'["csrf"][i].cell = cell[u]
    BY <2>1 DEF Waiting
  <2>4. pc[u] \in {"role", "handle"} =>
          /\ signedUp'[req[u].cookie] # <<>>
          /\ Range(signedUp[req[u].cookie]) \subseteq Range(signedUp'[req[u].cookie])
    BY <2>1 DEF Waiting
  <2> QED
    BY <2>1, <2>2, <2>3, <2>4 DEF Waiting
<1>5. Apart'
  BY <1>1, <1>2 DEF Apart
<1> QED
  BY <1>2, <1>3, <1>4, <1>5 DEF Alone

LEMMA PublishAlone ==
  ASSUME Types, Alone, NEW w \in Workers, Publish(w)
  PROVE  Alone'
<1> DEFINE old == tables[Table(w)]
           q == <<Entry(w)>> \o old
<1>1. /\ pc[w] = "publish" /\ pc[w] \in InTable /\ Inserting(w) /\ EndInsertion(w)
      /\ tables' = [tables EXCEPT ![Table(w)] = <<Entry(w)>> \o link[w]] /\ link' = [link EXCEPT ![w] = <<>>]
      /\ UNCHANGED <<req, session, role, cell, count, memory, answers>>
  BY DEF Publish, At, arenaVars, InTable, Inserting
<1>2. Busy(w)
  BY DEF Alone
<1>3. link[w] = old /\ ~HasKey(Table(w), Key(w)) /\ cell[w] < count
  BY <1>1, <1>2 DEF Busy
<1>4. Fitting("publish", req[w], session[w]) /\ Table(w) \in {"csrf", "users"}
  BY <1>1, FittingPending DEF InTable
<1>5. old \in Seq(Entries) /\ DOMAIN tables = {"csrf", "users"}
  BY <1>4 DEF Types, TypeOK
<1>6. /\ 1 \in DOMAIN q /\ q[1] = Entry(w)
      /\ \A i \in DOMAIN q : i = 1 \/ (i - 1 \in DOMAIN old /\ q[i] = old[i - 1])
      /\ \A i \in DOMAIN old : i + 1 \in DOMAIN q /\ q[i + 1] = old[i]
  <2>1. Len(q) = Len(old) + 1 /\ DOMAIN q = 1..Len(q) /\ DOMAIN old = 1..Len(old)
    BY <1>5
  <2>2. \A i \in 1..Len(q) : q[i] = IF i <= 1 THEN Entry(w) ELSE old[i - 1]
    BY <1>5
  <2> HIDE DEF q, old
  <2>3. Len(old) \in Nat
    BY <1>5
  <2> QED
    BY <2>1, <2>2, <2>3
<1>7. Entry(w).key = Key(w) /\ Entry(w).cell = cell[w]
  BY DEF Entry
<1>8. DOMAIN q \subseteq Nat /\ DOMAIN old \subseteq Nat
  BY <1>5
<1> HIDE DEF q
<1>9. tables'[Table(w)] = q /\ \A t \in {"csrf", "users"} : t # Table(w) => tables'[t] = tables[t]
  BY <1>1, <1>3, <1>4, <1>5 DEF q
<1>10. \A i, j \in DOMAIN q : q[i].key = q[j].key => i = j
  <2> SUFFICES ASSUME NEW i \in DOMAIN q, NEW j \in DOMAIN q, q[i].key = q[j].key PROVE i = j
    OBVIOUS
  <2>1. \A m \in DOMAIN old : old[m].key # Key(w)
    BY <1>3 DEF HasKey
  <2>2. \A m, n \in DOMAIN old : old[m].key = old[n].key => m = n
    BY <1>4 DEF Alone, Shared
  <2>3. CASE i = 1
    BY <1>6, <1>7, <2>1, <2>3
  <2>4. CASE j = 1
    BY <1>6, <1>7, <2>1, <2>4
  <2>5. CASE i # 1 /\ j # 1
    <3>1. i - 1 = j - 1
      BY <1>6, <2>2, <2>5
    <3> QED
      BY <1>8, <3>1
  <2> QED
    BY <2>3, <2>4, <2>5
<1>11. \A i \in DOMAIN q : q[i].cell < count
  <2>1. \A m \in DOMAIN old : old[m].cell < count
    BY <1>4 DEF Alone, Shared
  <2> QED
    BY <1>3, <1>6, <1>7, <2>1
<1>12. CASE req[w].kind = "csrf"
  <2>1. /\ Table(w) = "csrf" /\ Key(w) = session[w] /\ signedUp' = signedUp
        /\ pc' = [pc EXCEPT ![w] = "answer"]
    BY <1>1, <1>12 DEF Table, Key, EndInsertion, Goto
  <2>2. tables'["csrf"] = q /\ tables'["users"] = tables["users"] /\ old = tables["csrf"]
    BY <1>9, <2>1
  <2>3. Others(w, "answer")
    BY <1>1, <2>1, LeavesOthers
  <2>4. \A i, j \in DOMAIN q : memory[q[i].cell] = memory[q[j].cell] => i = j
    <3> SUFFICES ASSUME NEW i \in DOMAIN q, NEW j \in DOMAIN q, memory[q[i].cell] = memory[q[j].cell]
                 PROVE  i = j
      OBVIOUS
    <3>1. \A m \in DOMAIN old : memory[old[m].cell] # memory[cell[w]]
      BY <1>1, <1>2, <1>12, <2>2 DEF Busy
    <3>2. \A m, n \in DOMAIN old : memory[old[m].cell] = memory[old[n].cell] => m = n
      BY <2>2 DEF Alone, Shared
    <3> HIDE DEF old
    <3>3. CASE i = 1
      BY <1>6, <1>7, <3>1, <3>3
    <3>4. CASE j = 1
      BY <1>6, <1>7, <3>1, <3>4
    <3>5. CASE i # 1 /\ j # 1
      <4>1. i - 1 = j - 1
        BY <1>6, <3>2, <3>5
      <4> QED
        BY <1>8, <4>1
    <3> QED
      BY <3>3, <3>4, <3>5
  <2>5. \A a \in answers' : Honoured(a)'
    <3> SUFFICES ASSUME NEW a \in answers PROVE Honoured(a)'
      BY <1>1
    <3>1. PICK i \in DOMAIN old : old[i].key = a[1] /\ memory[old[i].cell] = a[2]
      BY <2>2 DEF Alone, Shared, Honoured
    <3>2. i + 1 \in DOMAIN q /\ q[i + 1] = old[i]
      BY <1>6
    <3> HIDE DEF old
    <3> QED
      BY <1>1, <2>2, <3>1, <3>2 DEF Honoured
  <2>6. Shared'
    <3>1. \A t \in {"csrf", "users"} : \A i \in DOMAIN tables'[t] : tables'[t][i].cell < count'
      <4>1. \A t \in {"csrf", "users"} : \A i \in DOMAIN tables[t] : tables[t][i].cell < count
        BY DEF Alone, Shared
      <4> HIDE DEF old
      <4> QED
        BY <1>1, <1>11, <2>2, <4>1
    <3>2. \A t \in {"csrf", "users"} : \A i, j \in DOMAIN tables'[t] :
             tables'[t][i].key = tables'[t][j].key => i = j
      BY <1>10, <2>2 DEF Alone, Shared
    <3>3. \A u \in Users : signedUp'[u] # <<>> => HasKey("users", u)'
      BY <2>1, <2>2 DEF Alone, Shared, HasKey
    <3>4. \A i \in DOMAIN tables["users"] :
             /\ tables["users"][i].key \in Users
             /\ signedUp[tables["users"][i].key] # <<>>
             /\ memory[tables["users"][i].cell] = Last(signedUp[tables["users"][i].key])
      BY DEF Alone, Shared
    <3> HIDE DEF old
    <3>5. \A i, j \in DOMAIN tables'["csrf"] :
             memory'[tables'["csrf"][i].cell] = memory'[tables'["csrf"][j].cell] => i = j
      <4>1. memory' = memory /\ tables'["csrf"] = q
        BY <1>1, <2>2
      <4> QED
        BY <2>4, <4>1
    <3>6. \A i \in DOMAIN tables'["users"] :
             /\ tables'["users"][i].key \in Users
             /\ signedUp'[tables'["users"][i].key] # <<>>
             /\ memory'[tables'["users"][i].cell] = Last(signedUp'[tables'["users"][i].key])
      BY <1>1, <2>1, <2>2, <3>4
    <3> QED
      BY <2>5, <3>1, <3>2, <3>3, <3>5, <3>6 DEF Shared
  <2>7. tables'["csrf"][1].key = session'[w] /\ tables'["csrf"][1].cell = cell'[w] /\ 1 \in DOMAIN tables'["csrf"]
    BY <1>1, <1>6, <1>7, <2>1, <2>2
  <2>8. \A i \in DOMAIN tables["csrf"] :
           \E j \in DOMAIN tables'["csrf"] : tables'["csrf"][j] = tables["csrf"][i]
    BY <1>6, <2>2
  <2> QED
    BY <1>1, <2>1, <2>3, <2>6, <2>7, <2>8, StoreUnnoticed
<1>13. CASE req[w].kind = "signup"
  <2>1. /\ Table(w) = "users" /\ Key(w) = req[w].name
        /\ pc' = [pc EXCEPT ![w] = "idle"]
    BY <1>1, <1>13 DEF Table, Key, EndInsertion, Goto
  <2>2. tables'["users"] = q /\ tables'["csrf"] = tables["csrf"] /\ old = tables["users"]
    BY <1>9, <2>1
  <2>3. Others(w, "idle")
    BY <1>1, <2>1, LeavesOthers
  <2>4. /\ req[w].name \in Users
        /\ signedUp'[req[w].name] # <<>> /\ Last(signedUp'[req[w].name]) = req[w].role
        /\ \A u \in Users : u # req[w].name => signedUp'[u] = signedUp[u]
        /\ \A u \in Users : signedUp[u] # <<>> =>
               signedUp'[u] # <<>> /\ Range(signedUp[u]) \subseteq Range(signedUp'[u])
    BY <1>1, <1>13, SignsUp
  <2>5. memory[cell[w]] = req[w].role
    BY <1>1, <1>2, <1>13 DEF Busy
  <2>6. \A i \in DOMAIN q : /\ q[i].key \in Users /\ signedUp'[q[i].key] # <<>>
                           /\ memory[q[i].cell] = Last(signedUp'[q[i].key])
    <3>1. \A m \in DOMAIN old : /\ old[m].key \in Users /\ signedUp[old[m].key] # <<>>
                                /\ memory[old[m].cell] = Last(signedUp[old[m].key])
                                /\ old[m].key # req[w].name
      BY <1>3, <2>1, <2>2 DEF Alone, Shared, HasKey
    <3>2. \A m \in DOMAIN old : signedUp'[old[m].key] = signedUp[old[m].key]
      BY <2>4, <3>1
    <3> HIDE DEF old
    <3> QED
      BY <1>6, <1>7, <2>1, <2>4, <2>5, <3>1, <3>2
  <2>7. Shared'
    <3>1. \A t \in {"csrf", "users"} : \A i \in DOMAIN tables'[t] : tables'[t][i].cell < count'
      <4>1. \A t \in {"csrf", "users"} : \A i \in DOMAIN tables[t] : tables[t][i].cell < count
        BY DEF Alone, Shared
      <4> HIDE DEF old
      <4> QED
        BY <1>1, <1>11, <2>2, <4>1
    <3>2. \A t \in {"csrf", "users"} : \A i, j \in DOMAIN tables'[t] :
             tables'[t][i].key = tables'[t][j].key => i = j
      BY <1>10, <2>2 DEF Alone, Shared
    <3>3. ASSUME NEW u \in Users, signedUp'[u] # <<>> PROVE \E i \in DOMAIN q : q[i].key = u
      <4>1. CASE u = req[w].name
        BY <1>6, <1>7, <2>1, <4>1
      <4>2. CASE u # req[w].name
        <5>1. PICK m \in DOMAIN old : old[m].key = u
          BY <2>2, <2>4, <3>3, <4>2 DEF Alone, Shared, HasKey
        <5> HIDE DEF old
        <5> QED
          BY <1>6, <5>1
      <4> QED
        BY <4>1, <4>2
    <3>4. \A u \in Users : signedUp'[u] # <<>> => HasKey("users", u)'
      BY <2>2, <3>3 DEF HasKey
    <3>5. \A a \in answers' : Honoured(a)'
      <4> SUFFICES ASSUME NEW a \in answers PROVE Honoured(a)'
        BY <1>1
      <4>1. Honoured(a)
        BY DEF Alone, Shared
      <4> QED
        BY <1>1, <2>2, <4>1 DEF Honoured
    <3>6. \A i, j \in DOMAIN tables'["csrf"] :
             memory'[tables'["csrf"][i].cell] = memory'[tables'["csrf"][j].cell] => i = j
      <4>1. \A i, j \in DOMAIN tables["csrf"] :
               memory[tables["csrf"][i].cell] = memory[tables["csrf"][j].cell] => i = j
        BY DEF Alone, Shared
      <4>2. memory' = memory /\ tables'["csrf"] = tables["csrf"]
        BY <1>1, <2>2
      <4> HIDE DEF old
      <4> QED
        BY <4>1, <4>2
    <3> HIDE DEF old
    <3> QED
      BY <1>1, <2>2, <2>6, <3>1, <3>2, <3>4, <3>5, <3>6 DEF Shared
  <2>8. \A i \in DOMAIN tables["csrf"] :
           \E j \in DOMAIN tables'["csrf"] : tables'["csrf"][j] = tables["csrf"][i]
    BY <2>2
  <2> QED
    BY <1>1, <2>3, <2>4, <2>7, <2>8, StoreUnnoticed
<1> QED
  BY <1>4, <1>12, <1>13 DEF Fitting, InTable
\* An entry that is there gets a new cell: a user who is signed up again.
LEMMA ScanAlone ==
  ASSUME Types, Alone, NEW w \in Workers, Scan(w)
  PROVE  Alone'
<1> DEFINE n == SelectInSeq(tables[Table(w)], LAMBDA e : e.key = Key(w))
           accounts == tables["users"]
<1>1. /\ pc[w] = "scan" /\ pc[w] \in InTable /\ Inserting(w)
      /\ UNCHANGED <<req, session, role, cell, link, count, memory, answers>>
  BY DEF Scan, At, arenaVars, InTable, Inserting
<1>2. Busy(w)
  BY DEF Alone
<1>3. Fitting("scan", req[w], session[w]) /\ Table(w) \in {"csrf", "users"}
  BY <1>1, FittingPending DEF InTable
<1>4. CASE Lookup(Table(w), Key(w)) = 0 /\ pc' = [pc EXCEPT ![w] = "link"] /\ UNCHANGED <<tables, signedUp>>
  <2>1. Others(w, "link") /\ pc'[w] = "link"
    BY <1>1, <1>4, LeavesOthers DEF Types, TypeOK
  <2>2. ~HasKey(Table(w), Key(w))
    BY <1>3, <1>4, LookupIs DEF Alone
  <2>3. Busy(w)' /\ Waiting(w)'
    BY <1>1, <1>2, <1>4, <2>1, <2>2 DEF Busy, Waiting, InTable, HasKey, Table, Key
  <2>4. \A a \in answers' : Honoured(a)
    BY <1>1 DEF Alone, Shared
  <2> QED
    BY <1>1, <1>4, <2>1, <2>3, <2>4, QuietAlone
<1>5. CASE \E i \in DOMAIN tables[Table(w)] : /\ i = n
                                             /\ tables' = [tables EXCEPT ![Table(w)][i].cell = cell[w]]
                                             /\ EndInsertion(w)
  <2>1. PICK i \in DOMAIN tables[Table(w)] : i = n /\ tables' = [tables EXCEPT ![Table(w)][i].cell = cell[w]]
    BY <1>5
  <2>2. EndInsertion(w)
    BY <1>5
  <2>3. tables[Table(w)][i].key = Key(w)
    <3>1. DOMAIN tables[Table(w)] \subseteq Nat \ {0}
      <4>1. tables[Table(w)] \in Seq(Entries)
        BY <1>3 DEF Types, TypeOK
      <4> QED
        BY <4>1
    <3>2. /\ HasKey(Table(w), Key(w)) => FirstWith(Table(w), Key(w), n) /\ n # 0
          /\ ~HasKey(Table(w), Key(w)) => n = 0
      BY <1>3, Finds
    <3> HIDE DEF n
    <3> QED
      BY <2>1, <3>1, <3>2 DEF FirstWith
  <2>4. req[w].kind = "signup"
    <3>1. HasKey(Table(w), Key(w))
      BY <2>3 DEF HasKey
    <3>2. req[w].kind # "csrf"
      BY <1>1, <1>2, <3>1 DEF Busy, Table, Key
    <3> QED
      BY <1>3, <3>2 DEF Fitting, InTable
  <2>5. Table(w) = "users" /\ Key(w) = req[w].name /\ pc' = [pc EXCEPT ![w] = "idle"]
    BY <2>2, <2>4 DEF Table, Key, EndInsertion, Goto
  <2> HIDE DEF n
  <2> DEFINE e == [accounts[i] EXCEPT !.cell = cell[w]]
             q == [accounts EXCEPT ![i] = e]
  <2>6. i \in DOMAIN accounts /\ accounts[i].key = req[w].name /\ accounts[i] \in Entries
    BY <2>1, <2>3, <2>5 DEF Types, TypeOK
  <2>7. e.key = req[w].name /\ e.cell = cell[w]
    BY <2>6 DEF Entries
  <2>8. DOMAIN q = DOMAIN accounts /\ \A j \in DOMAIN accounts : q[j] = IF j = i THEN e ELSE accounts[j]
    <3> HIDE DEF e
    <3> QED
      BY <2>6
  <2>9. tables'["users"] = q /\ tables'["csrf"] = tables["csrf"]
    BY <2>1, <2>5 DEF Types
  <2> HIDE DEF e, q
  <2>10. Others(w, "idle")
    BY <1>1, <2>5, LeavesOthers
  <2>11. /\ req[w].name \in Users
         /\ signedUp'[req[w].name] # <<>> /\ Last(signedUp'[req[w].name]) = req[w].role
         /\ \A u \in Users : u # req[w].name => signedUp'[u] = signedUp[u]
         /\ \A u \in Users : signedUp[u] # <<>> =>
                signedUp'[u] # <<>> /\ Range(signedUp[u]) \subseteq Range(signedUp'[u])
    BY <1>1, <2>2, <2>4, SignsUp
  <2>12. memory[cell[w]] = req[w].role /\ cell[w] < count
    BY <1>1, <1>2, <2>4 DEF Busy
  <2>13. /\ \A j \in DOMAIN accounts : /\ accounts[j].key \in Users /\ signedUp[accounts[j].key] # <<>>
                                    /\ memory[accounts[j].cell] = Last(signedUp[accounts[j].key])
                                    /\ accounts[j].cell < count
         /\ \A j, k \in DOMAIN accounts : accounts[j].key = accounts[k].key => j = k
    BY DEF Alone, Shared
  <2> HIDE DEF accounts
  <2>14. \A j \in DOMAIN accounts : q[j].key = accounts[j].key
    BY <2>6, <2>7, <2>8
  <2>15. \A j \in DOMAIN q : /\ q[j].key \in Users /\ signedUp'[q[j].key] # <<>>
                            /\ memory[q[j].cell] = Last(signedUp'[q[j].key])
    <3> SUFFICES ASSUME NEW j \in DOMAIN accounts
                 PROVE  /\ q[j].key \in Users /\ signedUp'[q[j].key] # <<>>
                        /\ memory[q[j].cell] = Last(signedUp'[q[j].key])
      BY <2>8
    <3>1. CASE j = i
      BY <2>7, <2>8, <2>11, <2>12, <3>1
    <3>2. CASE j # i
      <4>1. accounts[j].key # req[w].name
        BY <2>6, <2>13, <3>2
      <4> QED
        BY <2>8, <2>11, <2>13, <3>2, <4>1
    <3> QED
      BY <3>1, <3>2
  <2>16. Shared'
    <3>1. \A t \in {"csrf", "users"} : \A j \in DOMAIN tables'[t] : tables'[t][j].cell < count'
      <4>1. \A j \in DOMAIN tables["csrf"] : tables["csrf"][j].cell < count
        BY DEF Alone, Shared
      <4>2. \A j \in DOMAIN q : q[j].cell < count
        BY <2>7, <2>8, <2>12, <2>13
      <4> QED
        BY <1>1, <2>9, <4>1, <4>2
    <3>2. \A t \in {"csrf", "users"} : \A j, k \in DOMAIN tables'[t] :
             tables'[t][j].key = tables'[t][k].key => j = k
      <4>1. \A j, k \in DOMAIN tables["csrf"] : tables["csrf"][j].key = tables["csrf"][k].key => j = k
        BY DEF Alone, Shared
      <4>2. \A j, k \in DOMAIN q : q[j].key = q[k].key => j = k
        BY <2>8, <2>13, <2>14
      <4> QED
        BY <2>9, <4>1, <4>2
    <3>3. ASSUME NEW u \in Users, signedUp'[u] # <<>> PROVE \E j \in DOMAIN q : q[j].key = u
      <4>1. CASE u = req[w].name
        BY <2>6, <2>8, <2>14, <4>1
      <4>2. CASE u # req[w].name
        <5>1. PICK m \in DOMAIN accounts : accounts[m].key = u
          BY <2>11, <3>3, <4>2 DEF Alone, Shared, HasKey, accounts
        <5> QED
          BY <2>8, <2>14, <5>1
      <4> QED
        BY <4>1, <4>2
    <3>4. \A u \in Users : signedUp'[u] # <<>> => HasKey("users", u)'
      BY <2>9, <3>3 DEF HasKey
    <3>5. \A a \in answers' : Honoured(a)'
      <4> SUFFICES ASSUME NEW a \in answers PROVE Honoured(a)'
        BY <1>1
      <4>1. Honoured(a)
        BY DEF Alone, Shared
      <4> QED
        BY <1>1, <2>9, <4>1 DEF Honoured
    <3>6. \A j, k \in DOMAIN tables'["csrf"] :
             memory'[tables'["csrf"][j].cell] = memory'[tables'["csrf"][k].cell] => j = k
      <4>1. \A j, k \in DOMAIN tables["csrf"] :
               memory[tables["csrf"][j].cell] = memory[tables["csrf"][k].cell] => j = k
        BY DEF Alone, Shared
      <4>2. memory' = memory
        BY <1>1
      <4> QED
        BY <2>9, <4>1, <4>2
    <3>7. \A j \in DOMAIN tables'["users"] :
             /\ tables'["users"][j].key \in Users
             /\ signedUp'[tables'["users"][j].key] # <<>>
             /\ memory'[tables'["users"][j].cell] = Last(signedUp'[tables'["users"][j].key])
      <4>1. memory' = memory
        BY <1>1
      <4> QED
        BY <2>9, <2>15, <4>1
    <3> QED
      BY <3>1, <3>2, <3>4, <3>5, <3>6, <3>7 DEF Shared
  <2>17. \A j \in DOMAIN tables["csrf"] :
            \E k \in DOMAIN tables'["csrf"] : tables'["csrf"][k] = tables["csrf"][j]
    BY <2>9
  <2> QED
    BY <1>1, <2>10, <2>11, <2>16, <2>17, StoreUnnoticed
<1> QED
  BY <1>4, <1>5 DEF Scan, Goto

THEOREM AloneKept == Spec => [](IInv /\ (~raced => Alone))
<1>1. Init => IInv /\ (~raced => Alone)
  BY Initially, AloneInitially
<1>2. IInv /\ IInv' /\ (~raced => Alone) /\ [Next]_vars => (~raced' => Alone')
  <2> SUFFICES ASSUME IInv, IInv', ~raced => Alone, [Next]_vars, ~raced' PROVE Alone'
    OBVIOUS
  <2>1. CASE UNCHANGED vars
    <3>1. Alone /\ UNCHANGED <<pc, req, session, role, cell, link, count, memory, tables, answers, signedUp>>
      BY <2>1 DEF vars, arenaVars, historyVars
    <3> QED
      BY <3>1 DEF Alone, Single, Apart, Shared, Busy, Waiting, Honoured, HasKey, Inserting, Table, Key,
                  MaybeTokens
  <2>2. ASSUME NEW w \in Workers, Step(w) PROVE Alone'
    <3>1. ~raced
      <4>1. raced' = raced \/ raced' = (raced \/ \E v \in Workers \ {w} : Inserting(v))
        BY <2>2 DEF Step, GetToken, Answer, CsrfFilter, AuthFilter, RoleFilter, Login, Handle, Allocate,
                    Bump, Fill, Scan, Link, Publish, StartInsertion
      <4> QED
        BY <4>1 DEF IInv, Types
    <3> QED
      BY <2>2, <3>1, GetTokenAlone, AnswerAlone, CsrfFilterAlone, AuthAlone, RoleAlone, LoginAlone,
         HandleAlone, AllocateAlone, BumpAlone, FillAlone, ScanAlone, LinkAlone, PublishAlone DEF Step, IInv
  <2>3. ASSUME NEW w \in Workers, NEW r \in Requests, Begin(w, r) PROVE Alone'
    BY <2>3, BeginAlone DEF IInv, Begin
  <2> QED
    BY <2>1, <2>2, <2>3 DEF Next
<1> QED
  BY <1>1, <1>2, Invariance, PTL DEF Spec

\* As long as no two insertions overlapped, every token a client was answered is the token
\* of its session for ever after (csrf.c:13-33, 83-95).
THEOREM TokensStay == Spec => []TokensHonoured
<1>1. IInv /\ (~raced => Alone) => TokensHonoured
  <2> SUFFICES ASSUME Types, Alone, NEW a \in answers
               PROVE  Lookup("csrf", a[1]) # 0 /\ memory[Lookup("csrf", a[1])] = a[2]
    BY DEF TokensHonoured, IInv
  <2>1. PICK i \in DOMAIN tables["csrf"] :
           tables["csrf"][i].key = a[1] /\ memory[tables["csrf"][i].cell] = a[2]
    BY DEF Alone, Shared, Honoured
  <2> QED
    BY <2>1, LookupIs DEF Alone, HasKey
<1> QED
  BY <1>1, AloneKept, PTL

\* As long as no two insertions overlapped, a user is found with the role of its last
\* sign up (auth.c:57-68).
THEOREM UsersStay == Spec => []UsersKept
<1>1. IInv /\ (~raced => Alone) => UsersKept
  <2> SUFFICES ASSUME Types, Alone, NEW u \in Users, signedUp[u] # <<>>
               PROVE  Lookup("users", u) # 0 /\ memory[Lookup("users", u)] = Last(signedUp[u])
    BY DEF UsersKept, IInv
  <2>1. PICK i \in DOMAIN tables["users"] : tables["users"][i].key = u
    BY DEF Alone, Shared, HasKey
  <2>2. memory[tables["users"][i].cell] = Last(signedUp[u])
    BY <2>1 DEF Alone, Shared
  <2> QED
    BY <2>1, <2>2, LookupIs DEF Alone, HasKey
<1> QED
  BY <1>1, AloneKept, PTL

\* Behind the filters the token was answered for the session of the request, and the user
\* of a sign up was signed up as an administrator (authhandler.c:181).
THEOREM OnlyTheAdmitted == Spec => []AdmittedRightly
<1>1. IInv /\ (~raced => Alone) => AdmittedRightly
  BY DEF AdmittedRightly, Alone, Waiting
<1> QED
  BY <1>1, AloneKept, PTL
-----------------------------------------------------------------------------
(***************************************************************************)
(* For every set of pairs and users and every number of restarts: what     *)
(* becomes of the cookies when the process dies at any step of the saving  *)
(* of its key.                                                             *)
(***************************************************************************)
\* The kinds of files are told apart.
LEMMA FilesApart ==
    /\ NoFile \in Files /\ EmptyFile \in Files /\ NoFile # EmptyFile
    /\ NoFile.state # "whole" /\ EmptyFile.state # "whole"
    /\ NoFile.pair = Blank /\ EmptyFile.pair = Blank
    /\ \A k \in Pairs : /\ Whole(k) \in Files
                        /\ Whole(k).state = "whole" /\ Whole(k).pair = k
                        /\ Whole(k) # NoFile /\ Whole(k) # EmptyFile
    /\ \A f \in Files :
          \/ f = NoFile \/ f = EmptyFile
          \/ f.state = "whole" /\ f.pair \in Pairs /\ f = Whole(f.pair)
    BY DEF Files, NoFile, EmptyFile, Whole

LEMMA KeysInitially == KeysInit => KeysInv
<1> SUFFICES ASSUME KeysInit PROVE KeysInv
    OBVIOUS
<1> USE KeyStoreAssumption, FilesApart DEF KeysInit
<1>1. KeysTyped
    BY DEF KeysTyped
<1>2. PairsAccounted
    BY DEF PairsAccounted
<1>3. SavingFresh /\ FileServed
    BY DEF SavingFresh, FileServed
<1> QED
    BY <1>1, <1>2, <1>3 DEF KeysInv

\* Each step of the process, its death and the removal of the file keep the invariant.
LEMMA KeysKept == KeysInv /\ [KeysNext]_keyVars => KeysInv'
<1> SUFFICES ASSUME KeysInv, [KeysNext]_keyVars PROVE KeysInv'
    OBVIOUS
<1> USE KeyStoreAssumption, FilesApart DEF KeysInv, KeysTyped, PairsAccounted, SavingFresh,
                       FileServed, history
<1>1. CASE Start
    BY <1>1 DEF Start
<1>2. CASE Generate
    <2> PICK k \in Pairs \ used : /\ pair' = k /\ used' = used \cup {k}
                                  /\ unsaved' = unsaved \cup {k}
        BY <1>2 DEF Generate
    <2>1. /\ UNCHANGED <<file, users, admitted, issued, unread, restarts>>
          /\ main' = "save" /\ file = NoFile
        BY <1>2 DEF Generate
    <2>2. KeysTyped'
        BY <2>1
    <2>3. PairsAccounted'
        <3>1. used' \ unsaved' \subseteq used \ unsaved
            OBVIOUS
        <3>2. used \cup {Blank} \subseteq used' \cup {Blank}
            OBVIOUS
        <3> QED
            BY <2>1, <3>1, <3>2
    <2>4. SavingFresh' /\ FileServed'
        BY <2>1
    <2> QED
        BY <2>2, <2>3, <2>4
<1>3. CASE OpenToSave
    BY <1>3 DEF OpenToSave
<1>4. CASE CloseSaved
    BY <1>4 DEF CloseSaved
<1>5. CASE Load
    BY <1>5 DEF Load
<1>6. CASE LoadFails
    BY <1>6 DEF LoadFails
<1>7. CASE SignUpAdmin
    BY <1>7 DEF SignUpAdmin
<1>8. ASSUME NEW u \in Names, SignUpUser(u) PROVE KeysInv'
    BY <1>8 DEF SignUpUser
<1>9. ASSUME NEW u \in Names, LoginUser(u) PROVE KeysInv'
    <2>1. [user |-> u, pair |-> pair] \in SignedCookies
        BY DEF SignedCookies
    <2>2. pair \in used \cup {Blank}
        BY <1>9 DEF LoginUser
    <2> QED
        BY <1>9, <2>1, <2>2 DEF LoginUser
<1>10. ASSUME NEW c \in issued, CheckUserToken(c) PROVE KeysInv'
    BY <1>10 DEF CheckUserToken, SignedCookies, Admits
<1>11. CASE Die
    BY <1>11 DEF Die
<1>12. CASE RemoveFile
    <2>1. CASE file = EmptyFile
        BY <1>12, <2>1 DEF RemoveFile
    <2>2. CASE file.state = "whole" /\ file.pair \in Pairs /\ file = Whole(file.pair)
        <3>1. unsaved' = unsaved \cup {file.pair}
            BY <1>12, <2>2 DEF RemoveFile
        <3>2. used' \ unsaved' = {}
            BY <1>12, <2>2, <3>1 DEF RemoveFile
        <3> QED
            BY <1>12, <2>2, <3>1, <3>2 DEF RemoveFile
    <2> QED
        BY <1>12, <2>1, <2>2 DEF RemoveFile
<1>13. CASE UNCHANGED keyVars
    BY <1>13 DEF keyVars
<1> QED
    BY <1>1, <1>2, <1>3, <1>4, <1>5, <1>6, <1>7, <1>8, <1>9, <1>10, <1>11, <1>12, <1>13 DEF KeysNext

(***************************************************************************)
(* The invariant: every pair generated is in the file or counted as        *)
(* unsaved, and who could read the file serves with what is in it.         *)
(***************************************************************************)
THEOREM KeysAlways == KeysSpec => []KeysInv
<1>1. KeysInv /\ [KeysNext]_keyVars => KeysInv'
    BY KeysKept
<1> QED
    BY <1>1, KeysInitially, PTL DEF KeysSpec

(***************************************************************************)
(* Cookies survive a restart, unless their pair was never saved or its     *)
(* file removed (loadKeyPair, saveKeyPair, checkUserToken).                *)
(***************************************************************************)
THEOREM CookiesSurviveRestarts == KeysSpec => []CookiesSurvive
<1>1. KeysInv => CookiesSurvive
    BY KeyStoreAssumption, FilesApart
    DEF KeysInv, KeysTyped, PairsAccounted, FileServed,
        CookiesSurvive, Verifies, SignedCookies
<1> QED
    BY <1>1, KeysAlways, PTL

(***************************************************************************)
(* No process repairs an empty key file or replaces a whole one            *)
(* (loadKeyPair, saveKeyPair).                                             *)
(***************************************************************************)
THEOREM FileIsLeft == KeysSpec => FileStays
<1> DEFINE Stays == /\ file.state = "whole" => file' \in {file, NoFile}
                    /\ file = EmptyFile /\ main # "write" => file' \in {file, NoFile}
<1>1. KeysInv /\ [KeysNext]_keyVars => [Stays]_keyVars
    <2> SUFFICES ASSUME KeysInv, KeysNext PROVE Stays
        OBVIOUS
    <2> USE FilesApart DEF KeysInv, SavingFresh
    <2>1. CASE OpenToSave
        BY <2>1 DEF OpenToSave
    <2>2. CASE CloseSaved
        BY <2>2 DEF CloseSaved
    <2>3. CASE RemoveFile
        BY <2>3 DEF RemoveFile
    <2>4. CASE UNCHANGED file
        BY <2>4
    <2>5. Start \/ Generate \/ Load \/ LoadFails \/ SignUpAdmin \/ Die
             => UNCHANGED file
        BY DEF Start, Generate, Load, LoadFails, SignUpAdmin, Die
    <2>6. \/ ~\E u \in Names : SignUpUser(u) \/ LoginUser(u)
          \/ UNCHANGED file
        BY DEF SignUpUser, LoginUser
    <2>7. \/ ~\E c \in issued : CheckUserToken(c)
          \/ UNCHANGED file
        BY DEF CheckUserToken
    <2> QED
        BY <2>1, <2>2, <2>3, <2>4, <2>5, <2>6, <2>7 DEF KeysNext
<1> QED
    BY <1>1, KeysAlways, PTL DEF KeysSpec, FileStays

(***************************************************************************)
(* Chains: no key twice.                                                   *)
(***************************************************************************)
Element == [key : AnyKey, val : Values]
Chains == {c \in Seq(Element) : \A m, n \in 1..Len(c) : c[m].key = c[n].key => m = n}
In(c) == {c[n] : n \in 1..Len(c)}

\* The key of an entry of a chain is at its place and at no other.
LEMMA PlaceThere ==
  ASSUME NEW c \in Chains, NEW n \in 1..Len(c)
  PROVE  /\ H!Places(c, c[n].key) = {n}
         /\ H!Holds(c, c[n].key) /\ H!Place(c, c[n].key) = n
<1>1. DOMAIN c = 1..Len(c) /\ \A m \in 1..Len(c) : c[m].key = c[n].key => m = n
  BY DEF Chains
<1>2. H!Places(c, c[n].key) = {n}
  BY <1>1 DEF H!Places
<1>3. n <= n
  OBVIOUS
<1> QED
  BY <1>2, <1>3 DEF H!Holds, H!Place

\* A walk along a chain stops at the entry of the key it looks for.
LEMMA PlaceFound ==
  ASSUME NEW c \in Chains, NEW k, H!Holds(c, k)
  PROVE  /\ H!Place(c, k) \in 1..Len(c) /\ c[H!Place(c, k)].key = k
         /\ c[H!Place(c, k)] \in In(c)
<1>1. PICK n \in 1..Len(c) : c[n].key = k
  BY DEF H!Holds, H!Places, Chains
<1> QED
  BY <1>1, PlaceThere DEF In

\* A chain holds the keys of its entries.
LEMMA HeldIn ==
  ASSUME NEW c \in Chains, NEW k
  PROVE  H!Holds(c, k) <=> \E e \in In(c) : e.key = k
<1>1. ASSUME NEW e \in In(c), e.key = k PROVE H!Holds(c, k)
  <2>1. PICK n \in 1..Len(c) : c[n] = e
    BY DEF In
  <2> QED
    BY <1>1, <2>1, PlaceThere
<1> QED
  BY <1>1, PlaceFound

\* Two sequences joined.
LEMMA Joined ==
  ASSUME NEW S, NEW s \in Seq(S), NEW t \in Seq(S)
  PROVE  /\ s \o t \in Seq(S) /\ Len(s \o t) = Len(s) + Len(t)
         /\ \A n \in 1..(Len(s) + Len(t)) :
               (s \o t)[n] = IF n <= Len(s) THEN s[n] ELSE t[n - Len(s)]
<1>1. s \o t \in Seq(S) /\ Len(s \o t) = Len(s) + Len(t)
  OBVIOUS
<1>2. \A n \in 1..(Len(s) + Len(t)) : (s \o t)[n] = IF n <= Len(s) THEN s[n] ELSE t[n - Len(s)]
  OBVIOUS
<1> QED
  BY <1>1, <1>2

\* A chain with an entry of a new key in front of it.
LEMMA Fronted ==
  ASSUME NEW c \in Chains, NEW e \in Element, ~H!Holds(c, e.key)
  PROVE  <<e>> \o c \in Chains /\ In(<<e>> \o c) = In(c) \cup {e}
<1> DEFINE d == <<e>> \o c
<1>1. c \in Seq(Element) /\ Len(c) \in Nat
  BY DEF Chains
<1>2. d \in Seq(Element) /\ Len(d) = Len(c) + 1 /\ d[1] = e /\ \A n \in 2..Len(d) : d[n] = c[n - 1]
  BY <1>1
<1> HIDE DEF d
<1>3. \A n \in 1..Len(c) : c[n].key # e.key
  BY PlaceThere
<1>4. \A n \in 1..Len(d) : n = 1 \/ (n \in 2..Len(d) /\ n - 1 \in 1..Len(c))
  BY <1>1, <1>2
<1>5. ASSUME NEW m \in 1..Len(d), NEW n \in 1..Len(d), d[m].key = d[n].key PROVE m = n
  <2>1. CASE m = 1 /\ n # 1
    BY <1>2, <1>3, <1>4, <1>5, <2>1
  <2>2. CASE m # 1 /\ n = 1
    BY <1>2, <1>3, <1>4, <1>5, <2>2
  <2>3. CASE m # 1 /\ n # 1
    <3>1. m - 1 \in 1..Len(c) /\ n - 1 \in 1..Len(c) /\ d[m] = c[m - 1] /\ d[n] = c[n - 1]
      BY <1>2, <1>4, <2>3
    <3>2. m - 1 = n - 1
      BY <1>5, <3>1 DEF Chains
    <3> QED
      BY <3>2
  <2> QED
    BY <2>1, <2>2, <2>3
<1>6. d \in Chains
  BY <1>2, <1>5 DEF Chains
<1>7. In(d) \subseteq In(c) \cup {e}
  BY <1>2, <1>4 DEF In
<1>8. ASSUME NEW n \in 1..Len(c) PROVE c[n] \in In(d)
  <2>1. n + 1 \in 2..Len(d) /\ n + 1 \in 1..Len(d) /\ (n + 1) - 1 = n
    BY <1>1, <1>2
  <2>2. d[n + 1] = c[n]
    BY <1>2, <2>1
  <2> QED
    BY <2>1, <2>2 DEF In
<1>9. e \in In(d)
  <2>1. 1 \in 1..Len(d)
    BY <1>1, <1>2
  <2> QED
    BY <1>2, <2>1 DEF In
<1> QED
  BY <1>6, <1>7, <1>8, <1>9 DEF In, d

\* A chain with another value in one of its entries.
LEMMA Changed ==
  ASSUME NEW c \in Chains, NEW p \in 1..Len(c), NEW v \in Values
  PROVE  LET d == [c EXCEPT ![p].val = v] IN
         /\ d \in Chains /\ Len(d) = Len(c)
         /\ \A n \in 1..Len(c) : d[n].key = c[n].key
         /\ In(d) = (In(c) \ {c[p]}) \cup {[key |-> c[p].key, val |-> v]}
<1> DEFINE d == [c EXCEPT ![p].val = v]
           e == [key |-> c[p].key, val |-> v]
<1>1. c \in Seq(Element) /\ Len(c) \in Nat /\ DOMAIN c = 1..Len(c)
  BY DEF Chains
<1>2. c[p] \in Element
  BY <1>1
<1>3. [c[p] EXCEPT !.val = v] = e
  BY <1>2 DEF Element
<1>4. e \in Element /\ e.key = c[p].key
  BY <1>2 DEF Element
<1>5. d = [c EXCEPT ![p] = e]
  BY <1>3
<1> HIDE DEF d, e
<1>6. d \in Seq(Element) /\ Len(d) = Len(c) /\ d[p] = e /\ \A n \in 1..Len(c) : n # p => d[n] = c[n]
  BY <1>1, <1>4, <1>5
<1>7. \A n \in 1..Len(c) : d[n].key = c[n].key
  BY <1>4, <1>6
<1>8. d \in Chains
  BY <1>6, <1>7 DEF Chains
<1>9. \A n \in 1..Len(c) : n # p => c[n] # c[p]
  BY DEF Chains
<1>10. In(d) = (In(c) \ {c[p]}) \cup {e}
  <2>1. In(d) \subseteq (In(c) \ {c[p]}) \cup {e}
    BY <1>6, <1>9 DEF In
  <2>2. ASSUME NEW f \in In(c), f # c[p] PROVE f \in In(d)
    <3>1. PICK n \in 1..Len(c) : f = c[n]
      BY DEF In
    <3> QED
      BY <1>6, <2>2, <3>1 DEF In
  <2>3. e \in In(d)
    BY <1>6 DEF In
  <2> QED
    BY <2>1, <2>2, <2>3
<1> QED
  BY <1>6, <1>7, <1>8, <1>10 DEF d, e

\* A chain without one of its entries: what was behind it moves up.
LEMMA CutOut ==
  ASSUME NEW c \in Chains, NEW p \in 1..Len(c)
  PROVE  LET d == H!Seqs!RemoveAt(c, p) IN
         /\ d \in Chains /\ In(d) = In(c) \ {c[p]} /\ Len(d) = Len(c) - 1
         /\ \A n \in 1..(Len(c) - 1) : d[n] = c[IF n < p THEN n ELSE n + 1]
<1> DEFINE d == H!Seqs!RemoveAt(c, p)
<1>1. c \in Seq(Element) /\ Len(c) \in Nat
  BY DEF Chains
<1> DEFINE before == SubSeq(c, 1, p - 1)
           after  == SubSeq(c, p + 1, Len(c))
<1>2. d = before \o after
  BY DEF H!Seqs!RemoveAt
<1>3. before \in Seq(Element) /\ Len(before) = p - 1 /\ \A n \in 1..(p - 1) : before[n] = c[n]
  BY <1>1
<1>4. /\ after \in Seq(Element) /\ Len(after) = Len(c) - p
      /\ \A n \in 1..(Len(c) - p) : after[n] = c[n + p]
  BY <1>1
<1> HIDE DEF d, before, after
<1>5. /\ d \in Seq(Element) /\ Len(d) = Len(c) - 1
      /\ \A n \in 1..Len(d) : d[n] = IF n <= p - 1 THEN before[n] ELSE after[n - (p - 1)]
  <2>1. /\ d \in Seq(Element) /\ Len(d) = Len(before) + Len(after)
        /\ \A n \in 1..(Len(before) + Len(after)) :
              d[n] = IF n <= Len(before) THEN before[n] ELSE after[n - Len(before)]
    BY <1>2, <1>3, <1>4, Joined
  <2>2. Len(before) + Len(after) = Len(c) - 1
    BY <1>1, <1>3, <1>4
  <2> QED
    BY <1>3, <2>1, <2>2
<1>6. ASSUME NEW n \in 1..(Len(c) - 1) PROVE d[n] = c[IF n < p THEN n ELSE n + 1]
  <2>1. CASE n < p
    <3>1. n \in 1..(p - 1) /\ n <= p - 1
      BY <1>1, <2>1
    <3>2. d[n] = before[n] /\ before[n] = c[n]
      BY <1>1, <1>3, <1>5, <3>1
    <3> QED
      BY <2>1, <3>2
  <2>2. CASE n >= p
    <3>1. n - (p - 1) \in 1..(Len(c) - p) /\ n - (p - 1) + p = n + 1
      BY <1>1, <2>2
    <3>2. n \in 1..Len(d) /\ ~(n <= p - 1)
      BY <1>1, <1>5, <2>2
    <3>3. d[n] = after[n - (p - 1)]
      BY <1>5, <3>2
    <3> QED
      BY <1>4, <2>2, <3>1, <3>3
  <2> QED
    BY <1>1, <2>1, <2>2
<1>7. ASSUME NEW m \in 1..Len(d), NEW n \in 1..Len(d), d[m].key = d[n].key PROVE m = n
  <2> DEFINE Lies(i) == IF i < p THEN i ELSE i + 1
  <2>1. Lies(m) \in 1..Len(c) /\ Lies(n) \in 1..Len(c) /\ d[m] = c[Lies(m)] /\ d[n] = c[Lies(n)]
    <3>1. m \in 1..(Len(c) - 1) /\ n \in 1..(Len(c) - 1)
      BY <1>5
    <3> QED
      BY <1>1, <1>6, <3>1
  <2>2. Lies(m) = Lies(n)
    BY <1>7, <2>1 DEF Chains
  <2> QED
    BY <1>1, <1>5, <2>2
<1>8. d \in Chains
  BY <1>5, <1>7 DEF Chains
<1>9. In(d) \subseteq In(c) \ {c[p]}
  <2>1. ASSUME NEW n \in 1..Len(d) PROVE d[n] \in In(c) \ {c[p]}
    <3> DEFINE q == IF n < p THEN n ELSE n + 1
    <3>1. q \in 1..Len(c) /\ q # p /\ d[n] = c[q]
      BY <1>1, <1>5, <1>6
    <3> HIDE DEF q
    <3> QED
      BY <3>1 DEF In, Chains
  <2> QED
    BY <2>1 DEF In
<1>10. ASSUME NEW n \in 1..Len(c), n # p PROVE c[n] \in In(d)
  <2> DEFINE q == IF n < p THEN n ELSE n - 1
  <2>1. q \in 1..(Len(c) - 1) /\ (IF q < p THEN q ELSE q + 1) = n
    BY <1>1, <1>10
  <2>2. d[q] = c[n]
    BY <1>6, <2>1
  <2> HIDE DEF q
  <2> QED
    BY <1>5, <2>1, <2>2 DEF In
<1>11. In(d) = In(c) \ {c[p]}
  BY <1>9, <1>10 DEF In
<1> QED
  BY <1>5, <1>6, <1>8, <1>11 DEF d

\* A chain moved: its entries of the new bucket, in another order.
LEMMA MovedRight ==
  ASSUME NEW c \in Chains, NEW to, NEW b
  PROVE  /\ H!MovedTo(c, to, b) \in Chains
         /\ In(H!MovedTo(c, to, b)) = {e \in In(c) : H!Index(to, e.key) = b}
<1> DEFINE L == Len(c)
           Here(n) == H!Index(to, c[n].key) = b
           Next1(n, s) == IF Here(n) THEN <<c[n]>> \o s ELSE s
           step == [i \in Nat |-> [s \in Seq(Element) |-> IF i + 1 \in 1..L THEN Next1(i + 1, s) ELSE s]]
           Is(f) == f = [n \in 0..L |-> IF n = 0 THEN <<>> ELSE Next1(n, f[n - 1])]
           moved == CHOOSE f : Is(f)
<1>1. c \in Seq(Element) /\ L \in Nat /\ <<>> \in Seq(Element)
  BY DEF Chains
<1>2. step \in [Nat -> [Seq(Element) -> Seq(Element)]]
  <2>1. ASSUME NEW i \in Nat, NEW s \in Seq(Element)
        PROVE  (IF i + 1 \in 1..L THEN Next1(i + 1, s) ELSE s) \in Seq(Element)
    <3>1. CASE i + 1 \in 1..L
      <4>1. <<c[i + 1]>> \in Seq(Element)
        BY <1>1, <3>1
      <4> HIDE DEF Here
      <4> QED
        BY <3>1, <4>1
    <3> QED
      BY <3>1
  <2> QED
    BY <2>1
<1>3. \A i \in Nat, s \in Seq(Element) : i < L => step[i][s] = Next1(i + 1, s)
  BY <1>1
<1> HIDE DEF step, Next1
<1>4. Is(moved)
  <2>1. PICK f \in [0..L -> Seq(Element)] : Steps(f, L, <<>>, step)
    BY <1>1, <1>2, StepsExist
  <2>2. f[0] = <<>> /\ \A n \in 1..L : f[n] = Next1(n, f[n - 1])
    <3>1. f[0] = <<>>
      BY <2>1 DEF Steps
    <3>2. ASSUME NEW n \in 1..L PROVE f[n] = Next1(n, f[n - 1])
      <4>1. n - 1 \in Nat /\ n - 1 \in 0..(L - 1) /\ n - 1 \in 0..L /\ n - 1 < L /\ (n - 1) + 1 = n
        BY <1>1
      <4>2. f[n] = step[n - 1][f[n - 1]]
        BY <2>1, <4>1 DEF Steps
      <4> QED
        BY <1>3, <4>1, <4>2
    <3> QED
      BY <3>1, <3>2
  <2>3. Is(f)
    <3>1. \A n \in 0..L : n # 0 => n \in 1..L
      BY <1>1
    <3> QED
      BY <2>2, <3>1
  <2> HIDE DEF Is
  <2> QED
    BY <2>3
<1>5. H!MovedTo(c, to, b) = moved[L]
  BY DEF H!MovedTo, Next1, Here
<1> HIDE DEF moved
<1> DEFINE Upto(n) == {c[m] : m \in {j \in 1..n : Here(j)}}
           T == {n \in Nat : n <= L => moved[n] \in Chains /\ In(moved[n]) = Upto(n)}
<1>6. 0 \in T
  <2>1. moved[0] = <<>>
    BY <1>1, <1>4
  <2>2. <<>> \in Chains /\ In(<<>>) = {} /\ Upto(0) = {}
    BY DEF Chains, In
  <2> QED
    BY <2>1, <2>2
<1>7. ASSUME NEW n \in Nat, n \in T PROVE n + 1 \in T
  <2> SUFFICES ASSUME n + 1 <= L
               PROVE  moved[n + 1] \in Chains /\ In(moved[n + 1]) = Upto(n + 1)
    OBVIOUS
  <2>1. n + 1 \in 0..L /\ n + 1 \in 1..L /\ n + 1 # 0 /\ (n + 1) - 1 = n /\ n <= L
    BY <1>1
  <2>2. moved[n + 1] = Next1(n + 1, moved[n])
    BY <1>4, <2>1
  <2>3. moved[n] \in Chains /\ In(moved[n]) = Upto(n)
    BY <1>7, <2>1
  <2>4. CASE Here(n + 1)
    <3>1. moved[n + 1] = <<c[n + 1]>> \o moved[n]
      BY <2>2, <2>4 DEF Next1
    <3>2. c[n + 1] \in Element
      BY <1>1, <2>1
    <3>3. ~H!Holds(moved[n], c[n + 1].key)
      <4>1. ASSUME NEW j \in 1..n PROVE c[j].key # c[n + 1].key
        BY <2>1 DEF Chains
      <4>2. \A e \in Upto(n) : e.key # c[n + 1].key
        BY <4>1
      <4> QED
        BY <2>3, <4>2, HeldIn
    <3>4. Upto(n + 1) = Upto(n) \cup {c[n + 1]}
      <4>1. {j \in 1..(n + 1) : Here(j)} = {j \in 1..n : Here(j)} \cup {n + 1}
        <5>1. 1..(n + 1) = 1..n \cup {n + 1}
          OBVIOUS
        <5> HIDE DEF Here
        <5> QED
          BY <2>4, <5>1
      <4> HIDE DEF Here
      <4> QED
        BY <4>1
    <3> HIDE DEF Upto
    <3> QED
      BY <2>3, <3>1, <3>2, <3>3, <3>4, Fronted
  <2>5. CASE ~Here(n + 1)
    <3>1. moved[n + 1] = moved[n]
      BY <2>2, <2>5 DEF Next1
    <3>2. {j \in 1..(n + 1) : Here(j)} = {j \in 1..n : Here(j)}
      <4>1. 1..(n + 1) = 1..n \cup {n + 1}
        OBVIOUS
      <4> HIDE DEF Here
      <4> QED
        BY <2>5, <4>1
    <3> QED
      BY <2>3, <3>1, <3>2
  <2> QED
    BY <2>4, <2>5
<1>8. moved[L] \in Chains /\ In(moved[L]) = Upto(L)
  <2> HIDE DEF T
  <2>1. L \in T
    BY <1>1, <1>6, <1>7, Induction
  <2> HIDE DEF L, Upto
  <2> QED
    BY <1>1, <2>1 DEF T
<1>9. Upto(L) = {e \in In(c) : H!Index(to, e.key) = b}
  BY DEF In
<1> QED
  BY <1>5, <1>8, <1>9

-----------------------------------------------------------------------------
(***************************************************************************)
(* Tables: each entry in the bucket of its key.                            *)
(***************************************************************************)
All(t) == UNION {In(t.buckets[i]) : i \in 0..(t.cap - 1)}

Shaped(t) ==
    /\ t \in [buckets : [0..(t.cap - 1) -> Chains], size : Nat, cap : Nat \ {0}, threshold : Nat]
    /\ \A i \in 0..(t.cap - 1) : \A e \in In(t.buckets[i]) : H!Index(t.cap, e.key) = i

Counted(t) ==
    /\ IsFiniteSet(All(t)) /\ t.size = Cardinality(All(t))
    /\ t.threshold = H!Threshold(t.cap) /\ t.size <= t.threshold

\* A key has a bucket.
LEMMA IndexType ==
  ASSUME NEW cap \in Nat \ {0}, NEW k \in AnyKey
  PROVE  H!Index(cap, k) \in 0..(cap - 1)
<1>1. Hash[k] \in Nat
  BY TablesAssumption DEF AnyKey
<1> QED
  BY <1>1, Division DEF H!Index

\* A table of twice the buckets sends a key to a bucket fed by the one it was in.
LEMMA IndexDoubled ==
  ASSUME NEW cap \in Nat \ {0}, NEW k \in AnyKey
  PROVE  H!Index(2 * cap, k) % cap = H!Index(cap, k)
<1> DEFINE h == Hash[k]
           q == h \div (2 * cap)
           r == h % (2 * cap)
           p == r \div cap
           s == r % cap
<1>1. h \in Nat
  BY TablesAssumption DEF AnyKey
<1>2. q \in Nat /\ r \in Nat /\ h = (2 * cap) * q + r
  <2> DEFINE two == 2 * cap
  <2>1. two \in Nat \ {0}
    OBVIOUS
  <2> HIDE DEF h, two
  <2>2. h \div two \in Nat /\ h % two \in 0..(two - 1) /\ h = two * (h \div two) + (h % two)
    BY <1>1, <2>1, Division
  <2>3. h % two \in Nat
    BY <2>1, <2>2
  <2> QED
    BY <2>2, <2>3 DEF two
<1>3. p \in Nat /\ s \in 0..(cap - 1) /\ r = cap * p + s
  BY <1>2, Division
<1>4. h \div cap \in Nat /\ h % cap \in 0..(cap - 1) /\ h = cap * (h \div cap) + (h % cap)
  BY <1>1, Division
<1> DEFINE a == h \div cap
           b == h % cap
<1>5. b = s
  <2> HIDE DEF h, q, r, p, s, a, b
  <2>1. 2 * q + p \in Nat /\ h = cap * (2 * q + p) + s
    BY <1>2, <1>3
  <2>2. a \in Nat /\ b \in 0..(cap - 1) /\ h = cap * a + b
    BY <1>4 DEF a, b
  <2> DEFINE z == 2 * q + p
  <2>3. z \in Nat /\ cap * z + s = cap * a + b
    BY <2>1, <2>2
  <2> HIDE DEF z
  <2>4. z = a /\ s = b
    BY <1>3, <2>2, <2>3, QuotientUnique
  <2> QED
    BY <2>4
<1> QED
  BY <1>5 DEF H!Index

\* A key has a chain.
LEMMA ChainType ==
  ASSUME NEW t, Shaped(t), NEW k \in AnyKey
  PROVE  H!Index(t.cap, k) \in 0..(t.cap - 1) /\ H!Chain(t, k) \in Chains
  BY IndexType DEF Shaped, H!Chain

\* What is in the table is in the chain of its key, and in no other.
LEMMA AllChained ==
  ASSUME NEW t, Shaped(t), NEW e
  PROVE  e \in All(t) <=> e \in Element /\ e \in In(H!Chain(t, e.key))
<1>1. ASSUME e \in All(t) PROVE e \in Element /\ e \in In(H!Chain(t, e.key))
  <2>1. PICK i \in 0..(t.cap - 1) : e \in In(t.buckets[i])
    BY <1>1 DEF All
  <2>2. H!Index(t.cap, e.key) = i /\ t.buckets[i] \in Chains
    BY <2>1 DEF Shaped
  <2>3. e \in Element
    BY <2>1, <2>2 DEF In, Chains
  <2> QED
    BY <2>1, <2>2, <2>3 DEF H!Chain
<1>2. ASSUME e \in Element, e \in In(H!Chain(t, e.key)) PROVE e \in All(t)
  <2>1. e.key \in AnyKey
    BY <1>2 DEF Element
  <2> QED
    BY <1>2, <2>1, ChainType DEF All, H!Chain
<1> QED
  BY <1>1, <1>2

Functional(A) == \A e, f \in A : e.key = f.key => e = f

\* No key is in a table twice: its entries make a function.
LEMMA AllFunctional ==
  ASSUME NEW t, Shaped(t)
  PROVE  All(t) \subseteq Element /\ Functional(All(t))
<1>1. All(t) \subseteq Element
  BY AllChained
<1>2. ASSUME NEW e \in All(t), NEW f \in All(t), e.key = f.key PROVE e = f
  <2> DEFINE c == H!Chain(t, e.key)
  <2>1. e \in In(c) /\ f \in In(c) /\ c \in Chains
    BY <1>1, <1>2, AllChained, ChainType DEF Element
  <2> HIDE DEF c
  <2>2. PICK m \in 1..Len(c), n \in 1..Len(c) : e = c[m] /\ f = c[n]
    BY <2>1 DEF In
  <2> QED
    BY <1>2, <2>1, <2>2 DEF Chains
<1> QED
  BY <1>1, <1>2 DEF Functional

\* A key is looked up in its chain.
LEMMA LookedUp ==
  ASSUME NEW t, Shaped(t), NEW k \in AnyKey
  PROVE  LET c == H!Chain(t, k) IN
         /\ H!Holds(c, k) <=> \E e \in All(t) : e.key = k
         /\ H!Holds(c, k) => /\ H!Place(c, k) \in 1..Len(c)
                             /\ c[H!Place(c, k)] \in All(t) /\ c[H!Place(c, k)].key = k
<1> DEFINE c == H!Chain(t, k)
<1>1. c \in Chains
  BY ChainType
<1>2. ASSUME NEW e \in All(t), e.key = k PROVE e \in In(c)
  BY <1>2, AllChained
<1>3. ASSUME H!Holds(c, k)
      PROVE  /\ H!Place(c, k) \in 1..Len(c)
             /\ c[H!Place(c, k)] \in All(t) /\ c[H!Place(c, k)].key = k
  <2> DEFINE e == c[H!Place(c, k)]
  <2>1. H!Place(c, k) \in 1..Len(c) /\ e.key = k /\ e \in In(c)
    BY <1>1, <1>3, PlaceFound
  <2>2. e \in Element
    BY <1>1, <2>1 DEF Chains
  <2> QED
    BY <2>1, <2>2, AllChained
<1> QED
  BY <1>1, <1>2, <1>3, HeldIn

\* One bucket replaced.
WithBucket(t, i, d, n) ==
    [buckets |-> [t.buckets EXCEPT ![i] = d], size |-> n, cap |-> t.cap, threshold |-> t.threshold]

\* A table with another chain in one bucket, of entries that belong there.
LEMMA BucketReplaced ==
  ASSUME NEW t, Shaped(t), NEW i \in 0..(t.cap - 1), NEW n \in Nat,
         NEW d \in Chains, \A e \in In(d) : H!Index(t.cap, e.key) = i
  PROVE  LET u == WithBucket(t, i, d, n) IN
         /\ Shaped(u) /\ All(u) = (All(t) \ In(t.buckets[i])) \cup In(d)
<1> DEFINE u == WithBucket(t, i, d, n)
<1>1. /\ u.cap = t.cap /\ u.size = n /\ u.threshold = t.threshold
      /\ u.buckets = [t.buckets EXCEPT ![i] = d]
      /\ u = [buckets |-> u.buckets, size |-> u.size, cap |-> u.cap, threshold |-> u.threshold]
  BY DEF WithBucket
<1> HIDE DEF u
<1>2. /\ t.buckets \in [0..(t.cap - 1) -> Chains] /\ t.cap \in Nat \ {0} /\ t.threshold \in Nat
      /\ \A j \in 0..(t.cap - 1) : \A e \in In(t.buckets[j]) : H!Index(t.cap, e.key) = j
  BY DEF Shaped
<1>3. u.buckets \in [0..(t.cap - 1) -> Chains]
  BY <1>1, <1>2
<1>4. \A j \in 0..(t.cap - 1) : u.buckets[j] = IF j = i THEN d ELSE t.buckets[j]
  BY <1>1, <1>2
<1>5. Shaped(u)
  <2>1. u \in [buckets : [0..(u.cap - 1) -> Chains], size : Nat, cap : Nat \ {0}, threshold : Nat]
    BY <1>1, <1>2, <1>3
  <2>2. \A j \in 0..(u.cap - 1) : \A e \in In(u.buckets[j]) : H!Index(u.cap, e.key) = j
    BY <1>1, <1>2, <1>4
  <2> QED
    BY <2>1, <2>2 DEF Shaped
<1>6. \A j \in 0..(t.cap - 1) : j # i => In(t.buckets[j]) \cap In(t.buckets[i]) = {}
  BY <1>2
<1>7. All(u) = (All(t) \ In(t.buckets[i])) \cup In(d)
  <2>1. All(u) \subseteq (All(t) \ In(t.buckets[i])) \cup In(d)
    BY <1>1, <1>4, <1>6 DEF All
  <2>2. ASSUME NEW e \in All(t), e \notin In(t.buckets[i]) PROVE e \in All(u)
    <3>1. PICK j \in 0..(t.cap - 1) : e \in In(t.buckets[j])
      BY DEF All
    <3> QED
      BY <1>1, <1>4, <2>2, <3>1 DEF All
  <2>3. In(d) \subseteq All(u)
    BY <1>1, <1>4 DEF All
  <2> QED
    BY <2>1, <2>2, <2>3
<1> QED
  BY <1>5, <1>7 DEF u

(***************************************************************************)
(* What is in the table after each operation on it.                        *)
(***************************************************************************)
AllBut(t, k) == {e \in All(t) : e.key # k}
Pair(k, v) == [key |-> k, val |-> v]

\* The same keys in the same places of the same buckets.
SameKeys(t, u) ==
    /\ u.cap = t.cap
    /\ \A i \in 0..(t.cap - 1) :
          /\ Len(u.buckets[i]) = Len(t.buckets[i])
          /\ \A n \in 1..Len(t.buckets[i]) : u.buckets[i][n].key = t.buckets[i][n].key

\* A value put in the place of another.
Replaced(t, k, v, r) ==
    /\ r.stat = "OK" /\ Shaped(r.table) /\ All(r.table) = AllBut(t, k) \cup {Pair(k, v)}
    /\ r.table.size = t.size /\ r.table.threshold = t.threshold /\ SameKeys(t, r.table)

\* What the walk of cc_hashtable_add leaves when it finds the key.
LEMMA PutFound ==
  ASSUME NEW t, Shaped(t), NEW k \in AnyKey, NEW v \in Values, NEW alloc,
         H!Holds(H!Chain(t, k), k)
  PROVE  Replaced(t, k, v, H!Put(t, k, v, alloc))
<1> DEFINE i == H!Index(t.cap, k)
           c == t.buckets[i]
           p == H!Place(c, k)
           d == [c EXCEPT ![p].val = v]
           r == H!Put(t, k, v, alloc)
           u == r.table
<1>1. i \in 0..(t.cap - 1) /\ c \in Chains
  BY ChainType DEF H!Chain
<1>2. p \in 1..Len(c) /\ c[p] \in All(t) /\ c[p].key = k
  BY LookedUp DEF H!Chain
<1>3. t \in [buckets : [0..(t.cap - 1) -> Chains], size : Nat, cap : Nat \ {0}, threshold : Nat]
  BY DEF Shaped
<1>4. u = [t EXCEPT !.buckets[i][p].val = v] /\ r.stat = "OK"
  BY DEF H!Put, H!Done, H!Chain
<1>5. u = WithBucket(t, i, d, t.size)
  <2> HIDE DEF u, i, c, p
  <2>1. u = [t EXCEPT !.buckets = [t.buckets EXCEPT ![i] = [t.buckets[i] EXCEPT ![p].val = v]]]
    BY <1>4
  <2>2. u = [buckets |-> [t.buckets EXCEPT ![i] = d], size |-> t.size, cap |-> t.cap, threshold |-> t.threshold]
    BY <1>3, <2>1 DEF c
  <2> QED
    BY <2>2 DEF WithBucket
<1> HIDE DEF p, u
<1>6. /\ d \in Chains /\ Len(d) = Len(c)
      /\ \A n \in 1..Len(c) : d[n].key = c[n].key
      /\ In(d) = (In(c) \ {c[p]}) \cup {Pair(k, v)}
  <2> HIDE DEF c
  <2>1. c \in Chains /\ p \in 1..Len(c) /\ c[p].key = k
    BY <1>1, <1>2
  <2>2. /\ d \in Chains /\ Len(d) = Len(c)
        /\ In(d) = (In(c) \ {c[p]}) \cup {[key |-> c[p].key, val |-> v]}
    BY <2>1, Changed
  <2>3. \A n \in 1..Len(c) : d[n].key = c[n].key
    BY <2>1, Changed
  <2> QED
    BY <2>1, <2>2, <2>3 DEF Pair
<1> HIDE DEF d
<1>7. In(c) \subseteq All(t) /\ \A e \in In(c) : H!Index(t.cap, e.key) = i
  BY <1>1 DEF All, Shaped
<1>8. \A e \in In(d) : H!Index(t.cap, e.key) = i
  BY <1>6, <1>7 DEF Pair
<1>9. Shaped(u) /\ All(u) = (All(t) \ In(c)) \cup In(d)
  BY <1>1, <1>3, <1>5, <1>6, <1>8, BucketReplaced
<1>10. All(u) = AllBut(t, k) \cup {Pair(k, v)}
  <2>1. \A e \in All(t) : e.key = k <=> e = c[p]
    BY <1>2, AllFunctional DEF Functional
  <2>2. c[p] \in In(c)
    BY <1>2 DEF In
  <2> QED
    BY <1>6, <1>7, <1>9, <2>1, <2>2 DEF AllBut
<1>11. u.cap = t.cap /\ u.size = t.size /\ u.threshold = t.threshold
  BY <1>5 DEF WithBucket
<1>12. \A j \in 0..(t.cap - 1) : u.buckets[j] = IF j = i THEN d ELSE t.buckets[j]
  <2>1. u.buckets = [t.buckets EXCEPT ![i] = d] /\ t.buckets \in [0..(t.cap - 1) -> Chains]
    BY <1>3, <1>5 DEF WithBucket
  <2> QED
    BY <2>1
<1>13. ASSUME NEW j \in 0..(t.cap - 1)
       PROVE  /\ Len(u.buckets[j]) = Len(t.buckets[j])
              /\ \A n \in 1..Len(t.buckets[j]) : u.buckets[j][n].key = t.buckets[j][n].key
  BY <1>6, <1>12
<1> QED
  BY <1>4, <1>9, <1>10, <1>11, <1>13 DEF u, Replaced, SameKeys

\* A new entry put in front of its chain.
Entered(t, k, v, r) ==
    /\ r.stat = "OK" /\ Shaped(r.table) /\ All(r.table) = All(t) \cup {Pair(k, v)}
    /\ r.table.cap = t.cap /\ r.table.size = t.size + 1 /\ r.table.threshold = t.threshold

\* What it leaves when it does not.
LEMMA PutNew ==
  ASSUME NEW t, Shaped(t), NEW k \in AnyKey, NEW v \in Values, NEW alloc \in BOOLEAN, alloc,
         ~H!Holds(H!Chain(t, k), k)
  PROVE  Entered(t, k, v, H!Put(t, k, v, alloc))
<1> DEFINE i == H!Index(t.cap, k)
           c == t.buckets[i]
           d == <<Pair(k, v)>> \o c
           r == H!Put(t, k, v, alloc)
           u == r.table
<1>1. i \in 0..(t.cap - 1) /\ c \in Chains
  BY ChainType DEF H!Chain
<1>2. t \in [buckets : [0..(t.cap - 1) -> Chains], size : Nat, cap : Nat \ {0}, threshold : Nat]
  BY DEF Shaped
<1>3. u = [t EXCEPT !.buckets[i] = d, !.size = @ + 1] /\ r.stat = "OK"
  BY DEF H!Put, H!Done, H!Chain, Pair
<1> HIDE DEF u, i
<1>4. u = WithBucket(t, i, d, t.size + 1)
  <2> HIDE DEF d
  <2> QED
    BY <1>2, <1>3 DEF WithBucket
<1>5. d \in Chains /\ In(d) = In(c) \cup {Pair(k, v)}
  <2>1. Pair(k, v) \in Element /\ Pair(k, v).key = k
    BY DEF Pair, Element
  <2>2. ~H!Holds(c, k)
    BY DEF H!Chain, i
  <2> HIDE DEF c
  <2> QED
    BY <1>1, <2>1, <2>2, Fronted
<1> HIDE DEF d
<1>6. In(c) \subseteq All(t) /\ \A e \in In(c) : H!Index(t.cap, e.key) = i
  BY <1>1 DEF All, Shaped
<1>7. \A e \in In(d) : H!Index(t.cap, e.key) = i
  BY <1>5, <1>6 DEF Pair, i
<1>8. t.size + 1 \in Nat
  BY <1>2
<1>9. Shaped(u) /\ All(u) = (All(t) \ In(c)) \cup In(d)
  BY <1>1, <1>4, <1>5, <1>7, <1>8, BucketReplaced
<1>10. All(u) = All(t) \cup {Pair(k, v)}
  BY <1>5, <1>6, <1>9
<1> QED
  BY <1>3, <1>4, <1>9, <1>10 DEF u, WithBucket, Entered

\* What cc_hashtable_remove leaves when it finds the key.
LEMMA RemoveFound ==
  ASSUME NEW t, Shaped(t), t.size # 0, NEW k \in AnyKey, H!Holds(H!Chain(t, k), k)
  PROVE  LET c == H!Chain(t, k)
             p == H!Place(c, k)
             r == H!Remove(t, k)
             u == r.table
         IN  /\ r.stat = "OK" /\ Shaped(u) /\ All(u) = AllBut(t, k)
             /\ Pair(k, r.out) \in All(t)
             /\ u = WithBucket(t, H!Index(t.cap, k), H!Seqs!RemoveAt(c, p), t.size - 1)
<1> DEFINE i == H!Index(t.cap, k)
           c == t.buckets[i]
           p == H!Place(c, k)
           d == H!Seqs!RemoveAt(c, p)
           r == H!Remove(t, k)
           u == r.table
<1>1. i \in 0..(t.cap - 1) /\ c \in Chains /\ c = H!Chain(t, k)
  BY ChainType DEF H!Chain
<1>2. p \in 1..Len(c) /\ c[p] \in All(t) /\ c[p].key = k
  BY LookedUp DEF H!Chain
<1>3. t \in [buckets : [0..(t.cap - 1) -> Chains], size : Nat, cap : Nat \ {0}, threshold : Nat]
  BY DEF Shaped
<1>4. u = [t EXCEPT !.buckets[i] = H!Seqs!RemoveAt(@, p), !.size = @ - 1] /\ r.stat = "OK" /\ r.out = c[p].val
  BY DEF H!Remove, H!DoneWith, H!Chain
<1> HIDE DEF u, i, p, r
<1>5. u = WithBucket(t, i, d, t.size - 1)
  <2>1. u = [t EXCEPT !.buckets[i] = d, !.size = @ - 1]
    BY <1>4
  <2> HIDE DEF d
  <2> QED
    BY <1>3, <2>1 DEF WithBucket
<1>6. d \in Chains /\ In(d) = In(c) \ {c[p]}
  <2> HIDE DEF c
  <2> QED
    BY <1>1, <1>2, CutOut
<1>7. In(c) \subseteq All(t) /\ \A e \in In(c) : H!Index(t.cap, e.key) = i
  BY <1>1 DEF All, Shaped
<1>8. t.size - 1 \in Nat
  BY <1>3
<1> HIDE DEF d
<1>9. Shaped(u) /\ All(u) = (All(t) \ In(c)) \cup In(d)
  BY <1>1, <1>5, <1>6, <1>7, <1>8, BucketReplaced
<1>10. All(u) = AllBut(t, k)
  <2>1. \A e \in All(t) : e.key = k <=> e = c[p]
    BY <1>2, AllFunctional DEF Functional
  <2> QED
    BY <1>2, <1>6, <1>7, <1>9, <2>1 DEF AllBut, In
<1>11. Pair(k, r.out) \in All(t)
  <2>1. c[p] \in Element
    BY <1>2, AllFunctional
  <2>2. c[p] = Pair(k, c[p].val)
    BY <1>2, <2>1 DEF Element, Pair
  <2> QED
    BY <1>2, <1>4, <2>2
<1> QED
  BY <1>1, <1>4, <1>5, <1>9, <1>10, <1>11 DEF u, p, r, d, i

\* Growing moves every entry to the bucket of its key.
Doubled(t) ==
    [t EXCEPT !.buckets = H!MoveEntries(@, t.cap, 2 * t.cap), !.cap = 2 * @,
              !.threshold = H!Threshold(2 * t.cap)]

\* What resize leaves: a table of the same entries.
LEMMA GrownRight ==
  ASSUME NEW t, Shaped(t)
  PROVE  LET u == Doubled(t) IN
         /\ Shaped(u) /\ All(u) = All(t)
         /\ u.cap = 2 * t.cap /\ u.size = t.size /\ u.threshold = H!Threshold(2 * t.cap)
<1> DEFINE two == 2 * t.cap
           b == H!MoveEntries(t.buckets, t.cap, two)
           u == Doubled(t)
<1>1. /\ t \in [buckets : [0..(t.cap - 1) -> Chains], size : Nat, cap : Nat \ {0}, threshold : Nat]
      /\ \A i \in 0..(t.cap - 1) : \A e \in In(t.buckets[i]) : H!Index(t.cap, e.key) = i
  BY DEF Shaped
<1>2. two \in Nat \ {0} /\ t.cap \in Nat \ {0}
  BY <1>1
<1>3. H!Threshold(two) \in Nat
  <2>1. 3 * two \in Nat /\ 4 \in Nat \ {0}
    BY <1>2
  <2> DEFINE a == 3 * two
  <2> HIDE DEF a, two
  <2>2. a \div 4 \in Nat
    BY <2>1 DEF a
  <2> QED
    BY <2>2 DEF H!Threshold, a
<1>4. u = [buckets |-> b, size |-> t.size, cap |-> two, threshold |-> H!Threshold(two)]
  <2>1. u = [t EXCEPT !.buckets = b, !.cap = two, !.threshold = H!Threshold(two)]
    BY <1>1 DEF Doubled
  <2> HIDE DEF u, b, two
  <2> QED
    BY <1>1, <2>1
<1>5. \A i \in 0..(two - 1) : i % t.cap \in 0..(t.cap - 1)
  <2> HIDE DEF two
  <2> QED
    BY <1>2, Division
<1>6. b = [i \in 0..(two - 1) |-> H!MovedTo(t.buckets[i % t.cap], two, i)]
  BY DEF H!MoveEntries
<1> HIDE DEF two, b, u
<1>7. ASSUME NEW i \in 0..(two - 1)
      PROVE  /\ b[i] \in Chains
             /\ In(b[i]) = {e \in In(t.buckets[i % t.cap]) : H!Index(two, e.key) = i}
  <2>1. t.buckets[i % t.cap] \in Chains
    BY <1>1, <1>5
  <2>2. b[i] = H!MovedTo(t.buckets[i % t.cap], two, i)
    BY <1>6
  <2> QED
    BY <2>1, <2>2, MovedRight
<1>8. b \in [0..(two - 1) -> Chains]
  BY <1>6, <1>7
<1>9. Shaped(u)
  <2>1. u \in [buckets : [0..(u.cap - 1) -> Chains], size : Nat, cap : Nat \ {0}, threshold : Nat]
    BY <1>1, <1>2, <1>3, <1>4, <1>8
  <2>2. \A i \in 0..(u.cap - 1) : \A e \in In(u.buckets[i]) : H!Index(u.cap, e.key) = i
    BY <1>4, <1>7
  <2> QED
    BY <2>1, <2>2 DEF Shaped
<1>10. All(u) = All(t)
  <2>1. ASSUME NEW e \in All(u) PROVE e \in All(t)
    <3>1. PICK i \in 0..(two - 1) : e \in In(b[i])
      BY <1>4 DEF All
    <3> QED
      BY <1>5, <1>7, <3>1 DEF All
  <2>2. ASSUME NEW e \in All(t) PROVE e \in All(u)
    <3>1. PICK j \in 0..(t.cap - 1) : e \in In(t.buckets[j])
      BY DEF All
    <3>2. H!Index(t.cap, e.key) = j /\ e.key \in AnyKey
      BY <1>1, <3>1, AllFunctional DEF Element
    <3> DEFINE i == H!Index(two, e.key)
    <3>3. i \in 0..(two - 1)
      BY <1>2, <3>2, IndexType
    <3>4. i % t.cap = j
      BY <1>2, <3>2, IndexDoubled DEF two
    <3> HIDE DEF i
    <3>5. e \in In(b[i])
      BY <1>7, <3>1, <3>3, <3>4 DEF i
    <3> QED
      BY <1>4, <3>3, <3>5 DEF All
  <2> QED
    BY <2>1, <2>2
<1> QED
  BY <1>4, <1>9, <1>10 DEF u, two

\* A table that has grown has room for an entry, even one of two buckets.
LEMMA ThresholdRises ==
  ASSUME NEW cap \in Nat \ {0}
  PROVE  /\ H!Threshold(cap) \in Nat /\ H!Threshold(cap) < H!Threshold(2 * cap)
<1> DEFINE a == 3 * cap
<1>1. a \in Nat /\ a >= 3 /\ 3 * (2 * cap) = 2 * a
  OBVIOUS
<1>2. a \div 4 \in Nat /\ a \div 4 < (2 * a) \div 4
  <2> HIDE DEF a
  <2> QED
    BY <1>1
<1> QED
  BY <1>1, <1>2 DEF H!Threshold

\* The entry of a key is one of those size counts.
LEMMA OthersCounted ==
  ASSUME NEW t, Shaped(t), Counted(t), NEW k \in AnyKey, H!Holds(H!Chain(t, k), k)
  PROVE  /\ IsFiniteSet(AllBut(t, k)) /\ t.size = Cardinality(AllBut(t, k)) + 1
         /\ Cardinality(AllBut(t, k)) \in Nat
<1>1. PICK e \in All(t) : e.key = k
  BY LookedUp
<1>2. \A f \in All(t) : f.key = k => f = e
  BY <1>1, AllFunctional DEF Functional
<1>3. All(t) = AllBut(t, k) \cup {e} /\ e \notin AllBut(t, k)
  BY <1>1, <1>2 DEF AllBut
<1>4. IsFiniteSet(AllBut(t, k))
  BY FS_Subset DEF Counted, AllBut
<1>5. Cardinality(AllBut(t, k) \cup {e}) = Cardinality(AllBut(t, k)) + 1
  BY <1>3, <1>4, FS_AddElement
<1> QED
  BY <1>3, <1>4, <1>5, FS_CardinalityType DEF Counted

\* The walk of cc_hashtable_add keeps the fields in agreement, whether it finds memory or not.
LEMMA PutKeeps ==
  ASSUME NEW t, Shaped(t), Counted(t), NEW k \in AnyKey, NEW v \in Values, NEW alloc \in BOOLEAN,
         t.size < t.threshold
  PROVE  LET r == H!Put(t, k, v, alloc) IN
         /\ Shaped(r.table) /\ Counted(r.table)
         /\ \/ r.stat = "OK" /\ All(r.table) = AllBut(t, k) \cup {Pair(k, v)}
            \/ r.stat = "ALLOC" /\ r.table = t
<1> DEFINE r == H!Put(t, k, v, alloc)
           u == r.table
<1>1. t.size \in Nat /\ t.threshold \in Nat
  BY DEF Shaped
<1>2. CASE H!Holds(H!Chain(t, k), k)
  <2>1. /\ r.stat = "OK" /\ Shaped(u) /\ All(u) = AllBut(t, k) \cup {Pair(k, v)}
        /\ u.cap = t.cap /\ u.size = t.size /\ u.threshold = t.threshold
    <3>1. Replaced(t, k, v, r)
      <4> HIDE DEF r
      <4>1. r = H!Put(t, k, v, alloc)
        BY DEF r
      <4>2. Replaced(t, k, v, H!Put(t, k, v, alloc))
        BY <1>2, PutFound
      <4> QED
        BY <4>1, <4>2
    <3> QED
      BY <3>1 DEF Replaced, SameKeys
  <2>2. /\ IsFiniteSet(AllBut(t, k)) /\ t.size = Cardinality(AllBut(t, k)) + 1
    BY <1>2, OthersCounted
  <2>3. Pair(k, v) \notin AllBut(t, k)
    BY DEF AllBut, Pair
  <2> HIDE DEF u, r
  <2>4. IsFiniteSet(All(u)) /\ Cardinality(All(u)) = t.size
    BY <2>1, <2>2, <2>3, FS_AddElement
  <2> QED
    BY <2>1, <2>4 DEF Counted, u, r
<1>3. CASE ~H!Holds(H!Chain(t, k), k) /\ alloc
  <2>1. /\ r.stat = "OK" /\ Shaped(u) /\ All(u) = All(t) \cup {Pair(k, v)}
        /\ u.cap = t.cap /\ u.size = t.size + 1 /\ u.threshold = t.threshold
    <3>1. Entered(t, k, v, r)
      <4> HIDE DEF r
      <4>1. r = H!Put(t, k, v, alloc)
        BY DEF r
      <4>2. Entered(t, k, v, H!Put(t, k, v, alloc))
        BY <1>3, PutNew
      <4> QED
        BY <4>1, <4>2
    <3> QED
      BY <3>1 DEF Entered
  <2>2. \A e \in All(t) : e.key # k
    BY <1>3, LookedUp
  <2>3. All(t) = AllBut(t, k) /\ Pair(k, v) \notin All(t)
    BY <2>2 DEF AllBut, Pair
  <2> HIDE DEF u, r
  <2>4. IsFiniteSet(All(u)) /\ Cardinality(All(u)) = t.size + 1
    BY <2>1, <2>3, FS_AddElement DEF Counted
  <2> QED
    BY <1>1, <2>1, <2>3, <2>4 DEF Counted, u, r
<1>4. CASE ~H!Holds(H!Chain(t, k), k) /\ ~alloc
  BY <1>4 DEF H!Put, H!Refused, H!Chain
<1> QED
  BY <1>2, <1>3, <1>4

\* What cc_hashtable_add leaves.
LEMMA AddKeeps ==
  ASSUME NEW t, Shaped(t), Counted(t), NEW k \in AnyKey, NEW v \in Values,
         NEW room \in BOOLEAN, NEW alloc \in BOOLEAN
  PROVE  LET r == H!Add(t, k, v, room, alloc) IN
         /\ Shaped(r.table) /\ Counted(r.table)
         /\ \/ r.stat = "OK" /\ All(r.table) = AllBut(t, k) \cup {Pair(k, v)}
            \/ r.stat \in {"ALLOC", "MAX_CAPACITY"} /\ All(r.table) = All(t)
<1> DEFINE r == H!Add(t, k, v, room, alloc)
<1>1. t.size \in Nat /\ t.threshold \in Nat /\ t.cap \in Nat \ {0}
  BY DEF Shaped
<1>2. CASE t.size < t.threshold
  <2>1. r = H!Put(t, k, v, alloc)
    BY <1>1, <1>2 DEF H!Add, H!Done
  <2> HIDE DEF r
  <2> QED
    BY <1>2, <2>1, PutKeeps DEF r
<1>3. CASE t.size >= t.threshold /\ (t.cap = MaxPowTwo \/ ~room)
  <2>1. r.table = t /\ r.stat \in {"ALLOC", "MAX_CAPACITY"}
    BY <1>3 DEF H!Add, H!Resize, H!Refused
  <2> QED
    BY <2>1
<1>4. CASE t.size >= t.threshold /\ ~(t.cap = MaxPowTwo \/ ~room)
  <2> DEFINE g == Doubled(t)
  <2>1. r = H!Put(g, k, v, alloc)
    BY <1>4 DEF H!Add, H!Resize, H!Done, Doubled
  <2>2. /\ Shaped(g) /\ All(g) = All(t)
        /\ g.cap = 2 * t.cap /\ g.size = t.size /\ g.threshold = H!Threshold(2 * t.cap)
    BY GrownRight
  <2> HIDE DEF r, g
  <2>3. Counted(g) /\ g.size < g.threshold
    BY <1>1, <1>4, <2>2, ThresholdRises DEF Counted
  <2>4. AllBut(g, k) = AllBut(t, k)
    BY <2>2 DEF AllBut
  <2>5. /\ Shaped(r.table) /\ Counted(r.table)
        /\ \/ r.stat = "OK" /\ All(r.table) = AllBut(g, k) \cup {Pair(k, v)}
           \/ r.stat = "ALLOC" /\ r.table = g
    BY <2>1, <2>2, <2>3, PutKeeps
  <2> QED
    BY <2>2, <2>4, <2>5 DEF r
<1> QED
  BY <1>1, <1>2, <1>3, <1>4

\* What cc_hashtable_remove leaves.
LEMMA RemoveKeeps ==
  ASSUME NEW t, Shaped(t), Counted(t), NEW k \in AnyKey
  PROVE  LET r == H!Remove(t, k) IN
         /\ Shaped(r.table) /\ Counted(r.table) /\ All(r.table) = AllBut(t, k)
         /\ IF \E e \in All(t) : e.key = k THEN r.stat = "OK" /\ Pair(k, r.out) \in All(t)
            ELSE r.stat = "KEY_NOT_FOUND" /\ r.table = t
<1> DEFINE r == H!Remove(t, k)
           u == r.table
<1>1. t.size \in Nat /\ t.threshold \in Nat
  BY DEF Shaped
<1>2. CASE H!Holds(H!Chain(t, k), k)
  <2>1. /\ IsFiniteSet(AllBut(t, k)) /\ t.size = Cardinality(AllBut(t, k)) + 1
        /\ Cardinality(AllBut(t, k)) \in Nat
    BY <1>2, OthersCounted
  <2>2. t.size # 0
    BY <2>1
  <2>3. /\ r.stat = "OK" /\ Shaped(u) /\ All(u) = AllBut(t, k) /\ Pair(k, r.out) \in All(t)
        /\ u = WithBucket(t, H!Index(t.cap, k),
                          H!Seqs!RemoveAt(H!Chain(t, k), H!Place(H!Chain(t, k), k)), t.size - 1)
    BY <1>2, <2>2, RemoveFound
  <2>4. \E e \in All(t) : e.key = k
    BY <1>2, LookedUp
  <2> HIDE DEF r, u
  <2>5. Counted(u)
    <3>1. u.size = t.size - 1 /\ u.cap = t.cap /\ u.threshold = t.threshold
      BY <2>3 DEF WithBucket
    <3> QED
      BY <1>1, <2>1, <2>3, <3>1 DEF Counted
  <2> QED
    BY <2>3, <2>4, <2>5 DEF u, r
<1>3. CASE ~H!Holds(H!Chain(t, k), k)
  <2>1. r.table = t /\ r.stat = "KEY_NOT_FOUND"
    BY <1>3 DEF H!Remove, H!Refused, H!Chain
  <2>2. ~\E e \in All(t) : e.key = k
    BY <1>3, LookedUp
  <2> QED
    BY <2>1, <2>2 DEF AllBut
<1> QED
  BY <1>2, <1>3

\* The chain of an empty bucket.
LEMMA NothingIn == In(<<>>) = {} /\ <<>> \in Chains
  BY DEF In, Chains

\* What cc_hashtable_remove_all leaves.
LEMMA RemoveAllKeeps ==
  ASSUME NEW t, Shaped(t), Counted(t)
  PROVE  LET u == H!RemoveAll(t).table IN Shaped(u) /\ Counted(u) /\ All(u) = {}
<1> DEFINE b == [i \in 0..(t.cap - 1) |-> <<>>]
           u == H!RemoveAll(t).table
<1>1. /\ t \in [buckets : [0..(t.cap - 1) -> Chains], size : Nat, cap : Nat \ {0}, threshold : Nat]
      /\ DOMAIN t.buckets = 0..(t.cap - 1)
  BY DEF Shaped
<1>2. u = [t EXCEPT !.buckets = b, !.size = 0]
  BY <1>1 DEF H!RemoveAll, H!Done
<1>3. b \in [0..(t.cap - 1) -> Chains] /\ \A i \in 0..(t.cap - 1) : b[i] = <<>>
  BY NothingIn
<1> HIDE DEF b, u
<1>4. u = [buckets |-> b, size |-> 0, cap |-> t.cap, threshold |-> t.threshold]
  BY <1>1, <1>2
<1>5. Shaped(u)
  BY <1>1, <1>3, <1>4, NothingIn DEF Shaped
<1>6. All(u) = {}
  BY <1>3, <1>4, NothingIn DEF All
<1>7. Counted(u)
  <2>1. IsFiniteSet(All(u)) /\ u.size = Cardinality(All(u))
    BY <1>4, <1>6, FS_EmptySet
  <2>2. u.threshold = H!Threshold(u.cap) /\ u.size <= u.threshold
    BY <1>1, <1>4 DEF Counted
  <2> QED
    BY <2>1, <2>2 DEF Counted
<1> QED
  BY <1>5, <1>6, <1>7 DEF u

\* The capacity asked for is rounded up to one of at least one bucket.
LEMMA RoundedUp ==
  ASSUME NEW n \in Nat
  PROVE  H!RoundPowTwo(n) \in Nat \ {0}
<1> DEFINE Pos == Nat \ {0}
           Next1(x) == IF x >= n THEN x ELSE 2 * x
           step == [i \in Nat |-> [x \in Pos |-> Next1(x)]]
           Is(f) == f = [k \in 0..n |-> IF k = 0 THEN 1 ELSE Next1(f[k - 1])]
           doubled == CHOOSE f : Is(f)
<1>1. 1 \in Pos /\ step \in [Nat -> [Pos -> Pos]]
  OBVIOUS
<1>2. \A i \in Nat, x \in Pos : step[i][x] = Next1(x)
  OBVIOUS
<1> HIDE DEF Pos, step
<1>3. PICK f \in [0..n -> Pos] : Steps(f, n, 1, step)
  BY <1>1, StepsExist
<1>4. \A k \in 1..n : f[k] = Next1(f[k - 1])
  <2> TAKE k \in 1..n
  <2>1. k - 1 \in 0..(n - 1) /\ k - 1 \in 0..n /\ k - 1 \in Nat /\ (k - 1) + 1 = k
    OBVIOUS
  <2>2. f[k] = step[k - 1][f[k - 1]] /\ f[k - 1] \in Pos
    BY <1>3, <2>1 DEF Steps
  <2> QED
    BY <1>2, <2>1, <2>2
<1> HIDE DEF Next1
<1>5. Is(f)
  <2>1. f[0] = 1
    BY <1>3 DEF Steps
  <2>2. \A k \in 0..n : k # 0 => k \in 1..n
    OBVIOUS
  <2> QED
    BY <1>3, <1>4, <2>1, <2>2
<1>6. Is(doubled)
  <2> HIDE DEF Is
  <2> QED
    BY <1>5
<1>7. H!RoundPowTwo(n) = IF n >= MaxPowTwo THEN MaxPowTwo ELSE doubled[n]
  BY DEF H!RoundPowTwo, Next1
<1> HIDE DEF doubled
<1> DEFINE T == {k \in Nat : k <= n => doubled[k] \in Pos}
<1>8. 0 \in T
  BY <1>1, <1>6
<1>9. ASSUME NEW k \in Nat, k \in T PROVE k + 1 \in T
  <2> SUFFICES ASSUME k + 1 <= n PROVE doubled[k + 1] \in Pos
    OBVIOUS
  <2>1. k + 1 \in 0..n /\ k + 1 # 0 /\ (k + 1) - 1 = k /\ k <= n
    OBVIOUS
  <2>2. doubled[k] \in Pos /\ doubled[k + 1] = Next1(doubled[k])
    BY <1>6, <1>9, <2>1
  <2> QED
    BY <2>2 DEF Next1, Pos
<1>10. n \in T
  <2> HIDE DEF T
  <2> QED
    BY <1>8, <1>9, Induction
<1> QED
  BY <1>7, <1>10, TablesAssumption DEF Pos

\* What cc_hashtable_new_conf leaves.
LEMMA NewKept ==
  ASSUME NEW n \in Nat
  PROVE  LET t == H!NewTable(n) IN Shaped(t) /\ Counted(t) /\ All(t) = {}
<1> DEFINE cap == H!RoundPowTwo(n)
           b == [i \in 0..(cap - 1) |-> <<>>]
           t == H!NewTable(n)
<1>1. t = [buckets |-> b, size |-> 0, cap |-> cap, threshold |-> H!Threshold(cap)]
  BY DEF H!NewTable
<1>2. cap \in Nat \ {0}
  BY RoundedUp
<1> HIDE DEF cap
<1>3. b \in [0..(cap - 1) -> Chains] /\ \A i \in 0..(cap - 1) : b[i] = <<>>
  BY NothingIn
<1> HIDE DEF b, t
<1>4. H!Threshold(cap) \in Nat
  BY <1>2, ThresholdRises
<1>5. Shaped(t)
  BY <1>1, <1>2, <1>3, <1>4, NothingIn DEF Shaped
<1>6. All(t) = {}
  BY <1>1, <1>3, NothingIn DEF All
<1>7. Counted(t)
  BY <1>1, <1>4, <1>6, FS_EmptySet DEF Counted
<1> QED
  BY <1>5, <1>6, <1>7 DEF t

(***************************************************************************)
(* The entries of a table, bucket by bucket.                               *)
(***************************************************************************)
LEMMA ChainsJoined ==
  ASSUME NEW c \in Chains, NEW d \in Chains, \A e \in In(c), f \in In(d) : e.key # f.key
  PROVE  c \o d \in Chains /\ In(c \o d) = In(c) \cup In(d)
<1> DEFINE s == c \o d
<1>1. c \in Seq(Element) /\ d \in Seq(Element) /\ Len(c) \in Nat /\ Len(d) \in Nat
  BY DEF Chains
<1>2. /\ s \in Seq(Element) /\ Len(s) = Len(c) + Len(d)
      /\ \A n \in 1..Len(s) : s[n] = IF n <= Len(c) THEN c[n] ELSE d[n - Len(c)]
  BY <1>1, Joined
<1> HIDE DEF s
<1>3. \A n \in 1..Len(s) : ~(n <= Len(c)) => n - Len(c) \in 1..Len(d)
  BY <1>1, <1>2
<1>4. ASSUME NEW m \in 1..Len(s), NEW n \in 1..Len(s), s[m].key = s[n].key, m < n PROVE FALSE
  <2>1. CASE n <= Len(c)
    <3>1. m \in 1..Len(c) /\ n \in 1..Len(c) /\ s[m] = c[m] /\ s[n] = c[n]
      BY <1>1, <1>2, <1>4, <2>1
    <3> QED
      BY <1>4, <3>1 DEF Chains
  <2>2. CASE m <= Len(c) /\ ~(n <= Len(c))
    <3>1. m \in 1..Len(c) /\ n - Len(c) \in 1..Len(d) /\ s[m] = c[m] /\ s[n] = d[n - Len(c)]
      BY <1>1, <1>2, <1>3, <2>2
    <3> QED
      BY <1>4, <3>1 DEF In
  <2>3. CASE ~(m <= Len(c))
    <3>1. /\ m - Len(c) \in 1..Len(d) /\ n - Len(c) \in 1..Len(d) /\ m - Len(c) # n - Len(c)
          /\ s[m] = d[m - Len(c)] /\ s[n] = d[n - Len(c)]
      BY <1>1, <1>2, <1>3, <1>4, <2>3
    <3> QED
      BY <1>4, <3>1 DEF Chains
  <2> QED
    BY <2>1, <2>2, <2>3
<1>5. s \in Chains
  <2>1. \A m, n \in 1..Len(s) : s[m].key = s[n].key => m = n
    <3> SUFFICES ASSUME NEW m \in 1..Len(s), NEW n \in 1..Len(s), s[m].key = s[n].key PROVE m = n
      OBVIOUS
    <3>1. ~(m < n) /\ ~(n < m)
      BY <1>4
    <3> QED
      BY <3>1
  <2> QED
    BY <1>2, <2>1 DEF Chains
<1>6. In(s) \subseteq In(c) \cup In(d)
  <2> SUFFICES ASSUME NEW n \in 1..Len(s) PROVE s[n] \in In(c) \cup In(d)
    BY DEF In
  <2>1. CASE n <= Len(c)
    BY <1>1, <1>2, <2>1 DEF In
  <2>2. CASE ~(n <= Len(c))
    BY <1>2, <1>3, <2>2 DEF In
  <2> QED
    BY <2>1, <2>2
<1>7. ASSUME NEW n \in 1..Len(c) PROVE c[n] \in In(s)
  <2>1. n \in 1..Len(s) /\ n <= Len(c)
    BY <1>1, <1>2
  <2> QED
    BY <1>2, <2>1 DEF In
<1>8. ASSUME NEW n \in 1..Len(d) PROVE d[n] \in In(s)
  <2>1. n + Len(c) \in 1..Len(s) /\ ~(n + Len(c) <= Len(c)) /\ (n + Len(c)) - Len(c) = n
    BY <1>1, <1>2
  <2>2. s[n + Len(c)] = d[n]
    BY <1>2, <2>1
  <2> QED
    BY <2>1, <2>2 DEF In
<1>9. In(s) = In(c) \cup In(d)
  <2>1. ASSUME NEW e \in In(c) PROVE e \in In(s)
    BY <1>7 DEF In
  <2>2. ASSUME NEW e \in In(d) PROVE e \in In(s)
    BY <1>8 DEF In
  <2> QED
    BY <1>6, <2>1, <2>2
<1> QED
  BY <1>5, <1>9 DEF s

\* Going through the buckets meets every entry, and no key twice.
LEMMA EntriesRight ==
  ASSUME NEW t, Shaped(t)
  PROVE  H!Entries(t) \in Chains /\ In(H!Entries(t)) = All(t)
<1> DEFINE b == t.buckets
           step == [i \in Nat |-> [s \in Seq(Element) |-> IF i < t.cap THEN s \o b[i] ELSE s]]
           Is(f) == f = [i \in 0..t.cap |-> IF i = 0 THEN <<>> ELSE f[i - 1] \o b[i - 1]]
           upto == CHOOSE f : Is(f)
           Below(i) == UNION {In(b[j]) : j \in 0..(i - 1)}
<1>1. /\ t.cap \in Nat \ {0} /\ <<>> \in Seq(Element)
      /\ \A i \in 0..(t.cap - 1) : /\ b[i] \in Chains /\ b[i] \in Seq(Element)
                                   /\ \A e \in In(b[i]) : H!Index(t.cap, e.key) = i
  BY DEF Shaped, Chains
<1> HIDE DEF b
<1>2. step \in [Nat -> [Seq(Element) -> Seq(Element)]]
  <2>1. ASSUME NEW i \in Nat, NEW s \in Seq(Element)
        PROVE  (IF i < t.cap THEN s \o b[i] ELSE s) \in Seq(Element)
    <3>1. CASE i < t.cap
      <4>1. b[i] \in Seq(Element)
        BY <1>1, <3>1
      <4> QED
        BY <3>1, <4>1
    <3> QED
      BY <3>1
  <2> QED
    BY <2>1
<1>3. \A i \in 0..(t.cap - 1), s \in Seq(Element) : step[i][s] = s \o b[i]
  BY <1>1
<1> HIDE DEF step
<1>4. PICK f \in [0..t.cap -> Seq(Element)] : Steps(f, t.cap, <<>>, step)
  BY <1>1, <1>2, StepsExist
<1>5. \A i \in 1..t.cap : f[i] = f[i - 1] \o b[i - 1]
  <2> TAKE i \in 1..t.cap
  <2>1. i - 1 \in 0..(t.cap - 1) /\ i - 1 \in 0..t.cap /\ (i - 1) + 1 = i
    BY <1>1
  <2>2. f[i] = step[i - 1][f[i - 1]] /\ f[i - 1] \in Seq(Element)
    BY <1>4, <2>1 DEF Steps
  <2> QED
    BY <1>3, <2>1, <2>2
<1>6. Is(f)
  <2>1. f[0] = <<>>
    BY <1>4 DEF Steps
  <2>2. \A i \in 0..t.cap : i # 0 => i \in 1..t.cap
    BY <1>1
  <2> QED
    BY <1>4, <1>5, <2>1, <2>2
<1>7. Is(upto)
  <2> HIDE DEF Is
  <2> QED
    BY <1>6
<1>8. H!Entries(t) = upto[t.cap]
  BY DEF H!Entries, b
<1> HIDE DEF upto
<1> DEFINE T == {i \in Nat : i <= t.cap => upto[i] \in Chains /\ In(upto[i]) = Below(i)}
<1>9. 0 \in T
  <2>1. upto[0] = <<>>
    BY <1>1, <1>7
  <2>2. Below(0) = {}
    OBVIOUS
  <2> QED
    BY <2>1, <2>2, NothingIn
<1>10. ASSUME NEW i \in Nat, i \in T PROVE i + 1 \in T
  <2> SUFFICES ASSUME i + 1 <= t.cap
               PROVE  upto[i + 1] \in Chains /\ In(upto[i + 1]) = Below(i + 1)
    OBVIOUS
  <2>1. i + 1 \in 0..t.cap /\ i + 1 # 0 /\ (i + 1) - 1 = i /\ i <= t.cap /\ i \in 0..(t.cap - 1)
    BY <1>1
  <2>2. upto[i + 1] = upto[i] \o b[i]
    BY <1>7, <2>1
  <2>3. upto[i] \in Chains /\ In(upto[i]) = Below(i)
    BY <1>10, <2>1
  <2>4. \A e \in Below(i), g \in In(b[i]) : e.key # g.key
    <3> SUFFICES ASSUME NEW j \in 0..(i - 1), NEW e \in In(b[j]), NEW g \in In(b[i]) PROVE e.key # g.key
      OBVIOUS
    <3>1. j \in 0..(t.cap - 1) /\ j # i
      BY <1>1, <2>1
    <3> QED
      BY <1>1, <2>1, <3>1
  <2>5. Below(i + 1) = Below(i) \cup In(b[i])
    <3>1. 0..((i + 1) - 1) = 0..(i - 1) \cup {i}
      OBVIOUS
    <3> QED
      BY <3>1
  <2>6. b[i] \in Chains
    BY <1>1, <2>1
  <2>7. upto[i] \o b[i] \in Chains /\ In(upto[i] \o b[i]) = In(upto[i]) \cup In(b[i])
    <3>1. \A e \in In(upto[i]), g \in In(b[i]) : e.key # g.key
      BY <2>3, <2>4
    <3> QED
      BY <2>3, <2>6, <3>1, ChainsJoined
  <2> HIDE DEF Below
  <2> QED
    BY <2>2, <2>3, <2>5, <2>7
<1>11. t.cap \in T
  <2> HIDE DEF T
  <2> QED
    BY <1>1, <1>9, <1>10, Induction
<1>12. Below(t.cap) = All(t)
  BY DEF All, b
<1> QED
  BY <1>1, <1>8, <1>11, <1>12

\* A chain is as long as it has entries.
LEMMA ChainCounted ==
  ASSUME NEW c \in Chains
  PROVE  IsFiniteSet(In(c)) /\ Cardinality(In(c)) = Len(c)
<1> DEFINE f == [n \in 1..Len(c) |-> c[n]]
<1>1. Len(c) \in Nat /\ \A m, n \in 1..Len(c) : c[m] = c[n] => m = n
  BY DEF Chains
<1>2. f \in Bijection(1..Len(c), In(c))
  <2>1. f \in [1..Len(c) -> In(c)] /\ \A e \in In(c) : \E n \in 1..Len(c) : f[n] = e
    BY DEF In
  <2>2. \A m, n \in 1..Len(c) : f[m] = f[n] => m = n
    BY <1>1
  <2> HIDE DEF f
  <2>3. f \in Injection(1..Len(c), In(c))
    BY <2>1, <2>2 DEF Injection, IsInjective
  <2>4. f \in Surjection(1..Len(c), In(c))
    BY <2>1 DEF Surjection
  <2> QED
    BY <2>3, <2>4 DEF Bijection
<1>3. IsFiniteSet(1..Len(c)) /\ Cardinality(1..Len(c)) = Len(c)
  <2> DEFINE n == Len(c)
  <2>1. n \in Int /\ n >= 0
    BY <1>1
  <2> HIDE DEF n
  <2>2. IsFiniteSet(1..n) /\ Cardinality(1..n) = IF 1 > n THEN 0 ELSE n - 1 + 1
    BY <2>1, FS_Interval
  <2>3. Cardinality(1..n) = n
    BY <2>1, <2>2
  <2> QED
    BY <2>2, <2>3 DEF n
<1> QED
  BY <1>2, <1>3, FS_Bijection DEF ExistsBijection

\* It meets as many as size says.
LEMMA CountedByEntries ==
  ASSUME NEW t, Shaped(t), Counted(t)
  PROVE  t.size = Len(H!Entries(t))
  BY EntriesRight, ChainCounted DEF Counted

-----------------------------------------------------------------------------
(***************************************************************************)
(* The function a set of entries is.                                       *)
(***************************************************************************)
FunOf(A) == [k \in {e.key : e \in A} |-> (CHOOSE e \in A : e.key = k).val]

\* The function at the keys of its entries.
LEMMA FunAt ==
  ASSUME NEW A, Functional(A)
  PROVE  /\ DOMAIN FunOf(A) = {e.key : e \in A}
         /\ \A e \in A : FunOf(A)[e.key] = e.val
<1>1. DOMAIN FunOf(A) = {e.key : e \in A}
  BY DEF FunOf
<1>2. ASSUME NEW e \in A PROVE FunOf(A)[e.key] = e.val
  <2>1. FunOf(A)[e.key] = (CHOOSE f \in A : f.key = e.key).val
    BY DEF FunOf
  <2>2. (CHOOSE f \in A : f.key = e.key) = e
    <3> DEFINE g == CHOOSE f \in A : f.key = e.key
    <3>1. g \in A /\ g.key = e.key
      OBVIOUS
    <3> HIDE DEF g
    <3>2. g = e
      BY <3>1 DEF Functional
    <3> QED
      BY <3>2 DEF g
  <2> QED
    BY <2>1, <2>2
<1> QED
  BY <1>1, <1>2

Given(f, k, v) == [x \in DOMAIN f \cup {k} |-> IF x = k THEN v ELSE f[x]]
Renewed(A, k, v) == {e \in A : e.key # k} \cup {Pair(k, v)}

\* An entry more, or in the place of the one with its key.
LEMMA FunWith ==
  ASSUME NEW A, Functional(A), NEW k, NEW v
  PROVE  FunOf(Renewed(A, k, v)) = Given(FunOf(A), k, v)
<1> DEFINE g == [x \in DOMAIN FunOf(A) \cup {k} |-> IF x = k THEN v ELSE FunOf(A)[x]]
           B == Renewed(A, k, v)
<1>0. B = {e \in A : e.key # k} \cup {Pair(k, v)}
  BY DEF Renewed
<1> HIDE DEF B
<1>1. Pair(k, v).key = k /\ Pair(k, v).val = v
  BY DEF Pair
<1>2. Functional(B)
  BY <1>0, <1>1 DEF Functional
<1>3. DOMAIN FunOf(B) = {e.key : e \in B} /\ \A e \in B : FunOf(B)[e.key] = e.val
  BY <1>2, FunAt
<1>4. DOMAIN FunOf(A) = {e.key : e \in A} /\ \A e \in A : FunOf(A)[e.key] = e.val
  BY FunAt
<1>5. DOMAIN FunOf(B) = DOMAIN FunOf(A) \cup {k}
  <2>1. {e.key : e \in B} = {e.key : e \in A} \cup {k}
    BY <1>0, <1>1
  <2> QED
    BY <1>3, <1>4, <2>1
<1>6. ASSUME NEW x \in DOMAIN FunOf(B) PROVE FunOf(B)[x] = g[x]
  <2>1. CASE x = k
    BY <1>0, <1>1, <1>3, <1>5, <2>1
  <2>2. CASE x # k
    <3>1. PICK e \in A : e.key = x
      BY <1>4, <1>5, <2>2
    <3>2. e \in B
      BY <1>0, <2>2, <3>1
    <3> QED
      BY <1>3, <1>4, <1>5, <2>2, <3>1, <3>2
  <2> QED
    BY <2>1, <2>2
<1>7. FunOf(B) = [x \in DOMAIN FunOf(B) |-> FunOf(B)[x]]
  BY DEF FunOf
<1> QED
  BY <1>5, <1>6, <1>7 DEF B, Given

\* An entry less.
LEMMA FunWithout ==
  ASSUME NEW A, Functional(A), NEW k, NEW B, B = {e \in A : e.key # k}
  PROVE  FunOf(B) = [x \in DOMAIN FunOf(A) \ {k} |-> FunOf(A)[x]]
<1>1. Functional(B)
  BY DEF Functional
<1>2. DOMAIN FunOf(B) = {e.key : e \in B} /\ \A e \in B : FunOf(B)[e.key] = e.val
  BY <1>1, FunAt
<1>3. DOMAIN FunOf(A) = {e.key : e \in A} /\ \A e \in A : FunOf(A)[e.key] = e.val
  BY FunAt
<1>4. DOMAIN FunOf(B) = DOMAIN FunOf(A) \ {k}
  BY <1>2, <1>3
<1>5. \A x \in DOMAIN FunOf(B) : FunOf(B)[x] = FunOf(A)[x]
  BY <1>2, <1>3
<1>6. FunOf(B) = [x \in DOMAIN FunOf(B) |-> FunOf(B)[x]]
  BY DEF FunOf
<1> QED
  BY <1>4, <1>5, <1>6

\* No entry.
LEMMA FunEmpty == FunOf({}) = <<>>
<1>1. DOMAIN FunOf({}) = {} /\ FunOf({}) = [x \in {} |-> x]
  BY DEF FunOf
<1>2. <<>> = [x \in {} |-> x]
  OBVIOUS
<1> QED
  BY <1>1, <1>2

(***************************************************************************)
(* What an iterator has still to return.                                   *)
(***************************************************************************)
KeysOf(t) == {e.key : e \in All(t)}
OneKey == {<<>>} \cup {<<k>> : k \in AnyKey}
PlaceIn(t, k) == H!Place(H!Chain(t, k), k)

TodoOf(t, j) ==
    IF j.next = <<>> THEN {}
    ELSE {k \in KeysOf(t) : \/ H!Index(t.cap, k) > j.bucket
                            \/ /\ H!Index(t.cap, k) = j.bucket
                               /\ PlaceIn(t, k) >= H!Place(t.buckets[j.bucket], j.next[1])}

IterFits(t, j) ==
    /\ j \in [bucket : Nat, next : OneKey, prev : OneKey]
    /\ j.next # <<>> => /\ j.bucket \in 0..(t.cap - 1)
                        /\ H!Holds(t.buckets[j.bucket], j.next[1])
    /\ j.prev # <<>> => j.prev[1] \notin TodoOf(t, j)

\* The keys of the table by their buckets and their places there.
LEMMA KeysPlaced ==
  ASSUME NEW t, Shaped(t), NEW k \in KeysOf(t)
  PROVE  /\ k \in AnyKey /\ H!Index(t.cap, k) \in 0..(t.cap - 1)
         /\ H!Holds(H!Chain(t, k), k) /\ PlaceIn(t, k) \in 1..Len(H!Chain(t, k))
         /\ H!Chain(t, k)[PlaceIn(t, k)].key = k /\ H!Chain(t, k)[PlaceIn(t, k)] \in All(t)
<1>1. PICK e \in All(t) : e.key = k
  BY DEF KeysOf
<1>2. k \in AnyKey
  BY <1>1, AllFunctional DEF Element
<1> QED
  BY <1>1, <1>2, ChainType, LookedUp DEF PlaceIn

KeyIsAt(t, k, i, n) ==
    /\ k \in KeysOf(t) /\ H!Index(t.cap, k) = i
    /\ H!Chain(t, k) = t.buckets[i] /\ PlaceIn(t, k) = n

\* The key of an entry is at the entry.
LEMMA KeyAt ==
  ASSUME NEW t, Shaped(t), NEW i \in 0..(t.cap - 1), NEW n \in 1..Len(t.buckets[i])
  PROVE  KeyIsAt(t, t.buckets[i][n].key, i, n)
<1>1. t.buckets[i] \in Chains /\ t.buckets[i][n] \in In(t.buckets[i])
  BY DEF Shaped, In
<1>2. t.buckets[i][n] \in All(t) /\ H!Index(t.cap, t.buckets[i][n].key) = i
  BY <1>1 DEF All, Shaped
<1>3. H!Chain(t, t.buckets[i][n].key) = t.buckets[i]
  BY <1>2 DEF H!Chain
<1> QED
  BY <1>1, <1>2, <1>3, PlaceThere DEF KeysOf, PlaceIn, KeyIsAt

\* The first bucket of some.
LEMMA LeastOfRight ==
  ASSUME NEW S, S \subseteq Nat, S # {}
  PROVE  H!LeastOf(S) \in S /\ \A j \in S : H!LeastOf(S) <= j
  BY Smallest DEF H!LeastOf

\* The buckets from i on that are looked through.
LEMMA FullRight ==
  ASSUME NEW t, Shaped(t), NEW i \in Nat
  PROVE  /\ H!FullFrom(t, i) \subseteq Nat
         /\ \A j \in H!FullFrom(t, i) : /\ j \in 0..(t.cap - 1) /\ j >= i
                                        /\ 1 \in 1..Len(t.buckets[j])
                                        /\ Head(t.buckets[j]) = t.buckets[j][1]
         /\ \A k \in KeysOf(t) : H!Index(t.cap, k) >= i => H!Index(t.cap, k) \in H!FullFrom(t, i)
<1>1. t.cap \in Nat /\ \A j \in 0..(t.cap - 1) : t.buckets[j] \in Seq(Element)
  BY DEF Shaped, Chains
<1>2. H!FullFrom(t, i) \subseteq Nat
  BY <1>1 DEF H!FullFrom
<1>3. ASSUME NEW j \in H!FullFrom(t, i)
      PROVE  j \in 0..(t.cap - 1) /\ j >= i /\ 1 \in 1..Len(t.buckets[j]) /\ Head(t.buckets[j]) = t.buckets[j][1]
  <2>1. j \in 0..(t.cap - 1) /\ j >= i /\ t.buckets[j] # <<>>
    BY <1>1 DEF H!FullFrom
  <2>2. t.buckets[j] \in Seq(Element)
    BY <1>1, <2>1
  <2> QED
    BY <2>1, <2>2
<1>4. ASSUME NEW k \in KeysOf(t), H!Index(t.cap, k) >= i PROVE H!Index(t.cap, k) \in H!FullFrom(t, i)
  <2>1. H!Index(t.cap, k) \in 0..(t.cap - 1) /\ PlaceIn(t, k) \in 1..Len(H!Chain(t, k))
    BY KeysPlaced
  <2>2. H!Chain(t, k) # <<>>
    BY <2>1
  <2> QED
    BY <1>1, <1>4, <2>1, <2>2 DEF H!FullFrom, H!Chain
<1> QED
  BY <1>2, <1>3, <1>4

\* An iterator that stands at the head of a bucket, with nothing before it from i on.
LEMMA AtHead ==
  ASSUME NEW t, Shaped(t), NEW i \in Nat, H!FullFrom(t, i) # {}, NEW j,
         j.bucket = H!LeastOf(H!FullFrom(t, i)),
         j.next = <<Head(t.buckets[H!LeastOf(H!FullFrom(t, i))]).key>>
  PROVE  /\ TodoOf(t, j) = {k \in KeysOf(t) : H!Index(t.cap, k) >= i}
         /\ j.bucket \in 0..(t.cap - 1) /\ j.next \in OneKey /\ j.next # <<>>
         /\ H!Holds(t.buckets[j.bucket], j.next[1])
<1> DEFINE b == H!LeastOf(H!FullFrom(t, i))
           c == t.buckets[b]
<1>1. b \in H!FullFrom(t, i) /\ \A a \in H!FullFrom(t, i) : b <= a
  BY FullRight, LeastOfRight
<1>2. b \in 0..(t.cap - 1) /\ b >= i /\ 1 \in 1..Len(c) /\ Head(c) = c[1]
  BY <1>1, FullRight
<1> HIDE DEF b
<1>3. j.bucket = b /\ j.next = <<c[1].key>> /\ j.next # <<>> /\ j.next[1] = c[1].key
  <2>1. j.bucket = b /\ j.next = <<Head(c).key>>
    BY DEF b
  <2> DEFINE x == c[1].key
  <2>2. j.next = <<x>>
    BY <1>2, <2>1
  <2> HIDE DEF x
  <2>3. j.next # <<>> /\ j.next[1] = x
    BY <2>2
  <2> QED
    BY <2>1, <2>2, <2>3 DEF x
<1>4. c[1].key \in KeysOf(t) /\ H!Chain(t, c[1].key) = c /\ PlaceIn(t, c[1].key) = 1
  <2>1. KeyIsAt(t, t.buckets[b][1].key, b, 1)
    BY <1>2, KeyAt
  <2> QED
    BY <2>1 DEF KeyIsAt
<1>5. H!Place(c, c[1].key) = 1 /\ H!Holds(c, c[1].key) /\ c[1].key \in AnyKey
  BY <1>4, KeysPlaced DEF PlaceIn
<1>6. ASSUME NEW k \in KeysOf(t)
      PROVE  H!Index(t.cap, k) >= i <=> \/ H!Index(t.cap, k) > b
                                        \/ H!Index(t.cap, k) = b /\ PlaceIn(t, k) >= 1
  <2>1. H!Index(t.cap, k) \in Nat /\ PlaceIn(t, k) >= 1 /\ b \in Nat
    BY <1>2, KeysPlaced
  <2>2. H!Index(t.cap, k) >= i => H!Index(t.cap, k) >= b
    BY <1>1, FullRight
  <2> QED
    BY <1>2, <2>1, <2>2
<1>7. TodoOf(t, j) = {k \in KeysOf(t) : H!Index(t.cap, k) >= i}
  BY <1>3, <1>5, <1>6 DEF TodoOf
<1> QED
  BY <1>2, <1>3, <1>5, <1>7 DEF OneKey

\* cc_hashtable_iter_init leaves every key to be returned.
LEMMA IterStarts ==
  ASSUME NEW t, Shaped(t)
  PROVE  IterFits(t, H!IterInit(t)) /\ TodoOf(t, H!IterInit(t)) = KeysOf(t)
<1> DEFINE j == H!IterInit(t)
<1>1. \A k \in KeysOf(t) : H!Index(t.cap, k) >= 0
  BY KeysPlaced
<1>2. CASE H!FullFrom(t, 0) = {}
  <2>1. j = [bucket |-> 0, next |-> <<>>, prev |-> <<>>]
    BY <1>2 DEF H!IterInit
  <2>2. KeysOf(t) = {}
    BY <1>1, <1>2, FullRight
  <2> QED
    BY <2>1, <2>2 DEF IterFits, TodoOf, OneKey
<1>3. CASE H!FullFrom(t, 0) # {}
  <2> DEFINE b == H!LeastOf(H!FullFrom(t, 0))
  <2>1. j = [bucket |-> b, next |-> <<Head(t.buckets[b]).key>>, prev |-> <<>>]
    BY <1>3 DEF H!IterInit
  <2> HIDE DEF j
  <2>2. j.bucket = b /\ j.next = <<Head(t.buckets[b]).key>>
    BY <2>1
  <2>3. /\ TodoOf(t, j) = {k \in KeysOf(t) : H!Index(t.cap, k) >= 0}
        /\ j.bucket \in 0..(t.cap - 1) /\ j.next \in OneKey /\ j.next # <<>>
        /\ H!Holds(t.buckets[j.bucket], j.next[1])
    BY <1>3, <2>2, AtHead
  <2> HIDE DEF b
  <2>4. j \in [bucket : Nat, next : OneKey, prev : OneKey] /\ j.prev = <<>>
    BY <2>1, <2>3 DEF OneKey
  <2> QED
    BY <1>1, <2>3, <2>4 DEF IterFits, j
<1> QED
  BY <1>2, <1>3

\* cc_hashtable_iter_next returns a key it had to return, with its entry, and has to return
\* the others still.
LEMMA IterSteps ==
  ASSUME NEW t, Shaped(t), NEW j, IterFits(t, j), j.next # <<>>
  PROVE  LET n == H!IterNext(t, j) IN
         /\ n.stat = "OK" /\ n.entry \in All(t) /\ n.entry.key \in TodoOf(t, j)
         /\ IterFits(t, n.it) /\ TodoOf(t, n.it) = TodoOf(t, j) \ {n.entry.key}
<1> DEFINE c == t.buckets[j.bucket]
           k == j.next[1]
           p == H!Place(c, k)
           later == H!FullFrom(t, j.bucket + 1)
           i == H!LeastOf(later)
           n == H!IterNext(t, j)
           m == n.it
<1>1. /\ j \in [bucket : Nat, next : OneKey, prev : OneKey] /\ j.bucket \in 0..(t.cap - 1)
      /\ H!Holds(c, k)
  BY DEF IterFits
<1>2. j.next = <<k>> /\ k \in AnyKey
  BY <1>1 DEF OneKey
<1>3. c \in Chains /\ Len(c) \in Nat
  BY <1>1 DEF Shaped, Chains
<1>4. p \in 1..Len(c) /\ c[p].key = k
  <2> HIDE DEF c, k
  <2> QED
    BY <1>1, <1>3, PlaceFound
<1>5. n.stat = "OK" /\ n.entry = c[p]
  BY DEF H!IterNext
<1>6. m = CASE p < Len(c) -> [j EXCEPT !.prev = j.next, !.next = <<c[p + 1].key>>]
            [] p = Len(c) /\ later = {} -> [j EXCEPT !.prev = j.next, !.next = <<>>]
            [] OTHER -> [bucket |-> i, prev |-> j.next, next |-> <<Head(t.buckets[i]).key>>]
  BY DEF H!IterNext
<1> HIDE DEF n, p, k
<1>7. k \in KeysOf(t) /\ H!Index(t.cap, k) = j.bucket /\ H!Chain(t, k) = c /\ PlaceIn(t, k) = p
  <2>1. /\ c[p].key \in KeysOf(t) /\ H!Index(t.cap, c[p].key) = j.bucket
        /\ H!Chain(t, c[p].key) = c /\ PlaceIn(t, c[p].key) = p
    <3>1. KeyIsAt(t, t.buckets[j.bucket][p].key, j.bucket, p)
      BY <1>1, <1>4, KeyAt
    <3> QED
      BY <3>1 DEF KeyIsAt
  <2> HIDE DEF c
  <2> QED
    BY <1>4, <2>1
<1>8. c[p] \in All(t)
  BY <1>7, KeysPlaced
<1>9. k \in TodoOf(t, j)
  <2>1. p >= p
    BY <1>4
  <2> QED
    BY <1>7, <2>1 DEF TodoOf, p, k
<1>10. TodoOf(t, j) = {x \in KeysOf(t) : \/ H!Index(t.cap, x) > j.bucket
                                         \/ H!Index(t.cap, x) = j.bucket /\ PlaceIn(t, x) >= p}
  BY DEF TodoOf, p, k
<1>11. ASSUME NEW x \in KeysOf(t), H!Index(t.cap, x) = j.bucket
       PROVE  /\ PlaceIn(t, x) \in 1..Len(c)
              /\ PlaceIn(t, x) = p <=> x = k
  <2>1. H!Chain(t, x) = c
    BY <1>11 DEF H!Chain
  <2>2. PlaceIn(t, x) \in 1..Len(c) /\ c[PlaceIn(t, x)].key = x
    BY <2>1, KeysPlaced
  <2> QED
    BY <1>4, <1>7, <2>2
<1>12. ASSUME m.prev = <<k>>, m \in [bucket : Nat, next : OneKey, prev : OneKey],
              m.next # <<>> => m.bucket \in 0..(t.cap - 1) /\ H!Holds(t.buckets[m.bucket], m.next[1]),
              TodoOf(t, m) = TodoOf(t, j) \ {k}
       PROVE  IterFits(t, m) /\ TodoOf(t, m) = TodoOf(t, j) \ {k}
  <2>1. m.prev # <<>> /\ m.prev[1] = k
    <3> HIDE DEF m, k
    <3> QED
      BY <1>12
  <2>2. k \notin TodoOf(t, m)
    BY <1>12, Zenon
  <2> HIDE DEF m
  <2> QED
    BY <1>12, <2>1, <2>2 DEF IterFits
<1>13. n.stat = "OK" /\ n.entry \in All(t) /\ n.entry.key = k /\ k \in TodoOf(t, j)
  BY <1>4, <1>5, <1>8, <1>9
<1>14. CASE p < Len(c)
  <2> DEFINE x == c[p + 1].key
  <2>1. m = [j EXCEPT !.prev = j.next, !.next = <<x>>]
    BY <1>14, <1>6
  <2>2. p + 1 \in 1..Len(c)
    BY <1>3, <1>4, <1>14
  <2>3. x \in KeysOf(t) /\ x \in AnyKey /\ H!Chain(t, x) = c /\ PlaceIn(t, x) = p + 1 /\ H!Holds(c, x)
    <3>1. x \in KeysOf(t) /\ H!Chain(t, x) = c /\ PlaceIn(t, x) = p + 1
      <4> DEFINE q == p + 1
      <4> HIDE DEF q
      <4>1. q \in 1..Len(c)
        BY <2>2 DEF q
      <4>2. c[q].key \in KeysOf(t) /\ H!Chain(t, c[q].key) = c /\ PlaceIn(t, c[q].key) = q
        <5>1. KeyIsAt(t, t.buckets[j.bucket][q].key, j.bucket, q)
          BY <1>1, <4>1, KeyAt
        <5> QED
          BY <5>1 DEF KeyIsAt
      <4> QED
        BY <4>2 DEF q
    <3> HIDE DEF x
    <3> QED
      BY <3>1, KeysPlaced
  <2> HIDE DEF x, m
  <2>4. /\ m \in [bucket : Nat, next : OneKey, prev : OneKey] /\ m.prev = <<k>> /\ m.next = <<x>>
        /\ m.next # <<>> /\ m.next[1] = x /\ m.bucket = j.bucket
    BY <1>1, <1>2, <2>1, <2>3 DEF OneKey
  <2>5. TodoOf(t, m) = {y \in KeysOf(t) : \/ H!Index(t.cap, y) > j.bucket
                                          \/ H!Index(t.cap, y) = j.bucket /\ PlaceIn(t, y) >= p + 1}
    BY <2>3, <2>4 DEF TodoOf, PlaceIn
  <2>6. ASSUME NEW y \in KeysOf(t), H!Index(t.cap, y) = j.bucket
        PROVE  PlaceIn(t, y) >= p + 1 <=> PlaceIn(t, y) >= p /\ y # k
    <3>1. PlaceIn(t, y) \in Int /\ p \in Int /\ (PlaceIn(t, y) = p <=> y = k)
      BY <1>4, <1>11, <2>6
    <3> QED
      BY <3>1
  <2>7. ASSUME NEW y \in KeysOf(t), H!Index(t.cap, y) > j.bucket PROVE y # k
    BY <1>1, <1>7, <2>7
  <2>8. TodoOf(t, m) = TodoOf(t, j) \ {k}
    <3>1. ASSUME NEW y \in TodoOf(t, m) PROVE y \in TodoOf(t, j) /\ y # k
      <4>1. /\ y \in KeysOf(t) /\ H!Index(t.cap, y) \in Nat /\ j.bucket \in Nat
            /\ \/ H!Index(t.cap, y) > j.bucket
               \/ H!Index(t.cap, y) = j.bucket /\ PlaceIn(t, y) >= p + 1
        BY <1>1, <2>5, KeysPlaced
      <4>2. y # k
        BY <2>6, <2>7, <4>1
      <4>3. H!Index(t.cap, y) > j.bucket \/ (H!Index(t.cap, y) = j.bucket /\ PlaceIn(t, y) >= p)
        BY <2>6, <4>1
      <4> QED
        BY <1>10, <4>1, <4>2, <4>3
    <3>2. ASSUME NEW y \in TodoOf(t, j), y # k PROVE y \in TodoOf(t, m)
      <4>1. /\ y \in KeysOf(t)
            /\ H!Index(t.cap, y) > j.bucket \/ (H!Index(t.cap, y) = j.bucket /\ PlaceIn(t, y) >= p)
        BY <1>10
      <4>2. H!Index(t.cap, y) > j.bucket \/ (H!Index(t.cap, y) = j.bucket /\ PlaceIn(t, y) >= p + 1)
        BY <2>6, <3>2, <4>1, Zenon
      <4> QED
        BY <2>5, <4>1, <4>2
    <3> QED
      BY <3>1, <3>2, Zenon
  <2> QED
    BY <1>1, <1>13, <1>12, <2>3, <2>4, <2>8 DEF m, n
<1>15. CASE ~(p < Len(c)) /\ later = {}
  <2>1. m = [j EXCEPT !.prev = j.next, !.next = <<>>]
    BY <1>3, <1>4, <1>15, <1>6
  <2> HIDE DEF m
  <2>2. /\ m \in [bucket : Nat, next : OneKey, prev : OneKey] /\ m.prev = <<k>> /\ m.next = <<>>
    BY <1>1, <1>2, <2>1 DEF OneKey
  <2>3. TodoOf(t, m) = {}
    BY <2>2 DEF TodoOf
  <2>4. \A y \in KeysOf(t) : ~(H!Index(t.cap, y) > j.bucket)
    <3>1. j.bucket + 1 \in Nat /\ j.bucket \in Nat
      BY <1>1
    <3>2. \A y \in KeysOf(t) : H!Index(t.cap, y) \in Nat
      BY KeysPlaced
    <3>3. \A y \in KeysOf(t) : ~(H!Index(t.cap, y) >= j.bucket + 1)
      BY <1>15, <3>1, FullRight
    <3> QED
      BY <3>1, <3>2, <3>3
  <2>5. ASSUME NEW y \in KeysOf(t), H!Index(t.cap, y) = j.bucket, PlaceIn(t, y) >= p PROVE y = k
    <3>1. PlaceIn(t, y) \in 1..Len(c) /\ (PlaceIn(t, y) = p <=> y = k)
      BY <1>11, <2>5
    <3> HIDE DEF c
    <3>2. PlaceIn(t, y) = p
      BY <1>3, <1>4, <1>15, <2>5, <3>1
    <3> QED
      BY <3>1, <3>2
  <2>6. TodoOf(t, m) = TodoOf(t, j) \ {k}
    <3>1. ASSUME NEW y \in TodoOf(t, j) PROVE y = k
      <4>1. /\ y \in KeysOf(t)
            /\ H!Index(t.cap, y) > j.bucket \/ (H!Index(t.cap, y) = j.bucket /\ PlaceIn(t, y) >= p)
        BY <1>10
      <4> QED
        BY <2>4, <2>5, <4>1, Zenon
    <3> QED
      BY <2>3, <3>1, Zenon
  <2> QED
    BY <1>13, <1>12, <2>2, <2>6 DEF m, n
<1>16. CASE ~(p < Len(c)) /\ later # {}
  <2>1. m = [bucket |-> i, prev |-> j.next, next |-> <<Head(t.buckets[i]).key>>]
    BY <1>3, <1>4, <1>16, <1>6
  <2>2. j.bucket + 1 \in Nat /\ j.bucket \in Nat
    BY <1>1
  <2> HIDE DEF m
  <2>3. m.bucket = i /\ m.next = <<Head(t.buckets[i]).key>> /\ m.prev = <<k>>
    BY <1>2, <2>1
  <2>4. /\ TodoOf(t, m) = {y \in KeysOf(t) : H!Index(t.cap, y) >= j.bucket + 1}
        /\ m.bucket \in 0..(t.cap - 1) /\ m.next \in OneKey /\ m.next # <<>>
        /\ H!Holds(t.buckets[m.bucket], m.next[1])
    BY <1>16, <2>2, <2>3, AtHead
  <2>5. m \in [bucket : Nat, next : OneKey, prev : OneKey]
    <3>1. m = [bucket |-> m.bucket, next |-> m.next, prev |-> m.prev]
      BY <2>1
    <3> HIDE DEF i
    <3>2. m.prev \in OneKey /\ m.bucket \in Nat
      BY <1>1, <1>2, <2>3, <2>4
    <3> QED
      BY <2>4, <3>1, <3>2
  <2>6. ASSUME NEW y \in KeysOf(t), H!Index(t.cap, y) = j.bucket, PlaceIn(t, y) >= p PROVE y = k
    <3>1. PlaceIn(t, y) \in 1..Len(c) /\ (PlaceIn(t, y) = p <=> y = k)
      BY <1>11, <2>6
    <3> HIDE DEF c
    <3>2. PlaceIn(t, y) = p
      BY <1>3, <1>4, <1>16, <2>6, <3>1
    <3> QED
      BY <3>1, <3>2
  <2>7. \A y \in KeysOf(t) : H!Index(t.cap, y) \in Nat
    BY KeysPlaced
  <2>8. TodoOf(t, m) = TodoOf(t, j) \ {k}
    <3>1. ASSUME NEW y \in KeysOf(t), y \in TodoOf(t, j), y # k PROVE H!Index(t.cap, y) >= j.bucket + 1
      <4>1. H!Index(t.cap, y) > j.bucket
        BY <1>10, <2>6, <3>1
      <4> QED
        BY <2>2, <2>7, <4>1
    <3>2. ASSUME NEW y \in KeysOf(t), H!Index(t.cap, y) >= j.bucket + 1 PROVE y \in TodoOf(t, j) /\ y # k
      <4>1. H!Index(t.cap, y) > j.bucket
        BY <2>2, <2>7, <3>2
      <4>2. y # k
        BY <1>7, <2>2, <4>1
      <4> QED
        BY <1>10, <4>1, <4>2
    <3>3. TodoOf(t, j) \subseteq KeysOf(t)
      BY <1>10
    <3> QED
      BY <2>4, <3>1, <3>2, <3>3, Zenon
  <2> QED
    BY <1>13, <1>12, <2>3, <2>4, <2>5, <2>8 DEF m, n
<1> QED
  BY <1>14, <1>15, <1>16

\* The entry returned last goes: what was still to be returned stays so.
LEMMA IterRemoves ==
  ASSUME NEW t, Shaped(t), Counted(t), NEW j, IterFits(t, j), j.prev # <<>>
  PROVE  LET u == H!IterRemove(t, j).table
             m == [j EXCEPT !.prev = <<>>]
         IN  j.prev[1] \in AnyKey /\ IterFits(u, m) /\ TodoOf(u, m) = TodoOf(t, j)
<1> DEFINE k == j.prev[1]
           m == [j EXCEPT !.prev = <<>>]
           u == H!Remove(t, k).table
           b == H!Index(t.cap, k)
           c == H!Chain(t, k)
           p == H!Place(c, k)
           d == H!Seqs!RemoveAt(c, p)
<1>1. j \in [bucket : Nat, next : OneKey, prev : OneKey] /\ k \in AnyKey /\ k \notin TodoOf(t, j)
  BY DEF IterFits, OneKey
<1>2. u = H!IterRemove(t, j).table
  BY DEF H!IterRemove
<1>3. /\ m \in [bucket : Nat, next : OneKey, prev : OneKey] /\ m.prev = <<>>
      /\ m.next = j.next /\ m.bucket = j.bucket
  BY <1>1 DEF OneKey
<1>4. Shaped(u) /\ All(u) = AllBut(t, k)
  BY <1>1, RemoveKeeps
<1>5. KeysOf(u) = KeysOf(t) \ {k}
  BY <1>4 DEF KeysOf, AllBut
<1>6. CASE ~H!Holds(c, k)
  <2>1. u = t
    BY <1>6 DEF H!Remove, H!Refused, H!Chain
  <2> HIDE DEF u, m
  <2>2. TodoOf(u, m) = TodoOf(t, j)
    BY <1>3, <2>1 DEF TodoOf
  <2>3. IterFits(u, m)
    BY <1>3, <2>1 DEF IterFits
  <2> QED
    BY <1>1, <1>2, <2>2, <2>3 DEF m
<1>7. CASE H!Holds(c, k)
  <2>1. t.size # 0
    BY <1>1, <1>7, OthersCounted
  <2>2. u = WithBucket(t, b, d, t.size - 1)
    BY <1>1, <1>7, <2>1, RemoveFound
  <2>3. b \in 0..(t.cap - 1) /\ c \in Chains /\ c = t.buckets[b]
    BY <1>1, ChainType DEF H!Chain
  <2>4. p \in 1..Len(c) /\ c[p].key = k
    BY <1>7, <2>3, PlaceFound
  <2>5. /\ d \in Chains /\ Len(d) = Len(c) - 1 /\ Len(c) \in Nat
        /\ \A n \in 1..(Len(c) - 1) : d[n] = c[IF n < p THEN n ELSE n + 1]
    <3> HIDE DEF c, p
    <3>1. Len(c) \in Nat
      BY <2>3 DEF Chains
    <3>2. d \in Chains /\ Len(d) = Len(c) - 1
      BY <2>3, <2>4, CutOut
    <3>3. \A n \in 1..(Len(c) - 1) : d[n] = c[IF n < p THEN n ELSE n + 1]
      BY <2>3, <2>4, CutOut
    <3> QED
      BY <3>1, <3>2, <3>3
  <2>6. u.cap = t.cap /\ \A i \in 0..(t.cap - 1) : u.buckets[i] = IF i = b THEN d ELSE t.buckets[i]
    BY <2>2 DEF WithBucket, Shaped
  <2> HIDE DEF u, d, c, p, b, m
  <2>7. ASSUME NEW x \in KeysOf(u)
        PROVE  /\ x \in KeysOf(t) /\ H!Index(u.cap, x) = H!Index(t.cap, x)
               /\ H!Index(t.cap, x) # b => H!Chain(u, x) = H!Chain(t, x)
               /\ H!Index(t.cap, x) = b => H!Chain(u, x) = d /\ H!Chain(t, x) = c
    <3>1. x \in KeysOf(t) /\ H!Index(t.cap, x) \in 0..(t.cap - 1)
      BY <1>5, KeysPlaced
    <3> QED
      BY <2>3, <2>6, <3>1 DEF H!Chain
  <2>8. ASSUME NEW x \in KeysOf(u), H!Index(t.cap, x) = b
        PROVE  /\ PlaceIn(t, x) \in 1..Len(c) /\ PlaceIn(t, x) # p
               /\ PlaceIn(u, x) = IF PlaceIn(t, x) < p THEN PlaceIn(t, x) ELSE PlaceIn(t, x) - 1
    <3> DEFINE r == PlaceIn(t, x)
               q == IF r < p THEN r ELSE r - 1
    <3>1. x \in KeysOf(t) /\ H!Chain(t, x) = c /\ H!Chain(u, x) = d /\ x # k
      BY <1>5, <2>7, <2>8
    <3>2. r \in 1..Len(c) /\ c[r].key = x
      BY <3>1, KeysPlaced
    <3>3. r # p
      BY <2>4, <3>1, <3>2
    <3> HIDE DEF r
    <3>4. q \in 1..(Len(c) - 1) /\ (IF q < p THEN q ELSE q + 1) = r
      BY <2>4, <2>5, <3>2, <3>3
    <3>5. d[q] = c[r] /\ q \in 1..Len(d)
      BY <2>5, <3>4
    <3> HIDE DEF q
    <3>6. H!Place(d, d[q].key) = q
      BY <2>5, <3>5, PlaceThere
    <3> QED
      BY <3>1, <3>2, <3>3, <3>5, <3>6 DEF q, r, PlaceIn
  <2>9. CASE j.next = <<>>
    <3>1. TodoOf(u, m) = {} /\ TodoOf(t, j) = {}
      BY <1>3, <2>9 DEF TodoOf
    <3> QED
      BY <1>1, <1>2, <1>3, <2>9, <3>1 DEF IterFits, m
  <2>10. CASE j.next # <<>>
    <3> DEFINE y == j.next[1]
               a == j.bucket
    <3>1. a \in 0..(t.cap - 1) /\ H!Holds(t.buckets[a], y) /\ t.buckets[a] \in Chains
      BY <2>10 DEF IterFits, Shaped
    <3>2. H!Place(t.buckets[a], y) \in 1..Len(t.buckets[a]) /\ t.buckets[a][H!Place(t.buckets[a], y)].key = y
      BY <3>1, PlaceFound
    <3>3. KeyIsAt(t, y, a, H!Place(t.buckets[a], y))
      BY <3>1, <3>2, KeyAt
    <3> HIDE DEF y, a
    <3>4. /\ y \in KeysOf(t) /\ H!Index(t.cap, y) = a
          /\ H!Chain(t, y) = t.buckets[a] /\ PlaceIn(t, y) = H!Place(t.buckets[a], y)
      BY <3>3 DEF KeyIsAt
    <3>5. TodoOf(t, j) = {x \in KeysOf(t) : \/ H!Index(t.cap, x) > a
                                            \/ H!Index(t.cap, x) = a /\ PlaceIn(t, x) >= PlaceIn(t, y)}
      BY <2>10, <3>4 DEF TodoOf, y, a
    <3>6. y \in TodoOf(t, j)
      <4>1. PlaceIn(t, y) >= PlaceIn(t, y)
        BY <3>4, KeysPlaced
      <4> QED
        BY <3>4, <3>5, <4>1
    <3>7. y # k /\ y \in KeysOf(u)
      BY <1>1, <1>5, <3>4, <3>6
    <3>8. H!Chain(u, y) = u.buckets[a] /\ H!Holds(u.buckets[a], y)
      <4>1. H!Chain(u, y) = u.buckets[a]
        BY <2>6, <3>4 DEF H!Chain
      <4> QED
        BY <1>4, <3>7, <4>1, KeysPlaced
    <3>9. TodoOf(u, m) = {x \in KeysOf(u) : \/ H!Index(t.cap, x) > a
                                            \/ H!Index(t.cap, x) = a /\ PlaceIn(u, x) >= PlaceIn(u, y)}
      <4>1. m.next # <<>> /\ m.next[1] = y /\ m.bucket = a
        BY <1>3, <2>10 DEF y, a
      <4>2. H!Place(u.buckets[m.bucket], m.next[1]) = PlaceIn(u, y)
        BY <3>8, <4>1 DEF PlaceIn
      <4> QED
        BY <2>6, <4>1, <4>2 DEF TodoOf
    <3>10. ASSUME NEW x \in KeysOf(u), H!Index(t.cap, x) = a
           PROVE  PlaceIn(u, x) >= PlaceIn(u, y) <=> PlaceIn(t, x) >= PlaceIn(t, y)
      <4>1. CASE a = b
        <5>1. /\ PlaceIn(t, x) \in 1..Len(c) /\ PlaceIn(t, x) # p
              /\ PlaceIn(u, x) = IF PlaceIn(t, x) < p THEN PlaceIn(t, x) ELSE PlaceIn(t, x) - 1
          BY <2>8, <3>10, <4>1
        <5>2. /\ PlaceIn(t, y) \in 1..Len(c) /\ PlaceIn(t, y) # p
              /\ PlaceIn(u, y) = IF PlaceIn(t, y) < p THEN PlaceIn(t, y) ELSE PlaceIn(t, y) - 1
          BY <2>8, <3>4, <3>7, <4>1
        <5> QED
          BY <2>4, <2>5, <5>1, <5>2
      <4>2. CASE a # b
        BY <2>7, <3>4, <3>7, <3>10, <4>2 DEF PlaceIn
      <4> QED
        BY <4>1, <4>2
    <3>11. TodoOf(u, m) = TodoOf(t, j)
      <4>1. \A x \in TodoOf(t, j) : x \in KeysOf(u)
        BY <1>1, <1>5, <3>5
      <4>2. \A x \in KeysOf(u) : x \in KeysOf(t)
        BY <1>5
      <4> QED
        BY <3>5, <3>9, <3>10, <4>1, <4>2
    <3>12. IterFits(u, m)
      <4>1. m.bucket \in 0..(u.cap - 1) /\ H!Holds(u.buckets[m.bucket], m.next[1])
        BY <1>3, <2>6, <3>1, <3>8 DEF y, a
      <4> QED
        BY <1>3, <4>1 DEF IterFits
    <3> QED
      BY <1>1, <1>2, <3>11, <3>12 DEF m
  <2> QED
    BY <2>9, <2>10
<1> QED
  BY <1>6, <1>7

\* A value is put in the place of another: what is still to be returned stays so.
LEMMA IterReplaces ==
  ASSUME NEW t, Shaped(t), NEW j, IterFits(t, j), NEW u, Shaped(u), SameKeys(t, u)
  PROVE  IterFits(u, j) /\ TodoOf(u, j) = TodoOf(t, j)
<1>1. ASSUME NEW i \in 0..(t.cap - 1), NEW x
      PROVE  /\ H!Places(u.buckets[i], x) = H!Places(t.buckets[i], x)
             /\ H!Holds(u.buckets[i], x) <=> H!Holds(t.buckets[i], x)
             /\ H!Place(u.buckets[i], x) = H!Place(t.buckets[i], x)
  <2>1. DOMAIN u.buckets[i] = 1..Len(t.buckets[i]) /\ DOMAIN t.buckets[i] = 1..Len(t.buckets[i])
    BY DEF Shaped, Chains, SameKeys
  <2>2. H!Places(u.buckets[i], x) = H!Places(t.buckets[i], x)
    BY <2>1 DEF H!Places, SameKeys
  <2> QED
    BY <2>2 DEF H!Holds, H!Place
<1>2. ASSUME NEW x \in AnyKey
      PROVE  /\ x \in KeysOf(u) <=> x \in KeysOf(t)
             /\ H!Index(u.cap, x) = H!Index(t.cap, x) /\ PlaceIn(u, x) = PlaceIn(t, x)
  <2>1. H!Index(t.cap, x) \in 0..(t.cap - 1) /\ H!Index(u.cap, x) = H!Index(t.cap, x)
    BY ChainType DEF SameKeys
  <2>2. /\ H!Holds(H!Chain(u, x), x) <=> H!Holds(H!Chain(t, x), x)
        /\ PlaceIn(u, x) = PlaceIn(t, x)
    BY <1>1, <2>1 DEF H!Chain, PlaceIn, SameKeys
  <2>3. x \in KeysOf(u) <=> H!Holds(H!Chain(u, x), x)
    BY LookedUp DEF KeysOf
  <2>4. x \in KeysOf(t) <=> H!Holds(H!Chain(t, x), x)
    BY LookedUp DEF KeysOf
  <2> QED
    BY <2>1, <2>2, <2>3, <2>4
<1>3. KeysOf(u) \subseteq AnyKey /\ KeysOf(t) \subseteq AnyKey
  BY KeysPlaced
<1>4. KeysOf(u) = KeysOf(t)
  BY <1>2, <1>3
<1>5. CASE j.next = <<>>
  <2>1. TodoOf(u, j) = {} /\ TodoOf(t, j) = {}
    BY <1>5 DEF TodoOf
  <2> QED
    BY <1>5, <2>1 DEF IterFits
<1>6. CASE j.next # <<>>
  <2>1. j.bucket \in 0..(t.cap - 1) /\ H!Holds(t.buckets[j.bucket], j.next[1])
    BY <1>6 DEF IterFits
  <2>2. /\ H!Holds(u.buckets[j.bucket], j.next[1])
        /\ H!Place(u.buckets[j.bucket], j.next[1]) = H!Place(t.buckets[j.bucket], j.next[1])
    BY <1>1, <2>1
  <2>3. TodoOf(u, j) = TodoOf(t, j)
    BY <1>2, <1>3, <1>4, <1>6, <2>2 DEF TodoOf, SameKeys
  <2> QED
    BY <2>1, <2>2, <2>3 DEF IterFits, SameKeys
<1> QED
  BY <1>5, <1>6
-----------------------------------------------------------------------------
(***************************************************************************)
(* The client.                                                             *)
(***************************************************************************)
\* The table is well made, and its iterator stands at an entry not returned yet, or at none.
TablesInv ==
    /\ Shaped(table) /\ Counted(table) /\ IterFits(table, it)
    /\ mode \in {"idle", "walk", "crashed"}
    /\ mode # "walk" => it = NoIter

\* No walk: nothing to be returned.
LEMMA NoIterFits ==
  ASSUME NEW t
  PROVE  IterFits(t, NoIter) /\ TodoOf(t, NoIter) = {}
  BY DEF IterFits, TodoOf, NoIter, OneKey

\* A table stands for the function of its entries.
LEMMA StandsRight == Shaped(table) => Stands = FunOf(All(table))
<1> SUFFICES ASSUME Shaped(table) PROVE Stands = FunOf(All(table))
  OBVIOUS
<1> DEFINE c == H!Entries(table)
           A == {c[i] : i \in DOMAIN c}
<1>1. c \in Chains /\ In(c) = All(table)
  BY EntriesRight
<1>2. A = All(table)
  <2> HIDE DEF c
  <2> QED
    BY <1>1 DEF In, Chains
<1>3. Stands = FunOf(A)
  BY DEF Stands, FunOf
<1> QED
  BY <1>2, <1>3

\* What the iterator has still to return, by the keys' buckets and places.
LEMMA TodoRight == Shaped(table) /\ IterFits(table, it) => Todo = TodoOf(table, it)
<1> SUFFICES ASSUME Shaped(table), IterFits(table, it) PROVE Todo = TodoOf(table, it)
  OBVIOUS
<1>1. DOMAIN Stands = KeysOf(table)
  BY StandsRight, AllFunctional, FunAt DEF KeysOf
<1>2. CASE it.next = <<>>
  BY <1>2 DEF Todo, TodoOf
<1>3. CASE it.next # <<>>
  <2> DEFINE b == it.bucket
             c == table.buckets[b]
             p == H!Place(c, it.next[1])
             Rest == {c[i].key : i \in p..Len(c)}
  <2>1. b \in 0..(table.cap - 1) /\ H!Holds(c, it.next[1]) /\ c \in Chains
    BY <1>3 DEF IterFits, Shaped
  <2>2. p \in 1..Len(c) /\ Len(c) \in Nat
    <3> HIDE DEF c
    <3> QED
      BY <2>1, PlaceFound DEF Chains
  <2>3. Todo = Rest \cup {k \in KeysOf(table) : H!Index(table.cap, k) > b}
    BY <1>1, <1>3 DEF Todo
  <2>4. TodoOf(table, it) = {k \in KeysOf(table) : \/ H!Index(table.cap, k) > b
                                                   \/ H!Index(table.cap, k) = b /\ PlaceIn(table, k) >= p}
    BY <1>3 DEF TodoOf
  <2> HIDE DEF p
  <2>5. ASSUME NEW i \in p..Len(c)
        PROVE  /\ c[i].key \in KeysOf(table) /\ H!Index(table.cap, c[i].key) = b
               /\ PlaceIn(table, c[i].key) >= p
    <3>1. i \in 1..Len(c) /\ i >= p
      BY <2>2
    <3>2. KeyIsAt(table, table.buckets[b][i].key, b, i)
      BY <2>1, <3>1, KeyAt
    <3> QED
      BY <3>1, <3>2 DEF KeyIsAt
  <2>6. ASSUME NEW k \in KeysOf(table), H!Index(table.cap, k) = b, PlaceIn(table, k) >= p
        PROVE  k \in Rest
    <3>1. H!Chain(table, k) = c
      BY <2>6 DEF H!Chain
    <3>2. PlaceIn(table, k) \in 1..Len(c) /\ c[PlaceIn(table, k)].key = k
      BY <3>1, KeysPlaced
    <3>3. PlaceIn(table, k) \in p..Len(c)
      BY <2>2, <2>6, <3>2
    <3> QED
      BY <3>2, <3>3
  <2> HIDE DEF c
  <2> QED
    BY <2>3, <2>4, <2>5, <2>6
<1> QED
  BY <1>2, <1>3

\* What the contract sees, before a step and after it.
LEMMA ReadNow == TablesInv => Stands = FunOf(All(table)) /\ Todo = TodoOf(table, it)
  BY StandsRight, TodoRight DEF TablesInv

LEMMA ReadNext == TablesInv' => Stands' = FunOf(All(table')) /\ Todo' = TodoOf(table', it')
<1>1. (TablesInv => Stands = FunOf(All(table)) /\ Todo = TodoOf(table, it))'
  BY ReadNow, PTL
<1> QED
  BY <1>1

\* A new table is well made.
LEMMA InitKept == TablesInit => TablesInv
<1> SUFFICES ASSUME TablesInit PROVE TablesInv
  OBVIOUS
<1>1. PICK n \in Capacities : table = H!NewTable(n)
  BY DEF TablesInit
<1>2. n \in Nat
  BY TablesAssumption
<1> QED
  BY <1>1, <1>2, NewKept, NoIterFits DEF TablesInit, TablesInv

\* A call of the client outside a walk leaves the invariant when it leaves the table well made.
LEMMA OwnKept ==
  ASSUME TablesInv, NEW op, NEW key, NEW val, NEW alloc, NEW r,
         OwnCall(op, key, val, alloc, r), Shaped(r.table), Counted(r.table)
  PROVE  /\ TablesInv' /\ Stands = FunOf(All(table)) /\ Stands' = FunOf(All(r.table))
         /\ Todo' = Todo /\ table' = r.table
         /\ call' = [op |-> op, key |-> key, val |-> val, alloc |-> alloc]
         /\ answer' = [stat |-> r.stat, out |-> r.out]
         /\ call'.op = op /\ call'.key = key /\ call'.val = val /\ call'.alloc = alloc
         /\ answer'.stat = r.stat /\ answer'.out = r.out
<1>1. /\ mode = "idle" /\ it' = it /\ table' = r.table /\ mode' \in {"idle", "crashed"}
      /\ call' = [op |-> op, key |-> key, val |-> val, alloc |-> alloc]
      /\ answer' = [stat |-> r.stat, out |-> r.out]
  BY DEF OwnCall, Call
<1>2. it = NoIter /\ it' = NoIter
  BY <1>1 DEF TablesInv
<1>3. TablesInv'
  <2>1. Shaped(table') /\ Counted(table') /\ IterFits(table', it')
    BY <1>1, <1>2, NoIterFits
  <2> QED
    BY <1>1, <1>2, <2>1 DEF TablesInv
<1>4. Stands = FunOf(All(table)) /\ Todo = TodoOf(table, it)
  BY ReadNow
<1>5. Stands' = FunOf(All(table')) /\ Todo' = TodoOf(table', it')
  BY <1>3, ReadNext
<1> QED
  BY <1>1, <1>2, <1>3, <1>4, <1>5, NoIterFits

\* A table's function at its entries.
LEMMA FunRight ==
  ASSUME NEW t, Shaped(t)
  PROVE  /\ DOMAIN FunOf(All(t)) = KeysOf(t)
         /\ \A e \in All(t) : e.key \in KeysOf(t) /\ FunOf(All(t))[e.key] = e.val
<1>1. Functional(All(t))
  BY AllFunctional
<1> QED
  BY <1>1, FunAt DEF KeysOf

\* cc_hashtable_add gives the function the value at the key, or fails and changes nothing.
LEMMA AddStep ==
  ASSUME TablesInv, Add
  PROVE  TablesInv' /\ Contract!Next
<1>1. PICK key \in AnyKey, val \in Values, room \in BOOLEAN, alloc \in BOOLEAN :
         OwnCall("add", key, val, room /\ alloc, H!Add(table, key, val, room, alloc))
  BY DEF Add
<1> DEFINE r == H!Add(table, key, val, room, alloc)
<1>2. /\ Shaped(r.table) /\ Counted(r.table)
      /\ \/ r.stat = "OK" /\ All(r.table) = AllBut(table, key) \cup {Pair(key, val)}
         \/ r.stat \in {"ALLOC", "MAX_CAPACITY"} /\ All(r.table) = All(table)
  BY AddKeeps DEF TablesInv
<1>3. OwnCall("add", key, val, room /\ alloc, r)
  BY <1>1
<1> HIDE DEF r
<1>4. /\ TablesInv' /\ Stands = FunOf(All(table)) /\ Stands' = FunOf(All(r.table))
      /\ Todo' = Todo /\ call'.op = "add" /\ call'.key = key /\ call'.val = val
      /\ answer'.stat = r.stat
  BY <1>2, <1>3, OwnKept
<1>5. CASE r.stat = "OK" /\ All(r.table) = AllBut(table, key) \cup {Pair(key, val)}
  <2> DEFINE A == All(table)
             B == All(r.table)
  <2>1. Functional(A) /\ B = Renewed(A, key, val)
    BY <1>5, AllFunctional DEF TablesInv, AllBut, Renewed
  <2>2. Stands = FunOf(A) /\ Stands' = FunOf(B)
    BY <1>4
  <2> HIDE DEF A, B
  <2>3. FunOf(Renewed(A, key, val)) = Given(FunOf(A), key, val)
    BY <2>1, FunWith
  <2>4. Stands' = [x \in DOMAIN Stands \cup {key} |-> IF x = key THEN val ELSE Stands[x]]
    BY <2>1, <2>2, <2>3 DEF Given
  <2> QED
    BY <1>4, <1>5, <2>4 DEF Contract!Next, Contract!AddEntry, Contract!With
<1>6. CASE r.stat \in {"ALLOC", "MAX_CAPACITY"} /\ All(r.table) = All(table)
  BY <1>4, <1>6 DEF Contract!Next, Contract!AddEntry, Contract!Failed, Contract!Refusals
<1> QED
  BY <1>2, <1>5, <1>6

\* cc_hashtable_get answers with the function's value.
LEMMA GetStep ==
  ASSUME TablesInv, Get
  PROVE  TablesInv' /\ Contract!Next
<1>1. PICK key \in AnyKey : OwnCall("get", key, Junk, TRUE, H!Get(table, key))
  BY DEF Get
<1> DEFINE r == H!Get(table, key)
           c == H!Chain(table, key)
           e == c[H!Place(c, key)]
<1>2. Shaped(table) /\ Counted(table)
  BY DEF TablesInv
<1>3. r.table = table
  BY DEF H!Get, H!DoneWith, H!Refused
<1>4. IF H!Holds(c, key) THEN r.stat = "OK" /\ r.out = e.val ELSE r.stat = "KEY_NOT_FOUND"
  BY DEF H!Get, H!DoneWith, H!Refused
<1>5. /\ H!Holds(c, key) <=> key \in KeysOf(table)
      /\ H!Holds(c, key) => e \in All(table) /\ e.key = key
  BY <1>2, LookedUp DEF KeysOf
<1>6. OwnCall("get", key, Junk, TRUE, r)
  BY <1>1
<1> HIDE DEF r, c, e
<1>7. /\ TablesInv' /\ Stands = FunOf(All(table)) /\ Stands' = FunOf(All(table))
      /\ Todo' = Todo /\ call'.op = "get" /\ call'.key = key
      /\ answer' = [stat |-> r.stat, out |-> r.out] /\ answer'.stat = r.stat
  BY <1>2, <1>3, <1>6, OwnKept
<1>8. DOMAIN Stands = KeysOf(table) /\ \A x \in All(table) : Stands[x.key] = x.val
  BY <1>2, <1>7, FunRight
<1>9. IF key \in DOMAIN Stands THEN answer' = [stat |-> "OK", out |-> Stands[key]] ELSE answer'.stat # "OK"
  BY <1>4, <1>5, <1>7, <1>8
<1> QED
  BY <1>7, <1>9 DEF Contract!Next, Contract!GetValue

\* The key removed, in the function and in what is answered.
LEMMA RemovedRight ==
  ASSUME NEW t, Shaped(t), Counted(t), NEW key \in AnyKey
  PROVE  LET r == H!Remove(t, key)
             f == FunOf(All(t))
         IN  /\ Shaped(r.table) /\ Counted(r.table)
             /\ IF key \in DOMAIN f
                THEN /\ r.stat = "OK" /\ r.out = f[key]
                     /\ FunOf(All(r.table)) = [x \in DOMAIN f \ {key} |-> f[x]]
                ELSE r.stat = "KEY_NOT_FOUND" /\ r.table = t
<1> DEFINE r == H!Remove(t, key)
           f == FunOf(All(t))
<1>1. /\ Shaped(r.table) /\ Counted(r.table) /\ All(r.table) = AllBut(t, key)
      /\ IF \E e \in All(t) : e.key = key THEN r.stat = "OK" /\ Pair(key, r.out) \in All(t)
         ELSE r.stat = "KEY_NOT_FOUND" /\ r.table = t
  BY RemoveKeeps
<1> HIDE DEF r
<1>2. /\ DOMAIN f = KeysOf(t) /\ \A e \in All(t) : f[e.key] = e.val
      /\ key \in DOMAIN f <=> \E e \in All(t) : e.key = key
  <2>1. DOMAIN f = KeysOf(t) /\ \A e \in All(t) : f[e.key] = e.val
    BY FunRight
  <2> HIDE DEF f
  <2> QED
    BY <2>1 DEF KeysOf
<1>3. FunOf(All(r.table)) = [x \in DOMAIN f \ {key} |-> f[x]]
  <2>1. Functional(All(t))
    BY AllFunctional
  <2> QED
    BY <1>1, <2>1, FunWithout DEF AllBut
<1>4. Pair(key, r.out).key = key /\ Pair(key, r.out).val = r.out
  BY DEF Pair
<1> QED
  BY <1>1, <1>2, <1>3, <1>4 DEF r

\* cc_hashtable_remove answers with the value and takes the key away.
LEMMA RemoveStep ==
  ASSUME TablesInv, RemoveKey
  PROVE  TablesInv' /\ Contract!Next
<1>1. PICK key \in AnyKey : OwnCall("remove", key, Junk, TRUE, H!Remove(table, key))
  BY DEF RemoveKey
<1> DEFINE r == H!Remove(table, key)
           f == FunOf(All(table))
<1>2. /\ Shaped(r.table) /\ Counted(r.table)
      /\ IF key \in DOMAIN f
         THEN /\ r.stat = "OK" /\ r.out = f[key]
              /\ FunOf(All(r.table)) = [x \in DOMAIN f \ {key} |-> f[x]]
         ELSE r.stat = "KEY_NOT_FOUND" /\ r.table = table
  BY RemovedRight DEF TablesInv
<1>3. OwnCall("remove", key, Junk, TRUE, r)
  BY <1>1
<1> HIDE DEF r
<1>4. /\ TablesInv' /\ Stands = f /\ Stands' = FunOf(All(r.table))
      /\ Todo' = Todo /\ call'.op = "remove" /\ call'.key = key
      /\ answer' = [stat |-> r.stat, out |-> r.out] /\ answer'.stat = r.stat
  BY <1>2, <1>3, OwnKept
<1>5. key \notin DOMAIN f => Stands' = f
  BY <1>2, <1>4
<1> HIDE DEF f
<1> QED
  BY <1>2, <1>4, <1>5 DEF Contract!Next, Contract!RemoveEntry, Contract!Failed, Contract!Without, Contract!Restrict

\* cc_hashtable_remove_all leaves the empty function.
LEMMA RemoveAllStep ==
  ASSUME TablesInv, RemoveAll
  PROVE  TablesInv' /\ Contract!Next
<1> DEFINE r == H!RemoveAll(table)
<1>1. Shaped(r.table) /\ Counted(r.table) /\ All(r.table) = {}
  BY RemoveAllKeeps DEF TablesInv
<1>2. OwnCall("remove_all", NullKey, Junk, TRUE, r)
  BY DEF RemoveAll
<1> HIDE DEF r
<1>3. TablesInv' /\ Stands' = FunOf({}) /\ Todo' = Todo /\ call'.op = "remove_all"
  BY <1>1, <1>2, OwnKept
<1> QED
  BY <1>3, FunEmpty DEF Contract!Next, Contract!Clear

\* Asking for a key of the table is answered rightly, unless it ends the program.
LEMMA ContainsStep ==
  ASSUME TablesInv, ContainsKey
  PROVE  TablesInv' /\ (answer'.stat = "CRASH" \/ Contract!Next)
<1>1. PICK key \in Keys : OwnCall("contains", key, Junk, TRUE, H!ContainsKey(table, key))
  BY DEF ContainsKey
<1> DEFINE r == H!ContainsKey(table, key)
           c == H!Chain(table, key)
<1>2. Shaped(table) /\ Counted(table) /\ key \in AnyKey
  BY DEF TablesInv, AnyKey
<1>3. r.table = table /\ (r.stat # "CRASH" => r.stat = "OK" /\ r.out = H!Holds(c, key))
  <2> DEFINE read == IF H!Holds(c, key) THEN 1..H!Place(c, key) ELSE DOMAIN c
             null == \E i \in read : c[i].key = NullKey
  <2>1. r = IF null THEN H!Refused(table, "CRASH") ELSE H!DoneWith(table, H!Holds(c, key))
    BY DEF H!ContainsKey
  <2> HIDE DEF r, null
  <2>2. CASE null
    BY <2>1, <2>2 DEF H!Refused
  <2>3. CASE ~null
    <3> DEFINE out == H!Holds(c, key)
    <3>1. r = [table |-> table, stat |-> "OK", out |-> out]
      BY <2>1, <2>3 DEF H!DoneWith
    <3> HIDE DEF out
    <3>2. r.table = table /\ r.stat = "OK" /\ r.out = out
      BY <3>1
    <3> QED
      BY <3>2 DEF out
  <2> QED
    BY <2>2, <2>3
<1>4. H!Holds(c, key) = (key \in KeysOf(table))
  <2>1. H!Holds(c, key) <=> key \in KeysOf(table)
    BY <1>2, LookedUp DEF KeysOf
  <2> QED
    BY <2>1 DEF H!Holds
<1>5. OwnCall("contains", key, Junk, TRUE, r)
  BY <1>1
<1> HIDE DEF r, c
<1>6. /\ TablesInv' /\ Stands = FunOf(All(table)) /\ Stands' = FunOf(All(table))
      /\ Todo' = Todo /\ call'.op = "contains" /\ call'.key = key
      /\ answer' = [stat |-> r.stat, out |-> r.out] /\ answer'.stat = r.stat
  BY <1>2, <1>3, <1>5, OwnKept
<1>7. DOMAIN Stands = KeysOf(table)
  BY <1>2, <1>6, FunRight
<1>8. r.stat = "OK" => answer' = [stat |-> "OK", out |-> key \in DOMAIN Stands]
  BY <1>3, <1>4, <1>6, <1>7
<1> QED
  BY <1>3, <1>6, <1>8 DEF Contract!Next, Contract!AskKey

\* The entries, listed, are each key once.
LEMMA ListedRight ==
  ASSUME NEW t, Shaped(t), Counted(t)
  PROVE  LET c == H!Entries(t)
             order == [i \in 1..t.size |-> c[i].key]
         IN  /\ DOMAIN c = 1..t.size /\ t.size \in Nat
             /\ order \in Contract!Bijection(1..t.size, KeysOf(t))
             /\ \A i \in 1..t.size : c[i].val = FunOf(All(t))[order[i]]
             /\ Cardinality(KeysOf(t)) = t.size
             /\ t.size = 0 => FunOf(All(t)) = <<>>
<1> DEFINE c == H!Entries(t)
           n == t.size
           order == [i \in 1..n |-> c[i].key]
           f == FunOf(All(t))
<1>1. c \in Chains /\ In(c) = All(t) /\ n = Len(c)
  BY EntriesRight, CountedByEntries
<1>2. n \in Nat /\ IsFiniteSet(All(t)) /\ n = Cardinality(All(t))
  BY DEF Shaped, Counted
<1>3. DOMAIN f = KeysOf(t) /\ \A e \in All(t) : f[e.key] = e.val
  BY FunRight
<1> HIDE DEF c, n, f
<1>4. DOMAIN c = 1..n /\ \A i, j \in 1..n : c[i].key = c[j].key => i = j
  BY <1>1 DEF Chains
<1>5. \A i \in 1..n : c[i] \in All(t)
  BY <1>1 DEF In
<1>6. /\ order \in [1..n -> KeysOf(t)] /\ \A i \in 1..n : order[i] = c[i].key
      /\ \A i, j \in 1..n : order[i] = order[j] => i = j
  BY <1>4, <1>5 DEF KeysOf
<1>7. \A k \in KeysOf(t) : \E i \in 1..n : order[i] = k
  <2>1. \A e \in All(t) : \E i \in 1..n : c[i] = e
    BY <1>1 DEF In
  <2> QED
    BY <1>6, <2>1 DEF KeysOf
<1>8. \A i \in 1..n : c[i].val = f[order[i]]
  BY <1>3, <1>5, <1>6
<1> HIDE DEF order
<1>9. order \in Contract!Bijection(1..n, KeysOf(t))
  BY <1>6, <1>7 DEF Contract!Bijection, Contract!Injection, Contract!Surjection, Contract!IsInjective
<1>10. order \in Bijection(1..n, KeysOf(t))
  BY <1>6, <1>7 DEF Bijection, Injection, Surjection, IsInjective
<1>11. Cardinality(KeysOf(t)) = n
  <2>1. IsFiniteSet(1..n) /\ Cardinality(1..n) = n
    <3>1. n \in Int /\ n >= 0
      BY <1>2
    <3>2. IsFiniteSet(1..n) /\ Cardinality(1..n) = IF 1 > n THEN 0 ELSE n - 1 + 1
      BY <3>1, FS_Interval
    <3> QED
      BY <3>1, <3>2
  <2> QED
    BY <1>10, <2>1, FS_Bijection DEF ExistsBijection
<1>12. n = 0 => f = <<>>
  <2>1. n = 0 => All(t) = {}
    BY <1>2, FS_EmptySet
  <2> QED
    BY <2>1, FunEmpty DEF f
<1> QED
  BY <1>2, <1>4, <1>8, <1>9, <1>11, <1>12 DEF c, n, f, order

\* Cardinality, as the contract has it and as the library does.
LEMMA SameCount ==
  ASSUME NEW S
  PROVE  Contract!Cardinality(S) = Cardinality(S)
  BY DEF Contract!Cardinality, Cardinality

\* A list of what the entries have, or a refusal.
LEMMA ListStep ==
  ASSUME TablesInv, NEW op \in {"keys", "values"}, NEW alloc \in BOOLEAN, NEW column,
         DOMAIN column = DOMAIN H!Entries(table),
         column \in Seq(AnyKey \cup Values),
         \A i \in DOMAIN column :
            column[i] = IF op = "keys" THEN H!Entries(table)[i].key ELSE H!Entries(table)[i].val,
         OwnCall(op, NullKey, Junk, alloc, H!Listed(table, column, alloc))
  PROVE  TablesInv' /\ Contract!Next
<1> DEFINE r == H!Listed(table, column, alloc)
           c == H!Entries(table)
           n == table.size
           order == [i \in 1..n |-> c[i].key]
           f == FunOf(All(table))
<1>1. Shaped(table) /\ Counted(table)
  BY DEF TablesInv
<1>2. /\ DOMAIN c = 1..n /\ n \in Nat
      /\ order \in Contract!Bijection(1..n, KeysOf(table))
      /\ \A i \in 1..n : c[i].val = f[order[i]]
      /\ Cardinality(KeysOf(table)) = n
      /\ n = 0 => f = <<>>
  BY <1>1, ListedRight
<1>3. \A i \in 1..n : order[i] = c[i].key
  OBVIOUS
<1>4. r.table = table /\ (r.stat = "OK" => r.out = column) /\ (r.stat # "OK" => ~alloc \/ n = 0)
  BY DEF H!Listed, H!Refused, H!DoneWith
<1>5. OwnCall(op, NullKey, Junk, alloc, r)
  OBVIOUS
<1> HIDE DEF r, c, order
<1>6. /\ TablesInv' /\ Stands = f /\ Stands' = f /\ Todo' = Todo
      /\ call'.op = op /\ call'.alloc = alloc /\ answer'.stat = r.stat /\ answer'.out = r.out
  BY <1>1, <1>4, <1>5, OwnKept
<1>7. DOMAIN f = KeysOf(table)
  BY <1>1, FunRight
<1>8. DOMAIN column = 1..n /\ Len(column) = n
  <2> HIDE DEF n
  <2> QED
    BY <1>2 DEF c
<1> HIDE DEF f, n
<1>9. \A i \in 1..n : column[i] = IF op = "keys" THEN order[i] ELSE f[order[i]]
  BY <1>2, <1>3, <1>8 DEF c
<1>10. Contract!List
  <2>1. CASE r.stat # "OK"
    BY <1>2, <1>4, <1>6, <2>1 DEF Contract!List
  <2>2. CASE r.stat = "OK"
    <3>1. Len(answer'.out) = Contract!Cardinality(DOMAIN Stands)
      BY <1>2, <1>4, <1>6, <1>7, <1>8, <2>2, SameCount
    <3>2. PICK o \in Contract!Bijection(1..n, KeysOf(table)) :
             \A i \in 1..n : column[i] = IF op = "keys" THEN o[i] ELSE f[o[i]]
      BY <1>2, <1>9
    <3>3. answer'.out = column /\ DOMAIN column = 1..n /\ DOMAIN Stands = KeysOf(table)
      BY <1>4, <1>6, <1>7, <1>8, <2>2
    <3>4. o \in Contract!Bijection(DOMAIN answer'.out, DOMAIN Stands)
      BY <3>2, <3>3
    <3>5. ASSUME NEW i \in 1..n
          PROVE  answer'.out[i] = IF call'.op = "keys" THEN o[i] ELSE Stands[o[i]]
      <4>1. column[i] = IF op = "keys" THEN o[i] ELSE f[o[i]]
        BY <3>2
      <4> QED
        BY <1>6, <3>3, <4>1
    <3> QED
      BY <1>6, <2>2, <3>1, <3>3, <3>4, <3>5 DEF Contract!List
  <2> QED
    BY <2>1, <2>2
<1> QED
  BY <1>6, <1>10 DEF Contract!Next

\* cc_hashtable_get_keys lists every key once.
LEMMA KeysStep ==
  ASSUME TablesInv, GetKeys
  PROVE  TablesInv' /\ Contract!Next
<1>1. PICK alloc \in BOOLEAN : OwnCall("keys", NullKey, Junk, alloc, H!GetKeys(table, alloc))
  BY DEF GetKeys
<1> DEFINE c == H!Entries(table)
           column == [i \in DOMAIN c |-> c[i].key]
<1>2. c \in Seq(Element)
  BY EntriesRight DEF TablesInv, Chains
<1>3. OwnCall("keys", NullKey, Junk, alloc, H!Listed(table, column, alloc))
  BY <1>1 DEF H!GetKeys
<1>4. column \in Seq(AnyKey \cup Values)
  <2> HIDE DEF c
  <2>1. Len(c) \in Nat /\ DOMAIN c = 1..Len(c) /\ \A i \in 1..Len(c) : c[i] \in Element
    BY <1>2
  <2>2. \A i \in 1..Len(c) : c[i].key \in AnyKey \cup Values
    BY <2>1 DEF Element
  <2> QED
    BY <2>1, <2>2
<1>5. DOMAIN column = DOMAIN c /\ \A i \in DOMAIN column : column[i] = c[i].key
  OBVIOUS
<1> HIDE DEF column
<1> QED
  BY <1>3, <1>4, <1>5, ListStep

\* cc_hashtable_get_values lists the value of every key.
LEMMA ValuesStep ==
  ASSUME TablesInv, GetValues
  PROVE  TablesInv' /\ Contract!Next
<1>1. PICK alloc \in BOOLEAN : OwnCall("values", NullKey, Junk, alloc, H!GetValues(table, alloc))
  BY DEF GetValues
<1> DEFINE c == H!Entries(table)
           column == [i \in DOMAIN c |-> c[i].val]
<1>2. c \in Seq(Element)
  BY EntriesRight DEF TablesInv, Chains
<1>3. OwnCall("values", NullKey, Junk, alloc, H!Listed(table, column, alloc))
  BY <1>1 DEF H!GetValues
<1>4. column \in Seq(AnyKey \cup Values)
  <2> HIDE DEF c
  <2>1. Len(c) \in Nat /\ DOMAIN c = 1..Len(c) /\ \A i \in 1..Len(c) : c[i] \in Element
    BY <1>2
  <2>2. \A i \in 1..Len(c) : c[i].val \in AnyKey \cup Values
    BY <2>1 DEF Element
  <2> QED
    BY <2>1, <2>2
<1>5. DOMAIN column = DOMAIN c /\ \A i \in DOMAIN column : column[i] = c[i].val
  OBVIOUS
<1> HIDE DEF column
<1> QED
  BY <1>3, <1>4, <1>5, ListStep

\* A walk starts with every key to be returned.
LEMMA StartStep ==
  ASSUME TablesInv, StartWalk
  PROVE  TablesInv' /\ Contract!Next
<1>1. /\ table' = table /\ it' = H!IterInit(table) /\ mode' = "walk" /\ call'.op = "iter_init"
  BY DEF StartWalk, NoCall
<1>2. Shaped(table) /\ Counted(table)
  BY DEF TablesInv
<1>3. IterFits(table, it') /\ TodoOf(table, it') = KeysOf(table)
  BY <1>1, <1>2, IterStarts
<1>4. TablesInv'
  BY <1>1, <1>2, <1>3 DEF TablesInv
<1>5. Stands = FunOf(All(table)) /\ Stands' = FunOf(All(table)) /\ Todo' = KeysOf(table)
  BY <1>1, <1>3, <1>4, ReadNow, ReadNext
<1>6. DOMAIN Stands = KeysOf(table)
  BY <1>2, <1>5, FunRight
<1> QED
  BY <1>1, <1>4, <1>5, <1>6 DEF Contract!Next, Contract!StartIter

\* What an iterator with a next entry still has to return.
LEMMA TodoOfNext ==
  ASSUME NEW t, Shaped(t), NEW j, IterFits(t, j), j.next # <<>>
  PROVE  TodoOf(t, j) # {}
  BY IterSteps

\* A step of a walk returns an entry not returned yet, or ends the walk when there is none.
LEMMA NextStep ==
  ASSUME TablesInv, WalkNext
  PROVE  TablesInv' /\ Contract!Next
<1> DEFINE n == H!IterNext(table, it)
<1>1. /\ mode = "walk" /\ table' = table /\ call'.op = "iter_next"
      /\ it' = IF n.stat = "OK" THEN n.it ELSE NoIter
      /\ answer'.stat = n.stat /\ answer'.out = n.entry
      /\ mode' = IF n.stat = "OK" THEN mode ELSE "idle"
  BY DEF WalkNext, NoCall
<1>2. Shaped(table) /\ Counted(table) /\ IterFits(table, it)
  BY DEF TablesInv
<1>3. CASE it.next = <<>>
  <2>1. n.stat = "ITER_END"
    BY <1>3 DEF H!IterNext
  <2> HIDE DEF n
  <2>2. it' = NoIter /\ mode' = "idle" /\ answer'.stat = "ITER_END"
    BY <1>1, <2>1
  <2>3. TablesInv'
    BY <1>1, <1>2, <2>2, NoIterFits DEF TablesInv
  <2>4. Stands' = Stands /\ Todo = {} /\ Todo' = {}
    <3>1. TodoOf(table, it) = {}
      BY <1>3 DEF TodoOf
    <3> QED
      BY <1>1, <2>2, <2>3, <3>1, ReadNow, ReadNext, NoIterFits
  <2> QED
    BY <1>1, <2>2, <2>3, <2>4 DEF Contract!Next, Contract!NextIter
<1>4. CASE it.next # <<>>
  <2>1. /\ n.stat = "OK" /\ n.entry \in All(table) /\ n.entry.key \in TodoOf(table, it)
        /\ IterFits(table, n.it) /\ TodoOf(table, n.it) = TodoOf(table, it) \ {n.entry.key}
    BY <1>2, <1>4, IterSteps
  <2> HIDE DEF n
  <2>2. it' = n.it /\ mode' = "walk" /\ answer'.stat = "OK" /\ answer'.out = n.entry
    BY <1>1, <2>1
  <2>3. TablesInv'
    BY <1>1, <1>2, <2>1, <2>2 DEF TablesInv
  <2>4. /\ Stands = FunOf(All(table)) /\ Stands' = Stands /\ Todo = TodoOf(table, it)
        /\ Todo' = Todo \ {n.entry.key} /\ n.entry.key \in Todo
    BY <1>1, <2>1, <2>2, <2>3, ReadNow, ReadNext
  <2>5. Stands[n.entry.key] = n.entry.val
    BY <1>2, <2>1, <2>4, FunRight
  <2> QED
    BY <1>1, <2>2, <2>3, <2>4, <2>5 DEF Contract!Next, Contract!NextIter
<1> QED
  BY <1>3, <1>4

\* cc_hashtable_iter_remove takes the entry returned last, and the walk goes on as it would.
LEMMA IterRemoveStep ==
  ASSUME TablesInv, WalkRemove
  PROVE  TablesInv' /\ Contract!Next
<1> DEFINE key == it.prev[1]
           r == H!Remove(table, key)
           f == FunOf(All(table))
           m == [it EXCEPT !.prev = <<>>]
<1>1. /\ mode = "walk" /\ it.prev # <<>> /\ it' = m
      /\ Call("iter_remove", key, Junk, TRUE, r)
  BY DEF WalkRemove, H!IterRemove
<1>2. Shaped(table) /\ Counted(table) /\ IterFits(table, it)
  BY DEF TablesInv
<1>3. key \in AnyKey /\ IterFits(r.table, m) /\ TodoOf(r.table, m) = TodoOf(table, it)
  BY <1>1, <1>2, IterRemoves DEF H!IterRemove
<1> HIDE DEF m
<1>4. /\ Shaped(r.table) /\ Counted(r.table)
      /\ IF key \in DOMAIN f
         THEN /\ r.stat = "OK" /\ r.out = f[key]
              /\ FunOf(All(r.table)) = [x \in DOMAIN f \ {key} |-> f[x]]
         ELSE r.stat = "KEY_NOT_FOUND" /\ r.table = table
  BY <1>2, <1>3, RemovedRight
<1> HIDE DEF r, key
<1>5. /\ table' = r.table /\ call'.op = "iter_remove" /\ call'.key = key
      /\ answer' = [stat |-> r.stat, out |-> r.out] /\ answer'.stat = r.stat
      /\ mode' = IF r.stat = "CRASH" THEN "crashed" ELSE mode
  BY <1>1 DEF Call
<1>6. mode' = "walk"
  BY <1>1, <1>4, <1>5
<1>7. TablesInv'
  BY <1>1, <1>3, <1>4, <1>5, <1>6 DEF TablesInv
<1>8. Stands = f /\ Stands' = FunOf(All(r.table)) /\ Todo' = Todo
  BY <1>1, <1>3, <1>5, <1>7, ReadNow, ReadNext
<1>9. key \notin DOMAIN f => Stands' = f
  BY <1>4, <1>8
<1> HIDE DEF f
<1> QED
  BY <1>4, <1>5, <1>7, <1>8, <1>9
  DEF Contract!Next, Contract!RemoveEntry, Contract!Failed, Contract!Without, Contract!Restrict

\* A value put in the place of another in a walk, and the walk goes on as it would.
LEMMA ReplaceStep ==
  ASSUME TablesInv, WalkReplace
  PROVE  TablesInv' /\ Contract!Next
<1>1. PICK key \in AnyKey, val \in Values :
         /\ H!Holds(H!Chain(table, key), key)
         /\ Call("add", key, val, TRUE, H!Add(table, key, val, TRUE, TRUE))
  BY DEF WalkReplace
<1> DEFINE r == H!Add(table, key, val, TRUE, TRUE)
           A == All(table)
           B == All(r.table)
<1>2. mode = "walk" /\ table.size < table.threshold /\ it' = it
  BY DEF WalkReplace
<1>3. Shaped(table) /\ Counted(table) /\ IterFits(table, it)
  BY DEF TablesInv
<1>4. r = H!Put(table, key, val, TRUE)
  <2>1. table.size \in Nat /\ table.threshold \in Nat
    BY <1>3 DEF Shaped
  <2>2. ~(table.size >= table.threshold)
    BY <1>2, <2>1
  <2> QED
    BY <2>2 DEF H!Add, H!Done
<1>5. Call("add", key, val, TRUE, r)
  BY <1>1
<1> HIDE DEF r
<1>6. /\ r.stat = "OK" /\ Shaped(r.table) /\ B = AllBut(table, key) \cup {Pair(key, val)}
      /\ SameKeys(table, r.table)
  <2>1. Replaced(table, key, val, H!Put(table, key, val, TRUE))
    BY <1>1, <1>3, PutFound
  <2> QED
    BY <1>4, <2>1 DEF Replaced
<1>7. Counted(r.table)
  <2>1. /\ Shaped(r.table) /\ Counted(r.table)
    BY <1>2, <1>3, <1>4, PutKeeps
  <2> QED
    BY <2>1
<1>8. IterFits(r.table, it) /\ TodoOf(r.table, it) = TodoOf(table, it)
  BY <1>3, <1>6, IterReplaces
<1>9. /\ table' = r.table /\ call'.op = "add" /\ call'.key = key /\ call'.val = val
      /\ answer'.stat = "OK" /\ mode' = "walk"
  BY <1>2, <1>5, <1>6 DEF Call
<1>10. TablesInv'
  BY <1>2, <1>6, <1>7, <1>8, <1>9 DEF TablesInv
<1>11. Stands = FunOf(A) /\ Stands' = FunOf(B) /\ Todo' = Todo
  BY <1>2, <1>8, <1>9, <1>10, ReadNow, ReadNext
<1>12. Functional(A) /\ B = Renewed(A, key, val)
  BY <1>3, <1>6, AllFunctional DEF AllBut, Renewed
<1> HIDE DEF A, B
<1>13. FunOf(Renewed(A, key, val)) = Given(FunOf(A), key, val)
  BY <1>12, FunWith
<1>14. Stands' = [x \in DOMAIN Stands \cup {key} |-> IF x = key THEN val ELSE Stands[x]]
  BY <1>11, <1>12, <1>13 DEF Given
<1> QED
  BY <1>9, <1>10, <1>11, <1>14 DEF Contract!Next, Contract!AddEntry, Contract!With

\* Every step keeps the table well made and is one the contract allows.
LEMMA StepRight ==
  ASSUME TablesInv, TablesNext
  PROVE  TablesInv' /\ (answer'.stat = "CRASH" \/ Contract!Next)
<1>1. CASE Add
  BY <1>1, AddStep
<1>2. CASE Get
  BY <1>2, GetStep
<1>3. CASE RemoveKey
  BY <1>3, RemoveStep
<1>4. CASE RemoveAll
  BY <1>4, RemoveAllStep
<1>5. CASE ContainsKey
  BY <1>5, ContainsStep
<1>6. CASE GetKeys
  BY <1>6, KeysStep
<1>7. CASE GetValues
  BY <1>7, ValuesStep
<1>8. CASE StartWalk
  BY <1>8, StartStep
<1>9. CASE WalkNext
  BY <1>9, NextStep
<1>10. CASE WalkRemove
  BY <1>10, IterRemoveStep
<1>11. CASE WalkReplace
  BY <1>11, ReplaceStep
<1> QED
  BY <1>1, <1>2, <1>3, <1>4, <1>5, <1>6, <1>7, <1>8, <1>9, <1>10, <1>11 DEF TablesNext

\* A table well made is stored as it should be.
LEMMA StoredHolds == TablesInv => Stored
<1> SUFFICES ASSUME TablesInv PROVE Stored
  OBVIOUS
<1>1. Shaped(table) /\ Counted(table)
  BY DEF TablesInv
<1>2. /\ DOMAIN table.buckets = 0..(table.cap - 1)
      /\ \A i \in 0..(table.cap - 1) :
            /\ table.buckets[i] \in Chains /\ DOMAIN table.buckets[i] = 1..Len(table.buckets[i])
            /\ \A e \in In(table.buckets[i]) : H!Index(table.cap, e.key) = i
  BY <1>1 DEF Shaped, Chains
<1>3. ASSUME NEW i \in DOMAIN table.buckets, NEW n \in DOMAIN table.buckets[i]
      PROVE  /\ H!Index(table.cap, table.buckets[i][n].key) = i
             /\ H!Places(table.buckets[i], table.buckets[i][n].key) = {n}
  <2>1. n \in 1..Len(table.buckets[i]) /\ table.buckets[i][n] \in In(table.buckets[i])
    BY <1>2, <1>3 DEF In
  <2> QED
    BY <1>2, <1>3, <2>1, PlaceThere
<1>4. table.size = Len(H!Entries(table))
  BY <1>1, CountedByEntries
<1>5. table.threshold = H!Threshold(table.cap) /\ table.size <= table.threshold
  BY <1>1 DEF Counted
<1> QED
  BY <1>2, <1>3, <1>4, <1>5 DEF Stored

\* The table is well made in every state.
LEMMA TablesAlways == TablesSpec => []TablesInv
<1>1. TablesInv /\ UNCHANGED tableVars => TablesInv'
  BY DEF TablesInv, tableVars
<1>2. TablesInv /\ [TablesNext]_tableVars => TablesInv'
  BY <1>1, StepRight
<1> QED
  BY <1>2, InitKept, PTL DEF TablesSpec

\* After any calls of cc_hashtable, with any keys and hashes, whichever allocation fails and
\* however walks are mixed with them, every entry is in the bucket of its key's hash, no key
\* is in the table twice, size counts the entries and the load is below the threshold.
THEOREM EntriesStored == TablesSpec => []Stored
  BY TablesAlways, StoredHolds, PTL

\* The table is a function from keys to values: add, get, remove, remove_all, get_keys and
\* get_values do to it and answer what they would for the function, and an iterator returns
\* every entry once, though entries are removed and values put in place of others on its
\* way.  A question of contains_key that walks into the null key ends the program instead.
THEOREM TableRefines == TablesSpec => ImplementsTable
<1>1. TablesInv /\ [TablesNext]_tableVars => [answer'.stat = "CRASH" \/ Contract!Next]_tableVars
  BY StepRight
<1> QED
  BY <1>1, TablesAlways, PTL DEF TablesSpec, ImplementsTable
=============================================================================
