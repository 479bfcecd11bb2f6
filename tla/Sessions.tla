------------------------------ MODULE Sessions ------------------------------
(***************************************************************************)
(* Sessions, CSRF tokens and users (src/auth): what the filters in front   *)
(* of a handler let through, and the two hash tables all workers share     *)
(* without a lock.  An insertion is followed store by store: the           *)
(* allocation in the global arena, the filling of what was allocated and   *)
(* the linking of the entry into its bucket.                               *)
(*                                                                         *)
(* Each table is one bucket: all keys collide, and it is never resized.    *)
(* The allocations of one insertion count as one.                          *)
(***************************************************************************)
EXTENDS Naturals, Sequences, SequencesExt, FiniteSets

CONSTANTS Workers,
          Sessions,    \* session IDs
          Tokens,      \* CSRF tokens: random, so each is generated once
          Users, Admin,
          Former,      \* users with a cookie signed before the last restart
          Roles,
          MaxRequests, \* bound on the requests
          None         \* NULL: no cookie, no token, no entry

ASSUME SessionsAssumption ==
    /\ Former \subseteq Users /\ Admin \in Users
    /\ "admin" \in Roles /\ None \notin Sessions \cup Tokens \cup Users \cup Roles
    /\ MaxRequests \in Nat \ {0} /\ IsFiniteSet(Workers)
    /\ IsFiniteSet(Tokens) /\ Cardinality(Tokens) >= MaxRequests

Cells == 1..(Cardinality(Tokens) + MaxRequests + 1)

VARIABLES
    requests, \* how many were received
    pc,
    req,      \* each worker's request
    session,  \* current_user.sessionID
    role,     \* current_user.role: the cell it points into, or 0
    cell,     \* the allocation of the worker's insertion, or what its lookup found
    link,     \* the bucket as the worker read it
    count,    \* the arena's count: the next free cell
    memory,   \* what each cell holds
    tables,   \* the buckets: entries [key, cell], the newest first
    loggedIn, \* users with a cookie signed by this process
    answers,  \* history: the tokens answered, with their sessions
    signedUp, \* history: the roles each user was signed up with, in order
    raced     \* history: two insertions overlapped

arenaVars == <<count, memory>>
historyVars == <<loggedIn, answers, signedUp>>
vars == <<requests, pc, req, session, role, cell, link, arenaVars, tables, historyVars, raced>>

\* main signs the administrator up before the workers start.
Init ==
    /\ requests = 0
    /\ pc = [w \in Workers |-> "idle"]
    /\ req = [w \in Workers |-> None]
    /\ session = [w \in Workers |-> None]
    /\ role = [w \in Workers |-> 0]
    /\ cell = [w \in Workers |-> 0]
    /\ link = [w \in Workers |-> <<>>]
    /\ count = 2
    /\ memory = [c \in Cells |-> IF c = 1 THEN "admin" ELSE None]
    /\ tables = [csrf |-> <<>>, users |-> <<[key |-> Admin, cell |-> 1]>>]
    /\ loggedIn = {}
    /\ answers = {}
    /\ signedUp = [u \in Users |-> IF u = Admin THEN <<"admin">> ELSE <<>>]
    /\ raced = FALSE

At(w, label) == pc[w] = label
Goto(w, label) == pc' = [pc EXCEPT ![w] = label]

\* cc_hashtable_get: the cell of the first entry with this key, or 0.
Lookup(table, key) ==
    LET i == SelectInSeq(tables[table], LAMBDA e : e.key = key)
    IN  IF i = 0 THEN 0 ELSE tables[table][i].cell

\* The sessions in use: generateSessionID makes another.
Known == {session[w] : w \in Workers} \cup {a[1] : a \in answers}
            \cup {e.key : e \in Range(tables.csrf)}

\* What a client can present: nothing, or what the server gave it or another client.
MaybeSessions == Sessions \cup {None}
MaybeTokens == {a[2] : a \in answers} \cup {None}
Cookies == loggedIn \cup Former \cup {None}
Requests ==
    [kind : {"csrf"}, session : MaybeSessions]
    \cup [kind : {"login"}, session : MaybeSessions, token : MaybeTokens, name : Users]
    \cup [kind : {"file"}, session : MaybeSessions, token : MaybeTokens, cookie : Cookies]
    \cup [kind : {"signup"}, session : MaybeSessions, token : MaybeTokens, cookie : Cookies,
          name : Users, role : Roles]

\* handleConnection clears current_user; sessionIDFilter makes a session of none.
Begin(w, r) ==
    /\ At(w, "idle")
    /\ requests < MaxRequests
    /\ requests' = requests + 1
    /\ req' = [req EXCEPT ![w] = r]
    /\ \E s \in IF r.session = None THEN Sessions \ Known ELSE {r.session} :
          session' = [session EXCEPT ![w] = s]
    /\ role' = [role EXCEPT ![w] = 0]
    /\ Goto(w, IF r.kind = "csrf" THEN "get" ELSE "filter")
    /\ UNCHANGED <<cell, link, arenaVars, tables, historyVars, raced>>

\* A filter or handler returns an error: handleConnection answers and goes on.
Refuse(w) ==
    /\ Goto(w, "idle")
    /\ UNCHANGED <<role, loggedIn>>
----------------------------------------------------------------------------
(* Insertion into a table.                                                 *)

Inserting(w) == pc[w] \in {"allocate", "bump", "fill", "scan", "link", "publish"}
StartInsertion(w) ==
    /\ Goto(w, "allocate")
    /\ raced' = (raced \/ \E v \in Workers \ {w} : Inserting(v))

Table(w) == IF req[w].kind = "csrf" THEN "csrf" ELSE "users"
Key(w) == IF req[w].kind = "csrf" THEN session[w] ELSE req[w].name
Entry(w) == [key |-> Key(w), cell |-> cell[w]]

\* What ends an insertion: csrfHandler answers with the cell, SignUpHandlerCallback
\* with nothing.
EndInsertion(w) ==
    /\ Goto(w, IF req[w].kind = "csrf" THEN "answer" ELSE "idle")
    /\ signedUp' = IF req[w].kind = "csrf" THEN signedUp
                   ELSE [signedUp EXCEPT ![req[w].name] = Append(@, req[w].role)]

\* arena_alloc takes the address at the count ...
Allocate(w) ==
    /\ At(w, "allocate")
    /\ cell' = [cell EXCEPT ![w] = count]
    /\ Goto(w, "bump")
    /\ UNCHANGED <<requests, req, session, role, link, arenaVars, tables, historyVars, raced>>

\* ... and adds to the count, perhaps to a value it had read before another's store.
Bump(w) ==
    /\ At(w, "bump")
    /\ count' \in {cell[w] + 1, count + 1}
    /\ Goto(w, "fill")
    /\ UNCHANGED <<requests, req, session, role, cell, link, memory, tables, historyVars, raced>>

\* The entry is linked in before what it points to is written.
FillSkipped(w) ==
    /\ At(w, "fill")
    /\ Goto(w, "scan")
    /\ UNCHANGED <<requests, req, session, role, cell, link, arenaVars, tables, historyVars, raced>>

\* The new token, or the user record.
Used == {memory[c] : c \in Cells} \cup {a[2] : a \in answers}
Fill(w) ==
    /\ At(w, "fill")
    /\ \E v \in IF req[w].kind = "csrf" THEN Tokens \ Used ELSE {req[w].role} :
          memory' = [memory EXCEPT ![cell[w]] = v]
    /\ Goto(w, "scan")
    /\ UNCHANGED <<requests, req, session, role, cell, link, count, tables, historyVars, raced>>

\* The bucket is not searched, and the entry put behind the others.
ScanAppends(w) ==
    /\ At(w, "scan")
    /\ tables' = [tables EXCEPT ![Table(w)] = Append(@, Entry(w))]
    /\ EndInsertion(w)
    /\ UNCHANGED <<requests, req, session, role, cell, link, arenaVars, loggedIn, answers, raced>>

\* cc_hashtable_add: an entry with this key gets the new value.
Scan(w) ==
    /\ At(w, "scan")
    /\ \/ \E i \in DOMAIN tables[Table(w)] :
             /\ i = SelectInSeq(tables[Table(w)], LAMBDA e : e.key = Key(w))
             /\ tables' = [tables EXCEPT ![Table(w)][i].cell = cell[w]]
             /\ EndInsertion(w)
       \/ /\ Lookup(Table(w), Key(w)) = 0
          /\ Goto(w, "link")
          /\ UNCHANGED <<tables, signedUp>>
    /\ UNCHANGED <<requests, req, session, role, cell, link, arenaVars, loggedIn, answers, raced>>

\* new_entry->next = the head of the bucket ...
Link(w) ==
    /\ At(w, "link")
    /\ link' = [link EXCEPT ![w] = tables[Table(w)]]
    /\ Goto(w, "publish")
    /\ UNCHANGED <<requests, req, session, role, cell, arenaVars, tables, historyVars, raced>>

\* ... and the head = new_entry.
Publish(w) ==
    /\ At(w, "publish")
    /\ tables' = [tables EXCEPT ![Table(w)] = <<Entry(w)>> \o link[w]]
    /\ link' = [link EXCEPT ![w] = <<>>]
    /\ EndInsertion(w)
    /\ UNCHANGED <<requests, req, session, role, cell, arenaVars, loggedIn, answers, raced>>
----------------------------------------------------------------------------
(* The handlers and filters.                                               *)

\* csrfHandler without the lookup.
GetTokenAlwaysNew(w) ==
    /\ At(w, "get")
    /\ StartInsertion(w)
    /\ UNCHANGED <<requests, req, session, role, cell, link, arenaVars, tables, historyVars>>

\* csrfHandler: the session's token, or a new one.
GetToken(w) ==
    /\ At(w, "get")
    /\ \/ /\ Lookup("csrf", session[w]) # 0
          /\ cell' = [cell EXCEPT ![w] = Lookup("csrf", session[w])]
          /\ Goto(w, "answer")
          /\ UNCHANGED raced
       \/ /\ Lookup("csrf", session[w]) = 0
          /\ StartInsertion(w)
          /\ UNCHANGED cell
    /\ UNCHANGED <<requests, req, session, role, link, arenaVars, tables, historyVars>>

Answer(w) ==
    /\ At(w, "answer")
    /\ answers' = answers \cup {<<session[w], memory[cell[w]]>>}
    /\ Goto(w, "idle")
    /\ UNCHANGED <<requests, req, session, role, cell, link, arenaVars, tables, loggedIn, signedUp,
                   raced>>

Passed(w) == IF req[w].kind = "login" THEN "login" ELSE "auth"

\* Any token that was handed out will do.
CsrfFilterAnySession(w) ==
    /\ At(w, "filter")
    /\ \/ /\ \E e \in Range(tables.csrf) : memory[e.cell] = req[w].token
          /\ Goto(w, Passed(w))
          /\ UNCHANGED <<role, loggedIn>>
       \/ /\ ~\E e \in Range(tables.csrf) : memory[e.cell] = req[w].token
          /\ Refuse(w)
    /\ UNCHANGED <<requests, req, session, cell, link, arenaVars, tables, answers, signedUp, raced>>

TokenMatches(w) ==
    LET c == Lookup("csrf", session[w]) IN
    req[w].token # None /\ c # 0 /\ memory[c] = req[w].token

CsrfFilter(w) ==
    /\ At(w, "filter")
    /\ \/ TokenMatches(w) /\ Goto(w, Passed(w)) /\ UNCHANGED <<role, loggedIn>>
       \/ ~TokenMatches(w) /\ Refuse(w)
    /\ UNCHANGED <<requests, req, session, cell, link, arenaVars, tables, answers, signedUp, raced>>

\* authFilter: the cookie's signature, then its user.
AuthFilter(w) ==
    /\ At(w, "auth")
    /\ \/ /\ req[w].cookie # None
          /\ Lookup("users", req[w].cookie) # 0
          /\ role' = [role EXCEPT ![w] = Lookup("users", req[w].cookie)]
          /\ Goto(w, IF req[w].kind = "signup" THEN "role" ELSE "handle")
          /\ UNCHANGED loggedIn
       \/ /\ req[w].cookie = None \/ Lookup("users", req[w].cookie) = 0
          /\ Refuse(w)
    /\ UNCHANGED <<requests, req, session, cell, link, arenaVars, tables, answers, signedUp, raced>>

RoleFilter(w) ==
    /\ At(w, "role")
    /\ \/ memory[role[w]] = "admin" /\ Goto(w, "handle") /\ UNCHANGED <<role, loggedIn>>
       \/ memory[role[w]] # "admin" /\ Refuse(w)
    /\ UNCHANGED <<requests, req, session, cell, link, arenaVars, tables, answers, signedUp, raced>>

\* loginHandlerCallback: the user must exist, and the password may be wrong.
Login(w) ==
    /\ At(w, "login")
    /\ \/ /\ Lookup("users", req[w].name) # 0
          /\ role' = [role EXCEPT ![w] = Lookup("users", req[w].name)]
          /\ loggedIn' = loggedIn \cup {req[w].name}
          /\ Goto(w, "idle")
       \/ Refuse(w)
    /\ UNCHANGED <<requests, req, session, cell, link, arenaVars, tables, answers, signedUp, raced>>

\* The file handlers (FileHandler), or signUpUser.
Handle(w) ==
    /\ At(w, "handle")
    /\ \/ req[w].kind = "file" /\ Goto(w, "idle") /\ UNCHANGED raced
       \/ req[w].kind = "signup" /\ StartInsertion(w)
    /\ UNCHANGED <<requests, req, session, role, cell, link, arenaVars, tables, historyVars>>

Step(w) ==
    \/ GetToken(w) \/ Answer(w) \/ CsrfFilter(w) \/ AuthFilter(w) \/ RoleFilter(w) \/ Login(w)
    \/ Handle(w) \/ Allocate(w) \/ Bump(w) \/ Fill(w) \/ Scan(w) \/ Link(w) \/ Publish(w)

Next == \E w \in Workers : Step(w) \/ \E r \in Requests : Begin(w, r)

Spec == Init /\ [][Next]_vars
----------------------------------------------------------------------------
(* Properties.                                                             *)

Entries == [key : Sessions \cup Users, cell : Cells]
TypeOK ==
    /\ pc \in [Workers -> {"idle", "get", "allocate", "bump", "fill", "scan", "link", "publish",
                           "answer", "filter", "auth", "role", "login", "handle"}]
    /\ session \in [Workers -> Sessions \cup {None}]
    /\ role \in [Workers -> Cells \cup {0}]
    /\ cell \in [Workers -> Cells \cup {0}]
    /\ count \in Cells
    /\ memory \in [Cells -> Tokens \cup Roles \cup {None}]
    /\ \A t \in {"csrf", "users"} : tables[t] \in Seq(Entries)
    /\ \A w \in Workers : pc[w] = "role" => role[w] # 0

\* As long as no two insertions overlapped, every token a client was answered is the
\* token of its session for ever after (csrf.c:13-33, 83-95).
TokensHonoured ==
    ~raced => \A a \in answers : Lookup("csrf", a[1]) # 0 /\ memory[Lookup("csrf", a[1])] = a[2]

\* As long as no two insertions overlapped, a user is found with the role of its last
\* sign up, however the other table and the arena they share grow (auth.c:57-68).
UsersKept ==
    ~raced => \A u \in Users : signedUp[u] # <<>> =>
        Lookup("users", u) # 0 /\ memory[Lookup("users", u)] = Last(signedUp[u])

\* Behind the filters the token was answered for the very session of the request, and
\* "only admins can add other users" (authhandler.c:181): the user of the cookie was at
\* some time signed up as one, as long as no two insertions overlapped.
AdmittedRightly ==
    \A w \in Workers : pc[w] = "handle" /\ ~raced =>
        /\ <<session[w], req[w].token>> \in answers
        /\ signedUp[req[w].cookie] # <<>>
        /\ req[w].kind = "signup" => "admin" \in Range(signedUp[req[w].cookie])

\* Races included: what a table's entry points to was written before the entry could be
\* found, so a lookup never returns blank memory.
PublishedFilled ==
    /\ TypeOK
    /\ \A t \in {"csrf", "users"} : \A e \in Range(tables[t]) : memory[e.cell] # None
=============================================================================
