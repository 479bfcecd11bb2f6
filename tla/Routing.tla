------------------------------- MODULE Routing -------------------------------
(***************************************************************************)
(* From a URI to a route and a file, request after request:                *)
(* longestPrefixMatch                                                      *)
(* (src/server/router.c) looks for the route whose prefix shares the most  *)
(* components with the URI, and the file handler replaces that prefix by   *)
(* its webroot (src/server/fshandler.c, src/utils/paths.c).                *)
(*                                                                         *)
(* A path is a deque of components.  What a deque is, but for its          *)
(* capacity, is left to the library: an iterator over a deque whose buffer *)
(* is full takes it for empty, since first = last.                         *)
(***************************************************************************)
EXTENDS Integers, Sequences, SequencesExt, FiniteSetsExt

CONSTANTS Names,       \* what a component of a path may be
          Routes,      \* router->routes in the order they were added
          Uris,        \* the components of the URIs clients ask for
          Methods,     \* the HTTP methods
          Capacity,    \* DEFAULT_CAPACITY of a deque
          Dots,        \* the components "." and ".."
          Index,       \* "index.html"
          MaxIndexed   \* bound on the directories in a row that hold an index.html

(* A route is a record: prefix, its components; methods, those it allows;  *)
(* webroot, the components of its handler's webroot, or <<>> if it serves  *)
(* no files.  Routes with one prefix share a handler.                      *)
ASSUME RoutesAssumption ==
    /\ Routes \in Seq([prefix : Seq(Names) \ {<<>>}, methods : SUBSET Methods, webroot : Seq(Names)])
    /\ \A k, l \in DOMAIN Routes :
          Routes[k].prefix = Routes[l].prefix => Routes[k].webroot = Routes[l].webroot
    /\ Uris \subseteq Seq(Names) \ {<<>>}
    /\ Capacity \in Nat \ {0} /\ MaxIndexed \in Nat

VARIABLES
    asked,    \* history: the components of the URI, <<>> between requests
    webroots, \* the webroots of the handlers, by their prefixes
    uriPath,  \* request->uriPath
    method,   \* request->method
    pc,       \* "idle", "match", "found", "open", "notFound" or "methodNotSupported"
    seen,     \* how many routes were looked at
    chosen,   \* the position of the route chosen so far, 0 for NULL
    maxMatch,
    oneFound,
    indexed   \* how often index.html was appended

vars == <<asked, webroots, uriPath, method, pc, seen, chosen, maxMatch, oneFound, indexed>>
----------------------------------------------------------------------------
(* Deques.                                                                 *)

\* The size of a deque's buffer that was doubled k times, and of one n components fit in.
Doubled[k \in Nat] == IF k = 0 THEN Capacity ELSE 2 * Doubled[k - 1]
Room(n) == Doubled[Min({k \in 0..n : Doubled[k] >= n})]
PathOf(dirs) == [dirs |-> dirs, capacity |-> Room(Len(dirs))]
Full(path) == Len(path.dirs) = path.capacity

\* What an iterator returns.
Listed(path) == IF Full(path) THEN <<>> ELSE path.dirs

\* More components in a deque double its buffer when they do not fit.
With(path, dirs) ==
    [dirs |-> dirs,
     capacity |-> IF Len(dirs) <= path.capacity THEN path.capacity ELSE Room(Len(dirs))]
----------------------------------------------------------------------------
(* Matching.                                                               *)

\* commonRoot: the components two paths share from the left.
CommonRoot(a, b) ==
    Max({n \in 0..Len(Listed(a)) :
            n <= Len(Listed(b)) /\ \A i \in 1..n : Listed(a)[i] = Listed(b)[i]})

\* The number of components shared, with no case for none.
PrefixMatchNone(prefix, path) ==
    IF Len(prefix.dirs) > Len(path.dirs) THEN -1 ELSE CommonRoot(prefix, path)

\* prefixMatchPaths.
PrefixMatch(prefix, path) ==
    IF Len(prefix.dirs) > Len(path.dirs) THEN -1
    ELSE LET common == CommonRoot(prefix, path) IN IF common = 0 THEN -1 ELSE common

Matches(k) == PrefixMatch(PathOf(Routes[k].prefix), uriPath)

Init ==
    /\ webroots = [prefix \in {Routes[k].prefix : k \in DOMAIN Routes} |->
                      Routes[CHOOSE k \in DOMAIN Routes : Routes[k].prefix = prefix].webroot]
    /\ pc = "idle"
    /\ asked = <<>> /\ uriPath = PathOf(asked) /\ method \in Methods
    /\ seen = 0 /\ chosen = 0 /\ maxMatch = -1 /\ oneFound = FALSE
    /\ indexed = 0

\* A request comes to the router, and is done with.
Ask ==
    /\ pc = "idle"
    /\ asked' \in Uris /\ uriPath' = PathOf(asked') /\ method' \in Methods
    /\ pc' = "match"
    /\ UNCHANGED <<webroots, seen, chosen, maxMatch, oneFound, indexed>>
FreeRequest ==
    /\ \/ pc \in {"open", "notFound", "methodNotSupported"}
       \/ pc = "found" /\ Routes[chosen].webroot = <<>>
    /\ pc' = "idle"
    /\ asked' = <<>> /\ uriPath' = PathOf(asked')
    /\ seen' = 0 /\ chosen' = 0 /\ maxMatch' = -1 /\ oneFound' = FALSE
    /\ indexed' = 0
    /\ UNCHANGED <<webroots, method>>

Looking == pc = "match" /\ seen < Len(Routes)
Route == Routes[seen + 1]

SkipRoute ==
    /\ Looking
    /\ Matches(seen + 1) <= maxMatch
    /\ seen' = seen + 1
    /\ UNCHANGED <<asked, webroots, uriPath, method, pc, chosen, maxMatch, oneFound, indexed>>

\* checkHTTPMethod fails.
RefuseMethod ==
    /\ Looking
    /\ Matches(seen + 1) > maxMatch
    /\ method \notin Route.methods
    /\ oneFound' = TRUE
    /\ seen' = seen + 1
    /\ UNCHANGED <<asked, webroots, uriPath, method, pc, chosen, maxMatch, indexed>>

\* The route taken, but maxMatch not set.
TakeRouteForgets ==
    /\ Looking
    /\ Matches(seen + 1) > maxMatch
    /\ method \in Route.methods
    /\ chosen' = seen + 1
    /\ seen' = seen + 1
    /\ UNCHANGED <<asked, webroots, uriPath, method, pc, maxMatch, oneFound, indexed>>

TakeRoute ==
    /\ Looking
    /\ Matches(seen + 1) > maxMatch
    /\ method \in Route.methods
    /\ maxMatch' = Matches(seen + 1)
    /\ chosen' = seen + 1
    /\ seen' = seen + 1
    /\ UNCHANGED <<asked, webroots, uriPath, method, pc, oneFound, indexed>>

EndMatch ==
    /\ pc = "match"
    /\ seen = Len(Routes)
    /\ pc' = IF chosen # 0 THEN "found" ELSE IF oneFound THEN "methodNotSupported" ELSE "notFound"
    /\ UNCHANGED <<asked, webroots, uriPath, method, seen, chosen, maxMatch, oneFound, indexed>>
----------------------------------------------------------------------------
(* The file of a request.                                                  *)

\* The components but the dots: kept[n] is what is left of the first n.
Undotted(dirs) ==
    LET kept[n \in 0..Len(dirs)] ==
            IF n = 0 THEN <<>>
            ELSE IF dirs[n] \in Dots THEN kept[n - 1] ELSE Append(kept[n - 1], dirs[n])
    IN  kept[Len(dirs)]

\* sanitizePath.
Sanitized(path) == IF Full(path) THEN path ELSE With(path, Undotted(path.dirs))

\* The prefix left in place.
PrefixKept(path, prefix) == path

\* removePrefix: as many components as the prefix has, whichever they are.
WithoutPrefix(path, prefix) ==
    IF Full(path) \/ Full(prefix) THEN path
    ELSE With(path, SubSeq(path.dirs, Len(prefix.dirs) + 1, Len(path.dirs)))

\* concatenatePath: the components of prefix, which was reversed for it, one by one in
\* front of the rest.
Concatenated(prefix, rest) == With(rest, Reverse(Listed(PathOf(prefix))) \o rest.dirs)

\* replacePrefixWithWebroot: the webroot goes in front, and is reversed where it is.
ReplacePrefix ==
    /\ pc = "found"
    /\ Routes[chosen].webroot # <<>>
    /\ LET prefix   == Routes[chosen].prefix
           rest     == WithoutPrefix(Sanitized(uriPath), PathOf(prefix))
           reversed == Reverse(webroots[prefix])
       IN  /\ webroots' = [webroots EXCEPT ![prefix] = reversed]
           /\ uriPath' = Concatenated(reversed, rest)
    /\ pc' = "open"
    /\ UNCHANGED <<asked, method, seen, chosen, maxMatch, oneFound, indexed>>

\* handleDirectory: fopen said that the file is a directory.
AddIndex ==
    /\ pc = "open"
    /\ indexed < MaxIndexed
    /\ uriPath' = With(uriPath, Append(uriPath.dirs, Index))
    /\ indexed' = indexed + 1
    /\ UNCHANGED <<asked, webroots, method, pc, seen, chosen, maxMatch, oneFound>>

\* pathToStr, what fopen is called with.
PathToStr == Listed(uriPath)

Next == SkipRoute \/ RefuseMethod \/ TakeRoute \/ EndMatch \/ ReplacePrefix \/ AddIndex
        \/ Ask \/ FreeRequest

Spec == Init /\ [][Next]_vars
----------------------------------------------------------------------------
(* Properties.                                                             *)

TypeOK ==
    /\ pc \in {"idle", "match", "found", "open", "notFound", "methodNotSupported"}
    /\ \A k \in DOMAIN Routes :
          webroots[Routes[k].prefix] \in {Routes[k].webroot, Reverse(Routes[k].webroot)}
    /\ method \in Methods
    /\ seen \in 0..Len(Routes) /\ chosen \in 0..seen
    /\ maxMatch \in {-1} \cup Nat
    /\ oneFound \in BOOLEAN
    /\ indexed \in 0..MaxIndexed

\* The components a route shares with the URI, as the router's users understand it.
Shared(k) ==
    LET prefix == Routes[k].prefix IN
    IF Len(prefix) > Len(asked) THEN 0
    ELSE Max({n \in 0..Len(prefix) : SubSeq(prefix, 1, n) = SubSeq(asked, 1, n)})
Allowed(k) == method \in Routes[k].methods

\* A URI whose components just fill a deque's buffer.
Unlucky == Len(asked) = Room(Len(asked))

\* The route chosen allows the method and shares more components with the URI than any
\* route before it that does, and no fewer than any after it, in whatever order the
\* routes were added and wherever other methods are refused on the way.
ChoosesLongest ==
    /\ TypeOK
    /\ pc \in {"found", "open"} =>
          /\ Allowed(chosen) /\ Shared(chosen) > 0
          /\ \A k \in DOMAIN Routes : Allowed(k) =>
              IF k < chosen THEN Shared(k) < Shared(chosen) ELSE Shared(k) <= Shared(chosen)

\* 405 means that routes match and none of them allows the method, 404 that none matches.
VerdictRight ==
    /\ pc = "methodNotSupported" =>
          /\ \E k \in DOMAIN Routes : Shared(k) > 0
          /\ \A k \in DOMAIN Routes : Shared(k) > 0 => ~Allowed(k)
    /\ pc = "notFound" /\ ~Unlucky => \A k \in DOMAIN Routes : Shared(k) = 0

\* A URI that is longer under the webroot and then just fills the buffer of its deque.
Outgrown == Len(Routes[chosen].webroot) > Len(Routes[chosen].prefix) /\ Full(uriPath)

\* The file opened first is the rest of the URI under the webroot, for URIs of any
\* length that get this far and whatever was asked before: taking the prefix off and
\* putting a webroot no longer than it in front never fills a deque.  Only a webroot of
\* several components has them in reverse order at every other request, since each
\* request reverses it and none puts it back.  No deque holds more than its buffer.
OpensTheFile ==
    /\ Len(uriPath.dirs) <= uriPath.capacity
    /\ pc = "open" /\ indexed = 0 /\ ~Outgrown =>
          LET route == Routes[chosen]
              dirs  == Undotted(asked)
              rest  == SubSeq(dirs, Len(route.prefix) + 1, Len(dirs))
          IN  \/ PathToStr = route.webroot \o rest
              \/ /\ PathToStr = Reverse(route.webroot) \o rest
                 /\ webroots[route.prefix] = route.webroot
=============================================================================
