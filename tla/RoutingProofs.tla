---------------------------- MODULE RoutingProofs ----------------------------
(***************************************************************************)
(* The choice of a route, for any routes in any order, any URIs and any    *)
(* methods, one request after another, and the file that is opened.        *)
(***************************************************************************)
EXTENDS Routing, NumberInduction, SequenceTheorems

(***************************************************************************)
(* A deque's buffer has room for what it holds.                            *)
(***************************************************************************)
LEMMA Doubling ==
  /\ Doubled[0] = Capacity
  /\ \A k \in Nat : Doubled[k] \in Nat /\ Doubled[k + 1] = 2 * Doubled[k]
<1> DEFINE step == [n \in Nat |-> [x \in Nat |-> 2 * x]]
           Is(f) == f = [k \in Nat |-> IF k = 0 THEN Capacity ELSE 2 * f[k - 1]]
<1>1. Capacity \in Nat /\ step \in [Nat -> [Nat -> Nat]]
  BY RoutesAssumption
<1> HIDE DEF step
<1>2. PICK f : Recurses(f, Nat, Capacity, step)
  BY <1>1, Recursion
<1>3. f \in [Nat -> Nat] /\ f[0] = Capacity /\ \A n \in Nat : f[n + 1] = 2 * f[n]
  BY <1>2 DEF Recurses, step
<1>4. Is(f)
  <2>1. ASSUME NEW k \in Nat PROVE f[k] = IF k = 0 THEN Capacity ELSE 2 * f[k - 1]
    <3>1. CASE k = 0
      BY <1>3, <3>1
    <3>2. CASE k # 0
      <4>1. k - 1 \in Nat /\ (k - 1) + 1 = k
        BY <3>2
      <4> QED
        BY <1>3, <3>2, <4>1
    <3> QED
      BY <3>1, <3>2
  <2> QED
    BY <1>3, <2>1
<1>5. Doubled = CHOOSE d : Is(d)
  BY DEF Doubled
<1>6. Is(Doubled)
  <2> HIDE DEF Is
  <2> QED
    BY <1>4, <1>5
<1> DEFINE T == {k \in Nat : Doubled[k] \in Nat}
<1>7. Doubled[0] = Capacity /\ \A k \in Nat : Doubled[k + 1] = 2 * Doubled[k]
  <2>1. \A k \in Nat : Doubled[k] = IF k = 0 THEN Capacity ELSE 2 * Doubled[k - 1]
    <3> DEFINE d == Doubled
    <3>1. d = [k \in Nat |-> IF k = 0 THEN Capacity ELSE 2 * d[k - 1]]
      BY <1>6
    <3> HIDE DEF d
    <3>2. \A k \in Nat : d[k] = IF k = 0 THEN Capacity ELSE 2 * d[k - 1]
      BY <3>1
    <3> QED
      BY <3>2 DEF d
  <2> QED
    BY <2>1
<1>8. 0 \in T /\ \A n \in Nat : n \in T => n + 1 \in T
  <2>1. ASSUME NEW n \in Nat, Doubled[n] \in Nat PROVE Doubled[n + 1] \in Nat
    BY <1>7, <2>1
  <2>2. 0 \in T
    BY <1>1, <1>7
  <2> QED
    BY <2>1, <2>2
<1>9. \A k \in Nat : k \in T
  <2> HIDE DEF T
  <2> QED
    BY <1>8, Induction
<1> QED
  BY <1>7, <1>9

LEMMA RoomSuffices ==
  ASSUME NEW n \in Nat
  PROVE  Room(n) \in Nat /\ Room(n) >= n
<1> DEFINE T == {k \in Nat : Doubled[k] > k}
           S == {k \in 0..n : Doubled[k] >= n}
<1>1. 0 \in T /\ \A k \in Nat : k \in T => k + 1 \in T
  <2>1. Doubled[0] > 0
    BY Doubling, RoutesAssumption
  <2>2. ASSUME NEW k \in Nat, Doubled[k] > k PROVE Doubled[k + 1] > k + 1
    BY <2>2, Doubling
  <2> QED
    BY <2>1, <2>2
<1>2. \A k \in Nat : k \in T
  <2> HIDE DEF T
  <2> QED
    BY <1>1, Induction
<1>3. n \in S
  BY <1>2, Doubling
<1>4. S \subseteq Nat
  OBVIOUS
<1>5. \E m \in S : \A y \in S : m <= y
  <2> HIDE DEF S
  <2> QED
    BY <1>3, <1>4, Smallest
<1>6. Min(S) \in S
  BY <1>5 DEF Min
<1>7. Room(n) = Doubled[Min(S)]
  BY DEF Room
<1> QED
  BY <1>6, <1>7, Doubling

(***************************************************************************)
(* What prefixMatchPaths finds is the number of components a route shares  *)
(* with the URI, but for a URI that just fills its deque, of which it sees *)
(* nothing.                                                                *)
(***************************************************************************)
PrefixesFit == \A k \in DOMAIN Routes : Len(Routes[k].prefix) # Room(Len(Routes[k].prefix))

\* What longestPrefixMatch compares: the match of route k with what was asked.
Score(k) == IF Unlucky \/ Shared(k) = 0 THEN -1 ELSE Shared(k)

LEMMA RouteType ==
  ASSUME NEW k \in DOMAIN Routes
  PROVE  /\ Routes[k].prefix \in Seq(Names) /\ Routes[k].prefix # <<>>
         /\ Routes[k].webroot \in Seq(Names) /\ Routes[k].methods \subseteq Methods
<1> DEFINE Kind == [prefix : Seq(Names) \ {<<>>}, methods : SUBSET Methods, webroot : Seq(Names)]
<1>1. Routes[k] \in Kind
  <2>1. Routes \in Seq(Kind)
    BY RoutesAssumption
  <2> HIDE DEF Kind
  <2> QED
    BY <2>1
<1> QED
  BY <1>1

\* The first n components are the same.
LEMMA SameFront ==
  ASSUME NEW p \in Seq(Names), NEW a \in Seq(Names),
         NEW n \in Nat, n <= Len(p), n <= Len(a)
  PROVE  SubSeq(p, 1, n) = SubSeq(a, 1, n) <=> \A i \in 1..n : p[i] = a[i]
<1> DEFINE x == SubSeq(p, 1, n)  y == SubSeq(a, 1, n)
<1>1. (\A i \in 1..n : p[i] \in Names) /\ (\A i \in 1..n : a[i] \in Names)
  OBVIOUS
<1>2. x \in Seq(Names) /\ Len(x) = n /\ \A i \in 1..n : x[i] = p[i]
  BY <1>1, SubSeqProperties
<1>3. y \in Seq(Names) /\ Len(y) = n /\ \A i \in 1..n : y[i] = a[i]
  BY <1>1, SubSeqProperties
<1> HIDE DEF x, y
<1>4. x = y <=> \A i \in 1..n : p[i] = a[i]
  BY <1>2, <1>3, SeqEqual
<1> QED
  BY <1>4 DEF x, y

LEMMA SharedType ==
  ASSUME asked \in Seq(Names), NEW k \in DOMAIN Routes
  PROVE  Shared(k) \in Nat
<1> DEFINE p == Routes[k].prefix
           S == {n \in 0..Len(p) : SubSeq(p, 1, n) = SubSeq(asked, 1, n)}
<1>1. p \in Seq(Names) /\ Len(p) \in Nat
  BY RouteType
<1>2. 0 \in S
  <2>1. SubSeq(p, 1, 0) = <<>> /\ SubSeq(asked, 1, 0) = <<>>
    BY SubSeqEmpty
  <2> QED
    BY <1>1, <2>1
<1>3. Max(S) \in S
  BY <1>1, <1>2, Largest
<1>4. Shared(k) = IF Len(p) > Len(asked) THEN 0 ELSE Max(S)
  BY DEF Shared
<1> QED
  BY <1>3, <1>4

LEMMA MatchesAreShared ==
  ASSUME PrefixesFit, asked \in Seq(Names), uriPath = PathOf(asked), NEW k \in DOMAIN Routes
  PROVE  Matches(k) = Score(k)
<1> DEFINE p == Routes[k].prefix
           S == {n \in 0..Len(p) : SubSeq(p, 1, n) = SubSeq(asked, 1, n)}
           C == {n \in 0..Len(Listed(PathOf(p))) :
                   n <= Len(Listed(PathOf(asked)))
                   /\ \A i \in 1..n : Listed(PathOf(p))[i] = Listed(PathOf(asked))[i]}
<1>1. p \in Seq(Names) /\ Len(p) \in Nat /\ Len(asked) \in Nat
  BY RouteType
<1>2. PathOf(p).dirs = p /\ PathOf(asked).dirs = asked
  BY DEF PathOf
<1>3. Listed(PathOf(p)) = p
  BY <1>2 DEF Listed, Full, PathOf, PrefixesFit
<1>4. Full(PathOf(asked)) <=> Unlucky
  BY DEF Full, PathOf, Unlucky
<1>5. Shared(k) = IF Len(p) > Len(asked) THEN 0 ELSE Max(S)
  BY DEF Shared
<1>6. Matches(k) = IF Len(p) > Len(asked) THEN -1 ELSE IF Max(C) = 0 THEN -1 ELSE Max(C)
  BY <1>2 DEF Matches, PrefixMatch, CommonRoot
<1>7. CASE Len(p) > Len(asked)
  BY <1>5, <1>6, <1>7 DEF Score
<1>8. CASE ~(Len(p) > Len(asked)) /\ Unlucky
  <2>1. Listed(PathOf(asked)) = <<>>
    BY <1>4, <1>8 DEF Listed
  <2>2. C = {0}
    <3>1. C = {n \in 0..Len(p) : n <= 0 /\ \A i \in 1..n : p[i] = Listed(PathOf(asked))[i]}
      BY <1>3, <2>1
    <3>2. \A n \in 0..Len(p) : n <= 0 <=> n = 0
      BY <1>1
    <3> QED
      BY <1>1, <3>1, <3>2
  <2>3. Max(C) = 0
    <3> HIDE DEF C
    <3>1. C \subseteq 0..0 /\ C # {}
      BY <2>2
    <3>2. Max(C) \in C
      BY <3>1, Largest
    <3> QED
      BY <2>2, <3>2
  <2> QED
    BY <1>6, <1>8, <2>3 DEF Score
<1>9. CASE ~(Len(p) > Len(asked)) /\ ~Unlucky
  <2>1. Listed(PathOf(asked)) = asked
    BY <1>2, <1>4, <1>9 DEF Listed
  <2>2. \A n \in 0..Len(p) : n \in S <=> n \in C
    BY <1>1, <1>3, <1>9, <2>1, SameFront
  <2>3. S = C
    BY <1>3, <2>2
  <2> QED
    BY <1>5, <1>6, <1>9, <2>3 DEF Score
<1> QED
  BY <1>7, <1>8, <1>9
----------------------------------------------------------------------------
(***************************************************************************)
(* The inductive invariant: what the loop has made of the routes it saw.   *)
(***************************************************************************)
RoutePrefixes == {Routes[k].prefix : k \in DOMAIN Routes}
Types ==
    /\ pc \in {"idle", "match", "found", "open", "notFound", "methodNotSupported"}
    /\ asked \in Seq(Names) /\ method \in Methods
    /\ pc # "open" => uriPath = PathOf(asked)
    /\ seen \in 0..Len(Routes) /\ chosen \in 0..seen
    /\ maxMatch \in {-1} \cup Nat /\ oneFound \in BOOLEAN /\ indexed \in 0..MaxIndexed
    /\ DOMAIN webroots = RoutePrefixes
    /\ \A k \in DOMAIN Routes :
          webroots[Routes[k].prefix] \in {Routes[k].webroot, Reverse(Routes[k].webroot)}

\* maxMatch is the match of the route chosen, and bounds those of all routes seen that
\* allow the method; a route seen and refused has matched.
Best ==
    /\ chosen = 0 => maxMatch = -1
    /\ chosen # 0 => Allowed(chosen) /\ maxMatch = Score(chosen) /\ maxMatch > 0
    /\ \A k \in 1..seen : Allowed(k) =>
          IF k < chosen THEN Score(k) < maxMatch ELSE Score(k) <= maxMatch
    /\ oneFound => \E k \in 1..seen : Score(k) > 0
    /\ ~oneFound /\ chosen = 0 => \A k \in 1..seen : Score(k) = -1

Verdict ==
    /\ pc = "idle" => seen = 0 /\ chosen = 0 /\ maxMatch = -1 /\ ~oneFound
    /\ pc \in {"found", "open", "notFound", "methodNotSupported"} => seen = Len(Routes)
    /\ pc \in {"found", "open"} => chosen # 0
    /\ pc = "notFound" => chosen = 0 /\ ~oneFound
    /\ pc = "methodNotSupported" => chosen = 0 /\ oneFound

IInv == Types /\ Best /\ Verdict

LEMMA ReverseTwice ==
  ASSUME NEW s \in Seq(Names)
  PROVE  Reverse(s) \in Seq(Names) /\ Reverse(Reverse(s)) = s
<1> DEFINE t == Reverse(s)
<1>1. t \in Seq(Names) /\ Len(t) = Len(s) /\ \A i \in 1..Len(s) : t[i] = s[(Len(s) - i) + 1]
  BY DEF Reverse
<1> HIDE DEF t
<1>2. /\ Reverse(t) \in Seq(Names) /\ Len(Reverse(t)) = Len(s)
      /\ \A i \in 1..Len(s) : Reverse(t)[i] = t[(Len(s) - i) + 1]
  BY <1>1 DEF Reverse
<1>3. ASSUME NEW i \in 1..Len(s) PROVE Reverse(t)[i] = s[i]
  <2>1. (Len(s) - i) + 1 \in 1..Len(s) /\ (Len(s) - ((Len(s) - i) + 1)) + 1 = i
    OBVIOUS
  <2> QED
    BY <1>1, <1>2, <2>1
<1>4. Reverse(t) = s
  BY <1>2, <1>3, SeqEqual
<1> QED
  BY <1>1, <1>4 DEF t

LEMMA ScoreType ==
  ASSUME asked \in Seq(Names), NEW k \in DOMAIN Routes
  PROVE  Score(k) \in {-1} \cup (Nat \ {0})
  BY SharedType DEF Score

LEMMA RoutesIndexed == Len(Routes) \in Nat /\ DOMAIN Routes = 1..Len(Routes)
  BY RoutesAssumption

LEMMA Initially == Init => IInv
<1> SUFFICES ASSUME Init PROVE IInv
  OBVIOUS
<1>1. DOMAIN webroots = RoutePrefixes
  BY DEF Init, RoutePrefixes
<1>2. ASSUME NEW k \in DOMAIN Routes PROVE webroots[Routes[k].prefix] = Routes[k].webroot
  <2> DEFINE l == CHOOSE l \in DOMAIN Routes : Routes[l].prefix = Routes[k].prefix
  <2>1. l \in DOMAIN Routes /\ Routes[l].prefix = Routes[k].prefix
    OBVIOUS
  <2>2. Routes[l].webroot = Routes[k].webroot
    BY <2>1, RoutesAssumption
  <2>3. webroots[Routes[k].prefix] = Routes[l].webroot
    BY DEF Init
  <2> QED
    BY <2>2, <2>3
<1>3. Types
  <2>1. /\ pc = "idle" /\ asked = <<>> /\ uriPath = PathOf(asked) /\ method \in Methods /\ ~oneFound
        /\ seen = 0 /\ chosen = 0 /\ maxMatch = -1 /\ oneFound \in BOOLEAN /\ indexed = 0
    BY DEF Init
  <2>2. asked \in Seq(Names) /\ 0 \in 0..Len(Routes) /\ 0 \in 0..0 /\ 0 \in 0..MaxIndexed
    BY <2>1, RoutesIndexed, RoutesAssumption
  <2> QED
    BY <1>1, <1>2, <2>1, <2>2 DEF Types
<1>4. Best /\ Verdict
  BY DEF Init, Best, Verdict
<1> QED
  BY <1>3, <1>4 DEF IInv

\* The loop looks at one route.
LEMMA LookKeeps ==
  ASSUME PrefixesFit, IInv, SkipRoute \/ RefuseMethod \/ TakeRoute
  PROVE  IInv'
<1> DEFINE n == seen + 1
<1>1. /\ pc = "match" /\ n \in DOMAIN Routes /\ seen \in Nat /\ n \in 1..Len(Routes)
      /\ chosen \in 0..seen /\ asked \in Seq(Names)
      /\ UNCHANGED <<asked, webroots, uriPath, method, pc, indexed>> /\ seen' = n
      /\ n \in 0..Len(Routes) /\ chosen \in 0..n
  BY RoutesIndexed DEF IInv, Types, SkipRoute, RefuseMethod, TakeRoute, Looking
<1>2. Matches(n) = Score(n) /\ Score(n) \in {-1} \cup (Nat \ {0})
  BY <1>1, MatchesAreShared, ScoreType DEF IInv, Types
<1>3. \A k : (Score(k)' = Score(k)) /\ (Allowed(k)' <=> Allowed(k))
  BY <1>1 DEF Score, Shared, Unlucky, Allowed
<1>4. \A k \in 1..seen' : k \in 1..seen \/ k = n
  BY <1>1
<1>5. \A k \in 1..seen : k \in DOMAIN Routes /\ Score(k) \in {-1} \cup (Nat \ {0}) /\ k # n
  BY <1>1, ScoreType, RoutesIndexed
<1>6. maxMatch \in {-1} \cup Nat /\ Best
  BY DEF IInv, Types
<1>7. Verdict'
  BY <1>1 DEF IInv, Verdict, SkipRoute, RefuseMethod, TakeRoute
<1> HIDE DEF n
<1>8. CASE SkipRoute
  <2>1. Score(n) <= maxMatch /\ UNCHANGED <<chosen, maxMatch, oneFound>>
    BY <1>2, <1>8 DEF SkipRoute, n
  <2>2. Types'
    BY <1>1, <1>8, <2>1 DEF IInv, Types
  <2>3. n \in 1..seen' /\ 1..seen \subseteq 1..seen' /\ ~(n < chosen)
    BY <1>1 DEF n
  <2>4. Best'
    BY <1>1, <1>2, <1>3, <1>4, <1>5, <1>6, <2>1, <2>3 DEF Best
  <2> QED
    BY <1>7, <2>2, <2>4 DEF IInv
<1>9. CASE RefuseMethod
  <2>1. Score(n) > maxMatch /\ ~Allowed(n) /\ oneFound' /\ UNCHANGED <<chosen, maxMatch>>
    BY <1>2, <1>9 DEF RefuseMethod, Allowed, Route, n
  <2>2. Types'
    BY <1>1, <1>9, <2>1 DEF IInv, Types, RefuseMethod
  <2>3. n \in 1..seen' /\ 1..seen \subseteq 1..seen' /\ Score(n) > 0
    BY <1>1, <1>2, <1>6, <2>1 DEF n
  <2>4. Best'
    BY <1>1, <1>2, <1>3, <1>4, <1>5, <1>6, <2>1, <2>3 DEF Best
  <2> QED
    BY <1>7, <2>2, <2>4 DEF IInv
<1>10. CASE TakeRoute
  <2>1. /\ Score(n) > maxMatch /\ Allowed(n) /\ chosen' = n /\ maxMatch' = Score(n)
        /\ UNCHANGED oneFound
    BY <1>2, <1>10 DEF TakeRoute, Allowed, Route, n
  <2>2. Types'
    BY <1>1, <1>2, <1>10, <2>1 DEF IInv, Types
  <2>3. n \in 1..seen' /\ 1..seen \subseteq 1..seen' /\ Score(n) > 0 /\ n # 0
        /\ \A k \in 1..seen : k < n
    BY <1>1, <1>2, <1>6, <2>1 DEF n
  <2>4. \A k \in 1..seen : Allowed(k) => Score(k) < Score(n)
    BY <1>2, <1>5, <1>6, <2>1 DEF Best
  <2>5. Best'
    BY <1>1, <1>2, <1>3, <1>4, <1>5, <1>6, <2>1, <2>3, <2>4 DEF Best
  <2> QED
    BY <1>7, <2>2, <2>5 DEF IInv
<1> QED
  BY <1>8, <1>9, <1>10

LEMMA EndKeeps ==
  ASSUME IInv, EndMatch
  PROVE  IInv'
<1>1. /\ UNCHANGED <<asked, webroots, uriPath, method, seen, chosen, maxMatch, oneFound, indexed>>
      /\ pc = "match" /\ seen = Len(Routes)
      /\ pc' = IF chosen # 0 THEN "found" ELSE IF oneFound THEN "methodNotSupported" ELSE "notFound"
  BY DEF EndMatch
<1>2. Types' /\ Verdict'
  BY <1>1 DEF IInv, Types, Verdict
<1>3. \A k : (Score(k)' = Score(k)) /\ (Allowed(k)' <=> Allowed(k))
  BY <1>1 DEF Score, Shared, Unlucky, Allowed
<1>4. Best'
  BY <1>1, <1>3 DEF IInv, Best
<1> QED
  BY <1>2, <1>4 DEF IInv

LEMMA ReplaceKeeps ==
  ASSUME IInv, ReplacePrefix
  PROVE  IInv'
<1>1. /\ UNCHANGED <<asked, method, seen, chosen, maxMatch, oneFound, indexed>>
      /\ pc = "found" /\ pc' = "open" /\ chosen \in DOMAIN Routes
  BY RoutesIndexed DEF IInv, Types, Verdict, ReplacePrefix
<1> DEFINE p == Routes[chosen].prefix
<1>2. webroots' = [webroots EXCEPT ![p] = Reverse(webroots[p])] /\ p \in RoutePrefixes
  BY <1>1 DEF ReplacePrefix, RoutePrefixes
<1>3. ASSUME NEW k \in DOMAIN Routes
      PROVE  webroots'[Routes[k].prefix] \in {Routes[k].webroot, Reverse(Routes[k].webroot)}
  <2>1. webroots[Routes[k].prefix] \in {Routes[k].webroot, Reverse(Routes[k].webroot)}
    BY DEF IInv, Types
  <2>2. Routes[k].prefix \in RoutePrefixes /\ DOMAIN webroots = RoutePrefixes
    BY DEF RoutePrefixes, IInv, Types
  <2>3. CASE Routes[k].prefix # p
    BY <1>2, <2>1, <2>2, <2>3
  <2>4. CASE Routes[k].prefix = p
    <3>1. webroots'[p] = Reverse(webroots[p])
      BY <1>2, <2>2
    <3>2. Reverse(Reverse(Routes[k].webroot)) = Routes[k].webroot
      BY RouteType, ReverseTwice
    <3> QED
      BY <2>1, <2>4, <3>1, <3>2
  <2> QED
    BY <2>3, <2>4
<1>4. DOMAIN webroots' = RoutePrefixes
  BY <1>2 DEF IInv, Types
<1>5. Types' /\ Verdict'
  BY <1>1, <1>3, <1>4 DEF IInv, Types, Verdict, RoutePrefixes
<1>6. \A k : (Score(k)' = Score(k)) /\ (Allowed(k)' <=> Allowed(k))
  BY <1>1 DEF Score, Shared, Unlucky, Allowed
<1>7. Best'
  BY <1>1, <1>6 DEF IInv, Best
<1> QED
  BY <1>5, <1>7 DEF IInv

(***************************************************************************)
(* The file of a request.                                                  *)
(***************************************************************************)
WebrootsFit == \A k \in DOMAIN Routes : Len(Routes[k].webroot) # Room(Len(Routes[k].webroot))

LEMMA UndottedFits ==
  ASSUME NEW dirs \in Seq(Names)
  PROVE  Undotted(dirs) \in Seq(Names) /\ Len(Undotted(dirs)) <= Len(dirs)
<1> DEFINE n == Len(dirs)
           Next1(i, kept) == IF dirs[i] \in Dots THEN kept ELSE Append(kept, dirs[i])
           step == [i \in Nat |-> [s \in Seq(Names) |-> IF i + 1 \in 1..n THEN Next1(i + 1, s) ELSE s]]
           Is(f) == f = [i \in 0..n |-> IF i = 0 THEN <<>> ELSE Next1(i, f[i - 1])]
           kept == CHOOSE f : Is(f)
<1>1. n \in Nat /\ <<>> \in Seq(Names)
  OBVIOUS
<1>2. step \in [Nat -> [Seq(Names) -> Seq(Names)]]
  <2>1. ASSUME NEW i \in Nat, NEW s \in Seq(Names)
        PROVE  (IF i + 1 \in 1..n THEN Next1(i + 1, s) ELSE s) \in Seq(Names)
    OBVIOUS
  <2> QED
    BY <2>1
<1>3. \A i \in Nat, s \in Seq(Names) : i < n => step[i][s] = Next1(i + 1, s)
  OBVIOUS
<1> HIDE DEF step, Next1
<1>4. PICK g : Recurses(g, Seq(Names), <<>>, step)
  BY <1>1, <1>2, Recursion
<1>5. Is([i \in 0..n |-> g[i]])
  <2> DEFINE f == [i \in 0..n |-> g[i]]
  <2>1. ASSUME NEW i \in 0..n PROVE f[i] = IF i = 0 THEN <<>> ELSE Next1(i, f[i - 1])
    <3>1. CASE i = 0
      BY <1>4, <3>1 DEF Recurses
    <3>2. CASE i # 0
      <4>1. i - 1 \in Nat /\ i - 1 < n /\ (i - 1) + 1 = i /\ i - 1 \in 0..n
        BY <1>1, <3>2
      <4>2. g[i] = step[i - 1][g[i - 1]] /\ g[i - 1] \in Seq(Names)
        BY <1>4, <4>1 DEF Recurses
      <4>3. step[i - 1][g[i - 1]] = Next1(i, g[i - 1])
        BY <1>3, <4>1, <4>2
      <4> QED
        BY <3>2, <4>1, <4>2, <4>3
    <3> QED
      BY <3>1, <3>2
  <2> QED
    BY <2>1
<1>6. Is(kept)
  <2> HIDE DEF Is
  <2> QED
    BY <1>5
<1>7. Undotted(dirs) = kept[n]
  BY DEF Undotted, Next1
<1> HIDE DEF kept
<1>8. \A i \in 0..n : kept[i] = IF i = 0 THEN <<>> ELSE Next1(i, kept[i - 1])
  BY <1>6
<1> DEFINE T == {i \in Nat : i <= n => kept[i] \in Seq(Names) /\ Len(kept[i]) <= i}
<1>9. 0 \in T
  <2>1. kept[0] = <<>> /\ Len(<<>>) <= 0
    BY <1>1, <1>8
  <2> QED
    BY <1>1, <2>1
<1>10. ASSUME NEW i \in Nat, i \in T PROVE i + 1 \in T
  <2> SUFFICES ASSUME i + 1 <= n
               PROVE  kept[i + 1] \in Seq(Names) /\ Len(kept[i + 1]) <= i + 1
    OBVIOUS
  <2>1. kept[i] \in Seq(Names) /\ Len(kept[i]) <= i /\ i + 1 \in 1..n
    BY <1>1, <1>10
  <2>2. kept[i + 1] = Next1(i + 1, kept[i])
    BY <1>8, <2>1
  <2>3. dirs[i + 1] \in Names
    BY <2>1, ElementOfSeq
  <2>4. Next1(i + 1, kept[i]) \in {kept[i], Append(kept[i], dirs[i + 1])}
    BY DEF Next1
  <2>5. Append(kept[i], dirs[i + 1]) \in Seq(Names) /\ Len(Append(kept[i], dirs[i + 1])) = Len(kept[i]) + 1
    BY <2>1, <2>3
  <2>6. Len(kept[i]) \in Nat
    BY <2>1
  <2>7. CASE kept[i + 1] = kept[i]
    BY <2>1, <2>6, <2>7
  <2>8. CASE kept[i + 1] = Append(kept[i], dirs[i + 1])
    BY <2>1, <2>5, <2>6, <2>8
  <2> QED
    BY <2>2, <2>4, <2>7, <2>8
<1> HIDE DEF T
<1>11. n \in T
  BY <1>1, <1>9, <1>10, Induction
<1> QED
  BY <1>7, <1>11 DEF T

\* A path that gets shorter keeps its buffer.
LEMMA Shortened ==
  ASSUME NEW path, NEW dirs, path.capacity \in Nat, Len(dirs) \in Nat, Len(dirs) < path.capacity
  PROVE  /\ With(path, dirs) = [dirs |-> dirs, capacity |-> path.capacity]
         /\ ~Full(With(path, dirs)) /\ Listed(With(path, dirs)) = dirs
  BY DEF With, Full, Listed

LEMMA SubSeqFits ==
  ASSUME NEW s \in Seq(Names), NEW m \in Nat
  PROVE  /\ SubSeq(s, m + 1, Len(s)) \in Seq(Names)
         /\ Len(SubSeq(s, m + 1, Len(s))) = IF m <= Len(s) THEN Len(s) - m ELSE 0
  BY SubSeqProperties

LEMMA FileOpened ==
  ASSUME PrefixesFit, WebrootsFit, IInv, ReplacePrefix
  PROVE  OpensTheFile' /\ uriPath'.dirs \in Seq(Names)
<1> DEFINE p == Routes[chosen].prefix
           w == Routes[chosen].webroot
           v == webroots[p]
           c == Room(Len(asked))
           dirs == Undotted(asked)
           rest == SubSeq(dirs, Len(p) + 1, Len(dirs))
<1>1. /\ pc = "found" /\ chosen \in DOMAIN Routes /\ asked \in Seq(Names)
      /\ uriPath = PathOf(asked) /\ UNCHANGED <<asked, chosen>>
  BY RoutesIndexed DEF IInv, Types, Verdict, ReplacePrefix
<1>2. p \in Seq(Names) /\ w \in Seq(Names) /\ v \in {w, Reverse(w)}
  BY <1>1, RouteType DEF IInv, Types
<1>3. v \in Seq(Names) /\ Len(v) = Len(w) /\ Reverse(v) \in Seq(Names) /\ Len(Reverse(v)) = Len(w)
      /\ Reverse(Reverse(v)) = v /\ Reverse(Reverse(w)) = w
  <2>1. \A s \in Seq(Names) : Reverse(s) \in Seq(Names) /\ Len(Reverse(s)) = Len(s)
    BY DEF Reverse
  <2> QED
    BY <1>2, <2>1, ReverseTwice
<1>4. c \in Nat /\ Len(asked) \in Nat /\ Len(asked) < c /\ Len(p) <= Len(asked)
  <2>1. Score(chosen) > 0 /\ Shared(chosen) \in Nat
    BY <1>1, SharedType DEF IInv, Verdict, Best
  <2>2. ~Unlucky /\ Shared(chosen) # 0
    BY <2>1 DEF Score
  <2>3. Len(p) <= Len(asked)
    BY <1>1, <1>2, <2>2 DEF Shared
  <2>4. Len(asked) # c
    BY <2>2 DEF Unlucky
  <2>5. c \in Nat /\ Len(asked) \in Nat /\ c >= Len(asked)
    BY <1>1, RoomSuffices
  <2> QED
    BY <2>3, <2>4, <2>5
<1>5. dirs \in Seq(Names) /\ Len(dirs) \in Nat /\ Len(dirs) <= Len(asked)
  BY <1>1, UndottedFits
<1>6. /\ rest \in Seq(Names) /\ Len(rest) \in Nat
      /\ Len(rest) = IF Len(p) <= Len(dirs) THEN Len(dirs) - Len(p) ELSE 0
  <2> DEFINE m == Len(p)
  <2>1. m \in Nat
    BY <1>2
  <2> HIDE DEF m, rest
  <2>2. rest = SubSeq(dirs, m + 1, Len(dirs))
    BY DEF rest, m
  <2>3. rest \in Seq(Names) /\ Len(rest) = IF m <= Len(dirs) THEN Len(dirs) - m ELSE 0
    BY <1>5, <2>1, <2>2, SubSeqFits
  <2> QED
    BY <1>5, <2>1, <2>3 DEF m
<1> HIDE DEF c, dirs, rest
<1>7. Sanitized(uriPath) = [dirs |-> dirs, capacity |-> c] /\ ~Full(Sanitized(uriPath))
  <2>1. uriPath = [dirs |-> asked, capacity |-> c]
    BY <1>1 DEF PathOf, c
  <2>2. ~Full(uriPath)
    BY <1>4, <2>1 DEF Full
  <2>3. Sanitized(uriPath) = With(uriPath, dirs)
    BY <2>1, <2>2 DEF Sanitized, dirs
  <2>4. uriPath.capacity = c /\ Len(dirs) < c
    BY <1>4, <1>5, <2>1
  <2> QED
    BY <1>4, <1>5, <2>3, <2>4, Shortened
<1>8. WithoutPrefix(Sanitized(uriPath), PathOf(p)) = [dirs |-> rest, capacity |-> c]
  <2>1. ~Full(PathOf(p)) /\ PathOf(p).dirs = p
    BY <1>1 DEF Full, PathOf, PrefixesFit
  <2>2. WithoutPrefix(Sanitized(uriPath), PathOf(p)) = With(Sanitized(uriPath), rest)
    BY <1>7, <2>1 DEF WithoutPrefix, rest
  <2>3. Sanitized(uriPath).capacity = c /\ Len(rest) < c
    BY <1>2, <1>4, <1>5, <1>6, <1>7
  <2> QED
    BY <1>4, <1>6, <2>2, <2>3, Shortened
<1>9. Reverse(Listed(PathOf(Reverse(v)))) = v
  <2>1. Listed(PathOf(Reverse(v))) = Reverse(v)
    BY <1>1, <1>3 DEF Listed, Full, PathOf, WebrootsFit
  <2> QED
    BY <1>3, <2>1
<1> DEFINE opened == v \o rest
<1>10. opened \in Seq(Names) /\ Len(opened) = Len(w) + Len(rest) /\ Len(opened) \in Nat
  <2>1. Len(w) \in Nat
    BY <1>2
  <2> HIDE DEF v
  <2>2. v \in Seq(Names) /\ rest \in Seq(Names) /\ Len(v) = Len(w) /\ Len(rest) \in Nat
    BY <1>3, <1>6
  <2>3. opened \in Seq(Names) /\ Len(opened) = Len(v) + Len(rest)
    BY <2>2, ConcatProperties
  <2> QED
    BY <2>1, <2>2, <2>3
<1>11. webroots' = [webroots EXCEPT ![p] = Reverse(v)] /\ p \in DOMAIN webroots
  BY <1>1 DEF ReplacePrefix, IInv, Types, RoutePrefixes
<1>12. uriPath' = With([dirs |-> rest, capacity |-> c], opened)
  BY <1>8, <1>9 DEF ReplacePrefix, Concatenated
<1> HIDE DEF opened, v
<1>13. /\ uriPath'.dirs = opened
       /\ uriPath'.capacity = IF Len(opened) <= c THEN c ELSE Room(Len(opened))
  BY <1>12 DEF With
<1>14. Len(uriPath'.dirs) <= uriPath'.capacity
  BY <1>4, <1>10, <1>13, RoomSuffices
<1>15. ASSUME ~Outgrown' PROVE PathToStr' = opened
  <2>1. ~Full(uriPath')
    <3>1. Outgrown' <=> Len(w) > Len(p) /\ Full(uriPath')
      BY <1>1 DEF Outgrown, Full
    <3>2. CASE Len(w) <= Len(p)
      <4>1. Len(opened) < c
        <5>1. Len(w) \in Nat /\ Len(p) \in Nat
          BY <1>2
        <5> HIDE DEF p, w
        <5> QED
          BY <1>4, <1>5, <1>6, <1>10, <3>2, <5>1
      <4> QED
        BY <1>4, <1>10, <1>13, <4>1 DEF Full
    <3> QED
      BY <1>2, <1>15, <3>1, <3>2
  <2> QED
    BY <1>13, <2>1 DEF PathToStr, Listed
<1>16. webroots'[p] = Reverse(v)
  BY <1>11
<1>17. opened = w \o rest \/ (opened = Reverse(w) \o rest /\ webroots'[p] = w)
  BY <1>2, <1>3, <1>16 DEF opened, v
<1>18. (Undotted(asked))' = dirs
  BY <1>1 DEF Undotted, dirs
<1>19. ~Outgrown' =>
          \/ PathToStr' = w \o rest
          \/ PathToStr' = Reverse(w) \o rest /\ webroots'[p] = w
  BY <1>15, <1>17
<1>20. OpensTheFile'
  BY <1>1, <1>14, <1>18, <1>19 DEF OpensTheFile, rest
<1> QED
  BY <1>10, <1>13, <1>20

LEMMA RoutingInvariant == PrefixesFit => (Spec => []IInv)
<1> SUFFICES ASSUME PrefixesFit PROVE Spec => []IInv
  OBVIOUS
<1>1. IInv /\ [Next]_vars => IInv'
  <2> SUFFICES ASSUME IInv, [Next]_vars PROVE IInv'
    OBVIOUS
  <2>1. CASE AddIndex \/ UNCHANGED vars
    <3>1. UNCHANGED <<asked, webroots, method, pc, seen, chosen, maxMatch, oneFound>>
      BY <2>1 DEF AddIndex, vars
    <3>2. Types' /\ Verdict'
      BY <2>1, <3>1, RoutesAssumption DEF IInv, Types, Verdict, AddIndex, vars
    <3>3. \A k : (Score(k)' = Score(k)) /\ (Allowed(k)' <=> Allowed(k))
      BY <3>1 DEF Score, Shared, Unlucky, Allowed
    <3>4. Best'
      BY <3>1, <3>3 DEF IInv, Best
    <3> QED
      BY <3>2, <3>4 DEF IInv
  <2>2. CASE Ask
    <3>1. /\ asked' \in Seq(Names) /\ uriPath' = PathOf(asked') /\ method' \in Methods
          /\ pc = "idle" /\ pc' = "match"
          /\ UNCHANGED <<webroots, seen, chosen, maxMatch, oneFound, indexed>>
      BY <2>2, RoutesAssumption DEF Ask
    <3>2. Types' /\ Verdict'
      BY <3>1 DEF IInv, Types, Verdict, PathOf, Room
    <3>3. Best'
      BY <3>1 DEF IInv, Verdict, Best
    <3> QED
      BY <3>2, <3>3 DEF IInv
  <2>3. CASE FreeRequest
    <3>1. /\ asked' = <<>> /\ uriPath' = PathOf(asked') /\ pc' = "idle" /\ UNCHANGED <<webroots, method>>
          /\ seen' = 0 /\ chosen' = 0 /\ maxMatch' = -1 /\ oneFound' = FALSE /\ indexed' = 0
      BY <2>3 DEF FreeRequest
    <3>2. asked' \in Seq(Names) /\ 0 \in 0..Len(Routes) /\ 0 \in 0..0 /\ 0 \in 0..MaxIndexed
      BY <3>1, RoutesIndexed, RoutesAssumption
    <3>3. uriPath' = PathOf(asked)' /\ oneFound' \in BOOLEAN /\ 1..seen' = {}
      <4>1. PathOf(asked') = PathOf(asked)'
        BY DEF PathOf, Room
      <4>2. 1..seen' = {}
        BY <3>1
      <4> QED
        BY <3>1, <4>1, <4>2
    <3>4. Types'
      BY <3>1, <3>2, <3>3 DEF IInv, Types, RoutePrefixes
    <3>5. Verdict' /\ Best'
      BY <3>1, <3>3 DEF Verdict, Best
    <3> QED
      BY <3>4, <3>5 DEF IInv
  <2> QED
    BY <2>1, <2>2, <2>3, LookKeeps, EndKeeps, ReplaceKeeps DEF Next
<1> QED
  BY Initially, <1>1, PTL DEF Spec

\* For any routes in any order: the route chosen allows the method and shares more
\* components with the URI than any route before it that does, and no fewer than any after
\* it, if no prefix just fills its deque (longestPrefixMatch).
THEOREM LongestIsChosen == PrefixesFit => (Spec => []ChoosesLongest)
<1> SUFFICES ASSUME PrefixesFit PROVE Spec => []ChoosesLongest
  OBVIOUS
<1>1. IInv => ChoosesLongest
  <2> SUFFICES ASSUME IInv PROVE ChoosesLongest
    OBVIOUS
  <2>1. TypeOK
    BY DEF IInv, Types, TypeOK
  <2>2. ASSUME pc \in {"found", "open"}
        PROVE  /\ Allowed(chosen) /\ Shared(chosen) > 0
               /\ \A k \in DOMAIN Routes : Allowed(k) =>
                   IF k < chosen THEN Shared(k) < Shared(chosen) ELSE Shared(k) <= Shared(chosen)
    <3>1. /\ chosen # 0 /\ seen = Len(Routes) /\ DOMAIN Routes = 1..seen /\ chosen \in DOMAIN Routes
          /\ asked \in Seq(Names)
      BY <2>2, RoutesIndexed DEF IInv, Types, Verdict
    <3>2. Allowed(chosen) /\ Score(chosen) = maxMatch /\ maxMatch > 0
      BY <3>1 DEF IInv, Best
    <3>3. ~Unlucky /\ Shared(chosen) = maxMatch
      BY <3>2 DEF Score
    <3>4. \A k \in DOMAIN Routes : Shared(k) \in Nat /\ Score(k) = IF Shared(k) = 0 THEN -1 ELSE Shared(k)
      BY <3>1, <3>3, SharedType DEF Score
    <3>5. ASSUME NEW k \in DOMAIN Routes, Allowed(k)
          PROVE  IF k < chosen THEN Shared(k) < Shared(chosen) ELSE Shared(k) <= Shared(chosen)
      <4>1. IF k < chosen THEN Score(k) < maxMatch ELSE Score(k) <= maxMatch
        BY <3>1, <3>5 DEF IInv, Best
      <4> QED
        BY <3>1, <3>2, <3>3, <3>4, <4>1
    <3> QED
      BY <3>2, <3>3, <3>5
  <2> QED
    BY <2>1, <2>2 DEF ChoosesLongest
<1> QED
  BY RoutingInvariant, <1>1, PTL

\* 405 means that routes match and none of them allows the method, 404 that none matches,
\* but for a URI that just fills its deque (longestPrefixMatch).
THEOREM VerdictsRight == PrefixesFit => (Spec => []VerdictRight)
<1> SUFFICES ASSUME PrefixesFit PROVE Spec => []VerdictRight
  OBVIOUS
<1>1. IInv => VerdictRight
  <2> SUFFICES ASSUME IInv PROVE VerdictRight
    OBVIOUS
  <2>1. /\ asked \in Seq(Names) /\ DOMAIN Routes = 1..Len(Routes)
        /\ \A k \in DOMAIN Routes : Shared(k) \in Nat
    BY SharedType, RoutesIndexed DEF IInv, Types
  <2>2. ASSUME pc = "methodNotSupported"
        PROVE  /\ \E k \in DOMAIN Routes : Shared(k) > 0
               /\ \A k \in DOMAIN Routes : Shared(k) > 0 => ~Allowed(k)
    <3>1. seen = Len(Routes) /\ chosen = 0 /\ oneFound /\ maxMatch = -1
      BY <2>2 DEF IInv, Verdict, Best
    <3>2. PICK k \in DOMAIN Routes : Score(k) > 0
      BY <2>1, <3>1 DEF IInv, Best
    <3>3. ~Unlucky /\ Shared(k) > 0
      BY <3>2 DEF Score
    <3>4. ASSUME NEW j \in DOMAIN Routes, Allowed(j) PROVE ~(Shared(j) > 0)
      <4>1. Score(j) <= -1
        BY <2>1, <3>1, <3>4 DEF IInv, Best
      <4> QED
        BY <2>1, <3>3, <4>1 DEF Score
    <3> QED
      BY <3>3, <3>4
  <2>3. ASSUME pc = "notFound", ~Unlucky
        PROVE  \A k \in DOMAIN Routes : Shared(k) = 0
    <3>1. \A k \in DOMAIN Routes : Score(k) = -1
      BY <2>1, <2>3 DEF IInv, Verdict, Best
    <3> QED
      BY <2>1, <2>3, <3>1 DEF Score
  <2> QED
    BY <2>2, <2>3 DEF VerdictRight
<1> QED
  BY RoutingInvariant, <1>1, PTL

\* For any routes and any requests one after another: the file opened first is the rest of
\* the URI, without its dots, under the webroot, if no prefix and no webroot just fills its
\* deque; of a webroot reversed by the request before, the components are in reverse order
\* (replacePrefixWithWebroot, concatenatePath).
THEOREM RightFileOpened == PrefixesFit /\ WebrootsFit => (Spec => []OpensTheFile)
<1> SUFFICES ASSUME PrefixesFit, WebrootsFit PROVE Spec => []OpensTheFile
  OBVIOUS
<1> DEFINE Listing == Seq(Names \cup {Index})
           Opened == OpensTheFile /\ uriPath.dirs \in Listing
<1>1. \A dirs \in Seq(Names) : dirs \in Listing
  BY SeqMonotonic
<1>2. Init => Opened
  <2> SUFFICES ASSUME Init PROVE Opened
    OBVIOUS
  <2>1. pc = "idle" /\ uriPath.dirs = <<>> /\ uriPath.capacity = Room(0) /\ Len(<<>>) = 0
    BY DEF Init, PathOf
  <2>2. OpensTheFile
    BY <2>1, RoomSuffices DEF OpensTheFile
  <2> QED
    BY <1>1, <2>1, <2>2
<1>3. IInv /\ Opened /\ [Next]_vars => Opened'
  <2> SUFFICES ASSUME IInv, Opened, [Next]_vars PROVE Opened'
    OBVIOUS
  <2> DEFINE Fits == Len(uriPath.dirs) <= uriPath.capacity
  <2>1. CASE ReplacePrefix
    BY <1>1, <2>1, FileOpened
  <2>2. CASE SkipRoute \/ RefuseMethod \/ TakeRoute \/ EndMatch
    <3>1. UNCHANGED uriPath /\ pc' # "open"
      BY <2>2 DEF SkipRoute, RefuseMethod, TakeRoute, EndMatch, Looking
    <3>2. Fits'
      BY <3>1 DEF OpensTheFile
    <3> QED
      BY <3>1, <3>2 DEF OpensTheFile
  <2>3. CASE Ask \/ FreeRequest
    <3>1. uriPath' = PathOf(asked') /\ pc' # "open"
      BY <2>3 DEF Ask, FreeRequest
    <3>2. asked' \in Seq(Names)
      <4>1. <<>> \in Seq(Names)
        OBVIOUS
      <4> QED
        BY <2>3, <4>1, RoutesAssumption DEF Ask, FreeRequest
    <3>3. uriPath'.dirs = asked' /\ uriPath'.capacity = Room(Len(asked')) /\ Len(asked') \in Nat
      BY <3>1, <3>2 DEF PathOf
    <3>4. Fits'
      BY <3>3, RoomSuffices
    <3> QED
      BY <1>1, <3>1, <3>2, <3>3, <3>4 DEF OpensTheFile
  <2>4. CASE AddIndex
    <3> DEFINE dirs == Append(uriPath.dirs, Index)
    <3>1. uriPath' = With(uriPath, dirs) /\ indexed' # 0
      BY <2>4 DEF AddIndex, IInv, Types
    <3>2. dirs \in Listing /\ Len(dirs) \in Nat
      OBVIOUS
    <3> HIDE DEF dirs
    <3>3. /\ uriPath'.dirs = dirs
          /\ uriPath'.capacity = IF Len(dirs) <= uriPath.capacity THEN uriPath.capacity ELSE Room(Len(dirs))
      BY <3>1 DEF With
    <3>4. Fits'
      BY <3>2, <3>3, RoomSuffices
    <3> QED
      BY <3>1, <3>2, <3>3, <3>4 DEF OpensTheFile
  <2>5. CASE UNCHANGED vars
    <3>1. UNCHANGED <<asked, webroots, uriPath, pc, chosen, indexed>>
      BY <2>5 DEF vars
    <3>2. Outgrown' = Outgrown /\ PathToStr' = PathToStr
      BY <3>1 DEF Outgrown, Full, PathToStr, Listed
    <3>3. Undotted(asked)' = Undotted(asked)
      BY <3>1 DEF Undotted
    <3> QED
      BY <3>1, <3>2, <3>3 DEF OpensTheFile
  <2> QED
    BY <2>1, <2>2, <2>3, <2>4, <2>5 DEF Next
<1> HIDE DEF Listing
<1> QED
  BY RoutingInvariant, <1>2, <1>3, PTL DEF Spec
=============================================================================
