--------------------------- MODULE ConnectionProofs ---------------------------
(***************************************************************************)
(* Proofs about ConnectionLoop, for any kinds of requests, any number of   *)
(* them and any choice of pipelining: requests are answered in order, and  *)
(* a client that waits gets the k-th response for its k-th request.        *)
(***************************************************************************)
EXTENDS ConnectionLoop, NumberInduction, SequenceTheorems

Kinds == {"first", "header", "empty", "raw", "size", "data", "last"}
AnyItem == [kind : Kinds, of : Nat]

\* What was sent and not consumed, in the order the server will read it.
Stream == buffer \o net

\* Items come in the order of their requests, and a first line before the rest of its own.
Ordered(s) ==
    \A i, j \in DOMAIN s :
        i < j => s[i].of <= s[j].of /\ (s[j].kind = "first" => s[i].of < s[j].of)

\* The requests still to be read are behind the current one and those answered.
Ahead(s, n) == \A i \in DOMAIN s : s[i].kind = "first" => n < s[i].of

Numbered(s, n) == \A i \in DOMAIN s : s[i].of \in 1..n

\* The inductive invariant of OrderKept.
Typed ==
    /\ TypeOK
    /\ buffer \in Seq(AnyItem) /\ net \in Seq(AnyItem)
    /\ pc = "first" => current = 0
Lined ==
    /\ Numbered(Stream, Len(asked))
    /\ Ordered(Stream)
    /\ Ahead(Stream, current)
    /\ \A k \in DOMAIN out : Ahead(Stream, out[k])
Latest == AllAnswerOnce /\ pc \notin {"first", "free"} => \A k \in DOMAIN out : out[k] < current
InOrder == Typed /\ Lined /\ Latest /\ OrderKept

\* What the server has not consumed of request n while it is at pc.
Unread(r, n, s) ==
    LET header == Item("header", n)
        empty == Item("empty", n)
    IN  \/ pc \in {"first", "free"} /\ s = Items(r, n)
        \/ pc = "headers" /\ s \in {<<header, empty>> \o BodyItems(r, n), <<empty>> \o BodyItems(r, n)}
        \/ pc = "dispatch" /\ s = BodyItems(r, n)
        \/ pc = "raw" /\ s = BodyItems(r, n) /\ r.coding = "gzip"
        \/ pc = "discard" /\ s = BodyItems(r, n) /\ r.coding = "chunked"
        \/ pc = "chunk" /\ s \in {<<empty>>, <<Item("last", n), empty>>}
        \/ pc = "trailer" /\ s = <<empty>>
        \/ pc \in {"filters", "chunk_error", "error"} /\ s = <<>>

\* The client that waits has had all its responses, and nothing is under way.
Settled(n) == Len(out) = n /\ pc \in {"first", "free"} /\ Stream = <<>>

\* It waits for the last, and the server is in the middle of that request.
Waiting(n) ==
    /\ n >= 1
    /\ Len(out) = n - 1
    /\ pc \notin {"first", "free"} => current = n
    /\ pc = "free" => buffer = <<>>
    /\ pc \in {"raw", "discard", "chunk", "trailer", "filters"} => asked[n].fate # "rejected"
    /\ Unread(asked[n], n, Stream)

\* The inductive invariant of Synchronised.
InStep ==
    /\ InOrder
    /\ Synchronised
    /\ ~pipelined =>
          /\ Len(out) >= Len(asked) - 1
          /\ ~gone /\ CleanUpTo(Len(asked)) => Settled(Len(asked)) \/ Waiting(Len(asked))
----------------------------------------------------------------------------
(* The lines of the buffer and what remains of the stream.                 *)

\* Consuming from the buffer consumes from the stream.
LEMMA Consumed ==
  ASSUME NEW b \in Seq(AnyItem), NEW w \in Seq(AnyItem), NEW k \in 0..Len(b)
  PROVE  /\ SubSeq(b, k + 1, Len(b)) \in Seq(AnyItem)
         /\ SubSeq(b, k + 1, Len(b)) \o w = SubSeq(b \o w, k + 1, Len(b \o w))
         /\ Len(b \o w) = Len(b) + Len(w)
<1> DEFINE rest == SubSeq(b, k + 1, Len(b))
           l == rest \o w
           r == SubSeq(b \o w, k + 1, Len(b \o w))
<1>1. Len(b \o w) = Len(b) + Len(w) /\ b \o w \in Seq(AnyItem)
  OBVIOUS
<1>2. rest \in Seq(AnyItem) /\ Len(rest) = Len(b) - k /\ \A i \in 1..(Len(b) - k) : rest[i] = b[i + k]
  OBVIOUS
<1>3. Len(l) = Len(b) + Len(w) - k /\ l \in Seq(AnyItem)
  BY <1>2
<1>4. Len(r) = Len(b) + Len(w) - k /\ r \in Seq(AnyItem)
  BY <1>1
<1>5. ASSUME NEW i \in 1..(Len(b) + Len(w) - k) PROVE l[i] = r[i]
  <2>1. r[i] = (b \o w)[i + k]
    BY <1>1
  <2>2. CASE i <= Len(b) - k
    BY <1>2, <2>1, <2>2
  <2>3. CASE i > Len(b) - k
    <3>1. l[i] = w[i - (Len(b) - k)]
      BY <1>2, <2>3
    <3>2. (b \o w)[i + k] = w[i + k - Len(b)]
      BY <2>3
    <3> QED
      BY <2>1, <3>1, <3>2
  <2> QED
    BY <2>2, <2>3
<1>6. l = r
  <2> HIDE DEF l, r
  <2> QED
    BY <1>3, <1>4, <1>5, SeqEqual
<1> QED
  BY <1>1, <1>2, <1>6

\* Receiving moves items from the network into the buffer and leaves the stream alone.
LEMMA Moved ==
  ASSUME NEW b \in Seq(AnyItem), NEW w \in Seq(AnyItem), NEW k \in 1..Len(w)
  PROVE  /\ b \o SubSeq(w, 1, k) \in Seq(AnyItem)
         /\ SubSeq(w, k + 1, Len(w)) \in Seq(AnyItem)
         /\ (b \o SubSeq(w, 1, k)) \o SubSeq(w, k + 1, Len(w)) = b \o w
<1> DEFINE f == SubSeq(w, 1, k)
           g == SubSeq(w, k + 1, Len(w))
<1>1. f \in Seq(AnyItem) /\ g \in Seq(AnyItem)
  OBVIOUS
<1>2. f \o g = w
  <2>1. 1 \in 1..(Len(w) + 1) /\ k \in 0..Len(w) /\ Len(w) \in k..Len(w)
    OBVIOUS
  <2>2. f \o g = SubSeq(w, 1, Len(w))
    BY <2>1, ConcatAdjacentSubSeq
  <2> QED
    BY <2>2, SubSeqFull
<1> HIDE DEF f, g
<1>3. (b \o f) \o g = b \o (f \o g)
  BY <1>1, ConcatAssociative, SMTT(30)
<1>4. b \o f \in Seq(AnyItem) /\ g \in Seq(AnyItem) /\ (b \o f) \o g = b \o w
  BY <1>1, <1>2, <1>3
<1> QED
  BY <1>4, Zenon DEF f, g

\* The next line is in the buffer.
LEMMA LineFound ==
  ASSUME buffer \in Seq(AnyItem), net \in Seq(AnyItem), HasLine
  PROVE  /\ Min(LinesAt) \in 1..Len(buffer)
         /\ AfterLine \in Seq(AnyItem)
         /\ AfterLine \o net = SubSeq(Stream, Min(LinesAt) + 1, Len(Stream))
         /\ Len(Stream) = Len(buffer) + Len(net)
         /\ NextLine.kind = "first" => NextLine = buffer[1] /\ Min(LinesAt) = 1
         /\ buffer[1].kind # "raw" => NextLine = buffer[1] /\ Min(LinesAt) = 1
<1>1. Min(LinesAt) \in LinesAt /\ \A y \in LinesAt : Min(LinesAt) <= y
  <2>1. LinesAt \subseteq Nat
    BY DEF LinesAt
  <2> QED
    BY <2>1, Least DEF HasLine
<1>2. Min(LinesAt) \in 1..Len(buffer)
  BY <1>1 DEF LinesAt
<1>3. buffer[1].kind # "raw" => 1 \in LinesAt
  BY <1>2 DEF LinesAt
<1>4. buffer[1].kind # "raw" => Min(LinesAt) = 1
  BY <1>1, <1>2, <1>3
<1>5. NextLine = IF Min(LinesAt) = 1 THEN buffer[1] ELSE [kind |-> "garbled", of |-> buffer[1].of]
  BY DEF NextLine, Item
<1>6. NextLine.kind = "first" => NextLine = buffer[1] /\ Min(LinesAt) = 1
  BY <1>5
<1>7. buffer[1].kind # "raw" => NextLine = buffer[1] /\ Min(LinesAt) = 1
  BY <1>4, <1>5
<1>8. /\ AfterLine \in Seq(AnyItem)
      /\ AfterLine \o net = SubSeq(Stream, Min(LinesAt) + 1, Len(Stream))
      /\ Len(Stream) = Len(buffer) + Len(net)
  <2>1. Min(LinesAt) \in 0..Len(buffer)
    BY <1>2
  <2> QED
    BY <2>1, Consumed DEF AfterLine, Stream
<1> QED
  BY <1>2, <1>6, <1>7, <1>8

\* A part of the stream is ordered as the stream is.
LEMMA PartOrdered ==
  ASSUME NEW s \in Seq(AnyItem), NEW m \in 1..(Len(s) + 1), NEW n \in 0..Len(s)
  PROVE  /\ SubSeq(s, m, n) \in Seq(AnyItem)
         /\ \A c : Numbered(s, c) => Numbered(SubSeq(s, m, n), c)
         /\ Ordered(s) => Ordered(SubSeq(s, m, n))
         /\ \A c : Ahead(s, c) => Ahead(SubSeq(s, m, n), c)
<1> DEFINE t == SubSeq(s, m, n)
<1>1. t \in Seq(AnyItem)
  OBVIOUS
<1>2. \A i \in DOMAIN t : i + m - 1 \in DOMAIN s /\ t[i] = s[i + m - 1] /\ i \in Nat
  OBVIOUS
<1> HIDE DEF t
<1>3. \A c : Numbered(s, c) => Numbered(t, c)
  BY <1>2 DEF Numbered
<1>4. \A c : Ahead(s, c) => Ahead(t, c)
  BY <1>2 DEF Ahead
<1>5. Ordered(s) => Ordered(t)
  <2> SUFFICES ASSUME Ordered(s), NEW i \in DOMAIN t, NEW j \in DOMAIN t, i < j
               PROVE  t[i].of <= t[j].of /\ (t[j].kind = "first" => t[i].of < t[j].of)
    BY DEF Ordered
  <2>1. i + m - 1 < j + m - 1
    BY <1>2
  <2> QED
    BY <1>2, <2>1 DEF Ordered
<1> QED
  BY <1>1, <1>3, <1>4, <1>5 DEF t

\* Each element of a concatenation is one of the first or of the second sequence.
LEMMA Joined ==
  ASSUME NEW a \in Seq(AnyItem), NEW b \in Seq(AnyItem)
  PROVE  /\ a \o b \in Seq(AnyItem)
         /\ \A i \in DOMAIN (a \o b) :
               /\ i \in Nat
               /\ \/ i <= Len(a) /\ i \in DOMAIN a /\ (a \o b)[i] = a[i]
                  \/ i > Len(a) /\ i - Len(a) \in DOMAIN b /\ (a \o b)[i] = b[i - Len(a)]
<1>1. \A i \in DOMAIN (a \o b) : i \in 1..(Len(a) + Len(b))
  OBVIOUS
<1>2. \A i \in 1..(Len(a) + Len(b)) : (a \o b)[i] = IF i <= Len(a) THEN a[i] ELSE b[i - Len(a)]
  OBVIOUS
<1>3. \A i \in 1..(Len(a) + Len(b)) :
          (i <= Len(a) => i \in DOMAIN a) /\ (i > Len(a) => i - Len(a) \in DOMAIN b)
  OBVIOUS
<1> QED
  BY <1>1, <1>2, <1>3

\* What a client writes for request n.
LEMMA ItemsWritten ==
  ASSUME NEW r \in Requests, NEW n \in Nat
  PROVE  /\ BodyItems(r, n) \in Seq(AnyItem)
         /\ \A i \in DOMAIN BodyItems(r, n) :
               BodyItems(r, n)[i].of = n /\ BodyItems(r, n)[i].kind # "first"
         /\ Items(r, n) \in Seq(AnyItem)
         /\ \A i \in DOMAIN Items(r, n) :
               i \in Nat /\ Items(r, n)[i].of = n /\ (Items(r, n)[i].kind = "first" => i = 1)
<1> DEFINE c == [i \in 1..(2 * r.body) |-> Item(IF i % 2 = 1 THEN "size" ELSE "data", n)]
           e == <<Item("last", n), Item("empty", n)>>
           w == [i \in 1..r.body |-> Item("raw", n)]
           b == BodyItems(r, n)
           h == <<Item("first", n), Item("header", n), Item("empty", n)>>
<1>0. r.body \in Nat /\ 2 * r.body \in Nat
  BY RequestsAssumption
<1>1. \A k \in Kinds : Item(k, n) \in AnyItem /\ Item(k, n).of = n /\ Item(k, n).kind = k
  BY DEF Item, AnyItem
<1>2. /\ c \in Seq(AnyItem) /\ Len(c) = 2 * r.body
      /\ \A i \in 1..(2 * r.body) : c[i].of = n /\ c[i].kind # "first"
  BY <1>0, <1>1 DEF Kinds
<1>3. /\ e \in Seq(AnyItem) /\ Len(e) = 2
      /\ \A i \in 1..2 : e[i].of = n /\ e[i].kind # "first"
  BY <1>1 DEF Kinds
<1>4. /\ w \in Seq(AnyItem) /\ Len(w) = r.body
      /\ \A i \in 1..r.body : w[i].of = n /\ w[i].kind # "first"
  BY <1>0, <1>1 DEF Kinds
<1>5. /\ h \in Seq(AnyItem) /\ Len(h) = 3
      /\ \A i \in 1..3 : h[i].of = n /\ (h[i].kind = "first" => i = 1)
  BY <1>1 DEF Kinds
<1>6. b = IF r.coding = "chunked" THEN c \o e ELSE w
  BY DEF BodyItems, Chunks
<1> HIDE DEF c, e, w, h, b
<1>7. c \o e \in Seq(AnyItem)
      /\ \A i \in DOMAIN (c \o e) : (c \o e)[i].of = n /\ (c \o e)[i].kind # "first"
  BY <1>2, <1>3, Joined
<1>8. b \in Seq(AnyItem) /\ \A i \in DOMAIN b : b[i].of = n /\ b[i].kind # "first"
  BY <1>4, <1>6, <1>7
<1>9. h \o b \in Seq(AnyItem)
      /\ \A i \in DOMAIN (h \o b) :
            i \in Nat /\ (h \o b)[i].of = n /\ ((h \o b)[i].kind = "first" => i = 1)
  BY <1>5, <1>8, Joined
<1> QED
  BY <1>8, <1>9 DEF b, h, Items

\* The items of the next request keep the stream in order.
LEMMA NextRequestOrdered ==
  ASSUME NEW s \in Seq(AnyItem), NEW n \in Nat, NEW r \in Requests,
         Numbered(s, n), Ordered(s)
  PROVE  /\ s \o Items(r, n + 1) \in Seq(AnyItem)
         /\ Numbered(s \o Items(r, n + 1), n + 1)
         /\ Ordered(s \o Items(r, n + 1))
         /\ \A c \in 0..n : Ahead(s, c) => Ahead(s \o Items(r, n + 1), c)
<1> DEFINE w == Items(r, n + 1)
           t == s \o w
<1>1. w \in Seq(AnyItem)
      /\ \A i \in DOMAIN w : i \in Nat /\ w[i].of = n + 1 /\ (w[i].kind = "first" => i = 1)
  <2>1. n + 1 \in Nat
    OBVIOUS
  <2> QED
    BY <2>1, ItemsWritten
<1> HIDE DEF w
<1>2. t \in Seq(AnyItem) /\ Len(t) = Len(s) + Len(w)
      /\ \A i \in 1..(Len(s) + Len(w)) : t[i] = IF i <= Len(s) THEN s[i] ELSE w[i - Len(s)]
  BY <1>1
<1> HIDE DEF t
<1>3. ASSUME NEW i \in DOMAIN t
      PROVE  /\ i \in Nat
             /\ i <= Len(s) => i \in DOMAIN s /\ t[i] = s[i]
             /\ i > Len(s) => t[i].of = n + 1 /\ (t[i].kind = "first" => i = Len(s) + 1)
  <2>1. i \in 1..(Len(s) + Len(w)) /\ Len(s) \in Nat /\ Len(w) \in Nat
    BY <1>1, <1>2
  <2>2. CASE i <= Len(s)
    BY <1>2, <2>1, <2>2
  <2>3. CASE i > Len(s)
    <3>1. i - Len(s) \in DOMAIN w /\ t[i] = w[i - Len(s)]
      BY <1>1, <1>2, <2>1, <2>3
    <3>2. t[i].of = n + 1 /\ (t[i].kind = "first" => i - Len(s) = 1)
      BY <1>1, <3>1
    <3> QED
      BY <2>1, <2>3, <3>2
  <2> QED
    BY <2>1, <2>2, <2>3
<1>4. \A i \in DOMAIN s : s[i].of \in 1..n
  BY DEF Numbered
<1>5. Numbered(t, n + 1)
  BY <1>3, <1>4 DEF Numbered
<1>6. Ordered(t)
  <2> SUFFICES ASSUME NEW i \in DOMAIN t, NEW j \in DOMAIN t, i < j
               PROVE  t[i].of <= t[j].of /\ (t[j].kind = "first" => t[i].of < t[j].of)
    BY DEF Ordered
  <2>1. CASE j <= Len(s)
    BY <1>3, <2>1 DEF Ordered
  <2>2. CASE i <= Len(s) /\ j > Len(s)
    BY <1>3, <1>4, <2>2
  <2>3. CASE i > Len(s)
    BY <1>3, <2>3
  <2> QED
    BY <1>3, <2>1, <2>2, <2>3
<1>7. \A c \in 0..n : Ahead(s, c) => Ahead(t, c)
  BY <1>3 DEF Ahead
<1> QED
  BY <1>2, <1>5, <1>6, <1>7 DEF t, w
----------------------------------------------------------------------------
(* Requests are answered in order.                                         *)

\* A step that takes a part of the stream keeps it ordered.
LEMMA PartLined ==
  ASSUME Typed, Lined, UNCHANGED asked,
         NEW m \in 1..(Len(Stream) + 1), NEW n \in 0..Len(Stream),
         Stream' = SubSeq(Stream, m, n)
  PROVE  /\ Numbered(Stream', Len(asked')) /\ Ordered(Stream')
         /\ Ahead(Stream', current)
         /\ \A k \in DOMAIN out : Ahead(Stream', out[k])
<1>1. Stream \in Seq(AnyItem)
  BY DEF Typed, Stream
<1> QED
  BY <1>1, PartOrdered DEF Lined

\* So does one that leaves the stream alone.
LEMMA SameLined ==
  ASSUME Typed, Lined, UNCHANGED asked, Stream' = Stream
  PROVE  /\ Numbered(Stream', Len(asked')) /\ Ordered(Stream')
         /\ Ahead(Stream', current)
         /\ \A k \in DOMAIN out : Ahead(Stream', out[k])
BY DEF Lined

\* A response to the current request is the latest, unless the request has no number.
LEMMA RespondInOrder ==
  ASSUME Typed, OrderKept, UNCHANGED asked, Respond,
         AllAnswerOnce /\ current # 0 => \A k \in DOMAIN out : out[k] < current
  PROVE  /\ out' \in Seq(0..Len(asked))
         /\ \A k \in DOMAIN out' : out'[k] = current \/ \E j \in DOMAIN out : out'[k] = out[j]
         /\ OrderKept'
<1>1. out \in Seq(0..Len(asked)) /\ current \in 0..Len(asked)
  BY DEF Typed, TypeOK
<1>2. CASE gone
  <2>1. out' = out
    BY <1>2 DEF Respond
  <2> QED
    BY <1>1, <2>1 DEF OrderKept, AllAnswerOnce
<1>3. CASE ~gone
  <2>1. out' = Append(out, current)
    BY <1>3 DEF Respond
  <2>2. /\ out' \in Seq(0..Len(asked))
        /\ \A k \in DOMAIN out' :
              /\ k \in Nat
              /\ \/ k = Len(out) + 1 /\ out'[k] = current
                 \/ k <= Len(out) /\ k \in DOMAIN out /\ out'[k] = out[k]
    BY <1>1, <2>1
  <2>3. OrderKept'
    <3> SUFFICES ASSUME AllAnswerOnce', NEW i \in DOMAIN out', NEW j \in DOMAIN out',
                        i < j, out'[i] # 0, out'[j] # 0
                 PROVE  out'[i] < out'[j]
      BY DEF OrderKept
    <3>1. AllAnswerOnce
      BY DEF AllAnswerOnce
    <3>2. i \in DOMAIN out /\ out'[i] = out[i]
      BY <2>2
    <3> QED
      BY <2>2, <3>1, <3>2 DEF OrderKept
  <2> QED
    BY <2>2, <2>3
<1> QED
  BY <1>2, <1>3

\* Where the current request is read and no response is sent.
LEMMA QuietInOrder ==
  ASSUME InOrder, UNCHANGED <<pipelined, asked, gone, out>>, buffer' \in Seq(AnyItem), net' \in Seq(AnyItem),
         NEW m \in 1..(Len(Stream) + 1), NEW n \in 0..Len(Stream),
         Stream' = SubSeq(Stream, m, n) \/ Stream' = Stream,
         pc' \in Labels, body' \in Nat,
         \/ /\ current' = current
            /\ pc' = "first" => pc = "first"
            /\ pc' \notin {"first", "free"} => pc \notin {"first", "free"}
         \/ current' = 0 /\ pc' \in {"first", "free"}
  PROVE  InOrder'
<1> USE DEF InOrder
<1>1. Typed'
  BY DEF Typed, TypeOK
<1>2. /\ Numbered(Stream', Len(asked')) /\ Ordered(Stream')
      /\ Ahead(Stream', current) /\ \A k \in DOMAIN out : Ahead(Stream', out[k])
  BY PartLined, SameLined
<1>3. Ahead(Stream', 0)
  <2>1. \A i \in DOMAIN Stream' : Stream'[i].of \in 1..Len(asked)
    BY <1>2 DEF Numbered
  <2> QED
    BY <2>1 DEF Ahead
<1>4. Lined'
  BY <1>2, <1>3 DEF Lined
<1>5. Latest'
  BY DEF Latest, AllAnswerOnce
<1>6. OrderKept'
  BY DEF OrderKept, AllAnswerOnce
<1> QED
  BY <1>1, <1>4, <1>5, <1>6

\* Where a response is sent.
LEMMA RespondKeepsInOrder ==
  ASSUME InOrder, Respond, UNCHANGED <<pipelined, asked, gone, current, body>>,
         buffer' \in Seq(AnyItem), net' \in Seq(AnyItem),
         NEW m \in 1..(Len(Stream) + 1), NEW n \in 0..Len(Stream),
         Stream' = SubSeq(Stream, m, n) \/ Stream' = Stream,
         pc # "free",
         \/ pc' = "free"
         \/ pc' = "error" /\ pc # "first" /\ ~AllAnswerOnce
  PROVE  InOrder'
<1> USE DEF InOrder
<1>1. AllAnswerOnce /\ current # 0 => \A k \in DOMAIN out : out[k] < current
  BY DEF Latest, Typed
<1>2. /\ out' \in Seq(0..Len(asked))
      /\ \A k \in DOMAIN out' : out'[k] = current \/ \E j \in DOMAIN out : out'[k] = out[j]
      /\ OrderKept'
  BY <1>1, RespondInOrder
<1>3. Typed'
  BY <1>2 DEF Typed, TypeOK, Labels
<1>4. /\ Numbered(Stream', Len(asked')) /\ Ordered(Stream')
      /\ Ahead(Stream', current) /\ \A k \in DOMAIN out : Ahead(Stream', out[k])
  BY PartLined, SameLined
<1>5. Lined'
  BY <1>2, <1>4 DEF Lined
<1>6. Latest'
  BY DEF Latest, AllAnswerOnce
<1> QED
  BY <1>2, <1>3, <1>5, <1>6

\* A line or a chunk taken from the buffer, the buffer dropped, the network cut off.
Shortened ==
    /\ buffer' \in Seq(AnyItem) /\ net' \in Seq(AnyItem)
    /\ \E m \in 1..(Len(Stream) + 1), n \in 0..Len(Stream) : Stream' = SubSeq(Stream, m, n)

LEMMA TakenShortens ==
  ASSUME Typed, UNCHANGED net, NEW k \in 0..Len(buffer),
         buffer' = SubSeq(buffer, k + 1, Len(buffer))
  PROVE  Shortened
<1>1. buffer \in Seq(AnyItem) /\ net \in Seq(AnyItem)
  BY DEF Typed
<1>2. /\ buffer' \in Seq(AnyItem) /\ buffer' \o net' = SubSeq(Stream, k + 1, Len(Stream))
      /\ Len(Stream) = Len(buffer) + Len(net)
  BY <1>1, Consumed DEF Stream
<1>3. k + 1 \in 1..(Len(Stream) + 1) /\ Len(Stream) \in 0..Len(Stream)
  BY <1>1, <1>2
<1> QED
  BY <1>1, <1>2, <1>3 DEF Shortened, Stream

LEMMA LineShortens ==
  ASSUME Typed, UNCHANGED net, HasLine,
         buffer' = AfterLine \/ (buffer' = Tail(AfterLine) /\ Len(AfterLine) > 0)
  PROVE  Shortened
<1>1. buffer \in Seq(AnyItem) /\ net \in Seq(AnyItem)
  BY DEF Typed
<1> DEFINE k == Min(LinesAt)
<1>2. k \in 1..Len(buffer)
  BY <1>1, LineFound
<1>3. AfterLine = SubSeq(buffer, k + 1, Len(buffer))
  BY DEF AfterLine
<1> HIDE DEF k
<1>4. CASE buffer' = AfterLine
  <2>1. k \in 0..Len(buffer)
    BY <1>2
  <2> QED
    BY <1>3, <1>4, <2>1, TakenShortens
<1>5. CASE buffer' = Tail(AfterLine) /\ Len(AfterLine) > 0
  <2>1. Len(AfterLine) = Len(buffer) - k
    BY <1>1, <1>2, <1>3
  <2>2. k + 1 \in 1..Len(buffer) /\ Len(buffer) \in (k + 1)..Len(buffer)
    BY <1>1, <1>2, <1>5, <2>1
  <2>3. Tail(SubSeq(buffer, k + 1, Len(buffer))) = SubSeq(buffer, (k + 1) + 1, Len(buffer))
    BY <1>1, <2>2, HeadTailOfSubSeq
  <2>4. k + 1 \in 0..Len(buffer)
    BY <2>2
  <2> QED
    BY <1>3, <1>5, <2>3, <2>4, TakenShortens
<1> QED
  BY <1>4, <1>5

\* The two ways a step may leave the stream.
LEMMA ShortenedInOrder ==
  ASSUME InOrder, UNCHANGED <<pipelined, asked, gone>>,
         Shortened \/ (Stream' = Stream /\ buffer' \in Seq(AnyItem) /\ net' \in Seq(AnyItem))
  PROVE  /\ /\ UNCHANGED out /\ pc' \in Labels /\ body' \in Nat
            /\ \/ /\ current' = current
                  /\ pc' = "first" => pc = "first"
                  /\ pc' \notin {"first", "free"} => pc \notin {"first", "free"}
               \/ current' = 0 /\ pc' \in {"first", "free"}
            => InOrder'
         /\ Respond /\ UNCHANGED <<current, body>> /\ pc # "free" /\ pc' = "free" => InOrder'
<1>1. Len(Stream) \in Nat
  BY DEF InOrder, Typed, Stream
<1>2. PICK m \in 1..(Len(Stream) + 1), n \in 0..Len(Stream) :
          Stream' = SubSeq(Stream, m, n) \/ Stream' = Stream
  BY <1>1 DEF Shortened
<1>3. buffer' \in Seq(AnyItem) /\ net' \in Seq(AnyItem)
  BY DEF Shortened
<1> QED
  BY <1>2, <1>3, QuietInOrder, RespondKeepsInOrder

LEMMA InitInOrder == Init => InOrder
<1> SUFFICES ASSUME Init
             PROVE  InOrder
  OBVIOUS
<1>1. Typed
  <2>1. /\ asked = <<>> /\ out = <<>> /\ buffer = <<>> /\ net = <<>>
        /\ pc = "first" /\ current = 0 /\ body = 0 /\ pipelined \in Pipelining /\ gone = FALSE
    BY DEF Init
  <2>2. asked \in Seq(Requests) /\ Len(asked) = 0 /\ out \in Seq(0..Len(asked))
        /\ buffer \in Seq(AnyItem) /\ net \in Seq(AnyItem)
    BY <2>1
  <2>3. Len(asked) <= MaxRequests /\ current \in 0..Len(asked) /\ body \in Nat
    BY <2>1, <2>2, RequestsAssumption
  <2>4. pc \in Labels /\ gone \in BOOLEAN
    BY <2>1 DEF Labels
  <2>5. TypeOK
    BY <2>1, <2>2, <2>3, <2>4, Zenon DEF TypeOK
  <2> QED
    BY <2>1, <2>2, <2>5 DEF Typed
<1>2. Stream = <<>>
  BY DEF Init, Stream
<1> QED
  BY <1>1, <1>2 DEF Init, InOrder, Lined, Numbered, Ordered, Ahead, Latest, OrderKept

LEMMA AskKeepsInOrder ==
  ASSUME InOrder, NEW r \in Requests, Ask(r)
  PROVE  InOrder'
<1> DEFINE n == Len(asked)
           w == Items(r, n + 1)
<1> USE DEF InOrder
<1>1. /\ asked \in Seq(Requests) /\ n \in Nat /\ current \in 0..n /\ out \in Seq(0..n)
      /\ buffer \in Seq(AnyItem) /\ net \in Seq(AnyItem) /\ Stream \in Seq(AnyItem)
  BY DEF Typed, TypeOK, Stream
<1>2. asked' \in Seq(Requests) /\ Len(asked') = n + 1 /\ \A k \in DOMAIN asked : k \in DOMAIN asked' /\ asked'[k] = asked[k]
  BY <1>1 DEF Ask
<1>3. w \in Seq(AnyItem)
  <2>1. n + 1 \in Nat
    BY <1>1
  <2> QED
    BY <2>1, ItemsWritten
<1>4. net' \in Seq(AnyItem) /\ buffer' \in Seq(AnyItem)
  BY <1>1, <1>3 DEF Ask
<1>5. Stream' = Stream \o w
  <2>1. Stream' = buffer \o (net \o w)
    BY DEF Ask, Stream
  <2> HIDE DEF w
  <2>2. (buffer \o net) \o w = buffer \o (net \o w)
    BY <1>1, <1>3, ConcatAssociative, SMTT(30)
  <2> QED
    BY <2>1, <2>2 DEF Stream
<1>6. Typed'
  <2>1. Len(asked') <= MaxRequests
    BY <1>1, <1>2, RequestsAssumption DEF Ask
  <2>2. out' \in Seq(0..Len(asked')) /\ current' \in 0..Len(asked')
    BY <1>1, <1>2, SeqMonotonic DEF Ask
  <2> QED
    BY <1>2, <1>4, <2>1, <2>2 DEF Typed, TypeOK, Ask
<1>7. Lined'
  <2>1. /\ Numbered(Stream', n + 1) /\ Ordered(Stream')
        /\ \A c \in 0..n : Ahead(Stream, c) => Ahead(Stream', c)
    BY <1>1, <1>5, NextRequestOrdered DEF Lined
  <2>2. \A k \in DOMAIN out : out[k] \in 0..n
    BY <1>1
  <2> HIDE DEF n
  <2> QED
    BY <1>1, <1>2, <2>1, <2>2 DEF Lined, Ask
<1>8. AllAnswerOnce' => AllAnswerOnce
  BY <1>2 DEF AllAnswerOnce
<1>9. Latest' /\ OrderKept'
  BY <1>8 DEF Latest, OrderKept, Ask
<1> QED
  BY <1>6, <1>7, <1>9

\* The next first line belongs to a request after all that were answered.
LEMMA FirstLineInOrder ==
  ASSUME InOrder, pc = "first", HasLine, NextLine.kind = "first",
         UNCHANGED <<clientVars, body, out>>, buffer' = AfterLine,
         current' = NextLine.of, pc' = "headers"
  PROVE  InOrder'
<1> USE DEF InOrder
<1>1. buffer \in Seq(AnyItem) /\ net \in Seq(AnyItem) /\ Stream \in Seq(AnyItem)
  BY DEF Typed, Stream
<1>2. /\ Min(LinesAt) = 1 /\ NextLine = buffer[1] /\ 1 \in 1..Len(buffer)
      /\ Stream' = SubSeq(Stream, 2, Len(Stream)) /\ buffer' \in Seq(AnyItem)
      /\ Len(Stream) = Len(buffer) + Len(net)
  BY <1>1, LineFound DEF Stream, clientVars
<1>3. 1 \in DOMAIN Stream /\ Stream[1] = NextLine /\ Len(Stream) \in Nat /\ Len(Stream) > 0
  BY <1>1, <1>2 DEF Stream
<1>4. current' \in 1..Len(asked)
  BY <1>3 DEF Lined, Numbered
<1>5. Typed'
  BY <1>1, <1>2, <1>4 DEF Typed, TypeOK, Labels, clientVars
<1>6. /\ Numbered(Stream', Len(asked')) /\ Ordered(Stream')
      /\ \A k \in DOMAIN out : Ahead(Stream', out[k])
  <2>1. 2 \in 1..(Len(Stream) + 1) /\ Len(Stream) \in 0..Len(Stream)
    BY <1>3
  <2> QED
    BY <1>2, <2>1, PartLined DEF clientVars
<1>7. Ahead(Stream', current')
  <2> SUFFICES ASSUME NEW i \in DOMAIN Stream', Stream'[i].kind = "first"
               PROVE  current' < Stream'[i].of
    BY DEF Ahead
  <2>1. i \in Nat /\ i + 1 \in DOMAIN Stream /\ Stream'[i] = Stream[i + 1] /\ 1 < i + 1
    BY <1>1, <1>2, <1>3
  <2> QED
    BY <1>3, <2>1 DEF Lined, Ordered
<1>8. Lined'
  BY <1>6, <1>7 DEF Lined, clientVars
<1>9. Latest'
  BY <1>3 DEF Latest, Lined, Ahead
<1>10. OrderKept'
  BY DEF OrderKept, AllAnswerOnce, clientVars
<1> QED
  BY <1>5, <1>8, <1>9, <1>10

\* Each step of the server, and the reset.
LEMMA StepKeepsInOrder ==
  ASSUME InOrder, [Next]_vars
  PROVE  InOrder'
<1> USE DEF InOrder
<1>1. buffer \in Seq(AnyItem) /\ net \in Seq(AnyItem) /\ body \in Nat /\ pc \in Labels
  BY DEF Typed, TypeOK
<1>2. ASSUME NEW r \in Requests, Ask(r) PROVE InOrder'
  BY <1>2, AskKeepsInOrder
<1>3. CASE ClientResets
  <2>1. buffer' \o net' = buffer
    BY <1>1, <1>3 DEF ClientResets
  <2>2. /\ 1 \in 1..(Len(Stream) + 1) /\ Len(buffer) \in 0..Len(Stream)
        /\ SubSeq(Stream, 1, Len(buffer)) = buffer
    BY <1>1, SeqEqual DEF Stream
  <2>3. Stream' = SubSeq(Stream, 1, Len(buffer))
    BY <2>1, <2>2 DEF Stream
  <2>4. /\ Numbered(Stream', Len(asked')) /\ Ordered(Stream') /\ Ahead(Stream', current)
        /\ \A k \in DOMAIN out : Ahead(Stream', out[k])
    BY <1>3, <2>2, <2>3, PartLined DEF ClientResets
  <2>5. Typed'
    BY <1>1, <1>3 DEF Typed, TypeOK, ClientResets
  <2> QED
    BY <1>3, <2>4, <2>5 DEF ClientResets, Lined, Latest, OrderKept, AllAnswerOnce
<1>4. CASE Receive
  <2>1. PICK k \in 1..Len(net) :
            buffer' = buffer \o SubSeq(net, 1, k) /\ net' = SubSeq(net, k + 1, Len(net))
    BY <1>4 DEF Receive
  <2>2. Stream' = Stream /\ buffer' \in Seq(AnyItem) /\ net' \in Seq(AnyItem)
    BY <1>1, <2>1, Moved DEF Stream
  <2> QED
    BY <1>1, <1>4, <2>2, ShortenedInOrder DEF Receive
<1>5. CASE ReceiveFails
  <2>1. Stream' = Stream /\ buffer' \in Seq(AnyItem) /\ net' \in Seq(AnyItem)
        /\ UNCHANGED <<pipelined, asked, gone, current, body>>
    BY <1>1, <1>5 DEF ReceiveFails, clientVars, Stream
  <2>2. \/ UNCHANGED out /\ pc' \in {"filters", "chunk"} /\ pc \in {"raw", "discard", "trailer"}
        \/ Respond /\ pc' = "free" /\ pc # "free"
    BY <1>5 DEF ReceiveFails, Reject, Lacking
  <2> QED
    BY <1>1, <2>1, <2>2, ShortenedInOrder DEF Labels
<1>6. CASE ScanFirstLine
  <2>1. CASE NextLine.kind = "first" /\ current' = NextLine.of /\ pc' = "headers" /\ UNCHANGED out
    BY <1>6, <2>1, FirstLineInOrder DEF ScanFirstLine
  <2>2. CASE UNCHANGED current /\ Reject
    <3>1. Shortened
      BY <1>6, LineShortens DEF ScanFirstLine, clientVars
    <3> QED
      BY <1>6, <2>2, <3>1, ShortenedInOrder DEF ScanFirstLine, clientVars, Reject
  <2> QED
    BY <1>6, <2>1, <2>2 DEF ScanFirstLine
<1>7. CASE ScanHeader
  <2>1. Shortened
    BY <1>7, LineShortens DEF ScanHeader, clientVars
  <2> QED
    BY <1>1, <1>7, <2>1, ShortenedInOrder DEF ScanHeader, clientVars, Labels
<1>8. CASE DispatchRequest
  <2>1. Stream' = Stream /\ buffer' \in Seq(AnyItem) /\ net' \in Seq(AnyItem)
        /\ UNCHANGED <<pipelined, asked, gone, current, body>> /\ pc = "dispatch"
    BY <1>1, <1>8 DEF DispatchRequest, clientVars, Stream
  <2>2. CASE Request.fate = "rejected"
    BY <1>8, <2>1, <2>2, ShortenedInOrder DEF DispatchRequest, Reject
  <2>3. CASE Request.fate # "rejected"
    <3>1. Request \in Requests
      BY <2>1 DEF Typed, TypeOK, Request
    <3>2. Request.coding \in {"identity", "gzip", "chunked"}
      BY <3>1, RequestsAssumption
    <3>3. pc' \in {"filters", "raw", "discard"} /\ UNCHANGED out
      BY <1>8, <2>3, <3>2 DEF DispatchRequest
    <3> QED
      BY <1>1, <2>1, <3>3, ShortenedInOrder DEF Labels
  <2> QED
    BY <2>2, <2>3
<1>9. CASE ScanBody
  <2>1. Request \in Requests
    BY <1>9 DEF ScanBody, Typed, TypeOK, Request
  <2>2. Request.body \in Nat
    BY <2>1, RequestsAssumption
  <2>3. Request.body \in 0..Len(buffer)
    BY <1>1, <1>9, <2>2 DEF ScanBody
  <2>4. Shortened
    BY <1>9, <2>3, TakenShortens DEF ScanBody, clientVars
  <2> QED
    BY <1>9, <2>2, <2>4, ShortenedInOrder DEF ScanBody, clientVars, Labels
<1>10. CASE DiscardChunk \/ NextChunk
  <2>1. Shortened
    BY <1>10, LineShortens DEF DiscardChunk, NextChunk, ReadChunk, ChunkReady, clientVars
  <2>2. pc' \in Labels \ {"first", "free"} /\ pc \in {"discard", "chunk"} /\ UNCHANGED out
    BY <1>10 DEF DiscardChunk, NextChunk, ReadChunk, Labels
  <2> QED
    BY <1>1, <1>10, <2>1, <2>2, ShortenedInOrder DEF DiscardChunk, NextChunk, clientVars
<1>11. CASE ChunkError \/ SendErrorResponse
  <2>1. Stream' = Stream /\ buffer' \in Seq(AnyItem) /\ net' \in Seq(AnyItem)
    BY <1>1, <1>11 DEF ChunkError, SendErrorResponse, clientVars, Stream
  <2> QED
    BY <1>11, <2>1, ShortenedInOrder DEF ChunkError, SendErrorResponse, clientVars, Reject
<1>12. CASE ReadTrailer
  <2>1. Shortened
    BY <1>12, LineShortens DEF ReadTrailer, clientVars
  <2> QED
    BY <1>1, <1>12, <2>1, ShortenedInOrder DEF ReadTrailer, clientVars, Labels
<1>13. CASE HandleRequest
  <2>1. Stream' = Stream /\ buffer' \in Seq(AnyItem) /\ net' \in Seq(AnyItem)
        /\ UNCHANGED <<pipelined, asked, gone, current, body>> /\ pc = "filters"
    BY <1>1, <1>13 DEF HandleRequest, clientVars, Stream
  <2>2. CASE Request.fate \in {"answered", "silent", "failed", "refused", "rejected"}
    BY <1>1, <1>13, <2>1, <2>2, ShortenedInOrder DEF HandleRequest, Labels
  <2>3. CASE Request.fate = "twice"
    <3>1. ~AllAnswerOnce
      BY <2>1, <2>3 DEF AllAnswerOnce, Typed, TypeOK, Request
    <3>2. Respond /\ pc' = "error"
      BY <1>13, <2>3 DEF HandleRequest
    <3>3. 1 \in 1..(Len(Stream) + 1) /\ Len(Stream) \in 0..Len(Stream)
      BY <1>1 DEF Stream
    <3> QED
      BY <2>1, <3>1, <3>2, <3>3, RespondKeepsInOrder
  <2>4. Request \in Requests
    BY <2>1 DEF Typed, TypeOK, Request
  <2> QED
    BY <2>2, <2>3, <2>4, RequestsAssumption DEF Fates
<1>14. CASE FreeRequest
  <2>1. buffer' = SubSeq(buffer, Len(buffer) + 1, Len(buffer)) /\ Len(buffer) \in 0..Len(buffer)
    BY <1>1, <1>14, SubSeqEmpty DEF FreeRequest
  <2>2. Shortened
    BY <1>14, <2>1, TakenShortens DEF FreeRequest, clientVars
  <2> QED
    BY <1>14, <2>2, ShortenedInOrder DEF FreeRequest, clientVars, Labels
<1>15. CASE UNCHANGED vars
  <2>1. UNCHANGED <<pipelined, asked, net, gone, buffer, pc, current, body, out>> /\ Stream' = Stream
    BY <1>15 DEF vars, clientVars, Stream
  <2>2. Typed'
    BY <2>1 DEF Typed, TypeOK
  <2>3. Lined'
    BY <2>1 DEF Lined, Numbered, Ordered, Ahead
  <2>4. Latest' /\ OrderKept'
    BY <2>1 DEF Latest, OrderKept, AllAnswerOnce
  <2> QED
    BY <2>2, <2>3, <2>4
<1> QED
  BY <1>2, <1>3, <1>4, <1>5, <1>6, <1>7, <1>8, <1>9, <1>10, <1>11, <1>12, <1>13, <1>14, <1>15
  DEF Next, ServerStep

LEMMA InOrderAlways == Spec => []InOrder
BY InitInOrder, StepKeepsInOrder, PTL DEF Spec

\* Responses never overtake one another, whatever a request left in the connection and
\* whatever the new stream of each request dropped (free_code and the next iteration).
THEOREM AnswersInOrder == Spec => []OrderKept
<1>1. InOrder => OrderKept
  BY DEF InOrder
<1> QED
  BY <1>1, InOrderAlways, PTL
----------------------------------------------------------------------------
(* A client that waits and a server that leaves nothing stay in step.      *)

\* The first item of a sequence and the rest.
LEMMA FirstAndRest ==
  ASSUME NEW a \in AnyItem, NEW s \in Seq(AnyItem)
  PROVE  /\ <<a>> \o s \in Seq(AnyItem)
         /\ Len(<<a>> \o s) = Len(s) + 1
         /\ (<<a>> \o s)[1] = a
         /\ SubSeq(<<a>> \o s, 2, Len(<<a>> \o s)) = s
<1> DEFINE t == <<a>> \o s
           u == SubSeq(t, 2, Len(t))
<1>1. <<a>> \in Seq(AnyItem) /\ Len(<<a>>) = 1 /\ <<a>>[1] = a
  OBVIOUS
<1>2. t \in Seq(AnyItem) /\ Len(t) = Len(s) + 1 /\ t[1] = a
      /\ \A i \in 1..Len(s) : t[i + 1] = s[i]
  OBVIOUS
<1> HIDE DEF t
<1>3. u \in Seq(AnyItem) /\ Len(u) = Len(s) /\ \A i \in 1..Len(s) : u[i] = t[i + 1]
  BY <1>2
<1> HIDE DEF u
<1>4. u = s
  BY <1>2, <1>3, SeqEqual
<1> QED
  BY <1>2, <1>4 DEF t, u

\* What is left of a short one.
LEMMA TailOfTwo ==
  ASSUME NEW a \in AnyItem, NEW b \in AnyItem
  PROVE  SubSeq(<<a, b>>, 2, Len(<<a, b>>)) = <<b>>
<1> DEFINE s == SubSeq(<<a, b>>, 2, 2)
<1>1. <<a, b>> \in Seq(AnyItem) /\ Len(<<a, b>>) = 2 /\ <<b>> \in Seq(AnyItem)
  OBVIOUS
<1>2. s \in Seq(AnyItem) /\ Len(s) = 1 /\ s[1] = b
  BY <1>1
<1> HIDE DEF s
<1>3. Len(<<b>>) = 1 /\ \A i \in 1..1 : s[i] = <<b>>[i]
  BY <1>2
<1>4. s = <<b>>
  BY <1>1, <1>2, <1>3, SeqEqual
<1> QED
  BY <1>1, <1>4 DEF s

LEMMA TailOfFour ==
  ASSUME NEW t \in Seq(AnyItem), Len(t) = 4
  PROVE  SubSeq(t, 3, Len(t)) = <<t[3], t[4]>>
<1> DEFINE s == SubSeq(t, 3, 4)
<1>1. s \in Seq(AnyItem) /\ Len(s) = 2 /\ s[1] = t[3] /\ s[2] = t[4]
  <2>1. 3 \in Int /\ 4 \in Int /\ \A i \in 3..4 : t[i] \in AnyItem
    <3>1. 3 \in 1..Len(t) /\ 4 \in 1..Len(t)
      OBVIOUS
    <3>2. t[3] \in AnyItem /\ t[4] \in AnyItem
      BY <3>1, ElementOfSeq
    <3>3. \A i \in 3..4 : i = 3 \/ i = 4
      OBVIOUS
    <3> QED
      BY <3>2, <3>3
  <2>2. /\ s \in Seq(AnyItem) /\ Len(s) = IF 3 <= 4 THEN 4 - 3 + 1 ELSE 0
        /\ \A i \in 1..(4 - 3 + 1) : s[i] = t[3 + i - 1]
    BY <2>1, SubSeqProperties
  <2> HIDE DEF s
  <2> QED
    BY <2>2
<1>2. <<t[3], t[4]>> \in Seq(AnyItem)
  <2>1. 3 \in 1..Len(t) /\ 4 \in 1..Len(t)
    OBVIOUS
  <2>2. t[3] \in AnyItem /\ t[4] \in AnyItem
    BY <2>1, ElementOfSeq
  <2> QED
    BY <2>2
<1> HIDE DEF s
<1>3. Len(<<t[3], t[4]>>) = 2 /\ \A i \in 1..2 : s[i] = <<t[3], t[4]>>[i]
  BY <1>1
<1>4. s = <<t[3], t[4]>>
  BY <1>1, <1>2, <1>3, SeqEqual
<1> QED
  BY <1>4 DEF s

\* A request, item by item.
LEMMA RequestShape ==
  ASSUME NEW r \in Requests, NEW n \in Nat
  PROVE  LET first == Item("first", n)
             header == Item("header", n)
             empty == Item("empty", n)
             b == BodyItems(r, n)
         IN  /\ Items(r, n)[1] = first
             /\ SubSeq(Items(r, n), 2, Len(Items(r, n))) = <<header, empty>> \o b
             /\ (<<header, empty>> \o b)[1] = header
             /\ SubSeq(<<header, empty>> \o b, 2, Len(<<header, empty>> \o b)) = <<empty>> \o b
             /\ (<<empty>> \o b)[1] = empty
             /\ SubSeq(<<empty>> \o b, 2, Len(<<empty>> \o b)) = b
<1> DEFINE first == Item("first", n)
           header == Item("header", n)
           empty == Item("empty", n)
           b == BodyItems(r, n)
<1>1. first \in AnyItem /\ header \in AnyItem /\ empty \in AnyItem
  BY DEF Item, AnyItem, Kinds
<1>2. b \in Seq(AnyItem)
  BY ItemsWritten
<1>3. Items(r, n) = <<first, header, empty>> \o b
  BY DEF Items
<1> HIDE DEF first, header, empty, b
<1>4. <<empty>> \o b \in Seq(AnyItem) /\ (<<empty>> \o b)[1] = empty
      /\ SubSeq(<<empty>> \o b, 2, Len(<<empty>> \o b)) = b
  BY <1>1, <1>2, FirstAndRest
<1>5. <<header, empty>> \o b = <<header>> \o (<<empty>> \o b)
  <2>1. <<header>> \in Seq(AnyItem) /\ <<empty>> \in Seq(AnyItem) /\ <<header, empty>> \in Seq(AnyItem)
    BY <1>1
  <2>2. <<header, empty>> = <<header>> \o <<empty>>
    <3>1. Len(<<header>> \o <<empty>>) = 2 /\ <<header>> \o <<empty>> \in Seq(AnyItem)
      BY <2>1
    <3>2. \A i \in 1..2 : <<header, empty>>[i] = (<<header>> \o <<empty>>)[i]
      BY <2>1
    <3> QED
      BY <2>1, <3>1, <3>2, SeqEqual
  <2>3. (<<header>> \o <<empty>>) \o b = <<header>> \o (<<empty>> \o b)
    BY <1>2, <2>1, ConcatAssociative
  <2> QED
    BY <2>2, <2>3
<1>6. <<first, header, empty>> \o b = <<first>> \o (<<header, empty>> \o b)
  <2>1. <<first>> \in Seq(AnyItem) /\ <<header, empty>> \in Seq(AnyItem)
        /\ <<first, header, empty>> \in Seq(AnyItem)
    BY <1>1
  <2>2. <<first, header, empty>> = <<first>> \o <<header, empty>>
    <3>1. Len(<<first>> \o <<header, empty>>) = 3 /\ <<first>> \o <<header, empty>> \in Seq(AnyItem)
      BY <2>1
    <3>2. \A i \in 1..3 : <<first, header, empty>>[i] = (<<first>> \o <<header, empty>>)[i]
      BY <2>1
    <3> QED
      BY <2>1, <3>1, <3>2, SeqEqual
  <2>3. (<<first>> \o <<header, empty>>) \o b = <<first>> \o (<<header, empty>> \o b)
    BY <1>2, <2>1, ConcatAssociative
  <2> QED
    BY <2>2, <2>3
<1>7. <<header, empty>> \o b \in Seq(AnyItem) /\ (<<header, empty>> \o b)[1] = header
      /\ SubSeq(<<header, empty>> \o b, 2, Len(<<header, empty>> \o b)) = <<empty>> \o b
  BY <1>1, <1>4, <1>5, FirstAndRest
<1>8. Items(r, n)[1] = first
      /\ SubSeq(Items(r, n), 2, Len(Items(r, n))) = <<header, empty>> \o b
  BY <1>1, <1>3, <1>6, <1>7, FirstAndRest
<1> QED
  BY <1>4, <1>7, <1>8 DEF first, header, empty, b

\* Its body, if none of it is left behind.
LEMMA BodyShape ==
  ASSUME NEW r \in Requests, NEW n \in Nat
  PROVE  /\ r.coding = "chunked" /\ r.body = 0 =>
               BodyItems(r, n) = <<Item("last", n), Item("empty", n)>>
         /\ r.coding = "chunked" /\ r.body = 1 =>
               BodyItems(r, n) =
                   <<Item("size", n), Item("data", n), Item("last", n), Item("empty", n)>>
         /\ r.coding # "chunked" => Len(BodyItems(r, n)) = r.body
<1> DEFINE c(k) == [i \in 1..(2 * k) |-> Item(IF i % 2 = 1 THEN "size" ELSE "data", n)]
           e == <<Item("last", n), Item("empty", n)>>
<1>1. c(0) = <<>>
  BY DEF Item
<1>2. c(1) = <<Item("size", n), Item("data", n)>>
  <2>1. \A i \in 1..2 : c(1)[i] = <<Item("size", n), Item("data", n)>>[i]
    BY DEF Item
  <2> QED
    BY <2>1
<1>3. r.coding = "chunked" => BodyItems(r, n) = c(r.body) \o e
  BY DEF BodyItems, Chunks
<1>4. c(0) \o e = e
  <2>1. e \in Seq(AnyItem)
    BY DEF Item, AnyItem, Kinds
  <2> HIDE DEF e
  <2> QED
    BY <1>1, <2>1, ConcatEmptySeq
<1>5. c(1) \o e = <<Item("size", n), Item("data", n), Item("last", n), Item("empty", n)>>
  <2> DEFINE d == <<Item("size", n), Item("data", n)>>
             f == <<Item("size", n), Item("data", n), Item("last", n), Item("empty", n)>>
  <2>1. d \in Seq(AnyItem) /\ e \in Seq(AnyItem) /\ f \in Seq(AnyItem)
    BY DEF Item, AnyItem, Kinds
  <2>2. d \o e \in Seq(AnyItem) /\ Len(d \o e) = 4 /\ Len(f) = 4
    BY <2>1
  <2>3. \A i \in 1..4 : (d \o e)[i] = f[i]
    BY <2>1
  <2>4. d \o e = f
    BY <2>1, <2>2, <2>3, SeqEqual
  <2> HIDE DEF c
  <2> QED
    BY <1>2, <2>4
<1>6. r.coding # "chunked" => Len(BodyItems(r, n)) = r.body
  <2>1. r.body \in Nat
    BY RequestsAssumption
  <2> QED
    BY <2>1 DEF BodyItems
<1> HIDE DEF c, e
<1>7. r.coding = "chunked" /\ r.body = 0 => BodyItems(r, n) = e
  BY <1>3, <1>4
<1>8. r.coding = "chunked" /\ r.body = 1 => BodyItems(r, n) = c(1) \o e
  BY <1>3
<1> QED
  BY <1>5, <1>6, <1>7, <1>8 DEF e

\* Reading a line or a chunk from a stream that begins with a line.
LEMMA LineRead ==
  ASSUME Typed, HasLine, UNCHANGED net, Stream[1].kind # "raw"
  PROVE  /\ NextLine = Stream[1]
         /\ buffer' = AfterLine => Stream' = SubSeq(Stream, 2, Len(Stream))
         /\ buffer' = Tail(AfterLine) /\ Len(AfterLine) > 0 =>
               Stream' = SubSeq(Stream, 3, Len(Stream))
<1>1. buffer \in Seq(AnyItem) /\ net \in Seq(AnyItem)
  BY DEF Typed
<1>2. 1 \in 1..Len(buffer)
  <2>1. Min(LinesAt) \in 1..Len(buffer)
    BY <1>1, LineFound
  <2> QED
    BY <1>1, <2>1
<1>3. Stream[1] = buffer[1]
  BY <1>1, <1>2 DEF Stream
<1>4. NextLine = buffer[1] /\ Min(LinesAt) = 1 /\ AfterLine \o net = SubSeq(Stream, 2, Len(Stream))
  BY <1>1, <1>3, LineFound
<1>5. ASSUME buffer' = Tail(AfterLine), Len(AfterLine) > 0
      PROVE  Stream' = SubSeq(Stream, 3, Len(Stream))
  <2>1. AfterLine = SubSeq(buffer, 2, Len(buffer))
    BY <1>4 DEF AfterLine
  <2>2. Len(SubSeq(buffer, 2, Len(buffer))) = Len(buffer) - 1
    <3>1. \A i \in 2..Len(buffer) : buffer[i] \in AnyItem
      BY <1>1
    <3>2. Len(buffer) \in Int /\ Len(buffer) >= 1 /\ 2 \in Int
      BY <1>1, <1>2
    <3>3. Len(SubSeq(buffer, 2, Len(buffer))) = IF 2 <= Len(buffer) THEN Len(buffer) - 2 + 1 ELSE 0
      BY <3>1, <3>2, SubSeqProperties
    <3>4. \A c \in Int : c >= 1 => (IF 2 <= c THEN c - 2 + 1 ELSE 0) = c - 1
      OBVIOUS
    <3> QED
      BY <3>2, <3>3, <3>4, Zenon
  <2>3. 2 \in 1..Len(buffer) /\ Len(buffer) \in 2..Len(buffer) /\ 2 \in 0..Len(buffer)
    BY <1>1, <1>5, <2>1, <2>2
  <2>4. Tail(SubSeq(buffer, 2, Len(buffer))) = SubSeq(buffer, 2 + 1, Len(buffer))
    BY <1>1, <2>3, HeadTailOfSubSeq
  <2>5. SubSeq(buffer, 2 + 1, Len(buffer)) \o net = SubSeq(Stream, 2 + 1, Len(Stream))
    BY <1>1, <2>3, Consumed DEF Stream
  <2>6. Stream' = SubSeq(buffer, 2 + 1, Len(buffer)) \o net
    BY <1>5, <2>1, <2>4 DEF Stream
  <2>7. 2 + 1 = 3
    OBVIOUS
  <2> QED
    BY <2>5, <2>6, <2>7
<1> QED
  BY <1>3, <1>4, <1>5 DEF Stream

\* What a step of the server leaves alone, and who hears of it.
LEMMA ServerStepFrame ==
  ASSUME ServerStep
  PROVE  UNCHANGED <<pipelined, asked, gone>>
         /\ (out' = out \/ Respond)
BY DEF ServerStep, Receive, ReceiveFails, ScanFirstLine, ScanHeader, DispatchRequest, ScanBody,
       DiscardChunk, NextChunk, ReadChunk, ChunkError, ReadTrailer, HandleRequest,
       SendErrorResponse, FreeRequest, Reject, clientVars

\* The client has its responses: the server can do no more than start anew.
LEMMA SettledStays ==
  ASSUME Typed, ~gone, NEW n \in Nat, Settled(n), ServerStep
  PROVE  UNCHANGED out /\ Settled(n)'
<1>1. buffer = <<>> /\ net = <<>>
  BY ConcatEqualIffEmpty DEF Typed, Settled, Stream
<1>2. ~HasLine
  BY <1>1 DEF HasLine, LinesAt
<1>3. pc = "first" => FALSE
  <2> SUFFICES ASSUME pc = "first" PROVE FALSE
    OBVIOUS
  <2>1. ~Receive /\ ~ReceiveFails
    BY <1>1 DEF Receive, ReceiveFails
  <2>2. ~ScanFirstLine
    BY <1>2 DEF ScanFirstLine
  <2> QED
    BY <2>1, <2>2
    DEF ServerStep, ScanHeader, DispatchRequest, ScanBody, DiscardChunk, NextChunk, ChunkError,
        ReadTrailer, HandleRequest, SendErrorResponse, FreeRequest
<1>4. pc = "free"
  BY <1>3 DEF Settled
<1>5. FreeRequest
  BY <1>4 DEF ServerStep, Receive, ReceiveFails, Lacking, ScanFirstLine, ScanHeader,
              DispatchRequest, ScanBody, DiscardChunk, NextChunk, ChunkError,
              ReadTrailer, HandleRequest, SendErrorResponse
<1> QED
  BY <1>1, <1>5 DEF FreeRequest, Settled, Stream, clientVars

\* The server is in the middle of the request the client waits for: it goes on with it
\* or sends its one response.
LEMMA WaitingGoesOn ==
  ASSUME InOrder, ~gone, CleanUpTo(Len(asked)), Waiting(Len(asked)), ServerStep
  PROVE  \/ UNCHANGED out /\ Waiting(Len(asked))'
         \/ out' = Append(out, Len(asked)) /\ Settled(Len(asked))'
<1> DEFINE n == Len(asked)
           r == asked[n]
           b == BodyItems(r, n)
           header == Item("header", n)
           empty == Item("empty", n)
<1> USE DEF InOrder
<1>1. /\ asked \in Seq(Requests) /\ n \in Nat /\ n >= 1 /\ n \in DOMAIN asked /\ r \in Requests
      /\ buffer \in Seq(AnyItem) /\ net \in Seq(AnyItem) /\ Stream \in Seq(AnyItem)
      /\ out \in Seq(0..n)
  BY DEF Typed, TypeOK, Stream, Waiting
<1>2. LeavesNothing(r) /\ AnsweredOnce(r)
  BY <1>1 DEF CleanUpTo
<1>3. r.line = "ok" /\ r.body \in Nat /\ r.coding \in {"identity", "gzip", "chunked"}
      /\ r.fate \in {"rejected", "refused", "answered", "failed"}
  BY <1>1, <1>2, RequestsAssumption DEF LeavesNothing, AnsweredOnce, Fates
<1>4. Len(out) = n - 1 /\ Unread(r, n, Stream)
  BY DEF Waiting
<1>5. pc \notin {"first", "free"} => current = n /\ Request = r
  BY DEF Waiting, Request
<1>6. UNCHANGED <<pipelined, asked, gone>> /\ n' = n /\ r' = r
  BY ServerStepFrame
<1>7. ASSUME Respond, pc \notin {"first", "free"}
      PROVE  out' = Append(out, n) /\ Len(out') = n
  BY <1>1, <1>4, <1>5, <1>7 DEF Respond
<1>8. ASSUME UNCHANGED out, pc' \notin {"first", "free"}, current' = n, Unread(r, n, Stream)',
             pc' \in {"raw", "discard", "chunk", "trailer", "filters"} => r.fate # "rejected"
      PROVE  UNCHANGED out /\ Waiting(n)'
  BY <1>1, <1>4, <1>6, <1>8 DEF Waiting
<1>9. ASSUME Respond, pc \notin {"first", "free"}, pc' = "free", Stream' = <<>>
      PROVE  out' = Append(out, n) /\ Settled(n)'
  BY <1>6, <1>7, <1>9 DEF Settled
<1>10. /\ Items(r, n)[1] = Item("first", n)
       /\ SubSeq(Items(r, n), 2, Len(Items(r, n))) = <<header, empty>> \o b
       /\ (<<header, empty>> \o b)[1] = header
       /\ SubSeq(<<header, empty>> \o b, 2, Len(<<header, empty>> \o b)) = <<empty>> \o b
       /\ (<<empty>> \o b)[1] = empty
       /\ SubSeq(<<empty>> \o b, 2, Len(<<empty>> \o b)) = b
  BY <1>1, RequestShape
<1>11. /\ r.coding = "chunked" /\ r.body = 0 => b = <<Item("last", n), empty>>
       /\ r.coding = "chunked" /\ r.body = 1 =>
             b = <<Item("size", n), Item("data", n), Item("last", n), empty>>
       /\ r.coding # "chunked" => Len(b) = r.body
       /\ b \in Seq(AnyItem)
  BY <1>1, BodyShape, ItemsWritten
<1>12. \A k : Item(k, n).kind = k /\ Item(k, n).of = n
  BY DEF Item
<1>13. (r.coding # "chunked" /\ r.body = 0) => b = <<>>
  BY <1>11
<1>14. /\ empty \in AnyItem /\ Item("last", n) \in AnyItem
       /\ Item("size", n) \in AnyItem /\ Item("data", n) \in AnyItem
  BY <1>1 DEF Item, AnyItem, Kinds
<1>15. /\ SubSeq(<<Item("last", n), empty>>, 2, Len(<<Item("last", n), empty>>)) = <<empty>>
       /\ SubSeq(<<Item("size", n), Item("data", n), Item("last", n), empty>>, 3,
                  Len(<<Item("size", n), Item("data", n), Item("last", n), empty>>))
              = <<Item("last", n), empty>>
  <2> DEFINE last == Item("last", n)
             size == Item("size", n)
             data == Item("data", n)
  <2>1. empty \in AnyItem /\ last \in AnyItem /\ size \in AnyItem /\ data \in AnyItem
    BY <1>14
  <2> HIDE DEF n, empty, last, size, data
  <2>2. SubSeq(<<last, empty>>, 2, Len(<<last, empty>>)) = <<empty>>
    BY <2>1, TailOfTwo
  <2>3. SubSeq(<<size, data, last, empty>>, 3, Len(<<size, data, last, empty>>)) = <<last, empty>>
    <3> DEFINE t == <<size, data, last, empty>>
    <3>1. t \in Seq(AnyItem) /\ Len(t) = 4 /\ t[3] = last /\ t[4] = empty
      BY <2>1
    <3> HIDE DEF t
    <3>2. SubSeq(t, 3, Len(t)) = <<last, empty>>
      BY <3>1, TailOfFour
    <3> QED
      BY <3>2 DEF t
  <2> QED
    BY <2>2, <2>3 DEF last, size, data
<1> HIDE DEF n, r, b, header, empty
<1>16. CASE Receive
  <2>1. PICK k \in 1..Len(net) :
            buffer' = buffer \o SubSeq(net, 1, k) /\ net' = SubSeq(net, k + 1, Len(net))
    BY <1>16 DEF Receive
  <2>2. Stream' = Stream
    BY <1>1, <2>1, Moved DEF Stream
  <2>3. UNCHANGED <<out, pc, current>> /\ pc # "free"
    BY <1>16 DEF Receive, Lacking
  <2>4. Waiting(n)'
    BY <1>4, <1>6, <2>2, <2>3 DEF Waiting, Unread, n, r
  <2> QED
    BY <2>3, <2>4 DEF n
<1>17. CASE ReceiveFails
  BY <1>17 DEF ReceiveFails
<1>18. CASE ScanFirstLine
  <2>1. pc = "first" /\ HasLine /\ buffer' = AfterLine /\ UNCHANGED net
    BY <1>18 DEF ScanFirstLine, clientVars
  <2>2. Stream = Items(r, n)
    BY <1>4, <2>1 DEF Unread
  <2>3. Stream[1] = Item("first", n) /\ Stream[1].kind # "raw"
    BY <1>10, <1>12, <2>2
  <2>4. NextLine = Item("first", n) /\ Stream' = <<header, empty>> \o b
    BY <1>10, <2>1, <2>2, <2>3, LineRead
  <2>5. current' = n /\ pc' = "headers" /\ UNCHANGED out
    BY <1>3, <1>12, <1>18, <2>4 DEF ScanFirstLine, r
  <2>6. Unread(r, n, Stream)'
    BY <1>6, <2>4, <2>5 DEF Unread, header, empty, b
  <2> QED
    BY <1>8, <2>5, <2>6 DEF n
<1>19. CASE ScanHeader
  <2>1. pc = "headers" /\ HasLine /\ buffer' = AfterLine /\ UNCHANGED <<net, out, current>>
    BY <1>19 DEF ScanHeader, clientVars
  <2>2. Stream \in {<<header, empty>> \o b, <<empty>> \o b}
    BY <1>4, <2>1 DEF Unread, header, empty, b
  <2>3. Stream[1] \in {header, empty} /\ Stream[1].kind # "raw"
    BY <1>10, <1>12, <2>2 DEF header, empty
  <2>4. NextLine = Stream[1] /\ Stream' = SubSeq(Stream, 2, Len(Stream))
    BY <2>1, <2>3, LineRead
  <2>5. CASE Stream = <<header, empty>> \o b
    <3>1. Stream' = <<empty>> \o b /\ NextLine = header
      BY <1>10, <2>4, <2>5
    <3>2. pc' = "headers"
      BY <1>12, <1>19, <3>1 DEF ScanHeader, header
    <3>3. Unread(r, n, Stream)'
      BY <1>6, <3>1, <3>2 DEF Unread, empty, b
    <3> QED
      BY <1>5, <1>8, <2>1, <3>2, <3>3 DEF n
  <2>6. CASE Stream = <<empty>> \o b
    <3>1. Stream' = b /\ NextLine = empty
      BY <1>10, <2>4, <2>6
    <3>2. pc' = "dispatch"
      BY <1>12, <1>19, <3>1 DEF ScanHeader, empty
    <3>3. Unread(r, n, Stream)'
      BY <1>6, <3>1, <3>2 DEF Unread, b
    <3> QED
      BY <1>5, <1>8, <2>1, <3>2, <3>3 DEF n
  <2> QED
    BY <2>2, <2>5, <2>6
<1>20. CASE DispatchRequest
  <2>1. pc = "dispatch" /\ UNCHANGED <<net, buffer, current>> /\ Stream' = Stream
    BY <1>20 DEF DispatchRequest, clientVars, Stream
  <2>2. Stream = b /\ current = n /\ Request = r
    BY <1>4, <1>5, <2>1 DEF Unread, b
  <2>3. CASE r.fate = "rejected"
    <3>1. r.coding # "chunked" /\ r.body = 0
      BY <1>2, <1>3, <2>3 DEF LeavesNothing
    <3>2. Stream' = <<>>
      BY <1>13, <2>1, <2>2, <3>1
    <3>3. Respond /\ pc' = "free"
      BY <1>20, <2>2, <2>3 DEF DispatchRequest, Reject
    <3> QED
      BY <1>9, <2>1, <3>2, <3>3 DEF n
  <2>4. CASE r.fate # "rejected" /\ r.coding = "identity"
    <3>1. pc' = "filters" /\ UNCHANGED out
      BY <1>20, <2>2, <2>4 DEF DispatchRequest
    <3>2. Stream' = <<>>
      BY <1>2, <1>3, <1>13, <2>1, <2>2, <2>4 DEF LeavesNothing
    <3>3. Unread(r, n, Stream)'
      BY <3>1, <3>2 DEF Unread
    <3> QED
      BY <1>8, <2>1, <2>2, <2>4, <3>1, <3>3 DEF n
  <2>5. CASE r.fate # "rejected" /\ r.coding = "gzip"
    <3>1. pc' = "raw" /\ UNCHANGED out
      BY <1>20, <2>2, <2>5 DEF DispatchRequest
    <3>2. Unread(r, n, Stream)'
      BY <1>6, <2>1, <2>2, <2>5, <3>1 DEF Unread, b
    <3> QED
      BY <1>8, <2>1, <2>2, <2>5, <3>1, <3>2 DEF n
  <2>6. CASE r.fate # "rejected" /\ r.coding = "chunked"
    <3>1. pc' = "discard" /\ UNCHANGED out
      BY <1>20, <2>2, <2>6 DEF DispatchRequest
    <3>2. Unread(r, n, Stream)'
      BY <1>6, <2>1, <2>2, <2>6, <3>1 DEF Unread, b
    <3> QED
      BY <1>8, <2>1, <2>2, <2>6, <3>1, <3>2 DEF n
  <2> QED
    BY <1>3, <2>3, <2>4, <2>5, <2>6
<1>21. CASE ScanBody
  <2>1. pc = "raw" /\ UNCHANGED <<net, out, current>> /\ pc' = "filters" /\ current = n
        /\ Len(buffer) >= r.body /\ buffer' = SubSeq(buffer, r.body + 1, Len(buffer))
    BY <1>5, <1>21 DEF ScanBody, clientVars
  <2>2. Stream = b /\ r.coding = "gzip" /\ r.fate # "rejected"
    BY <1>4, <2>1 DEF Unread, b, Waiting, r, n
  <2>3. r.body \in 0..Len(buffer)
    BY <1>1, <1>3, <2>1
  <2>4. Stream' = SubSeq(Stream, r.body + 1, Len(Stream))
    BY <1>1, <2>1, <2>3, Consumed DEF Stream
  <2>5. Len(Stream) = r.body
    BY <1>11, <2>2
  <2>6. Stream' = <<>>
    BY <1>3, <2>4, <2>5, SubSeqEmpty
  <2>7. Unread(r, n, Stream)'
    BY <2>1, <2>6 DEF Unread
  <2> QED
    BY <1>8, <2>1, <2>2, <2>7 DEF n
<1>22. CASE DiscardChunk
  <2>1. pc = "discard" /\ HasLine /\ UNCHANGED <<net, out, current>> /\ pc' = "chunk" /\ current = n
        /\ (NextLine.kind = "size" => Len(AfterLine) > 0)
        /\ buffer' = (IF NextLine.kind = "size" THEN Tail(AfterLine) ELSE AfterLine)
    BY <1>5, <1>22 DEF DiscardChunk, ReadChunk, ChunkReady, clientVars
  <2>2. Stream = b /\ r.coding = "chunked" /\ r.fate # "rejected"
    BY <1>4, <2>1 DEF Unread, b, Waiting, r, n
  <2>3. r.body \in {0, 1}
    BY <1>2, <1>3, <2>2 DEF LeavesNothing
  <2>4. CASE r.body = 0
    <3>1. Stream = <<Item("last", n), empty>>
      BY <1>11, <2>2, <2>4
    <3>2. NextLine.kind = "last" /\ Stream' = SubSeq(Stream, 2, Len(Stream))
      BY <1>12, <2>1, <3>1, LineRead
    <3>3. Stream' = <<empty>>
      BY <1>15, <3>1, <3>2
    <3>4. Unread(r, n, Stream)'
      BY <1>6, <2>1, <3>3 DEF Unread, empty
    <3> QED
      BY <1>8, <2>1, <2>2, <3>4 DEF n
  <2>5. CASE r.body = 1
    <3>1. Stream = <<Item("size", n), Item("data", n), Item("last", n), empty>>
      BY <1>11, <2>2, <2>5
    <3>2. NextLine.kind = "size" /\ Stream' = SubSeq(Stream, 3, Len(Stream))
      BY <1>12, <2>1, <3>1, LineRead
    <3>3. Stream' = <<Item("last", n), empty>>
      BY <1>15, <3>1, <3>2
    <3>4. Unread(r, n, Stream)'
      BY <1>6, <2>1, <3>3 DEF Unread, empty
    <3> QED
      BY <1>8, <2>1, <2>2, <3>4 DEF n
  <2> QED
    BY <2>3, <2>4, <2>5
<1>23. CASE NextChunk
  <2>1. pc = "chunk" /\ HasLine /\ UNCHANGED <<net, out, current>> /\ current = n
        /\ buffer' = (IF NextLine.kind = "size" THEN Tail(AfterLine) ELSE AfterLine)
        /\ pc' = (IF NextLine.kind = "size" THEN "chunk_error"
                   ELSE IF NextLine.kind = "empty" THEN "chunk_error" ELSE "trailer")
    BY <1>5, <1>23 DEF NextChunk, ReadChunk, ChunkReady, clientVars
  <2>2. Stream \in {<<empty>>, <<Item("last", n), empty>>} /\ r.fate # "rejected"
    BY <1>4, <2>1 DEF Unread, empty, Waiting, r, n
  <2>3. CASE Stream = <<empty>>
    <3>1. NextLine.kind = "empty" /\ Stream' = SubSeq(Stream, 2, Len(Stream))
      BY <1>12, <2>1, <2>3, LineRead DEF empty
    <3>2. Stream' = <<>> /\ pc' = "chunk_error"
      BY <2>1, <2>3, <3>1
    <3>3. Unread(r, n, Stream)'
      BY <3>2 DEF Unread
    <3> QED
      BY <1>8, <2>1, <3>2, <3>3 DEF n
  <2>4. CASE Stream = <<Item("last", n), empty>>
    <3>1. NextLine.kind = "last" /\ Stream' = SubSeq(Stream, 2, Len(Stream))
      BY <1>12, <2>1, <2>4, LineRead
    <3>2. Stream' = <<empty>> /\ pc' = "trailer"
      BY <1>15, <2>1, <2>4, <3>1
    <3>3. Unread(r, n, Stream)'
      BY <1>6, <3>2 DEF Unread, empty
    <3> QED
      BY <1>8, <2>1, <2>2, <3>2, <3>3 DEF n
  <2> QED
    BY <2>2, <2>3, <2>4
<1>24. CASE ChunkError \/ SendErrorResponse
  <2>1. pc \in {"chunk_error", "error"} /\ UNCHANGED <<net, buffer>> /\ Respond /\ pc' = "free"
    BY <1>24 DEF ChunkError, SendErrorResponse, Reject, clientVars
  <2>2. Stream' = <<>>
    BY <1>4, <2>1 DEF Unread, Stream
  <2> QED
    BY <1>9, <2>1, <2>2 DEF n
<1>25. CASE ReadTrailer
  <2>1. pc = "trailer" /\ HasLine /\ UNCHANGED <<net, out, current>> /\ current = n
        /\ buffer' = AfterLine /\ pc' = "filters"
    BY <1>5, <1>25 DEF ReadTrailer, clientVars
  <2>2. Stream = <<empty>> /\ r.fate # "rejected"
    BY <1>4, <2>1 DEF Unread, empty, Waiting, r, n
  <2>3. Stream' = SubSeq(Stream, 2, Len(Stream))
    BY <1>12, <2>1, <2>2, LineRead DEF empty
  <2>4. Stream' = <<>>
    BY <2>2, <2>3
  <2>5. Unread(r, n, Stream)'
    BY <2>1, <2>4 DEF Unread
  <2> QED
    BY <1>8, <2>1, <2>2, <2>5 DEF n
<1>26. CASE HandleRequest
  <2>1. pc = "filters" /\ UNCHANGED <<net, buffer, current>> /\ current = n /\ Request = r
    BY <1>5, <1>26 DEF HandleRequest, clientVars
  <2>2. Stream' = <<>> /\ r.fate # "rejected"
    BY <1>4, <2>1 DEF Unread, Stream, Waiting, r, n
  <2>3. CASE r.fate = "answered"
    <3>1. Respond /\ pc' = "free"
      BY <1>26, <2>1, <2>3 DEF HandleRequest
    <3> QED
      BY <1>9, <2>1, <2>2, <3>1 DEF n
  <2>4. CASE r.fate \in {"failed", "refused"}
    <3>1. UNCHANGED out /\ pc' = "error"
      BY <1>26, <2>1, <2>4 DEF HandleRequest
    <3>2. Unread(r, n, Stream)'
      BY <2>2, <3>1 DEF Unread
    <3> QED
      BY <1>8, <2>1, <3>1, <3>2 DEF n
  <2> QED
    BY <1>3, <2>2, <2>3, <2>4
<1>27. CASE FreeRequest
  <2>1. pc = "free" /\ pc' = "first" /\ buffer' = <<>> /\ UNCHANGED <<net, out>>
    BY <1>27 DEF FreeRequest, clientVars
  <2>2. buffer = <<>> /\ Stream = Items(r, n)
    BY <1>4, <2>1 DEF Unread, Waiting
  <2>3. Stream' = Stream
    BY <2>1, <2>2 DEF Stream
  <2>4. Unread(r, n, Stream)'
    BY <1>6, <2>1, <2>2, <2>3 DEF Unread
  <2>5. Waiting(n)'
    BY <1>1, <1>4, <1>6, <2>1, <2>4 DEF Waiting, r, n
  <2> QED
    BY <2>1, <2>5 DEF n
<1> QED
  BY <1>16, <1>17, <1>18, <1>19, <1>20, <1>21, <1>22, <1>23, <1>24, <1>25, <1>26, <1>27
  DEF ServerStep

LEMMA InitInStep == Init => InStep
<1> SUFFICES ASSUME Init
             PROVE  InStep
  OBVIOUS
<1>1. InOrder
  BY InitInOrder
<1>2. asked = <<>> /\ out = <<>> /\ Stream = <<>> /\ pc = "first"
  BY DEF Init, Stream
<1>3. Len(asked) = 0 /\ Len(out) = 0 /\ DOMAIN out = {}
  BY <1>2
<1> QED
  BY <1>1, <1>2, <1>3 DEF InStep, Synchronised, InOrder, Typed, Settled

\* The client asks only when it has had all its responses.
LEMMA AskKeepsInStep ==
  ASSUME InStep, NEW r \in Requests, Ask(r)
  PROVE  InStep'
<1>0. PICK n \in Nat : n = Len(asked)
  BY DEF InStep, InOrder, Typed, TypeOK
<1>1. InOrder' /\ InOrder
  BY AskKeepsInOrder DEF InStep
<1>2. asked \in Seq(Requests) /\ out \in Seq(0..n) /\ Len(out) \in Nat
  BY <1>0, <1>1 DEF InOrder, Typed, TypeOK
<1>3. /\ asked' = Append(asked, r) /\ UNCHANGED <<pipelined, gone, out, pc, buffer, current>>
      /\ pipelined \/ Len(out) >= n
      /\ net' = net \o Items(r, n + 1)
  BY <1>0 DEF Ask
<1>4. /\ Len(asked') = n + 1 /\ asked'[n + 1] = r
      /\ \A k \in DOMAIN asked : k \in DOMAIN asked' /\ asked'[k] = asked[k]
  BY <1>0, <1>2, <1>3
<1>5. \A k : CleanUpTo(k)' => CleanUpTo(k)
  BY <1>4 DEF CleanUpTo
<1>6. Synchronised'
  <2>1. TypeOK'
    BY <1>1 DEF InOrder, Typed
  <2>2. ASSUME ~pipelined', NEW k \in DOMAIN out', CleanUpTo(k)' PROVE k <= Len(asked') /\ out'[k] = k
    <3>1. k \in DOMAIN out /\ k \in Nat /\ CleanUpTo(k) /\ ~pipelined
      BY <1>2, <1>3, <1>5, <2>2
    <3>2. k <= n /\ out[k] = k
      BY <1>0, <3>1 DEF InStep, Synchronised
    <3> QED
      BY <1>2, <1>3, <1>4, <3>1, <3>2
  <2> QED
    BY <2>1, <2>2 DEF Synchronised
<1>7. ASSUME ~pipelined, ~gone, CleanUpTo(n + 1)'
      PROVE  Waiting(n + 1)'
  <2>1. CleanUpTo(n)
    <3>1. CleanUpTo(n + 1)
      BY <1>5, <1>7
    <3>2. \A k \in DOMAIN asked : k <= n + 1
      BY <1>0, <1>2
    <3> QED
      BY <3>1, <3>2 DEF CleanUpTo
  <2>2. Settled(n)
    <3>1. ~Waiting(n)
      BY <1>2, <1>3, <1>7 DEF Waiting
    <3> QED
      BY <1>0, <1>7, <2>1, <3>1 DEF InStep
  <2>3. Len(out) = n /\ pc \in {"first", "free"} /\ buffer = <<>> /\ net = <<>>
    BY <1>1, <2>2, ConcatEqualIffEmpty DEF InOrder, Typed, Settled, Stream
  <2>4. Items(r, n + 1) \in Seq(AnyItem)
    <3>1. n + 1 \in Nat
      OBVIOUS
    <3> QED
      BY <3>1, ItemsWritten
  <2>5. Stream' = Items(r, n + 1)
    <3>1. net' = Items(r, n + 1)
      BY <1>3, <2>3, <2>4, ConcatEmptySeq
    <3>2. <<>> \o Items(r, n + 1) = Items(r, n + 1)
      BY <2>4, ConcatEmptySeq
    <3> QED
      BY <1>3, <2>3, <3>1, <3>2 DEF Stream
  <2>6. Unread(r, n + 1, Stream)'
    BY <1>3, <2>3, <2>5 DEF Unread
  <2>7. n + 1 >= 1 /\ Len(out') = (n + 1) - 1
    BY <1>2, <1>3, <2>3
  <2> QED
    BY <1>3, <1>4, <2>3, <2>6, <2>7 DEF Waiting
<1>8. ~pipelined => Len(out') >= Len(asked') - 1
  BY <1>2, <1>3, <1>4
<1> QED
  BY <1>1, <1>3, <1>4, <1>6, <1>7, <1>8 DEF InStep

\* A step of the server adds at most the response the client waits for, unless a request
\* left something behind.
LEMMA ServerKeepsInStep ==
  ASSUME InStep, ServerStep
  PROVE  InStep'
<1>0. PICK n \in Nat : n = Len(asked)
  BY DEF InStep, InOrder, Typed, TypeOK
<1>1. InOrder' /\ InOrder
  BY StepKeepsInOrder DEF InStep, Next
<1>2. asked \in Seq(Requests) /\ out \in Seq(0..n) /\ Len(out) \in Nat /\ current \in 0..n
  BY <1>0, <1>1 DEF InOrder, Typed, TypeOK
<1>3. UNCHANGED <<pipelined, asked, gone>> /\ (out' = out \/ Respond) /\ Len(asked') = n
  BY <1>0, ServerStepFrame
<1>4. TypeOK'
  BY <1>1 DEF InOrder, Typed
<1>5. \A k : CleanUpTo(k)' <=> CleanUpTo(k)
  BY <1>3 DEF CleanUpTo
<1>6. CASE pipelined
  BY <1>1, <1>3, <1>4, <1>6 DEF InStep, Synchronised
<1>7. CASE ~pipelined /\ out' = out /\ (~gone /\ CleanUpTo(n) => Settled(n)' \/ Waiting(n)')
  <2>1. Synchronised'
    BY <1>3, <1>4, <1>5, <1>7 DEF InStep, Synchronised
  <2> QED
    BY <1>0, <1>1, <1>3, <1>5, <1>7, <2>1 DEF InStep
<1>8. ASSUME ~pipelined, NEW c \in 0..n, out' = Append(out, c),
             CleanUpTo(n) => Len(out) = n - 1 /\ c = n /\ Settled(n)'
      PROVE  InStep'
  <2>1. Len(out) >= n - 1
    BY <1>0, <1>8 DEF InStep
  <2>2. Len(out') = Len(out) + 1 /\ Len(out') >= n
        /\ \A k \in DOMAIN out' : k \in Nat /\ ((k \in DOMAIN out /\ out'[k] = out[k])
                                             \/ (k = Len(out) + 1 /\ out'[k] = c))
    BY <1>2, <1>8, <2>1
  <2>3. ASSUME NEW k \in DOMAIN out', CleanUpTo(k) PROVE k <= n /\ out'[k] = k
    <3>1. CASE k \in DOMAIN out /\ out'[k] = out[k]
      BY <1>0, <1>8, <2>3, <3>1 DEF InStep, Synchronised
    <3>2. CASE k = Len(out) + 1 /\ out'[k] = c
      <4>1. \A j \in DOMAIN asked : j <= k
        BY <1>0, <1>2, <2>1, <3>2
      <4>2. CleanUpTo(n)
        BY <2>3, <4>1 DEF CleanUpTo
      <4> QED
        BY <1>2, <1>8, <3>2, <4>2
    <3> QED
      BY <2>2, <3>1, <3>2
  <2>4. Synchronised'
    BY <1>3, <1>4, <1>5, <2>3 DEF Synchronised
  <2>5. (Len(out) >= Len(asked) - 1)'
    BY <1>2, <1>3, <2>2
  <2> QED
    BY <1>1, <1>3, <1>5, <1>8, <2>4, <2>5 DEF InStep
<1>9. ASSUME ~pipelined, ~gone, CleanUpTo(n)
      PROVE  \/ out' = out /\ (Settled(n)' \/ Waiting(n)')
             \/ out' = Append(out, n) /\ Settled(n)' /\ Len(out) = n - 1
  <2>1. CASE Settled(n)
    <3>1. Typed
      BY <1>1 DEF InOrder
    <3> QED
      BY <1>9, <2>1, <3>1, SettledStays
  <2>2. CASE Waiting(n)
    BY <1>0, <1>1, <1>3, <1>9, <2>2, WaitingGoesOn DEF Waiting
  <2> QED
    BY <1>0, <1>9, <2>1, <2>2 DEF InStep
<1>10. out' = out \/ (~gone /\ out' = Append(out, current))
  BY <1>3 DEF Respond
<1>11. CASE ~pipelined /\ ~gone /\ CleanUpTo(n)
  <2>1. n \in 0..n
    OBVIOUS
  <2> QED
    BY <1>7, <1>8, <1>9, <1>11, <2>1
<1>12. CASE ~pipelined /\ (gone \/ ~CleanUpTo(n))
  BY <1>2, <1>7, <1>8, <1>10, <1>12
<1> QED
  BY <1>6, <1>11, <1>12

LEMMA StepKeepsInStep ==
  ASSUME InStep, [Next]_vars
  PROVE  InStep'
<1>1. ASSUME NEW r \in Requests, Ask(r) PROVE InStep'
  BY <1>1, AskKeepsInStep
<1>2. CASE ServerStep
  BY <1>2, ServerKeepsInStep
<1>3. InOrder'
  BY StepKeepsInOrder DEF InStep
<1>4. CASE ClientResets
  <2>1. UNCHANGED <<pipelined, asked, out>> /\ gone'
    BY <1>4 DEF ClientResets
  <2> QED
    BY <1>3, <2>1 DEF InStep, Synchronised, InOrder, Typed, CleanUpTo
<1>5. CASE UNCHANGED vars
  BY <1>3, <1>5 DEF vars, clientVars, InStep, Synchronised, InOrder, Typed, CleanUpTo, Settled,
                    Waiting, Unread, Stream
<1> QED
  BY <1>1, <1>2, <1>4, <1>5 DEF Next

\* The k-th response answers the k-th request of a client that waits for each, as long as
\* no request left part of itself in the connection: through rejections, filters that
\* refuse, handlers that fail and bodies that arrive in pieces (handleConnection).
THEOREM ClientInStep == Spec => []Synchronised
<1>1. InStep => Synchronised
  BY DEF InStep
<1> QED
  BY <1>1, InitInStep, StepKeepsInStep, PTL DEF Spec
=============================================================================
