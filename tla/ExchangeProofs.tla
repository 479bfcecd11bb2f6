--------------------------- MODULE ExchangeProofs ---------------------------
(***************************************************************************)
(* One exchange, for any requests, sizes of chunks and buffers.            *)
(***************************************************************************)
EXTENDS Exchange, NumberInduction, FiniteSetTheorems, SequenceTheorems

(***************************************************************************)
(* Bodies: what is inflated, and how much of it a handler finds.           *)
(***************************************************************************)
LEMMA RequestType ==
  ASSUME NEW r \in Requests
  PROVE  r.length \in Nat /\ r.fault \in {"none", "cut", "corrupt"}
  BY ExchangeAssumption

\* A buffer that is doubled until n more bytes and one fit in.
LEMMA RoomIsMade ==
  ASSUME NEW b, b = [size |-> b.size, cap |-> b.cap],
         b.size \in Nat, b.cap \in Nat \ {0}, NEW n \in Nat
  PROVE  LET c == IncreaseCapacity(b, n)
         IN  /\ c = [size |-> c.size, cap |-> c.cap]
             /\ c.size = b.size /\ c.cap \in Nat /\ c.cap > b.size + n
<1> DEFINE step == [i \in Nat |-> [x \in Nat |-> 2 * x]]
           Is(f) == f = [k \in Nat |-> IF k = 0 THEN b.cap ELSE 2 * f[k - 1]]
           d == CHOOSE f : Is(f)
           m == b.size + n
           S == {k \in 0..m : d[k] > m}
<1>1. b.cap \in Nat /\ step \in [Nat -> [Nat -> Nat]] /\ m \in Nat
  OBVIOUS
<1> HIDE DEF step
<1>2. PICK f : Recurses(f, Nat, b.cap, step)
  BY <1>1, Recursion
<1>3. f \in [Nat -> Nat] /\ f[0] = b.cap /\ \A i \in Nat : f[i + 1] = 2 * f[i]
  BY <1>2 DEF Recurses, step
<1>4. Is(f)
  <2>1. ASSUME NEW k \in Nat PROVE f[k] = IF k = 0 THEN b.cap ELSE 2 * f[k - 1]
    <3>1. CASE k = 0
      BY <1>3, <3>1
    <3>2. CASE k # 0
      <4>1. k - 1 \in Nat /\ (k - 1) + 1 = k
        BY <3>2
      <4> QED
        BY <1>3, <3>2, <4>1
    <3> QED
      BY <3>1, <3>2
  <2> QED
    BY <1>3, <2>1
<1>5. Is(d)
  <2> HIDE DEF Is
  <2> QED
    BY <1>4
<1>6. IncreaseCapacity(b, n) = [b EXCEPT !.cap = d[Min(S)]]
  BY DEF IncreaseCapacity
<1> HIDE DEF d, m
<1>7. d[0] = b.cap /\ \A k \in Nat : d[k + 1] = 2 * d[k]
  <2>1. \A k \in Nat : d[k] = IF k = 0 THEN b.cap ELSE 2 * d[k - 1]
    BY <1>5
  <2>2. ASSUME NEW k \in Nat PROVE d[k + 1] = 2 * d[k]
    <3>1. k + 1 \in Nat /\ k + 1 # 0 /\ (k + 1) - 1 = k
      OBVIOUS
    <3>2. d[k + 1] = 2 * d[(k + 1) - 1]
      BY <2>1, <3>1
    <3> QED
      BY <3>1, <3>2
  <2> QED
    BY <2>1, <2>2
<1> DEFINE T == {k \in Nat : d[k] \in Nat /\ d[k] > k}
<1>8. 0 \in T
  BY <1>7
<1>9. ASSUME NEW k \in Nat, k \in T PROVE k + 1 \in T
  <2>1. d[k] \in Nat /\ d[k] > k /\ d[k + 1] = 2 * d[k]
    BY <1>7, <1>9
  <2> QED
    BY <2>1
<1>10. \A k \in Nat : k \in T
  <2> HIDE DEF T
  <2> QED
    BY <1>8, <1>9, Induction
<1>11. m \in S /\ S \subseteq Nat
  <2>1. m \in T
    BY <1>1, <1>10 DEF m
  <2>2. m \in Nat /\ d[m] > m
    BY <2>1
  <2> QED
    BY <2>2
<1>12. Min(S) \in S
  <2> HIDE DEF S
  <2>1. \E x \in S : \A y \in S : x <= y
    BY <1>11, Smallest
  <2> QED
    BY <2>1 DEF Min
<1>13. d[Min(S)] \in Nat /\ d[Min(S)] > m
  BY <1>10, <1>12
<1> HIDE DEF S
<1> QED
  BY <1>6, <1>13 DEF m

Sane(b) ==
    /\ b = [size |-> b.size, cap |-> b.cap]
    /\ b.size \in Nat /\ b.cap \in Nat /\ b.size + InflateChunk <= b.cap

\* What the layer that is inflated decodes to.
Whole == IF stream.layer = "transfer" THEN Announced ELSE request.length

\* n bytes of a body: all of it, or fewer if it is damaged.
Fits(n, whole) == IF request.fault = "none" THEN n = whole ELSE n < whole

Outset == {"head", "accept encoding", "te", "coding", "transfer filter"}

BodyInv ==
    /\ request \in Requests /\ Sane(buffer)
    /\ stream = [layer |-> stream.layer, left |-> stream.left, fault |-> stream.fault]
    /\ stream.left \in Nat /\ length \in Nat
    /\ stream.layer # "none" => stream.fault = request.fault
    /\ phase \in Outset => stream.layer = "none"
    /\ phase = "inflate" =>
          /\ stream.layer \in {"transfer", "content"}
          /\ Fits(buffer.size + stream.left, Whole)
    /\ phase = "content filter" =>
          \/ /\ stream.layer = "none"
             /\ request.transferCoding = "chunked" => length = Announced
             /\ request.transferCoding \notin {"identity", "chunked"} => request.length = 0
          \/ /\ stream.layer = "transfer"
             /\ request.fault # "corrupt" /\ Fits(length, Announced)
    /\ phase = "handler" /\ request.transferCoding # "identity" /\ request.length > 0 =>
          IF stream.layer = "none" THEN length = Announced
          ELSE request.fault # "corrupt" /\ Fits(length, request.length)

LEMMA AnnouncedType ==
  ASSUME request \in Requests
  PROVE  /\ Announced \in Nat /\ Announced >= request.length
         /\ request.contentCoding = "identity" => Announced = request.length
  BY RequestType DEF Announced, Coded, Compressed

LEMMA BodyInitially == Init => BodyInv
<1> SUFFICES ASSUME Init PROVE BodyInv
  OBVIOUS
<1>1. Sane(buffer)
  BY ExchangeAssumption DEF Init, InitGrowingBuffer, Sane
<1> QED
  BY <1>1 DEF Init, BodyInv, Outset

\* What is not about the body leaves it alone.
LEMMA BodyLeft ==
  ASSUME BodyInv, UNCHANGED <<request, stream, buffer, length>>,
         phase' \notin {"inflate", "content filter", "handler"},
         phase' \in Outset => phase \in Outset
  PROVE  BodyInv'
  BY DEF BodyInv, Sane, Fits, Whole, Announced

LEMMA SendLeaves ==
  ASSUME NEW code, NEW ce, NEW te, NEW n, NEW filled, Send(code, ce, te, n, filled)
  PROVE  UNCHANGED <<request, stream, buffer, length>> /\ phase' \in {"crashed", "sending"}
  BY DEF Send, Goto, body

LEMMA SendKeeps ==
  ASSUME BodyInv,
         NEW code, NEW ce, NEW te, NEW n, NEW filled, Send(code, ce, te, n, filled)
  PROVE  BodyInv'
  BY SendLeaves, BodyLeft DEF Outset

LEMMA RefuseKeeps ==
  ASSUME BodyInv, NEW code, Refuse(code)
  PROVE  BodyInv'
  BY SendKeeps DEF Refuse

LEMMA InflateStarts ==
  ASSUME BodyInv, NEW layer \in {"transfer", "content"}, NEW n \in Nat,
         StartInflate(layer, n, request.fault),
         n = IF layer = "transfer" THEN Announced ELSE request.length
  PROVE  BodyInv'
<1>1. /\ phase' = "inflate" /\ buffer' = [size |-> 0, cap |-> InflateChunk]
      /\ UNCHANGED <<request, length>>
  BY DEF StartInflate, Goto, InitGrowingBuffer
<1>2. PICK k \in IF request.fault = "none" THEN {n} ELSE 0..(n - 1) :
         stream' = [layer |-> layer, left |-> k, fault |-> request.fault]
  BY DEF StartInflate
<1>3. k \in Nat /\ IF request.fault = "none" THEN k = n ELSE k < n
  BY <1>2
<1>4. /\ stream'.layer = layer /\ stream'.left = k /\ stream'.fault = request.fault
      /\ stream' = [layer |-> stream'.layer, left |-> stream'.left, fault |-> stream'.fault]
  BY <1>2
<1>5. Sane(buffer)'
  BY <1>1, ExchangeAssumption DEF Sane
<1>6. Whole' = n
  BY <1>1, <1>4 DEF Whole, Announced
<1>7. Fits(buffer.size + stream.left, Whole)'
  BY <1>1, <1>3, <1>4, <1>6 DEF Fits
<1> QED
  BY <1>1, <1>3, <1>4, <1>5, <1>7 DEF BodyInv, Outset

LEMMA TransferCodingKeeps ==
  ASSUME BodyInv, TransferCodingFilter
  PROVE  BodyInv'
<1>1. request \in Requests /\ stream.layer = "none" /\ phase = "transfer filter"
  BY DEF TransferCodingFilter, At, BodyInv, Outset
<1>2. request.length \in Nat /\ Announced \in Nat
  BY <1>1, RequestType, AnnouncedType
<1>3. CASE request.transferCoding = "identity"
  <2>1. phase' = "content filter" /\ UNCHANGED <<request, stream, buffer, length>>
    BY <1>3 DEF TransferCodingFilter, Goto, body, Compressed
  <2> QED
    BY <1>1, <1>3, <2>1 DEF BodyInv, Sane, Outset
<1>4. CASE request.transferCoding = "chunked"
  <2>1. phase' = "content filter" /\ UNCHANGED <<request, stream, buffer>> /\ length' = Announced
    BY <1>4 DEF TransferCodingFilter, Goto, Compressed
  <2>2. Announced' = Announced
    BY <2>1 DEF Announced
  <2> QED
    BY <1>1, <1>2, <1>4, <2>1, <2>2 DEF BodyInv, Sane, Outset
<1>5. CASE request.transferCoding \in Compressed
  <2>1. request.transferCoding \notin {"identity", "chunked"}
    BY <1>5 DEF Compressed
  <2>2. CASE request.length = 0
    <3>1. phase' = "content filter" /\ UNCHANGED <<request, stream, buffer, length>>
      <4>1. ~(request.length > 0)
        BY <2>2
      <4> QED
        BY <1>5, <2>1, <4>1 DEF TransferCodingFilter, Goto, body
    <3> QED
      BY <1>1, <2>1, <2>2, <3>1 DEF BodyInv, Sane, Outset
  <2>3. CASE request.length > 0
    <3>1. StartInflate("transfer", Announced, request.fault)
      <4>1. request.length # 0
        BY <1>2, <2>3
      <4> QED
        BY <1>5, <2>1, <4>1 DEF TransferCodingFilter
    <3> QED
      BY <1>2, <3>1, InflateStarts
  <2> QED
    BY <1>2, <2>2, <2>3
<1>6. CASE request.transferCoding \notin Compressed \cup {"identity", "chunked"}
  <2>1. Refuse(status)
    BY <1>6 DEF TransferCodingFilter
  <2> QED
    BY <2>1, RefuseKeeps
<1> QED
  BY <1>3, <1>4, <1>5, <1>6

LEMMA EncodingKeeps ==
  ASSUME BodyInv, EncodingFilter
  PROVE  BodyInv'
<1>1. request \in Requests /\ phase = "content filter"
  BY DEF EncodingFilter, At, BodyInv
<1>2. /\ request.length \in Nat /\ request.fault \in {"none", "cut", "corrupt"}
      /\ Announced \in Nat /\ Announced >= request.length
      /\ request.contentCoding = "identity" => Announced = request.length
  BY <1>1, RequestType, AnnouncedType
<1> DEFINE Untouched == \/ ContentLength = 0 \/ request.contentCoding = "identity"
                        \/ (request.contentCoding \in Compressed /\ length = 0)
<1>3. CASE Untouched
  <2>1. phase' = "handler" /\ UNCHANGED <<request, stream, buffer, length>>
    BY <1>3 DEF EncodingFilter, Goto, body
  <2>2. ASSUME request.transferCoding # "identity", request.length > 0
        PROVE  IF stream.layer = "none" THEN length = Announced
               ELSE request.fault # "corrupt" /\ Fits(length, request.length)
    <3>1. length = 0 \/ request.contentCoding = "identity"
      BY <1>3, <2>2 DEF ContentLength
    <3>2. CASE stream.layer = "none"
      <4>1. /\ request.transferCoding = "chunked" => length = Announced
            /\ request.transferCoding \notin {"identity", "chunked"} => request.length = 0
        BY <1>1, <3>2 DEF BodyInv
      <4> QED
        BY <1>2, <2>2, <3>2, <4>1
    <3>3. CASE stream.layer # "none"
      <4>1. request.fault # "corrupt" /\ Fits(length, Announced)
        BY <1>1, <3>3 DEF BodyInv
      <4>2. CASE request.fault = "none"
        BY <1>2, <2>2, <3>1, <3>3, <4>1, <4>2 DEF Fits
      <4>3. CASE request.fault = "cut"
        BY <1>2, <2>2, <3>1, <3>3, <4>1, <4>3 DEF Fits
      <4> QED
        BY <1>2, <4>1, <4>2, <4>3
    <3> QED
      BY <3>2, <3>3
  <2>3. (request.transferCoding # "identity" /\ request.length > 0 =>
           IF stream.layer = "none" THEN length = Announced
           ELSE request.fault # "corrupt" /\ Fits(length, request.length))'
    BY <2>1, <2>2 DEF Announced, Fits
  <2> QED
    BY <1>1, <2>1, <2>3 DEF BodyInv, Sane, Outset
<1>4. CASE ~Untouched /\ request.contentCoding \in Compressed
  <2>1. stream.layer # "none" => stream.fault = request.fault
    BY DEF BodyInv
  <2>2. StartInflate("content", request.length, request.fault)
    BY <1>4, <2>1 DEF EncodingFilter
  <2> QED
    BY <1>2, <2>2, InflateStarts
<1>5. CASE ~Untouched /\ request.contentCoding \notin Compressed
  <2>1. Refuse(status)
    BY <1>5 DEF EncodingFilter
  <2> QED
    BY <2>1, RefuseKeeps
<1> QED
  BY <1>3, <1>4, <1>5

LEMMA ChunkKeeps ==
  ASSUME BodyInv, InflateChunkStep
  PROVE  BodyInv'
<1> DEFINE n == Min({InflateChunk, stream.left})
<1>1. /\ request \in Requests /\ phase = "inflate" /\ Sane(buffer)
      /\ stream = [layer |-> stream.layer, left |-> stream.left, fault |-> stream.fault]
      /\ stream.left \in Nat /\ length \in Nat /\ stream.fault = request.fault
      /\ stream.layer \in {"transfer", "content"}
      /\ Fits(buffer.size + stream.left, Whole)
  BY DEF InflateChunkStep, At, BodyInv
<1>2. InflateChunk \in Nat \ {0}
  BY ExchangeAssumption
<1>3. /\ n \in Nat /\ n <= stream.left /\ n <= InflateChunk
      /\ n < InflateChunk => n = stream.left
  <2>1. \E x \in {InflateChunk, stream.left} : \A y \in {InflateChunk, stream.left} : x <= y
    BY <1>1, <1>2
  <2>2. n \in {InflateChunk, stream.left} /\ \A y \in {InflateChunk, stream.left} : n <= y
    BY <2>1 DEF Min
  <2> QED
    BY <1>1, <1>2, <2>2
<1> HIDE DEF n
<1>4. CASE stream.fault = "corrupt" /\ stream.left < InflateChunk
  <2>1. Refuse(status)
    BY <1>4 DEF InflateChunkStep
  <2> QED
    BY <2>1, RefuseKeeps
<1>5. CASE ~(stream.fault = "corrupt" /\ stream.left < InflateChunk)
  <2>1. /\ request' = request
        /\ buffer' = IF n > 0 THEN TakeInflated(buffer, n) ELSE buffer
        /\ stream' = [stream EXCEPT !.left = stream.left - n]
        /\ IF n < InflateChunk
           THEN /\ length' = buffer'.size
                /\ phase' = IF stream.layer = "transfer" THEN "content filter" ELSE "handler"
           ELSE UNCHANGED <<length, phase>>
    BY <1>5 DEF InflateChunkStep, Goto, n
  <2>2. Sane(buffer') /\ buffer'.size = buffer.size + n
    <3>1. CASE n = 0
      <4>1. ~(n > 0)
        BY <3>1
      <4>2. buffer' = buffer
        BY <2>1, <4>1
      <4>3. buffer.size + n = buffer.size
        BY <1>1, <3>1 DEF Sane
      <4> QED
        BY <1>1, <4>2, <4>3
    <3>2. CASE n > 0
      <4> DEFINE b == [buffer EXCEPT !.size = buffer.size + n]
      <4>1. /\ b = [size |-> b.size, cap |-> b.cap]
            /\ b.size = buffer.size + n /\ b.cap = buffer.cap
        BY <1>1 DEF Sane
      <4>2. b.size \in Nat /\ b.cap \in Nat \ {0}
        BY <1>1, <1>2, <1>3, <4>1 DEF Sane
      <4>3. buffer' = IncreaseCapacity(b, InflateChunk)
        BY <2>1, <3>2 DEF TakeInflated
      <4> HIDE DEF b
      <4>4. /\ buffer'.size = b.size /\ buffer'.cap \in Nat
            /\ buffer'.cap > b.size + InflateChunk
            /\ buffer' = [size |-> buffer'.size, cap |-> buffer'.cap]
        BY <1>2, <4>1, <4>2, <4>3, RoomIsMade
      <4> QED
        BY <1>2, <4>1, <4>2, <4>4 DEF Sane
    <3> QED
      BY <1>3, <3>1, <3>2
  <2>3. /\ stream'.layer = stream.layer /\ stream'.fault = stream.fault
        /\ stream'.left = stream.left - n /\ stream'.left \in Nat
        /\ stream' = [layer |-> stream'.layer, left |-> stream'.left, fault |-> stream'.fault]
    <3>1. stream' = [layer |-> stream.layer, left |-> stream.left - n, fault |-> stream.fault]
      BY <1>1, <2>1
    <3>2. stream.left - n \in Nat
      BY <1>1, <1>3
    <3> QED
      BY <3>1, <3>2
  <2>4. Announced' = Announced /\ Whole' = Whole
    BY <2>1, <2>3 DEF Announced, Whole
  <2>5. buffer'.size + stream'.left = buffer.size + stream.left
    BY <1>1, <1>3, <2>2, <2>3 DEF Sane
  <2>6. CASE ~(n < InflateChunk)
    <3>1. phase' = phase /\ length' = length
      BY <2>1, <2>6
    <3>2. Fits(buffer.size + stream.left, Whole)'
      BY <1>1, <2>1, <2>4, <2>5 DEF Fits
    <3> QED
      BY <1>1, <2>1, <2>2, <2>3, <3>1, <3>2 DEF BodyInv, Sane, Outset
  <2>7. CASE n < InflateChunk
    <3>1. /\ phase' = IF stream.layer = "transfer" THEN "content filter" ELSE "handler"
          /\ length' = buffer'.size
      BY <2>1, <2>7
    <3>2. n = stream.left /\ length' = buffer.size + stream.left /\ length' \in Nat
      BY <1>1, <1>3, <2>2, <2>7, <3>1 DEF Sane
    <3>3. Fits(length, Whole)'
      BY <1>1, <2>1, <2>4, <3>2 DEF Fits
    <3>4. request'.fault # "corrupt"
      BY <1>1, <1>5, <2>1, <2>7, <3>2
    <3>5. CASE stream.layer = "transfer"
      <4>1. Fits(length, Announced)'
        BY <2>3, <3>3, <3>5 DEF Whole
      <4> QED
        BY <1>1, <2>1, <2>2, <2>3, <3>1, <3>2, <3>4, <3>5, <4>1 DEF BodyInv, Sane, Outset
    <3>6. CASE stream.layer = "content"
      <4>1. Fits(length, request.length)'
        BY <2>3, <3>3, <3>6 DEF Whole
      <4> QED
        BY <1>1, <2>1, <2>2, <2>3, <3>1, <3>2, <3>4, <3>6, <4>1 DEF BodyInv, Sane, Outset
    <3> QED
      BY <1>1, <3>5, <3>6
  <2> QED
    BY <2>6, <2>7
<1> QED
  BY <1>4, <1>5

(***************************************************************************)
(* Each step keeps what is known of the body.                              *)
(***************************************************************************)
LEMMA BodyKept == BodyInv /\ [Next]_vars => BodyInv'
<1> SUFFICES ASSUME BodyInv, [Next]_vars PROVE BodyInv'
  OBVIOUS
<1>1. CASE UNCHANGED vars
  <2>1. UNCHANGED <<request, phase, stream, buffer, length>>
    BY <1>1 DEF vars, body
  <2> QED
    BY <2>1 DEF BodyInv, Sane, Fits, Whole, Announced
<1>2. CASE ReadHead
  <2>1. CASE Refuse(415)
    BY <2>1, RefuseKeeps
  <2>2. CASE ~Refuse(415)
    <3>1. /\ UNCHANGED <<request, stream, buffer, length>>
          /\ phase = "head" /\ phase' = "accept encoding"
      BY <1>2, <2>2 DEF ReadHead, At, Goto, body
    <3> QED
      BY <3>1, BodyLeft DEF Outset
  <2> QED
    BY <2>1, <2>2
<1>3. CASE DecodeItem \/ SendData \/ SendEnds \/ SendFails \/ ChooseContentType \/ RefuseType
  <2>1. /\ UNCHANGED <<request, stream, buffer, length>>
        /\ phase' = phase \/ phase' \in {"sent", "broken", "matched", "accept", "sending"}
    BY <1>3 DEF DecodeItem, SendData, SendEnds, SendFails, ChooseContentType, RefuseType, Goto, body
  <2> QED
    BY <2>1, BodyLeft DEF BodyInv, Sane, Fits, Whole, Announced, Outset
<1>4. CASE ChooseResponseContentEncoding
  <2>1. CASE phase' = "te" /\ UNCHANGED <<request, body>>
    <3>1. phase \in Outset /\ UNCHANGED <<request, stream, buffer, length>>
      BY <1>4, <2>1 DEF ChooseResponseContentEncoding, At, body, Outset
    <3> QED
      BY <2>1, <3>1, BodyLeft
  <2>2. CASE Send(400, "identity", transfer, 0, FALSE)
    BY <2>2, SendKeeps
  <2> QED
    BY <1>4, <2>1, <2>2 DEF ChooseResponseContentEncoding, Goto
<1>5. CASE ChooseResponseTransferCoding
  <2>1. CASE phase' = "coding" /\ UNCHANGED <<request, body>>
    <3>1. phase \in Outset /\ UNCHANGED <<request, stream, buffer, length>>
      BY <1>5, <2>1 DEF ChooseResponseTransferCoding, At, body, Outset
    <3> QED
      BY <2>1, <3>1, BodyLeft
  <2>2. CASE Send(400, "identity", "identity", 0, FALSE)
    BY <2>2, SendKeeps
  <2> QED
    BY <1>5, <2>1, <2>2 DEF ChooseResponseTransferCoding, Goto
<1>6. CASE CheckRequest
  <2>1. CASE phase' = "transfer filter" /\ UNCHANGED <<request, body>>
    <3>1. phase \in Outset /\ UNCHANGED <<request, stream, buffer, length>>
      BY <1>6, <2>1 DEF CheckRequest, At, body, Outset
    <3> QED
      BY <2>1, <3>1, BodyLeft
  <2>2. CASE Refuse(400)
    BY <2>2, RefuseKeeps
  <2> QED
    BY <1>6, <2>1, <2>2 DEF CheckRequest, Goto
<1>7. CASE Handle
  <2>1. CASE phase' = "accept" /\ UNCHANGED <<request, body>>
    BY <2>1, BodyLeft DEF body, Outset
  <2>2. CASE Send(200, coding, transfer, request.size, TRUE)
    BY <2>2, SendKeeps
  <2>3. CASE Send(404, coding, transfer, request.size, TRUE)
    BY <2>3, SendKeeps
  <2>4. CASE Send(404, "identity", "identity", request.size, TRUE)
    BY <2>4, SendKeeps
  <2>5. CASE Send(200, coding, transfer, request.size, FALSE)
    BY <2>5, SendKeeps
  <2> QED
    BY <1>7, <2>1, <2>2, <2>3, <2>4, <2>5 DEF Handle, Goto
<1>8. CASE SendFile
  BY <1>8, SendKeeps DEF SendFile
<1> QED
  BY <1>1, <1>2, <1>3, <1>4, <1>5, <1>6, <1>7, <1>8,
     TransferCodingKeeps, EncodingKeeps, ChunkKeeps DEF Next

(***************************************************************************)
(* inflate is given no more room than its buffer has, and a handler finds  *)
(* the body of its request decoded to the last byte, shortened if it ended *)
(* early, and not at all if it is damaged, whatever it is coded in, for    *)
(* bodies and chunks of every size (decode_zstream, the two filters).      *)
(***************************************************************************)
THEOREM BodyDecodedWhole == Spec => []BodyDecoded
<1>1. Init => BodyInv
  BY BodyInitially
<1>2. BodyInv /\ [Next]_vars => BodyInv'
  BY BodyKept
<1>3. BodyInv => BodyDecoded
  <2> SUFFICES ASSUME BodyInv PROVE BodyDecoded
    OBVIOUS
  <2>1. request \in Requests
    BY DEF BodyInv
  <2>2. request.fault \in {"none", "cut", "corrupt"}
    BY <2>1, RequestType
  <2> QED
    BY <2>2 DEF BodyInv, BodyDecoded, Sane, Fits, At
<1> QED
  BY <1>1, <1>2, <1>3, PTL DEF Spec

-----------------------------------------------------------------------------
(***************************************************************************)
(* Queues: what cc_pqueue_push and cc_pqueue_pop keep of the heap.         *)
(***************************************************************************)
EncodingValues == [coding : Codings \cup {"unknown"}, q : Nat]
TypeValues == [major : STRING, minor : STRING \cup {"unknown"}, q : Nat]

\* What the comparisons of a queue order by.
Rank(v) == IF TypeValue(v) THEN 4 * v.q + Specificity(v) ELSE v.q

LEMMA Ranked ==
  ASSUME NEW V \in {EncodingValues, TypeValues}, NEW a \in V, NEW b \in V
  PROVE  Rank(a) \in Nat /\ Rank(b) \in Nat /\ (Above(a, b) <=> Rank(a) > Rank(b))
<1>1. CASE V = EncodingValues
  <2>1. a.q \in Nat /\ b.q \in Nat /\ DOMAIN a = {"coding", "q"} /\ DOMAIN b = {"coding", "q"}
    BY <1>1 DEF EncodingValues
  <2>2. ~TypeValue(a) /\ ~TypeValue(b)
    BY <2>1 DEF TypeValue
  <2> QED
    BY <2>1, <2>2 DEF Rank, Above, CmpEncodingQV
<1>2. CASE V = TypeValues
  <2>1. /\ a.q \in Nat /\ b.q \in Nat
        /\ DOMAIN a = {"major", "minor", "q"} /\ DOMAIN b = {"major", "minor", "q"}
    BY <1>2 DEF TypeValues
  <2>2. TypeValue(a) /\ TypeValue(b)
    BY <2>1 DEF TypeValue
  <2>3. Specificity(a) \in 0..3 /\ Specificity(b) \in 0..3
    BY DEF Specificity
  <2> HIDE DEF Specificity
  <2> QED
    BY <2>1, <2>2, <2>3 DEF Rank, Above, CmpMimeTypeQV
<1> QED
  BY <1>1, <1>2

-----------------------------------------------------------------------------
(* How often a value is in a sequence. *)

LEMMA CountIsNat ==
  ASSUME NEW V, NEW s \in Seq(V), NEW v
  PROVE  IsFiniteSet({i \in DOMAIN s : s[i] = v}) /\ Count(s, v) \in Nat
<1>1. IsFiniteSet(1..Len(s)) /\ DOMAIN s = 1..Len(s)
  BY FS_Interval
<1>2. IsFiniteSet({i \in DOMAIN s : s[i] = v})
  BY <1>1, FS_Subset
<1> QED
  BY <1>2, FS_CardinalityType DEF Count

LEMMA CountAppend ==
  ASSUME NEW V, NEW s \in Seq(V), NEW x \in V, NEW v
  PROVE  Count(Append(s, x), v) = Count(s, v) + IF x = v THEN 1 ELSE 0
<1> DEFINE A == {i \in DOMAIN s : s[i] = v}
           t == Append(s, x)
           B == {i \in DOMAIN t : t[i] = v}
           k == Len(s) + 1
<1>1. /\ DOMAIN t = 1..k /\ DOMAIN s = 1..Len(s) /\ t[k] = x
      /\ \A i \in 1..Len(s) : t[i] = s[i]
  OBVIOUS
<1>2. IsFiniteSet(A) /\ Cardinality(A) \in Nat
  BY CountIsNat DEF Count
<1>3. k \notin A
  BY <1>1
<1> HIDE DEF t
<1>4. B = IF x = v THEN A \cup {k} ELSE A
  <2>1. Len(s) \in Nat /\ \A i \in 1..k : i = k \/ i \in 1..Len(s)
    OBVIOUS
  <2>2. \A i : i \in B <=> i \in A \/ (i = k /\ x = v)
    BY <1>1, <2>1
  <2> HIDE DEF A, B, k
  <2> QED
    BY <2>2
<1> HIDE DEF A, B, k
<1>5. Cardinality(B) = Cardinality(A) + IF x = v THEN 1 ELSE 0
  <2>1. CASE x = v
    BY <1>2, <1>3, <1>4, <2>1, FS_AddElement
  <2>2. CASE x # v
    BY <1>2, <1>4, <2>2
  <2> QED
    BY <2>1, <2>2
<1> QED
  BY <1>5 DEF A, B, t, Count

\* How often it is at some of the places.
CountIn(s, A, v) == Cardinality({i \in A : s[i] = v})

\* What is moved from one place to another, one to one, stays as often.
LEMMA CountMoved ==
  ASSUME NEW A, NEW B, IsFiniteSet(A), IsFiniteSet(B), Cardinality(A) = Cardinality(B),
         NEW f \in Injection(A, B), NEW s, NEW t, \A i \in A : t[i] = s[f[i]], NEW v
  PROVE  CountIn(t, A, v) = CountIn(s, B, v)
<1> DEFINE Av == {i \in A : t[i] = v}
           Bv == {i \in B : s[i] = v}
           g  == [i \in Av |-> f[i]]
<1>1. f \in Surjection(A, B)
  BY FS_Injection
<1>2. f \in [A -> B] /\ (\A a, b \in A : f[a] = f[b] => a = b) /\ \A b \in B : \E a \in A : f[a] = b
  BY <1>1 DEF Injection, Surjection, IsInjective
<1>3. g \in [Av -> Bv]
  BY <1>2
<1>4. \A a, b \in Av : g[a] = g[b] => a = b
  BY <1>2
<1>5. \A b \in Bv : \E a \in Av : g[a] = b
  BY <1>2
<1>6. IsFiniteSet(Av)
  BY FS_Subset
<1> HIDE DEF g, Av, Bv
<1>7. g \in Bijection(Av, Bv)
  BY <1>3, <1>4, <1>5 DEF Bijection, Injection, Surjection, IsInjective
<1>8. ExistsBijection(Av, Bv)
  BY <1>7 DEF ExistsBijection
<1>9. Cardinality(Av) = Cardinality(Bv)
  BY <1>6, <1>8, FS_Bijection
<1> QED
  BY <1>9 DEF Av, Bv, CountIn

-----------------------------------------------------------------------------
(* cc_pqueue_push: the new element rises. *)

Heap(s) == \A k \in 2..Len(s) : Rank(s[k]) <= Rank(s[k \div 2])

LEMMA Halves ==
  ASSUME NEW k \in Nat
  PROVE  /\ k \div 2 \in Nat /\ k > 0 => k \div 2 < k
         /\ 2 * (k \div 2) = k \/ 2 * (k \div 2) + 1 = k
  OBVIOUS

\* The slots above k are a chain from it to the root.
LEMMA AncestorsChain ==
  ASSUME NEW k \in Nat \ {0}
  PROVE  LET A == Queue!Ancestors(k)
         IN  /\ A \subseteq 1..(k - 1)
             /\ \A c \in A \cup {k} : c \div 2 = 0 \/ c \div 2 \in A
             /\ \A c, d \in A \cup {k} : c < d => c <= d \div 2
<1> DEFINE step == [n \in Nat |-> [x \in Nat |-> x \div 2]]
           Is(f) == f = [n \in Nat |-> IF n = 0 THEN k ELSE f[n - 1] \div 2]
           a == CHOOSE f : Is(f)
<1>1. step \in [Nat -> [Nat -> Nat]]
  BY Halves
<1>2. PICK f : Recurses(f, Nat, k, step)
  <2> HIDE DEF step
  <2> QED
    BY <1>1, Recursion
<1>3. f \in [Nat -> Nat] /\ f[0] = k /\ \A n \in Nat : f[n + 1] = f[n] \div 2
  BY <1>2 DEF Recurses
<1>4. Is(f)
  <2>1. ASSUME NEW n \in Nat PROVE f[n] = IF n = 0 THEN k ELSE f[n - 1] \div 2
    <3>1. CASE n = 0
      BY <1>3, <3>1
    <3>2. CASE n # 0
      <4>1. n - 1 \in Nat /\ (n - 1) + 1 = n
        BY <3>2
      <4> QED
        BY <1>3, <3>2, <4>1
    <3> QED
      BY <3>1, <3>2
  <2> QED
    BY <1>3, <2>1
<1>5. Is(a)
  <2> HIDE DEF Is
  <2> QED
    BY <1>4
<1>6. Queue!Ancestors(k) = {a[n] : n \in 1..k} \ {0}
  BY DEF Queue!Ancestors
<1> HIDE DEF a
<1>7. a[0] = k /\ \A n \in Nat : a[n + 1] = a[n] \div 2
  <2>1. \A n \in Nat : a[n] = IF n = 0 THEN k ELSE a[n - 1] \div 2
    BY <1>5
  <2>2. ASSUME NEW n \in Nat PROVE a[n + 1] = a[n] \div 2
    <3>1. n + 1 \in Nat /\ n + 1 # 0 /\ (n + 1) - 1 = n
      OBVIOUS
    <3>2. a[n + 1] = a[(n + 1) - 1] \div 2
      BY <2>1, <3>1
    <3> QED
      BY <3>1, <3>2
  <2> QED
    BY <2>1, <2>2
<1> HIDE DEF Is, step
<1> DEFINE T == {n \in Nat : a[n] \in Nat /\ (a[n] = 0 \/ a[n] + n <= k)}
<1>8. \A n \in Nat : n \in T
  <2>1. 0 \in T
    BY <1>7
  <2>2. ASSUME NEW n \in Nat, n \in T PROVE n + 1 \in T
    <3>1. a[n] \in Nat /\ (a[n] = 0 \/ a[n] + n <= k) /\ a[n + 1] = a[n] \div 2
      BY <1>7, <2>2
    <3>2. a[n + 1] \in Nat /\ (a[n + 1] = 0 \/ a[n + 1] + 1 <= a[n])
      BY <3>1, Halves
    <3> QED
      BY <3>1, <3>2
  <2> HIDE DEF T
  <2> QED
    BY <2>1, <2>2, Induction
<1>9. \A n \in Nat : a[n] \in Nat /\ (a[n] = 0 \/ a[n] + n <= k)
  BY <1>8
<1>10. ASSUME NEW m \in Nat PROVE \A n \in Nat : n > m => a[n] <= a[m] \div 2
  <2> DEFINE U == {n \in Nat : n > m => a[n] <= a[m] \div 2}
  <2>1. 0 \in U
    OBVIOUS
  <2>2. ASSUME NEW n \in Nat, n \in U PROVE n + 1 \in U
    <3>1. a[n] \in Nat /\ a[m] \in Nat /\ a[n + 1] = a[n] \div 2 /\ a[m] \div 2 \in Nat
      BY <1>7, <1>9, Halves
    <3>2. CASE n = m
      BY <3>1, <3>2
    <3>3. CASE n < m
      BY <3>3
    <3>4. CASE n > m
      <4>1. a[n] <= a[m] \div 2 /\ (a[n] \div 2) <= a[n]
        BY <2>2, <3>1, <3>4, Halves
      <4> QED
        BY <3>1, <4>1
    <3> QED
      BY <3>2, <3>3, <3>4
  <2> HIDE DEF U
  <2>3. \A n \in Nat : n \in U
    BY <2>1, <2>2, Induction
  <2> QED
    BY <2>3 DEF U
<1> DEFINE A == {a[n] : n \in 1..k} \ {0}
<1>11. A \subseteq 1..(k - 1)
  BY <1>9
<1>12. \A c \in A \cup {k} : \E n \in 0..k : c = a[n]
  BY <1>7
<1>13. ASSUME NEW c \in A \cup {k} PROVE c \div 2 = 0 \/ c \div 2 \in A
  <2>1. PICK n \in 0..k : c = a[n]
    BY <1>12
  <2>2. n # k
    <3>1. c # 0
      BY <1>11
    <3> QED
      BY <1>9, <2>1, <3>1
  <2>3. n + 1 \in 1..k /\ a[n + 1] = c \div 2
    BY <1>7, <2>1, <2>2
  <2> QED
    BY <2>3
<1>14. ASSUME NEW c \in A \cup {k}, NEW d \in A \cup {k}, c < d PROVE c <= d \div 2
  <2>1. PICK n \in 0..k : c = a[n]
    BY <1>12
  <2>2. PICK m \in 0..k : d = a[m]
    BY <1>12
  <2>3. CASE n > m
    BY <1>10, <2>1, <2>2, <2>3
  <2>4. CASE n <= m
    <3>1. n # m
      BY <1>14, <2>1, <2>2, <1>9
    <3>2. d <= c \div 2
      BY <1>10, <2>1, <2>2, <2>4, <3>1
    <3>3. c \in Nat /\ d \in Nat /\ c \div 2 <= c
      BY <1>9, <2>1, <2>2, Halves
    <3> QED
      BY <1>14, <3>2, <3>3, Halves
  <2> QED
    BY <2>3, <2>4
<1> HIDE DEF A
<1> QED
  BY <1>6, <1>11, <1>13, <1>14 DEF A

\* The path of a new element to slot k, and where each element comes from.
Path(k, A, good) == {a \in A : \A b \in A : b >= a => b \in good} \cup {k}
From(k, P) == [i \in 1..k |-> IF i \notin P THEN i ELSE IF i \div 2 \in P THEN i \div 2 ELSE k]

LEMMA PathRises ==
  ASSUME NEW k \in Nat \ {0}, NEW A, A \subseteq 1..(k - 1),
         \A c \in A \cup {k} : c \div 2 = 0 \/ c \div 2 \in A,
         \A c, d \in A \cup {k} : c < d => c <= d \div 2,
         NEW good
  PROVE  LET P == Path(k, A, good)
         IN  /\ k \in P /\ P \subseteq 1..k
             /\ \A i \in P : i # k => i \in good
             /\ \A i \in P : i \div 2 \in P \/ i \div 2 = 0 \/ (i \div 2 \in A /\ i \div 2 \notin good)
             /\ From(k, P) \in Injection(1..k, 1..k)
<1> DEFINE P == Path(k, A, good)
           from == From(k, P)
<1> USE DEF Path, From
<1>1. k \in P /\ P \subseteq 1..k /\ P \subseteq A \cup {k}
  <2>1. k \in P /\ P \subseteq A \cup {k}
    OBVIOUS
  <2>2. \A i \in A \cup {k} : i \in 1..k
    OBVIOUS
  <2> QED
    BY <2>1, <2>2
<1>2. \A i \in P : i # k => i \in good
  <2>1. ASSUME NEW i \in P, i # k PROVE i \in good
    <3>1. i \in A /\ i >= i /\ \A b \in A : b >= i => b \in good
      BY <2>1
    <3> QED
      BY <3>1
  <2> QED
    BY <2>1
\* Every ancestor that is not smaller than one of the path is on it.
<1>3. ASSUME NEW c \in P, NEW d \in A, c <= d PROVE d \in P
  <2>1. c # k
    BY <1>1, <1>3
  <2>2. \A b \in A : b >= c => b \in good
    BY <2>1
  <2>3. \A b \in A : b >= d => b \in good
    BY <1>1, <1>3, <2>2
  <2> QED
    BY <2>3
<1>4. ASSUME NEW i \in P, i \div 2 \notin P, i \div 2 # 0
      PROVE  i \div 2 \in A /\ i \div 2 \notin good
  <2>1. i \div 2 \in A
    BY <1>1, <1>4
  <2>2. ASSUME i \div 2 \in good PROVE FALSE
    <3>1. ASSUME NEW b \in A, b >= i \div 2 PROVE b \in good
      <4>1. CASE b = i \div 2
        BY <2>2, <4>1
      <4>2. CASE b > i \div 2
        <5>1. i \in 1..k /\ i \div 2 \in Nat /\ b \in Nat
          BY <1>1, Halves
        <5>2. ~(b < i)
          <6>1. b < i => b <= i \div 2
            BY <1>1
          <6> QED
            BY <4>2, <5>1, <6>1
        <5>3. b \in P
          BY <1>3, <5>1, <5>2
        <5>4. b # k
          BY <1>1
        <5> QED
          BY <1>2, <5>3, <5>4
      <4> QED
        BY <3>1, <4>1, <4>2, <2>1
    <3>2. i \div 2 \in P
      BY <2>1, <3>1
    <3> QED
      BY <1>4, <3>2
  <2> QED
    BY <2>1, <2>2
<1>5. ASSUME NEW c \in P, NEW d \in P, c < d
      PROVE  c # 0 /\ c <= d \div 2 /\ d \div 2 \in P /\ c \div 2 < d \div 2
  <2>1. c \in Nat /\ d \in Nat /\ c > 0 /\ c <= d \div 2
    BY <1>1, <1>5
  <2>2. d \div 2 \in Nat /\ c \div 2 \in Nat /\ c \div 2 < c
    BY <2>1, Halves
  <2>3. d \div 2 \in A
    BY <1>1, <2>1, <2>2
  <2> QED
    BY <1>3, <2>1, <2>2, <2>3
<1>6. from \in [1..k -> 1..k]
  <2>1. \A i \in 1..k : (IF i \notin P THEN i ELSE IF i \div 2 \in P THEN i \div 2 ELSE k) \in 1..k
    BY <1>1
  <2> QED
    BY <2>1
<1>7. ASSUME NEW i \in 1..k, NEW j \in 1..k, i < j PROVE from[i] # from[j]
  <2>1. from[i] = (IF i \notin P THEN i ELSE IF i \div 2 \in P THEN i \div 2 ELSE k)
    OBVIOUS
  <2>2. from[j] = (IF j \notin P THEN j ELSE IF j \div 2 \in P THEN j \div 2 ELSE k)
    OBVIOUS
  <2>3. CASE i \notin P \/ j \notin P
    BY <1>1, <1>7, <2>1, <2>2, <2>3
  <2>4. CASE i \in P /\ j \in P
    <3>1. j \div 2 \in P /\ i \div 2 < j \div 2 /\ j \div 2 \in Nat
      BY <1>5, <1>7, <2>4, Halves
    <3>2. j \div 2 # k
      BY <1>7, Halves
    <3> QED
      BY <2>1, <2>2, <2>4, <3>1, <3>2, Halves
  <2> QED
    BY <2>3, <2>4
<1>8. from \in Injection(1..k, 1..k)
  <2>1. \A a, b \in 1..k : from[a] = from[b] => a = b
    <3>1. ASSUME NEW a \in 1..k, NEW b \in 1..k, from[a] = from[b] PROVE a = b
      <4>1. ~(a < b) /\ ~(b < a)
        BY <1>7, <3>1
      <4> QED
        BY <4>1
    <3> QED
      BY <3>1
  <2> QED
    BY <1>6, <2>1 DEF Injection, IsInjective
<1>9. \A i \in P : i \div 2 \in P \/ i \div 2 = 0 \/ (i \div 2 \in A /\ i \div 2 \notin good)
  BY <1>4
<1> QED
  BY <1>1, <1>2, <1>8, <1>9

\* A heap stays one when the elements on a path move down and x takes the place they leave.
LEMMA HeapRises ==
  ASSUME NEW k \in Nat \ {0}, NEW old, NEW t, NEW x, NEW P, k \in P, P \subseteq 1..k,
         \A i \in 1..k : Rank(old[i]) \in Nat, Rank(x) \in Nat,
         \A i \in 2..(k - 1) : Rank(old[i]) <= Rank(old[i \div 2]),
         \A i \in P : i # k => Rank(x) > Rank(old[i]),
         \A i \in P : i \div 2 \in P \/ i \div 2 = 0 \/ Rank(x) <= Rank(old[i \div 2]),
         \A i \in 1..k : t[i] = IF i \notin P THEN old[i]
                                ELSE IF i \div 2 \in P THEN old[i \div 2] ELSE x
  PROVE  \A i \in 2..k : Rank(t[i]) <= Rank(t[i \div 2])
<1> SUFFICES ASSUME NEW i \in 2..k PROVE Rank(t[i]) <= Rank(t[i \div 2])
  OBVIOUS
<1> DEFINE j == i \div 2
           h == j \div 2
<1>1. j \in 1..k /\ j < i /\ j # k /\ h \in Nat /\ h < j /\ i \in 1..k
  BY Halves
<1> HIDE DEF j, h
<1>2. /\ t[i] = IF i \notin P THEN old[i] ELSE IF j \in P THEN old[j] ELSE x
      /\ t[j] = IF j \notin P THEN old[j] ELSE IF h \in P THEN old[h] ELSE x
  BY <1>1 DEF j, h
<1>3. j \in P => Rank(x) > Rank(old[j])
  BY <1>1
<1>4. i # k => Rank(old[i]) <= Rank(old[j])
  <2>1. i # k => i \in 2..(k - 1)
    OBVIOUS
  <2> QED
    BY <2>1 DEF j
<1>5. h # 0 => h \in 1..k /\ Rank(old[j]) <= Rank(old[h])
  <2>1. h # 0 => j \in 2..(k - 1)
    BY <1>1, Halves DEF h
  <2> QED
    BY <1>1, <2>1 DEF h
<1>6. h \in P => h # 0
  BY <1>1
<1>7. Rank(old[i]) \in Nat /\ Rank(old[j]) \in Nat /\ (h # 0 => Rank(old[h]) \in Nat)
  BY <1>1, <1>5
<1>8. CASE i \in P /\ j \in P
  BY <1>2, <1>3, <1>5, <1>6, <1>7, <1>8
<1>9. CASE i \in P /\ j \notin P
  <2>1. Rank(x) <= Rank(old[j])
    BY <1>1, <1>9 DEF j
  <2> QED
    BY <1>2, <1>9, <2>1
<1>10. CASE i \notin P /\ j \in P
  <2>1. Rank(old[i]) <= Rank(old[j])
    BY <1>4, <1>10
  <2> QED
    BY <1>2, <1>3, <1>5, <1>6, <1>7, <1>10, <2>1
<1>11. CASE i \notin P /\ j \notin P
  BY <1>2, <1>4, <1>11
<1> QED
  BY <1>8, <1>9, <1>10, <1>11 DEF j

LEMMA Pushed ==
  ASSUME NEW V \in {EncodingValues, TypeValues}, NEW q \in [items : Seq(V), cap : Nat], NEW x \in V,
         Heap(q.items), Len(q.items) # MaxElements
  PROVE  LET old == Append(q.items, x)
             t   == Queue!Push(q, x).items
         IN  /\ t \in Seq(V) /\ Len(t) = Len(q.items) + 1 /\ Heap(t)
             /\ \A v : Count(t, v) = Count(old, v)
             /\ \A i \in DOMAIN t : \E j \in DOMAIN old : t[i] = old[j]
<1> DEFINE k == Len(q.items) + 1
           A == Queue!Ancestors(k)
           old == Append(q.items, x)
           good == {a \in A : Rank(x) > Rank(old[a])}
           P == Path(k, A, good)
           from == From(k, P)
           t == Queue!Push(q, x).items
<1>1. k \in Nat \ {0} /\ Len(q.items) \in Nat
  OBVIOUS
<1>2. /\ old \in Seq(V) /\ DOMAIN old = 1..k /\ Len(old) = k /\ old[k] = x
      /\ \A i \in 1..(k - 1) : old[i] = q.items[i]
  OBVIOUS
<1>3. /\ A \subseteq 1..(k - 1)
      /\ \A c \in A \cup {k} : c \div 2 = 0 \/ c \div 2 \in A
      /\ \A c, d \in A \cup {k} : c < d => c <= d \div 2
  <2> HIDE DEF k
  <2> QED
    BY <1>1, AncestorsChain
<1>4. \A i \in 1..k : old[i] \in V /\ Rank(old[i]) \in Nat
  BY <1>2, Ranked, ElementOfSeq
<1>5. \A b \in A : Above(x, q.items[b]) <=> b \in good
  <2>1. ASSUME NEW b \in A PROVE Above(x, q.items[b]) <=> b \in good
    <3>1. q.items[b] = old[b] /\ old[b] \in V
      BY <1>2, <1>3, <1>4
    <3>2. Above(x, old[b]) <=> Rank(x) > Rank(old[b])
      BY <3>1, Ranked
    <3> QED
      BY <3>1, <3>2
  <2> QED
    BY <2>1
<1>6. {a \in A : \A b \in A : b >= a => Above(x, q.items[b])} \cup {k} = P
  BY <1>5 DEF Path
<1>7. t = [i \in DOMAIN old |-> IF i \notin P THEN old[i]
                                ELSE IF i \div 2 \in P THEN old[i \div 2] ELSE x]
  <2> DEFINE Q == {a \in A : \A b \in A : b >= a => Above(x, q.items[b])} \cup {k}
  <2>1. t = [i \in DOMAIN old |-> IF i \notin Q THEN old[i]
                                  ELSE IF i \div 2 \in Q THEN old[i \div 2] ELSE x]
    <3> DEFINE roomy == IF Len(q.items) < q.cap THEN q ELSE Queue!ExpandCapacity(q)
               its == [i \in DOMAIN old |-> IF i \notin Q THEN old[i]
                                            ELSE IF i \div 2 \in Q THEN old[i \div 2] ELSE x]
    <3>1. "items" \in DOMAIN roomy
      BY DEF Queue!ExpandCapacity
    <3>2. Queue!Push(q, x) = [roomy EXCEPT !.items = its]
      BY DEF Queue!Push
    <3> HIDE DEF roomy, its
    <3>3. t = its
      BY <3>1, <3>2
    <3> QED
      BY <3>3 DEF its
  <2>2. Q = P
    BY <1>6
  <2> HIDE DEF Q, P
  <2> QED
    BY <2>1, <2>2
<1> HIDE DEF k, A, old, good, t, P, from
<1>8. /\ k \in P /\ P \subseteq 1..k
      /\ \A i \in P : i # k => i \in good
      /\ \A i \in P : i \div 2 \in P \/ i \div 2 = 0 \/ (i \div 2 \in A /\ i \div 2 \notin good)
      /\ from \in Injection(1..k, 1..k)
  BY <1>1, <1>3, PathRises DEF P, from
<1>9. \A i \in 1..k : t[i] = IF i \notin P THEN old[i]
                             ELSE IF i \div 2 \in P THEN old[i \div 2] ELSE x
  BY <1>2, <1>7
<1>10. \A i \in 1..k : from[i] \in 1..k /\ t[i] = old[from[i]]
  <2>1. ASSUME NEW i \in 1..k PROVE from[i] \in 1..k /\ t[i] = old[from[i]]
    <3>1. from[i] = IF i \notin P THEN i ELSE IF i \div 2 \in P THEN i \div 2 ELSE k
      BY DEF from, From
    <3>2. from[i] \in 1..k
      BY <1>8 DEF Injection
    <3> QED
      BY <1>2, <1>9, <3>1, <3>2
  <2> QED
    BY <2>1
<1>11. t \in Seq(V) /\ Len(t) = k /\ DOMAIN t = 1..k
  <2>1. DOMAIN t = 1..k
    BY <1>2, <1>7
  <2>2. \A i \in 1..k : t[i] \in V
    BY <1>4, <1>10
  <2>3. t \in [1..k -> V]
    BY <1>2, <1>7, <2>1, <2>2
  <2> QED
    BY <1>1, <2>3
<1>12. \A i \in P : i \div 2 \in P \/ i \div 2 = 0 \/ Rank(x) <= Rank(old[i \div 2])
  <2>1. ASSUME NEW i \in P, i \div 2 \in A, i \div 2 \notin good PROVE Rank(x) <= Rank(old[i \div 2])
    <3>0. \A a \in 1..(k - 1) : a \in 1..k
      BY <1>1
    <3>1. ~(Rank(x) > Rank(old[i \div 2])) /\ i \div 2 \in 1..k
      BY <1>3, <2>1, <3>0 DEF good
    <3>2. Rank(x) \in Nat /\ Rank(old[i \div 2]) \in Nat
      BY <1>4, <3>1, Ranked
    <3> QED
      BY <3>1, <3>2
  <2> QED
    BY <1>8, <2>1
<1>13. \A i \in P : i # k => Rank(x) > Rank(old[i])
  BY <1>8 DEF good
<1>14. \A i \in 2..(k - 1) : Rank(old[i]) <= Rank(old[i \div 2])
  <2>1. ASSUME NEW i \in 2..(k - 1) PROVE Rank(old[i]) <= Rank(old[i \div 2])
    <3>1. i \in 1..(k - 1) /\ i \div 2 \in 1..(k - 1) /\ i \in 2..Len(q.items)
      BY <1>1, Halves DEF k
    <3> QED
      BY <1>2, <3>1 DEF Heap
  <2> QED
    BY <2>1
<1>15. \A i \in 2..k : Rank(t[i]) <= Rank(t[i \div 2])
  <2>1. Rank(x) \in Nat
    BY Ranked
  <2> QED
    BY <1>1, <1>4, <1>8, <1>9, <1>12, <1>13, <1>14, <2>1, HeapRises
<1>16. ASSUME NEW v PROVE Count(t, v) = Count(old, v)
  <2> DEFINE D == 1..k
  <2>1. IsFiniteSet(D) /\ from \in Injection(D, D) /\ \A i \in D : t[i] = old[from[i]]
    BY <1>1, <1>8, <1>10, FS_Interval
  <2> HIDE DEF D
  <2>2. CountIn(t, D, v) = CountIn(old, D, v)
    BY <2>1, CountMoved
  <2> QED
    BY <1>2, <1>11, <2>2 DEF Count, CountIn, D
<1>17. \A i \in DOMAIN t : \E j \in DOMAIN old : t[i] = old[j]
  BY <1>2, <1>10, <1>11
<1> QED
  BY <1>11, <1>15, <1>16, <1>17 DEF Heap, k, old, t

-----------------------------------------------------------------------------
(* cc_pqueue_pop: the last element goes down from the root. *)

\* The way down of x: from slot to slot, each the Riser of the one above, to where x stays.
IsWay(s, x, P) ==
    /\ 1 \in P /\ P \subseteq 1..Len(s)
    /\ \A i \in P : Queue!Riser(s, i, x) = 0 \/ Queue!Riser(s, i, x) \in P
    /\ \A i \in P : i = 1 \/ (i \div 2 \in P /\ Queue!Riser(s, i \div 2, x) = i)
    /\ \A i, j \in P : Queue!Riser(s, i, x) = 0 /\ Queue!Riser(s, j, x) = 0 => i = j
    /\ \E i \in P : Queue!Riser(s, i, x) = 0
    /\ Queue!Heapify(s, x) =
          [i \in 1..Len(s) |-> IF i \notin P THEN s[i]
                               ELSE IF Queue!Riser(s, i, x) = 0 THEN x ELSE s[Queue!Riser(s, i, x)]]

LEMMA WayDown ==
  ASSUME NEW V, NEW s \in Seq(V), NEW x, Len(s) # 0
  PROVE  \E P : IsWay(s, x, P)
<1> DEFINE n == Len(s)
           next == [i \in 0..n |-> IF i = 0 THEN 0 ELSE Queue!Riser(s, i, x)]
           step == [m \in Nat |-> next]
           Is(f) == f = [m \in Nat |-> IF m = 0 THEN 1
                                       ELSE IF f[m - 1] = 0 THEN 0 ELSE Queue!Riser(s, f[m - 1], x)]
           w == CHOOSE f : Is(f)
           P == {w[m] : m \in 0..n} \ {0}
<1>1. n \in Nat \ {0}
  OBVIOUS
<1>2. \A i \in 1..n : LET c == Queue!Riser(s, i, x)
                       IN  c = 0 \/ (c \in {2 * i, 2 * i + 1} /\ c <= n)
  BY DEF Queue!Riser
<1>3. Queue!Heapify(s, x) =
        [i \in 1..Len(s) |-> IF i \notin P THEN s[i]
                             ELSE IF Queue!Riser(s, i, x) = 0 THEN x ELSE s[Queue!Riser(s, i, x)]]
  BY DEF Queue!Heapify
<1> HIDE DEF w
<1>4. /\ next[0] = 0 /\ next \in [0..n -> 0..n]
      /\ \A i \in 1..n : next[i] = Queue!Riser(s, i, x)
      /\ \A i \in 1..n : next[i] = 0 \/ (next[i] \in {2 * i, 2 * i + 1} /\ next[i] <= n)
  <2> HIDE DEF n
  <2>1. \A i \in 1..n : i \in 0..n /\ i # 0
    BY <1>1
  <2>2. \A i \in 1..n : Queue!Riser(s, i, x) \in 0..n
    BY <1>1, <1>2
  <2>3. 0 \in 0..n /\ \A i \in 0..n : i = 0 \/ i \in 1..n
    BY <1>1
  <2>4. next \in [0..n -> 0..n]
    BY <2>2, <2>3
  <2> QED
    BY <1>2, <2>1, <2>3, <2>4
<1> HIDE DEF n, next
<1>5. step \in [Nat -> [0..n -> 0..n]] /\ 1 \in 0..n
  BY <1>1, <1>4
<1>6. PICK f : Recurses(f, 0..n, 1, step)
  <2> HIDE DEF step
  <2> QED
    BY <1>5, Recursion
<1>7. /\ f \in [Nat -> 0..n] /\ f[0] = 1
      /\ \A m \in Nat : f[m + 1] = next[f[m]]
  BY <1>6 DEF Recurses
<1> HIDE DEF step
<1>8. Is(f)
  <2>1. ASSUME NEW m \in Nat
        PROVE  f[m] = IF m = 0 THEN 1
                      ELSE IF f[m - 1] = 0 THEN 0 ELSE Queue!Riser(s, f[m - 1], x)
    <3>1. CASE m = 0
      BY <1>7, <3>1
    <3>2. CASE m # 0
      <4>1. m - 1 \in Nat /\ (m - 1) + 1 = m
        BY <3>2
      <4>2. f[m] = next[f[m - 1]] /\ f[m - 1] \in 0..n
        BY <1>7, <4>1
      <4>3. f[m - 1] = 0 \/ f[m - 1] \in 1..n
        BY <1>1, <4>2
      <4> QED
        BY <1>4, <3>2, <4>2, <4>3
    <3> QED
      BY <3>1, <3>2
  <2> QED
    BY <1>7, <2>1
<1>9. Is(w)
  <2> HIDE DEF Is
  <2> QED
    BY <1>8 DEF w
<1>10. /\ w[0] = 1
       /\ \A m \in Nat : w[m] \in 0..n => w[m + 1] = next[w[m]]
  <2>1. \A m \in Nat : w[m] = IF m = 0 THEN 1
                                ELSE IF w[m - 1] = 0 THEN 0 ELSE Queue!Riser(s, w[m - 1], x)
    BY <1>9
  <2>2. ASSUME NEW m \in Nat, w[m] \in 0..n PROVE w[m + 1] = next[w[m]]
    <3>1. m + 1 \in Nat /\ m + 1 # 0 /\ (m + 1) - 1 = m
      OBVIOUS
    <3>2. w[m + 1] = IF w[(m + 1) - 1] = 0 THEN 0 ELSE Queue!Riser(s, w[(m + 1) - 1], x)
      BY <2>1, <3>1
    <3>3. w[m] = 0 \/ w[m] \in 1..n
      BY <1>1, <2>2
    <3> QED
      BY <1>4, <3>1, <3>2, <3>3
  <2> QED
    BY <2>1, <2>2
<1> HIDE DEF Is
<1> DEFINE T == {m \in Nat : w[m] \in 0..n /\ (w[m] = 0 \/ w[m] > m)}
<1>11. \A m \in Nat : m \in T
  <2>1. 0 \in T
    BY <1>1, <1>10
  <2>2. ASSUME NEW m \in Nat, m \in T PROVE m + 1 \in T
    <3>1. w[m] \in 0..n /\ (w[m] = 0 \/ w[m] > m) /\ w[m + 1] = next[w[m]]
      BY <1>10, <2>2
    <3>2. CASE w[m] = 0
      BY <1>1, <1>4, <3>1, <3>2
    <3>3. CASE w[m] # 0
      <4>1. w[m] \in 1..n
        BY <1>1, <3>1, <3>3
      <4>2. w[m + 1] = 0 \/ (w[m + 1] \in {2 * w[m], 2 * w[m] + 1} /\ w[m + 1] <= n)
        BY <1>4, <3>1, <4>1
      <4> QED
        BY <1>1, <3>1, <3>3, <4>1, <4>2
    <3> QED
      BY <3>2, <3>3
  <2> HIDE DEF T
  <2> QED
    BY <2>1, <2>2, Induction
<1>12. \A m \in Nat : w[m] \in 0..n /\ (w[m] = 0 \/ w[m] > m) /\ w[m + 1] = next[w[m]]
  BY <1>10, <1>11
<1>13. ASSUME NEW m \in Nat, w[m] = 0 PROVE \A k \in Nat : k >= m => w[k] = 0
  <2> DEFINE U == {k \in Nat : k >= m => w[k] = 0}
  <2>1. 0 \in U
    BY <1>13
  <2>2. ASSUME NEW k \in Nat, k \in U PROVE k + 1 \in U
    <3>1. k >= m => w[k] = 0 /\ w[k + 1] = 0
      BY <1>4, <1>12, <2>2
    <3>2. k + 1 >= m => k >= m \/ k + 1 = m
      OBVIOUS
    <3> QED
      BY <1>13, <3>1, <3>2
  <2> HIDE DEF U
  <2>3. \A k \in Nat : k \in U
    BY <2>1, <2>2, Induction
  <2> QED
    BY <2>3 DEF U
<1>14. w[n] = 0
  <2>1. w[n] \in 0..n /\ (w[n] = 0 \/ w[n] > n)
    BY <1>1, <1>12
  <2> QED
    BY <1>1, <2>1
<1>15. 1 \in P /\ P \subseteq 1..n
  <2>1. 0 \in 0..n
    BY <1>1
  <2>2. w[0] \in P
    <3>1. w[0] # 0
      BY <1>10
    <3> QED
      BY <2>1, <3>1
  <2>3. \A m \in 0..n : w[m] \in 0..n
    <3>1. \A m \in 0..n : m \in Nat
      BY <1>1
    <3> QED
      BY <1>12, <3>1
  <2>4. \A i \in 0..n : i = 0 \/ i \in 1..n
    BY <1>1
  <2> QED
    BY <1>10, <2>2, <2>3, <2>4
<1>16. \A i \in P : \E m \in 0..(n - 1) : i = w[m] /\ w[m + 1] = next[i]
  <2>1. ASSUME NEW m \in 0..n, w[m] # 0 PROVE m \in 0..(n - 1) /\ w[m + 1] = next[w[m]]
    <3>1. m # n
      BY <1>14, <2>1
    <3> QED
      BY <1>1, <1>12, <3>1
  <2> QED
    BY <2>1
<1>17. \A i \in P : next[i] = 0 \/ next[i] \in P
  <2>1. ASSUME NEW i \in P, next[i] # 0 PROVE next[i] \in P
    <3>1. PICK m \in 0..(n - 1) : i = w[m] /\ w[m + 1] = next[i]
      BY <1>16
    <3>2. m + 1 \in 0..n
      BY <1>1
    <3> QED
      BY <2>1, <3>1, <3>2
  <2> QED
    BY <2>1
<1>18. \A i \in P : i = 1 \/ (i \div 2 \in P /\ next[i \div 2] = i)
  <2>1. ASSUME NEW i \in P, i # 1 PROVE i \div 2 \in P /\ next[i \div 2] = i
    <3>1. PICK m \in 0..(n - 1) : i = w[m]
      BY <1>16
    <3>2. m # 0
      BY <1>10, <2>1, <3>1
    <3>3. m - 1 \in Nat /\ m - 1 \in 0..n /\ (m - 1) + 1 = m
      BY <1>1, <3>2
    <3>4. i # 0
      BY <1>15
    <3>5. w[m - 1] # 0 /\ i = next[w[m - 1]]
      BY <1>4, <1>12, <3>1, <3>3, <3>4
    <3>6. w[m - 1] \in P /\ w[m - 1] \in 1..n
      <4>1. w[m - 1] \in P
        BY <3>3, <3>5
      <4> QED
        BY <1>15, <4>1
    <3>7. i \in {2 * w[m - 1], 2 * w[m - 1] + 1}
      BY <1>4, <3>4, <3>5, <3>6
    <3>8. i \div 2 = w[m - 1]
      BY <3>6, <3>7
    <3> QED
      BY <3>5, <3>6, <3>8
  <2> QED
    BY <2>1
<1>19. ASSUME NEW i \in P, NEW j \in P, next[i] = 0, next[j] = 0 PROVE i = j
  <2>1. PICK a \in 0..(n - 1) : i = w[a] /\ w[a + 1] = 0
    BY <1>16, <1>19
  <2>2. PICK b \in 0..(n - 1) : j = w[b] /\ w[b + 1] = 0
    BY <1>16, <1>19
  <2>3. w[a] # 0 /\ w[b] # 0
    BY <1>15, <2>1, <2>2
  <2>4. ~(b >= a + 1)
    BY <1>13, <2>1, <2>3
  <2>5. ~(a >= b + 1)
    BY <1>13, <2>2, <2>3
  <2>6. a = b
    BY <2>4, <2>5
  <2> QED
    BY <2>1, <2>2, <2>6
<1>20. \E i \in P : next[i] = 0
  <2> DEFINE Z == {m \in Nat : w[m] = 0}
  <2>1. n \in Z
    BY <1>1, <1>14
  <2>2. PICK m \in Z : \A y \in Z : m <= y
    BY <2>1, Smallest
  <2>3. m # 0 /\ m <= n /\ m - 1 \in Nat /\ (m - 1) + 1 = m
    BY <1>10, <2>1, <2>2
  <2>4. w[m - 1] # 0 /\ w[m] = 0 /\ m - 1 \in 0..n
    BY <1>1, <2>2, <2>3
  <2>5. next[w[m - 1]] = 0 /\ w[m - 1] \in P
    BY <1>12, <2>3, <2>4
  <2> QED
    BY <2>5
<1> QED
  <2>1. \A i \in P : next[i] = Queue!Riser(s, i, x)
    BY <1>4, <1>15
  <2>2. \A i \in P : i = 1 \/ (i \div 2 \in P /\ Queue!Riser(s, i \div 2, x) = i)
    BY <1>18, <2>1
  <2>3. /\ \A i \in P : Queue!Riser(s, i, x) = 0 \/ Queue!Riser(s, i, x) \in P
        /\ \E i \in P : Queue!Riser(s, i, x) = 0
    BY <1>17, <1>20, <2>1
  <2>4. \A i, j \in P : Queue!Riser(s, i, x) = 0 /\ Queue!Riser(s, j, x) = 0 => i = j
    BY <1>19, <2>1
  <2>5. P \subseteq 1..Len(s)
    BY <1>15 DEF n
  <2> HIDE DEF P
  <2>6. IsWay(s, x, P)
    BY <1>3, <1>15, <2>2, <2>3, <2>4, <2>5 DEF IsWay
  <2> QED
    BY <2>6

\* The child that takes the place of x is above it and not below the other one.
LEMMA RiserIsBest ==
  ASSUME NEW V \in {EncodingValues, TypeValues}, NEW s \in Seq(V), NEW x \in V, NEW i \in 1..Len(s)
  PROVE  LET c == Queue!Riser(s, i, x)
         IN  /\ c = 0 => \A d \in {2 * i, 2 * i + 1} : d <= Len(s) => Rank(s[d]) <= Rank(x)
             /\ c # 0 => /\ c \in {2 * i, 2 * i + 1} /\ c <= Len(s) /\ Rank(s[c]) > Rank(x)
                         /\ \A d \in {2 * i, 2 * i + 1} : d <= Len(s) => Rank(s[d]) <= Rank(s[c])
<1> DEFINE l == 2 * i
           r == 2 * i + 1
           byLeft == l <= Len(s) /\ Above(s[l], x)
           best == IF byLeft THEN s[l] ELSE x
           byRight == r <= Len(s) /\ Above(s[r], best)
           c == Queue!Riser(s, i, x)
<1>1. c = IF byRight THEN r ELSE IF byLeft THEN l ELSE 0
  BY DEF Queue!Riser
<1>2. /\ l \in Nat /\ r \in Nat /\ l # 0 /\ r # 0 /\ l # r
      /\ l <= Len(s) => s[l] \in V
      /\ r <= Len(s) => s[r] \in V
  BY ElementOfSeq
<1>3. best \in V /\ Rank(x) \in Nat /\ Rank(best) \in Nat
  BY <1>2, Ranked
<1>4. l <= Len(s) => Rank(s[l]) \in Nat /\ (byLeft <=> Rank(s[l]) > Rank(x))
  BY <1>2, Ranked
<1>5. r <= Len(s) => Rank(s[r]) \in Nat /\ (byRight <=> Rank(s[r]) > Rank(best))
  BY <1>2, <1>3, Ranked
<1>6. ~(l <= Len(s)) => ~byLeft
  OBVIOUS
<1>7. ~(r <= Len(s)) => ~byRight
  OBVIOUS
<1>8. Rank(best) = IF byLeft THEN Rank(s[l]) ELSE Rank(x)
  OBVIOUS
<1>9. Len(s) \in Nat
  OBVIOUS
<1> HIDE DEF l, r, byLeft, best, byRight, c
<1>10. c = 0 => \A d \in {l, r} : d <= Len(s) => Rank(s[d]) <= Rank(x)
  BY <1>1, <1>2, <1>3, <1>4, <1>5, <1>8
<1>11. c # 0 => c \in {l, r} /\ c <= Len(s) /\ Rank(s[c]) > Rank(x)
  BY <1>1, <1>2, <1>3, <1>4, <1>5, <1>6, <1>7, <1>8
<1>12. c # 0 => \A d \in {l, r} : d <= Len(s) => Rank(s[d]) <= Rank(s[c])
  BY <1>1, <1>2, <1>3, <1>4, <1>5, <1>6, <1>7, <1>8
<1> QED
  BY <1>10, <1>11, <1>12 DEF c, l, r

LEMMA HeapFalls ==
  ASSUME NEW V \in {EncodingValues, TypeValues}, NEW s \in Seq(V), NEW x \in V, Len(s) # 0,
         Heap(s), NEW P, IsWay(s, x, P)
  PROVE  Heap(Queue!Heapify(s, x))
<1> DEFINE t == Queue!Heapify(s, x)
           m == Len(s)
           next == [i \in 1..m |-> Queue!Riser(s, i, x)]
<1>1. m \in Nat /\ \A i \in 1..m : s[i] \in V /\ Rank(s[i]) \in Nat
  BY Ranked, ElementOfSeq
<1>2. Rank(x) \in Nat
  BY Ranked
<1>3. \A i \in 1..m :
        /\ next[i] = 0 => \A d \in {2 * i, 2 * i + 1} : d <= m => Rank(s[d]) <= Rank(x)
        /\ next[i] # 0 => /\ next[i] \in {2 * i, 2 * i + 1} /\ next[i] <= m /\ Rank(s[next[i]]) > Rank(x)
                          /\ \A d \in {2 * i, 2 * i + 1} : d <= m => Rank(s[d]) <= Rank(s[next[i]])
  BY RiserIsBest
<1>4. 1 \in P /\ P \subseteq 1..m
  BY DEF IsWay
<1>5. \A i \in P : i = 1 \/ (i \div 2 \in P /\ next[i \div 2] = i)
  BY <1>4 DEF IsWay
<1>6. /\ DOMAIN t = 1..m /\ Len(t) = m
      /\ \A i \in 1..m : t[i] = IF i \notin P THEN s[i] ELSE IF next[i] = 0 THEN x ELSE s[next[i]]
  <2>1. t = [i \in 1..m |-> IF i \notin P THEN s[i] ELSE IF next[i] = 0 THEN x ELSE s[next[i]]]
    BY <1>4 DEF IsWay
  <2> HIDE DEF t, m, next
  <2> QED
    BY <1>1, <2>1
<1>7. \A i \in 2..m : Rank(s[i]) <= Rank(s[i \div 2])
  BY DEF Heap
<1> HIDE DEF t, m, next
<1>8. ASSUME NEW j \in 2..m PROVE Rank(t[j]) <= Rank(t[j \div 2])
  <2> DEFINE i == j \div 2
  <2>1. j \in 1..m /\ i \in 1..m /\ j \in {2 * i, 2 * i + 1} /\ j # 1 /\ j <= m
    BY <1>1, Halves
  <2>2. Rank(s[j]) <= Rank(s[i]) /\ (j \in P => i \in P /\ next[i] = j)
    BY <1>5, <1>7, <2>1
  <2> SUFFICES Rank(t[j]) <= Rank(t[i])
    OBVIOUS
  <2> HIDE DEF i
  <2>3. /\ t[j] = IF j \notin P THEN s[j] ELSE IF next[j] = 0 THEN x ELSE s[next[j]]
        /\ t[i] = IF i \notin P THEN s[i] ELSE IF next[i] = 0 THEN x ELSE s[next[i]]
    BY <1>6, <2>1
  <2>4. CASE i \notin P
    BY <2>2, <2>3, <2>4
  <2>5. CASE i \in P /\ next[i] = 0
    <3>1. j \notin P
      BY <2>1, <2>2, <2>5
    <3>2. \A d \in {2 * i, 2 * i + 1} : d <= m => Rank(s[d]) <= Rank(x)
      BY <1>3, <2>1, <2>5
    <3>3. Rank(s[j]) <= Rank(x)
      BY <2>1, <3>2
    <3> QED
      BY <2>3, <2>5, <3>1, <3>3
  <2>6. CASE i \in P /\ next[i] # 0 /\ j \notin P
    <3>1. Rank(s[j]) <= Rank(s[next[i]])
      BY <1>3, <2>1, <2>6
    <3> QED
      BY <2>3, <2>6, <3>1
  <2>7. CASE i \in P /\ next[i] # 0 /\ j \in P
    <3>1. next[i] = j /\ Rank(s[j]) > Rank(x) /\ t[i] = s[j]
      BY <1>3, <2>1, <2>2, <2>3, <2>7
    <3>2. CASE next[j] = 0
      BY <1>1, <1>2, <2>1, <2>3, <2>7, <3>1, <3>2
    <3>3. CASE next[j] # 0
      <4>1. next[j] \in {2 * j, 2 * j + 1} /\ next[j] <= m
        BY <1>3, <2>1, <3>3
      <4>2. next[j] \in 2..m /\ next[j] \div 2 = j
        BY <2>1, <4>1
      <4>3. Rank(s[next[j]]) <= Rank(s[j])
        BY <1>7, <4>2
      <4> QED
        BY <2>3, <2>7, <3>1, <3>3, <4>3
    <3> QED
      BY <3>2, <3>3
  <2> QED
    BY <2>4, <2>5, <2>6, <2>7
<1> QED
  BY <1>6, <1>8 DEF Heap, t

\* Every element but the first is found again, once.
LEMMA HeapifyMoves ==
  ASSUME NEW V \in {EncodingValues, TypeValues}, NEW old \in Seq(V), Len(old) > 1
  PROVE  LET m == Len(old) - 1
             t == Queue!Heapify(SubSeq(old, 1, m), old[m + 1])
         IN  \E from \in Injection(1..m, 2..(m + 1)) :
               t \in Seq(V) /\ Len(t) = m /\ \A i \in 1..m : t[i] = old[from[i]]
<1> DEFINE m == Len(old) - 1
           s == SubSeq(old, 1, m)
           x == old[m + 1]
           t == Queue!Heapify(s, x)
           next == [i \in 1..m |-> Queue!Riser(s, i, x)]
<1>1. m \in Nat \ {0} /\ x \in V /\ \A i \in 1..(m + 1) : old[i] \in V
  BY ElementOfSeq
<1>2. s \in Seq(V) /\ Len(s) = m /\ \A i \in 1..m : s[i] = old[i]
  OBVIOUS
<1> HIDE DEF m, s, x
<1>3. PICK P : IsWay(s, x, P)
  BY <1>1, <1>2, WayDown
<1>4. /\ 1 \in P /\ P \subseteq 1..m
      /\ \A i \in P : next[i] = 0 \/ next[i] \in P
      /\ \A i \in P : i = 1 \/ (i \div 2 \in P /\ next[i \div 2] = i)
      /\ \A i, j \in P : next[i] = 0 /\ next[j] = 0 => i = j
      /\ t = [i \in 1..m |-> IF i \notin P THEN s[i] ELSE IF next[i] = 0 THEN x ELSE s[next[i]]]
  BY <1>2, <1>3 DEF IsWay
<1>5. \A i \in 1..m : next[i] = 0 \/ next[i] \in {2 * i, 2 * i + 1}
  BY <1>1, <1>2, RiserIsBest
<1> HIDE DEF t, next
<1> DEFINE from == [i \in 1..m |-> IF i \notin P THEN i ELSE IF next[i] = 0 THEN m + 1 ELSE next[i]]
<1>6. \A i \in 1..m : from[i] = IF i \notin P THEN i ELSE IF next[i] = 0 THEN m + 1 ELSE next[i]
  OBVIOUS
<1>7. from \in [1..m -> 2..(m + 1)]
  <2>1. ASSUME NEW i \in 1..m
        PROVE  (IF i \notin P THEN i ELSE IF next[i] = 0 THEN m + 1 ELSE next[i]) \in 2..(m + 1)
    <3>1. i \notin P => i # 1
      BY <1>4
    <3>2. next[i] # 0 => next[i] \in {2 * i, 2 * i + 1}
      BY <1>5
    <3>3. i \in P /\ next[i] # 0 => next[i] \in 1..m
      BY <1>4
    <3> QED
      BY <1>1, <3>1, <3>2, <3>3
  <2> QED
    BY <2>1
<1>8. ASSUME NEW i \in 1..m, NEW j \in 1..m, from[i] = from[j] PROVE i = j
  <2>1. next[i] # 0 => next[i] \div 2 = i
    BY <1>5
  <2>2. next[j] # 0 => next[j] \div 2 = j
    BY <1>5
  <2>3. (i \in P => next[i] = 0 \/ next[i] \in P) /\ (j \in P => next[j] = 0 \/ next[j] \in P)
    BY <1>4
  <2>4. m + 1 \notin 1..m /\ m + 1 \notin P
    BY <1>1, <1>4
  <2>5. i \in P /\ j \in P /\ next[i] = 0 /\ next[j] = 0 => i = j
    BY <1>4
  <2> HIDE DEF from
  <2> QED
    BY <1>6, <1>8, <2>1, <2>2, <2>3, <2>4, <2>5
<1>9. from \in Injection(1..m, 2..(m + 1))
  BY <1>7, <1>8 DEF Injection, IsInjective
<1>10. \A i \in 1..m : t[i] = old[from[i]]
  <2>1. ASSUME NEW i \in 1..m PROVE t[i] = old[from[i]]
    <3>1. t[i] = IF i \notin P THEN s[i] ELSE IF next[i] = 0 THEN x ELSE s[next[i]]
      BY <1>4
    <3>2. i \in P /\ next[i] # 0 => next[i] \in 1..m
      BY <1>4
    <3> QED
      BY <1>2, <1>6, <3>1, <3>2 DEF x
  <2> QED
    BY <2>1
<1>11. t \in Seq(V) /\ Len(t) = m
  <2>1. \A i \in 1..m : t[i] \in V
    BY <1>1, <1>7, <1>10
  <2>2. t \in [1..m -> V]
    BY <1>4, <2>1
  <2> QED
    BY <1>1, <2>2
<1> HIDE DEF from
<1> QED
  BY <1>9, <1>10, <1>11 DEF t, s, x, m

-----------------------------------------------------------------------------

LEMMA Popped ==
  ASSUME NEW V \in {EncodingValues, TypeValues}, NEW q \in [items : Seq(V), cap : Nat],
         Heap(q.items), q.items # <<>>
  PROVE  LET t == Queue!Pop(q).items
         IN  /\ Queue!Pop(q).cap = q.cap
             /\ t \in Seq(V) /\ Len(t) = Len(q.items) - 1 /\ Heap(t)
             /\ \A v : Count(q.items, v) = Count(t, v) + IF q.items[1] = v THEN 1 ELSE 0
             /\ \A i \in DOMAIN t : \E j \in DOMAIN q.items : t[i] = q.items[j]
<1> DEFINE old == q.items
           n == Len(old)
           m == n - 1
           s == SubSeq(old, 1, m)
           x == old[n]
           h == Queue!Heapify(s, x)
           t == Queue!Pop(q).items
<1>1. n \in Nat \ {0} /\ old \in Seq(V) /\ DOMAIN old = 1..n /\ \A i \in 1..n : old[i] \in V
  BY ElementOfSeq
<1>2. Queue!Pop(q).cap = q.cap /\ t = IF n = 1 THEN <<>> ELSE h
  BY DEF Queue!Pop
<1>3. \A v : IsFiniteSet({i \in 2..n : old[i] = v})
               /\ Count(old, v) = CountIn(old, 2..n, v) + IF old[1] = v THEN 1 ELSE 0
  <2> SUFFICES ASSUME NEW v
               PROVE  IsFiniteSet({i \in 2..n : old[i] = v})
                      /\ Count(old, v) = CountIn(old, 2..n, v) + IF old[1] = v THEN 1 ELSE 0
    OBVIOUS
  <2> DEFINE A == {i \in 2..n : old[i] = v}
             B == {i \in DOMAIN old : old[i] = v}
  <2>1. IsFiniteSet(A)
    <3>1. IsFiniteSet(2..n) /\ A \subseteq 2..n
      BY <1>1, FS_Interval
    <3> QED
      BY <3>1, FS_Subset
  <2>2. Cardinality(A) \in Nat /\ 1 \notin A
    BY <2>1, FS_CardinalityType
  <2>3. \A i : i \in B <=> i \in A \/ (i = 1 /\ old[1] = v)
    BY <1>1
  <2> HIDE DEF A, B
  <2>4. CASE old[1] = v
    <3>1. B = A \cup {1}
      BY <2>3, <2>4
    <3>2. Cardinality(B) = Cardinality(A) + 1
      BY <2>1, <2>2, <3>1, FS_AddElement
    <3> QED
      BY <2>1, <2>4, <3>2 DEF A, B, Count, CountIn
  <2>5. CASE old[1] # v
    <3>1. B = A
      BY <2>3, <2>5
    <3>2. Cardinality(B) = Cardinality(A)
      BY <3>1
    <3> QED
      BY <2>1, <2>2, <2>5, <3>2 DEF A, B, Count, CountIn
  <2> QED
    BY <2>4, <2>5
<1> HIDE DEF t, n, m, h, old, s, x
<1>4. CASE n = 1
  <2>1. t = <<>>
    BY <1>2, <1>4
  <2>2. ASSUME NEW v PROVE Count(t, v) = 0 /\ CountIn(old, 2..n, v) = 0
    <3>1. DOMAIN <<>> = {} /\ 2..n = {}
      BY <1>4
    <3> QED
      BY <2>1, <3>1, FS_EmptySet DEF Count, CountIn
  <2>3. /\ t \in Seq(V) /\ Len(t) = n - 1 /\ Heap(t)
        /\ \A i \in DOMAIN t : \E j \in DOMAIN old : t[i] = old[j]
    BY <1>4, <2>1 DEF Heap
  <2> QED
    BY <1>2, <1>3, <2>2, <2>3 DEF t, old, n
<1>5. CASE n # 1
  <2>1. m \in Nat \ {0} /\ m + 1 = n /\ n > 1
    BY <1>1, <1>5 DEF m
  <2>2. t = h
    BY <1>2, <1>5
  <2>3. PICK from \in Injection(1..m, 2..n) :
           t \in Seq(V) /\ Len(t) = m /\ \A i \in 1..m : t[i] = old[from[i]]
    <3>1. Len(old) > 1 /\ Len(old) - 1 = m /\ old[m + 1] = x
      BY <2>1 DEF n, m, x
    <3>2. h = Queue!Heapify(SubSeq(old, 1, m), old[m + 1])
      BY <3>1 DEF h, s
    <3> DEFINE l == Len(old) - 1
               u == Queue!Heapify(SubSeq(old, 1, l), old[l + 1])
    <3>3. \E from \in Injection(1..l, 2..(l + 1)) :
             u \in Seq(V) /\ Len(u) = l /\ \A i \in 1..l : u[i] = old[from[i]]
      BY <1>1, <3>1, HeapifyMoves
    <3>4. l = m /\ u = h /\ l + 1 = n
      BY <2>1, <3>1, <3>2
    <3> HIDE DEF l, u
    <3> QED
      BY <2>2, <3>3, <3>4
  <2>4. s \in Seq(V) /\ Len(s) = m /\ x \in V /\ \A i \in 1..m : s[i] = old[i]
    BY <1>1, <2>1 DEF s, x, n
  <2>5. Heap(s)
    <3>1. ASSUME NEW k \in 2..m PROVE Rank(s[k]) <= Rank(s[k \div 2])
      <4>1. k \in 1..m /\ k \div 2 \in 1..m /\ k \in 2..n
        BY <2>1, Halves
      <4> QED
        BY <2>4, <4>1 DEF Heap, old, n
    <3> QED
      BY <2>4, <3>1 DEF Heap
  <2>6. Heap(t)
    <3>1. Len(s) # 0
      BY <2>1, <2>4
    <3>2. PICK P : IsWay(s, x, P)
      BY <2>4, <3>1, WayDown
    <3> QED
      BY <2>2, <2>4, <2>5, <3>1, <3>2, HeapFalls DEF h
  <2>7. ASSUME NEW v PROVE Count(t, v) = CountIn(old, 2..n, v)
    <3> DEFINE A == 1..m
               B == 2..n
    <3>1. /\ IsFiniteSet(A) /\ IsFiniteSet(B) /\ Cardinality(A) = Cardinality(B)
          /\ from \in Injection(A, B) /\ \A i \in A : t[i] = old[from[i]]
      BY <1>1, <2>1, <2>3, FS_Interval
    <3> HIDE DEF A, B
    <3>2. CountIn(t, A, v) = CountIn(old, B, v)
      BY <3>1, CountMoved
    <3>3. DOMAIN t = A
      BY <2>3 DEF A
    <3> QED
      BY <3>2, <3>3 DEF Count, CountIn, B
  <2>8. ASSUME NEW i \in DOMAIN t PROVE \E j \in DOMAIN old : t[i] = old[j]
    <3>1. i \in 1..m
      BY <2>3
    <3>2. from[i] \in 2..n /\ t[i] = old[from[i]]
      BY <2>3, <3>1 DEF Injection
    <3>3. from[i] \in 1..n
      BY <1>1, <3>2
    <3> QED
      BY <1>1, <3>2, <3>3
  <2>9. t \in Seq(V) /\ Len(t) = n - 1
    BY <2>3 DEF m
  <2> QED
    BY <1>2, <1>3, <2>6, <2>7, <2>8, <2>9 DEF t, old, n
<1> QED
  BY <1>4, <1>5

\* The first of a heap has the highest rank.
LEMMA RootIsTop ==
  ASSUME NEW s, Len(s) \in Nat, \A i \in 1..Len(s) : Rank(s[i]) \in Nat, Heap(s)
  PROVE  \A i \in 1..Len(s) : Rank(s[i]) <= Rank(s[1])
<1> DEFINE T == {n \in Nat : \A i \in 1..Len(s) : i <= n => Rank(s[i]) <= Rank(s[1])}
<1>1. 0 \in T
  OBVIOUS
<1>2. ASSUME NEW n \in Nat, n \in T PROVE n + 1 \in T
  <2>1. ASSUME NEW i \in 1..Len(s), i <= n + 1 PROVE Rank(s[i]) <= Rank(s[1])
    <3>1. CASE i = 1
      BY <3>1
    <3>2. CASE i # 1
      <4> DEFINE j == i \div 2
      <4>1. j \in 1..Len(s) /\ j <= n /\ i \in 2..Len(s)
        BY <2>1, <3>2, Halves
      <4>2. Rank(s[i]) <= Rank(s[j])
        BY <4>1 DEF Heap
      <4> HIDE DEF j
      <4>3. Rank(s[j]) <= Rank(s[1]) /\ 1 \in 1..Len(s)
        BY <1>2, <4>1
      <4> QED
        BY <4>1, <4>2, <4>3
    <3> QED
      BY <3>1, <3>2
  <2> QED
    BY <2>1
<1> HIDE DEF T
<1>3. \A n \in Nat : n \in T
  BY <1>1, <1>2, Induction
<1>4. Len(s) \in T
  BY <1>3
<1> QED
  BY <1>4 DEF T

-----------------------------------------------------------------------------
(***************************************************************************)
(* A queue q, the values d pushed to it and the values p popped from it.   *)
(***************************************************************************)
Kept(V, q, d, p) ==
    /\ q \in [items : Seq(V), cap : Nat] /\ d \in Seq(V) /\ p \in Seq(V)
    /\ Len(q.items) <= q.cap /\ 0 < q.cap /\ q.cap <= MaxElements
    /\ Len(d) = Len(q.items) + Len(p)
    /\ Heap(q.items)
    /\ \A v : Count(d, v) = Count(q.items, v) + Count(p, v)
    /\ \A i \in DOMAIN q.items, j \in DOMAIN p : Rank(q.items[i]) <= Rank(p[j])
    /\ \A i, j \in DOMAIN p : i < j => Rank(p[j]) <= Rank(p[i])

LEMMA NothingKept == ASSUME NEW V PROVE Kept(V, Queue!NewQueue, <<>>, <<>>)
<1>1. \A v : Count(<<>>, v) = 0
  <2>1. ASSUME NEW v PROVE {i \in DOMAIN <<>> : <<>>[i] = v} = {}
    OBVIOUS
  <2> QED
    BY <2>1, FS_EmptySet DEF Count
<1>2. Queue!NewQueue = [items |-> <<>>, cap |-> QueueCap]
  BY DEF Queue!NewQueue
<1>3. QueueCap \in Nat \ {0} /\ QueueCap <= MaxElements
  BY ExchangeAssumption
<1> QED
  BY <1>1, <1>2, <1>3 DEF Kept, Heap

LEMMA RoomToPush ==
  ASSUME NEW V, NEW q \in [items : Seq(V), cap : Nat], NEW x,
         Len(q.items) <= q.cap, 0 < q.cap, q.cap <= MaxElements, Len(q.items) < MaxElements
  PROVE  LET c == Queue!Push(q, x).cap
         IN  /\ DOMAIN Queue!Push(q, x) = {"items", "cap"}
             /\ Queue!Push(q, x) = [items |-> Queue!Push(q, x).items, cap |-> c]
             /\ c \in Nat /\ 0 < c /\ c <= MaxElements /\ Len(q.items) < c
<1> DEFINE roomy == IF Len(q.items) < q.cap THEN q ELSE Queue!ExpandCapacity(q)
<1>1. MaxElements \in Nat /\ Len(q.items) \in Nat
  BY ExchangeAssumption
<1> DEFINE k == Len(q.items) + 1
           A == Queue!Ancestors(k)
           P == {a \in A : \A b \in A : b >= a => Above(x, q.items[b])} \cup {k}
           old == Append(q.items, x)
           its == [i \in DOMAIN old |-> IF i \notin P THEN old[i]
                                        ELSE IF i \div 2 \in P THEN old[i \div 2] ELSE x]
<1>2. Queue!Push(q, x) = [roomy EXCEPT !.items = its]
  <2>1. Len(q.items) # MaxElements
    BY <1>1
  <2> QED
    BY <2>1 DEF Queue!Push
<1> HIDE DEF its
<1>3. roomy = [items |-> q.items, cap |-> roomy.cap]
  BY DEF Queue!ExpandCapacity
<1>4. roomy.cap \in Nat /\ 0 < roomy.cap /\ roomy.cap <= MaxElements /\ Len(q.items) < roomy.cap
  BY <1>1 DEF Queue!ExpandCapacity
<1> HIDE DEF roomy
<1> QED
  BY <1>2, <1>3, <1>4

LEMMA PushKeeps ==
  ASSUME NEW V \in {EncodingValues, TypeValues}, NEW q, NEW d, Kept(V, q, d, <<>>), NEW x \in V,
         Len(d) < MaxElements
  PROVE  Kept(V, Queue!Push(q, x), Append(d, x), <<>>)
<1> DEFINE r == Queue!Push(q, x)
           e == Append(d, x)
           old == Append(q.items, x)
<1>1. /\ q \in [items : Seq(V), cap : Nat] /\ d \in Seq(V) /\ Len(d) = Len(q.items)
      /\ Len(q.items) <= q.cap /\ 0 < q.cap /\ q.cap <= MaxElements /\ Heap(q.items)
      /\ \A v : Count(d, v) = Count(q.items, v) + Count(<<>>, v)
  BY DEF Kept
<1>2. /\ r = [items |-> r.items, cap |-> r.cap]
      /\ r.cap \in Nat /\ 0 < r.cap /\ r.cap <= MaxElements /\ Len(q.items) < r.cap
  BY <1>1, RoomToPush
<1>3. /\ r.items \in Seq(V) /\ Len(r.items) = Len(q.items) + 1 /\ Heap(r.items)
      /\ \A v : Count(r.items, v) = Count(old, v)
  <2>1. Len(q.items) # MaxElements
    BY <1>1
  <2> QED
    BY <1>1, <2>1, Pushed
<1>4. e \in Seq(V) /\ Len(e) = Len(d) + 1
  BY <1>1
<1>5. ASSUME NEW v PROVE Count(e, v) = Count(r.items, v) + Count(<<>>, v)
  <2>1. <<>> \in Seq(V) /\ q.items \in Seq(V)
    BY <1>1
  <2>2. Count(<<>>, v) \in Nat /\ Count(q.items, v) \in Nat
    BY <2>1, CountIsNat
  <2>3. Count(e, v) = Count(d, v) + IF x = v THEN 1 ELSE 0
    BY <1>1, CountAppend
  <2>4. Count(old, v) = Count(q.items, v) + IF x = v THEN 1 ELSE 0
    BY <2>1, CountAppend
  <2>5. Count(d, v) = Count(q.items, v) + Count(<<>>, v) /\ Count(r.items, v) = Count(old, v)
    BY <1>1, <1>3
  <2> HIDE DEF e, r, old
  <2> QED
    BY <2>2, <2>3, <2>4, <2>5
<1> HIDE DEF r, e, old
<1>6. r \in [items : Seq(V), cap : Nat] /\ Len(r.items) <= r.cap
  BY <1>1, <1>2, <1>3
<1>7. Len(e) = Len(r.items) + Len(<<>>) /\ <<>> \in Seq(V)
  BY <1>1, <1>3, <1>4
<1>8. Kept(V, r, e, <<>>)
  BY <1>2, <1>3, <1>4, <1>5, <1>6, <1>7 DEF Kept
<1> QED
  BY <1>8 DEF r, e

LEMMA PopKeeps ==
  ASSUME NEW V \in {EncodingValues, TypeValues}, NEW q, NEW d, NEW p, Kept(V, q, d, p),
         q.items # <<>>
  PROVE  Kept(V, Queue!Pop(q), d, Append(p, Queue!Top(q)))
<1> DEFINE r == Queue!Pop(q)
           x == q.items[1]
           s == Append(p, x)
<1>1. /\ q \in [items : Seq(V), cap : Nat] /\ d \in Seq(V) /\ p \in Seq(V)
      /\ Len(q.items) <= q.cap /\ 0 < q.cap /\ q.cap <= MaxElements
      /\ Len(d) = Len(q.items) + Len(p) /\ Heap(q.items)
      /\ \A v : Count(d, v) = Count(q.items, v) + Count(p, v)
      /\ \A i \in DOMAIN q.items, j \in DOMAIN p : Rank(q.items[i]) <= Rank(p[j])
      /\ \A i, j \in DOMAIN p : i < j => Rank(p[j]) <= Rank(p[i])
  BY DEF Kept
<1>2. q.items \in Seq(V) /\ Len(q.items) \in Nat \ {0} /\ DOMAIN q.items = 1..Len(q.items)
  BY <1>1
<1>3. x \in V /\ \A i \in DOMAIN q.items : q.items[i] \in V
  BY <1>2, ElementOfSeq
<1>4. \A i \in DOMAIN q.items : Rank(q.items[i]) \in Nat
  BY <1>3, Ranked
<1>5. \A i \in DOMAIN q.items : Rank(q.items[i]) <= Rank(x)
  BY <1>1, <1>2, <1>4, RootIsTop
<1>6. /\ r.cap = q.cap /\ r.items \in Seq(V) /\ Len(r.items) = Len(q.items) - 1 /\ Heap(r.items)
      /\ \A v : Count(q.items, v) = Count(r.items, v) + IF x = v THEN 1 ELSE 0
      /\ \A i \in DOMAIN r.items : \E j \in DOMAIN q.items : r.items[i] = q.items[j]
  BY <1>1, Popped
<1>7. r = [items |-> r.items, cap |-> r.cap]
  BY <1>1 DEF Queue!Pop
<1>8. /\ s \in Seq(V) /\ Len(s) = Len(p) + 1 /\ DOMAIN s = 1..(Len(p) + 1) /\ DOMAIN p = 1..Len(p)
      /\ s[Len(p) + 1] = x /\ \A j \in DOMAIN p : s[j] = p[j]
      /\ Len(p) \in Nat
  BY <1>1, <1>3
<1>9. Append(p, Queue!Top(q)) = s
  BY DEF Queue!Top
<1>10. ASSUME NEW v PROVE Count(d, v) = Count(r.items, v) + Count(s, v)
  <2>1. Count(r.items, v) \in Nat /\ Count(p, v) \in Nat
    BY <1>1, <1>6, CountIsNat
  <2>2. Count(s, v) = Count(p, v) + IF x = v THEN 1 ELSE 0
    BY <1>1, <1>3, CountAppend
  <2>3. /\ Count(d, v) = Count(q.items, v) + Count(p, v)
        /\ Count(q.items, v) = Count(r.items, v) + IF x = v THEN 1 ELSE 0
    BY <1>1, <1>6
  <2> HIDE DEF r, s, x
  <2> QED
    BY <2>1, <2>2, <2>3
<1> HIDE DEF r, s, x
<1>11. ASSUME NEW i \in DOMAIN r.items, NEW j \in DOMAIN s PROVE Rank(r.items[i]) <= Rank(s[j])
  <2>1. PICK k \in DOMAIN q.items : r.items[i] = q.items[k]
    BY <1>6
  <2>2. CASE j = Len(p) + 1
    BY <1>5, <1>8, <2>1, <2>2
  <2>3. CASE j # Len(p) + 1
    <3>1. j \in DOMAIN p
      BY <1>8, <2>3
    <3> QED
      BY <1>1, <1>8, <2>1, <3>1
  <2> QED
    BY <2>2, <2>3
<1>12. ASSUME NEW i \in DOMAIN s, NEW j \in DOMAIN s, i < j PROVE Rank(s[j]) <= Rank(s[i])
  <2>1. i \in DOMAIN p
    BY <1>8, <1>12
  <2>2. CASE j = Len(p) + 1
    <3>1. 1 \in DOMAIN q.items
      BY <1>2
    <3> QED
      BY <1>1, <1>8, <2>1, <2>2, <3>1 DEF x
  <2>3. CASE j # Len(p) + 1
    <3>1. j \in DOMAIN p
      BY <1>8, <2>3
    <3> QED
      BY <1>1, <1>8, <1>12, <2>1, <3>1
  <2> QED
    BY <2>2, <2>3
<1>13. r \in [items : Seq(V), cap : Nat] /\ Len(r.items) <= r.cap /\ Len(d) = Len(r.items) + Len(s)
  BY <1>1, <1>2, <1>6, <1>7, <1>8
<1>14. Kept(V, r, d, s)
  BY <1>1, <1>6, <1>8, <1>10, <1>11, <1>12, <1>13 DEF Kept
<1> QED
  BY <1>9, <1>14 DEF r

-----------------------------------------------------------------------------
(* What is pushed: the values of the items of the headers. *)

LEMMA ItemsType ==
  ASSUME NEW I, NEW lines \in Seq(Seq(I))
  PROVE  Items(lines) \in Seq(I)
<1> DEFINE n == Len(lines)
           step == [m \in Nat |-> [a \in Seq(I) |-> IF m + 1 \in 1..n THEN a \o lines[m + 1] ELSE a]]
           Is(f) == f = [i \in 0..n |-> IF i = 0 THEN <<>> ELSE f[i - 1] \o lines[i]]
           u == CHOOSE f : Is(f)
<1>1. n \in Nat /\ \A i \in 1..n : lines[i] \in Seq(I)
  BY ElementOfSeq
<1>2. Items(lines) = IF Full(lines) THEN <<>> ELSE u[n]
  BY DEF Items
<1> HIDE DEF u, n
<1>3. step \in [Nat -> [Seq(I) -> Seq(I)]]
  <2>1. ASSUME NEW m \in Nat, NEW a \in Seq(I)
        PROVE  (IF m + 1 \in 1..n THEN a \o lines[m + 1] ELSE a) \in Seq(I)
    <3>1. CASE m + 1 \in 1..n
      BY <1>1, <3>1, ConcatProperties
    <3> QED
      BY <3>1
  <2> QED
    BY <2>1
<1>4. PICK g : Recurses(g, Seq(I), <<>>, step)
  <2> HIDE DEF step
  <2>1. <<>> \in Seq(I)
    OBVIOUS
  <2> QED
    BY <1>3, <2>1, Recursion
<1>5. /\ g \in [Nat -> Seq(I)] /\ g[0] = <<>>
      /\ \A m \in Nat : m + 1 \in 1..n => g[m + 1] = g[m] \o lines[m + 1]
  BY <1>4 DEF Recurses
<1> DEFINE f == [i \in 0..n |-> g[i]]
<1>6. Is(f)
  <2>1. ASSUME NEW i \in 0..n PROVE g[i] = IF i = 0 THEN <<>> ELSE f[i - 1] \o lines[i]
    <3>1. CASE i = 0
      BY <1>5, <3>1
    <3>2. CASE i # 0
      <4>1. i - 1 \in Nat /\ (i - 1) + 1 = i /\ i \in 1..n /\ i - 1 \in 0..n
        BY <1>1, <3>2
      <4>2. g[i] = g[i - 1] \o lines[i] /\ f[i - 1] = g[i - 1]
        BY <1>5, <4>1
      <4> QED
        BY <3>2, <4>2
    <3> QED
      BY <3>1, <3>2
  <2> QED
    BY <2>1
<1>7. Is(u)
  <2> HIDE DEF Is
  <2> QED
    BY <1>6 DEF u
<1>8. \A i \in 0..n : u[i] = IF i = 0 THEN <<>> ELSE u[i - 1] \o lines[i]
  BY <1>7
<1> HIDE DEF Is, step, f
<1> DEFINE T == {i \in Nat : i <= n => u[i] \in Seq(I)}
<1>9. 0 \in T
  <2>1. 0 \in 0..n /\ <<>> \in Seq(I)
    BY <1>1
  <2>2. u[0] = <<>>
    BY <1>8, <2>1
  <2> QED
    BY <2>1, <2>2
<1>10. ASSUME NEW i \in Nat, i \in T PROVE i + 1 \in T
  <2> SUFFICES ASSUME i + 1 <= n PROVE u[i + 1] \in Seq(I)
    OBVIOUS
  <2>1. i + 1 \in 1..n /\ i + 1 \in 0..n /\ (i + 1) - 1 = i /\ i + 1 # 0 /\ u[i] \in Seq(I)
    BY <1>1, <1>10
  <2>2. u[i + 1] = u[i] \o lines[i + 1]
    BY <1>8, <2>1
  <2> QED
    BY <1>1, <2>1, <2>2, ConcatProperties
<1>11. u[n] \in Seq(I)
  <2> HIDE DEF T
  <2>1. \A i \in Nat : i \in T
    BY <1>9, <1>10, Induction
  <2> QED
    BY <1>1, <2>1 DEF T
<1> QED
  BY <1>2, <1>11

LEMMA EncodingDecoded ==
  ASSUME NEW item \in EncodingItems
  PROVE  DecodeEncoding(item) \subseteq EncodingValues
<1>1. Weight(item) \in Nat /\ DefaultQ \in Nat
  BY DEF EncodingItems, Weight, DefaultQ, NoWeight
<1>2. HTTP_ENCODING(item.name) \in Codings \cup {"unknown"}
  BY DEF HTTP_ENCODING
<1> HIDE DEF Weight, DefaultQ, HTTP_ENCODING
<1>3. CASE item.name = "nothing"
  BY <1>3 DEF DecodeEncoding
<1>4. CASE item.name = "blank"
  BY <1>1, <1>4 DEF DecodeEncoding, EncodingValues
<1>5. CASE item.name # "nothing" /\ item.name # "blank"
  <2>1. DecodeEncoding(item) =
          {[coding |-> IF item.spacing = "before" THEN "unknown" ELSE HTTP_ENCODING(item.name),
            q |-> Weight(item)]}
    BY <1>5 DEF DecodeEncoding
  <2> QED
    BY <1>1, <1>2, <2>1 DEF EncodingValues
<1> QED
  BY <1>3, <1>4, <1>5

LEMMA TypeDecoded ==
  ASSUME NEW item \in TypeItems
  PROVE  DecodeMimetype(item) \subseteq TypeValues
<1>1. Weight(item) \in Nat
  BY DEF TypeItems, Weight, DefaultQ, NoWeight
<1> HIDE DEF Weight
<1>2. item.major \in STRING /\ item.minor \in STRING
  BY DEF TypeItems
<1> QED
  BY <1>1, <1>2 DEF DecodeMimetype, TypeValues

-----------------------------------------------------------------------------
(* The invariant. *)

\* No header of a request has more items than a queue can hold.
HeadersFit ==
    \A r \in Requests : \A lines \in {r.acceptEncoding, r.te, r.accept} :
        Len(Items(lines)) <= MaxElements

Decoding == {"accept encoding", "te", "accept"}

HeapInv ==
    /\ request \in Requests
    /\ \/ Kept(EncodingValues, queue, decoded, popped) /\ phase # "accept"
       \/ Kept(TypeValues, queue, decoded, popped) /\ phase \notin {"accept encoding", "te"}
    /\ phase \in {"accept encoding", "te"} => todo \in Seq(EncodingItems)
    /\ phase = "accept" => todo \in Seq(TypeItems)
    /\ phase \notin Decoding => todo = <<>>
    /\ todo # <<>> => popped = <<>>
    /\ Len(decoded) + Len(todo) <= MaxElements

LEMMA HeapInitially == Init => HeapInv
<1> SUFFICES ASSUME Init PROVE HeapInv
  OBVIOUS
<1>1. Kept(EncodingValues, queue, decoded, popped)
  BY NothingKept DEF Init
<1>2. MaxElements \in Nat
  BY ExchangeAssumption
<1> QED
  BY <1>1, <1>2 DEF Init, HeapInv, Decoding

\* Nothing is decoded any more, or not yet.
LEMMA HeapLeft ==
  ASSUME HeapInv, UNCHANGED <<request, choice>>, todo = <<>>, phase' \notin Decoding
  PROVE  HeapInv'
  BY DEF HeapInv, choice, Decoding

\* A header of the request whose items are decoded next.
Decodes(lines) ==
    \/ phase' \in {"accept encoding", "te"} /\ lines \in {request.acceptEncoding, request.te}
    \/ phase' = "accept" /\ lines = request.accept

LEMMA HeapStarted ==
  ASSUME HeapInv, HeadersFit, NEW lines, StartDecoding(lines), UNCHANGED request, Decodes(lines)
  PROVE  HeapInv'
<1>1. request \in Requests /\ request' = request
  BY DEF HeapInv
<1>2. /\ request.acceptEncoding \in Seq(Seq(EncodingItems)) /\ request.te \in Seq(Seq(EncodingItems))
      /\ request.accept \in Seq(Seq(TypeItems))
  BY <1>1, ExchangeAssumption
<1>3. todo' = Items(lines) /\ queue' = Queue!NewQueue /\ decoded' = <<>> /\ popped' = <<>>
  BY DEF StartDecoding
<1>4. \A V : Kept(V, queue', decoded', popped')
  BY <1>3, NothingKept
<1>5. Len(todo') <= MaxElements
  BY <1>1, <1>3 DEF HeadersFit, Decodes
<1>6. Len(decoded') = 0 /\ MaxElements \in Nat
  BY <1>3, ExchangeAssumption
<1>7. CASE phase' \in {"accept encoding", "te"} /\ lines \in {request.acceptEncoding, request.te}
  <2>1. todo' \in Seq(EncodingItems)
    BY <1>2, <1>3, <1>7, ItemsType
  <2>2. Len(decoded') + Len(todo') <= MaxElements
    <3>1. Len(todo') \in Nat
      BY <2>1, LenProperties
    <3> QED
      BY <1>5, <1>6, <3>1
  <2> QED
    BY <1>1, <1>3, <1>4, <1>7, <2>1, <2>2 DEF HeapInv, Decoding
<1>8. CASE phase' = "accept" /\ lines = request.accept
  <2>1. todo' \in Seq(TypeItems)
    BY <1>2, <1>3, <1>8, ItemsType
  <2>2. Len(decoded') + Len(todo') <= MaxElements
    <3>1. Len(todo') \in Nat
      BY <2>1, LenProperties
    <3> QED
      BY <1>5, <1>6, <3>1
  <2> QED
    BY <1>1, <1>3, <1>4, <1>8, <2>1, <2>2 DEF HeapInv, Decoding
<1> QED
  BY <1>7, <1>8 DEF Decodes

LEMMA HeapDecodes ==
  ASSUME HeapInv, DecodeItem
  PROVE  HeapInv'
<1> DEFINE I == IF phase = "accept" THEN TypeItems ELSE EncodingItems
           V == IF phase = "accept" THEN TypeValues ELSE EncodingValues
           values == IF phase = "accept" THEN DecodeMimetype(todo[1]) ELSE DecodeEncoding(todo[1])
<1>1. /\ todo # <<>> /\ todo' = Tail(todo) /\ UNCHANGED <<request, phase, popped>>
      /\ \/ UNCHANGED <<queue, decoded>>
         \/ \E v \in values : queue' = Queue!Push(queue, v) /\ decoded' = Append(decoded, v)
  BY DEF DecodeItem, At
<1>2. /\ request \in Requests /\ popped = <<>> /\ phase \in Decoding
      /\ Len(decoded) + Len(todo) <= MaxElements
  BY <1>1 DEF HeapInv
<1>3. todo \in Seq(I) /\ Kept(V, queue, decoded, <<>>) /\ V \in {EncodingValues, TypeValues}
  BY <1>2 DEF HeapInv, Decoding
<1>4. todo[1] \in I /\ Len(todo) \in Nat \ {0} /\ Tail(todo) \in Seq(I) /\ Len(Tail(todo)) = Len(todo) - 1
  BY <1>1, <1>3, ElementOfSeq
<1>5. values \subseteq V
  BY <1>4, EncodingDecoded, TypeDecoded
<1>6. decoded \in Seq(V) /\ Len(decoded) \in Nat /\ MaxElements \in Nat
  BY <1>3, ExchangeAssumption DEF Kept
<1>7. Kept(V, queue', decoded', <<>>) /\ Len(decoded') + Len(todo') <= MaxElements
  <2>1. CASE UNCHANGED <<queue, decoded>>
    BY <1>1, <1>2, <1>3, <1>4, <1>6, <2>1
  <2>2. CASE \E v \in values : queue' = Queue!Push(queue, v) /\ decoded' = Append(decoded, v)
    <3>1. PICK v \in values : queue' = Queue!Push(queue, v) /\ decoded' = Append(decoded, v)
      BY <2>2
    <3>2. v \in V /\ Len(decoded) < MaxElements
      BY <1>2, <1>4, <1>5, <1>6
    <3>3. Kept(V, queue', decoded', <<>>)
      <4> HIDE DEF V, values
      <4> QED
        BY <1>3, <3>1, <3>2, PushKeeps
    <3>4. Len(decoded') = Len(decoded) + 1
      BY <1>6, <3>1
    <3> QED
      BY <1>1, <1>2, <1>4, <1>6, <3>3, <3>4
  <2> QED
    BY <1>1, <2>1, <2>2
<1>8. todo' \in Seq(I) /\ popped' = <<>> /\ phase' = phase /\ request' = request
  BY <1>1, <1>2, <1>4
<1>9. CASE phase = "accept"
  BY <1>2, <1>7, <1>8, <1>9 DEF HeapInv, Decoding
<1>10. CASE phase # "accept"
  BY <1>2, <1>7, <1>8, <1>10 DEF HeapInv, Decoding
<1> QED
  BY <1>9, <1>10

LEMMA HeapPops ==
  ASSUME HeapInv, ChooseContentType
  PROVE  HeapInv'
<1>1. /\ phase = "accept" /\ todo = <<>> /\ queue.items # <<>>
      /\ popped' = Append(popped, Queue!Top(queue)) /\ queue' = Queue!Pop(queue)
      /\ phase' \in {"matched", "accept"}
      /\ UNCHANGED <<request, todo, decoded>>
  BY DEF ChooseContentType, At, Goto
<1>2. Kept(TypeValues, queue, decoded, popped)
  BY <1>1 DEF HeapInv
<1>3. Kept(TypeValues, queue', decoded', popped')
  BY <1>1, <1>2, PopKeeps
<1> QED
  BY <1>1, <1>3 DEF HeapInv, Decoding

LEMMA HeapStep ==
  ASSUME HeapInv, HeadersFit, [Next]_vars
  PROVE  HeapInv'
<1> USE DEF At, Goto
<1>1. CASE ReadHead
  <2>1. todo = <<>> /\ UNCHANGED request
    BY <1>1 DEF ReadHead, HeapInv, Decoding, Refuse, Send
  <2>2. CASE phase' = "accept encoding" /\ StartDecoding(request.acceptEncoding)
    BY <2>1, <2>2, HeapStarted DEF Decodes
  <2>3. CASE phase' \in {"sending", "crashed"} /\ UNCHANGED choice
    BY <2>1, <2>3, HeapLeft DEF Decoding
  <2> QED
    BY <1>1, <2>2, <2>3 DEF ReadHead, Refuse, Send
<1>2. CASE DecodeItem
  BY <1>2, HeapDecodes
<1>3. CASE ChooseResponseContentEncoding
  <2>1. todo = <<>> /\ UNCHANGED request
    BY <1>3 DEF ChooseResponseContentEncoding, Send
  <2>2. CASE phase' = "te" /\ StartDecoding(request.te)
    BY <2>1, <2>2, HeapStarted DEF Decodes
  <2>3. CASE phase' \in {"sending", "crashed"} /\ UNCHANGED choice
    BY <2>1, <2>3, HeapLeft DEF Decoding
  <2> QED
    BY <1>3, <2>2, <2>3 DEF ChooseResponseContentEncoding, Send
<1>4. CASE ChooseResponseTransferCoding
  <2>1. todo = <<>> /\ UNCHANGED <<request, choice>> /\ phase' \in {"coding", "sending", "crashed"}
    BY <1>4 DEF ChooseResponseTransferCoding, Send
  <2> QED
    BY <2>1, HeapLeft DEF Decoding
<1>5. CASE CheckRequest \/ TransferCodingFilter \/ EncodingFilter \/ InflateChunkStep
  <2>1. /\ phase \in {"coding", "transfer filter", "content filter", "inflate"}
        /\ UNCHANGED <<request, choice>>
        /\ \/ phase' \in {"transfer filter", "content filter", "inflate", "handler", "sending", "crashed"}
           \/ phase' = phase
    <3>1. CASE CheckRequest
      BY <3>1 DEF CheckRequest, Refuse, Send
    <3>2. CASE TransferCodingFilter
      BY <3>2 DEF TransferCodingFilter, StartInflate, Refuse, Send
    <3>3. CASE EncodingFilter
      BY <3>3 DEF EncodingFilter, StartInflate, Refuse, Send
    <3>4. CASE InflateChunkStep
      BY <3>4 DEF InflateChunkStep, Refuse, Send
    <3> QED
      BY <1>5, <3>1, <3>2, <3>3, <3>4
  <2>2. todo = <<>>
    BY <2>1 DEF HeapInv, Decoding
  <2> QED
    BY <2>1, <2>2, HeapLeft DEF Decoding
<1>6. CASE Handle
  <2>1. phase = "handler" /\ todo = <<>> /\ UNCHANGED request
    BY <1>6 DEF Handle, HeapInv, Decoding, Send
  <2>2. CASE phase' = "accept" /\ StartDecoding(request.accept)
    BY <2>1, <2>2, HeapStarted DEF Decodes
  <2>3. CASE phase' \in {"sending", "crashed"} /\ UNCHANGED choice
    BY <2>1, <2>3, HeapLeft DEF Decoding
  <2> QED
    BY <1>6, <2>2, <2>3 DEF Handle, Send
<1>7. CASE ChooseContentType
  BY <1>7, HeapPops
<1>8. CASE SendFile
  <2>1. phase = "matched" /\ UNCHANGED <<request, choice>> /\ phase' \in {"sending", "crashed"}
    BY <1>8 DEF SendFile, Send
  <2>2. todo = <<>>
    BY <2>1 DEF HeapInv, Decoding
  <2> QED
    BY <2>1, <2>2, HeapLeft DEF Decoding
<1>9. CASE RefuseType
  <2>1. todo = <<>> /\ UNCHANGED <<request, choice>> /\ phase' = "sending"
    BY <1>9 DEF RefuseType
  <2> QED
    BY <2>1, HeapLeft DEF Decoding
<1>10. CASE SendData \/ SendEnds \/ SendFails
  <2>1. phase = "sending" /\ UNCHANGED <<request, choice>> /\ phase' \in {"sending", "sent", "broken"}
    BY <1>10 DEF SendData, SendEnds, SendFails
  <2>2. todo = <<>>
    BY <2>1 DEF HeapInv, Decoding
  <2> QED
    BY <2>1, <2>2, HeapLeft DEF Decoding
<1>11. CASE UNCHANGED vars
  BY <1>11 DEF vars, choice, HeapInv
<1> QED
  BY <1>1, <1>2, <1>3, <1>4, <1>5, <1>6, <1>7, <1>8, <1>9, <1>10, <1>11 DEF Next

LEMMA HeapImplied == HeapInv => HeapKept
<1> SUFFICES ASSUME HeapInv PROVE HeapKept
  OBVIOUS
<1>1. PICK V \in {EncodingValues, TypeValues} : Kept(V, queue, decoded, popped)
  BY DEF HeapInv
<1>2. /\ queue.items \in Seq(V) /\ popped \in Seq(V) /\ Len(queue.items) <= queue.cap
      /\ Heap(queue.items)
      /\ \A v : Count(decoded, v) = Count(queue.items, v) + Count(popped, v)
      /\ \A i, j \in DOMAIN popped : i < j => Rank(popped[j]) <= Rank(popped[i])
  BY <1>1 DEF Kept
<1>3. \A k \in 2..Len(queue.items) : ~Above(queue.items[k], queue.items[k \div 2])
  <2>1. ASSUME NEW k \in 2..Len(queue.items) PROVE ~Above(queue.items[k], queue.items[k \div 2])
    <3> DEFINE j == k \div 2
    <3>1. k \in 1..Len(queue.items) /\ j \in 1..Len(queue.items)
      BY <1>2, Halves
    <3>2. Rank(queue.items[k]) <= Rank(queue.items[j])
      BY <1>2 DEF Heap
    <3> HIDE DEF j
    <3>3. queue.items[k] \in V /\ queue.items[j] \in V
      BY <1>2, <3>1, ElementOfSeq
    <3>4. ~Above(queue.items[k], queue.items[j])
      BY <3>2, <3>3, Ranked
    <3> QED
      BY <3>4 DEF j
  <2> QED
    BY <2>1
<1>4. \A i, j \in DOMAIN popped : i < j => ~Above(popped[j], popped[i])
  <2>1. ASSUME NEW i \in DOMAIN popped, NEW j \in DOMAIN popped, i < j
        PROVE  ~Above(popped[j], popped[i])
    <3>1. popped[i] \in V /\ popped[j] \in V
      BY <1>2, ElementOfSeq
    <3> QED
      BY <1>2, <2>1, <3>1, Ranked
  <2> QED
    BY <2>1
<1> QED
  BY <1>2, <1>3, <1>4 DEF HeapKept

(***************************************************************************)
(* Whatever is asked for, the queue a header is decoded into is a heap     *)
(* over its buffer, holds what was pushed and not popped, and gives its    *)
(* values by rank, if no header has more items than CC_MAX_ELEMENTS        *)
(* (cc_pqueue_push, cc_pqueue_pop, cc_pqueue_heapify).                     *)
(***************************************************************************)
THEOREM QueueInOrder == HeadersFit => (Spec => []HeapKept)
<1> SUFFICES ASSUME HeadersFit PROVE Spec => []HeapKept
  OBVIOUS
<1>1. HeapInv /\ [Next]_vars => HeapInv'
  BY HeapStep
<1> QED
  BY <1>1, HeapInitially, HeapImplied, PTL DEF Spec
-----------------------------------------------------------------------------
(* The codings and the type of a response *)

LEMMA Present ==
  ASSUME NEW V, NEW s \in Seq(V), NEW v
  PROVE  v \in ToSet(s) <=> Count(s, v) # 0
<1> DEFINE A == {i \in DOMAIN s : s[i] = v}
<1>1. IsFiniteSet(A)
  BY CountIsNat
<1>2. Cardinality(A) = 0 <=> A = {}
  BY <1>1, FS_EmptySet
<1> QED
  BY <1>2 DEF Count, ToSet

\* What was pushed is in the queue or was popped.
LEMMA SameValues ==
  ASSUME NEW V, NEW q, NEW d, NEW p, Kept(V, q, d, p)
  PROVE  ToSet(d) = ToSet(q.items) \cup ToSet(p)
<1>1. q.items \in Seq(V) /\ d \in Seq(V) /\ p \in Seq(V)
  BY DEF Kept
<1>2. ASSUME NEW v PROVE v \in ToSet(d) <=> v \in ToSet(q.items) \/ v \in ToSet(p)
  <2>1. /\ v \in ToSet(d) <=> Count(d, v) # 0
        /\ v \in ToSet(q.items) <=> Count(q.items, v) # 0
        /\ v \in ToSet(p) <=> Count(p, v) # 0
    BY <1>1, Present
  <2>2. Count(q.items, v) \in Nat /\ Count(p, v) \in Nat
    BY <1>1, CountIsNat
  <2>3. Count(d, v) = Count(q.items, v) + Count(p, v)
    BY DEF Kept
  <2> QED
    BY <2>1, <2>2, <2>3
<1> QED
  BY <1>2

LEMMA TopRanksFirst ==
  ASSUME NEW V \in {EncodingValues, TypeValues}, NEW q, NEW d, NEW p, Kept(V, q, d, p),
         q.items # <<>>
  PROVE  LET x == Queue!Top(q)
         IN  x \in V /\ x \in ToSet(q.items) /\ \A w \in ToSet(q.items) : Rank(w) <= Rank(x)
<1>1. q.items \in Seq(V) /\ Heap(q.items)
  BY DEF Kept
<1>2. \A i \in 1..Len(q.items) : q.items[i] \in V /\ Rank(q.items[i]) \in Nat
  BY <1>1, ElementOfSeq, Ranked
<1>3. Len(q.items) \in Nat \ {0} /\ DOMAIN q.items = 1..Len(q.items)
  BY <1>1
<1>4. \A i \in 1..Len(q.items) : Rank(q.items[i]) <= Rank(q.items[1])
  BY <1>1, <1>2, <1>3, RootIsTop
<1>5. 1 \in DOMAIN q.items
  BY <1>3
<1> QED
  BY <1>2, <1>3, <1>4, <1>5 DEF Queue!Top, ToSet

LEMMA NamingTail ==
  ASSUME NEW I, NEW s \in Seq(I), s # <<>>
  PROVE  /\ Naming(Tail(s)) \in Nat
         /\ Naming(s) = Naming(Tail(s)) + IF s[1].name # "nothing" THEN 1 ELSE 0
<1> DEFINE n == Len(s)
           t == Tail(s)
           A == 1..(n - 1)
           B == 2..n
           named(i) == IF s[i].name # "nothing" THEN 1 ELSE 0
           b == [i \in 1..n |-> IF s[i].name # "nothing" THEN 1 ELSE 0]
           c == [i \in A |-> IF t[i].name # "nothing" THEN 1 ELSE 0]
           f == [i \in A |-> i + 1]
           At1 == {i \in A : c[i] = 1}
           Bt1 == {i \in B : b[i] = 1}
<1>1. n \in Nat \ {0} /\ DOMAIN s = 1..n /\ DOMAIN t = A /\ \A i \in A : t[i] = s[i + 1]
  OBVIOUS
<1> HIDE DEF n, t
<1>2. IsFiniteSet(A) /\ IsFiniteSet(B) /\ Cardinality(A) = Cardinality(B)
  BY <1>1, FS_Interval
<1>3. f \in Injection(A, B)
  BY <1>1 DEF Injection, IsInjective
<1>4. \A i \in A : c[i] = b[f[i]]
  BY <1>1
<1>5. Naming(t) = Cardinality(At1)
  <2>1. {i \in DOMAIN t : t[i].name # "nothing"} = At1
    BY <1>1
  <2> QED
    BY <2>1 DEF Naming
<1>6. Naming(s) = Cardinality(Bt1) + (IF s[1].name # "nothing" THEN 1 ELSE 0) /\ Cardinality(Bt1) \in Nat
  <2> DEFINE S == {i \in DOMAIN s : s[i].name # "nothing"}
  <2>1. IsFiniteSet(Bt1) /\ 1 \notin Bt1
    <3>1. Bt1 \subseteq B /\ 1 \notin B
      OBVIOUS
    <3> HIDE DEF B, Bt1
    <3> QED
      BY <1>2, <3>1, FS_Subset
  <2>2. Cardinality(Bt1) \in Nat
    BY <2>1, FS_CardinalityType
  <2>3. \A i : i \in S <=> i \in Bt1 \/ (i = 1 /\ s[1].name # "nothing")
    BY <1>1
  <2> HIDE DEF S, Bt1
  <2>4. CASE s[1].name # "nothing"
    <3>1. S = Bt1 \cup {1}
      BY <2>3, <2>4
    <3>2. Cardinality(S) = Cardinality(Bt1) + 1
      BY <2>1, <2>2, <3>1, FS_AddElement
    <3> QED
      BY <2>2, <2>4, <3>2 DEF Naming, S
  <2>5. CASE ~(s[1].name # "nothing")
    <3>1. S = Bt1
      BY <2>3, <2>5
    <3>2. Cardinality(S) = Cardinality(Bt1)
      BY <3>1
    <3> QED
      BY <2>2, <2>5, <3>2 DEF Naming, S
  <2> QED
    BY <2>4, <2>5
<1>7. Cardinality(At1) = Cardinality(Bt1)
  <2> HIDE DEF A, B, f, b, c
  <2>1. CountIn(c, A, 1) = CountIn(b, B, 1)
    BY <1>2, <1>3, <1>4, CountMoved
  <2> QED
    BY <2>1 DEF CountIn
<1> HIDE DEF At1, Bt1
<1> QED
  BY <1>5, <1>6, <1>7 DEF t

LEMMA NamingNothing == Naming(<<>>) = 0
<1>1. {i \in DOMAIN <<>> : <<>>[i].name # "nothing"} = {}
  OBVIOUS
<1> QED
  BY <1>1, FS_EmptySet DEF Naming

-----------------------------------------------------------------------------

Counted(lines) == Len(decoded) + Naming(todo) = Naming(Items(lines))
Matches == \E v \in ToSet(decoded) : MatchMimeType(v, Actual)
Awaited == \E i \in DOMAIN todo : Covers(todo[i])

ChoiceInv ==
    /\ phase \in {"accept encoding", "te"} => popped = <<>>
    /\ phase = "accept encoding" => Counted(request.acceptEncoding)
    /\ phase = "te" => Counted(request.te)
    /\ phase = "accept" =>
          /\ Accepts(request.accept) <=> Matches \/ Awaited
          /\ \A v \in ToSet(popped) : ~MatchMimeType(v, Actual)

LEMMA EncodingNamed ==
  ASSUME NEW item \in EncodingItems
  PROVE  DecodeEncoding(item) = {} <=> item.name = "nothing"
<1>1. CASE item.name = "nothing"
  BY <1>1 DEF DecodeEncoding
<1>2. CASE item.name = "blank"
  BY <1>2 DEF DecodeEncoding
<1>3. CASE item.name # "nothing" /\ item.name # "blank"
  BY <1>3 DEF DecodeEncoding
<1> QED
  BY <1>1, <1>2, <1>3

\* A type is decoded into a value that matches if it covers what is sent.
LEMMA TypeCovers ==
  ASSUME NEW item \in TypeItems
  PROVE  \/ DecodeMimetype(item) = {} /\ ~Covers(item)
         \/ \E v : DecodeMimetype(item) = {v} /\ (MatchMimeType(v, Actual) <=> Covers(item))
<1>1. Actual.minor # "unknown"
  BY ExchangeAssumption
<1>2. CASE item.minor = "nothing"
  BY <1>2 DEF DecodeMimetype, Covers
<1>3. CASE item.minor # "nothing"
  <2> DEFINE v == [major |-> item.major,
                   minor |-> IF item.spacing = "before" THEN "unknown" ELSE item.minor,
                   q     |-> Weight(item)]
  <2>1. DecodeMimetype(item) = {v}
    BY <1>3 DEF DecodeMimetype
  <2>2. v.major = item.major /\ v.minor = IF item.spacing = "before" THEN "unknown" ELSE item.minor
    OBVIOUS
  <2> HIDE DEF v
  <2>3. MatchMimeType(v, Actual) <=> Covers(item)
    BY <1>1, <1>3, <2>2 DEF MatchMimeType, Covers
  <2> QED
    BY <2>1, <2>3
<1> QED
  BY <1>2, <1>3

LEMMA NamingType ==
  ASSUME NEW I, NEW s \in Seq(I)
  PROVE  Naming(s) \in Nat
<1> DEFINE A == {i \in DOMAIN s : s[i].name # "nothing"}
<1>1. IsFiniteSet(1..Len(s)) /\ DOMAIN s = 1..Len(s) /\ A \subseteq 1..Len(s)
  BY FS_Interval
<1>2. IsFiniteSet(A)
  BY <1>1, FS_Subset
<1> QED
  BY <1>2, FS_CardinalityType DEF Naming

LEMMA ChoiceInitially == Init => ChoiceInv
  BY DEF Init, ChoiceInv

\* A phase in which nothing is decoded.
LEMMA ChoiceLeft == phase' \notin Decoding => ChoiceInv'
  BY DEF ChoiceInv, Decoding

LEMMA HeaderTypes ==
  ASSUME request \in Requests
  PROVE  /\ request.acceptEncoding \in Seq(Seq(EncodingItems)) /\ request.te \in Seq(Seq(EncodingItems))
         /\ request.accept \in Seq(Seq(TypeItems))
  BY ExchangeAssumption

LEMMA CodingStarted ==
  ASSUME NEW lines \in Seq(Seq(EncodingItems)), StartDecoding(lines)
  PROVE  Len(decoded') + Naming(todo') = Naming(Items(lines)) /\ popped' = <<>>
<1>1. todo' = Items(lines) /\ decoded' = <<>> /\ popped' = <<>>
  BY DEF StartDecoding
<1>2. Naming(Items(lines)) \in Nat
  BY ItemsType, NamingType
<1>3. Len(decoded') = 0
  BY <1>1
<1> QED
  BY <1>1, <1>2, <1>3

LEMMA TypeStarted ==
  ASSUME StartDecoding(request.accept), UNCHANGED request
  PROVE  (Accepts(request.accept) <=> Matches \/ Awaited)' /\ popped' = <<>>
<1>1. todo' = Items(request.accept) /\ decoded' = <<>> /\ popped' = <<>> /\ request' = request
  BY DEF StartDecoding
<1>2. ToSet(decoded') = {}
  BY <1>1 DEF ToSet
<1> QED
  BY <1>1, <1>2 DEF Accepts, Matches, Awaited

LEMMA ChoiceDecodes ==
  ASSUME HeapInv, ChoiceInv, DecodeItem
  PROVE  ChoiceInv'
<1> USE DEF At
<1>1. /\ todo # <<>> /\ todo' = Tail(todo) /\ UNCHANGED <<request, phase, popped>>
      /\ phase \in Decoding
  BY DEF DecodeItem, HeapInv
<1>2. CASE phase \in {"accept encoding", "te"}
  <2> DEFINE values == DecodeEncoding(todo[1])
             one == IF todo[1].name # "nothing" THEN 1 ELSE 0
  <2>1. todo \in Seq(EncodingItems) /\ decoded \in Seq(EncodingValues)
    BY <1>2 DEF HeapInv, Kept
  <2>2. todo[1] \in EncodingItems
    BY <1>1, <2>1, ElementOfSeq
  <2>3. \/ values = {} /\ decoded' = decoded
        \/ \E v \in values : decoded' = Append(decoded, v)
    BY <1>2 DEF DecodeItem
  <2>4. values = {} <=> todo[1].name = "nothing"
    BY <2>2, EncodingNamed
  <2>5. Len(decoded') = Len(decoded) + one
    BY <2>1, <2>3, <2>4
  <2>6. Naming(todo') \in Nat /\ Naming(todo) = Naming(todo') + one
    BY <1>1, <2>1, NamingTail
  <2>7. Len(decoded) \in Nat
    BY <2>1
  <2> HIDE DEF values, one
  <2>8. Len(decoded') + Naming(todo') = Len(decoded) + Naming(todo)
    <3>1. one \in Nat
      BY DEF one
    <3> QED
      BY <2>5, <2>6, <2>7, <3>1
  <2> QED
    BY <1>1, <1>2, <2>8 DEF ChoiceInv, Counted
<1>3. CASE phase = "accept"
  <2> DEFINE item == todo[1]
  <2>1. todo \in Seq(TypeItems) /\ decoded \in Seq(TypeValues) /\ item \in TypeItems
    <3>1. todo \in Seq(TypeItems) /\ decoded \in Seq(TypeValues)
      BY <1>3 DEF HeapInv, Kept
    <3> QED
      BY <1>1, <3>1, ElementOfSeq
  <2>2. \/ DecodeMimetype(item) = {} /\ decoded' = decoded
        \/ \E v \in DecodeMimetype(item) : decoded' = Append(decoded, v)
    BY <1>3 DEF DecodeItem
  <2>3. Awaited <=> Covers(item) \/ Awaited'
    <3>1. /\ Len(todo) \in Nat \ {0} /\ DOMAIN todo = 1..Len(todo)
          /\ DOMAIN todo' = 1..(Len(todo) - 1) /\ \A i \in DOMAIN todo' : todo'[i] = todo[i + 1]
      BY <1>1, <2>1
    <3>2. \A i \in DOMAIN todo : i = 1 \/ (i - 1 \in DOMAIN todo' /\ (i - 1) + 1 = i)
      BY <3>1
    <3>3. 1 \in DOMAIN todo /\ \A i \in DOMAIN todo' : i + 1 \in DOMAIN todo
      BY <3>1
    <3>4. Awaited => Covers(item) \/ Awaited'
      BY <3>1, <3>2 DEF Awaited
    <3>5. Covers(item) \/ Awaited' => Awaited
      BY <3>1, <3>3 DEF Awaited
    <3> QED
      BY <3>4, <3>5
  <2>4. Matches' <=> Matches \/ Covers(item)
    <3>1. CASE DecodeMimetype(item) = {} /\ ~Covers(item)
      BY <2>2, <3>1 DEF Matches
    <3>2. CASE \E v : DecodeMimetype(item) = {v} /\ (MatchMimeType(v, Actual) <=> Covers(item))
      <4>1. PICK v : DecodeMimetype(item) = {v} /\ (MatchMimeType(v, Actual) <=> Covers(item))
        BY <3>2
      <4>2. decoded' = Append(decoded, v) /\ v \in TypeValues
        BY <2>1, <2>2, <4>1, TypeDecoded
      <4>3. ToSet(decoded') = ToSet(decoded) \cup {v}
        <5>1. /\ DOMAIN decoded = 1..Len(decoded) /\ Len(decoded) \in Nat
              /\ DOMAIN decoded' = 1..(Len(decoded) + 1) /\ decoded'[Len(decoded) + 1] = v
              /\ \A i \in DOMAIN decoded : decoded'[i] = decoded[i]
          BY <2>1, <4>2
        <5> QED
          BY <5>1 DEF ToSet
      <4> QED
        BY <4>1, <4>3 DEF Matches
    <3> QED
      BY <2>1, <3>1, <3>2, TypeCovers
  <2> HIDE DEF item
  <2> QED
    BY <1>1, <1>3, <2>3, <2>4 DEF ChoiceInv
<1> QED
  BY <1>1, <1>2, <1>3 DEF Decoding

LEMMA ChoicePops ==
  ASSUME HeapInv, ChoiceInv, ChooseContentType
  PROVE  ChoiceInv' /\ TypeChosen
<1> USE DEF At, Goto
<1> DEFINE x == Queue!Top(queue)
<1>1. /\ phase = "accept" /\ todo = <<>> /\ queue.items # <<>>
      /\ popped' = Append(popped, x)
      /\ phase' = (IF MatchMimeType(x, Actual) THEN "matched" ELSE "accept")
      /\ UNCHANGED <<request, todo, decoded>>
  BY DEF ChooseContentType
<1>2. Kept(TypeValues, queue, decoded, popped)
  BY <1>1 DEF HeapInv
<1>3. x \in TypeValues /\ x \in ToSet(queue.items)
  BY <1>1, <1>2, TopRanksFirst
<1>4. x \in ToSet(decoded)
  BY <1>2, <1>3, SameValues
<1>5. popped \in Seq(TypeValues)
  BY <1>2 DEF Kept
<1>6. ToSet(popped') = ToSet(popped) \cup {x}
  <2>1. /\ DOMAIN popped = 1..Len(popped) /\ Len(popped) \in Nat
        /\ DOMAIN popped' = 1..(Len(popped) + 1) /\ popped'[Len(popped) + 1] = x
        /\ \A i \in DOMAIN popped : popped'[i] = popped[i]
    BY <1>1, <1>3, <1>5
  <2> QED
    BY <2>1 DEF ToSet
<1> HIDE DEF x
<1>7. CASE MatchMimeType(x, Actual)
  <2>1. phase' = "matched"
    BY <1>1, <1>7
  <2>2. Accepts(request.accept)
    BY <1>1, <1>4, <1>7 DEF ChoiceInv, Matches
  <2> QED
    BY <2>1, <2>2 DEF ChoiceInv, TypeChosen
<1>8. CASE ~MatchMimeType(x, Actual)
  <2>1. phase' = "accept"
    BY <1>1, <1>8
  <2>2. \A v \in ToSet(popped') : ~MatchMimeType(v, Actual)
    BY <1>1, <1>6, <1>8 DEF ChoiceInv
  <2>3. (Accepts(request.accept) <=> Matches \/ Awaited)'
    BY <1>1 DEF ChoiceInv, Matches, Awaited
  <2> QED
    BY <1>1, <2>1, <2>2, <2>3 DEF ChoiceInv, TypeChosen
<1> QED
  BY <1>7, <1>8

\* What the first of the queue says is what the client ranks first.
LEMMA BestIsFirst ==
  ASSUME Kept(EncodingValues, queue, decoded, <<>>), queue.items # <<>>
  PROVE  Queue!Top(queue) \in Best /\ Queue!Top(queue).coding # "none"
<1> DEFINE x == Queue!Top(queue)
<1>1. x \in EncodingValues /\ x \in ToSet(queue.items) /\ \A w \in ToSet(queue.items) : Rank(w) <= Rank(x)
  BY TopRanksFirst
<1>2. ToSet(decoded) = ToSet(queue.items)
  <2>1. ToSet(<<>>) = {}
    BY DEF ToSet
  <2>2. ToSet(decoded) = ToSet(queue.items) \cup ToSet(<<>>)
    BY SameValues
  <2> QED
    BY <2>1, <2>2
<1>3. \A w \in ToSet(decoded) : w \in EncodingValues
  <2>1. decoded \in Seq(EncodingValues)
    BY DEF Kept
  <2> QED
    BY <2>1, ElementOfSeq DEF ToSet
<1>4. \A w \in EncodingValues : Rank(w) = w.q
  BY DEF EncodingValues, Rank, TypeValue
<1>5. x.coding # "none"
  BY <1>1 DEF EncodingValues, Codings
<1> HIDE DEF x
<1>6. x \in Best
  BY <1>1, <1>2, <1>3, <1>4 DEF Best
<1> QED
  BY <1>5, <1>6 DEF x

LEMMA ContentCodingChosen ==
  ASSUME HeapInv, ChoiceInv, ChooseResponseContentEncoding
  PROVE  CodingChosen
<1> USE DEF At, Goto
<1> DEFINE lines == request.acceptEncoding
           x == Queue!Top(queue)
           excluded == {"unknown", "chunked"}
           chosen == IF phase' = "te" THEN coding' ELSE "none"
<1>1. phase = "accept encoding" /\ todo = <<>> /\ popped = <<>>
  BY DEF ChooseResponseContentEncoding, ChoiceInv
<1>2. Kept(EncodingValues, queue, decoded, <<>>) /\ Len(decoded) = Naming(Items(lines))
  <2>1. Kept(EncodingValues, queue, decoded, <<>>)
    BY <1>1 DEF HeapInv
  <2>2. decoded \in Seq(EncodingValues)
    BY <2>1 DEF Kept
  <2>3. Naming(todo) = 0
    BY <1>1, NamingNothing
  <2>4. Len(decoded) + Naming(todo) = Naming(Items(lines))
    BY <1>1 DEF ChoiceInv, Counted
  <2> QED
    BY <2>1, <2>2, <2>3, <2>4
<1>3. SUFFICES ASSUME lines # <<>> PROVE Honoured(lines, excluded, chosen)
  BY <1>1 DEF CodingChosen
<1>4. CASE queue.items = <<>>
  <2>1. decoded = <<>>
    BY <1>2, <1>4 DEF Kept
  <2>2. chosen = "none"
    BY <1>3, <1>4 DEF ChooseResponseContentEncoding, DecideContentEncoding, Send, Crashes
  <2> QED
    BY <1>2, <2>1, <2>2 DEF Honoured
<1>5. CASE queue.items # <<>>
  <2>1. x \in Best /\ x.coding # "none"
    BY <1>2, <1>5, BestIsFirst
  <2>2. CASE x.coding \in excluded
    <3>1. chosen = "none"
      BY <1>3, <1>5, <2>2 DEF ChooseResponseContentEncoding, DecideContentEncoding, Send, Crashes
    <3> HIDE DEF x, chosen, excluded
    <3> QED
      BY <1>2, <2>1, <2>2, <3>1 DEF Honoured
  <2>3. CASE x.coding \notin excluded
    <3>1. chosen = (IF x.coding = "*" THEN "identity" ELSE x.coding) /\ chosen # "none"
      BY <1>3, <1>5, <2>1, <2>3 DEF ChooseResponseContentEncoding, DecideContentEncoding
    <3> HIDE DEF x, chosen, excluded
    <3> QED
      BY <1>2, <2>1, <2>3, <3>1 DEF Honoured
  <2> QED
    BY <2>2, <2>3
<1> QED
  BY <1>4, <1>5

LEMMA TransferCodingChosen ==
  ASSUME HeapInv, ChoiceInv, ChooseResponseTransferCoding
  PROVE  CodingChosen
<1> USE DEF At, Goto
<1> DEFINE lines == request.te
           x == Queue!Top(queue)
           excluded == {"unknown"}
           chosen == IF phase' = "coding" THEN transfer' ELSE "none"
<1>1. phase = "te" /\ todo = <<>> /\ popped = <<>>
  BY DEF ChooseResponseTransferCoding, ChoiceInv
<1>2. Kept(EncodingValues, queue, decoded, <<>>) /\ Len(decoded) = Naming(Items(lines))
  <2>1. Kept(EncodingValues, queue, decoded, <<>>)
    BY <1>1 DEF HeapInv
  <2>2. decoded \in Seq(EncodingValues)
    BY <2>1 DEF Kept
  <2>3. Naming(todo) = 0
    BY <1>1, NamingNothing
  <2>4. Len(decoded) + Naming(todo) = Naming(Items(lines))
    BY <1>1 DEF ChoiceInv, Counted
  <2> QED
    BY <2>1, <2>2, <2>3, <2>4
<1>3. SUFFICES ASSUME lines # <<>> PROVE Honoured(lines, excluded, chosen)
  BY <1>1 DEF CodingChosen
<1>4. CASE queue.items = <<>>
  <2>1. decoded = <<>>
    BY <1>2, <1>4 DEF Kept
  <2>2. chosen = "none"
    BY <1>3, <1>4 DEF ChooseResponseTransferCoding, DecideTransferEncoding, Send, Crashes
  <2> QED
    BY <1>2, <2>1, <2>2 DEF Honoured
<1>5. CASE queue.items # <<>>
  <2>1. x \in Best /\ x.coding # "none"
    BY <1>2, <1>5, BestIsFirst
  <2>2. CASE x.coding \in excluded
    <3>1. chosen = "none"
      BY <1>3, <1>5, <2>2 DEF ChooseResponseTransferCoding, DecideTransferEncoding, Send, Crashes
    <3> HIDE DEF x, chosen, excluded
    <3> QED
      BY <1>2, <2>1, <2>2, <3>1 DEF Honoured
  <2>3. CASE x.coding \notin excluded
    <3>1. chosen = (IF x.coding = "*" THEN "identity" ELSE x.coding) /\ chosen # "none"
      BY <1>3, <1>5, <2>1, <2>3 DEF ChooseResponseTransferCoding, DecideTransferEncoding
    <3> HIDE DEF x, chosen, excluded
    <3> QED
      BY <1>2, <2>1, <2>3, <3>1 DEF Honoured
  <2> QED
    BY <2>2, <2>3
<1> QED
  BY <1>4, <1>5

\* A file is refused only when all that was asked for is popped.
LEMMA TypeRefused ==
  ASSUME HeapInv, ChoiceInv, RefuseType
  PROVE  TypeChosen
<1>1. phase = "accept" /\ todo = <<>> /\ queue.items = <<>> /\ phase' = "sending"
  BY DEF RefuseType, At, Goto
<1>2. ToSet(decoded) = ToSet(queue.items) \cup ToSet(popped)
  <2>1. Kept(TypeValues, queue, decoded, popped)
    BY <1>1 DEF HeapInv
  <2> QED
    BY <2>1, SameValues
<1>3. ToSet(queue.items) = {} /\ ~Awaited
  BY <1>1 DEF ToSet, Awaited
<1>4. ~Matches
  BY <1>1, <1>2, <1>3 DEF ChoiceInv, Matches
<1> QED
  BY <1>1, <1>3, <1>4 DEF ChoiceInv, TypeChosen

\* Nothing is chosen while the phase stays, or is another.
LEMMA NothingChosen ==
  ASSUME phase' = phase \/ phase \notin Decoding
  PROVE  CodingChosen /\ TypeChosen
  BY DEF CodingChosen, TypeChosen, At, Decoding

LEMMA ChoiceStep ==
  ASSUME HeapInv, ChoiceInv, [Next]_vars
  PROVE  ChoiceInv' /\ [CodingChosen]_vars /\ [TypeChosen]_vars
<1> USE DEF At, Goto
<1>0. request \in Requests
  BY DEF HeapInv
<1>1. CASE ReadHead
  <2>1. CodingChosen /\ TypeChosen
    BY <1>1, NothingChosen DEF ReadHead, Decoding
  <2>2. CASE phase' \notin Decoding
    BY <2>1, <2>2, ChoiceLeft
  <2>3. CASE phase' = "accept encoding" /\ StartDecoding(request.acceptEncoding) /\ UNCHANGED request
    <3>1. Counted(request.acceptEncoding)' /\ popped' = <<>>
      <4>1. Counted(request.acceptEncoding)' <=> Len(decoded') + Naming(todo') = Naming(Items(request.acceptEncoding))
        BY <2>3 DEF Counted
      <4>2. request.acceptEncoding \in Seq(Seq(EncodingItems))
        BY <1>0, HeaderTypes
      <4>3. Len(decoded') + Naming(todo') = Naming(Items(request.acceptEncoding)) /\ popped' = <<>>
        BY <2>3, <4>2, CodingStarted
      <4> QED
        BY <4>1, <4>3
    <3> QED
      BY <2>1, <2>3, <3>1 DEF ChoiceInv
  <2> QED
    BY <1>1, <2>2, <2>3 DEF ReadHead, Refuse, Send, Decoding
<1>2. CASE DecodeItem
  <2>1. phase' = phase
    BY <1>2 DEF DecodeItem
  <2> QED
    BY <1>2, <2>1, ChoiceDecodes, NothingChosen
<1>3. CASE ChooseResponseContentEncoding
  <2>1. CodingChosen /\ TypeChosen
    BY <1>3, ContentCodingChosen DEF ChooseResponseContentEncoding, TypeChosen
  <2>2. CASE phase' \notin Decoding
    BY <2>1, <2>2, ChoiceLeft
  <2>3. CASE phase' = "te" /\ StartDecoding(request.te) /\ UNCHANGED request
    <3>1. Counted(request.te)' /\ popped' = <<>>
      <4>1. Counted(request.te)' <=> Len(decoded') + Naming(todo') = Naming(Items(request.te))
        BY <2>3 DEF Counted
      <4>2. request.te \in Seq(Seq(EncodingItems))
        BY <1>0, HeaderTypes
      <4>3. Len(decoded') + Naming(todo') = Naming(Items(request.te)) /\ popped' = <<>>
        BY <2>3, <4>2, CodingStarted
      <4> QED
        BY <4>1, <4>3
    <3> QED
      BY <2>1, <2>3, <3>1 DEF ChoiceInv
  <2> QED
    BY <1>3, <2>2, <2>3 DEF ChooseResponseContentEncoding, Send, Decoding
<1>4. CASE ChooseResponseTransferCoding
  <2>1. phase' \notin Decoding /\ phase = "te"
    BY <1>4 DEF ChooseResponseTransferCoding, Send, Decoding
  <2> QED
    BY <1>4, <2>1, ChoiceLeft, TransferCodingChosen DEF TypeChosen
<1>5. CASE CheckRequest \/ TransferCodingFilter \/ EncodingFilter \/ InflateChunkStep
           \/ SendFile \/ SendData \/ SendEnds \/ SendFails
  <2>1. phase \notin Decoding /\ phase' \notin Decoding
    <3>1. CASE CheckRequest
      BY <3>1 DEF CheckRequest, Refuse, Send, Decoding
    <3>2. CASE TransferCodingFilter
      BY <3>2 DEF TransferCodingFilter, StartInflate, Refuse, Send, Decoding
    <3>3. CASE EncodingFilter
      BY <3>3 DEF EncodingFilter, StartInflate, Refuse, Send, Decoding
    <3>4. CASE InflateChunkStep
      BY <3>4 DEF InflateChunkStep, Refuse, Send, Decoding
    <3>5. CASE SendFile
      BY <3>5 DEF SendFile, Send, Decoding
    <3>6. CASE SendData \/ SendEnds \/ SendFails
      BY <3>6 DEF SendData, SendEnds, SendFails, Decoding
    <3> QED
      BY <1>5, <3>1, <3>2, <3>3, <3>4, <3>5, <3>6
  <2> QED
    BY <2>1, ChoiceLeft, NothingChosen
<1>6. CASE Handle
  <2>1. CodingChosen /\ TypeChosen
    BY <1>6, NothingChosen DEF Handle, Decoding
  <2>2. CASE phase' \notin Decoding
    BY <2>1, <2>2, ChoiceLeft
  <2>3. CASE phase' = "accept" /\ StartDecoding(request.accept) /\ UNCHANGED request
    <3>1. (Accepts(request.accept) <=> Matches \/ Awaited)' /\ popped' = <<>>
      BY <2>3, TypeStarted
    <3>2. ToSet(popped') = {}
      BY <3>1 DEF ToSet
    <3> QED
      BY <2>1, <2>3, <3>1, <3>2 DEF ChoiceInv
  <2> QED
    BY <1>6, <2>2, <2>3 DEF Handle, Send, Decoding
<1>7. CASE ChooseContentType
  <2>1. CodingChosen
    BY <1>7 DEF ChooseContentType, CodingChosen
  <2> QED
    BY <1>7, <2>1, ChoicePops
<1>8. CASE RefuseType
  <2>1. phase' \notin Decoding /\ CodingChosen
    BY <1>8 DEF RefuseType, Decoding, CodingChosen
  <2> QED
    BY <1>8, <2>1, ChoiceLeft, TypeRefused
<1>9. CASE UNCHANGED vars
  BY <1>9 DEF vars, choice, ChoiceInv, Counted, Matches, Awaited
<1> QED
  BY <1>1, <1>2, <1>3, <1>4, <1>5, <1>6, <1>7, <1>8, <1>9 DEF Next

(***************************************************************************)
(* The coding of a response is one its request ranks first, identity for a *)
(* wildcard, and none only if what it ranks first is not supported         *)
(* (chooseResponseContentEncoding, chooseResponseTransferCoding), if no    *)
(* header has more items than CC_MAX_ELEMENTS.                             *)
(***************************************************************************)
THEOREM FirstRankedCoding == HeadersFit => (Spec => CodingsHonoured)
<1> SUFFICES ASSUME HeadersFit PROVE Spec => CodingsHonoured
  OBVIOUS
<1>1. HeapInv /\ [Next]_vars => HeapInv'
  BY HeapStep
<1>2. HeapInv /\ ChoiceInv /\ [Next]_vars => ChoiceInv' /\ [CodingChosen]_vars
  BY ChoiceStep
<1> QED
  BY <1>1, <1>2, HeapInitially, ChoiceInitially, PTL DEF Spec, CodingsHonoured

(***************************************************************************)
(* A file is sent as what it is if and only if some type its request       *)
(* accepts matches (chooseContentType, decideContentType), if no header    *)
(* has more items than CC_MAX_ELEMENTS.                                    *)
(***************************************************************************)
THEOREM AcceptedTypeSent == HeadersFit => (Spec => TypeHonoured)
<1> SUFFICES ASSUME HeadersFit PROVE Spec => TypeHonoured
  OBVIOUS
<1>1. HeapInv /\ [Next]_vars => HeapInv'
  BY HeapStep
<1>2. HeapInv /\ ChoiceInv /\ [Next]_vars => ChoiceInv' /\ [TypeChosen]_vars
  BY ChoiceStep
<1> QED
  BY <1>1, <1>2, HeapInitially, ChoiceInitially, PTL DEF Spec, TypeHonoured

-----------------------------------------------------------------------------
(***************************************************************************)
(* Responses: the chunks a body is cut into, and what is left of a         *)
(* response when a part of it was sent.                                    *)
(***************************************************************************)
\* The chunks that hold n bytes, and what is left of the last.
LEMMA Multiples ==
  ASSUME NEW n \in Nat
  PROVE  LET count == (n + ChunkSize - 1) \div ChunkSize
         IN  /\ count \in Nat /\ Overrun(n) \in Nat
             /\ count * ChunkSize = n + Overrun(n)
             /\ n > 0 => count > 0
<1> DEFINE k == ChunkSize
           q == n \div k
           r == n % k
           c == (n + k - 1) \div k
           d == (n + k - 1) % k
<1>1. k \in Nat \ {0}
  BY ExchangeAssumption
<1>2. q \in Nat /\ r \in 0..(k - 1) /\ n = k * q + r
  BY <1>1, Division
<1>3. n + k - 1 \in Nat
  BY <1>1
<1>4. c \in Nat /\ d \in 0..(k - 1) /\ n + k - 1 = k * c + d
  BY <1>1, <1>3, Division
<1>5. Overrun(n) = (k - r) % k
  BY DEF Overrun
<1> HIDE DEF q, r, c, d, k
<1>6. CASE r = 0
  <2>1. k * c + d = k * q + (k - 1) /\ k - 1 \in 0..(k - 1)
    BY <1>1, <1>2, <1>4, <1>6
  <2>2. c = q
    BY <1>1, <1>2, <1>4, <2>1, QuotientUnique
  <2>3. Overrun(n) = k % k
    BY <1>1, <1>5, <1>6
  <2>4. k = k * (k \div k) + (k % k) /\ k \div k \in Nat /\ k % k \in 0..(k - 1) /\ k = k * 1 + 0
    BY <1>1, Division
  <2>5. k % k = 0
    <3> HIDE <1>5
    <3>1. 1 \in Nat /\ 0 \in 0..(k - 1) /\ k * (k \div k) + (k % k) = k * 1 + 0
      BY <1>1, <2>4
    <3> DEFINE a == k \div k
               b == k % k
    <3>2. a \in Nat /\ b \in 0..(k - 1) /\ k * a + b = k * 1 + 0
      BY <2>4, <3>1
    <3> HIDE DEF a, b
    <3>3. b = 0
      BY <1>1, <3>1, <3>2, QuotientUnique
    <3> QED
      BY <3>3 DEF b
  <2>6. c * k = k * q /\ n = k * q
    BY <1>1, <1>2, <1>6, <2>2
  <2>7. n > 0 => c > 0
    BY <1>1, <1>2, <1>6, <2>2
  <2> QED
    BY <1>1, <1>4, <2>3, <2>5, <2>6, <2>7 DEF c, k
<1>7. CASE r # 0
  <2>1. r - 1 \in 0..(k - 1) /\ k * q \in Nat /\ k * (q + 1) = k * q + k /\ q + 1 \in Nat
    BY <1>1, <1>2, <1>7
  <2>2. k * c + d = k * (q + 1) + (r - 1)
    BY <1>1, <1>2, <1>4, <2>1
  <2>3. c = q + 1
    BY <1>1, <1>4, <2>1, <2>2, QuotientUnique
  <2>4. k - r \in 0..(k - 1) /\ k - r \in Nat
    BY <1>1, <1>2, <1>7
  <2>5. (k - r) % k = k - r
    <3> DEFINE z == k - r
    <3>1. z \in 0..(k - 1)
      BY <2>4
    <3> HIDE DEF z
    <3>2. z % k = z
      BY <1>1, <3>1, OwnRemainder
    <3> QED
      BY <3>2 DEF z
  <2>6. c * k = k * q + k
    BY <1>1, <1>2, <2>1, <2>3
  <2>7. n + Overrun(n) = k * q + k /\ Overrun(n) \in Nat
    BY <1>1, <1>2, <1>5, <2>1, <2>4, <2>5
  <2> QED
    BY <1>4, <1>2, <2>3, <2>6, <2>7 DEF c, k
<1> QED
  BY <1>2, <1>6, <1>7

Units(ce, n) == {Size(k) : k \in Nat} \cup {Byte(ce, n, i) : i \in Nat}

LEMMA UnitKinds ==
  /\ \A k : Size(k).unit = "size" /\ Size(k).of = k /\ ~IsData(Size(k))
  /\ \A ce, n, i : IsData(Byte(ce, n, i)) /\ Byte(ce, n, i).unit # "size"
  BY DEF Size, Byte, IsData

LEMMA ChunkSent ==
  ASSUME NEW ce, NEW n \in Nat, NEW from \in Nat
  PROVE  LET s == SendChunk(ce, n, from)
         IN  /\ s \in Seq(Units(ce, n)) /\ Len(s) = ChunkSize + 1
             /\ s[1] = Size(ChunkSize)
             /\ \A i \in 1..ChunkSize : s[i + 1] = Byte(ce, n, from + i)
<1> DEFINE U == Units(ce, n)
           b == [i \in 1..ChunkSize |-> Byte(ce, n, from + i)]
           a == <<Size(ChunkSize)>>
<1>1. ChunkSize \in Nat
  BY ExchangeAssumption
<1>2. \A i \in 1..ChunkSize : Byte(ce, n, from + i) \in U
  <2>1. ASSUME NEW i \in 1..ChunkSize PROVE Byte(ce, n, from + i) \in U
    <3>1. from + i \in Nat
      BY <1>1
    <3> QED
      BY <3>1 DEF Units
  <2> QED
    BY <2>1
<1>3. b \in Seq(U) /\ Len(b) = ChunkSize
  BY <1>1, <1>2
<1>4. Size(ChunkSize) \in U
  BY <1>1 DEF Units
<1>5. a \in Seq(U) /\ Len(a) = 1 /\ a[1] = Size(ChunkSize)
  BY <1>4
<1>6. SendChunk(ce, n, from) = a \o b
  BY DEF SendChunk
<1> HIDE DEF U, a
<1>7. /\ a \o b \in Seq(U) /\ Len(a \o b) = 1 + ChunkSize
      /\ \A i \in 1..(1 + ChunkSize) : (a \o b)[i] = IF i <= 1 THEN a[i] ELSE b[i - 1]
  <2>1. /\ a \o b \in Seq(U) /\ Len(a \o b) = Len(a) + Len(b)
        /\ \A i \in 1..(Len(a) + Len(b)) : (a \o b)[i] = IF i <= Len(a) THEN a[i] ELSE b[i - Len(a)]
    <3> HIDE DEF b
    <3> QED
      BY <1>3, <1>5, ConcatProperties
  <2> QED
    BY <1>3, <1>5, <2>1
<1>8. (a \o b)[1] = Size(ChunkSize)
  BY <1>1, <1>5, <1>7
<1>9. \A i \in 1..ChunkSize : (a \o b)[i + 1] = Byte(ce, n, from + i)
  <2>1. ASSUME NEW i \in 1..ChunkSize PROVE (a \o b)[i + 1] = Byte(ce, n, from + i)
    <3>1. i + 1 \in 1..(1 + ChunkSize) /\ ~(i + 1 <= 1) /\ (i + 1) - 1 = i
      BY <1>1
    <3>2. (a \o b)[i + 1] = b[i]
      BY <1>7, <3>1
    <3> QED
      BY <3>2
  <2> QED
    BY <2>1
<1> QED
  BY <1>1, <1>6, <1>7, <1>8, <1>9 DEF U

LEMMA ChunksGrow ==
  ASSUME NEW ce, NEW n \in Nat
  PROVE  /\ Chunks(ce, n, 0) = <<>>
         /\ \A k \in Nat : /\ Chunks(ce, n, k) \in Seq(Units(ce, n))
                           /\ Chunks(ce, n, k + 1) = Chunks(ce, n, k) \o SendChunk(ce, n, k * ChunkSize)
<1> DEFINE S == Seq(Units(ce, n))
           step == [i \in Nat |-> [x \in S |-> x \o SendChunk(ce, n, i * ChunkSize)]]
           Is(f) == f = [i \in Nat |-> IF i = 0 THEN <<>>
                                       ELSE f[i - 1] \o SendChunk(ce, n, (i - 1) * ChunkSize)]
           d == CHOOSE f : Is(f)
<1>1. <<>> \in S /\ step \in [Nat -> [S -> S]]
  <2>1. ASSUME NEW i \in Nat, NEW x \in S PROVE x \o SendChunk(ce, n, i * ChunkSize) \in S
    <3>1. i * ChunkSize \in Nat
      BY ExchangeAssumption
    <3>2. SendChunk(ce, n, i * ChunkSize) \in S
      BY <3>1, ChunkSent
    <3> QED
      BY <3>2, ConcatProperties
  <2> QED
    BY <2>1
<1> HIDE DEF step, S
<1>2. PICK f : Recurses(f, S, <<>>, step)
  BY <1>1, Recursion
<1>3. f \in [Nat -> S] /\ f[0] = <<>> /\ \A i \in Nat : f[i + 1] = f[i] \o SendChunk(ce, n, i * ChunkSize)
  BY <1>2 DEF Recurses, step
<1>4. Is(f)
  <2>1. ASSUME NEW k \in Nat
        PROVE  f[k] = IF k = 0 THEN <<>> ELSE f[k - 1] \o SendChunk(ce, n, (k - 1) * ChunkSize)
    <3>1. CASE k = 0
      BY <1>3, <3>1
    <3>2. CASE k # 0
      <4>1. k - 1 \in Nat /\ (k - 1) + 1 = k
        BY <3>2
      <4> QED
        BY <1>3, <3>2, <4>1
    <3> QED
      BY <3>1, <3>2
  <2> QED
    BY <1>3, <2>1
<1>5. Is(d)
  <2> HIDE DEF Is
  <2> QED
    BY <1>4
<1>6. \A k \in Nat : Chunks(ce, n, k) = d[k]
  BY DEF Chunks
<1> HIDE DEF d
<1>7. d[0] = <<>> /\ \A k \in Nat : d[k + 1] = d[k] \o SendChunk(ce, n, k * ChunkSize)
  <2>1. \A k \in Nat : d[k] = IF k = 0 THEN <<>> ELSE d[k - 1] \o SendChunk(ce, n, (k - 1) * ChunkSize)
    BY <1>5
  <2>2. ASSUME NEW k \in Nat PROVE d[k + 1] = d[k] \o SendChunk(ce, n, k * ChunkSize)
    <3>1. k + 1 \in Nat /\ k + 1 # 0 /\ (k + 1) - 1 = k
      OBVIOUS
    <3>2. d[k + 1] = d[(k + 1) - 1] \o SendChunk(ce, n, ((k + 1) - 1) * ChunkSize)
      BY <2>1, <3>1
    <3> QED
      BY <3>1, <3>2
  <2> QED
    BY <2>1, <2>2
<1> DEFINE T == {k \in Nat : d[k] = f[k]}
<1>8. 0 \in T
  BY <1>3, <1>7
<1>9. ASSUME NEW k \in Nat, k \in T PROVE k + 1 \in T
  <2>1. k + 1 \in Nat /\ d[k] = f[k]
    BY <1>9
  <2>2. f[k + 1] = f[k] \o SendChunk(ce, n, k * ChunkSize) /\ d[k + 1] = d[k] \o SendChunk(ce, n, k * ChunkSize)
    BY <1>3, <1>7
  <2> QED
    BY <2>1, <2>2
<1> HIDE DEF T
<1>10. \A k \in Nat : k \in T
  BY <1>8, <1>9, Induction
<1>11. \A k \in Nat : d[k] \in S
  BY <1>3, <1>10 DEF T
<1>12. \A k \in Nat : Chunks(ce, n, k + 1) = Chunks(ce, n, k) \o SendChunk(ce, n, k * ChunkSize)
  <2>1. \A k \in Nat : Chunks(ce, n, k + 1) = d[k + 1]
    BY <1>6
  <2> QED
    BY <1>6, <1>7, <2>1
<1>13. Chunks(ce, n, 0) = <<>> /\ \A k \in Nat : Chunks(ce, n, k) \in S
  BY <1>6, <1>7, <1>11
<1> QED
  BY <1>12, <1>13 DEF S

\* The data of what is sent is made unit by unit.
LEMMA DataRecursion ==
  ASSUME NEW U, NEW s \in Seq(U)
  PROVE  \E f \in [0..Len(s) -> Seq(U)] :
            /\ Data(s) = f[Len(s)] /\ f[0] = <<>>
            /\ \A i \in 1..Len(s) : f[i] = IF IsData(s[i]) THEN Append(f[i - 1], s[i]) ELSE f[i - 1]
<1> DEFINE n == Len(s)
           step == [i \in Nat |-> [x \in Seq(U) |->
                       IF i + 1 \in 1..n /\ IsData(s[i + 1]) THEN Append(x, s[i + 1]) ELSE x]]
           Is(f) == f = [i \in 0..n |-> IF i = 0 THEN <<>>
                                        ELSE IF IsData(s[i]) THEN Append(f[i - 1], s[i]) ELSE f[i - 1]]
           d == CHOOSE f : Is(f)
<1>1. <<>> \in Seq(U) /\ step \in [Nat -> [Seq(U) -> Seq(U)]] /\ n \in Nat
  <2>1. ASSUME NEW i \in Nat, NEW x \in Seq(U)
        PROVE  (IF i + 1 \in 1..n /\ IsData(s[i + 1]) THEN Append(x, s[i + 1]) ELSE x) \in Seq(U)
    <3>1. i + 1 \in 1..n => s[i + 1] \in U
      OBVIOUS
    <3> QED
      BY <3>1, AppendProperties
  <2> QED
    BY <2>1
<1> HIDE DEF step
<1>2. PICK g : Recurses(g, Seq(U), <<>>, step)
  BY <1>1, Recursion
<1>3. /\ g \in [Nat -> Seq(U)] /\ g[0] = <<>>
      /\ \A i \in Nat : g[i + 1] = IF i + 1 \in 1..n /\ IsData(s[i + 1]) THEN Append(g[i], s[i + 1]) ELSE g[i]
  BY <1>2 DEF Recurses, step
<1> DEFINE f == [i \in 0..n |-> g[i]]
<1>4. f \in [0..n -> Seq(U)] /\ f[0] = <<>>
  BY <1>1, <1>3
<1>5. ASSUME NEW i \in 1..n
      PROVE  f[i] = IF IsData(s[i]) THEN Append(f[i - 1], s[i]) ELSE f[i - 1]
  <2>1. i - 1 \in Nat /\ (i - 1) + 1 = i /\ i - 1 \in 0..n /\ i \in 0..n
    BY <1>1
  <2>2. f[i] = g[i] /\ f[i - 1] = g[i - 1]
    BY <2>1
  <2>3. g[(i - 1) + 1] = IF (i - 1) + 1 \in 1..n /\ IsData(s[(i - 1) + 1])
                         THEN Append(g[i - 1], s[(i - 1) + 1]) ELSE g[i - 1]
    BY <1>3, <2>1
  <2>4. g[i] = IF IsData(s[i]) THEN Append(g[i - 1], s[i]) ELSE g[i - 1]
    BY <2>1, <2>3
  <2> QED
    BY <2>2, <2>4
<1> HIDE DEF f
<1>6. Is(f)
  <2>1. ASSUME NEW i \in 0..n
        PROVE  f[i] = IF i = 0 THEN <<>>
                      ELSE IF IsData(s[i]) THEN Append(f[i - 1], s[i]) ELSE f[i - 1]
    <3>1. CASE i = 0
      BY <1>4, <3>1
    <3>2. CASE i # 0
      <4>1. i \in 1..n
        BY <1>1, <3>2
      <4> QED
        BY <1>5, <3>2, <4>1
    <3> QED
      BY <3>1, <3>2
  <2> QED
    BY <1>4, <2>1
<1>7. Is(d)
  <2> HIDE DEF Is
  <2> QED
    BY <1>6
<1>8. Data(s) = d[n]
  BY DEF Data
<1> HIDE DEF d
<1>9. \A i \in 0..n : d[i] = IF i = 0 THEN <<>>
                             ELSE IF IsData(s[i]) THEN Append(d[i - 1], s[i]) ELSE d[i - 1]
  BY <1>7
<1> DEFINE T == {i \in Nat : i <= n => d[i] = f[i]}
<1>10. 0 \in T
  BY <1>1, <1>4, <1>9
<1>11. ASSUME NEW i \in Nat, i \in T PROVE i + 1 \in T
  <2> SUFFICES ASSUME i + 1 <= n PROVE d[i + 1] = f[i + 1]
    OBVIOUS
  <2>1. i + 1 \in 1..n /\ i + 1 \in 0..n /\ (i + 1) - 1 = i /\ i + 1 # 0 /\ d[i] = f[i]
    BY <1>1, <1>11
  <2>2. f[i + 1] = IF IsData(s[i + 1]) THEN Append(f[(i + 1) - 1], s[i + 1]) ELSE f[(i + 1) - 1]
    BY <1>5, <2>1
  <2>3. d[i + 1] = IF IsData(s[i + 1]) THEN Append(d[(i + 1) - 1], s[i + 1]) ELSE d[(i + 1) - 1]
    BY <1>9, <2>1
  <2> QED
    BY <2>1, <2>2, <2>3
<1> HIDE DEF T
<1>12. \A i \in Nat : i \in T
  BY <1>10, <1>11, Induction
<1>13. d[n] = f[n]
  BY <1>1, <1>12 DEF T
<1> QED
  BY <1>4, <1>5, <1>8, <1>13

LEMMA DataNone == Data(<<>>) = <<>>
<1>1. PICK f \in [0..0 -> Seq({})] : Data(<<>>) = f[0] /\ f[0] = <<>>
  <2> DEFINE s == <<>>
  <2>1. s \in Seq({}) /\ Len(s) = 0
    OBVIOUS
  <2> HIDE DEF s
  <2>2. \E f \in [0..Len(s) -> Seq({})] : Data(s) = f[Len(s)] /\ f[0] = <<>>
    BY <2>1, DataRecursion
  <2> QED
    BY <2>1, <2>2 DEF s
<1> QED
  BY <1>1

LEMMA DataAppend ==
  ASSUME NEW U, NEW s \in Seq(U), NEW u \in U
  PROVE  /\ Data(s) \in Seq(U)
         /\ Data(Append(s, u)) = IF IsData(u) THEN Append(Data(s), u) ELSE Data(s)
<1> DEFINE n == Len(s)
           t == Append(s, u)
<1>1. n \in Nat /\ t \in Seq(U) /\ Len(t) = n + 1 /\ t[n + 1] = u /\ \A i \in 1..n : t[i] = s[i]
  BY AppendProperties
<1> HIDE DEF n, t
<1>2. PICK f \in [0..n -> Seq(U)] :
            /\ Data(s) = f[n] /\ f[0] = <<>>
            /\ \A i \in 1..n : f[i] = IF IsData(s[i]) THEN Append(f[i - 1], s[i]) ELSE f[i - 1]
  BY DataRecursion DEF n
<1>3. PICK g \in [0..(n + 1) -> Seq(U)] :
            /\ Data(t) = g[n + 1] /\ g[0] = <<>>
            /\ \A i \in 1..(n + 1) : g[i] = IF IsData(t[i]) THEN Append(g[i - 1], t[i]) ELSE g[i - 1]
  <2>1. PICK g \in [0..Len(t) -> Seq(U)] :
            /\ Data(t) = g[Len(t)] /\ g[0] = <<>>
            /\ \A i \in 1..Len(t) : g[i] = IF IsData(t[i]) THEN Append(g[i - 1], t[i]) ELSE g[i - 1]
    <3>1. t \in Seq(U)
      BY <1>1
    <3> QED
      BY <3>1, DataRecursion
  <2> QED
    BY <1>1, <2>1
<1> DEFINE T == {i \in Nat : i <= n => f[i] = g[i]}
<1>4. 0 \in T
  BY <1>2, <1>3
<1>5. ASSUME NEW i \in Nat, i \in T PROVE i + 1 \in T
  <2> SUFFICES ASSUME i + 1 <= n PROVE f[i + 1] = g[i + 1]
    OBVIOUS
  <2>1. i + 1 \in 1..n /\ i + 1 \in 1..(n + 1) /\ (i + 1) - 1 = i /\ f[i] = g[i]
    <3>1. i \in T /\ i <= n /\ n \in Nat
      BY <1>1, <1>5
    <3>2. f[i] = g[i]
      BY <3>1
    <3> QED
      BY <3>1, <3>2
  <2>2. f[i + 1] = IF IsData(s[i + 1]) THEN Append(f[(i + 1) - 1], s[i + 1]) ELSE f[(i + 1) - 1]
    BY <1>2, <2>1
  <2>3. g[i + 1] = IF IsData(t[i + 1]) THEN Append(g[(i + 1) - 1], t[i + 1]) ELSE g[(i + 1) - 1]
    BY <1>3, <2>1
  <2>4. t[i + 1] = s[i + 1]
    BY <1>1, <2>1
  <2> QED
    BY <2>1, <2>2, <2>3, <2>4
<1> HIDE DEF T
<1>6. \A i \in Nat : i \in T
  BY <1>4, <1>5, Induction
<1>7. f[n] = g[n]
  BY <1>1, <1>6 DEF T
<1>8. n + 1 \in 1..(n + 1) /\ (n + 1) - 1 = n
  BY <1>1
<1>9. g[n + 1] = IF IsData(t[n + 1]) THEN Append(g[(n + 1) - 1], t[n + 1]) ELSE g[(n + 1) - 1]
  BY <1>3, <1>8
<1>10. g[n + 1] = IF IsData(u) THEN Append(g[n], u) ELSE g[n]
  BY <1>1, <1>8, <1>9
<1>11. n \in 0..n
  BY <1>1
<1>12. Data(s) \in Seq(U)
  BY <1>2, <1>11
<1> QED
  BY <1>2, <1>3, <1>7, <1>10, <1>12 DEF t

\* Bytes are data.
LEMMA DataOfBytes ==
  ASSUME NEW U, NEW s \in Seq(U), NEW b \in [Nat -> U], \A i \in Nat : IsData(b[i]), NEW n \in Nat,
         NEW t \in Seq(U), Len(t) = n, \A i \in 1..n : t[i] = b[i]
  PROVE  Data(s \o t) = Data(s) \o t
<1> DEFINE B(k) == [i \in 1..k |-> b[i]]
           T == {k \in Nat : Data(s \o B(k)) = Data(s) \o B(k)}
<1>1. ASSUME NEW k \in Nat PROVE B(k) \in Seq(U) /\ Len(B(k)) = k /\ \A i \in 1..k : B(k)[i] = b[i]
  OBVIOUS
<1>2. B(0) = <<>>
  <2>1. B(0) \in Seq(U) /\ Len(B(0)) = 0
    BY <1>1
  <2> HIDE DEF B
  <2> QED
    BY <2>1
<1>3. ASSUME NEW k \in Nat PROVE B(k + 1) = Append(B(k), b[k + 1])
  <2>1. /\ Append(B(k), b[k + 1]) \in Seq(U) /\ Len(Append(B(k), b[k + 1])) = k + 1
        /\ \A i \in 1..k : Append(B(k), b[k + 1])[i] = b[i]
        /\ Append(B(k), b[k + 1])[k + 1] = b[k + 1]
    <3>1. B(k) \in Seq(U) /\ Len(B(k)) = k /\ b[k + 1] \in U /\ \A i \in 1..k : B(k)[i] = b[i]
      BY <1>1
    <3> HIDE DEF B
    <3> QED
      BY <3>1, AppendProperties
  <2>2. B(k + 1) \in Seq(U) /\ Len(B(k + 1)) = k + 1 /\ \A i \in 1..(k + 1) : B(k + 1)[i] = b[i]
    BY <1>1
  <2>3. \A i \in 1..(k + 1) : B(k + 1)[i] = Append(B(k), b[k + 1])[i]
    <3>1. \A i \in 1..(k + 1) : i \in 1..k \/ i = k + 1
      OBVIOUS
    <3> HIDE DEF B
    <3> QED
      BY <2>1, <2>2, <3>1
  <2> HIDE DEF B
  <2> QED
    BY <2>1, <2>2, <2>3, SeqEqual
<1>4. Data(s) \in Seq(U)
  <2>1. b[0] \in U
    OBVIOUS
  <2> QED
    BY <2>1, DataAppend
<1> HIDE DEF B
<1>5. 0 \in T
  BY <1>2, <1>4, ConcatEmptySeq
<1>6. ASSUME NEW k \in Nat, k \in T PROVE k + 1 \in T
  <2>1. B(k) \in Seq(U) /\ b[k + 1] \in U /\ <<b[k + 1]>> \in Seq(U) /\ IsData(b[k + 1])
    BY <1>1
  <2>2. B(k + 1) = B(k) \o <<b[k + 1]>>
    <3>1. Append(B(k), b[k + 1]) = B(k) \o <<b[k + 1]>>
      BY <2>1, AppendIsConcat
    <3> QED
      BY <1>3, <3>1
  <2>3. s \o B(k + 1) = Append(s \o B(k), b[k + 1]) /\ s \o B(k) \in Seq(U)
    <3>1. s \o B(k) \in Seq(U)
      BY <2>1, ConcatProperties
    <3>2. Append(s \o B(k), b[k + 1]) = (s \o B(k)) \o <<b[k + 1]>>
      BY <2>1, <3>1, AppendIsConcat
    <3>3. B(k + 1) = B(k) \o <<b[k + 1]>>
      BY <2>2
    <3>4. (s \o B(k)) \o <<b[k + 1]>> = s \o (B(k) \o <<b[k + 1]>>)
      BY <2>1, ConcatAssociative
    <3> QED
      BY <3>1, <3>2, <3>3, <3>4
  <2>4. Data(s \o B(k + 1)) = Append(Data(s \o B(k)), b[k + 1])
    BY <2>1, <2>3, DataAppend
  <2>5. Data(s \o B(k)) = Data(s) \o B(k)
    BY <1>6
  <2>6. Append(Data(s) \o B(k), b[k + 1]) = Data(s) \o B(k + 1)
    <3>1. Data(s) \o B(k) \in Seq(U)
      BY <1>4, <2>1, ConcatProperties
    <3>2. Append(Data(s) \o B(k), b[k + 1]) = (Data(s) \o B(k)) \o <<b[k + 1]>>
      BY <2>1, <3>1, AppendIsConcat
    <3>3. B(k + 1) = B(k) \o <<b[k + 1]>>
      BY <2>2
    <3>4. (Data(s) \o B(k)) \o <<b[k + 1]>> = Data(s) \o (B(k) \o <<b[k + 1]>>)
      BY <1>4, <2>1, ConcatAssociative
    <3> QED
      BY <3>2, <3>3, <3>4
  <2> QED
    BY <2>4, <2>5, <2>6
<1> HIDE DEF T
<1>7. n \in T
  BY <1>5, <1>6, Induction
<1>8. t = B(n)
  <2>1. B(n) \in Seq(U) /\ Len(B(n)) = n /\ \A i \in 1..n : B(n)[i] = t[i]
    BY <1>1
  <2> QED
    BY <2>1, SeqEqual
<1> QED
  BY <1>7, <1>8 DEF T

\* The data of k chunks are the first k * ChunkSize bytes.
LEMMA DataOfChunks ==
  ASSUME NEW ce, NEW n \in Nat, NEW k \in Nat
  PROVE  Data(Chunks(ce, n, k)) = [i \in 1..(k * ChunkSize) |-> Byte(ce, n, i)]
<1> DEFINE U == Units(ce, n)
           B(m) == [i \in 1..m |-> Byte(ce, n, i)]
           D(j) == Data(Chunks(ce, n, j)) = B(j * ChunkSize)
           T == {j \in Nat : D(j)}
<1>1. ChunkSize \in Nat
  BY ExchangeAssumption
<1>2. 0 \in T
  <2>1. Chunks(ce, n, 0) = <<>> /\ 0 * ChunkSize = 0
    BY <1>1, ChunksGrow
  <2>2. B(0) = <<>>
    OBVIOUS
  <2> HIDE DEF B
  <2> QED
    BY <2>1, <2>2, DataNone
<1>3. ASSUME NEW j \in Nat, j \in T PROVE j + 1 \in T
  <2> DEFINE from == j * ChunkSize
             old == Chunks(ce, n, j)
             a == <<Size(ChunkSize)>>
             b == [i \in Nat |-> Byte(ce, n, from + i)]
             c == [i \in 1..ChunkSize |-> b[i]]
  <2>1. from \in Nat /\ (j + 1) * ChunkSize = from + ChunkSize
    BY <1>1
  <2>2. old \in Seq(U) /\ Size(ChunkSize) \in U
    BY <1>1, ChunksGrow DEF Units
  <2>3. b \in [Nat -> U] /\ \A i \in Nat : IsData(b[i])
    <3>1. ASSUME NEW i \in Nat PROVE Byte(ce, n, from + i) \in U /\ IsData(Byte(ce, n, from + i))
      <4>1. from + i \in Nat
        BY <2>1
      <4> QED
        BY <4>1, UnitKinds DEF Units
    <3> HIDE DEF U, from
    <3> QED
      BY <3>1
  <2>4. c = [i \in 1..ChunkSize |-> Byte(ce, n, from + i)]
    <3>1. \A i \in 1..ChunkSize : i \in Nat
      BY <1>1
    <3> HIDE DEF from
    <3> QED
      BY <3>1
  <2>5. Chunks(ce, n, j + 1) = old \o (a \o c)
    <3>1. SendChunk(ce, n, from) = a \o c
      <4>1. SendChunk(ce, n, from) = a \o [i \in 1..ChunkSize |-> Byte(ce, n, from + i)]
        BY DEF SendChunk
      <4> HIDE DEF a, c, from
      <4> QED
        BY <2>4, <4>1
    <3>2. Chunks(ce, n, j + 1) = old \o SendChunk(ce, n, from)
      BY ChunksGrow
    <3> HIDE DEF a, c, from, old
    <3> QED
      BY <3>1, <3>2
  <2>6. c \in Seq(U) /\ Len(c) = ChunkSize
    <3> HIDE DEF b, U
    <3> QED
      BY <1>1, <2>3
  <2> HIDE DEF b, U, from, old, B, D, T
  <2>7. a \in Seq(U) /\ old \o a = Append(old, Size(ChunkSize)) /\ old \o a \in Seq(U)
    <3>1. a \in Seq(U)
      BY <2>2
    <3>2. Append(old, Size(ChunkSize)) = old \o a
      BY <2>2, AppendIsConcat
    <3> HIDE DEF a
    <3>3. old \o a \in Seq(U)
      BY <2>2, <3>1, ConcatProperties
    <3> QED
      BY <3>1, <3>2, <3>3
  <2>8. Data(old \o a) = Data(old)
    <3>1. ~IsData(Size(ChunkSize))
      BY UnitKinds
    <3> HIDE DEF a
    <3> QED
      BY <2>2, <2>7, <3>1, DataAppend
  <2>9. old \o (a \o c) = (old \o a) \o c
    <3> HIDE DEF a, c
    <3>1. old \in Seq(U) /\ a \in Seq(U) /\ c \in Seq(U)
      BY <2>2, <2>6, <2>7
    <3> QED
      BY <3>1, ConcatAssociative
  <2>10. Data((old \o a) \o c) = Data(old \o a) \o c
    <3> DEFINE s == old \o a
    <3>1. s \in Seq(U) /\ ChunkSize \in Nat
      BY <1>1, <2>7
    <3>2. c \in Seq(U) /\ Len(c) = ChunkSize /\ \A i \in 1..ChunkSize : c[i] = b[i]
      BY <2>6
    <3>3. b \in [Nat -> U] /\ \A i \in Nat : IsData(b[i])
      BY <2>3
    <3> HIDE DEF s, c, a
    <3>4. Data(s \o c) = Data(s) \o c
      BY <3>1, <3>2, <3>3, DataOfBytes
    <3> QED
      BY <3>4 DEF s
  <2>11. Data(Chunks(ce, n, j + 1)) = B(from) \o c
    <3>1. D(j)
      BY <1>3 DEF T
    <3>2. Data(old) = B(from)
      BY <3>1 DEF old, from, D
    <3> HIDE DEF B, D, T, a, c
    <3> QED
      BY <2>5, <2>8, <2>9, <2>10, <3>2
  <2>12. B(from) \o c = B(from + ChunkSize)
    <3> DEFINE V == {Byte(ce, n, i) : i \in Nat}
               s == B(from)
               t == B(from + ChunkSize)
    <3>1. s \in Seq(V) /\ Len(s) = from /\ \A i \in 1..from : s[i] = Byte(ce, n, i)
      BY <2>1 DEF B
    <3>2. c \in Seq(V) /\ Len(c) = ChunkSize /\ \A i \in 1..ChunkSize : c[i] = Byte(ce, n, from + i)
      <4>1. \A i \in 1..ChunkSize : Byte(ce, n, from + i) \in V
        <5>1. \A i \in 1..ChunkSize : from + i \in Nat
          BY <1>1, <2>1
        <5> QED
          BY <5>1
      <4> HIDE DEF V
      <4> QED
        BY <1>1, <2>4, <4>1
    <3>3. t \in Seq(V) /\ Len(t) = from + ChunkSize /\ \A i \in 1..(from + ChunkSize) : t[i] = Byte(ce, n, i)
      <4>1. from + ChunkSize \in Nat
        BY <1>1, <2>1
      <4> QED
        BY <4>1 DEF B
    <3> HIDE DEF V, s, t, c
    <3>4. /\ s \o c \in Seq(V) /\ Len(s \o c) = from + ChunkSize
          /\ \A i \in 1..(from + ChunkSize) : (s \o c)[i] = IF i <= from THEN s[i] ELSE c[i - from]
      BY <3>1, <3>2, ConcatProperties
    <3>5. ASSUME NEW i \in 1..(from + ChunkSize) PROVE (s \o c)[i] = t[i]
      <4>1. CASE i <= from
        <5>1. i \in 1..from
          BY <4>1
        <5> QED
          BY <3>1, <3>3, <3>4, <4>1, <5>1
      <4>2. CASE ~(i <= from)
        <5>1. i - from \in 1..ChunkSize /\ from + (i - from) = i
          BY <1>1, <2>1, <4>2
        <5>2. c[i - from] = Byte(ce, n, from + (i - from))
          BY <3>2, <5>1
        <5> QED
          BY <3>3, <3>4, <4>2, <5>1, <5>2
      <4> QED
        BY <4>1, <4>2
    <3>6. s \o c = t
      BY <3>3, <3>4, <3>5, SeqEqual
    <3> QED
      BY <3>6 DEF s, t
  <2>13. D(j + 1)
    <3> HIDE DEF c
    <3> QED
      BY <2>1, <2>11, <2>12 DEF D
  <2> QED
    BY <2>13 DEF T
<1> HIDE DEF T
<1>4. k \in T
  BY <1>2, <1>3, Induction
<1> QED
  BY <1>4 DEF T

\* Each line of a chunk is followed by as many bytes as it says, and by the next line or the end.
Cut(units) ==
  /\ units # <<>> => units[1].unit = "size"
  /\ \A i \in 1..Len(units) : units[i].unit = "size" =>
        /\ units[i].of = ChunkSize /\ i + ChunkSize <= Len(units)
        /\ i + ChunkSize + 1 <= Len(units) => units[i + ChunkSize + 1].unit = "size"
        /\ \A j \in (i + 1)..(i + ChunkSize) : units[j].unit # "size"

LEMMA ChunksCut ==
  ASSUME NEW ce, NEW n \in Nat, NEW k \in Nat
  PROVE  /\ Cut(Chunks(ce, n, k)) /\ Chunks(ce, n, k) \in Seq(Units(ce, n))
         /\ k > 0 => Chunks(ce, n, k) # <<>>
<1> DEFINE U == Units(ce, n)
           P(j) == Cut(Chunks(ce, n, j)) /\ (j > 0 => Chunks(ce, n, j) # <<>>)
           T == {j \in Nat : P(j)}
<1>1. ChunkSize \in Nat \ {0}
  BY ExchangeAssumption
<1>2. 0 \in T
  <2>1. Chunks(ce, n, 0) = <<>>
    BY ChunksGrow
  <2> QED
    BY <2>1 DEF Cut
<1>3. ASSUME NEW j \in Nat, j \in T PROVE j + 1 \in T
  <2> DEFINE s == Chunks(ce, n, j)
             t == SendChunk(ce, n, j * ChunkSize)
             m == Len(s)
  <2>1. j * ChunkSize \in Nat
    BY <1>1
  <2>2. /\ t \in Seq(U) /\ Len(t) = ChunkSize + 1 /\ t[1].unit = "size" /\ t[1].of = ChunkSize
        /\ \A i \in 1..ChunkSize : t[i + 1].unit # "size"
    <3>1. /\ t \in Seq(U) /\ Len(t) = ChunkSize + 1 /\ t[1] = Size(ChunkSize)
          /\ \A i \in 1..ChunkSize : t[i + 1] = Byte(ce, n, j * ChunkSize + i)
      BY <2>1, ChunkSent
    <3> HIDE DEF t, U, T, P
    <3>2. t[1].unit = "size" /\ t[1].of = ChunkSize
      BY <3>1, UnitKinds
    <3>3. \A i \in 1..ChunkSize : t[i + 1].unit # "size"
      BY <3>1, UnitKinds
    <3> QED
      BY <3>1, <3>2, <3>3
  <2>3. s \in Seq(U) /\ Cut(s) /\ Chunks(ce, n, j + 1) = s \o t
    BY <1>3, ChunksGrow
  <2>4. m \in Nat
    BY <2>3
  <2> HIDE DEF s, t, U, T, P
  <2>5. /\ s \o t \in Seq(U) /\ Len(s \o t) = m + ChunkSize + 1
        /\ \A i \in 1..(m + ChunkSize + 1) : (s \o t)[i] = IF i <= m THEN s[i] ELSE t[i - m]
    <3>1. /\ s \o t \in Seq(U) /\ Len(s \o t) = Len(s) + Len(t)
          /\ \A i \in 1..(Len(s) + Len(t)) : (s \o t)[i] = IF i <= Len(s) THEN s[i] ELSE t[i - Len(s)]
      BY <2>2, <2>3, ConcatProperties
    <3>2. Len(s) + Len(t) = m + ChunkSize + 1
      BY <1>1, <2>2, <2>4
    <3> QED
      BY <3>1, <3>2
  <2> DEFINE w == s \o t
  <2>6. \A i \in 1..m : w[i] = s[i]
    BY <1>1, <2>4, <2>5
  <2>7. w[m + 1] = t[1]
    BY <1>1, <2>4, <2>5
  <2>8. \A d \in 1..ChunkSize : w[m + 1 + d].unit # "size"
    <3>1. ASSUME NEW d \in 1..ChunkSize PROVE w[m + 1 + d] = t[d + 1]
      <4>1. m + 1 + d \in 1..(m + ChunkSize + 1) /\ ~(m + 1 + d <= m) /\ (m + 1 + d) - m = d + 1
        BY <1>1, <2>4
      <4> QED
        BY <2>5, <4>1
    <3> QED
      BY <2>2, <3>1
  <2> HIDE DEF w, m
  <2>9. w # <<>> /\ w[1].unit = "size"
    <3>1. CASE m = 0
      BY <1>1, <2>2, <2>4, <2>5, <2>7, <3>1 DEF w
    <3>2. CASE m # 0
      <4>1. 1 \in 1..m /\ s # <<>>
        BY <2>3, <2>4, <3>2 DEF m
      <4>2. s[1].unit = "size"
        BY <2>3, <4>1 DEF Cut
      <4>3. w # <<>>
        BY <1>1, <2>4, <2>5 DEF w
      <4> QED
        BY <2>6, <4>1, <4>2, <4>3
    <3> QED
      BY <3>1, <3>2
  <2>10. ASSUME NEW i \in 1..(m + ChunkSize + 1), w[i].unit = "size"
         PROVE  /\ w[i].of = ChunkSize /\ i + ChunkSize <= m + ChunkSize + 1
                /\ i + ChunkSize + 1 <= m + ChunkSize + 1 => w[i + ChunkSize + 1].unit = "size"
                /\ \A d \in (i + 1)..(i + ChunkSize) : w[d].unit # "size"
    <3>1. CASE i \in 1..m
      <4>1. /\ s[i].unit = "size" /\ s[i].of = ChunkSize /\ i + ChunkSize <= m
            /\ i + ChunkSize + 1 <= m => s[i + ChunkSize + 1].unit = "size"
            /\ \A d \in (i + 1)..(i + ChunkSize) : s[d].unit # "size"
        BY <2>3, <2>6, <2>10, <3>1 DEF Cut, m
      <4>2. i + ChunkSize + 1 <= m + ChunkSize + 1 => w[i + ChunkSize + 1].unit = "size"
        <5>1. CASE i + ChunkSize + 1 <= m
          <6>1. i + ChunkSize + 1 \in 1..m
            BY <1>1, <2>4, <5>1
          <6> QED
            BY <2>6, <4>1, <5>1, <6>1
        <5>2. CASE ~(i + ChunkSize + 1 <= m)
          <6>1. i + ChunkSize + 1 = m + 1
            BY <1>1, <2>4, <4>1, <5>2
          <6> QED
            BY <2>2, <2>7, <6>1
        <5> QED
          BY <5>1, <5>2
      <4>3. ASSUME NEW d \in (i + 1)..(i + ChunkSize) PROVE w[d].unit # "size"
        <5>1. d \in 1..m
          BY <1>1, <2>4, <4>1
        <5> QED
          BY <2>6, <4>1, <5>1
      <4> QED
        BY <1>1, <2>4, <2>6, <3>1, <4>1, <4>2, <4>3
    <3>2. CASE i = m + 1
      <4>1. ASSUME NEW d \in (i + 1)..(i + ChunkSize) PROVE w[d].unit # "size"
        <5>1. d - (m + 1) \in 1..ChunkSize /\ m + 1 + (d - (m + 1)) = d
          BY <1>1, <2>4, <3>2
        <5> QED
          BY <2>8, <5>1
      <4> QED
        BY <1>1, <2>2, <2>4, <2>7, <3>2, <4>1
    <3>3. CASE i > m + 1
      <4>1. i - (m + 1) \in 1..ChunkSize /\ m + 1 + (i - (m + 1)) = i
        BY <1>1, <2>4, <3>3
      <4> QED
        BY <2>8, <2>10, <4>1
    <3> QED
      BY <2>4, <3>1, <3>2, <3>3
  <2>11. Cut(w)
    <3>1. Len(w) = m + ChunkSize + 1
      BY <2>5 DEF w
    <3> QED
      BY <2>9, <2>10, <3>1 DEF Cut
  <2>12. P(j + 1)
    BY <2>3, <2>9, <2>11 DEF P, w
  <2> QED
    BY <2>12 DEF T
<1> HIDE DEF T, P
<1>4. k \in T
  BY <1>2, <1>3, Induction
<1> QED
  BY <1>4, ChunksGrow DEF T, P

LEMMA ChunkedBody ==
  ASSUME NEW ce, NEW n \in Nat, n > 0
  PROVE  LET s == SendBodyChunks(ce, n)
         IN  /\ s \in Seq(Units(ce, n)) /\ WellChunked(s)
             /\ Data(s) = [i \in 1..(n + Overrun(n)) |-> Byte(ce, n, i)]
<1> DEFINE U == Units(ce, n)
           count == (n + ChunkSize - 1) \div ChunkSize
           s == Chunks(ce, n, count)
           z == Size(0)
           m == Len(s)
           w == Append(s, z)
<1>1. ChunkSize \in Nat \ {0}
  BY ExchangeAssumption
<1>2. count \in Nat /\ count > 0 /\ count * ChunkSize = n + Overrun(n)
  BY Multiples
<1> HIDE DEF count
<1>3. s \in Seq(U) /\ Cut(s) /\ s # <<>> /\ Data(s) = [i \in 1..(n + Overrun(n)) |-> Byte(ce, n, i)]
  <2>1. s \in Seq(U) /\ Cut(s) /\ s # <<>>
    BY <1>2, ChunksCut
  <2>2. Data(s) = [i \in 1..(count * ChunkSize) |-> Byte(ce, n, i)]
    BY <1>2, DataOfChunks
  <2> QED
    BY <1>2, <2>1, <2>2
<1>4. z \in U /\ z.unit = "size" /\ z.of = 0 /\ ~IsData(z)
  BY UnitKinds DEF Units
<1>5. SendBodyChunks(ce, n) = s \o <<z>>
  BY DEF SendBodyChunks, count
<1> HIDE DEF s, z, U
<1>6. s \o <<z>> = w
  BY <1>3, <1>4, AppendIsConcat
<1>7. w \in Seq(U) /\ Len(w) = m + 1 /\ w[m + 1] = z /\ \A i \in 1..m : w[i] = s[i]
  BY <1>3, <1>4, AppendProperties
<1>8. Data(w) = Data(s)
  BY <1>3, <1>4, DataAppend
<1>9. m \in Nat \ {0}
  BY <1>3
<1> HIDE DEF w, m
<1>10. WellChunked(w)
  <2> DEFINE lines == {i \in DOMAIN w : w[i].unit = "size"}
  <2>1. DOMAIN w = 1..(m + 1)
    BY <1>7, <1>9
  <2>2. 1 \in lines /\ m + 1 \in lines /\ w[m + 1].of = 0
    <3>1. s[1].unit = "size" /\ 1 \in 1..m
      BY <1>3, <1>9 DEF Cut
    <3> QED
      BY <1>4, <1>7, <1>9, <2>1, <3>1
  <2>3. ASSUME NEW i \in lines, i # m + 1
        PROVE  /\ w[i].of > 0 /\ i + w[i].of + 1 \in lines
               /\ \A j \in (i + 1)..(i + w[i].of) : j \notin lines
    <3>1. i \in 1..m /\ s[i].unit = "size" /\ w[i] = s[i]
      BY <1>7, <1>9, <2>1, <2>3
    <3>2. /\ s[i].of = ChunkSize /\ i + ChunkSize <= m
          /\ i + ChunkSize + 1 <= m => s[i + ChunkSize + 1].unit = "size"
          /\ \A j \in (i + 1)..(i + ChunkSize) : s[j].unit # "size"
      BY <1>3, <3>1 DEF Cut, m
    <3>3. i + ChunkSize + 1 \in lines
      <4>1. CASE i + ChunkSize + 1 <= m
        <5>1. i + ChunkSize + 1 \in 1..m /\ i + ChunkSize + 1 \in 1..(m + 1)
          BY <1>1, <1>9, <3>1, <4>1
        <5> QED
          BY <1>7, <2>1, <3>2, <4>1, <5>1
      <4>2. CASE ~(i + ChunkSize + 1 <= m)
        <5>1. i + ChunkSize + 1 = m + 1
          BY <1>1, <1>9, <3>1, <3>2, <4>2
        <5> QED
          BY <2>2, <5>1
      <4> QED
        BY <4>1, <4>2
    <3>4. ASSUME NEW j \in (i + 1)..(i + ChunkSize) PROVE j \notin lines
      <4>1. j \in 1..m
        BY <1>1, <1>9, <3>1, <3>2
      <4> QED
        BY <1>7, <3>2, <4>1
    <3> HIDE DEF lines
    <3> QED
      BY <1>1, <3>1, <3>2, <3>3, <3>4
  <2> HIDE DEF lines
  <2>4. LET l == lines
        IN  /\ 1 \in l /\ Len(w) \in l
            /\ w[Len(w)].of = 0
            /\ \A i \in l \ {Len(w)} :
                  /\ w[i].of > 0
                  /\ i + w[i].of + 1 \in l
                  /\ \A j \in (i + 1)..(i + w[i].of) : j \notin l
    BY <1>7, <2>2, <2>3
  <2> QED
    BY <2>4 DEF WellChunked, lines
<1> QED
  BY <1>3, <1>5, <1>6, <1>7, <1>8, <1>10 DEF U

\* What follows the head of a response of m bytes.
Body(ce, te, m, filled) ==
  IF ~filled THEN <<>> ELSE IF te = "chunked" THEN SendBodyChunks(ce, m) ELSE [i \in 1..m |-> Byte(ce, m, i)]

Bytes(ce, n, k) == [i \in 1..k |-> Byte(ce, n, i)]

LEMMA BytesAreData ==
  ASSUME NEW ce, NEW n \in Nat, NEW k \in Nat
  PROVE  /\ Bytes(ce, n, k) \in Seq(Units(ce, n)) /\ Len(Bytes(ce, n, k)) = k
         /\ \A i \in 1..k : Bytes(ce, n, k)[i] = Byte(ce, n, i)
         /\ Data(Bytes(ce, n, k)) = Bytes(ce, n, k)
<1> DEFINE U == Units(ce, n)
           b == [i \in Nat |-> Byte(ce, n, i)]
           t == Bytes(ce, n, k)
<1>1. b \in [Nat -> U] /\ \A i \in Nat : IsData(b[i])
  <2>1. \A i \in Nat : Byte(ce, n, i) \in U /\ IsData(Byte(ce, n, i))
    BY UnitKinds DEF Units
  <2> HIDE DEF U
  <2> QED
    BY <2>1
<1>2. t = [i \in 1..k |-> b[i]]
  BY DEF Bytes
<1> HIDE DEF U, b, t
<1>3. t \in Seq(U) /\ Len(t) = k /\ \A i \in 1..k : t[i] = b[i]
  BY <1>1, <1>2
<1>4. <<>> \in Seq(U)
  OBVIOUS
<1>5. Data(<<>> \o t) = Data(<<>>) \o t
  BY <1>1, <1>3, <1>4, DataOfBytes
<1>6. <<>> \o t = t
  BY <1>3, ConcatEmptySeq
<1>7. \A i \in 1..k : t[i] = Byte(ce, n, i)
  BY DEF t, Bytes
<1>8. Data(t) = t
  BY <1>5, <1>6, DataNone
<1> QED
  BY <1>3, <1>7, <1>8 DEF U, t

\* The first n of k bytes.
LEMMA FirstBytes ==
  ASSUME NEW ce, NEW n \in Nat, NEW k \in Nat, n <= k
  PROVE  SubSeq(Bytes(ce, n, k), 1, n) = Bytes(ce, n, n)
<1> DEFINE s == Bytes(ce, n, k)
           t == SubSeq(s, 1, n)
           u == Bytes(ce, n, n)
           U == Units(ce, n)
<1>1. s \in Seq(U) /\ Len(s) = k /\ \A i \in 1..k : s[i] = Byte(ce, n, i)
  BY BytesAreData
<1>2. u \in Seq(U) /\ Len(u) = n /\ \A i \in 1..n : u[i] = Byte(ce, n, i)
  BY BytesAreData
<1> HIDE DEF s, u, U
<1>3. \A i \in 1..n : s[i] \in U
  <2>1. \A i \in 1..n : i \in 1..Len(s)
    BY <1>1
  <2> QED
    BY <1>1, <2>1, ElementOfSeq
<1>4. t \in Seq(U) /\ Len(t) = n /\ \A i \in 1..n : t[i] = s[i]
  <2>1. 1 \in Int /\ n \in Int
    OBVIOUS
  <2>2. /\ t \in Seq(U) /\ Len(t) = IF 1 <= n THEN n - 1 + 1 ELSE 0
        /\ \A i \in 1..(n - 1 + 1) : t[i] = s[1 + i - 1]
    BY <1>3, <2>1, SubSeqProperties
  <2>3. (IF 1 <= n THEN n - 1 + 1 ELSE 0) = n /\ n - 1 + 1 = n
    OBVIOUS
  <2>4. \A i \in 1..n : 1 + i - 1 = i
    OBVIOUS
  <2> HIDE DEF t
  <2> QED
    BY <2>2, <2>3, <2>4
<1> HIDE DEF t
<1>5. \A i \in 1..n : t[i] = u[i]
  <2>1. \A i \in 1..n : i \in 1..k
    OBVIOUS
  <2> QED
    BY <1>1, <1>2, <1>4, <2>1
<1>6. t = u
  BY <1>2, <1>4, <1>5, SeqEqual
<1> QED
  BY <1>6 DEF t, s, u

LEMMA BodyData ==
  ASSUME NEW ce, NEW te, NEW m \in Nat, NEW filled \in BOOLEAN, filled /\ te = "chunked" => m > 0
  PROVE  LET rest == Body(ce, te, m, filled)
             data == Data(rest)
             n    == IF filled THEN m ELSE 0
         IN  /\ rest \in Seq(Units(ce, m))
             /\ SubSeq(data, 1, n) = Bytes(ce, n, n)
             /\ IF te = "chunked"
                THEN IF filled THEN WellChunked(rest) /\ Len(data) = n + Overrun(n) ELSE rest = <<>>
                ELSE rest = data /\ Len(data) = n
<1> DEFINE rest == Body(ce, te, m, filled)
<1>1. CASE ~filled
  <2>1. rest = <<>> /\ Data(rest) = <<>>
    BY <1>1, DataNone DEF Body
  <2>2. SubSeq(<<>>, 1, 0) = <<>>
    BY SubSeqEmpty
  <2>3. Bytes(ce, 0, 0) = <<>>
    BY DEF Bytes
  <2>4. <<>> \in Seq(Units(ce, m)) /\ Len(<<>>) = 0
    OBVIOUS
  <2> HIDE DEF rest
  <2>5. rest \in Seq(Units(ce, m)) /\ SubSeq(Data(rest), 1, 0) = Bytes(ce, 0, 0) /\ Len(Data(rest)) = 0
    BY <2>1, <2>2, <2>3, <2>4
  <2> QED
    BY <1>1, <2>1, <2>5 DEF rest
<1>2. CASE filled /\ te = "chunked"
  <2>1. rest = SendBodyChunks(ce, m) /\ m > 0
    BY <1>2 DEF Body
  <2>2. m + Overrun(m) \in Nat /\ m <= m + Overrun(m)
    <3>1. Overrun(m) \in Nat
      BY Multiples
    <3> QED
      BY <3>1
  <2>3. rest \in Seq(Units(ce, m)) /\ WellChunked(rest) /\ Data(rest) = Bytes(ce, m, m + Overrun(m))
    BY <2>1, ChunkedBody DEF Bytes
  <2>4. Len(Data(rest)) = m + Overrun(m) /\ SubSeq(Data(rest), 1, m) = Bytes(ce, m, m)
    <3> DEFINE over == m + Overrun(m)
    <3> HIDE DEF over, rest
    <3>1. over \in Nat /\ m <= over /\ Data(rest) = Bytes(ce, m, over)
      BY <2>2, <2>3 DEF over
    <3>2. Len(Bytes(ce, m, over)) = over /\ SubSeq(Bytes(ce, m, over), 1, m) = Bytes(ce, m, m)
      BY <3>1, BytesAreData, FirstBytes
    <3>3. Len(Data(rest)) = over /\ SubSeq(Data(rest), 1, m) = Bytes(ce, m, m)
      BY <3>1, <3>2
    <3> QED
      BY <3>3 DEF over
  <2> HIDE DEF rest
  <2> QED
    BY <1>2, <2>3, <2>4 DEF rest
<1>3. CASE filled /\ te # "chunked"
  <2>1. rest = Bytes(ce, m, m)
    BY <1>3 DEF Body, Bytes
  <2>2. rest \in Seq(Units(ce, m)) /\ Len(rest) = m /\ Data(rest) = rest
    BY <2>1, BytesAreData
  <2>3. SubSeq(rest, 1, m) = Bytes(ce, m, m)
    BY <2>1, FirstBytes
  <2> HIDE DEF rest
  <2> QED
    BY <1>3, <2>2, <2>3 DEF rest
<1> QED
  BY <1>1, <1>2, <1>3

CodedLength(ce, n, filled) == IF filled THEN Coded(ce, n) ELSE n

LEMMA ResponseParts ==
  ASSUME NEW code, NEW ce, NEW te, NEW n, NEW filled
  PROVE  LET m == CodedLength(ce, n, filled)
         IN  Response(code, ce, te, n, filled) = <<Headers(code, m, ce, te)>> \o Body(ce, te, m, filled)
  BY DEF Response, CodedLength, Body

\* The headers that frame a body: those of Headers, or these with a length before the last.
HeadOf(h, a, ce, te) ==
  LET m == CodedLength(ce, a.length, a.filled)
  IN  /\ h.code = a.code /\ h.transfer = te
      /\ h.coding = IF m > 0 /\ ce # "identity" THEN ce ELSE "identity"
      /\ te # "chunked" => h.length[Len(h.length)] = m
      /\ te # "chunked" /\ ~a.filled => h.length = <<m>>

\* A response that has a body has something to send, or no coding.
Answer(a, ce, te) ==
  /\ a.length \in Nat /\ a.filled \in BOOLEAN
  /\ a.filled => a.length > 0 \/ (ce = "identity" /\ te # "chunked")

LEMMA CodedLengthType ==
  ASSUME NEW a, NEW ce, NEW te, Answer(a, ce, te)
  PROVE  LET m == CodedLength(ce, a.length, a.filled)
         IN  m \in Nat /\ (a.filled => m > 0 \/ (ce = "identity" /\ te # "chunked"))
  BY DEF Answer, CodedLength, Coded, Compressed

LEMMA HeadThenRest ==
  ASSUME NEW V, NEW h \in V, NEW b \in Seq(V)
  PROVE  LET s == <<h>> \o b
         IN  /\ s \in Seq(V) /\ s # <<>> /\ Len(s) = Len(b) + 1
             /\ s[1] = h /\ \A i \in 1..Len(b) : s[i + 1] = b[i]
             /\ Tail(s) = b
<1> DEFINE s == <<h>> \o b
<1>1. <<h>> \in Seq(V) /\ Len(<<h>>) = 1 /\ <<h>>[1] = h
  OBVIOUS
<1>2. /\ s \in Seq(V) /\ Len(s) = 1 + Len(b)
      /\ \A i \in 1..(1 + Len(b)) : s[i] = IF i <= 1 THEN <<h>>[i] ELSE b[i - 1]
  BY <1>1, ConcatProperties
<1>3. Len(b) \in Nat
  OBVIOUS
<1> HIDE DEF s
<1>4. ASSUME NEW i \in 1..Len(b) PROVE s[i + 1] = b[i]
  <2>1. i + 1 \in 1..(1 + Len(b)) /\ ~(i + 1 <= 1) /\ (i + 1) - 1 = i
    BY <1>3
  <2> QED
    BY <1>2, <2>1
<1>5. s[1] = h
  <2>1. 1 \in 1..(1 + Len(b))
    BY <1>3
  <2> QED
    BY <1>1, <1>2, <2>1
<1>6. s # <<>> /\ Len(s) = Len(b) + 1
  BY <1>2, <1>3
<1>7. Tail(s) = b
  <2>1. Tail(s) \in Seq(V) /\ Len(Tail(s)) = Len(b) /\ \A i \in 1..Len(b) : Tail(s)[i] = b[i]
    BY <1>2, <1>3, <1>4, <1>6, HeadTailProperties
  <2> QED
    BY <2>1, SeqEqual
<1> QED
  BY <1>2, <1>4, <1>5, <1>6, <1>7 DEF s

LEMMA Framing ==
  ASSUME NEW a, NEW te, Answer(a, coding, te), NEW h, HeadOf(h, a, coding, te)
  PROVE  LET m == CodedLength(coding, a.length, a.filled)
         IN  FramedAs(a, <<h>> \o Body(coding, te, m, a.filled))
<1> DEFINE m == CodedLength(coding, a.length, a.filled)
           b == Body(coding, te, m, a.filled)
           U == Units(coding, m)
           V == U \cup {h}
           s == <<h>> \o b
           n == IF a.filled THEN m ELSE 0
           data == Data(b)
<1>1. m \in Nat /\ a.length \in Nat /\ a.filled \in BOOLEAN /\ (a.filled => m > 0 \/ (coding = "identity" /\ te # "chunked"))
  BY CodedLengthType DEF Answer
<1>2. /\ b \in Seq(U)
      /\ SubSeq(data, 1, n) = Bytes(coding, n, n)
      /\ IF te = "chunked"
         THEN IF a.filled THEN WellChunked(b) /\ Len(data) = n + Overrun(n) ELSE b = <<>>
         ELSE b = data /\ Len(data) = n
  <2> HIDE DEF m
  <2> QED
    BY <1>1, BodyData
<1> HIDE DEF m, b, U, data
<1>3. s[1] = h /\ Tail(s) = b
  <2>1. h \in V /\ b \in Seq(V)
    <3>1. \A i \in 1..Len(b) : b[i] \in U
      BY <1>2, ElementOfSeq
    <3> QED
      BY <1>2, <3>1
  <2> HIDE DEF V
  <2> QED
    BY <2>1, HeadThenRest
<1> HIDE DEF s
<1>4. /\ h.code = a.code /\ h.transfer = te
      /\ h.coding = IF m > 0 /\ coding # "identity" THEN coding ELSE "identity"
      /\ te # "chunked" => h.length[Len(h.length)] = m
      /\ te # "chunked" /\ ~a.filled => h.length = <<m>>
  BY DEF HeadOf, m
<1>5. a.filled => h.coding = coding
  BY <1>1, <1>4
<1> DEFINE k == IF a.filled THEN Coded(h.coding, a.length) ELSE 0
<1>6. k = n
  BY <1>5 DEF CodedLength, m
<1>7. SubSeq(data, 1, k) = [i \in 1..k |-> Byte(h.coding, k, i)]
  <2>1. CASE a.filled
    BY <1>2, <1>5, <1>6, <2>1 DEF Bytes
  <2>2. CASE ~a.filled
    <3>1. k = 0 /\ SubSeq(data, 1, 0) = Bytes(coding, 0, 0)
      BY <1>2, <1>6, <2>2
    <3>2. Bytes(coding, 0, 0) = <<>> /\ [i \in 1..0 |-> Byte(h.coding, 0, i)] = <<>>
      BY DEF Bytes
    <3> QED
      BY <3>1, <3>2
  <2> QED
    BY <1>1, <2>1, <2>2
<1>8. IF h.transfer = "chunked"
      THEN IF a.filled THEN WellChunked(b) /\ Len(data) = k + Overrun(k) ELSE b = <<>>
      ELSE b = data /\ Len(data) = k
           /\ (IF a.filled \/ a.length = 0 THEN h.length[Len(h.length)] = k ELSE h.length = <<a.length>>)
  <2>1. CASE te = "chunked"
    BY <1>2, <1>4, <1>6, <2>1
  <2>2. CASE te # "chunked"
    <3>1. b = data /\ Len(data) = k
      BY <1>2, <1>6, <2>2
    <3>2. CASE a.filled
      BY <1>4, <1>6, <2>2, <3>1, <3>2
    <3>3. CASE ~a.filled
      <4>1. k = 0 /\ m = a.length
        BY <1>6, <3>3 DEF m, CodedLength
      <4> QED
        BY <1>4, <2>2, <3>1, <3>3, <4>1
    <3> QED
      BY <1>1, <3>2, <3>3
  <2> QED
    BY <2>1, <2>2
<1> HIDE DEF k
<1>9. LET head == s[1]
          rest == Tail(s)
          d    == Data(rest)
      IN  /\ head.code = a.code
          /\ a.filled => head.coding = coding
          /\ SubSeq(d, 1, k) = [i \in 1..k |-> Byte(head.coding, k, i)]
          /\ IF head.transfer = "chunked"
             THEN IF a.filled THEN WellChunked(rest) /\ Len(d) = k + Overrun(k) ELSE rest = <<>>
             ELSE rest = d /\ Len(d) = k
                  /\ (IF a.filled \/ a.length = 0 THEN head.length[Len(head.length)] = k
                      ELSE head.length = <<a.length>>)
  BY <1>3, <1>4, <1>5, <1>7, <1>8 DEF data
<1>10. k = IF a.filled THEN Coded(s[1].coding, a.length) ELSE 0
  BY <1>3 DEF k
<1>11. FramedAs(a, s)
  BY <1>9, <1>10 DEF FramedAs
<1> QED
  BY <1>11 DEF s, b, m

\* What was sent and what is to be sent are the units of a whole.
Parts(whole) ==
  /\ wire \in Seq(ToSet(whole)) /\ out \in Seq(ToSet(whole))
  /\ wire \o out = whole

\* The two responses of RefuseType.
Refusals(size) ==
  LET second == Response(415, "identity", "identity", size, TRUE)
  IN  Response(406, "identity", "identity", 0, FALSE) \o [second EXCEPT ![1].length = <<0>> \o @]

OneResponse ==
  /\ Len(answers) = 1
  /\ Answer(answers[1], coding, transfer)
  /\ Parts(Response(answers[1].code, coding, transfer, answers[1].length, answers[1].filled))

TwoResponses ==
  /\ coding = "identity"
  /\ answers = <<[code |-> 406, length |-> 0, filled |-> FALSE],
                 [code |-> 415, length |-> request.size, filled |-> TRUE]>>
  /\ Parts(Refusals(request.size))

FrameInv ==
  /\ request \in Requests
  /\ phase \in {"sending", "sent"} => OneResponse \/ TwoResponses
  /\ phase = "sent" => out = <<>>
  /\ phase \notin {"sending", "sent", "broken"} => wire = <<>>

LEMMA ResponseUnits ==
  ASSUME NEW a, NEW code, NEW ce, NEW te, Answer(a, ce, te)
  PROVE  LET r == Response(code, ce, te, a.length, a.filled) IN \E V : r \in Seq(V)
<1> DEFINE m == CodedLength(ce, a.length, a.filled)
           h == Headers(code, m, ce, te)
           b == Body(ce, te, m, a.filled)
           V == Units(ce, m) \cup {h}
<1>1. b \in Seq(Units(ce, m))
  <2>1. m \in Nat /\ a.filled \in BOOLEAN /\ (a.filled /\ te = "chunked" => m > 0)
    BY CodedLengthType DEF Answer
  <2> HIDE DEF m
  <2> QED
    BY <2>1, BodyData
<1>2. Response(code, ce, te, a.length, a.filled) = <<h>> \o b
  BY ResponseParts
<1> HIDE DEF h, b, m
<1>3. b \in Seq(V)
  <2>1. \A i \in 1..Len(b) : b[i] \in Units(ce, m)
    BY <1>1, ElementOfSeq
  <2> QED
    BY <1>1, <2>1
<1>4. <<h>> \in Seq(V)
  OBVIOUS
<1>5. <<h>> \o b \in Seq(V)
  <2> HIDE DEF V
  <2> QED
    BY <1>3, <1>4, ConcatProperties
<1> QED
  BY <1>2, <1>5

LEMMA InItsSet ==
  ASSUME NEW V, NEW s \in Seq(V)
  PROVE  s \in Seq(ToSet(s))
<1>1. \A i \in 1..Len(s) : s[i] \in ToSet(s)
  BY DEF ToSet
<1> QED
  BY <1>1

LEMMA PartsBegin ==
  ASSUME NEW V, NEW r \in Seq(V), wire' = <<>>, out' = r
  PROVE  Parts(r)'
<1>1. r \in Seq(ToSet(r)) /\ <<>> \in Seq(ToSet(r))
  BY InItsSet
<1>2. <<>> \o r = r
  BY ConcatEmptySeq
<1> QED
  BY <1>1, <1>2 DEF Parts

\* The heads of the two responses of RefuseType.
FirstHead == Headers(406, 0, "identity", "identity")
SecondHead(size) == [Headers(415, size, "identity", "identity") EXCEPT !.length = <<0, size>>]

LEMMA RefusalParts ==
  ASSUME NEW size \in Nat
  PROVE  \E V : /\ Refusals(size) \in Seq(V) /\ Refusals(size)[1] = FirstHead
                /\ Tail(Refusals(size)) = <<SecondHead(size)>> \o Body("identity", "identity", size, TRUE)
<1> DEFINE b == Body("identity", "identity", size, TRUE)
           h == Headers(415, size, "identity", "identity")
           g == SecondHead(size)
           V == Units("identity", size) \cup {FirstHead, h, g}
           second == <<h>> \o b
           rest == <<g>> \o b
<1>1. b \in Seq(Units("identity", size))
  <2>1. "identity" # "chunked"
    OBVIOUS
  <2> QED
    BY <2>1, BodyData
<1>2. Response(415, "identity", "identity", size, TRUE) = second
  <2>1. CodedLength("identity", size, TRUE) = size
    BY DEF CodedLength, Coded, Compressed
  <2> HIDE DEF b, h
  <2> QED
    BY <2>1, ResponseParts DEF b, h
<1>3. Response(406, "identity", "identity", 0, FALSE) = <<FirstHead>> \o <<>>
  BY DEF Response, FirstHead
<1>4. [h EXCEPT !.length = <<0>> \o @] = g /\ h.length = <<size>>
  <2>1. h.length = <<size>>
    BY DEF Headers
  <2>2. <<0>> \o <<size>> = <<0, size>>
    <3> DEFINE x == <<0>>
               y == <<size>>
               z == <<0, size>>
    <3>1. x \in Seq(Nat) /\ y \in Seq(Nat) /\ z \in Seq(Nat)
      OBVIOUS
    <3>2. Len(x) = 1 /\ Len(y) = 1 /\ Len(z) = 2 /\ x[1] = 0 /\ y[1] = size /\ z[1] = 0 /\ z[2] = size
      OBVIOUS
    <3> HIDE DEF x, y, z
    <3>3. /\ x \o y \in Seq(Nat) /\ Len(x \o y) = 2
          /\ \A i \in 1..2 : (x \o y)[i] = IF i <= 1 THEN x[i] ELSE y[i - 1]
      <4>1. /\ x \o y \in Seq(Nat) /\ Len(x \o y) = Len(x) + Len(y)
            /\ \A i \in 1..(Len(x) + Len(y)) : (x \o y)[i] = IF i <= Len(x) THEN x[i] ELSE y[i - Len(x)]
        BY <3>1, ConcatProperties
      <4> QED
        BY <3>2, <4>1
    <3>4. \A i \in 1..2 : (x \o y)[i] = z[i]
      BY <3>2, <3>3
    <3>5. x \o y = z
      BY <3>1, <3>2, <3>3, <3>4, SeqEqual
    <3> QED
      BY <3>5 DEF x, y, z
  <2> QED
    BY <2>1, <2>2 DEF SecondHead
<1> HIDE DEF b, h, g
<1>5. b \in Seq(V) /\ h \in V /\ g \in V /\ FirstHead \in V
  <2>1. \A i \in 1..Len(b) : b[i] \in Units("identity", size)
    BY <1>1, ElementOfSeq
  <2> QED
    BY <1>1, <2>1
<1> HIDE DEF V
<1>6. /\ second \in Seq(V) /\ Len(second) = Len(b) + 1
      /\ second[1] = h /\ \A i \in 1..Len(b) : second[i + 1] = b[i]
  BY <1>5, HeadThenRest
<1>7. /\ rest \in Seq(V) /\ Len(rest) = Len(b) + 1
      /\ rest[1] = g /\ \A i \in 1..Len(b) : rest[i + 1] = b[i]
  BY <1>5, HeadThenRest
<1> HIDE DEF second, rest
<1> DEFINE changed == [second EXCEPT ![1].length = <<0>> \o @]
<1>8. changed = rest
  <2>1. Len(b) \in Nat /\ DOMAIN second = 1..(Len(b) + 1)
    BY <1>5, <1>6
  <2>2. changed \in Seq(V) /\ Len(changed) = Len(b) + 1
    <3>1. changed = [i \in DOMAIN second |-> IF i = 1 THEN [h EXCEPT !.length = <<0>> \o @] ELSE second[i]]
      BY <1>6, <2>1
    <3>2. changed = [i \in 1..(Len(b) + 1) |-> IF i = 1 THEN g ELSE second[i]]
      BY <1>4, <2>1, <3>1
    <3>3. \A i \in 1..(Len(b) + 1) : (IF i = 1 THEN g ELSE second[i]) \in V
      BY <1>5, <1>6, <2>1
    <3> HIDE DEF changed
    <3> QED
      BY <2>1, <3>2, <3>3
  <2>3. ASSUME NEW i \in 1..(Len(b) + 1) PROVE changed[i] = rest[i]
    <3>1. CASE i = 1
      BY <1>4, <1>6, <1>7, <2>1, <3>1
    <3>2. CASE i # 1
      <4>1. i - 1 \in 1..Len(b) /\ (i - 1) + 1 = i
        BY <2>1, <3>2
      <4>2. changed[i] = second[i]
        BY <2>1, <3>2
      <4> HIDE DEF changed
      <4> QED
        BY <1>6, <1>7, <4>1, <4>2
    <3> QED
      BY <3>1, <3>2
  <2> HIDE DEF changed
  <2> QED
    BY <1>7, <2>2, <2>3, SeqEqual
<1>9. Refusals(size) = (<<FirstHead>> \o <<>>) \o changed
  <2> DEFINE whole == Response(415, "identity", "identity", size, TRUE)
  <2>1. Refusals(size) = Response(406, "identity", "identity", 0, FALSE) \o [whole EXCEPT ![1].length = <<0>> \o @]
    BY DEF Refusals
  <2>2. [whole EXCEPT ![1].length = <<0>> \o @] = changed
    BY <1>2
  <2> HIDE DEF whole, changed
  <2> QED
    BY <1>3, <2>1, <2>2
<1>10. <<FirstHead>> \o <<>> = <<FirstHead>>
  BY <1>5, HeadThenRest, ConcatEmptySeq
<1> HIDE DEF changed
<1>11. Refusals(size) = <<FirstHead>> \o rest
  BY <1>8, <1>9, <1>10
<1>12. /\ <<FirstHead>> \o rest \in Seq(V) /\ (<<FirstHead>> \o rest)[1] = FirstHead
       /\ Tail(<<FirstHead>> \o rest) = rest
  BY <1>5, <1>7, HeadThenRest
<1>13. rest = <<SecondHead(size)>> \o Body("identity", "identity", size, TRUE)
  BY DEF rest, g, b
<1> QED
  BY <1>11, <1>12, <1>13

LEMMA FrameInitially == Init => FrameInv
  BY DEF Init, FrameInv

\* A response is begun.
LEMMA SendBegins ==
  ASSUME FrameInv, NEW code, NEW ce, NEW te, NEW n \in Nat, NEW filled \in BOOLEAN,
         phase \notin {"sending", "sent", "broken"}, Send(code, ce, te, n, filled)
  PROVE  FrameInv'
<1> DEFINE a == [code |-> code, length |-> n, filled |-> filled /\ n > 0]
           r == Response(code, ce, te, a.length, a.filled)
<1>1. /\ answers' = <<a>> /\ out' = r /\ coding' = ce /\ transfer' = te
      /\ wire' = <<>> /\ request' = request /\ request \in Requests
      /\ phase' \in {"crashed", "sending"}
  BY DEF Send, FrameInv, Goto
<1>2. Answer(a, ce, te)
  BY DEF Answer
<1>3. \E V : r \in Seq(V)
  BY <1>2, ResponseUnits
<1> HIDE DEF a
<1>4. answers'[1] = a /\ Len(answers') = 1
  BY <1>1
<1>5. r = Response(answers[1].code, coding, transfer, answers[1].length, answers[1].filled)'
  BY <1>1, <1>4 DEF a
<1> HIDE DEF r
<1>6. Parts(r)'
  BY <1>1, <1>3, PartsBegin
<1>7. OneResponse'
  BY <1>1, <1>2, <1>4, <1>5, <1>6 DEF OneResponse, r
<1> QED
  BY <1>1, <1>7 DEF FrameInv

LEMMA RequestSize ==
  ASSUME request \in Requests
  PROVE  request.size \in Nat
  BY ExchangeAssumption

LEMMA RefuseBegins ==
  ASSUME FrameInv, NEW code, phase \notin {"sending", "sent", "broken"}, Refuse(code)
  PROVE  FrameInv'
  BY SendBegins DEF Refuse

LEMMA TypeRefusalBegins ==
  ASSUME FrameInv, RefuseType
  PROVE  FrameInv'
<1>1. /\ coding' = "identity" /\ wire' = <<>> /\ request' = request /\ request \in Requests
      /\ answers' = <<[code |-> 406, length |-> 0, filled |-> FALSE],
                      [code |-> 415, length |-> request.size, filled |-> TRUE]>>
      /\ out' = Refusals(request.size) /\ phase' = "sending"
  BY DEF RefuseType, FrameInv, At, Goto, Refusals
<1>2. \E V : Refusals(request.size) \in Seq(V)
  BY <1>1, RequestSize, RefusalParts
<1>3. Parts(Refusals(request.size))'
  <2>1. PICK V : Refusals(request.size) \in Seq(V)
    BY <1>2
  <2> DEFINE r == Refusals(request.size)
  <2> HIDE DEF r
  <2>2. Parts(r)'
    BY <1>1, <2>1, PartsBegin DEF r
  <2> QED
    BY <1>1, <2>2 DEF r
<1>4. TwoResponses'
  BY <1>1, <1>3 DEF TwoResponses
<1> QED
  BY <1>1, <1>4 DEF FrameInv

LEMMA DataSent ==
  ASSUME FrameInv, SendData
  PROVE  FrameInv'
<1>1. /\ phase = "sending" /\ phase' = "sending" /\ out # <<>>
      /\ request' = request /\ coding' = coding /\ transfer' = transfer /\ answers' = answers
  BY DEF SendData, At, body, choice, answer
<1>2. PICK k \in 1..Len(out) : wire' = wire \o SubSeq(out, 1, k) /\ out' = SubSeq(out, k + 1, Len(out))
  BY DEF SendData
<1>3. ASSUME NEW r, Parts(r)
      PROVE  r' = r => Parts(r)'
  <2> DEFINE V == ToSet(r)
             s == SubSeq(out, 1, k)
             t == SubSeq(out, k + 1, Len(out))
  <2>1. wire \in Seq(V) /\ out \in Seq(V) /\ wire \o out = r
    BY <1>3 DEF Parts
  <2> HIDE DEF V
  <2>2. s \in Seq(V) /\ t \in Seq(V)
    <3>1. \A i \in 1..Len(out) : out[i] \in V
      BY <2>1, ElementOfSeq
    <3>2. Len(out) \in Nat /\ k \in Int /\ 1 \in Int /\ k + 1 \in Int /\ Len(out) \in Int
      BY <2>1
    <3>3. (\A i \in 1..k : out[i] \in V) /\ (\A i \in (k + 1)..Len(out) : out[i] \in V)
      BY <3>1, <3>2
    <3> QED
      BY <3>2, <3>3, SubSeqProperties
  <2>3. s \o t = out
    <3>1. Len(out) \in Nat /\ 1 \in 1..(Len(out) + 1) /\ k \in (1 - 1)..Len(out) /\ Len(out) \in k..Len(out)
      BY <2>1
    <3>2. s \o t = SubSeq(out, 1, Len(out))
      BY <2>1, <3>1, ConcatAdjacentSubSeq
    <3> QED
      BY <2>1, <3>2, SubSeqFull
  <2> HIDE DEF s, t
  <2>4. (wire \o s) \o t = wire \o (s \o t) /\ wire \o s \in Seq(V)
    <3>1. wire \in Seq(V) /\ s \in Seq(V) /\ t \in Seq(V)
      BY <2>1, <2>2
    <3>2. (wire \o s) \o t = wire \o (s \o t)
      BY <3>1, ConcatAssociative
    <3>3. wire \o s \in Seq(V)
      BY <3>1, ConcatProperties
    <3> QED
      BY <3>2, <3>3
  <2>5. wire' = wire \o s /\ out' = t
    BY <1>2 DEF s, t
  <2>6. wire' \in Seq(V) /\ out' \in Seq(V) /\ wire' \o out' = r
    BY <2>1, <2>2, <2>3, <2>4, <2>5
  <2> QED
    BY <2>6 DEF Parts, V
<1>4. CASE OneResponse
  <2>1. Parts(Response(answers[1].code, coding, transfer, answers[1].length, answers[1].filled))'
    BY <1>1, <1>3, <1>4 DEF OneResponse
  <2> QED
    BY <1>1, <1>4, <2>1 DEF OneResponse, FrameInv
<1>5. CASE TwoResponses
  <2>1. Parts(Refusals(request.size))'
    BY <1>1, <1>3, <1>5 DEF TwoResponses
  <2> QED
    BY <1>1, <1>5, <2>1 DEF TwoResponses, FrameInv
<1> QED
  BY <1>1, <1>4, <1>5 DEF FrameInv

LEMMA FrameStep == FrameInv /\ [Next]_vars => FrameInv'
<1> SUFFICES ASSUME FrameInv, [Next]_vars PROVE FrameInv'
  OBVIOUS
<1>1. ASSUME wire' = wire, request' = request, phase' \notin {"sending", "sent"},
             phase \notin {"sending", "sent", "broken"}
      PROVE  FrameInv'
  BY <1>1 DEF FrameInv
<1>2. CASE ReadHead
  BY <1>1, <1>2, RefuseBegins DEF ReadHead, At, Goto, sending
<1>3. CASE DecodeItem
  <2>1. UNCHANGED <<request, phase, answer, sending>>
    BY <1>3 DEF DecodeItem
  <2> QED
    BY <2>1 DEF sending, answer, FrameInv, OneResponse, TwoResponses, Parts
<1>4. CASE ChooseResponseContentEncoding
  BY <1>1, <1>4, SendBegins DEF ChooseResponseContentEncoding, At, Goto, sending
<1>5. CASE ChooseResponseTransferCoding
  BY <1>1, <1>5, SendBegins DEF ChooseResponseTransferCoding, At, Goto, sending
<1>6. CASE CheckRequest
  BY <1>1, <1>6, RefuseBegins DEF CheckRequest, At, Goto, sending
<1>7. CASE TransferCodingFilter
  BY <1>1, <1>7, RefuseBegins DEF TransferCodingFilter, StartInflate, At, Goto, sending
<1>8. CASE EncodingFilter
  BY <1>1, <1>8, RefuseBegins DEF EncodingFilter, StartInflate, At, Goto, sending
<1>9. CASE InflateChunkStep
  BY <1>1, <1>9, RefuseBegins DEF InflateChunkStep, At, Goto, sending
<1>10. CASE Handle
  <2>1. request.size \in Nat /\ phase = "handler"
    BY <1>10, RequestSize DEF FrameInv, Handle, At
  <2>2. CASE Goto("accept") /\ UNCHANGED <<request, body, answer, sending>>
    BY <1>1, <2>1, <2>2 DEF Goto, sending
  <2>3. CASE Send(200, coding, transfer, request.size, TRUE)
    BY <2>1, <2>3, SendBegins
  <2>4. CASE Send(404, coding, transfer, request.size, TRUE)
    BY <2>1, <2>4, SendBegins
  <2>5. CASE Send(404, "identity", "identity", request.size, TRUE)
    BY <2>1, <2>5, SendBegins
  <2>6. CASE Send(200, coding, transfer, request.size, FALSE)
    BY <2>1, <2>6, SendBegins
  <2> QED
    BY <1>10, <2>2, <2>3, <2>4, <2>5, <2>6 DEF Handle
<1>11. CASE ChooseContentType
  BY <1>1, <1>11 DEF ChooseContentType, At, Goto, sending
<1>12. CASE SendFile
  <2>1. request.size \in Nat
    BY RequestSize DEF FrameInv
  <2> QED
    BY <1>12, <2>1, SendBegins DEF SendFile, At
<1>13. CASE RefuseType
  BY <1>13, TypeRefusalBegins
<1>14. CASE SendData
  BY <1>14, DataSent
<1>15. CASE SendEnds
  BY <1>15 DEF SendEnds, At, Goto, sending, answer, choice, body, FrameInv, OneResponse, TwoResponses, Parts
<1>16. CASE SendFails
  BY <1>16 DEF SendFails, At, Goto, sending, FrameInv
<1>17. CASE UNCHANGED vars
  BY <1>17 DEF vars, sending, answer, FrameInv, OneResponse, TwoResponses, Parts
<1> QED
  BY <1>2, <1>3, <1>4, <1>5, <1>6, <1>7, <1>8, <1>9, <1>10, <1>11, <1>12, <1>13, <1>14, <1>15, <1>16, <1>17 DEF Next

LEMMA FrameImplied == FrameInv => Framed
<1> SUFFICES ASSUME FrameInv, phase = "sent" PROVE Framed
  BY DEF Framed, At
<1>1. ASSUME NEW r, Parts(r) PROVE wire = r
  <2>1. out = <<>> /\ wire \in Seq(ToSet(r)) /\ wire \o out = r
    BY <1>1 DEF Parts, FrameInv
  <2> QED
    BY <2>1, ConcatEmptySeq
<1>2. CASE OneResponse
  <2> DEFINE a == answers[1]
             m == CodedLength(coding, a.length, a.filled)
             h == Headers(a.code, m, coding, transfer)
             b == Body(coding, transfer, m, a.filled)
  <2>1. Answer(a, coding, transfer) /\ Len(answers) = 1
    BY <1>2 DEF OneResponse
  <2>2. wire = Response(a.code, coding, transfer, a.length, a.filled)
    BY <1>1, <1>2 DEF OneResponse
  <2>3. wire = <<h>> \o b
    BY <2>2, ResponseParts
  <2>4. HeadOf(h, a, coding, transfer) /\ Len(h.length) <= 1
    <3>1. h.length = IF transfer # "chunked" THEN <<m>> ELSE <<>>
      BY DEF Headers
    <3>2. /\ h.code = a.code /\ h.transfer = transfer
          /\ h.coding = IF m > 0 /\ coding # "identity" THEN coding ELSE "identity"
      BY DEF Headers
    <3> HIDE DEF h, m, a
    <3>3. Len(h.length) <= 1 /\ (transfer # "chunked" => h.length = <<m>> /\ h.length[Len(h.length)] = m)
      BY <3>1
    <3> QED
      BY <3>2, <3>3 DEF HeadOf, m
  <2>5. FramedAs(a, <<h>> \o b)
    <3> HIDE DEF h, a
    <3> QED
      BY <2>1, <2>4, Framing
  <2>6. wire[1] = h
    <3>1. \E V : h \in V /\ b \in Seq(V)
      <4>1. m \in Nat /\ a.filled \in BOOLEAN /\ (a.filled /\ transfer = "chunked" => m > 0)
        <5> HIDE DEF a
        <5> QED
          BY <2>1, CodedLengthType DEF Answer
      <4> HIDE DEF m, a
      <4>2. b \in Seq(Units(coding, m))
        BY <4>1, BodyData
      <4> DEFINE V == Units(coding, m) \cup {h}
      <4> HIDE DEF b, h
      <4>3. h \in V /\ b \in Seq(V)
        <5>1. \A i \in 1..Len(b) : b[i] \in Units(coding, m)
          BY <4>2, ElementOfSeq
        <5> QED
          BY <4>2, <5>1
      <4> QED
        BY <4>3
    <3> HIDE DEF h, b
    <3> QED
      BY <2>3, <3>1, HeadThenRest
  <2> HIDE DEF a, h, b
  <2>7. FramedAs(answers[1], wire) /\ Len(wire[1].length) <= 1
    BY <2>3, <2>4, <2>5, <2>6 DEF a
  <2> QED
    BY <2>1, <2>7 DEF Framed
<1>3. CASE TwoResponses
  <2> DEFINE size == request.size
             a1 == [code |-> 406, length |-> 0, filled |-> FALSE]
             a2 == [code |-> 415, length |-> size, filled |-> TRUE]
             g == SecondHead(size)
  <2>1. coding = "identity" /\ answers[1] = a1 /\ answers[2] = a2 /\ Len(answers) = 2 /\ size \in Nat
    BY <1>3, RequestSize DEF TwoResponses, FrameInv
  <2>2. wire = Refusals(size)
    BY <1>1, <1>3 DEF TwoResponses
  <2>3. wire[1] = FirstHead /\ Tail(wire) = <<g>> \o Body("identity", "identity", size, TRUE)
    <3>1. PICK V : /\ Refusals(size) \in Seq(V) /\ Refusals(size)[1] = FirstHead
                   /\ Tail(Refusals(size)) = <<SecondHead(size)>> \o Body("identity", "identity", size, TRUE)
      <4> HIDE DEF size
      <4> QED
        BY <2>1, RefusalParts
    <3> QED
      BY <2>2, <3>1
  <2>4. FramedAs(a1, <<FirstHead>>)
    <3>1. Answer(a1, "identity", "identity")
      BY DEF Answer
    <3>2. CodedLength("identity", a1.length, a1.filled) = 0
      BY DEF CodedLength
    <3>3. /\ FirstHead.code = 406 /\ FirstHead.transfer = "identity" /\ FirstHead.coding = "identity"
          /\ FirstHead.length = <<0>>
      BY DEF FirstHead, Headers
    <3>4. HeadOf(FirstHead, a1, "identity", "identity")
      <4>1. FirstHead.length[Len(FirstHead.length)] = 0
        BY <3>3
      <4>2. a1.code = 406
        OBVIOUS
      <4> HIDE DEF a1
      <4> QED
        BY <3>2, <3>3, <4>1, <4>2 DEF HeadOf
    <3>5. Body("identity", "identity", 0, a1.filled) = <<>> /\ <<FirstHead>> \o <<>> = <<FirstHead>>
      <4>1. <<FirstHead>> \in Seq({FirstHead})
        OBVIOUS
      <4> QED
        BY <4>1, ConcatEmptySeq DEF Body
    <3> HIDE DEF a1
    <3>6. FramedAs(a1, <<FirstHead>> \o Body("identity", "identity", 0, a1.filled))
      BY <2>1, <3>1, <3>2, <3>4, Framing
    <3> QED
      BY <3>5, <3>6
  <2>5. FramedAs(a2, <<g>> \o Body("identity", "identity", size, TRUE))
    <3>1. Answer(a2, "identity", "identity") /\ a2.filled = TRUE
      BY <2>1 DEF Answer
    <3>2. CodedLength("identity", a2.length, a2.filled) = size
      BY DEF CodedLength, Coded, Compressed
    <3>3. /\ g.code = 415 /\ g.transfer = "identity" /\ g.coding = "identity"
          /\ g.length = <<0, size>>
      BY DEF SecondHead, Headers
    <3>4. g.length[Len(g.length)] = size
      BY <3>3
    <3> HIDE DEF g
    <3>5. HeadOf(g, a2, "identity", "identity")
      BY <3>2, <3>3, <3>4 DEF HeadOf
    <3> HIDE DEF a2
    <3>6. FramedAs(a2, <<g>> \o Body("identity", "identity", size, a2.filled))
      BY <2>1, <3>1, <3>2, <3>5, Framing
    <3> QED
      BY <3>1, <3>6
  <2> HIDE DEF a1, a2, g
  <2>6. FramedAs(answers[1], <<wire[1]>>) /\ FramedAs(answers[2], Tail(wire))
    BY <2>1, <2>3, <2>4, <2>5
  <2> QED
    BY <2>1, <2>6 DEF Framed
<1> QED
  BY <1>2, <1>3 DEF FrameInv

(***************************************************************************)
(* A response that was sent whole is framed by its own head: its coding,   *)
(* its length or its chunks fit the bytes, each of them once and in its    *)
(* place, for any sizes of bodies and chunks and however send takes them   *)
(* (sendResponse, sendBodyChunks, sendDataTCP).                            *)
(***************************************************************************)
THEOREM FramedByItsHead == Spec => []Framed
  BY FrameInitially, FrameStep, FrameImplied, PTL DEF Spec

=============================================================================
