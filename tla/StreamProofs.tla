----------------------------- MODULE StreamProofs -----------------------------
(***************************************************************************)
(* The receive buffer for any sizes of it, anything the peer sends, any    *)
(* bodies asked for and any pieces the network makes: what was not scanned *)
(* yet is what was sent, and lines and bodies are handed out whole.        *)
(***************************************************************************)
EXTENDS HttpStream, TLAPS

\* The offsets, once more than it was handed out than received included: then head stands
\* where the missing bytes would end.
Offsets ==
    /\ capacity > 0
    /\ writeoffset <= capacity
    /\ writeoffset = capacity => capacity >= MaxBuffer
    /\ consumedoffset <= head
    /\ head <= writeoffset \/ head = consumedoffset

\* The wire goes on where the buffer ends.
WireFollows ==
    /\ sent \in Streams
    /\ writeoffset + Len(wire) <= Len(sent)
    /\ \A i \in 1..Len(wire) : wire[i] = sent[writeoffset + i]

Unscanned == \A i \in head..(writeoffset - 1) : buf[i] = sent[i + 1]

\* A body starts where the parser is: only a line that failed leaves bytes scanned and
\* not consumed, and no body is asked for after that.
Broken == {"RECV_ERROR", "BUF_TOO_BIG"}
CallsInOrder ==
    /\ call # "none" => result = NoResult /\ from = consumedoffset
    /\ call = "body" \/ (call = "none" /\ result.status \notin Broken) => head = consumedoffset

IInv == TypeOK /\ Offsets /\ WireFollows /\ Unscanned /\ CallsInOrder

LEMMA Initially == Init => IInv
<1> SUFFICES ASSUME Init PROVE IInv
  OBVIOUS
<1>1. TypeOK
  BY BufferAssumption DEF Init, TypeOK
<1>2. Offsets /\ WireFollows /\ Unscanned
  BY BufferAssumption DEF Init, Offsets, WireFollows, Unscanned
<1>3. CallsInOrder
  BY DEF Init, CallsInOrder, NoResult, Broken
<1> QED
  BY <1>1, <1>2, <1>3 DEF IInv

\* What recv leaves in the buffer, and what growing leaves of that.
LEMMA FilledRight ==
  ASSUME IInv, NEW k \in Nat, k <= Len(wire), k <= capacity - writeoffset
  PROVE  /\ Filled(k) \in [0..(capacity - 1) -> Byte \cup {Junk}]
         /\ \A i \in head..(writeoffset + k - 1) : Filled(k)[i] = sent[i + 1]
         /\ \A i \in 0..(writeoffset - 1) : Filled(k)[i] = buf[i]
<1> USE DEF IInv
<1>1. DOMAIN buf = 0..(capacity - 1) /\ writeoffset \in Nat /\ capacity \in Nat /\ head \in Nat
  BY DEF TypeOK
<1>2. \A i \in writeoffset..(writeoffset + k - 1) :
         i - writeoffset + 1 \in 1..Len(wire) /\ wire[i - writeoffset + 1] = sent[i + 1]
  <2> TAKE i \in writeoffset..(writeoffset + k - 1)
  <2>1. i - writeoffset + 1 \in 1..Len(wire) /\ writeoffset + (i - writeoffset + 1) = i + 1
    BY <1>1
  <2> QED
    BY <2>1 DEF WireFollows
<1>3. \A i \in writeoffset..(writeoffset + k - 1) : wire[i - writeoffset + 1] \in Byte
  BY <1>2 DEF TypeOK
<1>4. Filled(k) \in [0..(capacity - 1) -> Byte \cup {Junk}]
  BY <1>1, <1>3 DEF Filled, TypeOK
<1>5. \A i \in 0..(writeoffset + k - 1) : i \in DOMAIN buf
  BY <1>1
<1>6. \A i \in head..(writeoffset + k - 1) : Filled(k)[i] = sent[i + 1]
  <2> TAKE i \in head..(writeoffset + k - 1)
  <2>1. i \in DOMAIN buf
    BY <1>1, <1>5
  <2>2. CASE i \in writeoffset..(writeoffset + k - 1)
    BY <1>2, <2>1, <2>2 DEF Filled
  <2>3. CASE i \notin writeoffset..(writeoffset + k - 1)
    <3>1. i \in head..(writeoffset - 1)
      BY <1>1, <2>3
    <3> QED
      BY <2>1, <2>3, <3>1 DEF Filled, Unscanned
  <2> QED
    BY <2>2, <2>3
<1>7. \A i \in 0..(writeoffset - 1) : Filled(k)[i] = buf[i]
  BY <1>1, <1>5 DEF Filled
<1> QED
  BY <1>4, <1>6, <1>7

LEMMA GrownRight ==
  ASSUME IInv, NEW b \in [0..(capacity - 1) -> Byte \cup {Junk}],
         NEW end \in Nat, end <= capacity
  PROVE  /\ Grown(b, end) \in [0..(2 * capacity - 1) -> Byte \cup {Junk}]
         /\ \A i \in consumedoffset..(end - 1) : Grown(b, end)[i] = b[i]
<1>1. capacity \in Nat /\ consumedoffset \in Nat
  BY DEF IInv, TypeOK
<1>2. \A i \in consumedoffset..(end - 1) : i \in 0..(capacity - 1) /\ i \in 0..(2 * capacity - 1)
  BY <1>1
<1> QED
  BY <1>2 DEF Grown

LEMMA WireShrinks ==
  ASSUME IInv, NEW k \in Nat, k <= Len(wire)
  PROVE  LET rest == SubSeq(wire, k + 1, Len(wire))
         IN  /\ rest \in Seq(Byte)
             /\ Len(rest) = Len(wire) - k
             /\ \A i \in 1..Len(rest) : rest[i] = sent[writeoffset + k + i]
<1> DEFINE rest == SubSeq(wire, k + 1, Len(wire))
<1>1. wire \in Seq(Byte) /\ Len(wire) \in Nat /\ writeoffset \in Nat
  BY DEF IInv, TypeOK
<1>2. rest \in Seq(Byte) /\ Len(rest) = Len(wire) - k
  BY <1>1
<1>3. \A i \in 1..Len(rest) : rest[i] = wire[k + i]
  BY <1>1, <1>2
<1>4. \A i \in 1..Len(rest) : k + i \in 1..Len(wire) /\ writeoffset + (k + i) = writeoffset + k + i
  BY <1>1, <1>2
<1> QED
  BY <1>2, <1>3, <1>4 DEF IInv, WireFollows

\* A return of consumeBody, with whatever stands behind consumedoffset.
LEMMA BodyReturned ==
  ASSUME IInv, call = "body", NEW b, BodyReturns(b), UNCHANGED wanted
  PROVE  /\ call' = "none" /\ result' = [op |-> "body", status |-> "RECV_SUCCESS",
                                         data |-> Slice(b, consumedoffset, wanted)]
         /\ head' = consumedoffset' /\ consumedoffset' = head + wanted
         /\ head' \in Nat
<1>1. head = consumedoffset
  BY DEF IInv, CallsInOrder
<1> QED
  BY <1>1 DEF BodyReturns, Return, IInv, TypeOK

\* Receiving any number of bytes, none included.
LEMMA ReceivedKeeps ==
  ASSUME IInv, NeedsData, NEW k \in Nat, k <= Len(wire), k <= capacity - writeoffset, Received(k)
  PROVE  IInv'
<1> DEFINE rest == SubSeq(wire, k + 1, Len(wire))
<1>1. /\ capacity \in Nat /\ writeoffset \in Nat /\ consumedoffset \in Nat /\ head \in Nat
      /\ wanted \in Nat /\ Len(wire) \in Nat /\ MaxBuffer \in Nat
  BY BufferAssumption DEF IInv, TypeOK
<1>2. /\ writeoffset' = writeoffset + k /\ writeoffset' \in Nat /\ writeoffset' <= capacity
      /\ wire' = rest /\ UNCHANGED <<tokenIndex, sent, peer, wanted, from>>
  BY <1>1 DEF Received
<1>3. call \in {"line", "body"}
  BY DEF NeedsData
<1>4. WireFollows'
  <2>1. Len(rest) = Len(wire) - k /\ \A i \in 1..Len(rest) : rest[i] = sent[writeoffset + k + i]
    BY <1>1, WireShrinks
  <2>2. sent \in Streams /\ writeoffset + Len(wire) <= Len(sent) /\ Len(sent) \in Nat
    BY DEF IInv, WireFollows, TypeOK
  <2>3. /\ Len(wire') = Len(wire) - k /\ sent' = sent
        /\ writeoffset' = writeoffset + k /\ writeoffset \in Nat /\ Len(wire) \in Nat
    BY <1>1, <1>2, <2>1
  <2>4. writeoffset' + Len(wire') <= Len(sent)
    BY <2>2, <2>3
  <2>5. \A i \in 1..Len(wire') : wire'[i] = sent'[writeoffset' + i]
    BY <1>2, <2>1
  <2> QED
    BY <2>2, <2>3, <2>4, <2>5 DEF WireFollows
<1>5. wire' \in Seq(Byte)
  BY <1>1, <1>2, WireShrinks
\* The bytes, in the old buffer and in a doubled one.
<1>6. /\ Filled(k) \in [0..(capacity - 1) -> Byte \cup {Junk}]
      /\ \A i \in head..(writeoffset' - 1) : Filled(k)[i] = sent[i + 1]
  BY <1>1, <1>2, FilledRight
<1>7. /\ Grown(Filled(k), writeoffset') \in [0..(2 * capacity - 1) -> Byte \cup {Junk}]
      /\ \A i \in head..(writeoffset' - 1) : Grown(Filled(k), writeoffset')[i] = sent[i + 1]
  <2>1. /\ Grown(Filled(k), writeoffset') \in [0..(2 * capacity - 1) -> Byte \cup {Junk}]
        /\ \A i \in consumedoffset..(writeoffset' - 1) :
               Grown(Filled(k), writeoffset')[i] = Filled(k)[i]
    BY <1>2, <1>6, GrownRight
  <2>2. \A i \in head..(writeoffset' - 1) : i \in consumedoffset..(writeoffset' - 1)
    BY <1>1, <1>2 DEF IInv, Offsets
  <2> QED
    BY <1>6, <2>1, <2>2
\* What holds of a buffer with room, or one whose call goes on.
<1>8. ASSUME capacity' \in Nat, buf' \in [0..(capacity' - 1) -> Byte \cup {Junk}],
             \A i \in head..(writeoffset' - 1) : buf'[i] = sent[i + 1],
             writeoffset' <= capacity', capacity' >= capacity,
             writeoffset' = capacity' => capacity' >= MaxBuffer,
             GoOn
      PROVE  IInv'
  <2>1. UNCHANGED <<call, result, consumedoffset, head>> /\ carriageReturn' = FALSE
    BY <1>8 DEF GoOn
  <2>2. TypeOK'
    BY <1>2, <1>5, <1>8, <2>1 DEF IInv, TypeOK
  <2>3. Offsets'
    BY <1>1, <1>2, <1>8, <2>1 DEF IInv, Offsets
  <2>4. Unscanned'
    BY <1>2, <1>8, <2>1 DEF Unscanned
  <2>5. CallsInOrder'
    BY <1>2, <2>1 DEF IInv, CallsInOrder
  <2> QED
    BY <1>4, <2>2, <2>3, <2>4, <2>5 DEF IInv
<1>9. CASE writeoffset' < capacity /\ buf' = Filled(k) /\ UNCHANGED capacity /\ GoOn
  BY <1>1, <1>2, <1>6, <1>8, <1>9
<1>10. CASE writeoffset' >= capacity /\ capacity < MaxBuffer /\ capacity' = 2 * capacity
            /\ buf' = Grown(Filled(k), writeoffset') /\ GoOn
  <2>1. capacity' \in Nat /\ writeoffset' < capacity' /\ capacity' >= capacity
    BY <1>1, <1>2, <1>10 DEF IInv, Offsets
  <2>2. capacity' - 1 = 2 * capacity - 1
    BY <1>1, <1>10
  <2> QED
    BY <1>1, <1>2, <1>7, <1>8, <1>10, <2>1, <2>2
<1>11. CASE writeoffset' >= capacity /\ capacity >= MaxBuffer /\ buf' = Filled(k)
            /\ UNCHANGED <<capacity, carriageReturn>> /\ Failed("BUF_TOO_BIG", buf')
  <2>1. CASE call = "line" /\ Return("line", "BUF_TOO_BIG", <<>>) /\ UNCHANGED <<consumedoffset, head>>
    <3>1. TypeOK'
      BY <1>2, <1>5, <1>6, <1>11, <2>1 DEF IInv, TypeOK, Return
    <3>2. Offsets' /\ Unscanned'
      BY <1>1, <1>2, <1>6, <1>11, <2>1 DEF IInv, Offsets, Unscanned
    <3>3. CallsInOrder'
      BY <2>1 DEF Return, CallsInOrder, Broken
    <3> QED
      BY <1>4, <3>1, <3>2, <3>3 DEF IInv
  <2>2. CASE call = "body" /\ BodyReturns(buf')
    <3>1. /\ call' = "none" /\ result'.status = "RECV_SUCCESS"
          /\ head' = consumedoffset' /\ consumedoffset' = head + wanted /\ head' \in Nat
      BY <1>2, <2>2, BodyReturned
    <3>2. TypeOK'
      BY <1>2, <1>5, <1>6, <1>11, <3>1 DEF IInv, TypeOK
    <3>3. Offsets'
      BY <1>1, <1>2, <1>11, <3>1 DEF IInv, Offsets
    <3>4. Unscanned'
      <4>1. \A i \in head'..(writeoffset' - 1) : i \in head..(writeoffset' - 1)
        BY <1>1, <1>2, <3>1
      <4> QED
        BY <1>2, <1>6, <1>11, <4>1 DEF Unscanned
    <3>5. CallsInOrder'
      BY <3>1 DEF CallsInOrder
    <3> QED
      BY <1>4, <3>2, <3>3, <3>4, <3>5 DEF IInv
  <2> QED
    BY <1>11, <2>1, <2>2 DEF Failed
<1> QED
  BY <1>2, <1>9, <1>10, <1>11 DEF Received

\* The peer, and the beginning of a call.
LEMMA PeerKeeps ==
  ASSUME IInv, PeerCloses \/ PeerResets
  PROVE  IInv'
<1>1. UNCHANGED <<sent, streamVars, callVars>> /\ peer' \in {"open", "closed", "reset"}
  BY DEF PeerCloses, PeerResets
<1>2. wire' = wire \/ wire' = <<>>
  BY DEF PeerCloses, PeerResets
<1>3. wire' \in Seq(Byte) /\ Len(wire') \in Nat /\ Len(wire') <= Len(wire)
  BY <1>2 DEF IInv, TypeOK
<1>4. TypeOK'
  BY <1>1, <1>3 DEF IInv, TypeOK, streamVars, callVars
<1>5. WireFollows'
  <2>1. CASE wire' = wire
    BY <1>1, <2>1 DEF IInv, WireFollows, streamVars
  <2>2. CASE wire' = <<>>
    BY <1>1, <1>3, <2>2 DEF IInv, TypeOK, WireFollows, streamVars
  <2> QED
    BY <1>2, <2>1, <2>2
<1>6. Offsets' /\ Unscanned' /\ CallsInOrder'
  BY <1>1 DEF IInv, Offsets, Unscanned, CallsInOrder, streamVars, callVars
<1> QED
  BY <1>4, <1>5, <1>6 DEF IInv

LEMMA CallKeeps ==
  ASSUME IInv, ReadLine \/ \E length \in BodyLengths : ConsumeBody(length)
  PROVE  IInv'
<1>1. /\ UNCHANGED <<streamVars, peerVars>> /\ call' \in {"line", "body"}
      /\ from' = consumedoffset /\ result' = NoResult
      /\ wanted' \in Nat /\ carriageReturn' \in BOOLEAN
  BY BufferAssumption DEF ReadLine, ConsumeBody, IInv, TypeOK
<1>2. call' = "body" => head = consumedoffset
  BY DEF ReadLine, ConsumeBody, IInv, CallsInOrder, Broken
<1>3. TypeOK' /\ Offsets' /\ WireFollows' /\ Unscanned'
  BY <1>1 DEF IInv, TypeOK, Offsets, WireFollows, Unscanned, streamVars, peerVars
<1>4. CallsInOrder'
  BY <1>1, <1>2 DEF CallsInOrder, streamVars
<1> QED
  BY <1>3, <1>4 DEF IInv

\* Scanning writes behind the place it looks at.
LEMMA ScanKeeps ==
  ASSUME IInv, ScanByte \/ ScanLineEnd
  PROVE  IInv'
<1>0. head \in Nat /\ writeoffset \in Nat /\ consumedoffset \in Nat /\ capacity \in Nat
  BY DEF IInv, TypeOK
<1>1. /\ head' = head + 1 /\ head < writeoffset /\ tokenIndex' \in {0, 1}
      /\ consumedoffset' \in {consumedoffset, head + 1}
      /\ UNCHANGED <<capacity, writeoffset, peerVars, wanted, from>>
      /\ carriageReturn' \in BOOLEAN
  <2>1. CASE ScanByte
    <3>1. tokenIndex' \in {0, 1}
      BY <2>1 DEF ScanByte, EndsLine, IInv, TypeOK
    <3> QED
      BY <2>1, <3>1 DEF ScanByte
  <2>2. CASE ScanLineEnd
    BY <2>2 DEF ScanLineEnd, IInv, TypeOK
  <2> QED
    BY <2>1, <2>2
<1>2. /\ buf' \in [0..(capacity - 1) -> Byte \cup {Junk}]
      /\ \A i \in head'..(writeoffset - 1) : buf'[i] = buf[i]
  <2>1. buf' \in {buf, [buf EXCEPT ![head - 1] = "SP"], [buf EXCEPT ![head - 1] = "NUL"]}
    BY DEF ScanByte, ScanLineEnd
  <2>2. \A i \in head'..(writeoffset - 1) : i # head - 1 /\ i \in 0..(capacity - 1)
    BY <1>0, <1>1 DEF IInv, Offsets
  <2>3. buf \in [0..(capacity - 1) -> Byte \cup {Junk}] /\ "SP" \in Byte /\ "NUL" \in Byte
    BY DEF IInv, TypeOK, Byte
  <2> QED
    BY <2>1, <2>2, <2>3
<1>3. call' \in {"line", "none"} /\ (call' = "none" => head' = consumedoffset')
      /\ (call' # "none" => UNCHANGED <<consumedoffset, result, call>>)
  BY DEF ScanByte, ScanLineEnd, Return
<1>4. TypeOK'
  BY <1>0, <1>1, <1>2, <1>3 DEF IInv, TypeOK, peerVars
<1>5. Offsets'
  BY <1>0, <1>1 DEF IInv, Offsets
<1>6. WireFollows'
  BY <1>1 DEF IInv, WireFollows, peerVars
<1>7. Unscanned'
  <2>1. \A i \in head'..(writeoffset - 1) : i \in head..(writeoffset - 1)
    BY <1>0, <1>1
  <2> QED
    BY <1>1, <1>2, <2>1 DEF IInv, Unscanned, peerVars
<1>8. CallsInOrder'
  BY <1>0, <1>1, <1>3 DEF IInv, CallsInOrder
<1> QED
  BY <1>4, <1>5, <1>6, <1>7, <1>8 DEF IInv

\* The ends of the calls that receive nothing.
LEMMA EndKeeps ==
  ASSUME IInv, BodyDone \/ ReceiveError
  PROVE  IInv'
<1>1. /\ UNCHANGED <<buf, capacity, writeoffset, tokenIndex, peerVars, carriageReturn, wanted, from>>
      /\ head \in Nat /\ writeoffset \in Nat /\ wanted \in Nat
  BY DEF BodyDone, ReceiveError, IInv, TypeOK
<1>2. CASE call = "line" /\ Return("line", "RECV_ERROR", <<>>) /\ UNCHANGED <<consumedoffset, head>>
  <2>1. call' = "none" /\ result'.status = "RECV_ERROR"
    BY <1>2 DEF Return
  <2>2. TypeOK' /\ Offsets' /\ WireFollows' /\ Unscanned'
    BY <1>1, <1>2, <2>1 DEF IInv, TypeOK, Offsets, WireFollows, Unscanned, peerVars
  <2>3. CallsInOrder'
    BY <2>1 DEF CallsInOrder, Broken
  <2> QED
    BY <2>2, <2>3 DEF IInv
<1>3. CASE call = "body" /\ BodyReturns(buf)
  <2>1. /\ call' = "none" /\ result'.status = "RECV_SUCCESS"
        /\ head' = consumedoffset' /\ consumedoffset' = head + wanted /\ head' \in Nat
    BY <1>1, <1>3, BodyReturned
  <2>2. TypeOK' /\ Offsets' /\ WireFollows'
    BY <1>1, <2>1 DEF IInv, TypeOK, Offsets, WireFollows, peerVars
  <2>3. Unscanned'
    <3>1. \A i \in head'..(writeoffset - 1) : i \in head..(writeoffset - 1)
      BY <1>1, <2>1
    <3> QED
      BY <1>1, <3>1 DEF IInv, Unscanned, peerVars
  <2>4. CallsInOrder'
    BY <2>1 DEF CallsInOrder
  <2> QED
    BY <2>2, <2>3, <2>4 DEF IInv
<1> QED
  BY <1>2, <1>3 DEF BodyDone, ReceiveError, Failed

\* One step of the stream, for any sizes.
LEMMA StreamInvariant == Spec => []IInv
<1>1. IInv /\ [Next]_vars => IInv'
  <2> SUFFICES ASSUME IInv, [Next]_vars PROVE IInv'
    OBVIOUS
  <2>1. CASE PeerCloses \/ PeerResets
    BY <2>1, PeerKeeps
  <2>2. CASE ReadLine \/ \E length \in BodyLengths : ConsumeBody(length)
    BY <2>2, CallKeeps
  <2>3. CASE ScanByte \/ ScanLineEnd
    BY <2>3, ScanKeeps
  <2>4. CASE BodyDone \/ ReceiveError
    BY <2>4, EndKeeps
  <2>5. CASE ReceiveBytes
    <3>1. PICK k \in 1..Len(wire) : k <= capacity - writeoffset /\ Received(k)
      BY <2>5 DEF ReceiveBytes
    <3>2. k \in Nat /\ k <= Len(wire) /\ NeedsData
      BY <2>5, <3>1 DEF ReceiveBytes, IInv, TypeOK
    <3> QED
      BY <3>1, <3>2, ReceivedKeeps
  <2>6. CASE ReceiveNothing
    <3>1. 0 <= Len(wire) /\ 0 <= capacity - writeoffset /\ NeedsData /\ Received(0)
      BY <2>6 DEF ReceiveNothing, IInv, TypeOK, Offsets
    <3> QED
      BY <3>1, ReceivedKeeps
  <2>7. CASE UNCHANGED vars
    BY <2>7 DEF vars, streamVars, peerVars, callVars, IInv, TypeOK, Offsets, WireFollows, Unscanned,
                CallsInOrder
  <2> QED
    BY <2>1, <2>2, <2>3, <2>4, <2>5, <2>6, <2>7 DEF Next, StreamStep
<1> QED
  BY Initially, <1>1, PTL DEF Spec

\* Every variable of the stream keeps its type.
THEOREM StreamTyped == Spec => []TypeOK
  BY StreamInvariant, PTL DEF IInv

\* The offsets stay ordered and in the buffer, however recv cuts the bytes and the buffer
\* grows (receiveData).
THEOREM OffsetsKept == Spec => []OffsetsOrdered
<1>1. IInv => OffsetsOrdered
  BY DEF IInv, TypeOK, Offsets, OffsetsOrdered, Overdrawn
<1> QED
  BY StreamInvariant, <1>1, PTL

\* What was not scanned is what was sent, at its offset: growing the buffer loses nothing.
THEOREM BufferKept == Spec => []BufferFaithful
<1>1. IInv => BufferFaithful
  BY DEF IInv, TypeOK, Offsets, Unscanned, OffsetsOrdered, Overdrawn, BufferFaithful
<1> QED
  BY StreamInvariant, <1>1, PTL

\* A sequence is the function of its elements.
LEMMA AsFunction ==
  ASSUME NEW S, NEW s \in Seq(S)
  PROVE  s = [i \in 1..Len(s) |-> s[i]]
  OBVIOUS

\* The body handed out by a step that returns from consumeBody.
LEMMA BodyHandedOut ==
  ASSUME IInv, call = "body", IInv', NEW b, BodyReturns(b), DOMAIN b = 0..(capacity - 1),
         UNCHANGED <<sent, from, wanted>>, writeoffset' <= capacity,
         \A i \in head..(writeoffset' - 1) : b[i] = sent[i + 1]
  PROVE  BodyIsRight'
<1>1. /\ result'.data = Slice(b, head, wanted) /\ from = head /\ from' = from /\ sent' = sent
      /\ consumedoffset' = head + wanted
  BY BodyReturned DEF IInv, CallsInOrder
<1>2. /\ head \in Nat /\ wanted \in Nat /\ capacity \in Nat /\ sent \in Seq(Byte)
      /\ writeoffset' \in Nat
  BY DEF IInv, TypeOK
<1>3. ASSUME consumedoffset' <= writeoffset'
      PROVE  result'.data = SubSeq(sent, from + 1, from + wanted)
  <2>1. writeoffset' <= Len(sent)
    BY DEF IInv, WireFollows, TypeOK
  <2>2. \A i \in 1..wanted : /\ head + i - 1 \in head..(writeoffset' - 1)
                             /\ head + i - 1 \in 0..(capacity - 1)
                             /\ head + i - 1 + 1 = from + i
    <3> TAKE i \in 1..wanted
    <3>1. i \in Nat /\ i >= 1 /\ i <= wanted /\ from = head
      BY <1>1, <1>2
    <3>2. head + wanted <= writeoffset'
      BY <1>1, <1>3
    <3> QED
      BY <1>2, <3>1, <3>2
  <2>3. \A i \in 1..wanted : b[head + i - 1] = sent[from + i]
    BY <1>1, <2>2
  <2>4. Slice(b, head, wanted) = [i \in 1..wanted |-> sent[from + i]]
    BY <2>2, <2>3 DEF Slice
  <2>5. /\ SubSeq(sent, from + 1, from + wanted) \in Seq(Byte)
        /\ Len(SubSeq(sent, from + 1, from + wanted)) = wanted
        /\ \A i \in 1..wanted : SubSeq(sent, from + 1, from + wanted)[i] = sent[from + i]
    BY <1>1, <1>2, <1>3, <2>1
  <2>6. SubSeq(sent, from + 1, from + wanted) = [i \in 1..wanted |-> sent[from + i]]
    BY <1>2, <2>5, AsFunction
  <2> QED
    BY <1>1, <2>4, <2>6
<1>4. Len(Slice(b, head, wanted)) = wanted
  BY <1>2 DEF Slice
<1> QED
  BY <1>1, <1>2, <1>3, <1>4 DEF BodyIsRight, Overdrawn, IInv, TypeOK

\* A body handed out whole is what was sent from where the call began (consumeBody).
THEOREM BodiesWhole == Spec => []BodyIsRight
<1>1. Init => BodyIsRight
  BY DEF Init, NoResult, BodyIsRight
<1>2. IInv /\ IInv' /\ BodyIsRight /\ [Next]_vars => BodyIsRight'
  <2> SUFFICES ASSUME IInv, IInv', BodyIsRight, [Next]_vars PROVE BodyIsRight'
    OBVIOUS
  <2>1. CASE call = "none" /\ call' = "none"
    <3>1. UNCHANGED <<result, consumedoffset, writeoffset, sent, from>>
      BY <2>1 DEF Next, StreamStep, PeerCloses, PeerResets, ReadLine, ConsumeBody, ScanByte,
         ScanLineEnd, BodyDone, ReceiveBytes, ReceiveNothing, ReceiveError, NeedsData, vars,
         streamVars, peerVars, callVars
    <3> QED
      BY <3>1 DEF BodyIsRight, Overdrawn
  <2>2. CASE call' # "none"
    BY <2>2 DEF IInv, CallsInOrder, NoResult, BodyIsRight
  <2>3. CASE call = "line" /\ call' = "none"
    <3>1. result'.op = "line"
      BY <2>3 DEF Next, StreamStep, PeerCloses, PeerResets, ReadLine, ConsumeBody, ScanByte,
         ScanLineEnd, BodyDone, ReceiveBytes, ReceiveNothing, ReceiveError, Received, GoOn, Failed,
         Return, NeedsData, vars, streamVars, peerVars, callVars
    <3> QED
      BY <3>1 DEF BodyIsRight
  <2>4. CASE call = "body" /\ call' = "none"
    <3>1. \/ BodyDone
          \/ ReceiveError
          \/ \E k \in Nat : k <= Len(wire) /\ k <= capacity - writeoffset /\ Received(k)
      BY <2>4 DEF Next, StreamStep, PeerCloses, PeerResets, ReadLine, ConsumeBody, ScanByte,
         ScanLineEnd, ReceiveBytes, ReceiveNothing, IInv, TypeOK, Offsets, vars, streamVars,
         peerVars, callVars
    <3>2. CASE BodyDone \/ ReceiveError
      <4>1. BodyReturns(buf) /\ UNCHANGED <<buf, writeoffset, sent, from, wanted>>
        BY <2>4, <3>2 DEF BodyDone, ReceiveError, Failed, peerVars
      <4> QED
        BY <2>4, <4>1, BodyHandedOut DEF IInv, TypeOK, Offsets, Unscanned
    <3>3. ASSUME NEW k \in Nat, k <= Len(wire), k <= capacity - writeoffset, Received(k)
          PROVE  BodyIsRight'
      <4>1. buf' = Filled(k) /\ BodyReturns(buf') /\ UNCHANGED <<sent, from, wanted>>
        BY <2>4, <3>3 DEF Received, GoOn, Failed
      <4>2. writeoffset' = writeoffset + k /\ writeoffset' <= capacity
        BY <3>3 DEF Received, IInv, TypeOK
      <4>3. /\ \A i \in head..(writeoffset + k - 1) : Filled(k)[i] = sent[i + 1]
            /\ DOMAIN Filled(k) = 0..(capacity - 1)
        BY <3>3, FilledRight
      <4>4. BodyReturns(Filled(k))
        BY <4>1 DEF BodyReturns, Return
      <4>5. \A i \in head..(writeoffset' - 1) : Filled(k)[i] = sent[i + 1]
        <5>1. head \in Nat /\ writeoffset \in Nat /\ writeoffset' - 1 = writeoffset + k - 1
          BY <4>2 DEF IInv, TypeOK
        <5> QED
          BY <4>3, <5>1
      <4>6. UNCHANGED <<sent, from, wanted>>
        BY <4>1
      <4> QED
        BY <2>4, <4>2, <4>3, <4>4, <4>5, <4>6, BodyHandedOut
    <3> QED
      BY <3>1, <3>2, <3>3
  <2>5. call \in {"none", "line", "body"}
    BY DEF IInv, TypeOK
  <2> QED
    BY <2>1, <2>2, <2>3, <2>4, <2>5
<1> QED
  BY StreamInvariant, <1>1, <1>2, PTL DEF Spec

(***************************************************************************)
(* Lines.  The terminator is recognised byte by byte, and of two CRs in a  *)
(* row the second is not taken for its beginning.                          *)
(***************************************************************************)
CRsApart == \A s \in Streams : \A i \in 1..(Len(s) - 1) : ~(s[i] = "CR" /\ s[i + 1] = "CR")

LastIsCR == head > consumedoffset /\ sent[head] = "CR"
Scanned ==
    /\ tokenIndex = 1 <=> LastIsCR
    /\ \A i \in consumedoffset..(head - 2) : ~(sent[i + 1] = "CR" /\ sent[i + 2] = "LF")
    /\ \A i \in consumedoffset..(head - 1) : SameButCR(buf[i], sent[i + 1])
    /\ call = "line" /\ carriageReturn => LastIsCR

\* The offsets as numbers.
LEMMA Numbers ==
  ASSUME IInv
  PROVE  /\ head \in Nat /\ consumedoffset \in Nat /\ writeoffset \in Nat /\ capacity \in Nat
         /\ wanted \in Nat /\ Len(wire) \in Nat /\ Len(sent) \in Nat
         /\ consumedoffset <= head /\ writeoffset <= Len(sent) /\ writeoffset <= capacity
  <1>1. /\ head \in Nat /\ consumedoffset \in Nat /\ writeoffset \in Nat /\ capacity \in Nat
        /\ wanted \in Nat /\ Len(wire) \in Nat /\ Len(sent) \in Nat
    BY DEF IInv, TypeOK
  <1> QED
    BY <1>1 DEF IInv, Offsets, WireFollows

LEMMA ByteScans ==
  ASSUME CRsApart, IInv, Scanned, ScanByte
  PROVE  Scanned'
<1> DEFINE c == consumedoffset
           h == head
<1>1. /\ h \in Nat /\ c \in Nat /\ c <= h /\ h < writeoffset /\ writeoffset \in Nat
      /\ head' = h + 1 /\ consumedoffset' = c /\ sent' = sent /\ sent \in Streams
      /\ h < Len(sent) /\ Len(sent) \in Nat
  BY Numbers DEF ScanByte, IInv, WireFollows, peerVars
<1>2. buf[h] = sent[h + 1]
  BY <1>1 DEF IInv, Unscanned
<1>3. tokenIndex \in {0, 1} /\ (tokenIndex = 1 <=> LastIsCR)
  BY DEF IInv, TypeOK, Scanned
<1>4. tokenIndex' = 1 <=> sent[h + 1] = "CR"
  <2>1. CASE tokenIndex = 0
    BY <1>2, <2>1 DEF ScanByte, Token
  <2>2. CASE tokenIndex = 1
    <3>1. h \in 1..(Len(sent) - 1) /\ sent[h] = "CR"
      BY <1>1, <1>3, <2>2 DEF LastIsCR
    <3>2. sent[h + 1] # "CR"
      BY <1>1, <3>1 DEF CRsApart
    <3>3. tokenIndex' = 0
      BY <2>2 DEF ScanByte, EndsLine, Token
    <3> QED
      BY <3>2, <3>3
  <2> QED
    BY <1>3, <2>1, <2>2
<1>5. LastIsCR' <=> sent[h + 1] = "CR"
  BY <1>1 DEF LastIsCR
<1>6. \A i \in c..(h + 1 - 2) : ~(sent[i + 1] = "CR" /\ sent[i + 2] = "LF")
  <2> SUFFICES ASSUME NEW i \in c..(h + 1 - 2), sent[i + 1] = "CR", sent[i + 2] = "LF"
               PROVE  FALSE
    OBVIOUS
  <2>1. CASE i = h - 1
    <3>1. tokenIndex = 1 /\ buf[h] = "LF"
      BY <1>1, <1>2, <1>3, <2>1 DEF LastIsCR
    <3> QED
      BY <3>1 DEF ScanByte, EndsLine, Token
  <2>2. CASE i # h - 1
    <3>1. i \in c..(h - 2)
      BY <1>1, <2>2
    <3> QED
      BY <3>1 DEF Scanned
  <2> QED
    BY <2>1, <2>2
<1>7. \A i \in c..(h + 1 - 1) : SameButCR(buf'[i], sent[i + 1])
  <2> TAKE i \in c..(h + 1 - 1)
  <2>1. i \in DOMAIN buf /\ i \in Nat
    BY <1>1, Numbers DEF IInv, TypeOK
  <2>2. CASE i = h
    <3>1. buf'[i] = buf[i]
      BY <1>1, <2>1, <2>2 DEF ScanByte
    <3> QED
      BY <1>2, <2>2, <3>1 DEF SameButCR
  <2>3. CASE i # h
    <3>1. i \in c..(h - 1) /\ SameButCR(buf[i], sent[i + 1])
      BY <1>1, <2>3 DEF Scanned
    <3>2. CASE buf'[i] = buf[i]
      BY <3>1, <3>2
    <3>3. CASE buf'[i] # buf[i]
      <4>1. carriageReturn /\ i = h - 1 /\ buf'[i] = "SP"
        BY <2>1, <3>3 DEF ScanByte
      <4>2. sent[h] = "CR"
        BY <4>1 DEF ScanByte, Scanned, LastIsCR
      <4> QED
        BY <1>1, <4>1, <4>2 DEF SameButCR
    <3> QED
      BY <3>2, <3>3
  <2> QED
    BY <2>2, <2>3
<1>8. carriageReturn' => sent[h + 1] = "CR"
  BY <1>2 DEF ScanByte
<1> QED
  BY <1>1, <1>4, <1>5, <1>6, <1>7, <1>8 DEF Scanned

\* After a line or a body nothing is scanned.
LEMMA FreshScan ==
  ASSUME head' \in Nat, consumedoffset' = head', tokenIndex' = 0, call' # "line"
  PROVE  Scanned'
<1>1. (consumedoffset..(head - 1))' = {} /\ (consumedoffset..(head - 2))' = {}
  <2>1. \A n \in Nat : n..(n - 1) = {} /\ n..(n - 2) = {}
    OBVIOUS
  <2> QED
    BY <2>1
<1>2. ~LastIsCR'
  <2>1. ~(head' > consumedoffset')
    OBVIOUS
  <2> QED
    BY <2>1 DEF LastIsCR
<1>3. ~(tokenIndex' = 1)
  OBVIOUS
<1>4. /\ \A i \in (consumedoffset..(head - 2))' : ~(sent'[i + 1] = "CR" /\ sent'[i + 2] = "LF")
      /\ \A i \in (consumedoffset..(head - 1))' : SameButCR(buf'[i], sent'[i + 1])
  BY <1>1
<1> QED
  BY <1>2, <1>3, <1>4 DEF Scanned

\* The step that completes a line, and the line it returns.
LEMMA LineEndScans ==
  ASSUME IInv, Scanned, ScanLineEnd
  PROVE  Scanned' /\ LineIsRight'
<1> DEFINE c == consumedoffset
           h == head
           n == h + 1 - c - 2
<1>1. /\ h \in Nat /\ c \in Nat /\ c <= h /\ h < writeoffset /\ writeoffset \in Nat
      /\ head' = h + 1 /\ consumedoffset' = h + 1 /\ tokenIndex' = 0 /\ call' = "none"
      /\ sent' = sent /\ from' = from /\ writeoffset' = writeoffset
      /\ h < Len(sent) /\ Len(sent) \in Nat /\ h < capacity /\ capacity \in Nat
  BY Numbers DEF ScanLineEnd, Return, peerVars
<1>2. from = c
  BY DEF ScanLineEnd, IInv, CallsInOrder
<1>3. h > c /\ sent[h] = "CR" /\ sent[h + 1] = "LF"
  <2>1. tokenIndex = 1 /\ buf[h] = "LF"
    BY DEF ScanLineEnd, EndsLine, Token
  <2>2. buf[h] = sent[h + 1]
    BY <1>1 DEF IInv, Unscanned
  <2> QED
    BY <2>1, <2>2 DEF Scanned, LastIsCR
<1>4. Scanned'
  BY <1>1, FreshScan
<1>5. result'.data = Slice(buf', c, n)
  BY <1>1 DEF ScanLineEnd, Return, Token
<1>6. n \in Nat /\ n = h - 1 - c
  BY <1>1, <1>3
<1> HIDE DEF n
<1>7. \A i \in 1..n : SameButCR(Slice(buf', c, n)[i], sent[c + i])
  <2> TAKE i \in 1..n
  <2>1. /\ c + i - 1 \in c..(h - 1) /\ c + i - 1 # h - 1 /\ c + i - 1 + 1 = c + i
        /\ c + i - 1 \in 0..(capacity - 1)
    BY <1>1, <1>6
  <2>2. buf'[c + i - 1] = buf[c + i - 1] /\ c + i - 1 \in DOMAIN buf'
    BY <2>1 DEF ScanLineEnd, IInv, TypeOK
  <2>3. SameButCR(buf[c + i - 1], sent[c + i])
    BY <2>1 DEF Scanned
  <2> QED
    BY <2>2, <2>3 DEF Slice
<1>8. Len(Slice(buf', c, n)) = n
  BY <1>6 DEF Slice
<1>9. h - 1 \in LineEnds(c)
  BY <1>1, <1>3 DEF LineEnds
<1>10. \A j \in LineEnds(c) : h - 1 <= j
  <2> SUFFICES ASSUME NEW j \in c..(Len(sent) - 2), sent[j + 1] = "CR", sent[j + 2] = "LF",
                      ~(h - 1 <= j)
               PROVE  FALSE
    BY DEF LineEnds
  <2>1. j \in c..(h - 2)
    BY <1>1
  <2> QED
    BY <2>1 DEF Scanned
<1>11. \A j : (j \in LineEnds(from))' <=> j \in LineEnds(c)
  BY <1>1, <1>2 DEF LineEnds
<1>12. LineIsRight'
  <2>1. /\ h - 1 \in LineEnds(from)' /\ \A j \in LineEnds(from)' : h - 1 <= j
    BY <1>9, <1>10, <1>11
  <2>2. Len(result'.data) = h - 1 - from'
    BY <1>1, <1>2, <1>5, <1>6, <1>8
  <2>3. \A i \in 1..(h - 1 - from') : SameButCR(result'.data[i], sent'[from' + i])
    BY <1>1, <1>2, <1>5, <1>6, <1>7
  <2> QED
    BY <2>1, <2>2, <2>3 DEF LineIsRight
<1> QED
  BY <1>4, <1>12

\* A body begins after all that was scanned.
LEMMA BodyScans ==
  ASSUME IInv, Scanned, call = "body", NEW b, BodyReturns(b), UNCHANGED <<tokenIndex, wanted>>
  PROVE  Scanned'
<1>1. head = consumedoffset /\ head \in Nat
  BY DEF IInv, CallsInOrder, TypeOK
<1>2. tokenIndex = 0
  BY <1>1 DEF IInv, TypeOK, Scanned, LastIsCR
<1>3. head' \in Nat /\ consumedoffset' = head' /\ call' # "line"
  BY BodyReturned
<1> QED
  BY <1>2, <1>3, FreshScan

\* The scan does not move.
LEMMA SameScan ==
  ASSUME Scanned, UNCHANGED <<head, consumedoffset, tokenIndex, sent>>,
         \A i \in consumedoffset..(head - 1) : buf'[i] = buf[i],
         call' = "line" /\ carriageReturn' => call = "line" /\ carriageReturn
  PROVE  Scanned'
<1>1. LastIsCR' <=> LastIsCR
  BY DEF LastIsCR
<1>2. \A i \in consumedoffset..(head - 1) : SameButCR(buf'[i], sent[i + 1])
  BY DEF Scanned
<1> QED
  BY <1>1, <1>2 DEF Scanned

LEMMA ReceivedScans ==
  ASSUME IInv, Scanned, NeedsData, NEW k \in Nat, k <= Len(wire), k <= capacity - writeoffset,
         Received(k)
  PROVE  Scanned'
<1>1. UNCHANGED <<tokenIndex, sent, wanted>> /\ writeoffset' = writeoffset + k
  BY DEF Received
<1>2. CASE call = "body" /\ BodyReturns(buf')
  <2>1. BodyReturns(Filled(k)) \/ BodyReturns(Grown(Filled(k), writeoffset'))
    BY <1>2 DEF Received, BodyReturns, Return, GoOn
  <2> QED
    BY <1>1, <1>2, <2>1, BodyScans
<1>3. CASE ~(call = "body" /\ BodyReturns(buf'))
  <2>1. /\ UNCHANGED <<head, consumedoffset>>
        /\ call' = "line" => ~carriageReturn'
    BY <1>3 DEF Received, GoOn, Failed, Return
  <2>2. buf' = Filled(k) \/ buf' = Grown(Filled(k), writeoffset')
    BY DEF Received
  <2>3. \A i \in consumedoffset..(head - 1) : Filled(k)[i] = buf[i]
    <3>1. \A i \in consumedoffset..(head - 1) : i \in 0..(writeoffset - 1)
      BY Numbers DEF IInv, Offsets
    <3> QED
      BY <3>1, FilledRight
  <2>4. \A i \in consumedoffset..(head - 1) : Grown(Filled(k), writeoffset')[i] = Filled(k)[i]
    <3>1. Filled(k) \in [0..(capacity - 1) -> Byte \cup {Junk}]
      BY FilledRight
    <3>2. writeoffset' \in Nat /\ writeoffset' <= capacity
      BY <1>1, Numbers
    <3>3. \A i \in consumedoffset..(head - 1) : i \in consumedoffset..(writeoffset' - 1)
      BY <1>1, Numbers DEF IInv, Offsets
    <3> QED
      BY <3>1, <3>2, <3>3, GrownRight
  <2>5. \A i \in consumedoffset..(head - 1) : buf'[i] = buf[i]
    BY <2>2, <2>3, <2>4
  <2> QED
    BY <1>1, <2>1, <2>5, SameScan
<1> QED
  BY <1>2, <1>3

\* A line is what was sent up to its CR LF, however it was cut and wherever the buffer
\* grew, but for the CRs that were blanked (readLine), if no two CRs follow each other.
THEOREM LinesWhole == CRsApart => (Spec => []LineIsRight)
<1> SUFFICES ASSUME CRsApart PROVE Spec => []LineIsRight
  OBVIOUS
<1>1. Init => Scanned /\ LineIsRight
  <2> SUFFICES ASSUME Init PROVE Scanned /\ LineIsRight
    OBVIOUS
  <2>1. \A i \in 0..(0 - 1) : FALSE
    OBVIOUS
  <2>2. \A i \in 0..(0 - 2) : FALSE
    OBVIOUS
  <2> QED
    BY <2>1, <2>2 DEF Init, NoResult, Scanned, LastIsCR, LineIsRight
<1>2. IInv /\ IInv' /\ Scanned /\ LineIsRight /\ [Next]_vars => Scanned' /\ LineIsRight'
  <2> SUFFICES ASSUME IInv, IInv', Scanned, LineIsRight, [Next]_vars
               PROVE  Scanned' /\ LineIsRight'
    OBVIOUS
  <2>1. CASE ScanByte
    <3>1. call' = "line"
      BY <2>1 DEF ScanByte
    <3> QED
      BY <2>1, <3>1, ByteScans DEF IInv, CallsInOrder, NoResult, LineIsRight
  <2>2. CASE ScanLineEnd
    BY <2>2, LineEndScans
  <2>3. CASE ReceiveBytes \/ ReceiveNothing
    <3>1. NeedsData /\ \E k \in Nat : k <= Len(wire) /\ k <= capacity - writeoffset /\ Received(k)
      <4>1. CASE ReceiveBytes
        BY <4>1, Numbers DEF ReceiveBytes
      <4>2. CASE ReceiveNothing
        BY <4>2, Numbers DEF ReceiveNothing
      <4> QED
        BY <2>3, <4>1, <4>2
    <3>2. Scanned'
      BY <3>1, ReceivedScans
    <3>3. result'.status \notin {"LF_REACHED", "EMPTY_LINE"}
      BY <3>1 DEF NeedsData, Received, GoOn, Failed, BodyReturns, Return, IInv, CallsInOrder, NoResult
    <3> QED
      BY <3>2, <3>3 DEF LineIsRight
  <2>4. CASE BodyDone \/ ReceiveError
    <3>1. result'.status \notin {"LF_REACHED", "EMPTY_LINE"}
      BY <2>4 DEF BodyDone, ReceiveError, Failed, BodyReturns, Return
    <3>2. UNCHANGED <<tokenIndex, wanted>> /\ buf' = buf /\ sent' = sent
      BY <2>4 DEF BodyDone, ReceiveError, peerVars
    <3>3. Scanned'
      <4>1. CASE call = "body" /\ BodyReturns(buf)
        BY <3>2, <4>1, BodyScans
      <4>2. CASE call' = "none" /\ UNCHANGED <<consumedoffset, head>>
        BY <3>2, <4>2, SameScan
      <4> QED
        BY <2>4, <4>1, <4>2 DEF BodyDone, ReceiveError, Failed, Return
    <3> QED
      BY <3>1, <3>3 DEF LineIsRight
  <2>5. CASE ReadLine \/ \E length \in BodyLengths : ConsumeBody(length)
    <3>1. /\ UNCHANGED <<head, consumedoffset, tokenIndex, sent, buf>> /\ result' = NoResult
          /\ call' = "line" => ~carriageReturn'
      BY <2>5 DEF ReadLine, ConsumeBody, streamVars, peerVars
    <3> QED
      BY <3>1, SameScan DEF NoResult, LineIsRight
  <2>6. CASE PeerCloses \/ PeerResets \/ UNCHANGED vars
    <3>1. UNCHANGED <<head, consumedoffset, writeoffset, tokenIndex, sent, buf, call, carriageReturn,
                      from, result>>
      BY <2>6 DEF PeerCloses, PeerResets, vars, streamVars, peerVars, callVars
    <3> QED
      BY <3>1, SameScan DEF LineIsRight, LineEnds
  <2> QED
    BY <2>1, <2>2, <2>3, <2>4, <2>5, <2>6 DEF Next, StreamStep
<1> QED
  BY StreamInvariant, <1>1, <1>2, PTL DEF Spec
=============================================================================
