----------------------------- MODULE HttpStream -----------------------------
(***************************************************************************)
(* HTTPStream (src/http/http.c): the growing buffer between a connection's *)
(* socket and the parser.  readLine hands out the bytes up to the next     *)
(* CR LF, consumeBody a number of bytes; both call receiveData when the    *)
(* buffer holds too little, and the network cuts the bytes the peer sends  *)
(* into pieces as it likes.                                                *)
(*                                                                         *)
(* Offsets count from 0 as in the code, and nothing ever shifts the        *)
(* buffer: byte i of the buffer is byte i + 1 of what the peer sent.       *)
(***************************************************************************)
EXTENDS Integers, Sequences

CONSTANTS Other,        \* the bytes that are neither CR, LF, space nor NUL
          Streams,      \* what the peer may send
          InitBuffer,   \* HTTP_STREAM_INIT_BUFFER
          MaxBuffer,    \* HTTP_STREAM_MAX_BUFFER
          BodyLengths   \* the lengths consumeBody is called with

Byte == Other \cup {"CR", "LF", "SP", "NUL"}
Junk == "junk"          \* what custom_alloc leaves in a new buffer

ASSUME BufferAssumption ==
    /\ InitBuffer \in Nat \ {0} /\ MaxBuffer \in Nat
    /\ Streams \subseteq Seq(Byte)
    /\ BodyLengths \subseteq Nat
    /\ Other \cap {"CR", "LF", "SP", "NUL", "junk"} = {}

VARIABLES
    sent,            \* what the peer sends on this connection
    wire,            \* the part of it that recv has not returned yet
    peer,            \* "open", "closed" (recv returns 0) or "reset" (recv fails)
    buf, capacity, writeoffset, consumedoffset, head, tokenIndex,  \* the HTTPStream
    call,            \* the call in progress: "none", "line" or "body"
    carriageReturn,  \* the local of consumeUntilLineFeed
    wanted,          \* the contentLength of consumeBody
    from,            \* history: consumedoffset when the call began
    result           \* what the last call returned

streamVars == <<buf, capacity, writeoffset, consumedoffset, head, tokenIndex>>
peerVars == <<sent, wire, peer>>
callVars == <<call, carriageReturn, wanted, from, result>>
vars == <<streamVars, peerVars, callVars>>

NoResult == [op |-> "none", status |-> "none", data |-> <<>>]

\* initHTTPStream.
Init ==
    /\ sent \in Streams
    /\ wire = sent
    /\ peer = "open"
    /\ buf = [i \in 0..(InitBuffer - 1) |-> Junk]
    /\ capacity = InitBuffer
    /\ writeoffset = 0
    /\ consumedoffset = 0
    /\ head = 0
    /\ tokenIndex = 0
    /\ call = "none"
    /\ carriageReturn = FALSE
    /\ wanted = 0
    /\ from = 0
    /\ result = NoResult

----------------------------------------------------------------------------
(* The peer ends its side after its last byte, or resets the connection,   *)
(* which loses the bytes on the wire.                                      *)

PeerCloses ==
    /\ peer = "open"
    /\ wire = <<>>
    /\ peer' = "closed"
    /\ UNCHANGED <<sent, wire, streamVars, callVars>>

PeerResets ==
    /\ peer = "open"
    /\ peer' = "reset"
    /\ wire' = <<>>
    /\ UNCHANGED <<sent, streamVars, callVars>>

----------------------------------------------------------------------------
(* The parser's calls.                                                     *)

ReadLine ==
    /\ call = "none"
    /\ call' = "line"
    /\ carriageReturn' = FALSE
    /\ from' = consumedoffset
    /\ result' = NoResult
    /\ UNCHANGED <<streamVars, peerVars, wanted>>

\* consumeBody handed out bytes it never received: it did not notice that receiveData
\* failed, and the offsets say so ever after.
Overdrawn == consumedoffset > writeoffset

\* After a failure the parser gives up, or goes on with a line (readBodyChunked
\* ignores what becomes of its first chunk).
ConsumeBody(length) ==
    /\ call = "none"
    /\ ~Overdrawn
    /\ result.status \notin {"RECV_ERROR", "BUF_TOO_BIG"}
    /\ call' = "body"
    /\ wanted' = length
    /\ from' = consumedoffset
    /\ result' = NoResult
    /\ UNCHANGED <<streamVars, peerVars, carriageReturn>>

Return(op, status, data) ==
    /\ call' = "none"
    /\ result' = [op |-> op, status |-> status, data |-> data]

----------------------------------------------------------------------------
(* consumeUntilLineFeed, one byte a step, and the end of readLine.         *)

Token == <<"CR", "LF">>

Slice(b, first, length) ==
    [i \in 1..length |-> IF first + i - 1 \in DOMAIN b THEN b[first + i - 1] ELSE Junk]

\* A line feed that ends a line whatever comes before it.
EndsLineAtLF(c) == c = "LF"

\* The byte completes CR LF.
EndsLine(c) == c = Token[tokenIndex + 1] /\ tokenIndex = 1

ScanByte ==
    /\ call = "line"
    /\ head < writeoffset
    /\ ~EndsLine(buf[head])
    /\ head' = head + 1
    /\ tokenIndex' = IF buf[head] = Token[tokenIndex + 1] THEN tokenIndex + 1 ELSE 0
    /\ buf' = IF carriageReturn THEN [buf EXCEPT ![head - 1] = "SP"] ELSE buf
    /\ carriageReturn' = (~carriageReturn /\ buf[head] = "CR")
    /\ UNCHANGED <<capacity, writeoffset, consumedoffset, peerVars, call, wanted, from, result>>

\* The terminating NUL replaces the CR; the line starts at consumedoffset.
ScanLineEnd ==
    /\ call = "line"
    /\ head < writeoffset
    /\ EndsLine(buf[head])
    /\ head' = head + 1
    /\ tokenIndex' = 0
    /\ buf' = [buf EXCEPT ![head - 1] = "NUL"]
    /\ consumedoffset' = head'
    /\ LET length == head' - consumedoffset - Len(Token)
       IN  Return("line", IF length > 0 THEN "LF_REACHED" ELSE "EMPTY_LINE",
                  Slice(buf', consumedoffset, length))
    /\ UNCHANGED <<capacity, writeoffset, peerVars, carriageReturn, wanted, from>>

----------------------------------------------------------------------------
(* The end of consumeBody.                                                 *)

BodyReady == writeoffset - consumedoffset >= wanted

\* Hands out the bytes and moves head and consumedoffset past them, received or not.
BodyReturns(b) ==
    /\ consumedoffset' = consumedoffset + wanted
    /\ head' = consumedoffset'
    /\ Return("body", "RECV_SUCCESS", Slice(b, consumedoffset, wanted))

BodyDone ==
    /\ call = "body"
    /\ BodyReady
    /\ BodyReturns(buf)
    /\ UNCHANGED <<buf, capacity, writeoffset, tokenIndex, peerVars, carriageReturn, wanted, from>>

----------------------------------------------------------------------------
(* receiveData, called when readLine has scanned everything or consumeBody *)
(* lacks bytes.                                                            *)

NeedsData == (call = "line" /\ head >= writeoffset) \/ (call = "body" /\ ~BodyReady)

\* readLine passes a failure on and otherwise scans again, with a new local;
\* consumeBody only leaves its loop.
Failed(status, b) ==
    \/ call = "line" /\ Return("line", status, <<>>) /\ UNCHANGED <<consumedoffset, head>>
    \/ call = "body" /\ BodyReturns(b)

GoOn ==
    /\ carriageReturn' = FALSE
    /\ UNCHANGED <<call, result, consumedoffset, head>>

\* recv told to write behind the bytes scanned so far.
FilledAtHead(k) ==
    [i \in DOMAIN buf |-> IF i \in head..(head + k - 1) THEN wire[i - head + 1] ELSE buf[i]]

\* The first k bytes of the wire behind those already in the buffer.
Filled(k) ==
    [i \in DOMAIN buf |->
        IF i \in writeoffset..(writeoffset + k - 1) THEN wire[i - writeoffset + 1] ELSE buf[i]]

\* The bytes received last are not copied.
GrownStale(b, end) ==
    [i \in 0..(2 * capacity - 1) |->
        IF i \in consumedoffset..(writeoffset - 1) THEN b[i] ELSE Junk]

\* The doubled buffer keeps what was not consumed yet, at its old offsets.
Grown(b, end) ==
    [i \in 0..(2 * capacity - 1) |-> IF i \in consumedoffset..(end - 1) THEN b[i] ELSE Junk]

\* recv returns k bytes; k = 0 stands for a peer that closed or a full buffer.
Received(k) ==
    /\ wire' = SubSeq(wire, k + 1, Len(wire))
    /\ writeoffset' = writeoffset + k
    /\ \/ /\ writeoffset' < capacity
          /\ buf' = Filled(k)
          /\ UNCHANGED capacity
          /\ GoOn
       \/ /\ writeoffset' >= capacity
          /\ capacity >= MaxBuffer
          /\ buf' = Filled(k)
          /\ UNCHANGED <<capacity, carriageReturn>>
          /\ Failed("BUF_TOO_BIG", buf')
       \/ /\ writeoffset' >= capacity
          /\ capacity < MaxBuffer
          /\ capacity' = 2 * capacity
          /\ buf' = Grown(Filled(k), writeoffset')
          /\ GoOn
    /\ UNCHANGED <<tokenIndex, sent, peer, wanted, from>>

\* recv returns the next bytes, as many as it likes and the buffer takes.
ReceiveBytes ==
    /\ NeedsData
    /\ wire # <<>>
    /\ \E k \in 1..Len(wire) : k <= capacity - writeoffset /\ Received(k)

\* recv returns 0: nothing changes, and the caller asks again.
ReceiveNothing ==
    /\ NeedsData
    /\ (peer = "closed" /\ wire = <<>>) \/ writeoffset = capacity
    /\ Received(0)

\* A failed recv taken for a closed connection.
ReceiveErrorIgnored ==
    /\ NeedsData
    /\ peer = "reset" /\ writeoffset < capacity
    /\ Received(0)

\* recv fails with an errno other than EINTR; EINTR only repeats it.
ReceiveError ==
    /\ NeedsData
    /\ peer = "reset" /\ writeoffset < capacity
    /\ Failed("RECV_ERROR", buf)
    /\ UNCHANGED <<buf, capacity, writeoffset, tokenIndex, peerVars, carriageReturn, wanted, from>>

StreamStep == ScanByte \/ ScanLineEnd \/ BodyDone \/ ReceiveBytes \/ ReceiveNothing \/ ReceiveError

Next ==
    \/ PeerCloses \/ PeerResets
    \/ ReadLine \/ (\E length \in BodyLengths : ConsumeBody(length))
    \/ StreamStep

Spec == Init /\ [][Next]_vars

\* The worker runs, and the bytes on the wire arrive.
FairSpec == Spec /\ WF_vars(StreamStep)
----------------------------------------------------------------------------
(* Properties.                                                             *)

\* Every variable has its type.
TypeOK ==
    /\ sent \in Seq(Byte) /\ wire \in Seq(Byte)
    /\ peer \in {"open", "closed", "reset"}
    /\ capacity \in Nat /\ writeoffset \in Nat /\ consumedoffset \in Nat /\ head \in Nat
    /\ buf \in [0..(capacity - 1) -> Byte \cup {Junk}]
    /\ tokenIndex \in {0, 1}
    /\ call \in {"none", "line", "body"}
    /\ carriageReturn \in BOOLEAN
    /\ wanted \in Nat /\ from \in Nat

\* The offsets stay ordered and inside the buffer, whatever sizes recv returns and
\* wherever the buffer grows; once the buffer is full it is at its limit.
OffsetsOrdered ==
    /\ writeoffset <= capacity
    /\ writeoffset = capacity => capacity >= MaxBuffer
    /\ ~Overdrawn => consumedoffset <= head /\ head <= writeoffset

\* With that, growing the buffer loses nothing: what the parser has not scanned yet is what
\* the peer sent, at the same offset.
BufferFaithful ==
    /\ TypeOK /\ OffsetsOrdered
    /\ ~Overdrawn => \A i \in head..(writeoffset - 1) : buf[i] = sent[i + 1]

\* Where the next line ends in the bytes sent: at the first CR LF.
LineEnds(first) == {k \in first..(Len(sent) - 2) : sent[k + 1] = "CR" /\ sent[k + 2] = "LF"}

SameButCR(a, b) == a = b \/ (a = "SP" /\ b = "CR")

\* A line that readLine returns is what was sent up to the next CR LF, however the
\* network cut it and wherever the buffer grew, but for the CRs it blanked.
LineIsRight ==
    result.op = "line" /\ result.status \in {"LF_REACHED", "EMPTY_LINE"} /\ from <= writeoffset =>
        \E k \in LineEnds(from) :
            /\ \A j \in LineEnds(from) : k <= j
            /\ Len(result.data) = k - from
            /\ \A i \in 1..(k - from) : SameButCR(result.data[i], sent[from + i])

\* A body that arrived in full is what was sent.
BodyIsRight ==
    result.op = "body" /\ ~Overdrawn => result.data = SubSeq(sent, from + 1, from + Len(result.data))

\* A call in progress ends as long as bytes come in or the connection fails.  It does
\* not end when the peer closed it: recv's 0 counts as a success (http.c:175-195).
CallEnds == call # "none" ~> call = "none" \/ (wire = <<>> /\ peer # "reset")
=============================================================================
