------------------------------ MODULE Exchange ------------------------------
(***************************************************************************)
(* One request from its parsed head to the last byte of its response:      *)
(* prepareHTTPRequestMetadata, the two coding filters, a handler, and      *)
(* sendResponse (src/parser/encodingFilter.c, compression.c, parser.c,     *)
(* chunked.c, src/utils/netutils.c, src/server/fshandler.c).               *)
(*                                                                         *)
(* A request is a record:                                                  *)
(*   acceptEncoding, te, accept   the lines of these headers, <<>> if none *)
(*   transferCoding, contentCoding, mediaType   of its own body, mediaType *)
(*                "none", "good" or "bad" (one that does not parse)        *)
(*   length, fault   of that body, decoded: fault is "cut" or "corrupt" if *)
(*                the compressed data ends early or is damaged             *)
(*   plan, size   what answers it, and the bytes of the answer's body:     *)
(*     "file"     handleGETFile with a file                                *)
(*     "page"     a handler that fills the body and sends it               *)
(*     "missing"  handleNotFound, which keeps the codings chosen           *)
(*     "error"    makeErrorResponse and a nonzero result                   *)
(*     "head"     handleHEADFile, which states a length and has no body    *)
(***************************************************************************)
EXTENDS Negotiation, SequencesExt, FiniteSetsExt

CONSTANTS Requests,
          Actual,       \* the type magic finds for the file
          ChunkSize,    \* CHUNKED_CHUNK_SIZE
          InflateChunk  \* INFLATE_CHUNK_SIZE

Compressed == {"gzip", "deflate"}
Coded(coding, n) == IF coding \in Compressed THEN n + 1 ELSE n  \* bytes of n bytes coded

EncodingItems == [name : STRING, weight : Nat \cup {NoWeight}, spacing : {"none", "before", "after"}]
TypeItems == [major : STRING, minor : STRING, weight : Nat \cup {NoWeight},
              spacing : {"none", "before", "after"}]

ASSUME ExchangeAssumption ==
    /\ ChunkSize \in Nat \ {0} /\ InflateChunk \in Nat \ {0}
    /\ QueueCap \in Nat \ {0} /\ MaxElements \in Nat /\ QueueCap <= MaxElements
    /\ \A r \in Requests :
          /\ r.length \in Nat /\ r.size \in Nat /\ r.fault \in {"none", "cut", "corrupt"}
          /\ r.acceptEncoding \in Seq(Seq(EncodingItems)) /\ r.te \in Seq(Seq(EncodingItems))
          /\ r.accept \in Seq(Seq(TypeItems))
    /\ Actual.minor # "unknown"  \* what a minor type with a blank behind it is read as

VARIABLES
    request,
    phase,
    todo,     \* the items of the header being decoded that are left
    queue,    \* the CC_PQueue they go to
    decoded,  \* the values pushed to it, in their order
    popped,   \* the values popped from it
    status,   \* response->statusCode
    coding,   \* response->contentEncoding
    transfer, \* response->transferEncoding
    stream,   \* the z_stream: which layer it decodes, the bytes left in it
    buffer,   \* the GrowingBuffer they go to
    length,   \* request->contentLength once a body was read
    out,      \* what send is still to take
    wire,     \* what it took
    answers   \* the responses to send: status, length of the body, whether there is one

choice  == <<todo, queue, decoded, popped>>
body    == <<stream, buffer, length>>
answer  == <<status, coding, transfer>>
sending == <<out, wire, answers>>
vars == <<request, phase, choice, body, answer, sending>>

InitGrowingBuffer(n) == [size |-> 0, cap |-> n]

Init ==
    /\ request \in Requests
    /\ phase = "head"
    /\ todo = <<>> /\ queue = Queue!NewQueue /\ decoded = <<>> /\ popped = <<>>
    /\ status = 200 /\ coding = "identity" /\ transfer = "identity"
    /\ stream = [layer |-> "none", left |-> 0, fault |-> "none"]
    /\ buffer = InitGrowingBuffer(InflateChunk) /\ length = 0
    /\ out = <<>> /\ wire = <<>> /\ answers = <<>>

At(label) == phase = label
Goto(label) == phase' = label
StartDecoding(lines) ==
    todo' = Items(lines) /\ queue' = Queue!NewQueue /\ decoded' = <<>> /\ popped' = <<>>

-----------------------------------------------------------------------------
(***************************************************************************)
(* sendResponse.  What is sent is a sequence of units: a head with the     *)
(* headers that frame the body, the line of a chunk, a byte of the body    *)
(* (its place, and the coding the body is in) or one from behind it.       *)
(***************************************************************************)
Headers(code, n, ce, te) ==
    [unit     |-> "head",
     code     |-> code,
     length   |-> IF te # "chunked" THEN <<n>> ELSE <<>>,
     coding   |-> IF n > 0 /\ ce # "identity" THEN ce ELSE "identity",
     transfer |-> te]
Byte(ce, n, i) == IF i <= n THEN [unit |-> "byte", coding |-> ce, at |-> i] ELSE [unit |-> "junk"]
Size(n) == [unit |-> "size", of |-> n]

\* sendChunk: the bytes behind the first `from`, of n; each chunk has the full size, the last one too.
SendChunk(ce, n, from) == <<Size(ChunkSize)>> \o [i \in 1..ChunkSize |-> Byte(ce, n, from + i)]

\* What k turns of the loop of sendBodyChunks send.
Chunks(ce, n, k) ==
    LET upto[i \in Nat] == IF i = 0 THEN <<>> ELSE upto[i - 1] \o SendChunk(ce, n, (i - 1) * ChunkSize)
    IN  upto[k]

\* Without its last line.
SendBodyChunksOnly(ce, n) == Chunks(ce, n, (n + ChunkSize - 1) \div ChunkSize)

SendBodyChunks(ce, n) == Chunks(ce, n, (n + ChunkSize - 1) \div ChunkSize) \o <<Size(0)>>

(***************************************************************************)
(* The units of a response whose length is n; if filled is FALSE it has no *)
(* body to compress or to append to the head.                              *)
(***************************************************************************)
Response(code, ce, te, n, filled) ==
    LET m == IF filled THEN Coded(ce, n) ELSE n
    IN  <<Headers(code, m, ce, te)>>
        \o (IF ~filled THEN <<>>
            ELSE IF te = "chunked" THEN SendBodyChunks(ce, m) ELSE [i \in 1..m |-> Byte(ce, m, i)])

\* The bytes of a chunked response without a body are read from NULL.
Crashes(te, n, filled) == te = "chunked" /\ n > 0 /\ ~filled

Send(code, ce, te, n, filled) ==
    /\ Goto(IF Crashes(te, n, filled) THEN "crashed" ELSE "sending")
    /\ status' = code /\ coding' = ce /\ transfer' = te
    /\ out' = Response(code, ce, te, n, filled /\ n > 0)
    /\ answers' = <<[code |-> code, length |-> n, filled |-> filled /\ n > 0]>>
    /\ UNCHANGED <<request, choice, body, wire>>

\* handleConnection's send_error_resp, with the codings of the response as they are.
Refuse(code) == Send(code, coding, transfer, 0, FALSE)

-----------------------------------------------------------------------------
(* prepareHTTPRequestMetadata *)

ReadHead ==
    /\ At("head")
    /\ \/ /\ HTTP_ENCODING(request.contentCoding) = "unknown"
          /\ Refuse(415)
       \/ /\ HTTP_ENCODING(request.contentCoding) # "unknown"
          /\ Goto("accept encoding")
          /\ StartDecoding(request.acceptEncoding)
          /\ UNCHANGED <<request, body, answer, sending>>

\* decodeQualityValueHandle: one item is decoded, and pushed if it names something.
DecodeItem ==
    /\ todo # <<>>
    /\ LET item   == todo[1]
           values == IF At("accept") THEN DecodeMimetype(item) ELSE DecodeEncoding(item)
       IN  \/ values = {} /\ UNCHANGED <<queue, decoded>>
           \/ \E v \in values :
                /\ queue' = Queue!Push(queue, v)
                /\ decoded' = Append(decoded, v)
    /\ todo' = Tail(todo)
    /\ UNCHANGED <<request, phase, popped, body, answer, sending>>

(***************************************************************************)
(* A refusal sets 406, which prepareHTTPRequestMetadata replaces by 400.   *)
(***************************************************************************)
ChooseResponseContentEncoding ==
    LET chosen == IF request.acceptEncoding = <<>> THEN "identity" ELSE DecideContentEncoding(queue)
    IN  /\ At("accept encoding") /\ todo = <<>>
        /\ IF chosen = "unknown"
           THEN Send(400, "identity", transfer, 0, FALSE)
           ELSE /\ Goto("te")
                /\ coding' = chosen
                /\ StartDecoding(request.te)
                /\ UNCHANGED <<request, body, status, transfer, sending>>

ChooseResponseTransferCoding ==
    LET chosen == IF request.te = <<>> THEN transfer ELSE DecideTransferEncoding(queue)
    IN  /\ At("te") /\ todo = <<>>
        /\ IF chosen = "unknown"
           THEN Send(400, "identity", "identity", 0, FALSE)
           ELSE /\ Goto("coding")
                /\ transfer' = chosen
                /\ UNCHANGED <<request, choice, body, status, coding, sending>>

\* chooseRequestTransferCoding and decodeRequestContentMimeType.
CheckRequest ==
    /\ At("coding")
    /\ IF HTTP_ENCODING(request.transferCoding) = "unknown" \/ request.mediaType = "bad"
       THEN Refuse(400)
       ELSE Goto("transfer filter") /\ UNCHANGED <<request, choice, body, answer, sending>>

-----------------------------------------------------------------------------
(* The filters, and decode_zstream *)

\* The stream over a body of n bytes: a cut one holds fewer, a corrupt one fails.
StartInflate(layer, n, fault) ==
    /\ Goto("inflate")
    /\ stream' \in {[layer |-> layer, left |-> k, fault |-> fault] :
                       k \in IF fault = "none" THEN {n} ELSE 0..(n - 1)}
    /\ buffer' = InitGrowingBuffer(InflateChunk)
    /\ UNCHANGED <<request, choice, length, answer, sending>>

\* request->contentLength as the content coding left it.
Announced == Coded(request.contentCoding, request.length)

TransferCodingFilter ==
    /\ At("transfer filter")
    /\ \/ /\ \/ request.transferCoding = "identity"
             \/ request.transferCoding \in Compressed /\ request.length = 0
          /\ Goto("content filter")
          /\ UNCHANGED <<request, choice, body, answer, sending>>
       \/ /\ request.transferCoding = "chunked"
          /\ Goto("content filter")
          /\ length' = Announced
          /\ UNCHANGED <<request, choice, stream, buffer, answer, sending>>
       \/ /\ request.transferCoding \in Compressed /\ request.length > 0
          /\ StartInflate("transfer", Announced, request.fault)
       \/ /\ request.transferCoding \notin Compressed \cup {"identity", "chunked"}
          /\ Refuse(status)

\* A body that no transfer coding announced is not read yet.
ContentLength ==
    IF request.transferCoding = "identity" THEN Announced ELSE length

\* The status of a refusal is still that of a success.
EncodingFilter ==
    /\ At("content filter")
    /\ IF ContentLength = 0 \/ request.contentCoding = "identity"
          \/ (request.contentCoding \in Compressed /\ length = 0)
       THEN Goto("handler") /\ UNCHANGED <<request, choice, body, answer, sending>>
       ELSE IF request.contentCoding \in Compressed
       THEN StartInflate("content", request.length,
                         IF stream.layer = "none" THEN request.fault ELSE stream.fault)
       ELSE Refuse(status)

\* increaseCapacityGrowingBuffer
IncreaseCapacity(b, n) ==
    LET doubled[k \in Nat] == IF k = 0 THEN b.cap ELSE 2 * doubled[k - 1]
    IN  [b EXCEPT !.cap = doubled[Min({k \in 0..(b.size + n) : doubled[k] > b.size + n})]]

\* No room is made for the next.
TakeInflatedOnly(b, n) == [b EXCEPT !.size = @ + n]

\* The bytes an inflate wrote are counted, and room is made for the next.
TakeInflated(b, n) == IncreaseCapacity([b EXCEPT !.size = @ + n], InflateChunk)

(***************************************************************************)
(* One turn of the loop of decode_zstream: inflate writes at the end of    *)
(* the buffer what it can, up to InflateChunk bytes.                       *)
(***************************************************************************)
InflateChunkStep ==
    LET n == Min({InflateChunk, stream.left})
    IN  /\ At("inflate")
        /\ \/ /\ stream.fault = "corrupt" /\ stream.left < InflateChunk
              /\ Refuse(status)
           \/ /\ ~(stream.fault = "corrupt" /\ stream.left < InflateChunk)
              /\ buffer' = IF n > 0 THEN TakeInflated(buffer, n) ELSE buffer
              /\ stream' = [stream EXCEPT !.left = @ - n]
              /\ IF n < InflateChunk
                 THEN /\ length' = buffer'.size
                      /\ Goto(IF stream.layer = "transfer" THEN "content filter" ELSE "handler")
                 ELSE UNCHANGED <<length, phase>>
              /\ UNCHANGED <<request, choice, answer, sending>>

-----------------------------------------------------------------------------
(* The handlers *)

Handle ==
    /\ At("handler")
    /\ \/ /\ request.plan = "file" /\ request.accept # <<>>
          /\ Goto("accept")
          /\ StartDecoding(request.accept)
          /\ UNCHANGED <<request, body, answer, sending>>
       \/ /\ request.plan = "page" \/ (request.plan = "file" /\ request.accept = <<>>)
          /\ Send(200, coding, transfer, request.size, TRUE)
       \/ request.plan = "missing" /\ Send(404, coding, transfer, request.size, TRUE)
       \/ request.plan = "error"   /\ Send(404, "identity", "identity", request.size, TRUE)
       \/ request.plan = "head"    /\ Send(200, coding, transfer, request.size, FALSE)

\* decideContentType: the queue is popped until a type matches.
ChooseContentType ==
    /\ At("accept") /\ todo = <<>> /\ queue.items # <<>>
    /\ popped' = Append(popped, Queue!Top(queue))
    /\ queue' = Queue!Pop(queue)
    /\ Goto(IF MatchMimeType(Queue!Top(queue), Actual) THEN "matched" ELSE "accept")
    /\ UNCHANGED <<request, todo, decoded, body, answer, sending>>

SendFile ==
    /\ At("matched")
    /\ Send(200, coding, transfer, request.size, TRUE)

(***************************************************************************)
(* No type matched: chooseContentType sends a 406, and as it returns       *)
(* nonzero handleGETFile makes a 415 of it, which handleConnection sends:  *)
(* the headers of the first are still in the table of the second.          *)
(***************************************************************************)
RefuseType ==
    /\ At("accept") /\ todo = <<>> /\ queue.items = <<>>
    /\ Goto("sending")
    /\ status' = 415 /\ coding' = "identity" /\ transfer' = "identity"
    /\ LET second == Response(415, "identity", "identity", request.size, TRUE)
       IN  out' = Response(406, "identity", "identity", 0, FALSE)
                  \o [second EXCEPT ![1].length = <<0>> \o @]
    /\ answers' = <<[code |-> 406, length |-> 0, filled |-> FALSE],
                    [code |-> 415, length |-> request.size, filled |-> TRUE]>>
    /\ UNCHANGED <<request, choice, body, wire>>

-----------------------------------------------------------------------------
(* sendDataTCP *)

\* send takes some of what it is given.
SendData ==
    /\ At("sending") /\ out # <<>>
    /\ \E n \in 1..Len(out) :
          /\ wire' = wire \o SubSeq(out, 1, n)
          /\ out' = SubSeq(out, n + 1, Len(out))
    /\ UNCHANGED <<request, phase, choice, body, answer, answers>>

SendEnds ==
    /\ At("sending") /\ out = <<>>
    /\ Goto("sent")
    /\ UNCHANGED <<request, choice, body, answer, sending>>

SendFails ==
    /\ At("sending") /\ out # <<>>
    /\ Goto("broken")
    /\ UNCHANGED <<request, choice, body, answer, sending>>

Next ==
    \/ ReadHead \/ DecodeItem \/ ChooseResponseContentEncoding \/ ChooseResponseTransferCoding
    \/ CheckRequest \/ TransferCodingFilter \/ EncodingFilter \/ InflateChunkStep
    \/ Handle \/ ChooseContentType \/ SendFile \/ RefuseType
    \/ SendData \/ SendEnds \/ SendFails

Spec == Init /\ [][Next]_vars

-----------------------------------------------------------------------------
(* Properties *)

Count(s, v) == Cardinality({i \in DOMAIN s : s[i] = v})

(***************************************************************************)
(* The queue a header is decoded into is a heap over its buffer, it holds  *)
(* what was pushed and not popped, and the values leave it by rank         *)
(* (cc_pqueue_push, cc_pqueue_pop, cc_pqueue_heapify).                     *)
(***************************************************************************)
HeapKept ==
    /\ Len(queue.items) <= queue.cap
    /\ \A k \in 2..Len(queue.items) : ~Above(queue.items[k], queue.items[k \div 2])
    /\ \A v \in ToSet(decoded \o queue.items \o popped) :
          Count(decoded, v) = Count(queue.items, v) + Count(popped, v)
    /\ \A i, j \in DOMAIN popped : i < j => ~Above(popped[j], popped[i])

Best == {v \in ToSet(decoded) : \A w \in ToSet(decoded) : w.q <= v.q}
Naming(items) == Cardinality({i \in DOMAIN items : items[i].name # "nothing"})

(***************************************************************************)
(* The coding of a response is one its request ranks first, identity for   *)
(* a wildcard.  If what it ranks first is not supported the request is     *)
(* refused, whatever else it accepts, and so it is if its header has as    *)
(* many lines as fill their deque (chooseResponseContentEncoding,          *)
(* chooseResponseTransferCoding).                                          *)
(***************************************************************************)
Honoured(lines, excluded, chosen) ==
    /\ Len(decoded) = Naming(Items(lines))
    /\ IF chosen = "none"
       THEN Full(lines) \/ decoded = <<>> \/ \E v \in Best : v.coding \in excluded
       ELSE \E v \in Best : /\ v.coding \notin excluded
                             /\ chosen = IF v.coding = "*" THEN "identity" ELSE v.coding

CodingChosen ==
    /\ At("accept encoding") /\ phase' # phase /\ request.acceptEncoding # <<>> =>
          Honoured(request.acceptEncoding, {"unknown", "chunked"},
                   IF phase' = "te" THEN coding' ELSE "none")
    /\ At("te") /\ phase' # phase /\ request.te # <<>> =>
          Honoured(request.te, {"unknown"}, IF phase' = "coding" THEN transfer' ELSE "none")

CodingsHonoured == [][CodingChosen]_vars

(***************************************************************************)
(* A file is sent as what it is if some type the request accepts matches,  *)
(* at whatever rank, and only then (chooseContentType, decideContentType). *)
(***************************************************************************)
Covers(item) ==
    /\ item.minor # "nothing"
    /\ \/ item.major = "*"
       \/ /\ item.major = Actual.major /\ item.minor \in {"*", Actual.minor}
          /\ item.spacing # "before"
Accepts(lines) == \E i \in DOMAIN Items(lines) : Covers(Items(lines)[i])

TypeChosen ==
    At("accept") /\ phase' # phase => (phase' = "matched" <=> Accepts(request.accept))

TypeHonoured == [][TypeChosen]_vars

(***************************************************************************)
(* What a client has when a response was sent whole: the body in the       *)
(* coding its head names, every byte once and in its place, and            *)
(* Content-Length is their number, or they are cut into chunks that say    *)
(* their own size, the last empty.  Three deviations are the code's.  The  *)
(* last chunk is filled up with what lies behind the body, a chunked       *)
(* response without a body has neither length nor chunk, and when no type  *)
(* matches there are two responses, the second with two lengths.           *)
(* (sendResponse, sendBodyChunks, prepareHTTPResponseMetadata)             *)
(***************************************************************************)
IsData(u) == u.unit \in {"byte", "junk"}
Data(units) ==
    LET upto[i \in 0..Len(units)] ==
            IF i = 0 THEN <<>>
            ELSE IF IsData(units[i]) THEN Append(upto[i - 1], units[i]) ELSE upto[i - 1]
    IN  upto[Len(units)]
Overrun(n) == (ChunkSize - (n % ChunkSize)) % ChunkSize

WellChunked(units) ==
    LET lines == {i \in DOMAIN units : units[i].unit = "size"}
    IN  /\ 1 \in lines /\ Len(units) \in lines
        /\ units[Len(units)].of = 0
        /\ \A i \in lines \ {Len(units)} :
              /\ units[i].of > 0
              /\ i + units[i].of + 1 \in lines
              /\ \A j \in (i + 1)..(i + units[i].of) : j \notin lines

FramedAs(a, units) ==
    LET head == units[1]
        rest == Tail(units)
        data == Data(rest)
        n    == IF a.filled THEN Coded(head.coding, a.length) ELSE 0
    IN  /\ head.code = a.code
        /\ a.filled => head.coding = coding
        /\ SubSeq(data, 1, n) = [i \in 1..n |-> Byte(head.coding, n, i)]
        /\ IF head.transfer = "chunked"
           THEN IF a.filled THEN WellChunked(rest) /\ Len(data) = n + Overrun(n) ELSE rest = <<>>
           ELSE rest = data /\ Len(data) = n
                /\ (IF a.filled \/ a.length = 0 THEN head.length[Len(head.length)] = n
                    ELSE head.length = <<a.length>>)

Framed ==
    At("sent") =>
        IF Len(answers) = 1
        THEN FramedAs(answers[1], wire) /\ Len(wire[1].length) <= 1
        ELSE FramedAs(answers[1], <<wire[1]>>) /\ FramedAs(answers[2], Tail(wire))

(***************************************************************************)
(* inflate is given no more room than the buffer has left.  A handler that *)
(* finds the body read finds it decoded to its last byte; a damaged one    *)
(* does not reach it, one that ends early does, shortened                  *)
(* (decode_zstream, transferCodingFilter, encodingFilter).                 *)
(***************************************************************************)
BodyDecoded ==
    /\ At("inflate") => buffer.size + InflateChunk <= buffer.cap
    /\ At("handler") /\ request.transferCoding # "identity" /\ request.length > 0 =>
          IF stream.layer = "none" THEN length = Announced
          ELSE /\ request.fault # "corrupt"
               /\ IF request.fault = "cut" THEN length < request.length ELSE length = request.length

=============================================================================
