--------------------------- MODULE ConnectionLoop ---------------------------
(***************************************************************************)
(* handleConnection (src/server/server.c): one worker serves one client,   *)
(* request after request, until the process ends.  The module follows what *)
(* is read from the connection and what is sent back: the request line and *)
(* the headers (src/parser/parser.c), the routing and the filter chain     *)
(* (src/server/router.c), the body a transfer coding announces             *)
(* (src/parser/encodingFilter.c, src/parser/chunked.c) and the response.   *)
(*                                                                         *)
(* What HttpStream models byte by byte is here a sequence of items: lines, *)
(* and body bytes that end no line.                                        *)
(***************************************************************************)
EXTENDS Integers, Sequences, FiniteSetsExt

CONSTANTS Requests,    \* the kinds of requests a client may send
          MaxRequests, \* bound on how many it sends
          Pipelining   \* whether it may send one before the last was answered

(* A request is a record:                                                  *)
(*   line    "ok", or "bad": its first line does not parse                 *)
(*   coding  its transfer coding: "identity", "gzip" (or deflate), "chunked" *)
(*   body    the pieces of its body, each a chunk if it is chunked         *)
(*   fate    what becomes of it once its head was read:                    *)
(*     "rejected"  by prepareHTTPRequestMetadata or longestPrefixMatch     *)
(*     "refused"   by a filter behind the transfer coding                  *)
(*     "answered"  the handler sends a response and returns 0              *)
(*     "failed"    the handler sends none and returns nonzero              *)
(*     "silent"    the handler sends none and returns 0                    *)
(*     "twice"     the handler sends one and returns nonzero               *)
Fates == {"rejected", "refused", "answered", "failed", "silent", "twice"}

ASSUME RequestsAssumption ==
    /\ \A r \in Requests :
          /\ r.line \in {"ok", "bad"} /\ r.coding \in {"identity", "gzip", "chunked"}
          /\ r.body \in Nat /\ r.fate \in Fates
    /\ MaxRequests \in Nat /\ Pipelining \subseteq BOOLEAN

VARIABLES
    pipelined, \* this client does not wait for its responses
    asked,     \* the requests the client has sent
    net,       \* the items on their way to the server
    gone,      \* the client reset the connection
    buffer,    \* the items received and not consumed: the HTTPStream
    pc,        \* where handleConnection is
    current,   \* the number of the request whose first line was read, or 0
    body,      \* the pieces of its body that were read
    out        \* the responses sent: for each the number of its request, or 0

clientVars == <<pipelined, asked, net, gone>>
vars == <<clientVars, buffer, pc, current, body, out>>

Item(kind, n) == [kind |-> kind, of |-> n]

\* What the client writes for request n.
Chunks(n, count) ==
    [i \in 1..(2 * count) |-> Item(IF i % 2 = 1 THEN "size" ELSE "data", n)]
        \o <<Item("last", n), Item("empty", n)>>
BodyItems(r, n) ==
    IF r.coding = "chunked" THEN Chunks(n, r.body) ELSE [i \in 1..r.body |-> Item("raw", n)]
Items(r, n) == <<Item("first", n), Item("header", n), Item("empty", n)>> \o BodyItems(r, n)

Init ==
    /\ pipelined \in Pipelining
    /\ asked = <<>>
    /\ net = <<>>
    /\ gone = FALSE
    /\ buffer = <<>>
    /\ pc = "first"
    /\ current = 0
    /\ body = 0
    /\ out = <<>>
----------------------------------------------------------------------------
(* The client.                                                             *)

Ask(r) ==
    /\ ~gone
    /\ Len(asked) < MaxRequests
    /\ pipelined \/ Len(out) >= Len(asked)
    /\ asked' = Append(asked, r)
    /\ net' = net \o Items(r, Len(asked) + 1)
    /\ UNCHANGED <<pipelined, gone, buffer, pc, current, body, out>>

ClientResets ==
    /\ ~gone
    /\ gone' = TRUE
    /\ net' = <<>>
    /\ UNCHANGED <<pipelined, asked, buffer, pc, current, body, out>>
----------------------------------------------------------------------------
(* Reading.                                                                *)

LinesAt == {i \in DOMAIN buffer : buffer[i].kind # "raw"}
HasLine == LinesAt # {}

\* The next line: raw bytes in front of it become part of it.
NextLine == IF Min(LinesAt) = 1 THEN buffer[1] ELSE Item("garbled", buffer[1].of)
AfterLine == SubSeq(buffer, Min(LinesAt) + 1, Len(buffer))

Request == asked[current]

Lacking ==
    \/ pc = "raw" /\ Len(buffer) < Request.body
    \/ pc \in {"first", "headers", "discard", "chunk", "trailer"} /\ ~HasLine
    \/ pc \in {"discard", "chunk"} /\ HasLine /\ NextLine.kind = "size" /\ Len(AfterLine) = 0

\* receiveData returns what has arrived, in pieces the network chooses.
Receive ==
    /\ Lacking
    /\ \E k \in 1..Len(net) :
          /\ buffer' = buffer \o SubSeq(net, 1, k)
          /\ net' = SubSeq(net, k + 1, Len(net))
    /\ UNCHANGED <<pipelined, asked, gone, pc, current, body, out>>

\* A response reaches the client unless it is gone; the result of sendResponse is ignored.
Respond == out' = IF gone THEN out ELSE Append(out, current)

\* send_error_resp: one response, then free_code.
Reject == pc' = "free" /\ Respond

\* A failed read: 400 for a line, -1 from a filter for a chunk, and nothing for
\* scanBody, which does not notice.
ReceiveFails ==
    /\ Lacking
    /\ gone
    /\ IF pc = "raw" THEN pc' = "filters" /\ UNCHANGED out
       ELSE IF pc = "discard" THEN pc' = "chunk" /\ UNCHANGED out
       ELSE IF pc = "trailer" THEN pc' = "filters" /\ UNCHANGED out
       ELSE Reject
    /\ UNCHANGED <<clientVars, buffer, current, body>>

\* scanFirstLine.
ScanFirstLine ==
    /\ pc = "first"
    /\ HasLine
    /\ buffer' = AfterLine
    /\ \/ /\ NextLine.kind = "first" /\ asked[NextLine.of].line = "ok"
          /\ current' = NextLine.of
          /\ pc' = "headers"
          /\ UNCHANGED out
       \/ /\ NextLine.kind # "first" \/ asked[NextLine.of].line = "bad"
          /\ UNCHANGED current
          /\ Reject
    /\ UNCHANGED <<clientVars, body>>

\* scanHeaders, one line a step.
ScanHeader ==
    /\ pc = "headers"
    /\ HasLine
    /\ buffer' = AfterLine
    /\ pc' = IF NextLine.kind = "empty" THEN "dispatch" ELSE "headers"
    /\ UNCHANGED <<clientVars, current, body, out>>

\* prepareHTTPRequestMetadata, longestPrefixMatch and the start of the filter chain,
\* transferCodingFilter.
DispatchRequest ==
    /\ pc = "dispatch"
    /\ IF Request.fate = "rejected" THEN Reject
       ELSE /\ pc' = [identity |-> "filters", gzip |-> "raw", chunked |-> "discard"][Request.coding]
            /\ UNCHANGED out
    /\ UNCHANGED <<clientVars, buffer, current, body>>

\* The body of a compressed request left in the stream.
ScanBodyLeaves ==
    /\ pc = "raw"
    /\ pc' = "filters"
    /\ UNCHANGED <<clientVars, buffer, current, body, out>>

\* scanBody for a body of known length that is compressed on the wire.
ScanBody ==
    /\ pc = "raw"
    /\ Len(buffer) >= Request.body
    /\ buffer' = SubSeq(buffer, Request.body + 1, Len(buffer))
    /\ body' = Request.body
    /\ pc' = "filters"
    /\ UNCHANGED <<clientVars, current, out>>

\* readNextChunk: a chunk, or the line that ends the body, or an empty line, an error.
ChunkReady == HasLine /\ (NextLine.kind = "size" => Len(AfterLine) > 0)
ReadChunk(onChunk, onLast, onEmpty) ==
    /\ ChunkReady
    /\ buffer' = IF NextLine.kind = "size" THEN Tail(AfterLine) ELSE AfterLine
    /\ pc' = IF NextLine.kind = "size" THEN onChunk
             ELSE IF NextLine.kind = "empty" THEN onEmpty
             ELSE onLast

\* readBodyChunked reads the first chunk and forgets what came of it.
DiscardChunk ==
    /\ pc = "discard"
    /\ ReadChunk("chunk", "chunk", "chunk")
    /\ UNCHANGED <<clientVars, current, body, out>>

\* Its loop: any chunk but the last is an error, since readNextChunk returns
\* RECV_SUCCESS where LF_REACHED is expected.
NextChunk ==
    /\ pc = "chunk"
    /\ ReadChunk("chunk_error", "trailer", "chunk_error")
    /\ UNCHANGED <<clientVars, current, body, out>>

ChunkError ==
    /\ pc = "chunk_error"
    /\ Reject
    /\ UNCHANGED <<clientVars, buffer, current, body>>

\* readTrailerSection ends with the first line, empty or not.
ReadTrailer ==
    /\ pc = "trailer"
    /\ HasLine
    /\ buffer' = AfterLine
    /\ pc' = "filters"
    /\ UNCHANGED <<clientVars, current, body, out>>

\* A request that fails is freed without its response.
HandleRequestDropsError ==
    /\ pc = "filters"
    /\ IF Request.fate \in {"answered", "twice"} THEN Respond ELSE UNCHANGED out
    /\ pc' = "free"
    /\ UNCHANGED <<clientVars, buffer, current, body>>

\* The rest of the filter chain, then the route's callback, which may have sent a
\* response when it returns.
HandleRequest ==
    /\ pc = "filters"
    /\ IF Request.fate \in {"answered", "twice"} THEN Respond ELSE UNCHANGED out
    /\ pc' = IF Request.fate \in {"answered", "silent"} THEN "free" ELSE "error"
    /\ UNCHANGED <<clientVars, buffer, current, body>>

\* A nonzero result of handleRequestRouter: send_error_resp.
SendErrorResponse ==
    /\ pc = "error"
    /\ Reject
    /\ UNCHANGED <<clientVars, buffer, current, body>>

\* The response of send_error_resp sent again after the handler's own.
FreeResends ==
    /\ pc = "free"
    /\ Respond
    /\ pc' = "first"
    /\ buffer' = <<>>
    /\ current' = 0
    /\ body' = 0
    /\ UNCHANGED clientVars

\* free_code and the start of the next iteration: a new stream, so whatever the old
\* one had received and not handed out is gone.
FreeRequest ==
    /\ pc = "free"
    /\ pc' = "first"
    /\ buffer' = <<>>
    /\ current' = 0
    /\ body' = 0
    /\ UNCHANGED <<clientVars, out>>

ServerStep ==
    \/ Receive \/ ReceiveFails \/ ScanFirstLine \/ ScanHeader \/ DispatchRequest \/ ScanBody
    \/ DiscardChunk \/ NextChunk \/ ChunkError \/ ReadTrailer
    \/ HandleRequest \/ SendErrorResponse \/ FreeRequest

Next == (\E r \in Requests : Ask(r)) \/ ClientResets \/ ServerStep

Spec == Init /\ [][Next]_vars

\* The worker runs and the network delivers.
FairSpec == Spec /\ WF_vars(ServerStep)
----------------------------------------------------------------------------
(* Properties.                                                             *)

Labels == {"first", "headers", "dispatch", "raw", "discard", "chunk", "chunk_error",
           "trailer", "filters", "error", "free"}
TypeOK ==
    /\ pipelined \in Pipelining
    /\ asked \in Seq(Requests) /\ Len(asked) <= MaxRequests
    /\ gone \in BOOLEAN
    /\ pc \in Labels
    /\ current \in 0..Len(asked)
    /\ body \in Nat
    /\ out \in Seq(0..Len(asked))
    /\ pc \notin {"first", "free"} => current # 0

\* What request r leaves in the connection when it was handled: the body nothing reads,
\* the headers behind a bad first line, the chunks behind the second.
LeavesNothing(r) ==
    /\ r.line = "ok"
    /\ r.body = 0 \/ (r.coding # "identity" /\ r.fate # "rejected")
    /\ r.coding = "chunked" => r.fate # "rejected" /\ r.body <= 1
AnsweredOnce(r) == r.fate \notin {"silent", "twice"}
CleanUpTo(n) == \A k \in DOMAIN asked : k <= n => LeavesNothing(asked[k]) /\ AnsweredOnce(asked[k])

\* As long as no request left part of itself in the connection, the k-th response answers
\* the k-th request, through rejections, filters that refuse, handlers that fail and
\* bodies that arrive in pieces (handleConnection: one response on each path to free_code).
Synchronised ==
    /\ TypeOK
    /\ ~pipelined => \A k \in DOMAIN out : CleanUpTo(k) => k <= Len(asked) /\ out[k] = k

\* A new stream for each request drops what was received ahead, and what a request left
\* behind is read as requests: but requests are never answered out of order, and none is
\* answered twice (by handlers that answer once).
AllAnswerOnce == \A n \in DOMAIN asked : asked[n].fate # "twice"
OrderKept ==
    AllAnswerOnce
        => \A i, j \in DOMAIN out : i < j /\ out[i] # 0 /\ out[j] # 0 => out[i] < out[j]

\* A client that waits for each response gets one for every request, or is gone: no path
\* through handleConnection waits for bytes the request does not have.
EventuallyAnswered ==
    \A n \in 1..MaxRequests :
        (~pipelined /\ Len(asked) >= n /\ CleanUpTo(n)) ~> (gone \/ Len(out) >= n)
=============================================================================
