----------------------------- MODULE Negotiation -----------------------------
(***************************************************************************)
(* What a response is coded as, and as which type it is sent: the          *)
(* Accept-Encoding, TE and Accept headers (src/parser/qualityvalues.c,     *)
(* encoding.c, mimetype.c) over the priority queue of Collections-C.       *)
(*                                                                         *)
(* An item of such a header is a record: what it names, its weight in      *)
(* tenths (NoWeight if it has none) and its spacing, "before" if a blank   *)
(* precedes its ";", "after" if one follows it, otherwise "none".          *)
(***************************************************************************)
EXTENDS Integers, Sequences

CONSTANTS LinesCap,    \* DEFAULT_CAPACITY of a cc_deque, here of header lines
          QueueCap,    \* DEFAULT_CAPACITY of a cc_pqueue
          MaxElements  \* CC_MAX_ELEMENTS

NoWeight == -1
DefaultQ == 10

Codings == {"gzip", "deflate", "identity", "chunked", "*"}

\* arrLineSearch over http_encoding_arr.
HTTP_ENCODING(name) == IF name \in Codings THEN name ELSE "unknown"

\* The weight sscanf finds: it stops at a blank after the ";".
Weight(item) == IF item.weight = NoWeight \/ item.spacing = "after" THEN DefaultQ ELSE item.weight

(***************************************************************************)
(* decodeSingleEncodingQualityValue: the values it may return, none for an *)
(* item that names nothing.  For a blank item sscanf returns EOF, which    *)
(* the test for 0 lets pass: the name is what the stack held.  A blank     *)
(* before the ";" becomes part of the name.                                *)
(***************************************************************************)
DecodeEncoding(item) ==
    CASE item.name = "nothing" -> {}
      [] item.name = "blank"   -> {[coding |-> c, q |-> DefaultQ] : c \in Codings \cup {"unknown"}}
      [] OTHER -> {[coding |-> IF item.spacing = "before" THEN "unknown" ELSE HTTP_ENCODING(item.name),
                    q      |-> Weight(item)]}

CmpEncodingQV(a, b) == a.q > b.q

\* decodeSingleMimetypeQualityValue: what has no "/" is left out.
DecodeMimetype(item) ==
    IF item.minor = "nothing" THEN {}
    ELSE {[major |-> item.major,
           minor |-> IF item.spacing = "before" THEN "unknown" ELSE item.minor,
           q     |-> Weight(item)]}

Specificity(m) == IF m.major = "*" THEN (IF m.minor = "*" THEN 0 ELSE 1)
                  ELSE (IF m.minor = "*" THEN 2 ELSE 3)
CmpMimeTypeQV(a, b) == a.q > b.q \/ (a.q = b.q /\ Specificity(a) > Specificity(b))

\* The wildcard of the minor type overlooked.
MatchMimeTypeWhole(m, actual) == m.major = "*" \/ (m.major = actual.major /\ m.minor = actual.minor)

MatchMimeType(m, actual) ==
    \/ m.major = "*"
    \/ m.major = actual.major /\ m.minor \in {"*", actual.minor}

\* A queue compares its values with the function of their type.
TypeValue(v) == "major" \in DOMAIN v
Above(a, b) == IF TypeValue(a) THEN CmpMimeTypeQV(a, b) ELSE CmpEncodingQV(a, b)
Queue == INSTANCE PQueue WITH Capacity <- QueueCap

(***************************************************************************)
(* decodeQualityValues goes through the lines of a header with             *)
(* cc_deque_iter_next, which takes a full deque for one at its end: the    *)
(* lines of a header that fill their deque are not read.                   *)
(***************************************************************************)
Full(lines) == \E n \in 0..Len(lines) : Len(lines) = LinesCap * 2^n
Items(lines) ==
    LET upto[i \in 0..Len(lines)] == IF i = 0 THEN <<>> ELSE upto[i - 1] \o lines[i]
    IN  IF Full(lines) THEN <<>> ELSE upto[Len(lines)]

\* decideContentEncoding with the coding of a transfer let through.
DecideContentEncodingChunked(q) ==
    IF q.items = <<>> THEN "unknown" ELSE IF Queue!Top(q).coding = "*" THEN "identity" ELSE Queue!Top(q).coding

(***************************************************************************)
(* decideContentEncoding and decideTransferEncoding look at the first of   *)
(* the queue only: the coding, or "unknown" if there is none to be had.    *)
(***************************************************************************)
DecideContentEncoding(q) ==
    IF q.items = <<>> \/ Queue!Top(q).coding \in {"unknown", "chunked"} THEN "unknown"
    ELSE IF Queue!Top(q).coding = "*" THEN "identity"
    ELSE Queue!Top(q).coding

DecideTransferEncoding(q) ==
    IF q.items = <<>> THEN "unknown"
    ELSE IF Queue!Top(q).coding = "*" THEN "identity"
    ELSE Queue!Top(q).coding

=============================================================================
