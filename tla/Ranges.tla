------------------------------- MODULE Ranges -------------------------------
(***************************************************************************)
(* Ranged downloads: decodeRanges (src/parser/ranged.c) turns the Range    *)
(* header into a list of byte ranges and merges those that overlap, and    *)
(* handleGETRanged (src/server/fshandler.c) answers with the first.        *)
(*                                                                         *)
(* decodeRange works on signed longs, the list keeps unsigned ones.        *)
(***************************************************************************)
EXTENDS Integers, Sequences, SequencesExt

CONSTANTS Specs,      \* what the header may list; see below
          MaxSpecs,   \* bound on the length of the list
          Sizes,      \* the sizes files may have
          Modulus,    \* 2^64
          MaxRequest, \* MAX_REQ_SIZE
          JunkValues  \* what may be found in memory nobody wrote

(* A range specifier is what sscanf(" %ld-%ld ") makes of it: count numbers *)
(* were read, first and last (-1 for an empty string).  "3-5" has two,      *)
(* "3-" one, and so has "-5", with first = -5.                              *)
EOF == -1
IsLong(x) == x \in Int /\ -Modulus <= 2 * x /\ 2 * x < Modulus

ASSUME RangesAssumption ==
    /\ \A s \in Specs : s.count \in {EOF, 0, 1, 2} /\ IsLong(s.first) /\ IsLong(s.last)
    /\ MaxSpecs \in Nat \ {0} /\ MaxRequest \in Nat \ {0}
    /\ Sizes \subseteq Nat /\ \A x \in JunkValues : IsLong(x)
    /\ Modulus \in Nat \ {0, 1} /\ \A n \in Sizes : 2 * n < Modulus

VARIABLES
    specs,    \* the range specifiers of the header
    st_size,  \* st_size of the path
    fileLength,  \* the bytes in the file that was opened, possibly another one by now
    stage,    \* "decode", "sort", "merge", "serve", "sent", "rejected" or "aborted"
    next,     \* how many specifiers or ranges the current loop has looked at
    ranges,   \* the list of ranges
    final,    \* the position of finalRange, 0 for NULL
    sent      \* the response: the first byte of its body, its length, its Content-Range

rangeVars == <<specs, st_size, fileLength, stage, next, ranges, final, sent>>

NoResponse == [first |-> 0, bytes |-> 0, start |-> 0, end |-> 0]

RangesInit ==
    /\ specs \in UNION {[1..n -> Specs] : n \in 1..MaxSpecs}
    /\ st_size \in Sizes
    /\ fileLength \in Sizes
    /\ stage = "decode"
    /\ next = 0
    /\ ranges = <<>>
    /\ final = 0
    /\ sent = NoResponse

Unsigned(x) == x % Modulus
Signed(u) == IF 2 * u >= Modulus THEN u - Modulus ELSE u
Smaller(x, y) == IF x < y THEN x ELSE y
Larger(x, y) == IF x < y THEN y ELSE x
----------------------------------------------------------------------------
(* decodeRanges.                                                           *)

\* The numbers decodeRange works with: a missing end is the end of the file, and an
\* empty specifier leaves both as they were in memory.
Starts(s) == IF s.count = EOF THEN JunkValues ELSE {s.first}
Ends(s) == IF s.count = EOF THEN JunkValues ELSE IF s.count = 1 THEN {st_size - 1} ELSE {s.last}

\* The end not cut to the size of the file.
UnclampedRange(start, end) == [start |-> Unsigned(start), end |-> Unsigned(end)]

FittedRange(start, end) ==
    [start |-> Unsigned(start), end |-> Unsigned(Smaller(end, st_size - 1))]

DecodeRange ==
    /\ stage = "decode"
    /\ next < Len(specs)
    /\ LET s == specs[next + 1] IN
       \E start \in Starts(s), end \in Ends(s) :
          \/ /\ s.count = 0 \/ start >= st_size
             /\ stage' = "rejected"
             /\ UNCHANGED <<next, ranges>>
          \/ /\ s.count # 0 /\ start < st_size
             /\ ranges' = Append(ranges, FittedRange(start, end))
             /\ next' = next + 1
             /\ UNCHANGED stage
    /\ UNCHANGED <<specs, st_size, fileLength, final, sent>>

EndDecode ==
    /\ stage = "decode"
    /\ next = Len(specs)
    /\ stage' = "sort"
    /\ UNCHANGED <<specs, st_size, fileLength, next, ranges, final, sent>>

\* compRange is given pointers to the list's slots and takes them for ranges, so it
\* compares addresses: the order of allocation, with a break where the arena went on
\* in another region.
SortRanges ==
    /\ stage = "sort"
    /\ stage' = "merge"
    /\ next' = 0
    /\ \E k \in DOMAIN ranges :
          ranges' = SubSeq(ranges, k + 1, Len(ranges)) \o SubSeq(ranges, 1, k)
    /\ UNCHANGED <<specs, st_size, fileLength, final, sent>>

StartsInFinal(r) == final # 0 /\ ranges[final].start <= r.start /\ r.start <= ranges[final].end

\* The end of the last range merged taken as it is.
MergeTakesLastEnd ==
    /\ stage = "merge"
    /\ next < Len(ranges)
    /\ StartsInFinal(ranges[next + 1])
    /\ ranges' = RemoveAt([ranges EXCEPT ![final].end = ranges[next + 1].end], next + 1)
    /\ UNCHANGED <<specs, st_size, fileLength, stage, next, final, sent>>

MergeRange ==
    /\ stage = "merge"
    /\ next < Len(ranges)
    /\ StartsInFinal(ranges[next + 1])
    /\ ranges' = RemoveAt([ranges EXCEPT ![final].end = Larger(@, ranges[next + 1].end)], next + 1)
    /\ UNCHANGED <<specs, st_size, fileLength, stage, next, final, sent>>

KeepRange ==
    /\ stage = "merge"
    /\ next < Len(ranges)
    /\ ~StartsInFinal(ranges[next + 1])
    /\ final' = next + 1
    /\ next' = next + 1
    /\ UNCHANGED <<specs, st_size, fileLength, stage, ranges, sent>>

EndMerge ==
    /\ stage = "merge"
    /\ next = Len(ranges)
    /\ stage' = "serve"
    /\ UNCHANGED <<specs, st_size, fileLength, next, ranges, final, sent>>
----------------------------------------------------------------------------
(* handleGETRanged behind decodeRanges.                                    *)

\* The cap without the range's start.
CappedFromZero(r) ==
    IF Unsigned(r.end - r.start) >= MaxRequest THEN [r EXCEPT !.end = MaxRequest] ELSE r

\* At most MAX_REQ_SIZE bytes, and one.
Capped(r) ==
    IF Unsigned(r.end - r.start) >= MaxRequest
    THEN [r EXCEPT !.end = Unsigned(r.start + MaxRequest)] ELSE r

\* fseeko takes the start for a long and refuses a negative one.
SeekTo(r) == IF Signed(r.start) < 0 THEN 0 ELSE r.start

\* readFileIntoBody: that many bytes, or what there is.
BytesRead(r) ==
    Smaller(Unsigned(r.end - r.start + 1), Larger(fileLength - r.start, 0))

\* assert(offset == rangeInitial->start), then the body and its Content-Range.
Serve ==
    /\ stage = "serve"
    /\ LET r == Capped(ranges[1]) IN
       \/ /\ SeekTo(r) # r.start
          /\ stage' = "aborted"
          /\ UNCHANGED <<ranges, sent>>
       \/ /\ SeekTo(r) = r.start
          /\ stage' = "sent"
          /\ ranges' = [ranges EXCEPT ![1] = r]
          /\ sent' = [first |-> r.start, bytes |-> BytesRead(r), start |-> r.start, end |-> r.end]
    /\ UNCHANGED <<specs, st_size, fileLength, next, final>>

RangesNext ==
    DecodeRange \/ EndDecode \/ SortRanges \/ MergeRange \/ KeepRange \/ EndMerge \/ Serve

RangesSpec == RangesInit /\ [][RangesNext]_rangeVars
----------------------------------------------------------------------------
(* Properties.                                                             *)

RangesTypeOK ==
    /\ stage \in {"decode", "sort", "merge", "serve", "sent", "rejected", "aborted"}
    /\ \A r \in ToSet(ranges) : r.start \in 0..(Modulus - 1) /\ r.end \in 0..(Modulus - 1)
    /\ next \in 0..MaxSpecs
    /\ final \in 0..Len(ranges)
    /\ (stage \in {"sort", "merge", "serve", "sent"}) => ranges # <<>>

\* "make sure the start and end fit in the file" (ranged.c:54): what is decoded lies in
\* the file after merging too, but for numbers that were negative.
RangesFit ==
    /\ RangesTypeOK
    /\ stage \in {"sort", "merge", "serve"} =>
          \A r \in ToSet(ranges) :
              /\ Signed(r.start) >= 0 => r.start < st_size
              /\ Signed(r.end) >= 0 => r.end < st_size

\* "3-5" or "3-" with numbers in order.
Ordinary(s) == s.count \in {1, 2} /\ s.first >= 0 /\ (s.count = 2 => s.first <= s.last)
AllOrdinary == \A s \in ToSet(specs) : Ordinary(s)

Bytes(r) == r.start..r.end
Covered == UNION {Bytes(r) : r \in ToSet(ranges)}
Requested ==
    UNION {{b \in 0..(st_size - 1) : s.first <= b /\ (s.count = 2 => b <= s.last)} : s \in ToSet(specs)}

\* Merging loses no byte that was asked for and adds none, whatever order the ranges
\* come in (the loop of decodeRanges keeps the larger end).
MergeKeepsBytes == AllOrdinary /\ stage \in {"sort", "merge", "serve"} => Covered = Requested

\* The response to ordinary ranges is consistent: its body has as many bytes as its
\* Content-Range says, at least one, all inside the file and all asked for, however the ranges were
\* merged and cut to MAX_REQ_SIZE; unless another file was opened than measured.  The
\* assertion offset == rangeInitial->start (fshandler.c:720) fails for no ordinary range;
\* for a suffix range "-n", decoded with a negative start, it does.
ResponseConsistent ==
    AllOrdinary =>
        /\ stage # "aborted"
        /\ stage = "sent" /\ fileLength = st_size =>
              /\ sent.bytes = sent.end - sent.start + 1
              /\ sent.end < st_size
              /\ sent.bytes \in 1..(MaxRequest + 1)
              /\ sent.first..(sent.first + sent.bytes - 1) \subseteq Requested
=============================================================================
