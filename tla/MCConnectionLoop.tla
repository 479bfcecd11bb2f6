-------------------------- MODULE MCConnectionLoop --------------------------
(* The kinds of requests the runs of ConnectionLoop use. *)
EXTENDS ConnectionLoop

Kind(line, coding, size, fate) == [line |-> line, coding |-> coding, body |-> size, fate |-> fate]

Plain(fate) == Kind("ok", "identity", 0, fate)
Upload == Kind("ok", "identity", 1, "answered")
Zipped(fate) == Kind("ok", "gzip", 2, fate)
Chunked(count) == Kind("ok", "chunked", count, "answered")
BadLine == Kind("bad", "identity", 0, "answered")

SomeKinds ==
    {Plain("answered"), Plain("rejected"), Plain("silent"), Zipped("failed"), Upload, BadLine,
     Chunked(1), Chunked(2)}
=============================================================================
