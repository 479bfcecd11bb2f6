----------------------------- MODULE MCExchange -----------------------------
(***************************************************************************)
(* Requests in families: the headers that choose the codings, with every   *)
(* plan; the types accepted, of a file; the bodies and their codings.      *)
(***************************************************************************)
EXTENDS Exchange

Wish(name, weight, spacing) == [name |-> name, weight |-> weight, spacing |-> spacing]
Type(major, minor, weight)  == [major |-> major, minor |-> minor, weight |-> weight, spacing |-> "none"]

Plain == [acceptEncoding |-> <<>>, te |-> <<>>, accept |-> <<>>,
          transferCoding |-> "identity", contentCoding |-> "identity", mediaType |-> "none",
          length |-> 0, fault |-> "none", plan |-> "page", size |-> 0]

g0 == Wish("gzip", 5, "none")
g1 == Wish("gzip", 5, "after")
g2 == Wish("gzip", 5, "before")
d0 == Wish("deflate", 8, "none")
i0 == Wish("identity", 2, "none")
s0 == Wish("*", NoWeight, "none")
c0 == Wish("chunked", 9, "none")
u0 == Wish("br", NoWeight, "none")
b0 == Wish("blank", NoWeight, "none")
n0 == Wish("nothing", 5, "none")

Wishes == {g0, g1, g2, d0, i0, s0, c0, u0, b0, n0}
EncodingLines ==
    {<<>>, <<<<g0, d0>>, <<i0>>>>, <<<<i0>>, <<g0>>, <<d0>>>>, <<<<g0, i0, d0, c0, i0, g0, u0>>>>}
    \cup {<<s>> : s \in UNION {[1..n -> Wishes] : n \in 1..2} \cup [1..3 -> {g0, d0, i0, g1, n0}]}

MCLines == {<<>>} \cup {<<<<w>>>> : w \in {g0, s0, c0, u0}}

Codes ==
    {[Plain EXCEPT !.acceptEncoding = a] : a \in EncodingLines}
    \cup {[Plain EXCEPT !.te = t] : t \in EncodingLines}
    \cup {[Plain EXCEPT !.acceptEncoding = a, !.te = t, !.plan = p, !.size = n] :
            a \in MCLines, t \in MCLines, p \in {"page", "file", "missing", "error", "head"}, n \in 0..4}

Patterns == {Type("text", "html", 5), Type("text", "*", 5), Type("*", "*", 2), Type("text", "css", 9),
             Type("image", "png", NoWeight), [Type("text", "html", 7) EXCEPT !.spacing = "before"],
             Type("image", "nothing", 5), Type("*", "html", 5)}
Accepted ==
    {[Plain EXCEPT !.plan = "file", !.size = 2, !.accept = lines] :
        lines \in {<<s>> : s \in UNION {[1..n -> Patterns] : n \in 1..3}}
                  \cup {<<<<t>>, <<t>>>> : t \in Patterns}
                  \cup {<<<<p, Type("image", "png", 2), Type("image", "png", 3), Type("image", "png", 4), q>>>> :
                            p \in Patterns, q \in Patterns}}

Bodies ==
    {[Plain EXCEPT !.transferCoding = t, !.contentCoding = c, !.length = n, !.fault = f, !.mediaType = m] :
        t \in {"identity", "gzip", "chunked", "*", "br"}, c \in {"identity", "deflate", "chunked", "br"},
        n \in 0..5, f \in {"none", "cut", "corrupt"}, m \in {"good", "bad"}}

MCRequests == Codes \cup Accepted \cup Bodies
MCActual   == [major |-> "text", minor |-> "html"]
=============================================================================
