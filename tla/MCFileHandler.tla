---------------------------- MODULE MCFileHandler ----------------------------
(* A directory with an index.html, a file beside it, a directory without. *)
EXTENDS FileHandler, TLC

AllPaths == {"dir", "dir/index.html", "file"}
Parents == "dir" :> "none" @@ "dir/index.html" :> "dir" @@ "file" :> "none"
Indexes == "dir" :> "dir/index.html" @@ "dir/index.html" :> "none" @@ "file" :> "none"
Tree == "dir" :> "dir" @@ "dir/index.html" :> "file" @@ "file" :> "file"

K(m, p) ==
    [method |-> m, path |-> p, acceptable |-> TRUE, list |-> FALSE, content |-> "empty"]
Post(p, c) == [K("POST", p) EXCEPT !.content = c]

Reads == {K("GET", "dir"), K("GET", "file"), K("HEAD", "file"),
          [K("GET", "dir") EXCEPT !.list = TRUE], [K("GET", "file") EXCEPT !.acceptable = FALSE]}
Deletes == {K("DELETE", p) : p \in AllPaths}
Posts == {Post("file", c) : c \in {"empty", "plain", "encoded", "coded", "chunked"}}
            \cup {Post("dir/index.html", "empty")}
AllKinds == Reads \cup Deletes \cup Posts
Junk == {0, 1, 9}
=============================================================================
