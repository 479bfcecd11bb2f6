----------------------------- MODULE FileHandler -----------------------------
(***************************************************************************)
(* The file handlers (src/server/fshandler.c, src/server/dirlist.c): what  *)
(* GET, HEAD, DELETE and POST do with a path of the webroot, one system    *)
(* call a step, while other workers do the same.  The URI is already a     *)
(* path (Routing) and the filters have run (ConnectionLoop); ranges are in *)
(* Ranges.                                                                 *)
(*                                                                         *)
(* The file system keeps for every path what is there, and for every inode *)
(* its length.  An open file stays readable after its path was removed.    *)
(***************************************************************************)
EXTENDS Integers, Sequences, FiniteSets

CONSTANTS Workers,
          Paths,        \* the paths requests come to, all below the webroot
          ParentOf,     \* the directory of each path, or NoPath for the webroot
          IndexOf,      \* each path with index.html appended, or NoPath: it is missing
          NoPath,
          InitialTree,  \* the kinds of the paths at the start: "file", "dir", "missing"
          Kinds,        \* the requests clients send
          MaxRequests,  \* bound on their number
          FullLength,   \* the length of the initial files, in reads
          JunkSizes     \* st_size of a stat structure that stat did not fill

\* What a path can hold besides the number of an inode.
Missing == 0
Directory == -1
Inodes == 1..(Cardinality(Paths) + Cardinality(Workers))
NoFile == 0
DirectorySize == 1

(* A request is a record:                                                  *)
(*   method      "GET", "HEAD", "DELETE" or "POST"                         *)
(*   path                                                                  *)
(*   acceptable  the file's media type is one the client accepts           *)
(*   list        the query asks for a directory's contents                 *)
(*   content     of a POST: "empty", "plain", "encoded" (Content-Encoding), *)
(*               "coded" (Transfer-Encoding gzip or deflate), "chunked"    *)
ASSUME KindsAssumption ==
    /\ \A r \in Kinds : r.method \in {"GET", "HEAD", "DELETE", "POST"} /\ r.path \in Paths
    /\ IndexOf \in [Paths -> Paths \cup {NoPath}] /\ ParentOf \in [Paths -> Paths \cup {NoPath}]
    /\ NoPath \notin Paths /\ IsFiniteSet(Paths) /\ IsFiniteSet(Workers)
    /\ FullLength \in Nat /\ JunkSizes \subseteq Nat /\ MaxRequests \in Nat

VARIABLES
    up,        \* the process runs
    tree,      \* what is at each path: an inode, Directory or Missing
    length,    \* the length of each inode
    requests,  \* how many requests were sent
    req,       \* the request each worker handles
    pc,
    path,      \* its request->uriPath
    file,      \* the inode of its openedFile, or NoFile
    size,      \* its st_size
    body,      \* how much of the file it has read
    isDir,     \* the local of handleDELETEFile
    entries,   \* the directory entries it has listed
    status,    \* response->statusCode
    out,       \* the status codes it has sent for this request
    removed    \* history: it removed the path

fsVars == <<tree, length>>
workerVars == <<req, path, size, body, isDir, entries>>
vars == <<up, fsVars, requests, workerVars, pc, file, status, out, removed>>

InodeOf == CHOOSE f \in [Paths -> Inodes] : \A p, q \in Paths : p # q => f[p] # f[q]

Init ==
    /\ up = TRUE
    /\ tree = [p \in Paths |->
                IF InitialTree[p] = "file" THEN InodeOf[p]
                ELSE IF InitialTree[p] = "dir" THEN Directory ELSE Missing]
    /\ length = [n \in Inodes |-> FullLength]
    /\ requests = 0
    /\ req = [w \in Workers |-> CHOOSE r \in Kinds : TRUE]
    /\ pc = [w \in Workers |-> "idle"]
    /\ path = [w \in Workers |-> NoPath]
    /\ file = [w \in Workers |-> NoFile]
    /\ size = [w \in Workers |-> 0]
    /\ body = [w \in Workers |-> 0]
    /\ isDir = [w \in Workers |-> FALSE]
    /\ entries = [w \in Workers |-> {}]
    /\ status = [w \in Workers |-> 200]
    /\ out = [w \in Workers |-> <<>>]
    /\ removed = [w \in Workers |-> FALSE]

At(w, label) == up /\ pc[w] = label
Goto(w, label) == pc' = [pc EXCEPT ![w] = label]

\* What access, stat and fopen find at a path.
Found(p) == IF p = NoPath THEN Missing ELSE tree[p]
IsFile(p) == Found(p) \in Inodes
Children(p) == {c \in Paths : ParentOf[c] = p /\ Found(c) # Missing}
ParentExists(p) == ParentOf[p] = NoPath \/ Found(ParentOf[p]) = Directory

\* sendResponse.
Send(w, code) == out' = [out EXCEPT ![w] = Append(@, code)]

\* The handler returns 0, or something else with a status prepared: "failed".
Return(w) == Goto(w, "close") /\ UNCHANGED <<status, out>>
Fail(w, code) == Goto(w, "failed") /\ status' = [status EXCEPT ![w] = code] /\ UNCHANGED out
Succeed(w) == Goto(w, "close") /\ Send(w, 200) /\ UNCHANGED status

\* The next step of the same request.
GoOn(w, label) == Goto(w, label) /\ UNCHANGED <<status, out>>

First == [GET |-> "get_open", HEAD |-> "head_access", DELETE |-> "delete_access", POST |-> "post_open"]

Request(w, r) ==
    /\ At(w, "idle")
    /\ requests < MaxRequests
    /\ requests' = requests + 1
    /\ req' = [req EXCEPT ![w] = r]
    /\ path' = [path EXCEPT ![w] = r.path]
    /\ body' = [body EXCEPT ![w] = 0]
    /\ status' = [status EXCEPT ![w] = 200]
    /\ out' = [out EXCEPT ![w] = <<>>]
    /\ removed' = [removed EXCEPT ![w] = FALSE]
    /\ Goto(w, First[r.method])
    /\ UNCHANGED <<up, fsVars, file, size, isDir, entries>>
----------------------------------------------------------------------------
(* handleGETFile.                                                          *)

\* The directory itself instead of its index.
SameDirectory(p) == p

\* handleDirectory.
HandleDirectory(p) == IndexOf[p]

\* fopen "r+"; of a directory the listing if asked for, else its index.html.
GetOpen(w) ==
    /\ At(w, "get_open")
    /\ \/ /\ IsFile(path[w])
          /\ file' = [file EXCEPT ![w] = tree[path[w]]]
          /\ GoOn(w, "get_access")
          /\ UNCHANGED path
       \/ /\ Found(path[w]) = Directory /\ req[w].list
          /\ GoOn(w, "list_open")
          /\ UNCHANGED <<path, file>>
       \/ /\ Found(path[w]) = Directory /\ ~req[w].list
          /\ path' = [path EXCEPT ![w] = HandleDirectory(@)]
          /\ UNCHANGED <<pc, status, out, file>>
       \/ /\ Found(path[w]) = Missing
          /\ Fail(w, 404)
          /\ UNCHANGED <<path, file>>
    /\ UNCHANGED <<up, fsVars, requests, req, size, body, isDir, entries, removed>>

GetAccess(w) ==
    /\ At(w, "get_access")
    /\ IF Found(path[w]) = Missing THEN Fail(w, 404) ELSE GoOn(w, "get_type")
    /\ UNCHANGED <<up, fsVars, requests, workerVars, file, removed>>

\* chooseContentType sends a response of its own before it fails.
GetType(w) ==
    /\ At(w, "get_type")
    /\ \/ req[w].acceptable /\ GoOn(w, "get_stat")
       \/ /\ ~req[w].acceptable
          /\ Send(w, 406)
          /\ Goto(w, "failed")
          /\ status' = [status EXCEPT ![w] = 415]
    /\ UNCHANGED <<up, fsVars, requests, workerVars, file, removed>>

\* stat by path, its result ignored.
GetStat(w) ==
    /\ At(w, "get_stat")
    /\ \E n \in IF IsFile(path[w]) THEN {length[tree[path[w]]]}
                ELSE IF Found(path[w]) = Directory THEN {DirectorySize} ELSE JunkSizes :
          size' = [size EXCEPT ![w] = n]
    /\ GoOn(w, "get_read")
    /\ UNCHANGED <<up, fsVars, requests, req, path, body, isDir, entries, file, removed>>

\* readFileIntoBody, one read.
AtEnd(w) == body[w] >= size[w] \/ body[w] >= length[file[w]]
GetRead(w) ==
    /\ At(w, "get_read")
    /\ ~AtEnd(w)
    /\ body' = [body EXCEPT ![w] = @ + 1]
    /\ UNCHANGED <<up, fsVars, requests, req, path, size, isDir, entries, pc, file, status, out,
                   removed>>

GetSend(w) ==
    /\ At(w, "get_read")
    /\ AtEnd(w)
    /\ Succeed(w)
    /\ UNCHANGED <<up, fsVars, requests, workerVars, file, removed>>

\* handleDirectoryList: opendir and readdir, then a stat for each entry.
ListOpen(w) ==
    /\ At(w, "list_open")
    /\ \/ /\ Found(path[w]) = Directory
          /\ entries' = [entries EXCEPT ![w] = Children(path[w])]
          /\ GoOn(w, "list_stat")
       \/ /\ Found(path[w]) # Directory
          /\ Fail(w, 200)
          /\ UNCHANGED entries
    /\ UNCHANGED <<up, fsVars, requests, req, path, size, body, isDir, file, removed>>

ListStat(w) ==
    /\ At(w, "list_stat")
    /\ IF \E c \in entries[w] : Found(c) = Missing THEN Fail(w, 200) ELSE Succeed(w)
    /\ UNCHANGED <<up, fsVars, requests, workerVars, file, removed>>
----------------------------------------------------------------------------
(* handleHEADFile.                                                         *)

HeadAccess(w) ==
    /\ At(w, "head_access")
    /\ IF Found(path[w]) = Missing THEN Fail(w, 404) ELSE GoOn(w, "head_stat")
    /\ UNCHANGED <<up, fsVars, requests, workerVars, file, removed>>

HeadStat(w) ==
    /\ At(w, "head_stat")
    /\ IF Found(path[w]) = Missing THEN Fail(w, 500) ELSE Succeed(w)
    /\ UNCHANGED <<up, fsVars, requests, workerVars, file, removed>>
----------------------------------------------------------------------------
(* handleDELETEFile.                                                       *)

\* A missing file: the 404 is prepared and 0 returned.
DeleteAccess(w) ==
    /\ At(w, "delete_access")
    /\ IF Found(path[w]) = Missing THEN Return(w) ELSE GoOn(w, "delete_stat")
    /\ UNCHANGED <<up, fsVars, requests, workerVars, file, removed>>

\* stat, its result ignored.
DeleteStat(w) ==
    /\ At(w, "delete_stat")
    /\ \E d \in IF Found(path[w]) = Missing THEN BOOLEAN ELSE {Found(path[w]) = Directory} :
          isDir' = [isDir EXCEPT ![w] = d]
    /\ GoOn(w, "delete_remove")
    /\ UNCHANGED <<up, fsVars, requests, req, path, size, body, entries, file, removed>>

Removable(w) ==
    IF isDir[w] THEN Found(path[w]) = Directory /\ Children(path[w]) = {} ELSE IsFile(path[w])

\* The result of rmdir or unlink not returned.
DeleteIgnoresResult(w) ==
    /\ At(w, "delete_remove")
    /\ Succeed(w)
    /\ \/ Removable(w) /\ tree' = [tree EXCEPT ![path[w]] = Missing]
                       /\ removed' = [removed EXCEPT ![w] = TRUE]
       \/ ~Removable(w) /\ UNCHANGED <<tree, removed>>
    /\ UNCHANGED <<up, length, requests, workerVars, file>>

\* rmdir or unlink; a response is sent in any case, then the result is returned.
DeleteRemove(w) ==
    /\ At(w, "delete_remove")
    /\ Send(w, 200)
    /\ \/ /\ Removable(w)
          /\ tree' = [tree EXCEPT ![path[w]] = Missing]
          /\ removed' = [removed EXCEPT ![w] = TRUE]
          /\ Goto(w, "close")
       \/ /\ ~Removable(w)
          /\ Goto(w, "failed")
          /\ UNCHANGED <<tree, removed>>
    /\ UNCHANGED <<up, length, requests, workerVars, file, status>>
----------------------------------------------------------------------------
(* handlePOSTFile.                                                         *)

\* fopen "w+" empties the file or creates it; the loop repeats it until it succeeds.
PostOpen(w) ==
    /\ At(w, "post_open")
    /\ \/ /\ IsFile(path[w])
          /\ length' = [length EXCEPT ![tree[path[w]]] = 0]
          /\ file' = [file EXCEPT ![w] = tree[path[w]]]
          /\ UNCHANGED tree
       \/ /\ Found(path[w]) = Missing /\ ParentExists(path[w])
          /\ \E n \in Inodes :
                /\ \A p \in Paths : tree[p] # n
                /\ \A v \in Workers : file[v] # n
                /\ tree' = [tree EXCEPT ![path[w]] = n]
                /\ length' = [length EXCEPT ![n] = 0]
                /\ file' = [file EXCEPT ![w] = n]
    /\ GoOn(w, IF req[w].content = "empty" THEN "post_unlink" ELSE "post_write")
    /\ UNCHANGED <<up, requests, workerVars, removed>>

\* A body of length 0 asks for a directory: unlink, its result ignored, then mkdir.
PostUnlink(w) ==
    /\ At(w, "post_unlink")
    /\ IF IsFile(path[w]) THEN tree' = [tree EXCEPT ![path[w]] = Missing] ELSE UNCHANGED tree
    /\ GoOn(w, "post_mkdir")
    /\ UNCHANGED <<up, length, requests, workerVars, file, removed>>

PostMkdir(w) ==
    /\ At(w, "post_mkdir")
    /\ \/ /\ Found(path[w]) = Missing /\ ParentExists(path[w])
          /\ tree' = [tree EXCEPT ![path[w]] = Directory]
          /\ Return(w)
       \/ /\ Found(path[w]) # Missing \/ ~ParentExists(path[w])
          /\ Fail(w, 200)
          /\ UNCHANGED tree
    /\ UNCHANGED <<up, length, requests, workerVars, file, removed>>

\* What the handler makes of a body.  One without coding was never read, and writing
\* from its NULL pointer fails or ends the process.  One with a content coding is
\* decoded from that NULL to nothing, and accepted.  One with a transfer coding was
\* decoded by the filter and fails to decode again.  Of one in chunks the filter
\* consumed the chunks, and the handler takes what comes next for the end of the body,
\* or fails on it.
PostWrite(w) ==
    /\ At(w, "post_write")
    /\ \/ req[w].content = "plain" /\ Fail(w, 500) /\ UNCHANGED up
       \/ req[w].content = "plain" /\ up' = FALSE /\ UNCHANGED <<pc, status, out>>
       \/ req[w].content = "encoded" /\ Succeed(w) /\ UNCHANGED up
       \/ req[w].content \in {"coded", "chunked"} /\ Fail(w, 400) /\ UNCHANGED up
       \/ req[w].content = "chunked" /\ Return(w) /\ UNCHANGED up
    /\ UNCHANGED <<fsVars, requests, workerVars, file, removed>>
----------------------------------------------------------------------------
(* The end of a handler and of the request.                                *)

\* fclose, and for a handler that failed the response of handleConnection.
Close(w) ==
    /\ At(w, "close") \/ At(w, "failed")
    /\ file' = [file EXCEPT ![w] = NoFile]
    /\ IF pc[w] = "failed" THEN Send(w, status[w]) ELSE UNCHANGED out
    /\ Goto(w, "idle")
    /\ UNCHANGED <<up, fsVars, requests, workerVars, status, removed>>

Step(w) ==
    \/ GetOpen(w) \/ GetAccess(w) \/ GetType(w) \/ GetStat(w) \/ GetRead(w) \/ GetSend(w)
    \/ ListOpen(w) \/ ListStat(w) \/ HeadAccess(w) \/ HeadStat(w)
    \/ DeleteAccess(w) \/ DeleteStat(w) \/ DeleteRemove(w)
    \/ PostOpen(w) \/ PostUnlink(w) \/ PostMkdir(w) \/ PostWrite(w)
    \/ Close(w)

Next == \E w \in Workers : Step(w) \/ (\E r \in Kinds : Request(w, r))

Spec == Init /\ [][Next]_vars

\* Every worker is scheduled, and no client has to send anything.
FairSpec == Spec /\ \A w \in Workers : WF_vars(Step(w))
----------------------------------------------------------------------------
(* Properties.                                                             *)

Labels == {"idle", "get_open", "get_access", "get_type", "get_stat", "get_read", "list_open",
           "list_stat", "head_access", "head_stat", "delete_access", "delete_stat",
           "delete_remove", "post_open", "post_unlink", "post_mkdir", "post_write", "close",
           "failed"}
TypeOK ==
    /\ tree \in [Paths -> Inodes \cup {Missing, Directory}]
    /\ length \in [Inodes -> 0..FullLength]
    /\ pc \in [Workers -> Labels]
    /\ path \in [Workers -> Paths \cup {NoPath}]
    /\ file \in [Workers -> Inodes \cup {NoFile}]
    /\ \A w \in Workers : pc[w] = "idle" => file[w] = NoFile
    /\ \A w \in Workers : pc[w] \in {"get_access", "get_read", "post_write"} => file[w] # NoFile

Done(w, m) == pc[w] = "idle" /\ path[w] # NoPath /\ req[w].method = m

\* A GET or HEAD is answered exactly once, whatever happens to its file between the
\* system calls, except that a media type the client refuses is answered twice.
ReadsAnsweredOnce ==
    \A w \in Workers :
        Done(w, "HEAD") \/ (Done(w, "GET") /\ out[w] # <<406, 415>>) => Len(out[w]) = 1

\* A DELETE answered with one 200 did remove the path, and a worker whose unlink lost a
\* race against another's sends two responses.
DeletesTrue == \A w \in Workers : Done(w, "DELETE") => (out[w] = <<200>> <=> removed[w])

\* So what a request is answered is what became of the tree, and a worker that is done
\* left no file open.
AnsweredTrue == TypeOK /\ ReadsAnsweredOnce /\ DeletesTrue

\* Whatever other workers do, a request comes to its end: the retries of fopen on a
\* directory run out of index.html.  Only a POST whose file can never be opened does not:
\* where the comment says "still null, it failed, send response back" (fshandler.c:296)
\* the loop goes on.
Unopenable(w) ==
    pc[w] = "post_open" /\ ~IsFile(path[w]) /\ ~(Found(path[w]) = Missing /\ ParentExists(path[w]))
RequestsEnd ==
    \A w \in Workers : pc[w] # "idle" ~> pc[w] = "idle" \/ ~up \/ []Unopenable(w)
=============================================================================
