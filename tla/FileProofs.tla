------------------------------ MODULE FileProofs ------------------------------
(***************************************************************************)
(* What the file handlers answer, for any number of workers and requests   *)
(* and any tree of files that change between their system calls, and what  *)
(* they answer to a request for a range of a file, for any list of ranges, *)
(* any sizes of files and any width of the numbers.                        *)
(***************************************************************************)
EXTENDS FileHandler, Ranges, FiniteSetTheorems, SequenceTheorems, TLAPS

GetLabels == {"get_open", "get_access", "get_type", "get_stat", "get_read", "list_open", "list_stat"}
HeadLabels == {"head_access", "head_stat"}
DeleteLabels == {"delete_access", "delete_stat", "delete_remove"}
PostLabels == {"post_open", "post_unlink", "post_mkdir", "post_write"}
Handling == GetLabels \cup HeadLabels \cup DeleteLabels \cup PostLabels

Types ==
    /\ tree \in [Paths -> Inodes \cup {Missing, Directory}]
    /\ length \in [Inodes -> 0..FullLength]
    /\ pc \in [Workers -> Labels]
    /\ path \in [Workers -> Paths \cup {NoPath}]
    /\ file \in [Workers -> Inodes \cup {NoFile}]
    /\ DOMAIN req = Workers
    /\ out \in [Workers -> Seq(Nat)]
    /\ status \in [Workers -> Nat]
    /\ removed \in [Workers -> BOOLEAN]

(***************************************************************************)
(* What holds of a worker with a request of method m at label l: the       *)
(* handler is that of the method; nothing is answered before its end; the  *)
(* file is open while it is used; then one answer on the way to "close",   *)
(* none on the way to "failed", where one follows, but for a media type    *)
(* refused and a removal, which is answered before its result is looked at. *)
(***************************************************************************)
Right(m, l, p, f, code, answers, gone) ==
    /\ l \in GetLabels => m = "GET"
    /\ l \in HeadLabels => m = "HEAD"
    /\ l \in DeleteLabels => m = "DELETE"
    /\ l \in PostLabels => m = "POST"
    /\ l \in Handling => answers = <<>> /\ ~gone
    /\ l \in {"get_access", "get_type", "get_stat", "get_read", "post_write"} => f # NoFile
    /\ l = "idle" => f = NoFile
    /\ m \in {"GET", "HEAD"} =>
        /\ l = "close" => Len(answers) = 1
        /\ l = "failed" => answers = <<>> \/ (m = "GET" /\ answers = <<406>> /\ code = 415)
        /\ l = "idle" /\ p # NoPath =>
              Len(answers) = 1 \/ (m = "GET" /\ answers = <<406, 415>>)
    /\ m = "DELETE" =>
        /\ l = "close" => (answers = <<>> /\ ~gone) \/ (answers = <<200>> /\ gone)
        /\ l = "failed" => answers = <<200>> /\ ~gone
        /\ l = "idle" /\ p # NoPath => (answers = <<200>> <=> gone)

Local(w) == Right(req[w].method, pc[w], path[w], file[w], status[w], out[w], removed[w])
IInv == Types /\ \A w \in Workers : Local(w)

LEMMA InodesAreNumbers ==
  /\ Inodes \subseteq Nat /\ NoFile \notin Inodes
  /\ \E f \in [Paths -> Inodes] : \A p, q \in Paths : p # q => f[p] # f[q]
<1>1. Cardinality(Paths) \in Nat /\ Cardinality(Workers) \in Nat
  BY KindsAssumption, FS_CardinalityType
<1>2. PICK b : b \in Bijection(1..Cardinality(Paths), Paths)
  BY KindsAssumption, FS_CardinalityType DEF ExistsBijection
<1>3. \A p \in Paths : \E i \in 1..Cardinality(Paths) : b[i] = p
  BY <1>2 DEF Bijection, Surjection
<1> DEFINE f == [p \in Paths |-> CHOOSE i \in 1..Cardinality(Paths) : b[i] = p]
<1>4. \A p \in Paths : f[p] \in 1..Cardinality(Paths) /\ b[f[p]] = p
  BY <1>3
<1>5. \A i \in 1..Cardinality(Paths) : i \in Inodes
  BY <1>1 DEF Inodes
<1>6. f \in [Paths -> Inodes] /\ \A p, q \in Paths : p # q => f[p] # f[q]
  BY <1>4, <1>5
<1>7. Inodes \subseteq Nat /\ NoFile \notin Inodes
  BY <1>1 DEF Inodes, NoFile
<1> QED
  BY <1>6, <1>7

LEMMA Initially == Init => IInv
<1> SUFFICES ASSUME Init PROVE IInv
  OBVIOUS
<1>1. InodeOf \in [Paths -> Inodes]
  BY InodesAreNumbers DEF InodeOf
<1>2. Types
  BY <1>1, KindsAssumption, InodesAreNumbers DEF Init, Types, Labels, NoFile, Missing, Directory
<1>3. ASSUME NEW w \in Workers PROVE Local(w)
  BY DEF Init, Local, Right, GetLabels, HeadLabels, DeleteLabels, PostLabels, Handling
<1> QED
  BY <1>2, <1>3 DEF IInv

\* A step of a worker changes nothing another worker's answers depend on.
LEMMA OneWorker ==
  ASSUME IInv, Types', NEW w \in Workers, Local(w)',
         \A v \in Workers \ {w} : /\ pc'[v] = pc[v] /\ path'[v] = path[v] /\ file'[v] = file[v]
                                  /\ req'[v] = req[v] /\ out'[v] = out[v]
                                  /\ status'[v] = status[v] /\ removed'[v] = removed[v]
  PROVE  IInv'
<1>1. ASSUME NEW v \in Workers \ {w} PROVE Local(v)'
  BY <1>1 DEF IInv, Local
<1> QED
  BY <1>1 DEF IInv

LEMMA RequestKeeps ==
  ASSUME IInv, NEW w \in Workers, NEW r \in Kinds, Request(w, r)
  PROVE  IInv'
<1>1. r.method \in {"GET", "HEAD", "DELETE", "POST"} /\ r.path \in Paths
  BY KindsAssumption
<1>2. First[r.method] \in {"get_open", "head_access", "delete_access", "post_open"}
  BY <1>1 DEF First
<1>3. Types'
  BY <1>1, <1>2 DEF IInv, Types, Request, Goto, fsVars, Labels
<1>4. Local(w)'
  BY <1>1 DEF IInv, Types, Request, Goto, First, Local, Right, GetLabels,
     HeadLabels, DeleteLabels, PostLabels, Handling
<1> QED
  BY <1>3, <1>4, OneWorker DEF IInv, Types, Request, Goto

\* What the steps of a handler are made of: where it goes, its status and its answers.
Settled(w, label, code, answers) ==
    /\ pc' \in [Workers -> Labels] /\ pc'[w] = label
    /\ status' \in [Workers -> Nat] /\ status'[w] = code
    /\ out' \in [Workers -> Seq(Nat)] /\ out'[w] = answers
    /\ \A v \in Workers \ {w} : pc'[v] = pc[v] /\ status'[v] = status[v] /\ out'[v] = out[v]

LEMMA Settling ==
  ASSUME Types, NEW w \in Workers
  PROVE  /\ \A l \in Labels : GoOn(w, l) => Settled(w, l, status[w], out[w])
         /\ Return(w) => Settled(w, "close", status[w], out[w])
         /\ \A code \in Nat : Fail(w, code) => Settled(w, "failed", code, out[w])
         /\ Succeed(w) => Settled(w, "close", status[w], Append(out[w], 200))
<1>1. "close" \in Labels /\ "failed" \in Labels
  BY DEF Labels
<1>2. /\ out \in [Workers -> Seq(Nat)] /\ status \in [Workers -> Nat] /\ pc \in [Workers -> Labels]
  BY DEF Types
<1>3. ASSUME NEW l \in Labels, GoOn(w, l) PROVE Settled(w, l, status[w], out[w])
  BY <1>2, <1>3 DEF GoOn, Goto, Settled
<1>4. ASSUME Return(w) PROVE Settled(w, "close", status[w], out[w])
  BY <1>1, <1>2, <1>4 DEF Return, Goto, Settled
<1>5. ASSUME NEW code \in Nat, Fail(w, code) PROVE Settled(w, "failed", code, out[w])
  BY <1>1, <1>2, <1>5 DEF Fail, Goto, Settled
<1>6. ASSUME Succeed(w) PROVE Settled(w, "close", status[w], Append(out[w], 200))
  <2>1. Append(out[w], 200) \in Seq(Nat)
    BY <1>2
  <2>2. pc' = [pc EXCEPT ![w] = "close"] /\ status' = status
        /\ out' = [out EXCEPT ![w] = Append(out[w], 200)]
    BY <1>6 DEF Succeed, Goto, Send
  <2> QED
    BY <1>1, <1>2, <2>1, <2>2 DEF Settled
<1> QED
  BY <1>3, <1>4, <1>5, <1>6

\* A step that settles a worker and leaves its path and its file.
LEMMA SettledKeeps ==
  ASSUME IInv, NEW w \in Workers, NEW label, NEW code, NEW answers,
         Settled(w, label, code, answers), UNCHANGED <<req, path, file, removed>>,
         tree' \in [Paths -> Inodes \cup {Missing, Directory}], length' \in [Inodes -> 0..FullLength],
         Right(req[w].method, label, path[w], file[w], code, answers, removed[w])
  PROVE  IInv'
<1>1. Types'
  BY DEF IInv, Types, Settled
<1>2. Local(w)'
  BY DEF Local, Settled
<1> QED
  BY <1>1, <1>2, OneWorker DEF Settled

\* The same for a step that changes nothing but where the worker is.
LEMMA Here ==
  ASSUME IInv, NEW w \in Workers, NEW label, At(w, label)
  PROVE  /\ Right(req[w].method, label, path[w], file[w], status[w], out[w], removed[w])
         /\ pc[w] = label /\ Types
         /\ tree \in [Paths -> Inodes \cup {Missing, Directory}] /\ length \in [Inodes -> 0..FullLength]
BY DEF IInv, Types, Local, At

\* The moves of the handlers that answer at their end.
Using == {"get_access", "get_type", "get_stat", "get_read", "post_write"}
Plain == GetLabels \cup HeadLabels \cup PostLabels
LEMMA RightMoves ==
  ASSUME NEW m, NEW l \in Handling, NEW p, NEW f, NEW code, NEW gone, NEW answers \in Seq(Nat),
         Right(m, l, p, f, code, answers, gone)
  PROVE  /\ l \in Plain => \A c : Right(m, "failed", p, f, c, answers, gone)
         /\ l \in Plain => Right(m, "close", p, f, code, Append(answers, 200), gone)
         /\ \A k \in Handling :
               /\ \/ {k, l} \subseteq GetLabels \/ {k, l} \subseteq HeadLabels
                  \/ {k, l} \subseteq DeleteLabels \/ {k, l} \subseteq PostLabels
               /\ k \in Using => l \in Using
               => Right(m, k, p, f, code, answers, gone)
<1>1. answers = <<>> /\ ~gone
  BY DEF Right
<1>2. Len(Append(answers, 200)) = 1
  BY <1>1
<1>3. ASSUME l \in Plain PROVE m \in {"GET", "HEAD", "POST"}
  BY <1>3 DEF Right, Plain
<1>4. ASSUME l \in Plain, NEW c PROVE Right(m, "failed", p, f, c, answers, gone)
  BY <1>1, <1>3, <1>4 DEF Right, GetLabels, HeadLabels, DeleteLabels, PostLabels, Handling
<1>5. ASSUME l \in Plain PROVE Right(m, "close", p, f, code, Append(answers, 200), gone)
  BY <1>1, <1>2, <1>3, <1>5 DEF Right, GetLabels, HeadLabels, DeleteLabels, PostLabels, Handling
<1>6. ASSUME NEW k \in Handling,
             \/ {k, l} \subseteq GetLabels \/ {k, l} \subseteq HeadLabels
             \/ {k, l} \subseteq DeleteLabels \/ {k, l} \subseteq PostLabels,
             k \in Using => l \in Using
      PROVE  Right(m, k, p, f, code, answers, gone)
  <2>1. k \notin {"idle", "close", "failed"}
    BY DEF GetLabels, HeadLabels, DeleteLabels, PostLabels, Handling
  <2>2. /\ k \in GetLabels => m = "GET"
        /\ k \in HeadLabels => m = "HEAD"
        /\ k \in DeleteLabels => m = "DELETE"
        /\ k \in PostLabels => m = "POST"
    BY <1>6 DEF Right, GetLabels, HeadLabels, DeleteLabels, PostLabels
  <2>3. k \in Using => f # NoFile
    BY <1>6 DEF Right, Using
  <2> QED
    BY <1>1, <2>1, <2>2, <2>3 DEF Right, Using
<1> QED
  BY <1>4, <1>5, <1>6

\* So a step that goes on, fails or succeeds from one of these labels keeps the invariant.
LEMMA PlainStep ==
  ASSUME IInv, NEW w \in Workers, NEW l \in Plain, At(w, l),
         UNCHANGED <<req, path, file, removed>>,
         tree' \in [Paths -> Inodes \cup {Missing, Directory}], length' \in [Inodes -> 0..FullLength],
         \/ \E code \in Nat : Fail(w, code)
         \/ Succeed(w)
         \/ \E k \in Handling :
               /\ GoOn(w, k)
               /\ \/ {k, l} \subseteq GetLabels \/ {k, l} \subseteq HeadLabels
                  \/ {k, l} \subseteq PostLabels
               /\ k \in Using => l \in Using
  PROVE  IInv'
<1>1. /\ Right(req[w].method, l, path[w], file[w], status[w], out[w], removed[w])
      /\ out[w] \in Seq(Nat) /\ Types /\ l \in Handling
  BY Here DEF Types, Plain, Handling
<1>2. Handling \subseteq Labels
  BY DEF Handling, GetLabels, HeadLabels, DeleteLabels, PostLabels, Labels
<1>3. ASSUME NEW code \in Nat, Fail(w, code) PROVE IInv'
  <2>1. Settled(w, "failed", code, out[w])
    BY <1>1, <1>3, Settling
  <2>2. Right(req[w].method, "failed", path[w], file[w], code, out[w], removed[w])
    BY <1>1, RightMoves
  <2> QED
    BY <2>1, <2>2, SettledKeeps
<1>4. CASE Succeed(w)
  <2>1. Settled(w, "close", status[w], Append(out[w], 200))
    BY <1>1, <1>4, Settling
  <2>2. Right(req[w].method, "close", path[w], file[w], status[w], Append(out[w], 200), removed[w])
    BY <1>1, RightMoves
  <2> QED
    BY <2>1, <2>2, SettledKeeps
<1>5. ASSUME NEW k \in Handling, GoOn(w, k), k \in Using => l \in Using,
             \/ {k, l} \subseteq GetLabels \/ {k, l} \subseteq HeadLabels
             \/ {k, l} \subseteq PostLabels
      PROVE  IInv'
  <2>1. Settled(w, k, status[w], out[w])
    BY <1>1, <1>2, <1>5, Settling
  <2>2. Right(req[w].method, k, path[w], file[w], status[w], out[w], removed[w])
    BY <1>1, <1>5, RightMoves
  <2> QED
    BY <2>1, <2>2, SettledKeeps
<1> QED
  BY <1>3, <1>4, <1>5

\* handleGETFile, handleDirectoryList and handleHEADFile where they leave the file alone.
LEMMA ReadKeeps ==
  ASSUME IInv, NEW w \in Workers,
         GetAccess(w) \/ GetStat(w) \/ GetSend(w) \/ ListOpen(w) \/ ListStat(w)
         \/ HeadAccess(w) \/ HeadStat(w)
  PROVE  IInv'
<1>1. /\ tree \in [Paths -> Inodes \cup {Missing, Directory}] /\ length \in [Inodes -> 0..FullLength]
      /\ \A l \in GetLabels \cup HeadLabels : l \in Plain /\ l \in Handling
  BY DEF IInv, Types, Plain, Handling
<1>2. CASE GetAccess(w)
  <2>1. /\ At(w, "get_access") /\ UNCHANGED <<fsVars, req, path, file, removed>>
        /\ Fail(w, 404) \/ GoOn(w, "get_type")
    BY <1>2 DEF GetAccess, workerVars
  <2>2. {"get_access", "get_type"} \subseteq GetLabels
    BY DEF GetLabels
  <2> QED
    BY <1>1, <2>1, <2>2, PlainStep DEF fsVars, Using
<1>3. CASE GetStat(w)
  <2>1. /\ At(w, "get_stat") /\ UNCHANGED <<fsVars, req, path, file, removed>>
        /\ GoOn(w, "get_read")
    BY <1>3 DEF GetStat, workerVars
  <2>2. {"get_stat", "get_read"} \subseteq GetLabels
    BY DEF GetLabels
  <2> QED
    BY <1>1, <2>1, <2>2, PlainStep DEF fsVars, Using
<1>4. CASE GetSend(w)
  <2>1. /\ At(w, "get_read") /\ UNCHANGED <<fsVars, req, path, file, removed>>
        /\ Succeed(w)
    BY <1>4 DEF GetSend, workerVars
  <2>2. {"get_read"} \subseteq GetLabels
    BY DEF GetLabels
  <2> QED
    BY <1>1, <2>1, <2>2, PlainStep DEF fsVars, Using
<1>5. CASE ListOpen(w)
  <2>1. /\ At(w, "list_open") /\ UNCHANGED <<fsVars, req, path, file, removed>>
        /\ Fail(w, 200) \/ GoOn(w, "list_stat")
    BY <1>5 DEF ListOpen, workerVars
  <2>2. {"list_open", "list_stat"} \subseteq GetLabels
    BY DEF GetLabels
  <2> QED
    BY <1>1, <2>1, <2>2, PlainStep DEF fsVars, Using
<1>6. CASE ListStat(w)
  <2>1. /\ At(w, "list_stat") /\ UNCHANGED <<fsVars, req, path, file, removed>>
        /\ Fail(w, 200) \/ Succeed(w)
    BY <1>6 DEF ListStat, workerVars
  <2>2. {"list_stat"} \subseteq GetLabels
    BY DEF GetLabels
  <2> QED
    BY <1>1, <2>1, <2>2, PlainStep DEF fsVars, Using
<1>7. CASE HeadAccess(w)
  <2>1. /\ At(w, "head_access") /\ UNCHANGED <<fsVars, req, path, file, removed>>
        /\ Fail(w, 404) \/ GoOn(w, "head_stat")
    BY <1>7 DEF HeadAccess, workerVars
  <2>2. {"head_access", "head_stat"} \subseteq HeadLabels
    BY DEF HeadLabels
  <2> QED
    BY <1>1, <2>1, <2>2, PlainStep DEF fsVars, Using
<1>8. CASE HeadStat(w)
  <2>1. /\ At(w, "head_stat") /\ UNCHANGED <<fsVars, req, path, file, removed>>
        /\ Fail(w, 500) \/ Succeed(w)
    BY <1>8 DEF HeadStat, workerVars
  <2>2. {"head_stat"} \subseteq HeadLabels
    BY DEF HeadLabels
  <2> QED
    BY <1>1, <2>1, <2>2, PlainStep DEF fsVars, Using
<1> QED
  BY <1>2, <1>3, <1>4, <1>5, <1>6, <1>7, <1>8

\* handleGETFile where it opens the file, refuses its type or reads it.
LEMMA GetKeeps ==
  ASSUME IInv, NEW w \in Workers, GetOpen(w) \/ GetType(w) \/ GetRead(w)
  PROVE  IInv'
<1>1. /\ Types /\ out[w] \in Seq(Nat) /\ status[w] \in Nat
      /\ tree \in [Paths -> Inodes \cup {Missing, Directory}] /\ length \in [Inodes -> 0..FullLength]
      /\ \A l \in GetLabels : l \in Plain /\ l \in Handling /\ l \in Labels
  BY DEF IInv, Types, Plain, Handling, GetLabels, Labels
<1>2. CASE GetOpen(w)
  <2>1. At(w, "get_open") /\ UNCHANGED <<fsVars, req, removed>>
    BY <1>2 DEF GetOpen
  <2>2. /\ Right(req[w].method, "get_open", path[w], file[w], status[w], out[w], removed[w])
        /\ pc[w] = "get_open"
    BY <2>1, Here
  <2>3. {"get_open", "get_access", "list_open"} \subseteq GetLabels
    BY DEF GetLabels
  <2>4. CASE IsFile(path[w]) /\ file' = [file EXCEPT ![w] = tree[path[w]]] /\ GoOn(w, "get_access")
             /\ UNCHANGED path
    <3>1. Settled(w, "get_access", status[w], out[w])
      BY <1>1, <2>3, <2>4, Settling
    <3>2. tree[path[w]] \in Inodes /\ tree[path[w]] # NoFile
      BY <2>4, InodesAreNumbers DEF IsFile, Found, Missing, NoFile
    <3>3. file' \in [Workers -> Inodes \cup {NoFile}] /\ file'[w] # NoFile
          /\ \A v \in Workers \ {w} : file'[v] = file[v]
      BY <1>1, <2>4, <3>2 DEF Types
    <3>4. Types'
      BY <1>1, <2>1, <2>4, <3>1, <3>3 DEF Types, Settled, fsVars
    <3>5. Local(w)'
      <4>1. req[w].method = "GET" /\ out[w] = <<>> /\ ~removed[w]
        BY <2>2, <2>3 DEF Right, Handling
      <4>2. Right("GET", "get_access", path[w], file'[w], status[w], out[w], removed[w])
        BY <3>3, <4>1 DEF Right, GetLabels, HeadLabels, DeleteLabels, PostLabels
      <4> QED
        BY <2>1, <2>4, <3>1, <4>1, <4>2 DEF Local, Settled
    <3> QED
      BY <2>1, <2>4, <3>1, <3>3, <3>4, <3>5, OneWorker DEF Settled
  <2>5. CASE UNCHANGED <<path, file>> /\ (GoOn(w, "list_open") \/ Fail(w, 404))
    BY <1>1, <2>1, <2>3, <2>5, PlainStep DEF fsVars, Using
  <2>6. CASE Found(path[w]) = Directory /\ path' = [path EXCEPT ![w] = HandleDirectory(@)]
             /\ UNCHANGED <<pc, status, out, file>>
    <3>1. path[w] \in Paths
      BY <1>1, <2>6 DEF Found, Missing, Directory, Types
    <3>2. path' \in [Workers -> Paths \cup {NoPath}] /\ \A v \in Workers \ {w} : path'[v] = path[v]
      BY <1>1, <2>6, <3>1, KindsAssumption DEF HandleDirectory, Types
    <3>3. Types'
      BY <1>1, <2>1, <2>6, <3>2 DEF Types, fsVars
    <3>4. Right(req[w].method, "get_open", path'[w], file[w], status[w], out[w], removed[w])
      BY <2>2, <2>3 DEF Right
    <3>5. Local(w)'
      BY <2>1, <2>2, <2>6, <3>4 DEF Local
    <3> QED
      BY <2>1, <2>6, <3>2, <3>3, <3>5, OneWorker
  <2> QED
    BY <1>2, <2>4, <2>5, <2>6 DEF GetOpen
<1>3. CASE GetType(w)
  <2>1. At(w, "get_type") /\ UNCHANGED <<fsVars, req, path, file, removed>>
    BY <1>3 DEF GetType, workerVars
  <2>2. {"get_type", "get_stat"} \subseteq GetLabels
    BY DEF GetLabels
  <2>3. CASE GoOn(w, "get_stat")
    BY <1>1, <2>1, <2>2, <2>3, PlainStep DEF fsVars, Using
  <2>4. CASE Send(w, 406) /\ Goto(w, "failed") /\ status' = [status EXCEPT ![w] = 415]
    <3>1. Right(req[w].method, "get_type", path[w], file[w], status[w], out[w], removed[w])
      BY <2>1, Here
    <3>2. req[w].method = "GET" /\ out[w] = <<>>
      BY <2>2, <3>1 DEF Right, Handling
    <3>3. Append(out[w], 406) \in Seq(Nat) /\ Append(out[w], 406) = <<406>>
      BY <3>2
    <3>4. Settled(w, "failed", 415, <<406>>)
      BY <1>1, <2>4, <3>3 DEF Send, Goto, Settled, Types, Labels
    <3>5. Right(req[w].method, "failed", path[w], file[w], 415, <<406>>, removed[w])
      BY <3>2 DEF Right, GetLabels, HeadLabels, DeleteLabels, PostLabels, Handling
    <3> QED
      BY <1>1, <2>1, <3>4, <3>5, SettledKeeps DEF fsVars
  <2> QED
    BY <1>3, <2>3, <2>4 DEF GetType
<1>4. CASE GetRead(w)
  <2>1. UNCHANGED <<fsVars, req, pc, path, file, status, out, removed>>
    BY <1>4 DEF GetRead
  <2> QED
    BY <2>1, OneWorker DEF IInv, Types, Local, fsVars
<1> QED
  BY <1>2, <1>3, <1>4

\* handleDELETEFile.
LEMMA DeleteKeeps ==
  ASSUME IInv, NEW w \in Workers, DeleteAccess(w) \/ DeleteStat(w) \/ DeleteRemove(w)
  PROVE  IInv'
<1>1. /\ Types /\ out[w] \in Seq(Nat) /\ status[w] \in Nat
      /\ tree \in [Paths -> Inodes \cup {Missing, Directory}] /\ length \in [Inodes -> 0..FullLength]
      /\ \A l \in DeleteLabels : l \in Handling /\ l \in Labels
  BY DEF IInv, Types, Handling, DeleteLabels, Labels
<1>2. {"delete_access", "delete_stat", "delete_remove"} \subseteq DeleteLabels
      /\ "delete_access" \notin Using /\ "delete_stat" \notin Using /\ "delete_remove" \notin Using
  BY DEF DeleteLabels, Using
<1>3. CASE DeleteAccess(w) \/ DeleteStat(w)
  <2>1. PICK l \in {"delete_access", "delete_stat"} : At(w, l)
    BY <1>3 DEF DeleteAccess, DeleteStat
  <2>2. UNCHANGED <<fsVars, req, path, file, removed>>
        /\ (Return(w) \/ \E k \in {"delete_stat", "delete_remove"} : GoOn(w, k))
    BY <1>3 DEF DeleteAccess, DeleteStat, workerVars
  <2>3. Right(req[w].method, l, path[w], file[w], status[w], out[w], removed[w])
    BY <2>1, Here
  <2>4. CASE Return(w)
    <3>1. Settled(w, "close", status[w], out[w])
      BY <1>1, <2>4, Settling
    <3>2. req[w].method = "DELETE" /\ out[w] = <<>> /\ ~removed[w]
      BY <1>1, <1>2, <2>3 DEF Right
    <3>3. Right(req[w].method, "close", path[w], file[w], status[w], out[w], removed[w])
      BY <3>2 DEF Right, GetLabels, HeadLabels, DeleteLabels, PostLabels, Handling
    <3> QED
      BY <1>1, <2>2, <3>1, <3>3, SettledKeeps DEF fsVars
  <2>5. ASSUME NEW k \in {"delete_stat", "delete_remove"}, GoOn(w, k) PROVE IInv'
    <3>1. Settled(w, k, status[w], out[w])
      BY <1>1, <1>2, <2>5, Settling
    <3>2. k \in Handling /\ l \in Handling /\ {k, l} \subseteq DeleteLabels /\ k \notin Using
      BY <1>1, <1>2
    <3>3. Right(req[w].method, k, path[w], file[w], status[w], out[w], removed[w])
      <4>1. out[w] \in Seq(Nat)
        BY <1>1
      <4>2. {k, l} \subseteq DeleteLabels /\ (k \in Using => l \in Using)
                => Right(req[w].method, k, path[w], file[w], status[w], out[w], removed[w])
        BY <2>3, <3>2, <4>1, RightMoves
      <4> QED
        BY <3>2, <4>2
    <3> QED
      BY <1>1, <2>2, <3>1, <3>3, SettledKeeps DEF fsVars
  <2> QED
    BY <2>2, <2>4, <2>5
<1>4. CASE DeleteRemove(w)
  <2>1. At(w, "delete_remove") /\ UNCHANGED <<length, req, path, file, status>> /\ Send(w, 200)
    BY <1>4 DEF DeleteRemove, workerVars
  <2>2. Right(req[w].method, "delete_remove", path[w], file[w], status[w], out[w], removed[w])
    BY <2>1, Here
  <2>3. req[w].method = "DELETE" /\ out[w] = <<>> /\ ~removed[w]
    BY <1>1, <1>2, <2>2 DEF Right
  <2>4. Append(out[w], 200) \in Seq(Nat) /\ Append(out[w], 200) = <<200>>
    BY <2>3
  <2>5. out' \in [Workers -> Seq(Nat)] /\ out'[w] = <<200>> /\ \A v \in Workers \ {w} : out'[v] = out[v]
    BY <1>1, <2>1, <2>4 DEF Send, Types
  <2>6. PICK l \in {"close", "failed"} :
          /\ Goto(w, l)
          /\ \/ l = "close" /\ removed' = [removed EXCEPT ![w] = TRUE]
             \/ l = "failed" /\ removed' = removed
    BY <1>4 DEF DeleteRemove
  <2>7. /\ pc' \in [Workers -> Labels] /\ pc'[w] = l /\ \A v \in Workers \ {w} : pc'[v] = pc[v]
        /\ removed' \in [Workers -> BOOLEAN] /\ removed'[w] = (l = "close")
        /\ \A v \in Workers \ {w} : removed'[v] = removed[v]
    <3>1. pc' \in [Workers -> Labels] /\ pc'[w] = l /\ \A v \in Workers \ {w} : pc'[v] = pc[v]
      BY <1>1, <2>6 DEF Goto, Types, Labels
    <3>2. CASE l = "close"
      BY <1>1, <2>6, <3>1, <3>2 DEF Types
    <3>3. CASE l = "failed"
      BY <1>1, <2>3, <2>6, <3>1, <3>3 DEF Types
    <3> QED
      BY <3>2, <3>3
  <2>8. tree' \in [Paths -> Inodes \cup {Missing, Directory}]
    BY <1>1, <1>4 DEF DeleteRemove
  <2>9. Types'
    BY <1>1, <2>1, <2>5, <2>7, <2>8 DEF Types
  <2>10. Local(w)'
    <3>1. Right("DELETE", l, path[w], file[w], status[w], <<200>>, l = "close")
      BY DEF Right, GetLabels, HeadLabels, DeleteLabels, PostLabels, Handling
    <3> QED
      BY <2>1, <2>3, <2>5, <2>7, <3>1 DEF Local
  <2> QED
    BY <2>1, <2>5, <2>7, <2>9, <2>10, OneWorker
<1> QED
  BY <1>3, <1>4

\* handlePOSTFile.
LEMMA PostKeeps ==
  ASSUME IInv, NEW w \in Workers, PostOpen(w) \/ PostUnlink(w) \/ PostMkdir(w) \/ PostWrite(w)
  PROVE  IInv'
<1>1. /\ Types /\ out[w] \in Seq(Nat) /\ status[w] \in Nat
      /\ tree \in [Paths -> Inodes \cup {Missing, Directory}] /\ length \in [Inodes -> 0..FullLength]
      /\ \A l \in PostLabels : l \in Plain /\ l \in Handling /\ l \in Labels
  BY DEF IInv, Types, Plain, Handling, PostLabels, Labels
<1>2. {"post_open", "post_unlink", "post_mkdir", "post_write"} \subseteq PostLabels
      /\ "post_unlink" \notin Using /\ "post_mkdir" \notin Using
  BY DEF PostLabels, Using
\* A body that is not what it was announced: the handler may return without an answer.
<1>3. ASSUME NEW l \in PostLabels, At(w, l), Return(w), UNCHANGED <<length, req, path, file, removed>>,
             tree' \in [Paths -> Inodes \cup {Missing, Directory}]
      PROVE  IInv'
  <2>1. Settled(w, "close", status[w], out[w])
    BY <1>1, <1>3, Settling
  <2>2. Right(req[w].method, l, path[w], file[w], status[w], out[w], removed[w])
    BY <1>3, Here
  <2>3. req[w].method = "POST"
    BY <1>3, <2>2 DEF Right
  <2>4. Right(req[w].method, "close", path[w], file[w], status[w], out[w], removed[w])
    BY <2>3 DEF Right, GetLabels, HeadLabels, DeleteLabels, PostLabels, Handling
  <2> QED
    BY <1>1, <1>3, <2>1, <2>4, SettledKeeps
<1>4. CASE PostOpen(w)
  <2>1. At(w, "post_open") /\ UNCHANGED <<req, path, removed>>
        /\ \E k \in {"post_unlink", "post_write"} : GoOn(w, k)
    BY <1>4 DEF PostOpen, workerVars
  <2>2. PICK k \in {"post_unlink", "post_write"} : GoOn(w, k)
    BY <2>1
  <2>3. Settled(w, k, status[w], out[w])
    BY <1>1, <1>2, <2>2, Settling
  <2>4. PICK n \in Inodes : file' = [file EXCEPT ![w] = n]
                            /\ (tree' = tree \/ tree' = [tree EXCEPT ![path[w]] = n])
                            /\ length' = [length EXCEPT ![n] = 0]
    <3>1. CASE IsFile(path[w]) /\ length' = [length EXCEPT ![tree[path[w]]] = 0]
               /\ file' = [file EXCEPT ![w] = tree[path[w]]] /\ UNCHANGED tree
      <4>1. tree[path[w]] \in Inodes
        BY <3>1, InodesAreNumbers DEF IsFile, Found, Missing, NoFile
      <4> QED
        BY <3>1, <4>1
    <3> QED
      BY <1>4, <3>1 DEF PostOpen
  <2>5. n # NoFile /\ 0 \in 0..FullLength
    BY InodesAreNumbers, KindsAssumption
  <2>6. file' \in [Workers -> Inodes \cup {NoFile}] /\ file'[w] # NoFile
        /\ \A v \in Workers \ {w} : file'[v] = file[v]
    BY <1>1, <2>4, <2>5 DEF Types
  <2>7. Types'
    BY <1>1, <2>1, <2>3, <2>4, <2>5, <2>6 DEF Types, Settled
  <2>8. Local(w)'
    <3>1. Right(req[w].method, "post_open", path[w], file[w], status[w], out[w], removed[w])
      BY <2>1, Here
    <3>2. req[w].method = "POST" /\ out[w] = <<>> /\ ~removed[w]
      BY <1>1, <1>2, <3>1 DEF Right
    <3>3. Right("POST", k, path[w], file'[w], status[w], out[w], removed[w])
      BY <2>6, <3>2 DEF Right, GetLabels, HeadLabels, DeleteLabels, PostLabels
    <3> QED
      BY <2>1, <2>3, <3>2, <3>3 DEF Local, Settled
  <2> QED
    BY <2>1, <2>3, <2>6, <2>7, <2>8, OneWorker DEF Settled
<1>5. CASE PostUnlink(w)
  <2>1. At(w, "post_unlink") /\ UNCHANGED <<length, req, path, file, removed>> /\ GoOn(w, "post_mkdir")
        /\ (tree' = tree \/ tree' = [tree EXCEPT ![path[w]] = Missing])
    BY <1>5 DEF PostUnlink, workerVars
  <2>2. tree' \in [Paths -> Inodes \cup {Missing, Directory}]
    BY <1>1, <2>1
  <2> QED
    BY <1>1, <1>2, <2>1, <2>2, PlainStep
<1>6. CASE PostMkdir(w)
  <2>1. At(w, "post_mkdir") /\ UNCHANGED <<length, req, path, file, removed>>
        /\ (Return(w) \/ Fail(w, 200))
        /\ (tree' = tree \/ tree' = [tree EXCEPT ![path[w]] = Directory])
    BY <1>6 DEF PostMkdir, workerVars
  <2>2. tree' \in [Paths -> Inodes \cup {Missing, Directory}]
    BY <1>1, <2>1
  <2> QED
    BY <1>1, <1>2, <1>3, <2>1, <2>2, PlainStep
<1>7. CASE PostWrite(w)
  <2>1. At(w, "post_write") /\ UNCHANGED <<fsVars, req, path, file, removed>>
    BY <1>7 DEF PostWrite, workerVars
  <2>2. \/ Fail(w, 500) \/ Fail(w, 400) \/ Succeed(w) \/ Return(w)
        \/ UNCHANGED <<pc, status, out>>
    BY <1>7 DEF PostWrite
  <2>3. CASE UNCHANGED <<pc, status, out>>
    BY <2>1, <2>3, OneWorker DEF IInv, Types, Local, fsVars
  <2> QED
    BY <1>1, <1>2, <1>3, <2>1, <2>2, <2>3, PlainStep DEF fsVars
<1> QED
  BY <1>4, <1>5, <1>6, <1>7

\* Two answers in a row.
LEMMA TwoAnswers == ASSUME NEW a \in Nat, NEW b \in Nat PROVE Append(<<a>>, b) = <<a, b>>
<1> DEFINE s == Append(<<a>>, b)
           t == <<a, b>>
<1>1. <<a>> \in Seq(Nat) /\ Len(<<a>>) = 1 /\ <<a>>[1] = a
  OBVIOUS
<1>2. s \in Seq(Nat) /\ Len(s) = 2 /\ s[1] = a /\ s[2] = b
  BY <1>1
<1>3. t \in Seq(Nat) /\ Len(t) = 2 /\ t[1] = a /\ t[2] = b
  OBVIOUS
<1> HIDE DEF s, t
<1>4. s \in [1..2 -> Nat] /\ t \in [1..2 -> Nat]
  BY <1>2, <1>3
<1>5. \A i \in 1..2 : s[i] = t[i]
  BY <1>2, <1>3
<1>6. s = t
  BY <1>4, <1>5
<1> QED
  BY <1>6 DEF s, t

\* The end of a handler: the answer of one that failed.
LEMMA CloseKeeps ==
  ASSUME IInv, NEW w \in Workers, Close(w)
  PROVE  IInv'
<1>1. PICK l \in {"close", "failed"} : At(w, l)
  BY DEF Close
<1>2. Types /\ pc[w] = l /\ out[w] \in Seq(Nat) /\ status[w] \in Nat
  BY <1>1, Here DEF Types
<1>3. UNCHANGED <<fsVars, req, path, status, removed>>
  BY DEF Close, workerVars
<1>4. PICK answers \in {out[w], Append(out[w], status[w])} :
        /\ out' = [out EXCEPT ![w] = answers]
        /\ l = "close" => answers = out[w]
        /\ l = "failed" => answers = Append(out[w], status[w])
  <2>1. CASE l = "failed"
    BY <1>2, <2>1 DEF Close, Send
  <2>2. CASE l = "close"
    BY <1>2, <2>2 DEF Close, Types
  <2> QED
    BY <1>1, <2>1, <2>2
<1>5. answers \in Seq(Nat)
  <2>1. Append(out[w], status[w]) \in Seq(Nat)
    BY <1>2
  <2> QED
    BY <1>2, <1>4, <2>1
<1>6. /\ out' \in [Workers -> Seq(Nat)] /\ out'[w] = answers /\ \A v \in Workers \ {w} : out'[v] = out[v]
      /\ pc' \in [Workers -> Labels] /\ pc'[w] = "idle" /\ \A v \in Workers \ {w} : pc'[v] = pc[v]
      /\ file' \in [Workers -> Inodes \cup {NoFile}] /\ file'[w] = NoFile
      /\ \A v \in Workers \ {w} : file'[v] = file[v]
  BY <1>2, <1>4, <1>5 DEF Close, Goto, Types, Labels
<1>7. Types'
  BY <1>2, <1>3, <1>6 DEF Types, fsVars
<1>8. Right(req[w].method, l, path[w], file[w], status[w], out[w], removed[w])
  BY <1>1, Here
<1>9. Right(req[w].method, "idle", path[w], NoFile, status[w], answers, removed[w])
  <2>1. CASE l = "close"
    <3>1. answers = out[w] /\ (out[w] = <<>> => out[w] # <<200>>)
      BY <1>4, <2>1
    <3> QED
      BY <1>8, <2>1, <3>1 DEF Right, GetLabels, HeadLabels, DeleteLabels, PostLabels, Handling
  <2>2. CASE l = "failed"
    <3>0. answers = Append(out[w], status[w]) /\ Len(answers) = Len(out[w]) + 1
      BY <1>2, <1>4, <2>2
    <3>1. /\ out[w] = <<>> => Len(answers) = 1
          /\ out[w] = <<406>> /\ status[w] = 415 => answers = <<406, 415>>
          /\ out[w] = <<200>> => answers # <<200>>
      <4>1. out[w] = <<>> => Len(answers) = 1
        BY <3>0
      <4>2. out[w] = <<406>> /\ status[w] = 415 => answers = <<406, 415>>
        BY <3>0, TwoAnswers
      <4>3. out[w] = <<200>> => answers # <<200>>
        <5>1. Len(<<200>>) = 1
          OBVIOUS
        <5>2. answers = <<200>> => Len(answers) = 1
          BY <5>1
        <5>3. out[w] = <<200>> => Len(answers) = 2
          BY <3>0, <5>1
        <5> QED
          BY <5>2, <5>3
      <4> QED
        BY <4>1, <4>2, <4>3
    <3> QED
      BY <1>8, <2>2, <3>1 DEF Right, GetLabels, HeadLabels, DeleteLabels, PostLabels, Handling
  <2> QED
    BY <1>1, <2>1, <2>2
<1>10. Local(w)'
  BY <1>3, <1>6, <1>9 DEF Local
<1> QED
  BY <1>3, <1>6, <1>7, <1>10, OneWorker

LEMMA AnswersInvariant == Spec => []IInv
<1>1. IInv /\ [Next]_vars => IInv'
  <2> SUFFICES ASSUME IInv, [Next]_vars PROVE IInv'
    OBVIOUS
  <2>1. ASSUME NEW w \in Workers, NEW r \in Kinds, Request(w, r) PROVE IInv'
    BY <2>1, RequestKeeps
  <2>2. ASSUME NEW w \in Workers, Step(w) PROVE IInv'
    BY <2>2, ReadKeeps, GetKeeps, DeleteKeeps, PostKeeps, CloseKeeps DEF Step
  <2>3. CASE UNCHANGED vars
    BY <2>3 DEF vars, fsVars, workerVars, IInv, Types, Local
  <2> QED
    BY <2>1, <2>2, <2>3 DEF Next
<1> QED
  BY Initially, <1>1, PTL DEF Spec

\* Whatever other workers do to the file between two system calls: a GET or HEAD is
\* answered once (a refused media type twice), a DELETE answered with a single 200 did
\* remove the path, and a worker between requests has no file open (src/server/fshandler.c).
THEOREM AnswersAreTrue == Spec => []AnsweredTrue
<1>1. IInv => AnsweredTrue
  <2> SUFFICES ASSUME IInv PROVE AnsweredTrue
    OBVIOUS
  <2>1. TypeOK
    BY DEF IInv, Types, Local, Right, TypeOK
  <2>2. ReadsAnsweredOnce
    <3> SUFFICES ASSUME NEW w \in Workers,
                        Done(w, "HEAD") \/ (Done(w, "GET") /\ out[w] # <<406, 415>>)
                 PROVE  Len(out[w]) = 1
      BY DEF ReadsAnsweredOnce
    <3> QED
      BY DEF IInv, Local, Right, Done
  <2>3. DeletesTrue
    BY DEF IInv, Local, Right, Done, DeletesTrue
  <2> QED
    BY <2>1, <2>2, <2>3 DEF AnsweredTrue
<1> QED
  BY AnswersInvariant, <1>1, PTL

-----------------------------------------------------------------------------
(***************************************************************************)
(* Ranges.                                                                 *)
(***************************************************************************)
Word == 0..(Modulus - 1)
RangeType == [start : Word, end : Word]

RangesTyped ==
    /\ specs \in Seq(Specs) /\ Len(specs) \in 1..MaxSpecs
    /\ st_size \in Sizes /\ fileLength \in Sizes
    /\ stage \in {"decode", "sort", "merge", "serve", "sent", "rejected", "aborted"}
    /\ next \in Nat /\ final \in Nat
    /\ ranges \in Seq(RangeType)

\* One range for each specifier looked at; merging removes ranges, but never the one it
\* merges into, which is the last it has kept.
Counts ==
    /\ stage \in {"decode", "rejected"} => next = Len(ranges) /\ next <= Len(specs)
    /\ stage \in {"sort", "merge", "serve", "sent", "aborted"} => Len(ranges) \in 1..MaxSpecs
    /\ stage \in {"decode", "sort", "rejected"} => final = 0
    /\ stage \in {"merge", "serve", "sent", "aborted"} => final = next /\ next <= Len(ranges)
    /\ stage = "sort" => next = Len(specs)

Fitted(r) ==
    /\ Signed(r.start) >= 0 => r.start < st_size
    /\ Signed(r.end) >= 0 => r.end < st_size
Fit == stage \in {"decode", "sort", "merge", "serve"} => \A i \in DOMAIN ranges : Fitted(ranges[i])

RangesInv == RangesTyped /\ Counts /\ Fit

\* A long kept as an unsigned one.
LEMMA UnsignedLong ==
  ASSUME NEW x, IsLong(x)
  PROVE  /\ Unsigned(x) = (IF x >= 0 THEN x ELSE x + Modulus)
         /\ Unsigned(x) \in Word
         /\ Signed(Unsigned(x)) = x
<1>1. x \in Int /\ Modulus \in Nat /\ -Modulus <= 2 * x /\ 2 * x < Modulus
  BY RangesAssumption DEF IsLong
<1>2. CASE x >= 0
  <2>1. x % Modulus = x
    BY <1>1, <1>2
  <2> QED
    BY <1>1, <1>2, <2>1 DEF Unsigned, Signed, Word
<1>3. CASE x < 0
  <2>1. x % Modulus = x + Modulus
    BY <1>1, <1>3
  <2> QED
    BY <1>1, <1>3, <2>1 DEF Unsigned, Signed, Word
<1> QED
  BY <1>1, <1>2, <1>3

LEMMA AnyUnsigned == \A x \in Int : Unsigned(x) \in Word
  BY RangesAssumption DEF Unsigned, Word

\* What sorting and merging leave of a list.
LEMMA Rotated ==
  ASSUME NEW S, NEW s \in Seq(S), NEW k \in DOMAIN s
  PROVE  LET t == SubSeq(s, k + 1, Len(s)) \o SubSeq(s, 1, k) IN
         /\ t \in Seq(S) /\ Len(t) = Len(s)
         /\ \A j \in DOMAIN t : \E i \in DOMAIN s : t[j] = s[i]
         /\ \A i \in DOMAIN s : \E j \in DOMAIN t : t[j] = s[i]
<1> DEFINE a == SubSeq(s, k + 1, Len(s))  b == SubSeq(s, 1, k)  t == a \o b
<1>1. DOMAIN s = 1..Len(s) /\ Len(s) \in Nat /\ k \in 1..Len(s)
  OBVIOUS
<1>2. a \in Seq(S) /\ Len(a) = Len(s) - k /\ \A i \in 1..(Len(s) - k) : a[i] = s[k + i]
  <2>1. \A i \in (k + 1)..Len(s) : s[i] \in S
    BY <1>1
  <2> QED
    BY <1>1, <2>1, SubSeqProperties
<1>3. b \in Seq(S) /\ Len(b) = k /\ \A i \in 1..k : b[i] = s[i]
  BY <1>1
<1> HIDE DEF a, b
<1>5. t \in Seq(S) /\ Len(t) = Len(s) /\ DOMAIN t = 1..Len(s)
  <2>1. t \in Seq(S) /\ Len(t) = Len(a) + Len(b)
    BY <1>2, <1>3, ConcatProperties
  <2> HIDE DEF t
  <2>2. DOMAIN t = 1..Len(t)
    BY <2>1
  <2> QED
    BY <1>1, <1>2, <1>3, <2>1, <2>2
<1>6. /\ \A j \in 1..(Len(s) - k) : t[j] = s[k + j]
      /\ \A j \in (Len(s) - k + 1)..Len(s) : t[j] = s[j - (Len(s) - k)]
  <2>1. \A j \in 1..Len(s) : t[j] = IF j <= Len(s) - k THEN a[j] ELSE b[j - (Len(s) - k)]
    BY <1>1, <1>2, <1>3, ConcatProperties
  <2>2. \A j \in (Len(s) - k + 1)..Len(s) : j - (Len(s) - k) \in 1..k
    BY <1>1
  <2> QED
    BY <1>1, <1>2, <1>3, <2>1, <2>2
<1> HIDE DEF t
<1>7. \A j \in DOMAIN t : \E i \in DOMAIN s : t[j] = s[i]
  <2> TAKE j \in DOMAIN t
  <2>1. CASE j <= Len(s) - k
    <3>1. k + j \in DOMAIN s /\ t[j] = s[k + j]
      BY <1>1, <1>5, <1>6, <2>1
    <3> QED
      BY <3>1
  <2>2. CASE ~(j <= Len(s) - k)
    <3>1. j \in (Len(s) - k + 1)..Len(s) /\ j - (Len(s) - k) \in 1..k
      BY <1>1, <1>5, <2>2
    <3>2. t[j] = s[j - (Len(s) - k)] /\ j - (Len(s) - k) \in DOMAIN s
      BY <1>1, <1>6, <3>1
    <3> QED
      BY <3>2
  <2> QED
    BY <2>1, <2>2
<1>8. \A i \in DOMAIN s : \E j \in DOMAIN t : t[j] = s[i]
  <2> TAKE i \in DOMAIN s
  <2>1. CASE i > k
    <3>1. i - k \in DOMAIN t /\ i - k \in 1..(Len(s) - k) /\ k + (i - k) = i
      BY <1>1, <1>5, <2>1
    <3> QED
      BY <1>6, <3>1
  <2>2. CASE ~(i > k)
    <3>1. PICK j \in Int : j = i + (Len(s) - k)
      BY <1>1
    <3>2. j \in DOMAIN t /\ j \in (Len(s) - k + 1)..Len(s) /\ j - (Len(s) - k) = i
      BY <1>1, <1>5, <2>2, <3>1
    <3> QED
      BY <1>6, <3>2
  <2> QED
    BY <2>1, <2>2
<1> QED
  BY <1>5, <1>7, <1>8 DEF a, b, t

LEMMA Removed ==
  ASSUME NEW S, NEW s \in Seq(S), NEW n \in DOMAIN s
  PROVE  /\ RemoveAt(s, n) \in Seq(S)
         /\ Len(RemoveAt(s, n)) = Len(s) - 1
         /\ \A i \in 1..(n - 1) : RemoveAt(s, n)[i] = s[i]
         /\ \A i \in n..(Len(s) - 1) : RemoveAt(s, n)[i] = s[i + 1]
<1> DEFINE a == SubSeq(s, 1, n - 1)  b == SubSeq(s, n + 1, Len(s))
<1>1. Len(s) \in Nat /\ n \in 1..Len(s)
  OBVIOUS
<1>2. a \in Seq(S) /\ Len(a) = n - 1 /\ \A i \in 1..(n - 1) : a[i] = s[i]
  <2>1. \A i \in 1..(n - 1) : s[i] \in S
    BY <1>1
  <2> QED
    BY <1>1, <2>1, SubSeqProperties
<1>3. b \in Seq(S) /\ Len(b) = Len(s) - n /\ \A i \in 1..(Len(s) - n) : b[i] = s[n + i]
  <2>1. \A i \in (n + 1)..Len(s) : s[i] \in S
    BY <1>1
  <2> QED
    BY <1>1, <2>1, SubSeqProperties
<1> HIDE DEF a, b
<1> DEFINE c == a \o b
<1>4. RemoveAt(s, n) = c
  BY DEF a, b, RemoveAt
<1>5. /\ c \in Seq(S) /\ Len(c) = Len(a) + Len(b)
      /\ \A m \in 1..(Len(a) + Len(b)) : c[m] = IF m <= Len(a) THEN a[m] ELSE b[m - Len(a)]
  BY <1>2, <1>3, ConcatProperties
<1> HIDE DEF c
<1>6. \A i \in 1..(n - 1) : c[i] = s[i]
  BY <1>1, <1>2, <1>3, <1>5
<1>7. ASSUME NEW i \in n..(Len(s) - 1) PROVE c[i] = s[i + 1]
  <2>1. /\ i - (n - 1) \in 1..(Len(s) - n) /\ n + (i - (n - 1)) = i + 1
        /\ i \in 1..(Len(a) + Len(b)) /\ ~(i <= Len(a))
    <3>1. Len(a) = n - 1 /\ Len(b) = Len(s) - n
      BY <1>2, <1>3
    <3>2. PICK m \in Nat : m = Len(s)
      BY <1>1
    <3>3. n \in 1..m /\ i \in n..(m - 1)
      BY <1>1, <3>2
    <3>4. n \in Int /\ i \in Int /\ 1 <= n /\ n <= i /\ i <= m - 1
      BY <3>3
    <3> QED
      BY <3>1, <3>2, <3>4
  <2>2. c[i] = b[i - Len(a)]
    BY <1>5, <2>1
  <2> QED
    BY <1>2, <1>3, <2>1, <2>2
<1> QED
  BY <1>1, <1>2, <1>3, <1>4, <1>5, <1>6, <1>7
----------------------------------------------------------------------------
LEMMA Sized ==
  ASSUME RangesTyped
  PROVE  st_size \in Nat /\ fileLength \in Nat /\ 2 * st_size < Modulus /\ Modulus \in Nat /\ Modulus > 1
  BY RangesAssumption DEF RangesTyped

\* A range as decodeRange leaves it.
LEMMA FittedFits ==
  ASSUME RangesTyped, NEW start, NEW end, IsLong(start), IsLong(end), start < st_size
  PROVE  FittedRange(start, end) \in RangeType /\ Fitted(FittedRange(start, end))
<1> DEFINE last == Smaller(end, st_size - 1)
<1>1. start \in Int /\ end \in Int /\ st_size \in Nat
  BY Sized DEF IsLong
<1>2. IsLong(last) /\ last < st_size
  BY <1>1, Sized DEF IsLong, Smaller
<1> HIDE DEF last
<1>3. /\ Unsigned(start) \in Word /\ Unsigned(last) \in Word
      /\ Signed(Unsigned(start)) >= 0 => Unsigned(start) < st_size
      /\ Signed(Unsigned(last)) >= 0 => Unsigned(last) < st_size
  BY <1>1, <1>2, UnsignedLong
<1> QED
  BY <1>3 DEF FittedRange, RangeType, Fitted, last

LEMMA RangesInitially == RangesInit => RangesInv
<1> SUFFICES ASSUME RangesInit PROVE RangesInv
  OBVIOUS
<1>1. PICK n \in 1..MaxSpecs : specs \in [1..n -> Specs]
  BY DEF RangesInit
<1>2. specs \in Seq(Specs) /\ Len(specs) \in 1..MaxSpecs
  BY <1>1, RangesAssumption
<1>3. RangesTyped /\ Counts /\ Fit
  BY <1>2, RangesAssumption DEF RangesInit, RangesTyped, Counts, Fit
<1> QED
  BY <1>3 DEF RangesInv

LEMMA SpecLongs ==
  ASSUME RangesTyped, NEW s \in Specs, NEW start \in Starts(s), NEW end \in Ends(s)
  PROVE  IsLong(start) /\ IsLong(end)
<1>1. IsLong(st_size - 1)
  BY Sized DEF IsLong
<1>2. IsLong(s.first) /\ IsLong(s.last) /\ \A x \in JunkValues : IsLong(x)
  BY RangesAssumption
<1> QED
  BY <1>1, <1>2 DEF Starts, Ends

LEMMA DecodeKeeps ==
  ASSUME RangesInv, DecodeRange
  PROVE  RangesInv'
<1> USE DEF RangesInv
<1>1. next + 1 \in 1..Len(specs) /\ next = Len(ranges) /\ final = 0 /\ specs[next + 1] \in Specs
  BY DEF DecodeRange, RangesTyped, Counts
<1>2. PICK start \in Starts(specs[next + 1]), end \in Ends(specs[next + 1]) :
         \/ stage' = "rejected" /\ UNCHANGED <<next, ranges>>
         \/ /\ start < st_size
            /\ ranges' = Append(ranges, FittedRange(start, end))
            /\ next' = next + 1
            /\ UNCHANGED stage
  BY DEF DecodeRange
<1>3. CASE stage' = "rejected" /\ UNCHANGED <<next, ranges>>
  BY <1>1, <1>3 DEF DecodeRange, RangesTyped, Counts, Fit
<1>4. CASE /\ start < st_size
           /\ ranges' = Append(ranges, FittedRange(start, end))
           /\ next' = next + 1
           /\ UNCHANGED stage
  <2> DEFINE r == FittedRange(start, end)
  <2>1. r \in RangeType /\ Fitted(r)
    BY <1>1, <1>2, <1>4, SpecLongs, FittedFits
  <2> HIDE DEF r
  <2>2. ranges' = Append(ranges, r) /\ ranges \in Seq(RangeType)
    BY <1>4 DEF r, RangesTyped
  <2>3. ranges' \in Seq(RangeType) /\ Len(ranges') = Len(ranges) + 1
    BY <2>1, <2>2
  <2>4. RangesTyped'
    BY <1>4, <2>3 DEF RangesTyped, DecodeRange
  <2>5. Counts'
    BY <1>1, <1>4, <2>3 DEF Counts, DecodeRange
  <2>6. \A i \in DOMAIN ranges' : ranges'[i] = r \/ (i \in DOMAIN ranges /\ ranges'[i] = ranges[i])
    BY <2>1, <2>2
  <2>7. \A x : Fitted(x)' <=> Fitted(x)
    BY DEF DecodeRange, Fitted, Signed
  <2>8. Fit'
    BY <1>4, <2>1, <2>6, <2>7 DEF Fit, DecodeRange
  <2> QED
    BY <2>4, <2>5, <2>8
<1> QED
  BY <1>2, <1>3, <1>4

LEMMA SortKeeps ==
  ASSUME RangesInv, SortRanges
  PROVE  RangesInv'
<1> USE DEF RangesInv
<1>1. PICK k \in DOMAIN ranges :
         ranges' = SubSeq(ranges, k + 1, Len(ranges)) \o SubSeq(ranges, 1, k)
  BY DEF SortRanges
<1>2. ranges \in Seq(RangeType)
  BY DEF RangesTyped
<1>3. /\ ranges' \in Seq(RangeType) /\ Len(ranges') = Len(ranges)
      /\ \A j \in DOMAIN ranges' : \E i \in DOMAIN ranges : ranges'[j] = ranges[i]
  BY <1>1, <1>2, Rotated
<1>4. RangesTyped' /\ Counts'
  BY <1>3 DEF RangesTyped, Counts, SortRanges
<1>5. Fit'
  BY <1>3 DEF Fit, Fitted, SortRanges
<1> QED
  BY <1>4, <1>5

\* Merging a range into the last one kept.
LEMMA Merged ==
  ASSUME RangesInv, MergeRange
  PROVE  /\ final = next /\ final \in DOMAIN ranges /\ next + 1 \in DOMAIN ranges
         /\ ranges' \in Seq(RangeType) /\ Len(ranges') = Len(ranges) - 1
         /\ ranges'[final] = [start |-> ranges[final].start,
                              end |-> Larger(ranges[final].end, ranges[next + 1].end)]
         /\ \A i \in 1..(final - 1) : ranges'[i] = ranges[i]
         /\ \A i \in (final + 1)..(Len(ranges) - 1) : ranges'[i] = ranges[i + 1]
<1> USE DEF RangesInv
<1> DEFINE r == [start |-> ranges[final].start,
                 end |-> Larger(ranges[final].end, ranges[next + 1].end)]
           longer == [ranges EXCEPT ![final].end = Larger(@, ranges[next + 1].end)]
<1>1. /\ final = next /\ next \in Nat /\ next < Len(ranges) /\ final # 0
      /\ ranges \in Seq(RangeType) /\ Len(ranges) \in Nat
  BY DEF RangesTyped, Counts, MergeRange, StartsInFinal
<1>2. final \in DOMAIN ranges /\ next + 1 \in DOMAIN ranges
  BY <1>1
<1>3. ranges[final] \in RangeType /\ ranges[next + 1] \in RangeType
  BY <1>1, <1>2
<1>4. r \in RangeType
  BY <1>3 DEF RangeType, Larger
<1>5. longer = [ranges EXCEPT ![final] = r]
  <2> DEFINE old == ranges[final]  e == Larger(old.end, ranges[next + 1].end)
  <2>1. [old EXCEPT !.end = e] = [start |-> old.start, end |-> e]
    <3> HIDE DEF e
    <3> QED
      BY <1>3 DEF RangeType
  <2>2. longer = [ranges EXCEPT ![final] = [old EXCEPT !.end = e]]
    BY <1>1, <1>2
  <2> QED
    BY <2>1, <2>2
<1> HIDE DEF longer, r
<1>6. longer \in Seq(RangeType) /\ Len(longer) = Len(ranges) /\ DOMAIN longer = DOMAIN ranges
  BY <1>1, <1>2, <1>4, <1>5
<1>7. \A i \in DOMAIN ranges : longer[i] = IF i = final THEN r ELSE ranges[i]
  BY <1>1, <1>2, <1>5
<1>8. ranges' = RemoveAt(longer, next + 1)
  BY DEF MergeRange, longer
<1>9. /\ ranges' \in Seq(RangeType) /\ Len(ranges') = Len(ranges) - 1
      /\ \A i \in 1..next : ranges'[i] = longer[i]
      /\ \A i \in (next + 1)..(Len(ranges) - 1) : ranges'[i] = longer[i + 1]
  <2>1. next + 1 \in DOMAIN longer /\ (next + 1) - 1 = next
    BY <1>1, <1>2, <1>6
  <2> QED
    BY <1>6, <1>8, <2>1, Removed
<1>10. ranges'[final] = r /\ \A i \in 1..(final - 1) : ranges'[i] = ranges[i]
  <2>1. final \in 1..next /\ \A i \in 1..(final - 1) : i \in 1..next /\ i \in DOMAIN ranges /\ i # final
    BY <1>1
  <2> QED
    BY <1>2, <1>7, <1>9, <2>1
<1>11. \A i \in (final + 1)..(Len(ranges) - 1) : ranges'[i] = ranges[i + 1]
  <2>1. \A i \in (final + 1)..(Len(ranges) - 1) :
           i + 1 \in DOMAIN ranges /\ i + 1 # final /\ i \in (next + 1)..(Len(ranges) - 1)
    BY <1>1
  <2> QED
    BY <1>7, <1>9, <2>1
<1> QED
  BY <1>1, <1>2, <1>9, <1>10, <1>11 DEF r

LEMMA MergeKeeps ==
  ASSUME RangesInv, MergeRange
  PROVE  RangesInv'
<1> USE DEF RangesInv
<1>1. ranges \in Seq(RangeType) /\ Len(ranges) \in Nat /\ final \in Nat
  BY DEF RangesTyped
<1>2. RangesTyped' /\ Counts'
  <2>1. /\ stage = "merge" /\ UNCHANGED <<specs, st_size, fileLength, stage, next, final>>
        /\ next + 1 \in DOMAIN ranges /\ final = next /\ final \in DOMAIN ranges
        /\ ranges' \in Seq(RangeType) /\ Len(ranges') = Len(ranges) - 1
    BY Merged DEF MergeRange
  <2>2. RangesTyped'
    BY <2>1 DEF RangesTyped
  <2>3. Len(ranges') \in 1..MaxSpecs /\ next <= Len(ranges')
    BY <1>1, <2>1, RangesAssumption DEF Counts
  <2> QED
    BY <2>1, <2>2, <2>3 DEF Counts
<1>3. ASSUME NEW i \in DOMAIN ranges' PROVE Fitted(ranges'[i])
  <2>1. \A j \in DOMAIN ranges : Fitted(ranges[j])
    BY DEF Fit, MergeRange
  <2>2. i \in 1..(Len(ranges) - 1)
    BY <1>1, Merged
  <2>3. CASE i = final
    <3>1. ranges[final] \in RangeType /\ ranges[next + 1] \in RangeType
      BY <1>1, Merged
    <3>2. Fitted(ranges[final]) /\ Fitted(ranges[next + 1])
      BY <2>1, Merged
    <3> QED
      BY <2>3, <3>1, <3>2, Merged DEF Fitted, Larger, RangeType
  <2>4. CASE i < final
    BY <1>1, <2>1, <2>2, <2>4, Merged
  <2>5. CASE i > final
    <3>1. i \in (final + 1)..(Len(ranges) - 1) /\ i + 1 \in DOMAIN ranges
      BY <1>1, <2>2, <2>5
    <3> QED
      BY <2>1, <3>1, Merged
  <2> QED
    BY <1>1, <2>2, <2>3, <2>4, <2>5
<1>4. Fit'
  BY <1>3 DEF Fit, Fitted, MergeRange, Signed
<1> QED
  BY <1>2, <1>4

LEMMA ServeKeeps ==
  ASSUME RangesInv, Serve
  PROVE  RangesInv'
<1> USE DEF RangesInv
<1> DEFINE r == Capped(ranges[1])
<1>1. ranges \in Seq(RangeType) /\ Len(ranges) \in 1..MaxSpecs /\ stage = "serve"
  BY DEF RangesTyped, Counts, Serve
<1>2. ranges[1] \in RangeType /\ 1 \in DOMAIN ranges
  BY <1>1, RangesAssumption
<1>3. Unsigned(ranges[1].start + MaxRequest) \in Word
  <2>1. ranges[1].start + MaxRequest \in Int
    BY <1>2, RangesAssumption DEF RangeType, Word
  <2> QED
    BY <2>1, AnyUnsigned
<1>4. r \in RangeType
  BY <1>2, <1>3 DEF Capped, RangeType
<1> HIDE DEF r
<1>5. stage' \in {"sent", "aborted"} /\ (ranges' = ranges \/ ranges' = [ranges EXCEPT ![1] = r])
  BY DEF Serve, r
<1>6. ranges' \in Seq(RangeType) /\ Len(ranges') = Len(ranges)
  BY <1>1, <1>2, <1>4, <1>5
<1>7. RangesTyped' /\ Counts' /\ Fit'
  BY <1>1, <1>5, <1>6 DEF RangesTyped, Counts, Fit, Serve
<1> QED
  BY <1>7

LEMMA RangesInvariant == RangesSpec => []RangesInv
<1>1. RangesInv /\ [RangesNext]_rangeVars => RangesInv'
  <2> SUFFICES ASSUME RangesInv, [RangesNext]_rangeVars PROVE RangesInv'
    OBVIOUS
  <2>1. CASE EndDecode
    BY <2>1 DEF RangesInv, EndDecode, RangesTyped, Counts, Fit, Fitted, Signed
  <2>2. CASE KeepRange
    BY <2>2 DEF RangesInv, KeepRange, RangesTyped, Counts, Fit, Fitted, Signed
  <2>3. CASE EndMerge
    BY <2>3 DEF RangesInv, EndMerge, RangesTyped, Counts, Fit, Fitted, Signed
  <2>4. CASE UNCHANGED rangeVars
    BY <2>4 DEF RangesInv, rangeVars, RangesTyped, Counts, Fit, Fitted, Signed
  <2> QED
    BY <2>1, <2>2, <2>3, <2>4, DecodeKeeps, SortKeeps, MergeKeeps, ServeKeeps DEF RangesNext
<1> QED
  BY RangesInitially, <1>1, PTL DEF RangesSpec

\* "make sure the start and end fit in the file": for every list of ranges, what is
\* decoded lies in the file after merging too, but for numbers that were negative
\* (decodeRange, decodeRanges in src/parser/ranged.c).
THEOREM EveryRangeFits == RangesSpec => []RangesFit
<1>1. RangesInv => RangesFit
  <2> SUFFICES ASSUME RangesInv PROVE RangesFit
    OBVIOUS
  <2>1. \A r \in ToSet(ranges) : r \in RangeType /\ \E i \in DOMAIN ranges : r = ranges[i]
    BY DEF RangesInv, RangesTyped, ToSet
  <2>2. RangesTypeOK
    <3>1. next \in 0..MaxSpecs /\ final \in 0..Len(ranges)
      BY RangesAssumption DEF RangesInv, RangesTyped, Counts
    <3>2. stage \in {"sort", "merge", "serve", "sent"} => ranges # <<>>
      BY DEF RangesInv, RangesTyped, Counts
    <3> QED
      BY <2>1, <3>1, <3>2 DEF RangesInv, RangesTyped, RangesTypeOK, RangeType, Word
  <2>3. stage \in {"sort", "merge", "serve"} => \A r \in ToSet(ranges) : Fitted(r)
    BY <2>1 DEF RangesInv, Fit
  <2> QED
    BY <2>2, <2>3 DEF RangesFit, Fitted
<1> QED
  BY RangesInvariant, <1>1, PTL
----------------------------------------------------------------------------
(***************************************************************************)
(* Ordinary specifiers: each becomes the range of the bytes it asks for,   *)
(* in the file and not empty, and merging keeps the bytes of all of them.  *)
(***************************************************************************)
Given(s) == [start |-> s.first, end |-> Smaller(IF s.count = 1 THEN st_size - 1 ELSE s.last, st_size - 1)]
Ordered(r) == r.start \in Nat /\ r.end \in Nat /\ r.start <= r.end /\ r.end < st_size
Wants(s, b) == b \in 0..(st_size - 1) /\ s.first <= b /\ (s.count = 2 => b <= s.last)
InRanges(b) == \E i \in DOMAIN ranges : b \in Bytes(ranges[i])

AskedFor ==
    AllOrdinary =>
        /\ stage = "decode" =>
              \A i \in DOMAIN ranges : ranges[i] = Given(specs[i]) /\ specs[i].first < st_size
        /\ stage \in {"decode", "sort", "merge", "serve"} => \A i \in DOMAIN ranges : Ordered(ranges[i])
        /\ stage \in {"sort", "merge", "serve"} => \A b : InRanges(b) <=> b \in Requested

LEMMA OrdinaryRange ==
  ASSUME RangesTyped, NEW s \in Specs, Ordinary(s), s.first < st_size
  PROVE  /\ Ordered(Given(s))
         /\ \A b : b \in Bytes(Given(s)) <=> Wants(s, b)
         /\ \A start \in Starts(s), end \in Ends(s) : FittedRange(start, end) = Given(s)
<1>1. /\ st_size \in Nat /\ s.first \in Nat /\ s.last \in Int /\ IsLong(s.first) /\ IsLong(s.last)
      /\ s.count = 1 \/ (s.count = 2 /\ s.first <= s.last)
  BY Sized, RangesAssumption DEF Ordinary, IsLong
<1> DEFINE e == Smaller(IF s.count = 1 THEN st_size - 1 ELSE s.last, st_size - 1)
<1>2. e \in Nat /\ s.first <= e /\ e < st_size
  BY <1>1 DEF Smaller
<1>3. \A b \in Int : b <= e <=> b <= st_size - 1 /\ (s.count = 2 => b <= s.last)
  BY <1>1 DEF Smaller
<1>4. IsLong(e) /\ e >= 0 /\ s.first >= 0
  BY <1>1, <1>2, Sized DEF IsLong
<1>5. Unsigned(s.first) = s.first /\ Unsigned(e) = e
  <2>1. Unsigned(s.first) = s.first
    BY <1>1, <1>4, UnsignedLong
  <2>2. Unsigned(e) = e
    <3> HIDE DEF e
    <3> QED
      BY <1>4, UnsignedLong
  <2> QED
    BY <2>1, <2>2
<1>6. ASSUME NEW start \in Starts(s), NEW end \in Ends(s) PROVE FittedRange(start, end) = Given(s)
  <2>1. start = s.first /\ Smaller(end, st_size - 1) = e
    BY <1>1 DEF Starts, Ends, EOF
  <2> QED
    BY <1>5, <2>1 DEF FittedRange, Given
<1>7. Given(s) = [start |-> s.first, end |-> e]
  BY DEF Given
<1> HIDE DEF e
<1> QED
  BY <1>1, <1>2, <1>3, <1>6, <1>7 DEF Ordered, Bytes, Wants

LEMMA DecodeAsks ==
  ASSUME RangesInv, AskedFor, DecodeRange
  PROVE  AskedFor'
<1> SUFFICES ASSUME AllOrdinary PROVE AskedFor'
  BY DEF AskedFor, AllOrdinary, DecodeRange
<1>1. /\ next + 1 \in DOMAIN specs /\ next = Len(ranges) /\ specs[next + 1] \in Specs
      /\ ranges \in Seq(RangeType) /\ UNCHANGED <<specs, st_size>> /\ stage = "decode"
  BY DEF DecodeRange, RangesInv, RangesTyped, Counts
<1>2. Ordinary(specs[next + 1])
  BY <1>1 DEF AllOrdinary, ToSet
<1>3. PICK start \in Starts(specs[next + 1]), end \in Ends(specs[next + 1]) :
         \/ stage' = "rejected"
         \/ /\ start < st_size
            /\ ranges' = Append(ranges, FittedRange(start, end))
            /\ UNCHANGED stage
  BY DEF DecodeRange
<1>4. CASE stage' = "rejected"
  BY <1>4 DEF AskedFor
<1>5. CASE /\ start < st_size
           /\ ranges' = Append(ranges, FittedRange(start, end))
           /\ UNCHANGED stage
  <2>1. specs[next + 1].first < st_size
    BY <1>2, <1>5 DEF Starts, Ordinary, EOF
  <2>2. FittedRange(start, end) = Given(specs[next + 1]) /\ Ordered(Given(specs[next + 1]))
    BY <1>1, <1>2, <2>1, OrdinaryRange DEF RangesInv
  <2> DEFINE r == Given(specs[next + 1])
  <2>3. r \in RangeType
    BY <1>1, <1>3, <1>5, <2>2, SpecLongs, FittedFits DEF RangesInv
  <2>4. ranges' = Append(ranges, r)
    BY <1>5, <2>2
  <2>5. ASSUME NEW i \in DOMAIN ranges'
        PROVE  ranges'[i] = Given(specs[i]) /\ specs[i].first < st_size /\ Ordered(ranges'[i])
    <3> HIDE DEF r
    <3>1. (i = next + 1 /\ ranges'[i] = r) \/ (i \in DOMAIN ranges /\ ranges'[i] = ranges[i])
      BY <1>1, <2>3, <2>4
    <3> QED
      BY <1>1, <2>1, <2>2, <3>1 DEF AskedFor, r
  <2> QED
    BY <1>1, <1>5, <2>5 DEF AskedFor, Given, Ordered
<1> QED
  BY <1>3, <1>4, <1>5

LEMMA EndDecodeAsks ==
  ASSUME RangesInv, AskedFor, EndDecode
  PROVE  AskedFor'
<1> SUFFICES ASSUME AllOrdinary PROVE AskedFor'
  BY DEF AskedFor, AllOrdinary, EndDecode
<1>1. /\ DOMAIN ranges = DOMAIN specs /\ specs \in Seq(Specs) /\ stage = "decode" /\ stage' = "sort"
      /\ UNCHANGED <<specs, st_size, ranges>>
  BY DEF EndDecode, RangesInv, RangesTyped, Counts
<1>2. ASSUME NEW b PROVE InRanges(b) <=> b \in Requested
  <2>1. \A i \in DOMAIN specs : specs[i] \in Specs /\ Ordinary(specs[i])
    BY <1>1 DEF AllOrdinary, ToSet
  <2>2. ASSUME NEW i \in DOMAIN specs PROVE b \in Bytes(ranges[i]) <=> Wants(specs[i], b)
    <3>1. ranges[i] = Given(specs[i]) /\ specs[i].first < st_size
      BY <1>1 DEF AskedFor
    <3> QED
      BY <2>1, <3>1, OrdinaryRange DEF RangesInv
  <2>3. b \in Requested <=> \E i \in DOMAIN specs : Wants(specs[i], b)
    <3>1. b \in Requested <=> \E s \in ToSet(specs) : Wants(s, b)
      BY DEF Requested, Wants
    <3> QED
      BY <3>1 DEF ToSet
  <2> QED
    BY <1>1, <2>2, <2>3 DEF InRanges
<1> QED
  BY <1>1, <1>2 DEF AskedFor, Ordered, InRanges, Requested

LEMMA SortAsks ==
  ASSUME RangesInv, AskedFor, SortRanges
  PROVE  AskedFor'
<1> SUFFICES ASSUME AllOrdinary PROVE AskedFor'
  BY DEF AskedFor, AllOrdinary, SortRanges
<1>1. PICK k \in DOMAIN ranges :
         ranges' = SubSeq(ranges, k + 1, Len(ranges)) \o SubSeq(ranges, 1, k)
  BY DEF SortRanges
<1>2. /\ \A j \in DOMAIN ranges' : \E i \in DOMAIN ranges : ranges'[j] = ranges[i]
      /\ \A i \in DOMAIN ranges : \E j \in DOMAIN ranges' : ranges'[j] = ranges[i]
  BY <1>1, Rotated DEF RangesInv, RangesTyped
<1>3. stage = "sort" /\ stage' = "merge" /\ UNCHANGED <<specs, st_size>>
  BY DEF SortRanges
<1>4. \A b : InRanges(b)' <=> InRanges(b)
  BY <1>2 DEF InRanges, Bytes
<1>5. Requested' = Requested
  BY <1>3 DEF Requested
<1> QED
  BY <1>2, <1>3, <1>4, <1>5 DEF AskedFor, Ordered

\* The bytes of two ranges of which one starts in the other are those of the merged one.
LEMMA MergeAsks ==
  ASSUME RangesInv, AskedFor, MergeRange
  PROVE  AskedFor'
<1> SUFFICES ASSUME AllOrdinary PROVE AskedFor'
  BY DEF AskedFor, AllOrdinary, MergeRange
<1> DEFINE f == ranges[final]  r == ranges[next + 1]  m == ranges'[final]
<1>1. /\ stage = "merge" /\ stage' = "merge" /\ UNCHANGED <<specs, st_size>>
      /\ f.start <= r.start /\ r.start <= f.end
  BY DEF MergeRange, StartsInFinal
<1>2. /\ final = next /\ final \in DOMAIN ranges /\ next + 1 \in DOMAIN ranges
      /\ DOMAIN ranges = 1..Len(ranges) /\ Len(ranges) \in Nat /\ final \in Nat
      /\ DOMAIN ranges' = 1..(Len(ranges) - 1)
      /\ m = [start |-> f.start, end |-> Larger(f.end, r.end)]
  BY Merged DEF RangesInv, RangesTyped
<1>3. Ordered(f) /\ Ordered(r)
  BY <1>1, <1>2 DEF AskedFor
<1>4. Ordered(m)
  BY <1>2, <1>3 DEF Ordered, Larger
<1>5. \A b : b \in Bytes(m) <=> b \in Bytes(f) \/ b \in Bytes(r)
  BY <1>1, <1>2, <1>3 DEF Ordered, Larger, Bytes
<1> HIDE DEF f, r, m
<1>6. ASSUME NEW i \in DOMAIN ranges', i # final
      PROVE  \E j \in DOMAIN ranges : j \notin {final, next + 1} /\ ranges'[i] = ranges[j]
  <2>1. CASE i < final
    <3>1. i \in 1..(final - 1) /\ i \in DOMAIN ranges /\ i \notin {final, next + 1}
      BY <1>2, <2>1
    <3> QED
      BY <3>1, Merged
  <2>2. CASE i > final
    <3>1. i \in (final + 1)..(Len(ranges) - 1) /\ i + 1 \in DOMAIN ranges
          /\ i + 1 \notin {final, next + 1}
      BY <1>2, <2>2
    <3> QED
      BY <3>1, Merged
  <2> QED
    BY <1>2, <1>6, <2>1, <2>2
<1>7. ASSUME NEW j \in DOMAIN ranges, j \notin {final, next + 1}
      PROVE  \E i \in DOMAIN ranges' : ranges'[i] = ranges[j]
  <2>1. CASE j < final
    <3>1. j \in 1..(final - 1) /\ j \in DOMAIN ranges'
      BY <1>2, <2>1
    <3> QED
      BY <3>1, Merged
  <2>2. CASE j > next + 1
    <3>1. j - 1 \in (final + 1)..(Len(ranges) - 1) /\ j - 1 \in DOMAIN ranges' /\ (j - 1) + 1 = j
      BY <1>2, <2>2
    <3>2. ranges'[j - 1] = ranges[(j - 1) + 1]
      BY <3>1, Merged
    <3> QED
      BY <3>1, <3>2
  <2> QED
    BY <1>2, <1>7, <2>1, <2>2
<1>8. final \in DOMAIN ranges'
  BY <1>2
<1>9. \A i \in DOMAIN ranges' : Ordered(ranges'[i])
  BY <1>1, <1>4, <1>6 DEF AskedFor, m
<1>10. ASSUME NEW b PROVE InRanges(b)' <=> InRanges(b)
  <2>1. InRanges(b)' <=> \E i \in DOMAIN ranges' : b \in Bytes(ranges'[i])
    BY DEF InRanges, Bytes
  <2>2. ASSUME InRanges(b) PROVE InRanges(b)'
    <3>1. PICK j \in DOMAIN ranges : b \in Bytes(ranges[j])
      BY <2>2 DEF InRanges
    <3>2. CASE j \in {final, next + 1}
      BY <1>5, <1>8, <2>1, <3>1, <3>2 DEF f, r, m
    <3>3. CASE j \notin {final, next + 1}
      BY <1>7, <2>1, <3>1, <3>3
    <3> QED
      BY <3>2, <3>3
  <2>3. ASSUME InRanges(b)' PROVE InRanges(b)
    <3>1. PICK i \in DOMAIN ranges' : b \in Bytes(ranges'[i])
      BY <2>1, <2>3
    <3>2. CASE i = final
      BY <1>2, <1>5, <3>1, <3>2 DEF InRanges, f, r, m
    <3>3. CASE i # final
      BY <1>6, <3>1, <3>3 DEF InRanges
    <3> QED
      BY <3>2, <3>3
  <2> QED
    BY <2>2, <2>3
<1>11. Requested' = Requested
  BY <1>1 DEF Requested
<1> QED
  BY <1>1, <1>9, <1>10, <1>11 DEF AskedFor, Ordered

LEMMA AskedForHolds == RangesSpec => []AskedFor
<1>1. RangesInit => AskedFor
  BY DEF RangesInit, AskedFor
<1>2. RangesInv /\ AskedFor /\ [RangesNext]_rangeVars => AskedFor'
  <2> SUFFICES ASSUME RangesInv, AskedFor, [RangesNext]_rangeVars PROVE AskedFor'
    OBVIOUS
  <2>1. CASE KeepRange \/ EndMerge \/ UNCHANGED rangeVars
    <3>1. /\ UNCHANGED <<specs, st_size, ranges>>
          /\ UNCHANGED stage \/ (stage = "merge" /\ stage' = "serve")
      BY <2>1 DEF KeepRange, EndMerge, rangeVars
    <3>2. (AllOrdinary' <=> AllOrdinary) /\ Requested' = Requested /\ \A b : InRanges(b)' <=> InRanges(b)
      BY <3>1 DEF AllOrdinary, Requested, InRanges, Bytes
    <3> QED
      BY <3>1, <3>2 DEF AskedFor, Ordered, Given
  <2>2. CASE Serve
    BY <2>2 DEF Serve, AskedFor
  <2> QED
    BY <2>1, <2>2, DecodeAsks, EndDecodeAsks, SortAsks, MergeAsks DEF RangesNext
<1> QED
  BY <1>1, <1>2, RangesInvariant, PTL DEF RangesSpec

\* Merging loses no byte that was asked for and adds none, whatever list of ordinary
\* ranges was sent and whatever order sorting by addresses left them in (decodeRanges).
THEOREM NoByteLost == RangesSpec => []MergeKeepsBytes
<1>1. AskedFor => MergeKeepsBytes
  <2> SUFFICES ASSUME AskedFor, AllOrdinary, stage \in {"sort", "merge", "serve"}
               PROVE  Covered = Requested
    BY DEF MergeKeepsBytes
  <2>1. \A b : b \in Covered <=> InRanges(b)
    BY DEF Covered, InRanges, ToSet
  <2>2. \A b : b \in Covered <=> b \in Requested
    BY <2>1 DEF AskedFor
  <2> QED
    BY <2>2
<1> QED
  BY AskedForHolds, <1>1, PTL

\* The response to ordinary ranges has as many bytes as its Content-Range says, at least
\* one and at most MAX_REQ_SIZE + 1, all in the file and asked for, and no assertion
\* fails, for any sizes and any list (handleGETRanged).
THEOREM ResponsesConsistent == RangesSpec => []ResponseConsistent
<1>1. RangesInit => ResponseConsistent
  BY DEF RangesInit, ResponseConsistent
<1>2. RangesInv /\ AskedFor /\ ResponseConsistent /\ [RangesNext]_rangeVars => ResponseConsistent'
  <2> SUFFICES ASSUME RangesInv, AskedFor, ResponseConsistent, [RangesNext]_rangeVars, AllOrdinary
               PROVE  ResponseConsistent'
    BY DEF ResponseConsistent, AllOrdinary, RangesNext, rangeVars, DecodeRange, EndDecode, SortRanges, MergeRange,
           KeepRange, EndMerge, Serve
  <2>1. CASE Serve
    <3> DEFINE r == ranges[1]  c == Capped(r)
    <3>1. /\ Ordered(r) /\ 1 \in DOMAIN ranges /\ st_size \in Nat /\ 2 * st_size < Modulus
          /\ Modulus \in Nat /\ MaxRequest \in Nat \ {0} /\ r \in RangeType
      <4>1. 1 \in DOMAIN ranges /\ ranges \in Seq(RangeType)
        BY <2>1, RangesAssumption DEF RangesInv, RangesTyped, Counts, Serve
      <4> QED
        BY <2>1, <4>1, Sized, RangesAssumption DEF RangesInv, AskedFor, Serve
    <3>2. IsLong(r.end - r.start) /\ r.end - r.start >= 0
      BY <3>1 DEF Ordered, IsLong
    <3>3. Unsigned(r.end - r.start) = r.end - r.start
      BY <3>2, UnsignedLong
    <3>4. /\ c.start = r.start /\ c.end \in Nat /\ c.start <= c.end /\ c.end <= r.end
          /\ c.end - c.start <= MaxRequest
      <4>1. CASE r.end - r.start >= MaxRequest
        <5>1. IsLong(r.start + MaxRequest) /\ r.start + MaxRequest >= 0
          BY <3>1, <4>1 DEF Ordered, IsLong
        <5>2. Unsigned(r.start + MaxRequest) = r.start + MaxRequest
          BY <5>1, UnsignedLong
        <5>3. c.start = r.start /\ c.end = r.start + MaxRequest
          BY <3>1, <3>3, <4>1, <5>2 DEF Capped, RangeType
        <5> QED
          BY <3>1, <4>1, <5>3 DEF Ordered
      <4>2. CASE ~(r.end - r.start >= MaxRequest)
        BY <3>1, <3>3, <4>2 DEF Ordered, Capped
      <4> QED
        BY <4>1, <4>2
    <3> HIDE DEF c
    <3>5. SeekTo(c) = r.start
      BY <3>1, <3>4 DEF Ordered, SeekTo, Signed
    <3>6. /\ stage' = "sent" /\ UNCHANGED <<specs, st_size, fileLength>>
          /\ sent' = [first |-> c.start, bytes |-> BytesRead(c), start |-> c.start, end |-> c.end]
      BY <2>1, <3>4, <3>5 DEF Serve, c
    <3>7. fileLength = st_size => BytesRead(c) = c.end - c.start + 1
      <4>1. IsLong(c.end - c.start + 1) /\ c.end - c.start + 1 >= 0
        BY <3>1, <3>4 DEF Ordered, IsLong
      <4>2. Unsigned(c.end - c.start + 1) = c.end - c.start + 1
        BY <4>1, UnsignedLong
      <4> QED
        BY <3>1, <3>4, <4>2 DEF Ordered, BytesRead, Smaller, Larger
    <3>8. c.start..c.end \subseteq Requested
      <4> SUFFICES ASSUME NEW b \in c.start..c.end PROVE b \in Requested
        OBVIOUS
      <4>1. b \in Bytes(r)
        BY <3>1, <3>4 DEF Ordered, Bytes
      <4>2. InRanges(b)
        BY <3>1, <4>1 DEF InRanges
      <4> QED
        BY <2>1, <4>2 DEF AskedFor, Serve
    <3>9. Requested' = Requested
      BY <3>6 DEF Requested
    <3>10. fileLength = st_size => c.start + (c.end - c.start + 1) - 1 = c.end
                            /\ c.end - c.start + 1 \in 1..(MaxRequest + 1) /\ c.end < st_size
      BY <3>1, <3>4 DEF Ordered
    <3> QED
      BY <3>6, <3>7, <3>8, <3>9, <3>10 DEF ResponseConsistent
  <2>2. CASE UNCHANGED rangeVars
    BY <2>2 DEF ResponseConsistent, rangeVars, AllOrdinary, Requested
  <2>3. CASE DecodeRange \/ EndDecode \/ SortRanges \/ MergeRange \/ KeepRange \/ EndMerge
    <3>1. stage' \notin {"sent", "aborted"}
      BY <2>3 DEF DecodeRange, EndDecode, SortRanges, MergeRange, KeepRange, EndMerge
    <3> QED
      BY <3>1 DEF ResponseConsistent
  <2> QED
    BY <2>1, <2>2, <2>3 DEF RangesNext
<1> QED
  BY <1>1, <1>2, AskedForHolds, RangesInvariant, PTL DEF RangesSpec
=============================================================================
