------------------------------ MODULE KeyStore ------------------------------
(***************************************************************************)
(* The key pair that signs the login cookies, over restarts of the process *)
(* (src/auth/auth.c, src/main.c, src/utils/fsutils.c).  loadKeyPair finds  *)
(* keys.bin or generates a pair and saves it; the users are kept in memory *)
(* and are gone with the process.  The process may die between any two     *)
(* steps, fopen, fread and the flush of fclose may fail.                   *)
(*                                                                         *)
(* A pair stands for both keys: the public one is computed from the secret *)
(* one.  A file that is empty or short leaves zeros for a secret key, and  *)
(* no signature verifies with the public key of zeros: this pair is Blank. *)
(***************************************************************************)
EXTENDS Naturals, FiniteSets

CONSTANTS Pairs,        \* what crypto_sign_keypair may return
          Blank,        \* the keys of zeros a process starts with
          Names,        \* of users
          FirstAdmin,   \* the one main signs up
          MaxRestarts   \* bound on the number of processes

ASSUME KeyStoreAssumption ==
    /\ Blank \notin Pairs
    /\ FirstAdmin \in Names
    /\ MaxRestarts \in Nat

Files == [state : {"absent", "empty"}, pair : {Blank}] \cup [state : {"whole"}, pair : Pairs]
NoFile    == [state |-> "absent", pair |-> Blank]
EmptyFile == [state |-> "empty",  pair |-> Blank]
Whole(k)  == [state |-> "whole",  pair |-> k]

VARIABLES
    main,        \* where main is, or "down"
    file,      \* keys.bin
    pair,      \* publicKey and secretKey
    users,     \* auth.users: the names signed up with this process
    admitted,  \* the user checkUserToken set last, {} if none
    issued,    \* history: the cookies signed so far
    used,      \* history: the pairs generated so far
    unsaved,   \* history: the pairs that never were in a whole file, or whose file was removed
    unread,    \* history: this process failed to open or read its file
    restarts

history == <<issued, used, unsaved>>
keyVars == <<main, file, pair, users, admitted, history, unread, restarts>>

SignedCookies == [user : Names, pair : Pairs \cup {Blank}]

KeysInit ==
    /\ main = "down" /\ file = NoFile
    /\ pair = Blank /\ users = {} /\ admitted = {}
    /\ issued = {} /\ used = {} /\ unsaved = {} /\ unread = FALSE
    /\ restarts = 0

Start ==
    /\ main = "down"
    /\ restarts < MaxRestarts
    /\ restarts' = restarts + 1
    /\ main' = "load"
    /\ UNCHANGED <<file, pair, users, admitted, history, unread>>

\* loadKeyPair, without a file.
Generate ==
    /\ main = "load" /\ file = NoFile
    /\ \E k \in Pairs \ used :
          /\ pair' = k
          /\ used' = used \cup {k}
          /\ unsaved' = unsaved \cup {k}
    /\ main' = "save"
    /\ UNCHANGED <<file, users, admitted, issued, unread, restarts>>

\* A save at every start.
OpenToSaveAlways ==
    /\ main \in {"save", "sign up"}
    /\ \/ main' = "write" /\ file' = EmptyFile
       \/ main' = "sign up" /\ UNCHANGED file
    /\ UNCHANGED <<pair, users, admitted, history, unread, restarts>>

\* saveKeyPair: fopen with "w+" leaves an empty file; its failure is not looked at.
OpenToSave ==
    /\ main = "save"
    /\ \/ main' = "write" /\ file' = EmptyFile
       \/ main' = "sign up" /\ UNCHANGED file
    /\ UNCHANGED <<pair, users, admitted, history, unread, restarts>>

(***************************************************************************)
(* fwrite leaves the key in the stream's buffer, fclose writes it out; its *)
(* failure is not looked at.                                               *)
(***************************************************************************)
CloseSaved ==
    /\ main = "write"
    /\ \/ file' = Whole(pair) /\ unsaved' = unsaved \ {pair}
       \/ UNCHANGED <<file, unsaved>>
    /\ main' = "sign up"
    /\ UNCHANGED <<pair, users, admitted, issued, used, unread, restarts>>

\* A pair generated whatever the file holds.
LoadGenerates ==
    /\ main = "load" /\ file # NoFile
    /\ \E k \in Pairs \ used : pair' = k /\ used' = used \cup {k} /\ unsaved' = unsaved \cup {k}
    /\ main' = "save"
    /\ UNCHANGED <<file, users, admitted, issued, unread, restarts>>

\* loadKeyPair, with a file: what is short of a key is taken for one.
Load ==
    /\ main = "load" /\ file # NoFile
    /\ pair' = file.pair
    /\ main' = "sign up"
    /\ UNCHANGED <<file, users, admitted, history, unread, restarts>>

\* main says so and goes on.
LoadFails ==
    /\ main = "load" /\ file # NoFile
    /\ unread' = TRUE
    /\ main' = "sign up"
    /\ UNCHANGED <<file, pair, users, admitted, history, restarts>>

\* main: initAuth, and the administrator, if hashing the password succeeds.
SignUpAdmin ==
    /\ main = "sign up"
    /\ users' \in {{}, {FirstAdmin}}
    /\ main' = "serve"
    /\ UNCHANGED <<file, pair, admitted, history, unread, restarts>>

SignUpUser(u) ==
    /\ main = "serve"
    /\ users' = users \cup {u}
    /\ UNCHANGED <<main, file, pair, admitted, history, unread, restarts>>

\* loginUser and generateLoginToken.
LoginUser(u) ==
    /\ main = "serve" /\ u \in users
    /\ issued' = issued \cup {[user |-> u, pair |-> pair]}
    /\ admitted' = {u}
    /\ UNCHANGED <<main, file, pair, users, used, unsaved, unread, restarts>>

\* crypto_sign_open, then the lookup of the name.
Verifies(c) == pair # Blank /\ c.pair = pair
Admits(c)   == Verifies(c) /\ c.user \in users

CheckUserToken(c) ==
    /\ main = "serve"
    /\ admitted' = IF Admits(c) THEN {c.user} ELSE {}
    /\ UNCHANGED <<main, file, pair, users, history, unread, restarts>>

\* The process ends, at any step, and its memory with it.
Die ==
    /\ main # "down"
    /\ main' = "down"
    /\ pair' = Blank /\ users' = {} /\ admitted' = {} /\ unread' = FALSE
    /\ UNCHANGED <<file, history, restarts>>

\* The operator deletes keys.bin: of the environment.
RemoveFile ==
    /\ main = "down" /\ file # NoFile
    /\ file' = NoFile
    /\ unsaved' = unsaved \cup ({file.pair} \cap Pairs)
    /\ UNCHANGED <<main, pair, users, admitted, issued, used, unread, restarts>>

KeysNext ==
    \/ Start \/ Generate \/ OpenToSave \/ CloseSaved \/ Load \/ LoadFails
    \/ SignUpAdmin
    \/ \E u \in Names : SignUpUser(u) \/ LoginUser(u)
    \/ \E c \in issued : CheckUserToken(c)
    \/ Die \/ RemoveFile

KeysSpec == KeysInit /\ [][KeysNext]_keyVars

-----------------------------------------------------------------------------
(* Properties *)

KeysTyped ==
    /\ main \in {"down", "load", "save", "write", "sign up", "serve"}
    /\ file \in Files
    /\ pair \in Pairs \cup {Blank}
    /\ users \subseteq Names /\ admitted \subseteq Names
    /\ issued \subseteq SignedCookies
    /\ used \subseteq Pairs /\ unsaved \subseteq Pairs
    /\ unread \in BOOLEAN
    /\ restarts \in Nat

(***************************************************************************)
(* A cookie signed by any process so far verifies with the one that serves *)
(* now, unless its pair was never saved or its file was removed.  Only a   *)
(* process that could not read its file, or found the one another left     *)
(* empty, signs cookies that never verify (saveKeyPair, loadKeyPair).      *)
(***************************************************************************)
CookiesSurvive ==
    main = "serve" /\ ~unread =>
        /\ \A c \in issued : c.pair = Blank \/ c.pair \in unsaved \/ Verifies(c)
        /\ pair = Blank => file = EmptyFile

(***************************************************************************)
(* No process repairs an empty file or replaces a whole one: what a crash  *)
(* between the truncation and the write left stays until it is removed     *)
(* (loadKeyPair).                                                          *)
(***************************************************************************)
FileStays ==
    [][/\ file.state = "whole" => file' \in {file, NoFile}
       /\ file = EmptyFile /\ main # "write" => file' \in {file, NoFile}]_keyVars

-----------------------------------------------------------------------------
(***************************************************************************)
(* Why the properties hold: a pair once generated is in the file, or is    *)
(* counted as unsaved; while it is being saved no other file is there; and *)
(* a process that could read its file serves with what is in it.           *)
(***************************************************************************)
PairsAccounted ==
    /\ unsaved \subseteq used
    /\ pair \in used \cup {Blank} /\ file.pair \in used \cup {Blank}
    /\ \A c \in issued : c.pair \in used \cup {Blank}
    /\ \A k \in used \ unsaved : file = Whole(k)
SavingFresh ==
    /\ main = "save" => file = NoFile
    /\ main = "write" => file = EmptyFile
    /\ main \in {"save", "write"} => pair \in used
    /\ main \in {"down", "load"} => ~unread /\ pair = Blank
FileServed ==
    main \in {"sign up", "serve"} /\ ~unread =>
        /\ file.state = "whole" => pair = file.pair
        /\ pair = Blank => file = EmptyFile

KeysInv == KeysTyped /\ PairsAccounted /\ SavingFresh /\ FileServed

=============================================================================
