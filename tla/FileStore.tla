------------------------------ MODULE FileStore ------------------------------
(***************************************************************************)
(* FileBackend and SFTPBackend, internal/storage: objects kept as files of *)
(* a file system that many processes share.  Each call of the operating    *)
(* system, or of the SFTP server, is one action.  A file is what a name    *)
(* refers to: it lives on, for those who have it open, when the name is    *)
(* removed or refers to another one.  The contents are Size chunks; chunk  *)
(* k of a value differs from chunk k of another.                           *)
(*                                                                         *)
(* The objects lie in one directory, and directories are there already.    *)
(* The name of a temporary file is random; as it is never used again, the  *)
(* file stands for it.                                                     *)
(***************************************************************************)
EXTENDS Naturals, Sequences

CONSTANTS
    Clients, Paths, Values, Requests, Missing, Partial,     \* see ObjectStore
    Files,          \* the files of the file system
    Size,           \* chunks that a value is made of
    Kinds           \* "file" and "sftp"

Whole(value) == [k \in 1..Size |-> value]
Ops == {"put", "new", "delete", "get", "list"}

ASSUME SizeAssumption == Size \in Nat \ {0}
ASSUME KindAssumption == Kinds \subseteq {"file", "sftp"}
ASSUME RequestAssumption == Requests \subseteq [op : Ops, path : Paths, value : Values]
ASSUME ObjectAssumption ==
    /\ Missing \notin Values \cup Clients \cup Files /\ Partial \notin Values \cup Clients
    /\ Missing # Partial
    /\ Missing \notin Requests /\ Clients \cap Values = {} /\ Files \cap Paths = {}

VARIABLES
    kind,           \* the backend
    link,           \* the file at each path
    temps,          \* the temporary files
    data,           \* the chunks of each file
    pc, request,    \* the call of each client and where it is
    fd,             \* the file it has open
    opened,         \* history: what the file was when a Get opened it
    got,            \* the chunks that a Get has read
    names,          \* the names that a List still has to visit
    listed          \* what it has found

disk == <<kind, link, temps, data>>
vars == <<disk, pc, request, fd, opened, got, names, listed>>

PCs == {"idle", "temp", "copy", "rename", "fallback", "remove", "create", "write", "stat",
        "delete", "open", "read", "list", "lstat", "return", "refused"}

\* Where a call has a file open.
OpenPCs == {"copy", "rename", "fallback", "remove", "write", "read"}

TypeOK ==
    /\ kind \in Kinds
    /\ link \in [Paths -> Files \cup {Missing}]
    /\ temps \subseteq Files
    /\ data \in [Files -> Seq(Values)]
    /\ pc \in [Clients -> PCs] /\ request \in [Clients -> Requests \cup {Missing}]
    /\ fd \in [Clients -> Files \cup {Missing}]
    /\ opened \in [Clients -> Values \cup {Missing, Partial}]
    /\ got \in [Clients -> Seq(Values)]
    /\ names \in [Clients -> SUBSET (Paths \cup Files)]
    /\ listed \in [Clients -> SUBSET (Paths \cup Files)]
    /\ \A c \in Clients :
          /\ pc[c] = "idle" <=> request[c] = Missing
          /\ pc[c] \in OpenPCs <=> fd[c] # Missing

Init ==
    /\ kind \in Kinds
    /\ link = [p \in Paths |-> Missing]
    /\ temps = {}
    /\ data = [f \in Files |-> <<>>]
    /\ pc = [c \in Clients |-> "idle"]
    /\ request = [c \in Clients |-> Missing]
    /\ fd = [c \in Clients |-> Missing]
    /\ opened = [c \in Clients |-> Missing]
    /\ got = [c \in Clients |-> <<>>]
    /\ names = [c \in Clients |-> {}]
    /\ listed = [c \in Clients |-> {}]

-----------------------------------------------------------------------------
Linked(f) == \E p \in Paths : link[p] = f

\* A file that no name refers to and nobody has open.
Free(f) == ~Linked(f) /\ f \notin temps /\ \A c \in Clients : fd[c] # f

Goto(c, l) == pc' = [pc EXCEPT ![c] = l]
At(c) == link[request[c].path]
Link(c, f) == link' = [link EXCEPT ![request[c].path] = f]
Append1(c) == data' = [data EXCEPT ![fd[c]] = Append(@, request[c].value)]

Call(c) ==
    /\ pc[c] = "idle"
    /\ \E r \in Requests :
          /\ request' = [request EXCEPT ![c] = r]
          /\ Goto(c, CASE r.op = "put"    -> "temp"
                       [] r.op = "new"    -> "create"
                       [] r.op = "delete" -> "delete"
                       [] r.op = "get"    -> "open"
                       [] r.op = "list"   -> "list")
    /\ UNCHANGED <<disk, fd, opened, got, names, listed>>

\* The call returns.
Finish(c) ==
    /\ Goto(c, "idle")
    /\ request' = [request EXCEPT ![c] = Missing]
    /\ fd' = [fd EXCEPT ![c] = Missing]
    /\ opened' = [opened EXCEPT ![c] = Missing]
    /\ got' = [got EXCEPT ![c] = <<>>]
    /\ names' = [names EXCEPT ![c] = {}]
    /\ listed' = [listed EXCEPT ![c] = {}]
    /\ UNCHANGED <<kind, link, data>>

\* It returns nil, or ErrAlreadyExists if it was refused.
Return(c) ==
    /\ pc[c] \in {"return", "refused"}
    /\ Finish(c) /\ UNCHANGED temps

\* It returns another error after which the code does nothing more (that is so for the
\* Close of a temporary file over SFTP and for the write of PutIfNotExist), or the
\* process is killed, or the connection is lost: what is on the disk stays there.
GiveUp(c) ==
    /\ pc[c] # "idle"
    /\ Finish(c) /\ UNCHANGED temps

-----------------------------------------------------------------------------
\* Put: a temporary file ...
CreateTemp(c) ==
    /\ pc[c] = "temp"
    /\ \E f \in Files :
          /\ Free(f)
          /\ temps' = temps \cup {f}
          /\ data' = [data EXCEPT ![f] = <<>>]
          /\ fd' = [fd EXCEPT ![c] = f]
    /\ Goto(c, "copy")
    /\ UNCHANGED <<kind, link, request, opened, got, names, listed>>

\* Bug: the file is opened under its own name.
CreateInPlace(c) ==
    /\ pc[c] = "temp"
    /\ \E f \in Files :
          /\ Free(f)
          /\ Link(c, f)
          /\ data' = [data EXCEPT ![f] = <<>>]
          /\ fd' = [fd EXCEPT ![c] = f]
    /\ Goto(c, "copy")
    /\ UNCHANGED <<kind, temps, request, opened, got, names, listed>>

\* Bug: an error of the copy is not looked at.
CopyUnchecked(c) ==
    /\ pc[c] = "copy"
    /\ \/ Len(data[fd[c]]) < Size /\ Append1(c) /\ UNCHANGED pc
       \/ UNCHANGED data /\ Goto(c, "rename")
    /\ UNCHANGED <<kind, link, temps, request, fd, opened, got, names, listed>>

\* ... into which the value is copied; when that fails it is removed.
Copy(c) ==
    /\ pc[c] = "copy"
    /\ \/ Len(data[fd[c]]) < Size /\ Append1(c) /\ UNCHANGED pc
       \/ UNCHANGED data /\ Goto(c, IF Len(data[fd[c]]) < Size THEN "remove" ELSE "rename")
    /\ UNCHANGED <<kind, link, temps, request, fd, opened, got, names, listed>>

\* Rename and posix-rename replace what is there; the rename of SFTP version 3,
\* which is tried next, does not.  Some servers have no posix-rename: it always fails.
Rename(c) ==
    /\ \/ pc[c] = "rename"
       \/ pc[c] = "fallback" /\ At(c) = Missing
    /\ Link(c, fd[c])
    /\ temps' = temps \ {fd[c]}
    /\ fd' = [fd EXCEPT ![c] = Missing]
    /\ Goto(c, "return")
    /\ UNCHANGED <<kind, data, request, opened, got, names, listed>>

RenameFails(c) ==
    /\ \/ pc[c] = "rename" /\ Goto(c, IF kind = "file" THEN "remove" ELSE "fallback")
       \/ pc[c] = "fallback" /\ Goto(c, "remove")
    /\ UNCHANGED <<disk, request, fd, opened, got, names, listed>>

RemoveTemp(c) ==
    /\ pc[c] = "remove"
    /\ temps' = temps \ {fd[c]}
    /\ Finish(c)

-----------------------------------------------------------------------------
\* PutIfNotExist: exclusive create.  Some servers do not say why it failed, and Stat
\* is to tell.
CreateNew(c) ==
    /\ pc[c] = "create"
    /\ IF At(c) = Missing
         THEN /\ \E f \in Files :
                    /\ Free(f)
                    /\ Link(c, f)
                    /\ data' = [data EXCEPT ![f] = <<>>]
                    /\ fd' = [fd EXCEPT ![c] = f]
              /\ Goto(c, "write")
         ELSE /\ \E l \in {"refused", "stat"} : (kind = "file" => l = "refused") /\ Goto(c, l)
              /\ UNCHANGED <<link, data, fd>>
    /\ UNCHANGED <<kind, temps, request, opened, got, names, listed>>

Stat(c) ==
    /\ pc[c] = "stat"
    /\ \/ /\ At(c) # Missing /\ Goto(c, "refused")
          /\ UNCHANGED <<disk, request, fd, opened, got, names, listed>>
       \/ (At(c) = Missing /\ Finish(c) /\ UNCHANGED temps)

\* The write goes to the file that was created, whether it still has a name or not.
Write(c) ==
    /\ pc[c] = "write"
    /\ Append1(c)
    /\ IF Len(data[fd[c]]) + 1 < Size THEN UNCHANGED pc ELSE Goto(c, "return")
    /\ fd' = IF Len(data[fd[c]]) + 1 < Size THEN fd ELSE [fd EXCEPT ![c] = Missing]
    /\ UNCHANGED <<kind, link, temps, request, opened, got, names, listed>>

Delete(c) ==
    /\ pc[c] = "delete"
    /\ Link(c, Missing)
    /\ Goto(c, "return")
    /\ UNCHANGED <<kind, temps, data, request, fd, opened, got, names, listed>>

-----------------------------------------------------------------------------
\* The value whose chunks these are.
ValueOf(chunks) ==
    IF \E v \in Values : chunks = Whole(v) THEN CHOOSE v \in Values : chunks = Whole(v)
    ELSE Partial

\* The object that a file is.
Object(f) == ValueOf(data[f])

\* Bug: a file that is not found is read.
OpenAny(c) ==
    /\ pc[c] = "open"
    /\ fd' = [fd EXCEPT ![c] = At(c)]
    /\ opened' = [opened EXCEPT ![c] = IF At(c) = Missing THEN Missing ELSE Object(At(c))]
    /\ Goto(c, "read")
    /\ UNCHANGED <<disk, request, got, names, listed>>

\* Get returns the open file, and the caller reads it to its end.
Open(c) ==
    /\ pc[c] = "open"
    /\ fd' = [fd EXCEPT ![c] = At(c)]
    /\ opened' = [opened EXCEPT ![c] = IF At(c) = Missing THEN Missing ELSE Object(At(c))]
    /\ Goto(c, IF At(c) = Missing THEN "return" ELSE "read")
    /\ UNCHANGED <<disk, request, got, names, listed>>

\* Bug: the file is opened again for each chunk.
ReadByName(c) ==
    /\ pc[c] = "read"
    /\ LET chunks == IF At(c) = Missing THEN <<>> ELSE data[At(c)] IN
       IF Len(got[c]) < Len(chunks)
         THEN /\ got' = [got EXCEPT ![c] = Append(@, chunks[Len(@) + 1])]
              /\ UNCHANGED <<pc, fd>>
         ELSE /\ Goto(c, "return") /\ fd' = [fd EXCEPT ![c] = Missing]
              /\ UNCHANGED got
    /\ UNCHANGED <<disk, request, opened, names, listed>>

Read(c) ==
    /\ pc[c] = "read"
    /\ LET chunks == data[fd[c]] IN
       IF Len(got[c]) < Len(chunks)
         THEN /\ got' = [got EXCEPT ![c] = Append(@, chunks[Len(@) + 1])]
              /\ UNCHANGED <<pc, fd>>
         ELSE /\ Goto(c, "return") /\ fd' = [fd EXCEPT ![c] = Missing]
              /\ UNCHANGED got
    /\ UNCHANGED <<disk, request, opened, names, listed>>

\* List reads the directory, temporary files included.  filepath.Walk then visits
\* each name, temporary files first as they begin with a dot, and fails if one is
\* gone; over SFTP the answer has all there is to know.
ReadDir(c) ==
    /\ pc[c] = "list"
    /\ listed' = [listed EXCEPT ![c] = {p \in Paths : link[p] # Missing} \cup temps]
    /\ names' = [names EXCEPT ![c] = IF kind = "file" THEN listed'[c] ELSE {}]
    /\ Goto(c, "lstat")
    /\ UNCHANGED <<disk, request, fd, opened, got>>

Exists(n) == n \in temps \/ (n \in Paths /\ link[n] # Missing)

Lstat(c) ==
    /\ pc[c] = "lstat"
    /\ \E n \in names[c] :
          /\ n \in Files \/ names[c] \subseteq Paths
          /\ IF Exists(n)
               THEN /\ names' = [names EXCEPT ![c] = @ \ {n}]
                    /\ UNCHANGED <<disk, pc, request, fd, opened, got, listed>>
               ELSE Finish(c) /\ UNCHANGED temps

EndList(c) ==
    /\ pc[c] = "lstat" /\ names[c] = {}
    /\ Goto(c, "return")
    /\ UNCHANGED <<disk, request, fd, opened, got, names, listed>>

Next ==
    \E c \in Clients :
        \/ Call(c) \/ Return(c) \/ GiveUp(c)
        \/ CreateTemp(c) \/ Copy(c) \/ Rename(c) \/ RenameFails(c) \/ RemoveTemp(c)
        \/ CreateNew(c) \/ Stat(c) \/ Write(c) \/ Delete(c)
        \/ Open(c) \/ Read(c) \/ ReadDir(c) \/ Lstat(c) \/ EndList(c)

Spec == Init /\ [][Next]_vars

-----------------------------------------------------------------------------
\* Who reads an object gets the chunks of one value and all of them, whoever
\* replaces or deletes the object meanwhile, and although puts fail half-way: only a
\* file that PutIfNotExist was still writing is anything else.
ReadsAreWhole ==
    \A c \in Clients : pc[c] = "return" /\ opened[c] \in Values => got[c] = Whole(opened[c])

\* The client that completes the file, if there is one.
Writing(f) == \E c \in Clients : pc[c] = "write" /\ fd[c] = f
Writer(f) == CHOOSE c \in Clients : pc[c] = "write" /\ fd[c] = f

objects ==
    [p \in Paths |-> IF link[p] = Missing THEN Missing
                     ELSE IF Writing(link[p]) THEN Writer(link[p]) ELSE Object(link[p])]

phase ==
    [c \in Clients |->
        CASE pc[c] = "write" -> "created"
          [] pc[c] \in {"read", "lstat", "return"} -> "effective"
          [] pc[c] \in {"idle", "refused"} -> pc[c]
          [] OTHER -> "called"]

\* What a Get returns, if the object was whole when it was opened.
reads ==
    [c \in Clients |-> IF pc[c] = "return" /\ opened[c] \in Values THEN ValueOf(got[c])
                       ELSE opened[c]]

\* What a List returns, but for temporary files.
lists == [c \in Clients |-> listed[c] \cap Paths]

\* Temporary files, renames and open files make an object store: each call that succeeds
\* takes effect at one moment, and one that fails half-way changes nothing that is seen.
\* Only List is worse: it also returns temporary files.
Objects == INSTANCE ObjectStore WITH read <- reads, listed <- lists
ImplementsObjectStore == Objects!Spec
=============================================================================
