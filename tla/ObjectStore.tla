----------------------------- MODULE ObjectStore -----------------------------
(***************************************************************************)
(* What the rest of debpub relies on when it calls a StorageBackend,       *)
(* internal/storage/storage.go: a call that succeeds has taken effect      *)
(* at one moment between its start and its end, a call that fails may have *)
(* taken effect, and an object that is read is one that was put, whole.    *)
(* Publisher and Browser take a put for one step because of this.          *)
(* PutIfNotExist promises less: it may leave an object incomplete, until   *)
(* it is done or for ever; Locker shows what comes of that.                *)
(*                                                                         *)
(* S3Backend performs one request per call and the service is, by its      *)
(* documentation, such a store; FileStore implements it with files.        *)
(***************************************************************************)
CONSTANTS
    Clients,
    Paths,
    Values,         \* what may be put
    Requests,       \* the calls: an operation, a path and a value
    Missing,        \* there is no such object
    Partial         \* an object that is incomplete for ever

VARIABLES
    objects,        \* the object at each path; while a client completes it, that client
    request, phase, \* the call of each client and how far it is
    read, listed    \* what a Get or a List is going to return

vars == <<objects, request, phase, read, listed>>

Init ==
    /\ objects = [p \in Paths |-> Missing]
    /\ request = [c \in Clients |-> Missing]
    /\ phase = [c \in Clients |-> "idle"]
    /\ read = [c \in Clients |-> Missing]
    /\ listed = [c \in Clients |-> {}]

Called(c, op) == phase[c] = "called" /\ request[c].op = op
Reach(c, ph) == phase' = [phase EXCEPT ![c] = ph]
Store(c, object) == objects' = [objects EXCEPT ![request[c].path] = object]

Call(c) ==
    /\ phase[c] = "idle"
    /\ \E r \in Requests : request' = [request EXCEPT ![c] = r]
    /\ Reach(c, "called")
    /\ UNCHANGED <<objects, read, listed>>

Put(c) ==
    /\ Called(c, "put")
    /\ Store(c, request[c].value)
    /\ Reach(c, "effective")
    /\ UNCHANGED <<request, read, listed>>

Delete(c) ==
    /\ Called(c, "delete")
    /\ Store(c, Missing)
    /\ Reach(c, "effective")
    /\ UNCHANGED <<request, read, listed>>

\* PutIfNotExist: the object is there at once, ...
Create(c) ==
    /\ Called(c, "new")
    /\ objects[request[c].path] = Missing
    /\ Store(c, c)
    /\ Reach(c, "created")
    /\ UNCHANGED <<request, read, listed>>

\* ... and complete later, unless it was replaced or deleted meanwhile.
Fill(c) ==
    /\ phase[c] = "created"
    /\ IF objects[request[c].path] = c THEN Store(c, request[c].value) ELSE UNCHANGED objects
    /\ Reach(c, "effective")
    /\ UNCHANGED <<request, read, listed>>

Refuse(c) ==
    /\ Called(c, "new")
    /\ objects[request[c].path] # Missing
    /\ Reach(c, "refused")
    /\ UNCHANGED <<objects, request, read, listed>>

Get(c) ==
    /\ Called(c, "get")
    /\ LET object == objects[request[c].path] IN
          read' = [read EXCEPT ![c] = IF object \in Clients THEN Partial ELSE object]
    /\ Reach(c, "effective")
    /\ UNCHANGED <<objects, request, listed>>

List(c) ==
    /\ Called(c, "list")
    /\ listed' = [listed EXCEPT ![c] = {p \in Paths : objects[p] # Missing}]
    /\ Reach(c, "effective")
    /\ UNCHANGED <<objects, request, read>>

End(c) ==
    /\ Reach(c, "idle")
    /\ request' = [request EXCEPT ![c] = Missing]
    /\ read' = [read EXCEPT ![c] = Missing]
    /\ listed' = [listed EXCEPT ![c] = {}]

\* Success, and ErrAlreadyExists of the call that was refused.
Return(c) ==
    /\ phase[c] \in {"effective", "refused"}
    /\ End(c) /\ UNCHANGED objects

\* Any other error is returned, or the client is killed.
Fail(c) ==
    /\ phase[c] # "idle"
    /\ objects' = [p \in Paths |-> IF objects[p] = c THEN Partial ELSE objects[p]]
    /\ End(c)

Next ==
    \E c \in Clients :
        \/ Call(c) \/ Put(c) \/ Delete(c) \/ Create(c) \/ Fill(c) \/ Refuse(c)
        \/ Get(c) \/ List(c) \/ Return(c) \/ Fail(c)

Spec == Init /\ [][Next]_vars
=============================================================================
