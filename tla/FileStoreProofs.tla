--------------------------- MODULE FileStoreProofs ---------------------------
(***************************************************************************)
(* Theorems about FileStore, for any clients, paths, values and requests,  *)
(* values of any size and any number of files.                             *)
(***************************************************************************)
EXTENDS FileStore, TLAPS

LEMMA RequestType ==
    ASSUME TypeOK, NEW c \in Clients, pc[c] # "idle"
    PROVE  /\ request[c] \in Requests /\ request[c].op \in Ops
           /\ request[c].path \in Paths /\ request[c].value \in Values
BY RequestAssumption DEF TypeOK

LEMMA AppendAt ==
    ASSUME NEW S, NEW T, NEW f \in [S -> Seq(T)], NEW x \in S, NEW v \in T
    PROVE  [f EXCEPT ![x] = Append(@, v)] \in [S -> Seq(T)]
<1>1. f[x] \in Seq(T)
  OBVIOUS
<1>2. Append(f[x], v) \in Seq(T)
  BY <1>1
<1>. QED
  BY <1>2

\* A value is what a whole file says it is.
LEMMA WholeFacts ==
    ASSUME NEW v \in Values
    PROVE  /\ Whole(v) \in Seq(Values) /\ Len(Whole(v)) = Size
           /\ \A w \in Values : Whole(w) = Whole(v) => w = v
           /\ \A s \in Seq(Values) :
                 Len(s) = Size /\ (\A k \in 1..Len(s) : s[k] = v) => s = Whole(v)
<1>1. Size \in Nat /\ 1 \in 1..Size
  BY SizeAssumption
<1>2. \A w \in Values : Whole(w) \in Seq(Values) /\ Len(Whole(w)) = Size
  BY <1>1 DEF Whole
<1>3. \A w \in Values : Whole(w)[1] = w
  BY <1>1 DEF Whole
<1>4. ASSUME NEW s \in Seq(Values), Len(s) = Size, \A k \in 1..Len(s) : s[k] = v
      PROVE  s = Whole(v)
  BY <1>4, <1>1 DEF Whole
<1>. QED
  BY <1>2, <1>3, <1>4

\* Which value some chunks are of.
LEMMA ValueFacts ==
    ASSUME NEW s
    PROVE  /\ ValueOf(s) \in Values \cup {Partial}
           /\ ValueOf(s) \in Values => s = Whole(ValueOf(s))
           /\ \A v \in Values : ValueOf(Whole(v)) = v
           /\ Len(s) # Size => ValueOf(s) = Partial
<1>1. \A v \in Values : ValueOf(Whole(v)) = v
  BY WholeFacts DEF ValueOf
<1>2. ValueOf(s) \in Values \cup {Partial}
  BY DEF ValueOf
<1>3. CASE \E v \in Values : s = Whole(v)
  BY <1>1, <1>2, <1>3, WholeFacts
<1>4. CASE ~\E v \in Values : s = Whole(v)
  <2>1. ValueOf(s) = Partial
    BY <1>4 DEF ValueOf
  <2>. QED
    BY <1>1, <2>1, ObjectAssumption
<1>. QED
  BY <1>3, <1>4

-----------------------------------------------------------------------------
\* Every variable has its type, and a file is open exactly where a call uses one.
THEOREM TypeCorrect == Spec => []TypeOK
<1>1. Init => TypeOK
  BY ObjectAssumption DEF Init, TypeOK, PCs, OpenPCs
<1>2. TypeOK /\ [Next]_vars => TypeOK'
  <2>. SUFFICES ASSUME TypeOK, [Next]_vars PROVE TypeOK'
    OBVIOUS
  <2>. USE DEF Goto, disk
  <2>1. CASE UNCHANGED vars
    BY <2>1 DEF vars, TypeOK
  <2>2. ASSUME NEW c \in Clients, Call(c) PROVE TypeOK'
    <3>1. PICK r \in Requests : request' = [request EXCEPT ![c] = r] /\ r.op \in Ops
      BY <2>2, RequestAssumption DEF Call
    <3>2. PICK l \in {"temp", "create", "delete", "open", "list"} : pc' = [pc EXCEPT ![c] = l]
      <4>1. PICK q \in Requests :
              pc' = [pc EXCEPT ![c] = CASE q.op = "put"    -> "temp"
                                        [] q.op = "new"    -> "create"
                                        [] q.op = "delete" -> "delete"
                                        [] q.op = "get"    -> "open"
                                        [] q.op = "list"   -> "list"]
        BY <2>2 DEF Call
      <4>2. q.op \in {"put", "new", "delete", "get", "list"}
        BY RequestAssumption DEF Ops
      <4>. QED
        BY <4>1, <4>2
    <3>3. r # Missing /\ pc[c] = "idle"
      BY <2>2, ObjectAssumption DEF Call
    <3>4. UNCHANGED <<kind, link, temps, data, fd, opened, got, names, listed>>
      BY <2>2 DEF Call
    <3>. QED
      BY <3>1, <3>2, <3>3, <3>4 DEF TypeOK, PCs, OpenPCs
  <2>3. ASSUME NEW c \in Clients, Finish(c), temps' \subseteq Files PROVE TypeOK'
    BY <2>3, ObjectAssumption DEF Finish, TypeOK, PCs, OpenPCs
  <2>4. ASSUME NEW c \in Clients, Return(c) \/ GiveUp(c) \/ RemoveTemp(c) PROVE TypeOK'
    BY <2>3, <2>4 DEF Return, GiveUp, RemoveTemp, TypeOK
  <2>5. ASSUME NEW c \in Clients, CreateTemp(c) PROVE TypeOK'
    BY <2>5, ObjectAssumption DEF CreateTemp, TypeOK, PCs, OpenPCs
  <2>6. ASSUME NEW c \in Clients, Copy(c) PROVE TypeOK'
    <3>1. fd[c] \in Files /\ request[c].value \in Values
      BY <2>6, RequestType DEF Copy, TypeOK, OpenPCs
    <3>2. data' \in [Files -> Seq(Values)]
      <4>1. [data EXCEPT ![fd[c]] = Append(@, request[c].value)] \in [Files -> Seq(Values)]
        BY <3>1, AppendAt DEF TypeOK
      <4>2. data' = data \/ data' = [data EXCEPT ![fd[c]] = Append(@, request[c].value)]
        BY <2>6 DEF Copy, Append1
      <4>. QED
        BY <4>1, <4>2 DEF TypeOK
    <3>3. pc' = pc \/ \E l \in {"remove", "rename"} : pc' = [pc EXCEPT ![c] = l]
      BY <2>6 DEF Copy
    <3>. QED
      BY <2>6, <3>2, <3>3 DEF Copy, TypeOK, PCs, OpenPCs
  <2>7. ASSUME NEW c \in Clients, Rename(c) PROVE TypeOK'
    <3>1. fd[c] \in Files /\ request[c].path \in Paths
      BY <2>7, RequestType DEF Rename, TypeOK, OpenPCs
    <3>2. link' \in [Paths -> Files \cup {Missing}]
      BY <2>7, <3>1 DEF Rename, Link, TypeOK
    <3>. QED
      BY <2>7, <3>2 DEF Rename, TypeOK, PCs, OpenPCs
  <2>8. ASSUME NEW c \in Clients, RenameFails(c) PROVE TypeOK'
    BY <2>8 DEF RenameFails, TypeOK, PCs, OpenPCs
  <2>9. ASSUME NEW c \in Clients, CreateNew(c) PROVE TypeOK'
    <3>1. CASE At(c) = Missing
      <4>1. PICK f \in Files :
              /\ Link(c, f)
              /\ data' = [data EXCEPT ![f] = <<>>] /\ fd' = [fd EXCEPT ![c] = f]
        BY <2>9, <3>1 DEF CreateNew
      <4>2. pc[c] = "create" /\ pc' = [pc EXCEPT ![c] = "write"]
        BY <2>9, <3>1 DEF CreateNew
      <4>3. UNCHANGED <<kind, temps, request, opened, got, names, listed>>
        BY <2>9 DEF CreateNew
      <4>4. f # Missing /\ request[c].path \in Paths
        BY <4>2, RequestType, ObjectAssumption
      <4>. QED
        BY <4>1, <4>2, <4>3, <4>4 DEF Link, TypeOK, PCs, OpenPCs
    <3>2. CASE At(c) # Missing
      BY <2>9, <3>2 DEF CreateNew, TypeOK, PCs, OpenPCs
    <3>. QED
      BY <3>1, <3>2
  <2>10. ASSUME NEW c \in Clients, Stat(c) PROVE TypeOK'
    <3>1. CASE At(c) # Missing
      BY <2>10, <3>1 DEF Stat, TypeOK, PCs, OpenPCs
    <3>2. CASE At(c) = Missing
      BY <2>10, <2>3, <3>2 DEF Stat, TypeOK
    <3>. QED
      BY <3>1, <3>2
  <2>11. ASSUME NEW c \in Clients, Write(c) PROVE TypeOK'
    <3>1. fd[c] \in Files /\ request[c].value \in Values
      BY <2>11, RequestType DEF Write, TypeOK, OpenPCs
    <3>2. data' \in [Files -> Seq(Values)]
      BY <2>11, <3>1, AppendAt DEF Write, Append1, TypeOK
    <3>3. \/ UNCHANGED <<pc, fd>>
          \/ pc' = [pc EXCEPT ![c] = "return"] /\ fd' = [fd EXCEPT ![c] = Missing]
      BY <2>11 DEF Write
    <3>. QED
      BY <2>11, <3>2, <3>3 DEF Write, TypeOK, PCs, OpenPCs
  <2>12. ASSUME NEW c \in Clients, Delete(c) PROVE TypeOK'
    BY <2>12 DEF Delete, Link, TypeOK, PCs, OpenPCs
  <2>13. ASSUME NEW c \in Clients, Open(c) PROVE TypeOK'
    <3>1. request[c].path \in Paths /\ At(c) \in Files \cup {Missing}
      BY <2>13, RequestType DEF Open, At, TypeOK
    <3>2. Object(At(c)) \in Values \cup {Partial}
      BY ValueFacts DEF Object
    <3>. HIDE DEF At
    <3>3. CASE At(c) = Missing
      BY <2>13, <3>3 DEF Open, TypeOK, PCs, OpenPCs
    <3>4. CASE At(c) # Missing
      BY <2>13, <3>1, <3>2, <3>4 DEF Open, TypeOK, PCs, OpenPCs
    <3>. QED
      BY <3>3, <3>4
  <2>14. ASSUME NEW c \in Clients, Read(c) PROVE TypeOK'
    <3>1. fd[c] \in Files
      BY <2>14 DEF Read, TypeOK, OpenPCs
    <3>2. CASE Len(got[c]) < Len(data[fd[c]])
      <4>1. got[c] \in Seq(Values) /\ data[fd[c]] \in Seq(Values)
        BY <3>1 DEF TypeOK
      <4>2. data[fd[c]][Len(got[c]) + 1] \in Values
        BY <3>2, <4>1
      <4>3. got' \in [Clients -> Seq(Values)]
        <5>1. [got EXCEPT ![c] = Append(@, data[fd[c]][Len(got[c]) + 1])] \in [Clients -> Seq(Values)]
          BY <4>2, AppendAt DEF TypeOK
        <5>2. got' = [got EXCEPT ![c] = Append(@, data[fd[c]][Len(got[c]) + 1])]
          BY <2>14, <3>2 DEF Read
        <5>. QED
          BY <5>1, <5>2
      <4>4. UNCHANGED <<kind, link, temps, data, pc, request, fd, opened, names, listed>>
        BY <2>14, <3>2 DEF Read
      <4>. QED
        BY <4>3, <4>4 DEF TypeOK
    <3>3. CASE ~(Len(got[c]) < Len(data[fd[c]]))
      BY <2>14, <3>3 DEF Read, TypeOK, PCs, OpenPCs
    <3>. QED
      BY <3>2, <3>3
  <2>15. ASSUME NEW c \in Clients, ReadDir(c) PROVE TypeOK'
    <3>1. listed' \in [Clients -> SUBSET (Paths \cup Files)]
      BY <2>15 DEF ReadDir, TypeOK
    <3>2. names' \in [Clients -> SUBSET (Paths \cup Files)]
      BY <2>15, <3>1 DEF ReadDir, TypeOK
    <3>. QED
      BY <2>15, <3>1, <3>2 DEF ReadDir, TypeOK, PCs, OpenPCs
  <2>16. ASSUME NEW c \in Clients, Lstat(c) PROVE TypeOK'
    <3>1. CASE Finish(c) /\ UNCHANGED temps
      BY <3>1, <2>3 DEF TypeOK
    <3>2. CASE ~(Finish(c) /\ UNCHANGED temps)
      <4>1. PICK n \in names[c] : names' = [names EXCEPT ![c] = @ \ {n}]
        BY <2>16, <3>2 DEF Lstat
      <4>2. UNCHANGED <<kind, link, temps, data, pc, request, fd, opened, got, listed>>
        BY <2>16, <3>2 DEF Lstat
      <4>. QED
        BY <4>1, <4>2 DEF TypeOK
    <3>. QED
      BY <3>1, <3>2
  <2>17. ASSUME NEW c \in Clients, EndList(c) PROVE TypeOK'
    BY <2>17 DEF EndList, TypeOK, PCs, OpenPCs
  <2>. QED
    BY <2>1, <2>2, <2>4, <2>5, <2>6, <2>7, <2>8, <2>9, <2>10, <2>11, <2>12, <2>13,
       <2>14, <2>15, <2>16, <2>17 DEF Next
<1>. QED
  BY <1>1, <1>2, PTL DEF Spec

-----------------------------------------------------------------------------
AllAre(s, v) == \A k \in 1..Len(s) : s[k] = v

LEMMA AllAreFacts ==
    ASSUME NEW s \in Seq(Values), NEW v \in Values
    PROVE  /\ AllAre(<<>>, v)
           /\ AllAre(s, v) => AllAre(Append(s, v), v)
           /\ Len(Append(s, v)) = Len(s) + 1 /\ Len(s) \in Nat
           /\ AllAre(s, v) /\ Len(s) = Size => s = Whole(v)
           /\ AllAre(Whole(v), v) /\ Len(Whole(v)) = Size
<1>1. Size \in Nat
  BY SizeAssumption
<1>2. AllAre(<<>>, v)
  BY DEF AllAre
<1>3. Len(Append(s, v)) = Len(s) + 1 /\ Len(s) \in Nat
  OBVIOUS
<1>4. AllAre(s, v) => AllAre(Append(s, v), v)
  BY <1>3 DEF AllAre
<1>5. AllAre(s, v) /\ Len(s) = Size => s = Whole(v)
  BY WholeFacts DEF AllAre
<1>6. AllAre(Whole(v), v) /\ Len(Whole(v)) = Size
  BY <1>1 DEF AllAre, Whole
<1>. QED
  BY <1>2, <1>3, <1>4, <1>5, <1>6

\* A file has one name at most, and none of an object if it is temporary.
LinkInv ==
    /\ \A p, q \in Paths : link[p] = link[q] /\ link[p] # Missing => p = q
    /\ \A p \in Paths : link[p] \notin temps

\* Which calls are where.
CallInv == \A c \in Clients :
    /\ pc[c] \in {"temp", "copy", "rename", "fallback", "remove"} => request[c].op = "put"
    /\ pc[c] \in {"create", "stat", "write", "refused"} => request[c].op = "new"
    /\ pc[c] = "delete" => request[c].op = "delete"
    /\ pc[c] \in {"open", "read"} => request[c].op = "get"
    /\ pc[c] \in {"list", "lstat"} => request[c].op = "list"

Putting == {"copy", "rename", "fallback", "remove"}

\* Each file that is written has one writer, and so far it has only chunks of its value.
\* That of a Put is temporary, and whole before it gets its name; that of a
\* PutIfNotExist has that name already, or none if it was replaced or deleted.
WriteInv ==
    /\ \A c \in Clients : pc[c] \in Putting \cup {"write"} =>
          /\ Len(data[fd[c]]) <= Size
          /\ AllAre(data[fd[c]], request[c].value)
          /\ \A d \in Clients : d # c /\ pc[d] \in Putting \cup {"write"} => fd[d] # fd[c]
    /\ \A c \in Clients : pc[c] \in Putting => fd[c] \in temps
    /\ \A c \in Clients : pc[c] \in {"rename", "fallback"} => Len(data[fd[c]]) = Size
    /\ \A c \in Clients : pc[c] = "write" =>
          /\ Len(data[fd[c]]) < Size
          /\ fd[c] \notin temps
          /\ \A p \in Paths : link[p] = fd[c] => p = request[c].path

\* A file that was whole when it was opened is still as it was, and what has been read
\* of it is of its value.
ReadInv == \A c \in Clients :
    /\ pc[c] = "read" =>
          /\ fd[c] \notin temps
          /\ opened[c] \in Values =>
                /\ data[fd[c]] = Whole(opened[c])
                /\ Len(got[c]) <= Size /\ AllAre(got[c], opened[c])
    /\ pc[c] = "return" /\ opened[c] \in Values => got[c] = Whole(opened[c])
    /\ pc[c] \notin {"read", "return"} => opened[c] = Missing /\ got[c] = <<>>
    /\ pc[c] \notin {"lstat", "return"} => listed[c] = {}

FileInv == TypeOK /\ LinkInv /\ CallInv /\ WriteInv /\ ReadInv

LEMMA DataType ==
    ASSUME TypeOK
    PROVE  /\ Size \in Nat \ {0} /\ Missing \notin Values /\ Missing \notin Files
           /\ \A f \in Files : data[f] \in Seq(Values) /\ Len(data[f]) \in Nat
           /\ \A c \in Clients : pc[c] \in OpenPCs => fd[c] \in Files
           /\ \A c \in Clients : pc[c] # "idle" =>
                 /\ request[c] \in Requests
                 /\ request[c].path \in Paths /\ request[c].value \in Values
<1>1. \A f \in Files : data[f] \in Seq(Values)
  BY DEF TypeOK
<1>2. \A s \in Seq(Values) : Len(s) \in Nat
  OBVIOUS
<1>3. \A c \in Clients : pc[c] \in OpenPCs => fd[c] \in Files
  BY DEF TypeOK
<1>. QED
  BY <1>1, <1>2, <1>3, RequestType, SizeAssumption, ObjectAssumption

\* The calls that begin, end, or only go on to another step.
LEMMA CallStep ==
    ASSUME FileInv, NEW c \in Clients, Call(c)
    PROVE  LinkInv' /\ CallInv' /\ WriteInv' /\ ReadInv'
<1>1. PICK r \in Requests :
        /\ request' = [request EXCEPT ![c] = r]
        /\ pc' = [pc EXCEPT ![c] = CASE r.op = "put"    -> "temp"
                                     [] r.op = "new"    -> "create"
                                     [] r.op = "delete" -> "delete"
                                     [] r.op = "get"    -> "open"
                                     [] r.op = "list"   -> "list"]
  BY DEF Call, Goto
<1>2. r.op \in {"put", "new", "delete", "get", "list"}
  BY RequestAssumption DEF Ops
<1>3. PICK l \in {"temp", "create", "delete", "open", "list"} :
        /\ pc' = [pc EXCEPT ![c] = l]
        /\ r.op = CASE l = "temp"   -> "put"
                    [] l = "create" -> "new"
                    [] l = "delete" -> "delete"
                    [] l = "open"   -> "get"
                    [] l = "list"   -> "list"
  BY <1>1, <1>2
<1>4. pc[c] = "idle" /\ UNCHANGED <<kind, link, temps, data, fd, opened, got, names, listed>>
  BY DEF Call, disk
<1>5. pc'[c] = l /\ request'[c] = r
      /\ \A d \in Clients : d # c => pc'[d] = pc[d] /\ request'[d] = request[d]
  BY <1>1, <1>3 DEF FileInv, TypeOK
<1>6. LinkInv'
  BY <1>4 DEF FileInv, LinkInv
<1>7. CallInv'
  BY <1>3, <1>5 DEF FileInv, CallInv
<1>8. WriteInv'
  BY <1>4, <1>5 DEF FileInv, WriteInv, Putting
<1>9. ReadInv'
  BY <1>4, <1>5 DEF FileInv, ReadInv
<1>. QED
  BY <1>6, <1>7, <1>8, <1>9

LEMMA FinishStep ==
    ASSUME FileInv, NEW c \in Clients, Finish(c), temps' \subseteq temps,
           \A d \in Clients : d # c /\ pc[d] \in Putting => (fd[d] \in temps') 
    PROVE  LinkInv' /\ CallInv' /\ WriteInv' /\ ReadInv'
<1>1. UNCHANGED <<kind, link, data>> /\ pc'[c] = "idle"
      /\ opened'[c] = Missing /\ got'[c] = <<>> /\ listed'[c] = {}
      /\ \A d \in Clients : d # c =>
            /\ pc'[d] = pc[d] /\ request'[d] = request[d] /\ fd'[d] = fd[d]
            /\ opened'[d] = opened[d] /\ got'[d] = got[d] /\ listed'[d] = listed[d]
  BY DEF FileInv, TypeOK, Finish, Goto
<1>2. LinkInv'
  BY <1>1 DEF FileInv, LinkInv
<1>3. CallInv'
  BY <1>1 DEF FileInv, CallInv
<1>4. WriteInv'
  BY <1>1 DEF FileInv, WriteInv, Putting
<1>5. ReadInv'
  BY <1>1 DEF FileInv, ReadInv
<1>. QED
  BY <1>2, <1>3, <1>4, <1>5

\* What a step of one call may change of the others' is nothing but the disk.
Others(c) ==
    \A d \in Clients : d # c =>
        /\ pc'[d] = pc[d] /\ request'[d] = request[d] /\ fd'[d] = fd[d]
        /\ opened'[d] = opened[d] /\ got'[d] = got[d] /\ listed'[d] = listed[d]

\* The steps of Put.
LEMMA PutStep ==
    ASSUME FileInv, TypeOK', NEW c \in Clients,
           CreateTemp(c) \/ Copy(c) \/ Rename(c) \/ RenameFails(c)
    PROVE  LinkInv' /\ CallInv' /\ WriteInv' /\ ReadInv'
<1>. USE DataType, AllAreFacts DEF Goto
<1>1. CASE CreateTemp(c)
  <2>1. PICK f \in Files :
          /\ Free(f)
          /\ temps' = temps \cup {f}
          /\ data' = [data EXCEPT ![f] = <<>>]
          /\ fd' = [fd EXCEPT ![c] = f]
    BY <1>1 DEF CreateTemp
  <2>2. pc[c] = "temp" /\ pc'[c] = "copy" /\ fd'[c] = f /\ request'[c] = request[c]
        /\ opened'[c] = opened[c] /\ got'[c] = got[c] /\ listed'[c] = listed[c]
        /\ link' = link /\ Others(c)
    BY <1>1, <2>1 DEF CreateTemp, FileInv, TypeOK, Others
  <2>3. /\ \A p \in Paths : link[p] # f
        /\ \A d \in Clients : fd[d] # f
        /\ f \notin temps
    BY <2>1 DEF Free, Linked
  <2>4. data'[f] = <<>> /\ \A g \in Files : g # f => data'[g] = data[g]
    BY <2>1 DEF FileInv, TypeOK
  <2>5. Len(data'[f]) <= Size /\ AllAre(data'[f], request[c].value)
    BY <2>2, <2>4, SizeAssumption DEF FileInv
  <2>6. LinkInv'
    BY <2>1, <2>2, <2>3 DEF FileInv, LinkInv
  <2>7. CallInv'
    BY <2>2 DEF FileInv, CallInv, Others
  <2>8. WriteInv'
    <3>1. ASSUME NEW d \in Clients, d # c, pc[d] \in Putting \cup {"write", "read"}
          PROVE  fd[d] \in Files /\ fd'[d] = fd[d] /\ data'[fd'[d]] = data[fd[d]]
      BY <3>1, <2>2, <2>3, <2>4 DEF FileInv, Others, Putting, OpenPCs
    <3>. QED
      <4>1. ASSUME NEW d \in Clients, pc'[d] \in Putting \cup {"write"}
            PROVE  /\ Len(data'[fd'[d]]) <= Size
                   /\ AllAre(data'[fd'[d]], request'[d].value)
                   /\ \A e \in Clients :
                         e # d /\ pc'[e] \in Putting \cup {"write"} => fd'[e] # fd'[d]
        <5>1. CASE d = c
          BY <5>1, <2>2, <2>3, <2>5 DEF Others
        <5>2. CASE d # c
          <6>1. /\ pc[d] \in Putting \cup {"write"} /\ fd'[d] = fd[d] /\ request'[d] = request[d]
                /\ data'[fd'[d]] = data[fd[d]]
            BY <4>1, <5>2, <3>1, <2>2 DEF Others
          <6>2. Len(data'[fd'[d]]) <= Size /\ AllAre(data'[fd'[d]], request'[d].value)
            BY <6>1 DEF FileInv, WriteInv
          <6>3. ASSUME NEW e \in Clients, e # d, pc'[e] \in Putting \cup {"write"}
                PROVE  fd'[e] # fd'[d]
            <7>1. CASE e = c
              BY <7>1, <6>1, <2>2, <2>3
            <7>2. CASE e # c
              BY <7>2, <6>1, <6>3, <2>2 DEF FileInv, WriteInv, Others
            <7>. QED
              BY <7>1, <7>2
          <6>. QED
            BY <6>2, <6>3
        <5>. QED
          BY <5>1, <5>2
      <4>2. ASSUME NEW d \in Clients
            PROVE  /\ pc'[d] \in Putting => fd'[d] \in temps'
                   /\ pc'[d] \in {"rename", "fallback"} => Len(data'[fd'[d]]) = Size
                   /\ pc'[d] = "write" =>
                         /\ Len(data'[fd'[d]]) < Size /\ fd'[d] \notin temps'
                         /\ \A p \in Paths : link'[p] = fd'[d] => p = request'[d].path
        <5>1. CASE d = c
          BY <5>1, <2>1, <2>2
        <5>2. CASE d # c
          BY <5>2, <3>1, <2>1, <2>2, <2>3 DEF FileInv, WriteInv, Others, Putting
        <5>. QED
          BY <5>1, <5>2
      <4>. QED
        BY <4>1, <4>2 DEF WriteInv
  <2>9. ReadInv'
    <3>1. ASSUME NEW d \in Clients, pc[d] = "read"
          PROVE  fd[d] \in Files /\ fd[d] # f /\ data'[fd[d]] = data[fd[d]]
      BY <3>1, <2>3, <2>4 DEF FileInv, OpenPCs
    <3>. QED
      BY <3>1, <2>1, <2>2 DEF FileInv, ReadInv, Others
  <2>. QED
    BY <2>6, <2>7, <2>8, <2>9
<1>2. CASE Copy(c)
  <2>1. /\ pc[c] = "copy" /\ pc'[c] \in {"copy", "remove", "rename"}
        /\ pc'[c] = "rename" => Len(data[fd[c]]) = Size /\ data' = data
        /\ fd' = fd /\ request' = request /\ temps' = temps /\ link' = link
        /\ opened' = opened /\ got' = got /\ listed' = listed /\ Others(c)
    BY <1>2 DEF Copy, FileInv, TypeOK, WriteInv, Others, OpenPCs, Putting
  <2>2. /\ fd[c] \in Files /\ fd[c] \in temps
        /\ \A d \in Clients : d # c /\ pc[d] \in Putting \cup {"write"} => fd[d] # fd[c]
    BY <2>1 DEF FileInv, WriteInv, Putting, OpenPCs
  <2>3. /\ Len(data'[fd[c]]) <= Size /\ AllAre(data'[fd[c]], request[c].value)
        /\ \A g \in Files : g # fd[c] => data'[g] = data[g]
    <3>1. CASE UNCHANGED data
      BY <3>1, <2>1 DEF FileInv, WriteInv, Putting
    <3>2. CASE Len(data[fd[c]]) < Size /\ Append1(c)
      <4>1. data'[fd[c]] = Append(data[fd[c]], request[c].value)
            /\ \A g \in Files : g # fd[c] => data'[g] = data[g]
        BY <3>2, <2>2 DEF Append1, FileInv, TypeOK
      <4>2. AllAre(data[fd[c]], request[c].value) /\ request[c].value \in Values
            /\ data[fd[c]] \in Seq(Values) /\ Len(data[fd[c]]) \in Nat
        BY <2>1, <2>2 DEF FileInv, WriteInv, Putting
      <4>3. Len(data'[fd[c]]) = Len(data[fd[c]]) + 1 /\ AllAre(data'[fd[c]], request[c].value)
        BY <4>1, <4>2, AllAreFacts
      <4>4. Size \in Nat
        BY SizeAssumption
      <4>. QED
        BY <3>2, <4>1, <4>2, <4>3, <4>4
    <3>. QED
      BY <1>2, <3>1, <3>2 DEF Copy
  <2>4. LinkInv' /\ CallInv'
    BY <2>1 DEF FileInv, LinkInv, CallInv, Others
  <2>5. WriteInv'
    <3>1. ASSUME NEW d \in Clients, d # c, pc[d] \in Putting \cup {"write"}
          PROVE  data'[fd[d]] = data[fd[d]]
      BY <3>1, <2>2, <2>3 DEF FileInv, OpenPCs, Putting
    <3>. QED
      BY <3>1, <2>1, <2>2, <2>3 DEF FileInv, WriteInv, Putting, Others
  <2>6. ReadInv'
    <3>1. ASSUME NEW d \in Clients, pc[d] = "read" PROVE data'[fd[d]] = data[fd[d]]
      BY <3>1, <2>2, <2>3 DEF FileInv, ReadInv, OpenPCs
    <3>. QED
      BY <3>1, <2>1 DEF FileInv, ReadInv, Others
  <2>. QED
    BY <2>4, <2>5, <2>6
<1>3. CASE Rename(c)
  <2>1. /\ pc[c] \in {"rename", "fallback"} /\ pc'[c] = "return" /\ temps' = temps \ {fd[c]}
        /\ request' = request /\ data' = data /\ opened' = opened /\ got' = got
        /\ listed' = listed /\ Others(c)
    BY <1>3 DEF Rename, FileInv, TypeOK, Others
  <2>2. /\ fd[c] \in temps /\ fd[c] \in Files /\ opened[c] = Missing /\ got[c] = <<>>
        /\ \A d \in Clients : d # c /\ pc[d] \in Putting \cup {"write"} => fd[d] # fd[c]
        /\ \A p \in Paths : link[p] # fd[c]
    BY <2>1 DEF FileInv, WriteInv, ReadInv, LinkInv, Putting, OpenPCs
  <2>3. link' = [link EXCEPT ![request[c].path] = fd[c]] /\ request[c].path \in Paths
    BY <1>3, <2>1 DEF Rename, Link, FileInv
  <2>4. link'[request[c].path] = fd[c]
        /\ \A p \in Paths : p # request[c].path => link'[p] = link[p]
    BY <2>3 DEF FileInv, TypeOK
  <2>5. LinkInv'
    BY <2>1, <2>2, <2>4 DEF FileInv, LinkInv
  <2>6. CallInv'
    BY <2>1 DEF FileInv, CallInv, Others
  <2>7. WriteInv'
    BY <2>1, <2>2, <2>4 DEF FileInv, WriteInv, Putting, Others
  <2>8. ReadInv'
    BY <2>1, <2>2 DEF FileInv, ReadInv, Others
  <2>. QED
    BY <2>5, <2>6, <2>7, <2>8
<1>4. CASE RenameFails(c)
  <2>1. /\ \/ pc[c] = "rename" /\ pc'[c] \in {"remove", "fallback"}
           \/ pc[c] = "fallback" /\ pc'[c] = "remove"
        /\ UNCHANGED <<kind, link, temps, data, request, fd, opened, got, names, listed>>
        /\ Others(c)
    BY <1>4 DEF RenameFails, FileInv, TypeOK, Others, disk
  <2>2. LinkInv' /\ CallInv'
    BY <2>1 DEF FileInv, LinkInv, CallInv, Others
  <2>3. WriteInv' /\ ReadInv'
    BY <2>1 DEF FileInv, WriteInv, ReadInv, Putting, Others
  <2>. QED
    BY <2>2, <2>3
<1>. QED
  BY <1>1, <1>2, <1>3, <1>4

\* The steps of PutIfNotExist that do not end it, and of Delete.
LEMMA NewStep ==
    ASSUME FileInv, TypeOK', NEW c \in Clients,
           CreateNew(c) \/ Write(c) \/ Delete(c) \/ (Stat(c) /\ At(c) # Missing)
    PROVE  LinkInv' /\ CallInv' /\ WriteInv' /\ ReadInv'
<1>. USE DEF Goto
<1>1. CASE CreateNew(c) /\ At(c) = Missing
  <2>1. PICK f \in Files :
          /\ Free(f) /\ Link(c, f)
          /\ data' = [data EXCEPT ![f] = <<>>]
          /\ fd' = [fd EXCEPT ![c] = f]
    BY <1>1 DEF CreateNew
  <2>2. pc[c] = "create" /\ pc'[c] = "write" /\ fd'[c] = f /\ request' = request
        /\ opened' = opened /\ got' = got /\ listed' = listed
        /\ temps' = temps /\ Others(c)
    BY <1>1, <2>1 DEF CreateNew, FileInv, TypeOK, Others
  <2>3. /\ \A p \in Paths : link[p] # f
        /\ \A d \in Clients : fd[d] # f
        /\ f \notin temps /\ f # Missing
    BY <2>1, DataType DEF Free, Linked, FileInv
  <2>4. data'[f] = <<>> /\ \A g \in Files : g # f => data'[g] = data[g]
    BY <2>1 DEF FileInv, TypeOK
  <2>5. request[c].path \in Paths /\ link'[request[c].path] = f
        /\ \A p \in Paths : p # request[c].path => link'[p] = link[p]
    BY <2>1, <2>2, DataType DEF Link, FileInv, TypeOK
  <2>6. 0 < Size /\ Len(data'[f]) = 0 /\ Len(data'[f]) <= Size /\ AllAre(data'[f], request[c].value)
    BY <2>2, <2>4, DataType, AllAreFacts, SizeAssumption DEF FileInv
  <2>7. LinkInv'
    BY <2>2, <2>3, <2>5 DEF FileInv, LinkInv
  <2>8. CallInv'
    BY <2>2 DEF FileInv, CallInv, Others
  <2>9. ASSUME NEW d \in Clients, d # c, pc[d] \in Putting \cup {"write", "read"}
        PROVE  fd[d] \in Files /\ fd'[d] = fd[d] /\ data'[fd'[d]] = data[fd[d]]
    BY <2>9, <2>2, <2>3, <2>4, DataType DEF FileInv, Others, Putting, OpenPCs
  <2>10. WriteInv'
    <3>1. ASSUME NEW d \in Clients, pc'[d] \in Putting \cup {"write"}
          PROVE  /\ Len(data'[fd'[d]]) <= Size
                 /\ AllAre(data'[fd'[d]], request'[d].value)
                 /\ \A e \in Clients :
                       e # d /\ pc'[e] \in Putting \cup {"write"} => fd'[e] # fd'[d]
      <4>1. CASE d = c
        BY <4>1, <2>2, <2>3, <2>6 DEF Others
      <4>2. CASE d # c
        <5>1. /\ pc[d] \in Putting \cup {"write"} /\ fd'[d] = fd[d] /\ request'[d] = request[d]
              /\ data'[fd'[d]] = data[fd[d]]
          BY <3>1, <4>2, <2>9, <2>2 DEF Others
        <5>2. Len(data'[fd'[d]]) <= Size /\ AllAre(data'[fd'[d]], request'[d].value)
          BY <5>1 DEF FileInv, WriteInv
        <5>3. ASSUME NEW e \in Clients, e # d, pc'[e] \in Putting \cup {"write"}
              PROVE  fd'[e] # fd'[d]
          <6>1. CASE e = c
            BY <6>1, <5>1, <2>2, <2>3
          <6>2. CASE e # c
            BY <6>2, <5>1, <5>3, <2>2 DEF FileInv, WriteInv, Others
          <6>. QED
            BY <6>1, <6>2
        <5>. QED
          BY <5>2, <5>3
      <4>. QED
        BY <4>1, <4>2
    <3>2. ASSUME NEW d \in Clients
          PROVE  /\ pc'[d] \in Putting => fd'[d] \in temps'
                 /\ pc'[d] \in {"rename", "fallback"} => Len(data'[fd'[d]]) = Size
                 /\ pc'[d] = "write" =>
                       /\ Len(data'[fd'[d]]) < Size /\ fd'[d] \notin temps'
                       /\ \A p \in Paths : link'[p] = fd'[d] => p = request'[d].path
      <4>1. CASE d = c
        BY <4>1, <2>2, <2>3, <2>5, <2>6 DEF Putting
      <4>2. CASE d # c
        BY <4>2, <2>9, <2>2, <2>3, <2>5 DEF FileInv, WriteInv, Others, Putting
      <4>. QED
        BY <4>1, <4>2
    <3>. QED
      BY <3>1, <3>2 DEF WriteInv
  <2>11. ReadInv'
    BY <2>2, <2>9 DEF FileInv, ReadInv, Others
  <2>. QED
    BY <2>7, <2>8, <2>10, <2>11
<1>2. CASE \/ CreateNew(c) /\ At(c) # Missing
           \/ Stat(c) /\ At(c) # Missing
  <2>1. /\ pc[c] \in {"create", "stat"} /\ pc'[c] \in {"refused", "stat"}
        /\ UNCHANGED <<link, temps, data, request, fd, opened, got, listed>> /\ Others(c)
    BY <1>2 DEF CreateNew, Stat, FileInv, TypeOK, Others, disk
  <2>2. LinkInv' /\ CallInv'
    BY <2>1 DEF FileInv, LinkInv, CallInv, Others
  <2>3. WriteInv' /\ ReadInv'
    BY <2>1 DEF FileInv, WriteInv, ReadInv, Putting, Others
  <2>. QED
    BY <2>2, <2>3
<1>3. CASE Write(c)
  <2>1. /\ pc[c] = "write"
        /\ UNCHANGED <<link, temps, request, opened, got, listed>> /\ Others(c)
    BY <1>3 DEF Write, FileInv, TypeOK, Others
  <2>2. /\ fd[c] \in Files /\ fd[c] \notin temps /\ Len(data[fd[c]]) < Size
        /\ data[fd[c]] \in Seq(Values) /\ Len(data[fd[c]]) \in Nat
        /\ request[c].value \in Values /\ AllAre(data[fd[c]], request[c].value)
        /\ opened[c] = Missing /\ got[c] = <<>> /\ listed[c] = {}
        /\ \A d \in Clients : d # c /\ pc[d] \in Putting \cup {"write"} => fd[d] # fd[c]
    BY <2>1, DataType DEF FileInv, WriteInv, ReadInv, Putting, OpenPCs
  <2>3. data'[fd[c]] = Append(data[fd[c]], request[c].value)
        /\ \A g \in Files : g # fd[c] => data'[g] = data[g]
    BY <1>3, <2>2 DEF Write, Append1, FileInv, TypeOK
  <2>4. AllAre(data'[fd[c]], request[c].value) /\ Len(data'[fd[c]]) = Len(data[fd[c]]) + 1
    BY <2>2, <2>3, AllAreFacts
  <2>5. \/ pc'[c] = "write" /\ fd'[c] = fd[c] /\ Len(data[fd[c]]) + 1 < Size
        \/ pc'[c] = "return" /\ fd'[c] = Missing
    BY <1>3 DEF Write, FileInv, TypeOK
  <2>6. Len(data'[fd[c]]) <= Size
    BY <2>2, <2>4, SizeAssumption
  <2>7. LinkInv' /\ CallInv'
    BY <2>1, <2>5 DEF FileInv, LinkInv, CallInv, Others
  <2>8. WriteInv'
    <3>1. ASSUME NEW d \in Clients, d # c, pc[d] \in Putting \cup {"write"}
          PROVE  data'[fd[d]] = data[fd[d]]
      BY <3>1, <2>2, <2>3, DataType DEF FileInv, OpenPCs, Putting
    <3>. QED
      BY <3>1, <2>1, <2>2, <2>4, <2>5, <2>6 DEF FileInv, WriteInv, Putting, Others
  <2>9. ReadInv'
    <3>1. ASSUME NEW d \in Clients, pc[d] = "read", opened[d] \in Values
          PROVE  data'[fd[d]] = data[fd[d]]
      <4>1. Len(data[fd[d]]) = Size /\ fd[d] \in Files
        BY <3>1, WholeFacts, DataType DEF FileInv, ReadInv, OpenPCs
      <4>. QED
        BY <4>1, <2>2, <2>3
    <3>. QED
      BY <3>1, <2>1, <2>2, <2>5, DataType DEF FileInv, ReadInv, Others
  <2>. QED
    BY <2>7, <2>8, <2>9
<1>4. CASE Delete(c)
  <2>1. /\ pc[c] = "delete" /\ pc'[c] = "return"
        /\ UNCHANGED <<temps, data, request, fd, opened, got, listed>> /\ Others(c)
    BY <1>4 DEF Delete, FileInv, TypeOK, Others
  <2>2. \A p \in Paths : link'[p] \in {link[p], Missing}
    BY <1>4 DEF Delete, Link, FileInv, TypeOK
  <2>3. Missing \notin temps /\ \A d \in Clients : pc[d] = "write" => fd[d] # Missing
    BY DataType DEF FileInv, TypeOK, OpenPCs
  <2>4. LinkInv' /\ CallInv'
    BY <2>1, <2>2, <2>3 DEF FileInv, LinkInv, CallInv, Others
  <2>5. WriteInv'
    BY <2>1, <2>2, <2>3 DEF FileInv, WriteInv, Putting, Others
  <2>6. ReadInv'
    BY <2>1, DataType DEF FileInv, ReadInv, Others
  <2>. QED
    BY <2>4, <2>5, <2>6
<1>. QED
  BY <1>1, <1>2, <1>3, <1>4

\* The steps of Get and List that do not end them.
LEMMA ReadStep ==
    ASSUME FileInv, TypeOK', NEW c \in Clients,
           \/ Open(c) \/ Read(c) \/ ReadDir(c) \/ EndList(c)
           \/ Lstat(c) /\ ~Finish(c)
    PROVE  LinkInv' /\ CallInv' /\ WriteInv' /\ ReadInv'
<1>. USE DEF Goto
<1>1. CASE Open(c)
  <2>1. /\ pc[c] = "open" /\ pc'[c] \in {"return", "read"} /\ fd'[c] = At(c)
        /\ opened'[c] = IF At(c) = Missing THEN Missing ELSE Object(At(c))
        /\ pc'[c] = "read" <=> At(c) # Missing
        /\ UNCHANGED <<link, temps, data, request, got, listed>> /\ Others(c)
    BY <1>1 DEF Open, FileInv, TypeOK, Others, disk
  <2>2. At(c) \notin temps /\ (At(c) # Missing => At(c) \in Files)
    BY <2>1, DataType DEF FileInv, LinkInv, At, TypeOK
  <2>3. got[c] = <<>> /\ listed[c] = {}
    BY <2>1 DEF FileInv, ReadInv
  <2>4. ASSUME At(c) # Missing, opened'[c] \in Values
        PROVE  data[At(c)] = Whole(opened'[c])
               /\ Len(got[c]) <= Size /\ AllAre(got[c], opened'[c])
    <3>1. Len(got[c]) <= Size
      BY <2>3, SizeAssumption
    <3>2. AllAre(got[c], opened'[c])
      BY <2>3, <2>4, AllAreFacts DEF AllAre
    <3>. QED
      BY <3>1, <3>2, <2>1, <2>2, <2>4, ValueFacts DEF Object
  <2>5. LinkInv' /\ CallInv'
    BY <2>1 DEF FileInv, LinkInv, CallInv, Others
  <2>6. WriteInv'
    BY <2>1 DEF FileInv, WriteInv, Putting, Others
  <2>7. ReadInv'
    BY <2>1, <2>2, <2>3, <2>4, DataType DEF FileInv, ReadInv, Others
  <2>. QED
    BY <2>5, <2>6, <2>7
<1>2. CASE Read(c)
  <2>1. /\ pc[c] = "read" /\ pc'[c] \in {"return", "read"}
        /\ pc'[c] = "read" => fd'[c] = fd[c]
        /\ UNCHANGED <<link, temps, data, request, opened, listed>> /\ Others(c)
    BY <1>2 DEF Read, FileInv, TypeOK, Others, disk
  <2>2. fd[c] \in Files /\ data[fd[c]] \in Seq(Values) /\ got[c] \in Seq(Values)
    BY <2>1, DataType DEF FileInv, TypeOK, OpenPCs
  <2>3. ASSUME opened[c] \in Values
        PROVE  /\ pc'[c] = "read" => Len(got'[c]) <= Size /\ AllAre(got'[c], opened[c])
               /\ pc'[c] = "return" => got'[c] = Whole(opened[c])
    <3>1. data[fd[c]] = Whole(opened[c]) /\ Len(got[c]) <= Size /\ AllAre(got[c], opened[c])
      BY <2>1, <2>3 DEF FileInv, ReadInv
    <3>2. Len(data[fd[c]]) = Size /\ \A k \in 1..Size : data[fd[c]][k] = opened[c]
      <4>1. Len(Whole(opened[c])) = Size
        BY <2>3, WholeFacts
      <4>. QED
        BY <4>1, <3>1 DEF Whole
    <3>3. CASE Len(got[c]) < Size
      <4>1. got'[c] = Append(got[c], opened[c]) /\ pc'[c] = "read"
        <5>1. Len(got[c]) + 1 \in 1..Size
          BY <3>3, <2>2, SizeAssumption
        <5>. QED
          BY <1>2, <3>2, <3>3, <2>1, <5>1 DEF Read, FileInv, TypeOK
      <4>2. AllAre(got'[c], opened[c]) /\ Len(got'[c]) = Len(got[c]) + 1 /\ Len(got[c]) \in Nat
        BY <4>1, <3>1, <2>2, <2>3, AllAreFacts
      <4>. QED
        BY <4>1, <4>2, <3>3, SizeAssumption
    <3>4. CASE Len(got[c]) = Size
      <4>1. got'[c] = got[c] /\ pc'[c] = "return"
        BY <1>2, <3>2, <3>4, SizeAssumption DEF Read, FileInv, TypeOK
      <4>. QED
        BY <4>1, <3>1, <3>4, <2>2, <2>3, AllAreFacts
    <3>. QED
      BY <3>1, <3>3, <3>4, <2>2, SizeAssumption
  <2>4. LinkInv' /\ CallInv'
    BY <2>1 DEF FileInv, LinkInv, CallInv, Others
  <2>5. WriteInv'
    BY <2>1 DEF FileInv, WriteInv, Putting, Others
  <2>6. ReadInv'
    BY <2>1, <2>3 DEF FileInv, ReadInv, Others
  <2>. QED
    BY <2>4, <2>5, <2>6
<1>3. CASE ReadDir(c) \/ EndList(c) \/ (Lstat(c) /\ ~Finish(c))
  <2>1. /\ pc[c] \in {"list", "lstat"} /\ pc'[c] \in {"lstat", "return"}
        /\ UNCHANGED <<link, temps, data, request, fd, opened, got>> /\ Others(c)
    BY <1>3 DEF ReadDir, EndList, Lstat, FileInv, TypeOK, Others, disk
  <2>2. LinkInv' /\ CallInv'
    BY <2>1 DEF FileInv, LinkInv, CallInv, Others
  <2>3. WriteInv'
    BY <2>1 DEF FileInv, WriteInv, Putting, Others
  <2>4. opened[c] = Missing /\ got[c] = <<>>
    BY <2>1 DEF FileInv, ReadInv
  <2>5. ReadInv'
    BY <2>1, <2>4, DataType DEF FileInv, ReadInv, Others
  <2>. QED
    BY <2>2, <2>3, <2>5
<1>. QED
  BY <1>1, <1>2, <1>3

LEMMA FileInvariant == Spec => []FileInv
<1>1. Init => FileInv
  <2>. SUFFICES ASSUME Init PROVE FileInv
    OBVIOUS
  <2>1. TypeOK
    BY ObjectAssumption DEF Init, TypeOK, PCs, OpenPCs
  <2>. QED
    BY <2>1 DEF Init, FileInv, LinkInv, CallInv, WriteInv, ReadInv, Putting
<1>2. FileInv /\ TypeOK' /\ [Next]_vars => FileInv'
  <2>. SUFFICES ASSUME FileInv, TypeOK', [Next]_vars PROVE FileInv'
    OBVIOUS
  <2>1. CASE UNCHANGED vars
    BY <2>1 DEF vars, disk, FileInv, LinkInv, CallInv, WriteInv, ReadInv
  <2>2. ASSUME NEW c \in Clients, Call(c) PROVE FileInv'
    BY <2>2, CallStep DEF FileInv
  <2>3. ASSUME NEW c \in Clients, Finish(c) /\ UNCHANGED temps PROVE FileInv'
    <3>1. \A d \in Clients : d # c /\ pc[d] \in Putting => fd[d] \in temps'
      BY <2>3 DEF FileInv, WriteInv
    <3>. QED
      BY <2>3, <3>1, FinishStep DEF FileInv
  <2>4. ASSUME NEW c \in Clients, RemoveTemp(c) PROVE FileInv'
    <3>1. \A d \in Clients : d # c /\ pc[d] \in Putting => fd[d] \in temps'
      BY <2>4 DEF RemoveTemp, FileInv, WriteInv, Putting
    <3>. QED
      BY <2>4, <3>1, FinishStep DEF RemoveTemp, FileInv
  <2>5. ASSUME NEW c \in Clients, CreateTemp(c) \/ Copy(c) \/ Rename(c) \/ RenameFails(c)
        PROVE  FileInv'
    BY <2>5, PutStep DEF FileInv
  <2>6. ASSUME NEW c \in Clients, CreateNew(c) \/ Stat(c) \/ Write(c) \/ Delete(c)
        PROVE  FileInv'
    BY <2>3, <2>6, NewStep DEF FileInv, Stat
  <2>7. ASSUME NEW c \in Clients,
               Open(c) \/ Read(c) \/ ReadDir(c) \/ Lstat(c) \/ EndList(c)
        PROVE  FileInv'
    <3>1. CASE Lstat(c) /\ Finish(c)
      <4>1. UNCHANGED temps
        BY <3>1 DEF Lstat, disk
      <4>. QED
        BY <2>3, <3>1, <4>1
    <3>. QED
      BY <2>7, <3>1, ReadStep DEF FileInv
  <2>. QED
    BY <2>1, <2>2, <2>3, <2>4, <2>5, <2>6, <2>7 DEF Next, Return, GiveUp
<1>. QED
  BY <1>1, <1>2, TypeCorrect, PTL DEF Spec

\* Whoever reads an object that was whole when it was opened gets all of one value.
THEOREM WholeTheorem == Spec => []ReadsAreWhole
<1>1. FileInv => ReadsAreWhole
  BY DEF FileInv, ReadInv, ReadsAreWhole
<1>. QED
  BY <1>1, FileInvariant, PTL

-----------------------------------------------------------------------------
\* The file of a PutIfNotExist stands for the client that completes it.
LEMMA WriterFacts ==
    ASSUME FileInv, NEW c \in Clients, pc[c] = "write"
    PROVE  Writing(fd[c]) /\ Writer(fd[c]) = c
<1>1. \A d \in Clients : pc[d] = "write" /\ fd[d] = fd[c] => d = c
  BY DEF FileInv, WriteInv, Putting
<1>. QED
  BY <1>1 DEF Writing, Writer

\* The object at each path, by the file that has its name.
ObjectsInv == \A p \in Paths :
    /\ link[p] = Missing <=> objects[p] = Missing
    /\ \A c \in Clients : objects[p] = c <=> pc[c] = "write" /\ fd[c] = link[p]
    /\ objects[p] \in Clients => ValueOf(data[link[p]]) = Partial
    /\ objects[p] \notin Clients /\ link[p] # Missing => objects[p] = ValueOf(data[link[p]])

LEMMA ObjectsInvariant == FileInv => ObjectsInv
<1>. SUFFICES ASSUME FileInv, NEW p \in Paths
     PROVE  /\ link[p] = Missing <=> objects[p] = Missing
            /\ \A c \in Clients : objects[p] = c <=> pc[c] = "write" /\ fd[c] = link[p]
            /\ objects[p] \in Clients => ValueOf(data[link[p]]) = Partial
            /\ objects[p] \notin Clients /\ link[p] # Missing =>
                  objects[p] = ValueOf(data[link[p]])
  BY DEF ObjectsInv
<1>1. objects[p] = IF link[p] = Missing THEN Missing
                   ELSE IF Writing(link[p]) THEN Writer(link[p]) ELSE ValueOf(data[link[p]])
  BY DEF objects, Object
<1>2. link[p] \in Files \cup {Missing}
  BY DEF FileInv, TypeOK
<1>3. ASSUME NEW c \in Clients, pc[c] = "write"
      PROVE  /\ fd[c] \in Files /\ ValueOf(data[fd[c]]) = Partial
             /\ Writing(fd[c]) /\ Writer(fd[c]) = c
  <2>1. fd[c] \in Files /\ Len(data[fd[c]]) < Size /\ Len(data[fd[c]]) \in Nat
    BY <1>3, DataType DEF FileInv, WriteInv, OpenPCs
  <2>. QED
    BY <1>3, <2>1, ValueFacts, WriterFacts, SizeAssumption
<1>4. Writing(link[p]) => \E c \in Clients : pc[c] = "write" /\ fd[c] = link[p]
  BY DEF Writing
<1>5. ValueOf(data[link[p]]) \in Values \cup {Partial}
  BY ValueFacts
<1>. QED
  BY <1>1, <1>2, <1>3, <1>4, <1>5, ObjectAssumption

\* Where a call is, in both specifications.
PhaseInv == \A c \in Clients :
    /\ pc[c] = "idle" => phase[c] = "idle"
    /\ pc[c] = "write" => phase[c] = "created"
    /\ pc[c] \in {"read", "lstat", "return"} => phase[c] = "effective"
    /\ pc[c] = "refused" => phase[c] = "refused"
    /\ pc[c] \in {"temp", "copy", "rename", "fallback", "remove", "create", "stat",
                  "delete", "open", "list"} => phase[c] = "called"
    /\ pc[c] \notin {"read", "return"} => reads[c] = Missing
    /\ pc[c] \notin {"lstat", "return"} => lists[c] = {}

LEMMA PhaseInvariant == FileInv => PhaseInv
<1>. SUFFICES ASSUME FileInv, NEW c \in Clients
     PROVE  /\ pc[c] = "idle" => phase[c] = "idle"
            /\ pc[c] = "write" => phase[c] = "created"
            /\ pc[c] \in {"read", "lstat", "return"} => phase[c] = "effective"
            /\ pc[c] = "refused" => phase[c] = "refused"
            /\ pc[c] \in {"temp", "copy", "rename", "fallback", "remove", "create", "stat",
                          "delete", "open", "list"} => phase[c] = "called"
            /\ pc[c] \notin {"read", "return"} => reads[c] = Missing
            /\ pc[c] \notin {"lstat", "return"} => lists[c] = {}
  BY DEF PhaseInv
<1>1. phase[c] = CASE pc[c] = "write" -> "created"
                   [] pc[c] \in {"read", "lstat", "return"} -> "effective"
                   [] pc[c] \in {"idle", "refused"} -> pc[c]
                   [] OTHER -> "called"
  BY DEF phase
<1>2. reads[c] = IF pc[c] = "return" /\ opened[c] \in Values THEN ValueOf(got[c]) ELSE opened[c]
  BY DEF reads
<1>3. lists[c] = listed[c] \cap Paths
  BY DEF lists
<1>. QED
  BY <1>1, <1>2, <1>3 DEF FileInv, ReadInv

\* What every step of the refinement may use.
StepInv == FileInv /\ ObjectsInv /\ PhaseInv

\* An object is as it was if its file is, and those that complete files.
LEMMA SameObject ==
    ASSUME StepInv, StepInv', NEW p \in Paths, link'[p] = link[p],
           link[p] # Missing => data'[link[p]] = data[link[p]],
           \A d \in Clients : pc'[d] = "write" /\ fd'[d] = link[p]
                             <=> pc[d] = "write" /\ fd[d] = link[p]
    PROVE  objects'[p] = objects[p]
<1>1. \A d \in Clients : objects'[p] = d <=> objects[p] = d
  BY DEF StepInv, ObjectsInv
<1>2. link[p] = Missing <=> objects[p] = Missing
  BY DEF StepInv, ObjectsInv
<1>3. link'[p] = Missing <=> objects'[p] = Missing
  BY DEF StepInv, ObjectsInv
<1>4. objects[p] \notin Clients /\ link[p] # Missing => objects[p] = ValueOf(data[link[p]])
  BY DEF StepInv, ObjectsInv
<1>5. objects'[p] \notin Clients /\ link'[p] # Missing => objects'[p] = ValueOf(data'[link'[p]])
  BY DEF StepInv, ObjectsInv
<1>6. Missing \notin Clients
  BY ObjectAssumption
<1>. QED
  BY <1>1, <1>2, <1>3, <1>4, <1>5, <1>6

\* What a step does to the mapped variables that belong to calls.
LEMMA Frame ==
    ASSUME FileInv, NEW c \in Clients, Others(c)
    PROVE  /\ phase' = [phase EXCEPT ![c] = phase'[c]]
           /\ reads' = [reads EXCEPT ![c] = reads'[c]]
           /\ lists' = [lists EXCEPT ![c] = lists'[c]]
           /\ phase'[c] = phase[c] => phase' = phase
           /\ reads'[c] = reads[c] => reads' = reads
           /\ lists'[c] = lists[c] => lists' = lists
<1>1. \A d \in Clients : d # c => phase'[d] = phase[d]
  BY DEF Others, phase
<1>2. \A d \in Clients : d # c => reads'[d] = reads[d]
  BY DEF Others, reads
<1>3. \A d \in Clients : d # c => lists'[d] = lists[d]
  BY DEF Others, lists
<1>4. phase = [d \in Clients |-> phase[d]] /\ phase' = [d \in Clients |-> phase'[d]]
  BY DEF phase
<1>5. reads = [d \in Clients |-> reads[d]] /\ reads' = [d \in Clients |-> reads'[d]]
  BY DEF reads
<1>6. lists = [d \in Clients |-> lists[d]] /\ lists' = [d \in Clients |-> lists'[d]]
  BY DEF lists
<1>. QED
  BY <1>1, <1>2, <1>3, <1>4, <1>5, <1>6

LEMMA SameObjects ==
    ASSUME StepInv, StepInv', link' = link,
           \A p \in Paths : link[p] # Missing => data'[link[p]] = data[link[p]],
           \A d \in Clients : pc'[d] = "write" <=> pc[d] = "write",
           \A d \in Clients : pc[d] = "write" => fd'[d] = fd[d]
    PROVE  objects' = objects
<1>1. \A p \in Paths : objects'[p] = objects[p]
  BY SameObject
<1>. QED
  BY <1>1 DEF objects

LEMMA OneObject ==
    ASSUME NEW path \in Paths, \A p \in Paths \ {path} : objects'[p] = objects[p]
    PROVE  objects' = [objects EXCEPT ![path] = objects'[path]]
<1>1. objects = [p \in Paths |-> objects[p]] /\ objects' = [p \in Paths |-> objects'[p]]
  BY DEF objects
<1>. QED
  BY <1>1

\* Whoever ends a call, of whatever result, does what a failing call may do.
LEMMA FinishRefines ==
    ASSUME StepInv, StepInv', NEW c \in Clients, Finish(c), pc[c] # "idle"
    PROVE  Objects!Fail(c)
<1>1. /\ UNCHANGED <<kind, link, data>> /\ Others(c)
      /\ pc'[c] = "idle" /\ request' = [request EXCEPT ![c] = Missing]
  BY DEF StepInv, FileInv, TypeOK, Finish, Goto, Others
<1>2. ASSUME NEW p \in Paths, objects[p] # c PROVE objects'[p] = objects[p]
  <2>1. ~(pc[c] = "write" /\ fd[c] = link[p])
    BY <1>2 DEF StepInv, ObjectsInv
  <2>. QED
    BY <1>1, <2>1, SameObject DEF Others
<1>3. ASSUME NEW p \in Paths, objects[p] = c PROVE objects'[p] = Partial
  <2>1. pc[c] = "write" /\ fd[c] = link[p] /\ ValueOf(data[link[p]]) = Partial
        /\ link[p] # Missing
    BY <1>3, ObjectAssumption DEF StepInv, ObjectsInv
  <2>2. \A d \in Clients : objects'[p] # d
    <3>1. \A d \in Clients : d # c => ~(pc[d] = "write" /\ fd[d] = link[p])
      BY <1>3 DEF StepInv, ObjectsInv
    <3>2. \A d \in Clients : ~(pc'[d] = "write" /\ fd'[d] = link'[p])
      BY <1>1, <3>1 DEF Others
    <3>. QED
      BY <3>2 DEF StepInv, ObjectsInv
  <2>. QED
    BY <1>1, <2>1, <2>2 DEF StepInv, ObjectsInv
<1>4. objects' = [p \in Paths |-> IF objects[p] = c THEN Partial ELSE objects[p]]
  <2>1. objects' = [p \in Paths |-> objects'[p]]
    BY DEF objects
  <2>. QED
    BY <1>2, <1>3, <2>1
<1>5. phase[c] # "idle"
  <2>1. pc[c] \in PCs
    BY DEF StepInv, FileInv, TypeOK
  <2>. QED
    BY <2>1 DEF StepInv, PhaseInv, PCs
<1>6. phase'[c] = "idle" /\ reads'[c] = Missing /\ lists'[c] = {}
  BY <1>1 DEF StepInv, PhaseInv
<1>7. /\ phase' = [phase EXCEPT ![c] = "idle"]
      /\ reads' = [reads EXCEPT ![c] = Missing]
      /\ lists' = [lists EXCEPT ![c] = {}]
  BY <1>1, <1>6, Frame DEF StepInv
<1>. QED
  BY <1>1, <1>4, <1>5, <1>7 DEF Objects!Fail, Objects!End, Objects!Reach

\* Steps that the abstract store does not see.
LEMMA Stutters ==
    ASSUME StepInv, StepInv', NEW c \in Clients,
           \/ CreateTemp(c) \/ Copy(c) \/ RenameFails(c) \/ Read(c) \/ EndList(c)
           \/ Lstat(c) /\ ~Finish(c)
           \/ CreateNew(c) /\ pc'[c] = "stat"
    PROVE  UNCHANGED <<objects, request, phase, reads, lists>>
<1>. USE DEF Goto, disk
<1>1. /\ link' = link /\ request' = request /\ Others(c)
      /\ pc[c] # "write" /\ pc'[c] # "write" /\ pc[c] # "idle"
  BY DEF CreateTemp, Copy, RenameFails, Read, EndList, Lstat, CreateNew, StepInv, FileInv,
         TypeOK, Others
<1>2. ASSUME NEW p \in Paths, link[p] # Missing PROVE data'[link[p]] = data[link[p]]
  <2>1. link[p] \in Files /\ link[p] \notin temps
    BY <1>2 DEF StepInv, FileInv, TypeOK, LinkInv
  <2>2. CASE CreateTemp(c)
    <3>1. PICK f \in Files : Free(f) /\ data' = [data EXCEPT ![f] = <<>>]
      BY <2>2 DEF CreateTemp
    <3>. QED
      BY <2>1, <3>1 DEF Free, Linked, StepInv, FileInv, TypeOK
  <2>3. CASE Copy(c)
    <3>1. fd[c] # link[p]
      BY <2>1, <2>3 DEF Copy, StepInv, FileInv, WriteInv, Putting
    <3>. QED
      BY <2>1, <2>3, <3>1 DEF Copy, Append1, StepInv, FileInv, TypeOK
  <2>4. CASE CreateNew(c) /\ pc'[c] = "stat"
    BY <2>4 DEF CreateNew, StepInv, FileInv, TypeOK
  <2>. QED
    BY <2>2, <2>3, <2>4 DEF RenameFails, Read, EndList, Lstat
<1>3. objects' = objects
  BY <1>1, <1>2, SameObjects DEF Others
<1>4. phase'[c] = phase[c]
  BY <1>1 DEF CreateTemp, Copy, RenameFails, Read, EndList, Lstat, CreateNew, StepInv, FileInv,
              TypeOK, PhaseInv
<1>5. reads'[c] = reads[c]
  <2>1. CASE Read(c)
    <3>1. pc[c] = "read" /\ pc'[c] \in {"read", "return"} /\ opened'[c] = opened[c]
      BY <2>1 DEF Read, StepInv, FileInv, TypeOK
    <3>2. pc'[c] = "return" /\ opened[c] \in Values => ValueOf(got'[c]) = opened[c]
      BY <3>1, ValueFacts DEF StepInv, FileInv, ReadInv
    <3>. QED
      BY <3>1, <3>2 DEF reads
  <2>2. CASE EndList(c)
    <3>1. opened[c] = Missing /\ opened' = opened
      BY <2>2 DEF EndList, StepInv, FileInv, ReadInv
    <3>. QED
      BY <3>1, ObjectAssumption DEF reads
  <2>3. CASE ~Read(c) /\ ~EndList(c)
    <3>1. pc[c] \notin {"read", "return"} /\ pc'[c] \notin {"read", "return"}
      BY <2>3 DEF CreateTemp, Copy, RenameFails, Lstat, CreateNew, StepInv, FileInv, TypeOK
    <3>. QED
      BY <3>1 DEF StepInv, PhaseInv
  <2>. QED
    BY <2>1, <2>2, <2>3
<1>6. lists'[c] = lists[c]
  BY DEF lists, CreateTemp, Copy, RenameFails, Read, EndList, Lstat, CreateNew
<1>. QED
  BY <1>1, <1>3, <1>4, <1>5, <1>6, Frame DEF StepInv

\* The steps at which a put takes effect, and others that create and delete objects.
LEMMA ChangeRefines ==
    ASSUME StepInv, StepInv', NEW c \in Clients,
           Rename(c) \/ Delete(c) \/ (CreateNew(c) /\ pc'[c] = "write") \/ Write(c)
    PROVE  \/ Objects!Put(c) \/ Objects!Delete(c) \/ Objects!Create(c) \/ Objects!Fill(c)
           \/ UNCHANGED <<objects, request, phase, reads, lists>>
<1>. DEFINE path == request[c].path
<1>1. /\ request' = request /\ Others(c) /\ path \in Paths /\ request[c].value \in Values
      /\ pc[c] \in {"rename", "fallback", "delete", "create", "write"}
      /\ pc'[c] \in {"return", "write"} /\ opened' = opened /\ got' = got /\ listed' = listed
  BY RequestType DEF Rename, Delete, CreateNew, Write, Goto, StepInv, FileInv, TypeOK, Others
<1>2. /\ reads[c] = Missing /\ lists[c] = {} /\ opened[c] = Missing
      /\ reads'[c] = Missing /\ lists'[c] = {}
  <2>1. reads[c] = Missing /\ lists[c] = {} /\ opened[c] = Missing
    BY <1>1 DEF StepInv, PhaseInv, FileInv, ReadInv
  <2>. QED
    BY <1>1, <2>1, ObjectAssumption DEF reads, lists
<1>3. reads' = reads /\ lists' = lists
  BY <1>1, <1>2, Frame DEF StepInv
<1>. HIDE DEF path
<1>4. CASE Rename(c)
  <2>1. /\ pc[c] \in {"rename", "fallback"} /\ pc'[c] = "return" /\ data' = data
        /\ link' = [link EXCEPT ![path] = fd[c]]
    BY <1>4 DEF Rename, Link, Goto, StepInv, FileInv, TypeOK, path
  <2>2. link'[path] = fd[c] /\ \A p \in Paths \ {path} : link'[p] = link[p]
    BY <1>1, <2>1 DEF StepInv, FileInv, TypeOK
  <2>3. fd[c] \in Files /\ fd[c] # Missing /\ data[fd[c]] = Whole(request[c].value)
    <3>1. fd[c] \in Files /\ fd[c] # Missing /\ data[fd[c]] \in Seq(Values)
      BY <2>1, DataType DEF StepInv, FileInv, OpenPCs
    <3>2. Len(data[fd[c]]) = Size /\ AllAre(data[fd[c]], request[c].value)
      BY <2>1 DEF StepInv, FileInv, WriteInv, Putting
    <3>. QED
      BY <1>1, <3>1, <3>2, AllAreFacts
  <2>4. \A d \in Clients : pc'[d] = "write" => fd'[d] # fd[c]
    BY <1>1, <2>1 DEF StepInv, FileInv, WriteInv, Putting, Others
  <2>5. objects'[path] = request[c].value
    <3>1. objects'[path] \notin Clients
      BY <1>1, <2>2, <2>4 DEF StepInv, ObjectsInv
    <3>2. objects'[path] = ValueOf(data'[link'[path]])
      BY <1>1, <2>2, <2>3, <3>1 DEF StepInv, ObjectsInv
    <3>. QED
      BY <1>1, <2>1, <2>2, <2>3, <3>2, ValueFacts
  <2>6. \A p \in Paths \ {path} : objects'[p] = objects[p]
    <3>. SUFFICES ASSUME NEW p \in Paths \ {path} PROVE objects'[p] = objects[p]
      OBVIOUS
    <3>. QED
      BY <1>1, <2>1, <2>2, SameObject DEF Others
  <2>7. objects' = [objects EXCEPT ![path] = request[c].value]
    BY <1>1, <2>5, <2>6, OneObject
  <2>8. phase[c] = "called" /\ phase' = [phase EXCEPT ![c] = "effective"]
    BY <1>1, <2>1, Frame DEF StepInv, PhaseInv
  <2>9. request[c].op = "put"
    BY <2>1 DEF StepInv, FileInv, CallInv
  <2>. QED
    BY <1>1, <1>3, <2>7, <2>8, <2>9
       DEF Objects!Put, Objects!Called, Objects!Store, Objects!Reach, path
<1>5. CASE Delete(c)
  <2>1. /\ pc[c] = "delete" /\ pc'[c] = "return" /\ data' = data /\ fd' = fd
        /\ link' = [link EXCEPT ![path] = Missing]
    BY <1>5 DEF Delete, Link, Goto, StepInv, FileInv, TypeOK, path
  <2>2. link'[path] = Missing /\ \A p \in Paths \ {path} : link'[p] = link[p]
    BY <1>1, <2>1 DEF StepInv, FileInv, TypeOK
  <2>3. objects'[path] = Missing
    BY <1>1, <2>2 DEF StepInv, ObjectsInv
  <2>4. \A p \in Paths \ {path} : objects'[p] = objects[p]
    <3>. SUFFICES ASSUME NEW p \in Paths \ {path} PROVE objects'[p] = objects[p]
      OBVIOUS
    <3>. QED
      BY <1>1, <2>1, <2>2, SameObject DEF Others
  <2>5. objects' = [objects EXCEPT ![path] = Missing]
    BY <1>1, <2>3, <2>4, OneObject
  <2>6. phase[c] = "called" /\ phase' = [phase EXCEPT ![c] = "effective"]
    BY <1>1, <2>1, Frame DEF StepInv, PhaseInv
  <2>7. request[c].op = "delete"
    BY <2>1 DEF StepInv, FileInv, CallInv
  <2>. QED
    BY <1>1, <1>3, <2>5, <2>6, <2>7
       DEF Objects!Delete, Objects!Called, Objects!Store, Objects!Reach, path
<1>6. CASE CreateNew(c) /\ pc'[c] = "write"
  <2>1. /\ pc[c] = "create" /\ link[path] = Missing
    BY <1>6 DEF CreateNew, Goto, At, StepInv, FileInv, TypeOK, path
  <2>2. PICK f \in Files :
          /\ Free(f) /\ link' = [link EXCEPT ![path] = f]
          /\ data' = [data EXCEPT ![f] = <<>>] /\ fd' = [fd EXCEPT ![c] = f]
    BY <1>6, <2>1 DEF CreateNew, Link, At, path
  <2>3. /\ link'[path] = f /\ fd'[c] = f /\ \A p \in Paths \ {path} : link'[p] = link[p]
        /\ \A p \in Paths : link[p] # f
        /\ \A g \in Files : g # f => data'[g] = data[g]
    BY <1>1, <2>2 DEF StepInv, FileInv, TypeOK, Free, Linked
  <2>4. objects[path] = Missing /\ objects'[path] = c
    BY <1>1, <1>6, <2>1, <2>3 DEF StepInv, ObjectsInv
  <2>5. \A p \in Paths \ {path} : objects'[p] = objects[p]
    <3>. SUFFICES ASSUME NEW p \in Paths \ {path} PROVE objects'[p] = objects[p]
      OBVIOUS
    <3>1. link[p] \in Files \cup {Missing}
      BY DEF StepInv, FileInv, TypeOK
    <3>. QED
      BY <1>1, <2>1, <2>3, <3>1, SameObject DEF Others
  <2>6. objects' = [objects EXCEPT ![path] = c]
    BY <1>1, <2>4, <2>5, OneObject
  <2>7. phase[c] = "called" /\ phase' = [phase EXCEPT ![c] = "created"]
    BY <1>1, <1>6, <2>1, Frame DEF StepInv, PhaseInv
  <2>8. request[c].op = "new"
    BY <2>1 DEF StepInv, FileInv, CallInv
  <2>. QED
    BY <1>1, <1>3, <2>4, <2>6, <2>7, <2>8
       DEF Objects!Create, Objects!Called, Objects!Store, Objects!Reach, path
<1>7. CASE Write(c)
  <2>1. /\ pc[c] = "write" /\ link' = link /\ fd[c] \in Files /\ fd[c] # Missing
        /\ data'[fd[c]] = Append(data[fd[c]], request[c].value)
        /\ \A g \in Files : g # fd[c] => data'[g] = data[g]
    BY <1>7, DataType DEF Write, Append1, StepInv, FileInv, TypeOK, OpenPCs
  <2>2. ASSUME NEW p \in Paths, link[p] # fd[c] PROVE objects'[p] = objects[p]
    <3>1. link[p] \in Files \cup {Missing}
      BY DEF StepInv, FileInv, TypeOK
    <3>2. pc'[c] = "write" => fd'[c] = fd[c]
      BY <1>7 DEF Write, Goto, StepInv, FileInv, TypeOK
    <3>. QED
      BY <1>1, <2>1, <2>2, <3>1, <3>2, SameObject DEF Others
  <2>3. CASE Len(data[fd[c]]) + 1 < Size
    <3>1. pc' = pc /\ fd' = fd
      BY <1>7, <2>3 DEF Write
    <3>2. \A p \in Paths : link[p] = fd[c] => objects'[p] = c /\ objects[p] = c
      BY <2>1, <3>1 DEF StepInv, ObjectsInv
    <3>3. objects' = objects
      <4>1. \A p \in Paths : objects'[p] = objects[p]
        BY <2>2, <3>2
      <4>. QED
        BY <4>1 DEF objects
    <3>4. phase' = phase
      BY <3>1 DEF phase
    <3>. QED
      BY <1>1, <1>3, <3>3, <3>4
  <2>4. CASE ~(Len(data[fd[c]]) + 1 < Size)
    <3>1. pc'[c] = "return"
      BY <1>7, <2>4 DEF Write, Goto, StepInv, FileInv, TypeOK
    <3>2. phase[c] = "created" /\ phase' = [phase EXCEPT ![c] = "effective"]
      BY <1>1, <2>1, <3>1, Frame DEF StepInv, PhaseInv
    <3>3. data'[fd[c]] = Whole(request[c].value)
      <4>1. /\ data[fd[c]] \in Seq(Values) /\ Len(data[fd[c]]) \in Nat
            /\ Len(data[fd[c]]) < Size /\ AllAre(data[fd[c]], request[c].value)
        BY <2>1, DataType DEF StepInv, FileInv, WriteInv, Putting
      <4>2. Len(data[fd[c]]) + 1 = Size
        BY <4>1, <2>4, SizeAssumption
      <4>3. data'[fd[c]] \in Seq(Values)
        BY <2>1 DEF StepInv, FileInv, TypeOK
      <4>4. AllAre(data'[fd[c]], request[c].value) /\ Len(data'[fd[c]]) = Size
        BY <1>1, <2>1, <4>1, <4>2, AllAreFacts
      <4>. QED
        BY <1>1, <4>3, <4>4, AllAreFacts
    <3>4. objects[path] = c <=> link[path] = fd[c]
      BY <1>1, <2>1 DEF StepInv, ObjectsInv
    <3>5. CASE link[path] = fd[c]
      <4>1. objects'[path] = request[c].value
        <5>1. \A d \in Clients : d # c => objects[path] # d
          BY <3>4, <3>5
        <5>2. \A d \in Clients : ~(pc'[d] = "write" /\ fd'[d] = link[path])
          BY <1>1, <3>1, <5>1 DEF StepInv, ObjectsInv, Others
        <5>3. objects'[path] \notin Clients
          BY <1>1, <2>1, <5>2 DEF StepInv, ObjectsInv
        <5>4. objects'[path] = ValueOf(data'[link'[path]])
          BY <1>1, <2>1, <3>5, <5>3 DEF StepInv, ObjectsInv
        <5>. QED
          BY <1>1, <2>1, <3>3, <3>5, <5>4, ValueFacts
      <4>2. \A p \in Paths \ {path} : objects'[p] = objects[p]
        BY <1>1, <2>1, <2>2, <3>5 DEF StepInv, FileInv, LinkInv
      <4>3. objects' = [objects EXCEPT ![path] = request[c].value]
        BY <1>1, <4>1, <4>2, OneObject
      <4>. QED
        BY <1>1, <1>3, <3>2, <3>4, <3>5, <4>3
           DEF Objects!Fill, Objects!Store, Objects!Reach, path
    <3>6. CASE link[path] # fd[c]
      <4>1. \A p \in Paths : link[p] # fd[c]
        BY <2>1, <3>6 DEF StepInv, FileInv, WriteInv, path
      <4>2. objects' = objects
        <5>1. \A p \in Paths : objects'[p] = objects[p]
          BY <2>2, <4>1
        <5>. QED
          BY <5>1 DEF objects
      <4>. QED
        BY <1>1, <1>3, <3>2, <3>4, <3>6, <4>2
           DEF Objects!Fill, Objects!Store, Objects!Reach, path
    <3>. QED
      BY <3>5, <3>6
  <2>. QED
    BY <2>3, <2>4
<1>. QED
  BY <1>4, <1>5, <1>6, <1>7

\* Steps that leave the disk alone but not the call.
LEMMA CallRefines ==
    ASSUME StepInv, StepInv', NEW c \in Clients,
           \/ Call(c) \/ Open(c) \/ ReadDir(c)
           \/ CreateNew(c) /\ pc'[c] = "refused"
           \/ Stat(c) /\ ~Finish(c)
    PROVE  Objects!Call(c) \/ Objects!Get(c) \/ Objects!List(c) \/ Objects!Refuse(c)
<1>. DEFINE path == request[c].path
<1>1. /\ UNCHANGED <<link, data>> /\ Others(c)
      /\ pc[c] \in {"idle", "open", "list", "create", "stat"} /\ pc'[c] # "write"
  <2>1. CASE Call(c)
    <3>1. pc[c] = "idle" /\ pc'[c] # "write"
      <4>1. PICK r \in Requests :
              pc' = [pc EXCEPT ![c] = CASE r.op = "put"    -> "temp"
                                        [] r.op = "new"    -> "create"
                                        [] r.op = "delete" -> "delete"
                                        [] r.op = "get"    -> "open"
                                        [] r.op = "list"   -> "list"]
        BY <2>1 DEF Call, Goto
      <4>2. r.op \in {"put", "new", "delete", "get", "list"}
        BY RequestAssumption DEF Ops
      <4>. QED
        BY <2>1, <4>1, <4>2 DEF Call, StepInv, FileInv, TypeOK
    <3>. QED
      BY <2>1, <3>1 DEF Call, Goto, StepInv, FileInv, TypeOK, Others, disk
  <2>2. CASE ~Call(c)
    BY <2>2 DEF Open, ReadDir, CreateNew, Stat, Goto, StepInv, FileInv, TypeOK, Others, disk
  <2>. QED
    BY <2>1, <2>2
<1>2. objects' = objects
  BY <1>1, SameObjects DEF Others
<1>3. pc[c] # "idle" => path \in Paths
  BY RequestType DEF StepInv, FileInv
<1>. HIDE DEF path
<1>4. CASE Call(c)
  <2>1. PICK r \in Requests : request' = [request EXCEPT ![c] = r]
    BY <1>4 DEF Call
  <2>2. pc[c] = "idle" /\ pc'[c] \in {"temp", "create", "delete", "open", "list"}
    <3>1. PICK q \in Requests :
            pc' = [pc EXCEPT ![c] = CASE q.op = "put"    -> "temp"
                                      [] q.op = "new"    -> "create"
                                      [] q.op = "delete" -> "delete"
                                      [] q.op = "get"    -> "open"
                                      [] q.op = "list"   -> "list"]
      BY <1>4 DEF Call, Goto
    <3>2. q.op \in {"put", "new", "delete", "get", "list"}
      BY RequestAssumption DEF Ops
    <3>. QED
      BY <1>4, <3>1, <3>2 DEF Call, StepInv, FileInv, TypeOK
  <2>3. phase[c] = "idle" /\ phase'[c] = "called"
        /\ reads'[c] = reads[c] /\ lists'[c] = lists[c]
    BY <2>2 DEF StepInv, PhaseInv
  <2>4. phase' = [phase EXCEPT ![c] = "called"] /\ reads' = reads /\ lists' = lists
    BY <1>1, <2>3, Frame DEF StepInv
  <2>. QED
    BY <1>2, <2>1, <2>3, <2>4 DEF Objects!Call, Objects!Reach
<1>5. CASE Open(c)
  <2>1. /\ pc[c] = "open" /\ pc'[c] \in {"read", "return"} /\ request' = request
        /\ listed' = listed /\ request[c].op = "get"
        /\ link[path] = Missing => pc'[c] = "return" /\ opened'[c] = Missing
        /\ link[path] # Missing => pc'[c] = "read" /\ opened'[c] = ValueOf(data[link[path]])
    BY <1>5 DEF Open, At, Object, Goto, disk, path, StepInv, FileInv, TypeOK, CallInv
  <2>2. reads'[c] = IF objects[path] \in Clients THEN Partial ELSE objects[path]
    <3>1. CASE link[path] = Missing
      <4>1. reads'[c] = Missing
        BY <2>1, <3>1, ObjectAssumption DEF reads
      <4>2. objects[path] = Missing
        BY <1>3, <2>1, <3>1 DEF StepInv, ObjectsInv
      <4>. QED
        BY <4>1, <4>2, ObjectAssumption
    <3>2. CASE link[path] # Missing
      <4>1. reads'[c] = ValueOf(data[link[path]])
        BY <2>1, <3>2 DEF reads
      <4>. QED
        BY <1>3, <2>1, <3>2, <4>1 DEF StepInv, ObjectsInv
    <3>. QED
      BY <3>1, <3>2
  <2>3. phase[c] = "called" /\ phase'[c] = "effective" /\ lists'[c] = lists[c]
    <3>1. lists'[c] = lists[c]
      BY <2>1 DEF lists
    <3>. QED
      BY <2>1, <3>1 DEF StepInv, PhaseInv
  <2>4. phase' = [phase EXCEPT ![c] = "effective"] /\ lists' = lists
        /\ reads' = [reads EXCEPT ![c] = IF objects[path] \in Clients THEN Partial
                                         ELSE objects[path]]
    BY <1>1, <2>2, <2>3, Frame DEF StepInv
  <2>. QED
    BY <1>2, <2>1, <2>3, <2>4 DEF Objects!Get, Objects!Called, Objects!Reach, path
<1>6. CASE ReadDir(c)
  <2>1. /\ pc[c] = "list" /\ pc'[c] = "lstat" /\ request' = request /\ request[c].op = "list"
        /\ listed'[c] = {p \in Paths : link[p] # Missing} \cup temps
    BY <1>6 DEF ReadDir, Goto, disk, StepInv, FileInv, TypeOK, CallInv
  <2>2. lists'[c] = {p \in Paths : objects[p] # Missing}
    <3>1. temps \cap Paths = {}
      BY ObjectAssumption DEF StepInv, FileInv, TypeOK
    <3>2. lists'[c] = {p \in Paths : link[p] # Missing}
      BY <2>1, <3>1 DEF lists
    <3>. QED
      BY <3>2 DEF StepInv, ObjectsInv
  <2>3. phase[c] = "called" /\ phase'[c] = "effective" /\ reads'[c] = reads[c]
    BY <2>1 DEF StepInv, PhaseInv
  <2>4. phase' = [phase EXCEPT ![c] = "effective"] /\ reads' = reads
        /\ lists' = [lists EXCEPT ![c] = {p \in Paths : objects[p] # Missing}]
    BY <1>1, <2>2, <2>3, Frame DEF StepInv
  <2>. QED
    BY <1>2, <2>1, <2>3, <2>4 DEF Objects!List, Objects!Called, Objects!Reach
<1>7. CASE (CreateNew(c) /\ pc'[c] = "refused") \/ (Stat(c) /\ ~Finish(c))
  <2>1. /\ pc[c] \in {"create", "stat"} /\ pc'[c] = "refused" /\ request' = request
        /\ link[path] # Missing
    BY <1>7 DEF CreateNew, Stat, Goto, At, disk, path, StepInv, FileInv, TypeOK
  <2>2. request[c].op = "new" /\ objects[path] # Missing
    BY <1>3, <2>1 DEF StepInv, FileInv, CallInv, ObjectsInv
  <2>3. phase[c] = "called" /\ phase'[c] = "refused"
        /\ reads'[c] = reads[c] /\ lists'[c] = lists[c]
    BY <2>1 DEF StepInv, PhaseInv
  <2>4. phase' = [phase EXCEPT ![c] = "refused"] /\ reads' = reads /\ lists' = lists
    BY <1>1, <2>3, Frame DEF StepInv
  <2>. QED
    BY <1>2, <2>1, <2>2, <2>3, <2>4 DEF Objects!Refuse, Objects!Called, Objects!Reach, path
<1>. QED
  BY <1>4, <1>5, <1>6, <1>7

\* The files are an object store: a call that succeeds takes effect at one moment, one that
\* fails half-way shows nothing, and what is read was put.
THEOREM RefinementTheorem == Spec => ImplementsObjectStore
<1>1. Init => Objects!Init
  <2>. SUFFICES ASSUME Init PROVE Objects!Init
    OBVIOUS
  <2>1. objects = [p \in Paths |-> Missing]
    BY DEF Init, objects
  <2>2. phase = [c \in Clients |-> "idle"]
    BY DEF Init, phase
  <2>3. reads = [c \in Clients |-> Missing] /\ lists = [c \in Clients |-> {}]
    BY DEF Init, reads, lists
  <2>. QED
    BY <2>1, <2>2, <2>3 DEF Init, Objects!Init
<1>2. StepInv /\ StepInv' /\ [Next]_vars => [Objects!Next]_(Objects!vars)
  <2>. SUFFICES ASSUME StepInv, StepInv', [Next]_vars PROVE [Objects!Next]_(Objects!vars)
    OBVIOUS
  <2>1. CASE UNCHANGED vars
    BY <2>1 DEF vars, disk, Objects!vars, objects, phase, reads, lists, Writing, Writer, Object
  <2>2. ASSUME NEW c \in Clients, Finish(c), pc[c] # "idle" PROVE Objects!Next
    BY <2>2, FinishRefines DEF Objects!Next
  <2>3. ASSUME NEW c \in Clients,
               Call(c) \/ Open(c) \/ ReadDir(c) \/ (Stat(c) /\ ~Finish(c))
        PROVE  Objects!Next
    BY <2>3, CallRefines DEF Objects!Next
  <2>4. ASSUME NEW c \in Clients,
               CreateTemp(c) \/ Copy(c) \/ RenameFails(c) \/ Read(c) \/ EndList(c)
                 \/ (Lstat(c) /\ ~Finish(c))
        PROVE  UNCHANGED Objects!vars
    BY <2>4, Stutters DEF Objects!vars
  <2>5. ASSUME NEW c \in Clients, Rename(c) \/ Delete(c) \/ Write(c)
        PROVE  [Objects!Next]_(Objects!vars)
    BY <2>5, ChangeRefines DEF Objects!Next, Objects!vars
  <2>6. ASSUME NEW c \in Clients, CreateNew(c) PROVE [Objects!Next]_(Objects!vars)
    <3>1. pc'[c] \in {"write", "refused", "stat"}
      BY <2>6 DEF CreateNew, Goto, StepInv, FileInv, TypeOK
    <3>2. CASE pc'[c] = "write"
      BY <2>6, <3>2, ChangeRefines DEF Objects!Next, Objects!vars
    <3>3. CASE pc'[c] = "refused"
      BY <2>6, <3>3, CallRefines DEF Objects!Next
    <3>4. CASE pc'[c] = "stat"
      BY <2>6, <3>4, Stutters DEF Objects!vars
    <3>. QED
      BY <3>1, <3>2, <3>3, <3>4
  <2>7. ASSUME NEW c \in Clients,
               \/ Return(c) \/ GiveUp(c) \/ RemoveTemp(c)
               \/ (Stat(c) \/ Lstat(c)) /\ Finish(c)
        PROVE  Objects!Next
    BY <2>2, <2>7 DEF Return, GiveUp, RemoveTemp, Stat, Lstat
  <2>. QED
    BY <2>1, <2>3, <2>4, <2>5, <2>6, <2>7 DEF Next
<1>3. FileInv => StepInv
  BY ObjectsInvariant, PhaseInvariant DEF StepInv
<1>. QED
  BY <1>1, <1>2, <1>3, FileInvariant, PTL DEF Spec, ImplementsObjectStore, Objects!Spec
=============================================================================
