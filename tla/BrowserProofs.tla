--------------------------- MODULE BrowserProofs ---------------------------
(***************************************************************************)
(* Theorems about Browser, for any number of clients, any repository and   *)
(* any changes of it.                                                      *)
(***************************************************************************)
EXTENDS Browser, TLAPS

\* At most one sync has the mutex or waits for readers, and while it has the mutex
\* nobody reads.
MutexInv ==
    /\ pc \in [Clients -> PCs]
    /\ \A r, q \in Clients :
          pc[r] \in Syncing \cup {"drain"} /\ pc[q] \in Syncing \cup {"drain"} => r = q
    /\ \A r, q \in Clients : pc[r] \in Syncing => pc[q] # "reading"

\* The RWMutex, of which a waiting writer keeps later readers out, excludes as it should.
THEOREM MutexTheorem == Spec => []MutexInv
<1>1. Init => MutexInv
  BY DEF Init, MutexInv, PCs, Syncing
<1>2. MutexInv /\ [Next]_vars => MutexInv'
  <2>. SUFFICES ASSUME MutexInv, [Next]_vars PROVE MutexInv'
    OBVIOUS
  <2>. USE DEF MutexInv, PCs, Syncing, Goto
  <2>1. CASE UNCHANGED pc
    BY <2>1
  <2>2. CASE PutIndex \/ PutRelease \/ PutInRelease
    BY <2>2 DEF PutIndex, PutRelease, PutInRelease, Put
  <2>3. ASSUME NEW r \in Clients, Ask(r) \/ Lock(r) \/ Proceed(r) PROVE MutexInv'
    <3>1. CASE Ask(r)
      BY <3>1 DEF Ask
    <3>2. CASE Lock(r)
      BY <3>2 DEF Lock, Writing
    <3>3. CASE Drained(r)
      BY <3>3 DEF Drained
    <3>4. CASE Unlock(r)
      BY <3>4 DEF Unlock
    <3>5. CASE RLock(r)
      BY <3>5 DEF RLock, Writing
    <3>6. CASE Collect(r)
      BY <3>6 DEF Collect
    <3>7. CASE Discover(r)
      BY <3>7 DEF Discover
    <3>8. CASE NextTarget(r)
      BY <3>8 DEF NextTarget
    <3>9. CASE GetInRelease(r)
      BY <3>9 DEF GetInRelease
    <3>10. CASE GetRelease(r)
      BY <3>10 DEF GetRelease
    <3>11. CASE List(r)
      BY <3>11 DEF List
    <3>12. CASE StartProbe(r)
      BY <3>12 DEF StartProbe
    <3>13. CASE ReadFile(r)
      BY <3>13 DEF ReadFile
    <3>14. CASE EndProbe(r)
      BY <3>14 DEF EndProbe
    <3>. QED
      BY <2>3, <3>1, <3>2, <3>3, <3>4, <3>5, <3>6, <3>7, <3>8, <3>9, <3>10,
         <3>11, <3>12, <3>13, <3>14 DEF Proceed
  <2>. QED
    BY <2>1, <2>2, <2>3 DEF Next, vars
<1>. QED
  BY <1>1, <1>2, PTL DEF Spec

-----------------------------------------------------------------------------
Working == Syncing \ {"discover", "target"}

\* A sync that is at work is at work on a known codename.
WorkInv == \A r \in Clients : pc[r] \in Working =>
    cur \in Codenames /\ InSeq(cur, knownCodenames)

\* What a request asks for, with what the configuration adds to it.
LEMMA RequestType ==
    ASSUME TypeOK, NEW r \in Clients
    PROVE  /\ OrCfg(req[r].codename, CfgCodename) \in Codenames \cup {Unset}
           /\ CodenameOf(req[r]) \in Codenames \cup {Unset}
           /\ ComponentOf(req[r]) \in Components
           /\ req[r].arch \in Archs \cup {Unset}
<1>1. req[r] \in Request
  BY RequestAssumption DEF TypeOK
<1>2. knownCodenames # <<>> => knownCodenames[1] \in Codenames
  BY DEF TypeOK
<1>. QED
  BY <1>1, <1>2, NameAssumption DEF Request, OrCfg, CodenameOf, ComponentOf

\* What a stored index may contain.
LEMMA ContentsType ==
    ASSUME TypeOK, NEW f \in Files, Exists(store[f])
    PROVE  /\ store[f] \in ContentsOf[f]
           /\ store[f] \subseteq Stanzas
           /\ \A s \in store[f] : s.comp \in StanzaComponents /\ s.arch \in Archs
           /\ \A s, t \in store[f] : SameStanza(s, t) => s = t
BY StoreAssumption DEF TypeOK, Exists, Contents, Stanzas

\* Ingesting a file keeps the types of the cache.
LEMMA IngestType ==
    ASSUME TypeOK, NEW f \in Files, Exists(store[f]), NEW default, Ingest(f, default)
    PROVE  /\ indexes' \in [Codenames -> [Keys -> SUBSET Stanzas]]
           /\ knownComponents' \subseteq Keys /\ knownArchs' \subseteq Archs
<1>. DEFINE of(k) == {s \in store[f] : KeyOf(f, s, default) = k}
            new == [k \in Keys |-> Merged(indexes[cur][k], of(k))]
<1>1. indexes' = [indexes EXCEPT ![cur] = new]
  BY DEF Ingest
<1>2. cur \in Codenames => new \in [Keys -> SUBSET Stanzas]
  BY ContentsType DEF TypeOK, Merged
<1>3. indexes' \in [Codenames -> [Keys -> SUBSET Stanzas]]
  <2>. HIDE DEF new
  <2>. QED
    BY <1>1, <1>2 DEF TypeOK
<1>4. knownComponents' \subseteq Keys
  BY DEF Ingest, TypeOK
<1>5. knownArchs' \subseteq Archs
  BY ContentsType DEF Ingest, TypeOK
<1>. QED
  BY <1>3, <1>4, <1>5

\* What the probe looks for.
LEMMA ProbeType ==
    ASSUME TypeOK, cur \in Codenames, NEW r \in Clients
    PROVE  Probes(r) \subseteq Files /\ ProbeComponents(r) \subseteq Keys
<1>1. ComponentOf(req[r]) \in Components
  BY RequestType
<1>2. MetaOfCur.comps \subseteq Components
  BY StoreAssumption DEF TypeOK, MetaOfCur, Exists, Blank
<1>. QED
  BY <1>1, <1>2 DEF Probes, ProbeComponents, Keys

\* Every variable keeps its type.
THEOREM TypeCorrect == Spec => [](TypeOK /\ WorkInv)
<1>1. Init => TypeOK /\ WorkInv
  <2>. SUFFICES ASSUME Init PROVE TypeOK /\ WorkInv
    OBVIOUS
  <2>1. Requests # {} => (CHOOSE q \in Requests : TRUE) \in Requests
    OBVIOUS
  <2>2. req \in [Clients -> Requests]
    BY <2>1, RequestAssumption DEF Init
  <2>. QED
    BY <2>2, StoreAssumption, NameAssumption DEF Init, TypeOK, WorkInv, Working, Syncing, PCs, Empty
<1>2. TypeOK /\ WorkInv /\ MutexInv /\ [Next]_vars => TypeOK' /\ WorkInv'
  <2>. SUFFICES ASSUME TypeOK, WorkInv, MutexInv, [Next]_vars PROVE TypeOK' /\ WorkInv'
    OBVIOUS
  <2>. USE DEF TypeOK, WorkInv, Goto, PCs, Syncing, Working, storeVars, readVars, syncVars, cacheVars
  <2>1. CASE UNCHANGED vars
    BY <2>1 DEF vars
  <2>2. CASE PutIndex
    BY <2>2, StoreAssumption DEF PutIndex, Put, Contents
  <2>3. CASE PutRelease
    BY <2>3, StoreAssumption DEF PutRelease, Put
  <2>4. CASE PutInRelease
    BY <2>4, StoreAssumption DEF PutInRelease, Put
  <2>5. ASSUME NEW r \in Clients, Ask(r) \/ Lock(r) \/ Proceed(r) PROVE TypeOK' /\ WorkInv'
    <3>1. CASE Ask(r)
      BY <3>1 DEF Ask
    <3>2. CASE Lock(r)
      BY <3>2 DEF Lock
    <3>3. CASE Drained(r)
      BY <3>3 DEF Drained
    <3>4. CASE Unlock(r)
      BY <3>4 DEF Unlock, MutexInv
    <3>5. CASE RLock(r)
      BY <3>5 DEF RLock
    <3>6. CASE Collect(r)
      <4>1. PICK a \in left[r] :
              /\ found' = [found EXCEPT ![r] = @ \cup Collected(req[r], a)]
              /\ left' = [left EXCEPT ![r] = @ \ {a}]
              /\ Goto(r, IF left[r] = {a} THEN "answered" ELSE "reading")
        BY <3>6 DEF Collect
      <4>2. Collected(req[r], a) \subseteq Stanzas
        <5>1. CodenameOf(req[r]) \in Codenames \cup {Unset} /\ ComponentOf(req[r]) \in Keys
          BY RequestType DEF Keys
        <5>2. indexes \in [Codenames -> [Keys -> SUBSET Stanzas]]
          OBVIOUS
        <5>3. CodenameOf(req[r]) # Unset
                => indexes[CodenameOf(req[r])][ComponentOf(req[r])] \subseteq Stanzas
          BY <5>1, <5>2
        <5>. QED
          BY <5>3 DEF Collected
      <4>3. found' \in [Clients -> SUBSET Stanzas]
        BY <4>1, <4>2
      <4>4. left' \in [Clients -> SUBSET Archs] /\ pc' \in [Clients -> PCs]
        BY <4>1
      <4>5. \A q \in Clients : pc'[q] \in Working => pc[q] \in Working
        BY <4>1
      <4>. QED
        BY <3>6, <4>3, <4>4, <4>5 DEF Collect
    <3>7. CASE Discover(r)
      <4>1. targets' \subseteq Codenames /\ quiet' \subseteq Clients
        BY <3>7, RequestType, NameAssumption DEF Discover, Fails
      <4>2. pc' \in [Clients -> PCs] /\ \A q \in Clients : pc'[q] \in Working => pc[q] \in Working
        BY <3>7 DEF Discover
      <4>. QED
        BY <3>7, <4>1, <4>2 DEF Discover
    <3>8. CASE NextTarget(r)
      BY <3>8 DEF NextTarget, InSeq, MutexInv
    <3>9. CASE GetInRelease(r)
      BY <3>9 DEF GetInRelease, Learn, Fails, Blank
    <3>10. CASE GetRelease(r)
      BY <3>10, StoreAssumption DEF GetRelease, Learn, Fails, Exists, Keys
    <3>11. CASE List(r)
      BY <3>11 DEF List, Fails
    <3>12. CASE StartProbe(r)
      BY <3>12, ProbeType DEF StartProbe
    <3>13. CASE ReadFile(r)
      <4>1. PICK f \in unread :
              /\ unread' = unread \ {f}
              /\ \/ Exists(store[f]) /\ Ingest(f, ComponentOf(req[r])) /\ UNCHANGED quiet
                 \/ UNCHANGED cacheVars /\ quiet' \subseteq quiet
        BY <3>13 DEF ReadFile, Fails
      <4>2. CASE Exists(store[f]) /\ Ingest(f, ComponentOf(req[r])) /\ UNCHANGED quiet
        <5>1. /\ indexes' \in [Codenames -> [Keys -> SUBSET Stanzas]]
              /\ knownComponents' \subseteq Keys /\ knownArchs' \subseteq Archs
          <6>. HIDE DEF WorkInv, Goto, PCs, Syncing, Working
          <6>. QED
            BY <4>1, <4>2, IngestType
        <5>2. UNCHANGED <<releaseMeta, knownCodenames>>
          BY <4>2 DEF Ingest
        <5>. QED
          BY <3>13, <4>1, <4>2, <5>1, <5>2 DEF ReadFile
      <4>3. CASE UNCHANGED cacheVars /\ quiet' \subseteq quiet
        BY <3>13, <4>1, <4>3 DEF ReadFile
      <4>. QED
        BY <4>1, <4>2, <4>3
    <3>14. CASE EndProbe(r)
      BY <3>14 DEF EndProbe
    <3>. QED
      BY <2>5, <3>1, <3>2, <3>3, <3>4, <3>5, <3>6, <3>7, <3>8, <3>9, <3>10,
         <3>11, <3>12, <3>13, <3>14 DEF Proceed
  <2>. QED
    BY <2>1, <2>2, <2>3, <2>4, <2>5 DEF Next
<1>. QED
  BY <1>1, <1>2, MutexTheorem, PTL DEF Spec

-----------------------------------------------------------------------------
\* What ingesting a file does to the cache.
LEMMA IngestEffect ==
    ASSUME TypeOK, cur \in Codenames, NEW f \in Files, NEW default, Ingest(f, default)
    PROVE  \A c \in Codenames, k \in Keys :
              indexes'[c][k] = IF c = cur
                               THEN Merged(indexes[c][k], {s \in store[f] : KeyOf(f, s, default) = k})
                               ELSE indexes[c][k]
BY DEF Ingest, TypeOK

\* The cache changes only by a file that is ingested, and what is known stays known.
LEMMA CacheStep ==
    ASSUME TypeOK, WorkInv, [Next]_vars
    PROVE  /\ \/ UNCHANGED indexes
              \/ \E r \in Clients, f \in Files :
                    /\ pc[r] \in {"read", "probe"} /\ cur \in Codenames /\ f \in unread
                    /\ Exists(store[f]) /\ Ingest(f, ComponentOf(req[r]))
                    /\ UNCHANGED <<pc, settled, found>>
           /\ \A c \in Codenames : InSeq(c, knownCodenames) => InSeq(c, knownCodenames')
           /\ knownComponents \subseteq knownComponents' /\ knownArchs \subseteq knownArchs'
<1>. USE DEF cacheVars, vars
<1>1. CASE UNCHANGED cacheVars
  BY <1>1
<1>2. ASSUME NEW r \in Clients, NextTarget(r) PROVE UNCHANGED <<indexes, knownComponents, knownArchs>>
                        /\ \A c \in Codenames : InSeq(c, knownCodenames) => InSeq(c, knownCodenames')
  <2>1. UNCHANGED <<indexes, knownComponents, knownArchs>>
    BY <1>2 DEF NextTarget
  <2>2. PICK d \in targets :
          knownCodenames' = IF InSeq(d, knownCodenames) THEN knownCodenames
                                                       ELSE Append(knownCodenames, d)
    BY <1>2 DEF NextTarget
  <2>3. d \in Codenames /\ knownCodenames \in Seq(Codenames)
    BY DEF TypeOK
  <2>4. /\ Len(Append(knownCodenames, d)) = Len(knownCodenames) + 1
        /\ \A i \in 1..Len(knownCodenames) : Append(knownCodenames, d)[i] = knownCodenames[i]
    BY <2>3
  <2>5. ASSUME NEW c, InSeq(c, knownCodenames) PROVE InSeq(c, Append(knownCodenames, d))
    <3>1. PICK i \in 1..Len(knownCodenames) : knownCodenames[i] = c
      BY <2>5 DEF InSeq
    <3>2. i \in 1..(Len(knownCodenames) + 1)
      BY <2>3
    <3>. QED
      BY <2>4, <3>1, <3>2 DEF InSeq
  <2>. QED
    BY <2>1, <2>2, <2>5
<1>3. ASSUME NEW r \in Clients, GetInRelease(r) \/ GetRelease(r) \/ StartProbe(r)
      PROVE  /\ UNCHANGED <<indexes, knownCodenames>>
             /\ knownComponents \subseteq knownComponents' /\ knownArchs \subseteq knownArchs'
  BY <1>3 DEF GetInRelease, GetRelease, StartProbe, Learn
<1>4. ASSUME NEW r \in Clients, ReadFile(r)
      PROVE  \/ UNCHANGED cacheVars
             \/ /\ \E f \in Files :
                       /\ pc[r] \in {"read", "probe"} /\ cur \in Codenames /\ f \in unread
                       /\ Exists(store[f]) /\ Ingest(f, ComponentOf(req[r]))
                       /\ UNCHANGED <<pc, settled, found>>
                /\ UNCHANGED knownCodenames
                /\ knownComponents \subseteq knownComponents' /\ knownArchs \subseteq knownArchs'
  <2>1. pc[r] \in {"read", "probe"} /\ cur \in Codenames /\ UNCHANGED <<pc, settled, found>>
    BY <1>4 DEF ReadFile, WorkInv, Working, Syncing, readVars
  <2>2. PICK f \in unread : \/ Exists(store[f]) /\ Ingest(f, ComponentOf(req[r]))
                            \/ UNCHANGED cacheVars
    BY <1>4 DEF ReadFile
  <2>3. f \in Files
    BY DEF TypeOK
  <2>4. CASE Exists(store[f]) /\ Ingest(f, ComponentOf(req[r]))
    <3>1. /\ knownComponents \subseteq knownComponents' /\ knownArchs \subseteq knownArchs'
          /\ UNCHANGED knownCodenames
      BY <2>4 DEF Ingest
    <3>. QED
      BY <2>1, <2>3, <2>4, <3>1
  <2>. QED
    BY <2>2, <2>4
<1>5. CASE PutIndex \/ PutRelease \/ PutInRelease
  BY <1>1, <1>5 DEF PutIndex, PutRelease, PutInRelease, Put
<1>6. ASSUME NEW r \in Clients,
             \/ Ask(r) \/ Lock(r) \/ Drained(r) \/ Unlock(r) \/ RLock(r) \/ Collect(r)
             \/ Discover(r) \/ List(r) \/ EndProbe(r)
      PROVE  UNCHANGED cacheVars
  BY <1>6 DEF Ask, Lock, Drained, Unlock, RLock, Collect, Discover, List, EndProbe
<1>. QED
  BY <1>1, <1>2, <1>3, <1>4, <1>5, <1>6 DEF Next, Proceed

\* Two stanzas of one package, architecture and version are never cached together.
THEOREM OneStanzaTheorem == Spec => []OneStanzaEach
<1>1. Init => OneStanzaEach
  BY DEF Init, OneStanzaEach, Empty
<1>2. TypeOK /\ WorkInv /\ OneStanzaEach /\ [Next]_vars => OneStanzaEach'
  <2>. SUFFICES ASSUME TypeOK, WorkInv, OneStanzaEach, [Next]_vars PROVE OneStanzaEach'
    OBVIOUS
  <2>1. CASE UNCHANGED indexes
    BY <2>1 DEF OneStanzaEach
  <2>2. ASSUME NEW r \in Clients, NEW f \in Files, cur \in Codenames,
               Exists(store[f]), Ingest(f, ComponentOf(req[r]))
        PROVE  OneStanzaEach'
    <3>1. \A c \in Codenames, k \in Keys :
              indexes'[c][k] = IF c = cur
                  THEN Merged(indexes[c][k], {s \in store[f] : KeyOf(f, s, ComponentOf(req[r])) = k})
                  ELSE indexes[c][k]
      BY <2>2, IngestEffect
    <3>2. \A s, t \in store[f] : SameStanza(s, t) => s = t
      BY <2>2, ContentsType
    <3>3. SUFFICES ASSUME NEW c \in Codenames, NEW k \in Keys,
                          NEW s \in indexes'[c][k], NEW t \in indexes'[c][k], SameStanza(s, t)
                   PROVE  s = t
      BY DEF OneStanzaEach
    <3>4. \A x, y : SameStanza(x, y) => SameStanza(y, x)
      BY DEF SameStanza
    <3>. QED
      <4>. DEFINE new == {x \in store[f] : KeyOf(f, x, ComponentOf(req[r])) = k}
      <4>1. CASE c = cur
        <5>1. {s, t} \subseteq {x \in indexes[c][k] : \A y \in new : ~SameStanza(x, y)} \cup new
          BY <3>1, <4>1 DEF Merged
        <5>2. new \subseteq store[f]
          OBVIOUS
        <5>. HIDE DEF new
        <5>. QED
          BY <3>2, <3>3, <3>4, <5>1, <5>2 DEF OneStanzaEach
      <4>2. CASE c # cur
        BY <3>1, <3>3, <4>2 DEF OneStanzaEach
      <4>. QED
        BY <4>1, <4>2
  <2>. QED
    BY <2>1, <2>2, CacheStep
<1>. QED
  BY <1>1, <1>2, TypeCorrect, PTL DEF Spec

\* A sync reads files of its codename, or of longer ones.
UnreadInv == \A r \in Clients : pc[r] \in {"read", "probe"} =>
    \A f \in unread : f.codename \in {cur} \cup LongerNames[cur]

LEMMA UnreadInvariant == Spec => []UnreadInv
<1>1. Init => UnreadInv
  BY DEF Init, UnreadInv
<1>2. TypeOK /\ MutexInv /\ UnreadInv /\ [Next]_vars => UnreadInv'
  <2>. SUFFICES ASSUME TypeOK, MutexInv, UnreadInv, [Next]_vars PROVE UnreadInv'
    OBVIOUS
  <2>. USE DEF UnreadInv, Goto, syncVars
  <2>. pc \in [Clients -> PCs]
    BY DEF TypeOK
  <2>1. CASE UNCHANGED vars
    BY <2>1 DEF vars
  <2>2. CASE PutIndex \/ PutRelease \/ PutInRelease
    BY <2>2 DEF PutIndex, PutRelease, PutInRelease, Put
  <2>3. ASSUME NEW r \in Clients,
               \/ Ask(r) \/ Lock(r) \/ Drained(r) \/ RLock(r) \/ Collect(r)
               \/ Discover(r) \/ GetInRelease(r) \/ GetRelease(r) \/ EndProbe(r)
        PROVE  UnreadInv'
    <3>1. UNCHANGED <<cur, unread>>
      BY <2>3 DEF Ask, Lock, Drained, RLock, Collect, Discover, GetInRelease, GetRelease, EndProbe
    <3>2. \A q \in Clients : pc'[q] \in {"read", "probe"} => pc'[q] = pc[q]
      BY <2>3 DEF Ask, Lock, Drained, RLock, Collect, Discover, GetInRelease, GetRelease, EndProbe
    <3>. QED
      BY <3>1, <3>2
  <2>4. ASSUME NEW r \in Clients, NextTarget(r) \/ Unlock(r) PROVE UnreadInv'
    <3>1. /\ pc[r] = "target"
          /\ \A q \in Clients : pc'[q] \in {"read", "probe"} => pc'[q] = pc[q] /\ q # r
      BY <2>4 DEF NextTarget, Unlock
    <3>. QED
      BY <3>1 DEF MutexInv, Syncing
  <2>5. ASSUME NEW r \in Clients, List(r) PROVE UnreadInv'
    BY <2>5 DEF List
  <2>6. ASSUME NEW r \in Clients, StartProbe(r) PROVE UnreadInv'
    BY <2>6 DEF StartProbe, Probes
  <2>7. ASSUME NEW r \in Clients, ReadFile(r) PROVE UnreadInv'
    BY <2>7 DEF ReadFile
  <2>. QED
    BY <2>1, <2>2, <2>3, <2>4, <2>5, <2>6, <2>7 DEF Next, Proceed
<1>. QED
  BY <1>1, <1>2, MutexTheorem, TypeCorrect, PTL DEF Spec

\* Nothing is shown under a codename and component unless a file of theirs, or a flat
\* one, may contain it: stanzas of longer codenames, listed by prefix, are kept apart,
\* and all that is shown under dists is theirs, or belongs to no other component.
THEOREM StoredTheorem == Spec => []ShownWhereStored
<1>1. Init => ShownWhereStored
  BY DEF Init, ShownWhereStored, Empty
<1>2. TypeOK /\ WorkInv /\ UnreadInv /\ ShownWhereStored /\ [Next]_vars => ShownWhereStored'
  <2>. SUFFICES ASSUME TypeOK, WorkInv, UnreadInv, ShownWhereStored, [Next]_vars
                PROVE  ShownWhereStored'
    OBVIOUS
  <2>1. CASE UNCHANGED indexes
    BY <2>1 DEF ShownWhereStored
  <2>2. ASSUME NEW r \in Clients, NEW f \in Files, pc[r] \in {"read", "probe"},
               cur \in Codenames, f \in unread,
               Exists(store[f]), Ingest(f, ComponentOf(req[r]))
        PROVE  ShownWhereStored'
    <3>. SUFFICES ASSUME NEW c \in Codenames, NEW k \in Keys, NEW s \in indexes'[c][k]
                  PROVE  \E g \in Files :
                            /\ s \in UNION ContentsOf[g]
                            /\ \/ g.codename = c /\ g.comp = k
                               \/ g.codename = c /\ g.comp = Flat /\ s.comp \in {k, Unset}
                               \/ k = Dists /\ g.codename \in LongerNames[c]
      BY DEF ShownWhereStored
    <3>1. CASE s \in indexes[c][k]
      BY <3>1 DEF ShownWhereStored
    <3>2. CASE c = cur /\ s \in store[f] /\ KeyOf(f, s, ComponentOf(req[r])) = k
      <4>1. s \in UNION ContentsOf[f]
        BY <2>2, <3>2, ContentsType
      <4>2. CASE f.codename = c
        BY <3>2, <4>1, <4>2, NameAssumption DEF KeyOf, OrCfg
      <4>3. CASE f.codename # c
        <5>1. k = Dists /\ f.codename \in LongerNames[c]
          BY <2>2, <3>2, <4>3 DEF KeyOf, UnreadInv
        <5>. QED
          BY <4>1, <5>1
      <4>. QED
        BY <4>2, <4>3
    <3>3. indexes'[c][k] = IF c = cur
              THEN Merged(indexes[c][k], {t \in store[f] : KeyOf(f, t, ComponentOf(req[r])) = k})
              ELSE indexes[c][k]
      BY <2>2, IngestEffect
    <3>4. s \in indexes[c][k]
          \/ (c = cur /\ s \in store[f] /\ KeyOf(f, s, ComponentOf(req[r])) = k)
      BY <3>3 DEF Merged
    <3>. QED
      BY <3>1, <3>2, <3>4
  <2>. QED
    BY <2>1, <2>2, CacheStep
<1>. QED
  BY <1>1, <1>2, TypeCorrect, UnreadInvariant, PTL DEF Spec

\* Also while a sync is under way, what is cached is listed.
ListedInv ==
    \A c \in Codenames, k \in Keys : \A s \in indexes[c][k] :
        InSeq(c, knownCodenames) /\ k \in knownComponents /\ s.arch \in knownArchs

\* Every cached stanza can be reached from the lists that the browser offers.
THEOREM ListedTheorem == Spec => [](ListedInv /\ EverythingIsListed)
<1>1. Init => ListedInv
  BY DEF Init, ListedInv, Empty
<1>2. TypeOK /\ WorkInv /\ ListedInv /\ [Next]_vars => ListedInv'
  <2>. SUFFICES ASSUME TypeOK, WorkInv, ListedInv, [Next]_vars PROVE ListedInv'
    OBVIOUS
  <2>1. CASE UNCHANGED indexes
    BY <2>1, CacheStep DEF ListedInv
  <2>2. ASSUME NEW r \in Clients, NEW f \in Files, pc[r] \in {"read", "probe"}, cur \in Codenames,
               Exists(store[f]), Ingest(f, ComponentOf(req[r]))
        PROVE  ListedInv'
    <3>. SUFFICES ASSUME NEW c \in Codenames, NEW k \in Keys, NEW s \in indexes'[c][k]
                  PROVE  InSeq(c, knownCodenames') /\ k \in knownComponents' /\ s.arch \in knownArchs'
      BY DEF ListedInv
    <3>1. CASE s \in indexes[c][k]
      BY <3>1, CacheStep DEF ListedInv
    <3>2. CASE c = cur /\ s \in store[f] /\ KeyOf(f, s, ComponentOf(req[r])) = k
      <4>1. InSeq(cur, knownCodenames) /\ UNCHANGED knownCodenames
        BY <2>2 DEF WorkInv, Working, Syncing, Ingest
      <4>. QED
        BY <2>2, <3>2, <4>1 DEF Ingest
    <3>3. indexes'[c][k] = IF c = cur
              THEN Merged(indexes[c][k], {t \in store[f] : KeyOf(f, t, ComponentOf(req[r])) = k})
              ELSE indexes[c][k]
      BY <2>2, IngestEffect
    <3>. QED
      BY <3>1, <3>2, <3>3 DEF Merged
  <2>. QED
    BY <2>1, <2>2, CacheStep
<1>3. ListedInv => EverythingIsListed
  BY DEF ListedInv, EverythingIsListed
<1>. QED
  BY <1>1, <1>2, <1>3, TypeCorrect, PTL DEF Spec

-----------------------------------------------------------------------------
\* While no sync has the mutex, the catalogue is the cache; until a sync ends, it is a
\* cache whose stanzas are still there.
SettledInv ==
    /\ (\A r \in Clients : pc[r] \notin Syncing) => settled = indexes
    /\ \A c \in Codenames, k \in Keys : \A s \in settled[c][k] :
          \E t \in indexes[c][k] : SameStanza(s, t)

\* A reader has found what the cache has of the architectures it has looked at.
ReadInv ==
    \A r \in Clients :
        /\ pc[r] = "idle" => found[r] = {}
        /\ pc[r] \notin {"idle", "reading", "answered"} => found[r] = {} /\ left[r] = Archs
        /\ pc[r] = "reading" => found[r] = UNION {Collected(req[r], a) : a \in Archs \ left[r]}

\* A sync keeps the mutex, and what readers have found, except where it unlocks it.
LEMMA PcStep ==
    ASSUME MutexInv, [Next]_vars
    PROVE  \/ \E r \in Clients : Ask(r) \/ Collect(r)
           \/ /\ UNCHANGED <<req, found, left>>
              /\ \A q \in Clients :
                    /\ pc'[q] \in {"idle", "answered"} <=> pc[q] \in {"idle", "answered"}
                    /\ pc'[q] = "idle" => pc[q] = "idle"
                    /\ pc[q] = "reading" => pc'[q] = "reading"
                    /\ pc'[q] = "reading" => pc[q] \in {"reading", "rlock", "rwait"}
              /\ \/ \E r \in Clients : Unlock(r)
                 \/ /\ UNCHANGED settled
                    /\ \A q \in Clients : pc[q] \in Syncing => pc'[q] \in Syncing
<1>. USE DEF MutexInv, Syncing, Goto, readVars, PCs
<1>1. CASE UNCHANGED vars
  BY <1>1 DEF vars
<1>2. CASE PutIndex \/ PutRelease \/ PutInRelease
  BY <1>2 DEF PutIndex, PutRelease, PutInRelease, Put
<1>3. ASSUME NEW r \in Clients, Unlock(r)
      PROVE  /\ UNCHANGED <<req, found, left>>
             /\ \A q \in Clients :
                   /\ pc'[q] \in {"idle", "answered"} <=> pc[q] \in {"idle", "answered"}
                   /\ pc'[q] = "idle" => pc[q] = "idle"
                   /\ pc[q] = "reading" => pc'[q] = "reading"
                   /\ pc'[q] = "reading" => pc[q] \in {"reading", "rlock", "rwait"}
  BY <1>3 DEF Unlock
<1>4. ASSUME NEW r \in Clients, Lock(r) \/ Drained(r) \/ RLock(r)
      PROVE  /\ UNCHANGED <<req, found, left, settled>>
             /\ \A q \in Clients :
                   /\ pc'[q] \in {"idle", "answered"} <=> pc[q] \in {"idle", "answered"}
                   /\ pc'[q] = "idle" => pc[q] = "idle"
                   /\ pc[q] = "reading" => pc'[q] = "reading"
                   /\ pc'[q] = "reading" => pc[q] \in {"reading", "rlock", "rwait"}
                   /\ pc[q] \in Syncing => pc'[q] \in Syncing
  BY <1>4 DEF Lock, Drained, RLock
<1>5. ASSUME NEW r \in Clients,
             \/ Discover(r) \/ NextTarget(r) \/ GetInRelease(r) \/ GetRelease(r)
             \/ List(r) \/ StartProbe(r) \/ ReadFile(r) \/ EndProbe(r)
      PROVE  /\ UNCHANGED <<req, found, left, settled>>
             /\ \A q \in Clients : \/ pc'[q] = pc[q]
                                   \/ pc[q] \in Syncing /\ pc'[q] \in Syncing
  BY <1>5 DEF Discover, NextTarget, GetInRelease, GetRelease, List, StartProbe, ReadFile, EndProbe
<1>. QED
  BY <1>1, <1>2, <1>3, <1>4, <1>5 DEF Next, Proceed

\* While somebody reads, nobody writes.
LEMMA ReadersKeepCache ==
    ASSUME MutexInv, [Next]_vars, NEW q \in Clients, pc[q] = "reading"
    PROVE  UNCHANGED cacheVars
<1>. USE DEF cacheVars
<1>1. CASE UNCHANGED vars
  BY <1>1 DEF vars
<1>2. CASE PutIndex \/ PutRelease \/ PutInRelease
  BY <1>2 DEF PutIndex, PutRelease, PutInRelease, Put
<1>3. ASSUME NEW r \in Clients,
             \/ Ask(r) \/ Lock(r) \/ Drained(r) \/ Unlock(r) \/ RLock(r) \/ Collect(r)
             \/ Discover(r) \/ List(r) \/ EndProbe(r)
      PROVE  UNCHANGED cacheVars
  BY <1>3 DEF Ask, Lock, Drained, Unlock, RLock, Collect, Discover, List, EndProbe
<1>4. ASSUME NEW r \in Clients,
             NextTarget(r) \/ GetInRelease(r) \/ GetRelease(r) \/ StartProbe(r) \/ ReadFile(r)
      PROVE  FALSE
  <2>1. pc[r] \in Syncing
    BY <1>4 DEF NextTarget, GetInRelease, GetRelease, StartProbe, ReadFile, Syncing
  <2>. QED
    BY <2>1 DEF MutexInv
<1>. QED
  BY <1>1, <1>2, <1>3, <1>4 DEF Next, Proceed

\* A stanza is replaced, if at all, by one of the same version.
LEMMA NothingDropped ==
    ASSUME TypeOK, WorkInv, [Next]_vars, NEW c \in Codenames, NEW k \in Keys,
           NEW s \in indexes[c][k]
    PROVE  \E t \in indexes'[c][k] : SameStanza(s, t)
<1>1. CASE UNCHANGED indexes
  BY <1>1 DEF SameStanza
<1>2. ASSUME NEW r \in Clients, NEW f \in Files, cur \in Codenames,
             Ingest(f, ComponentOf(req[r]))
      PROVE  \E t \in indexes'[c][k] : SameStanza(s, t)
  <2>. DEFINE new == {x \in store[f] : KeyOf(f, x, ComponentOf(req[r])) = k}
  <2>1. indexes'[c][k] \in {Merged(indexes[c][k], new), indexes[c][k]}
    BY <1>2, IngestEffect
  <2>2. \A x \in indexes[c][k] : \E t \in Merged(indexes[c][k], new) : SameStanza(x, t)
    BY DEF Merged, SameStanza
  <2>3. SameStanza(s, s)
    BY DEF SameStanza
  <2>. HIDE DEF new
  <2>. QED
    BY <2>1, <2>2, <2>3
<1>. QED
  BY <1>1, <1>2, CacheStep

LEMMA SettledStep ==
    ASSUME TypeOK, WorkInv, MutexInv, SettledInv, [Next]_vars
    PROVE  SettledInv'
<1>1. ASSUME NEW r \in Clients, Unlock(r)
      PROVE  SettledInv'
  <2>1. settled' = indexes /\ indexes' = indexes
    BY <1>1 DEF Unlock, cacheVars
  <2>2. \A s : SameStanza(s, s)
    BY DEF SameStanza
  <2>. QED
    BY <2>1, <2>2 DEF SettledInv
<1>2. CASE /\ UNCHANGED settled
           /\ \A q \in Clients : pc[q] \in Syncing => pc'[q] \in Syncing
  <2>1. ASSUME \A q \in Clients : pc'[q] \notin Syncing
        PROVE  settled' = indexes'
    <3>1. settled' = indexes
      BY <1>2, <2>1 DEF SettledInv
    <3>2. \A q \in Clients : pc[q] \notin {"read", "probe"}
      BY <1>2, <2>1 DEF Syncing
    <3>. QED
      BY <3>1, <3>2, CacheStep
  <2>2. ASSUME NEW c \in Codenames, NEW k \in Keys, NEW s \in settled'[c][k]
        PROVE  \E t \in indexes'[c][k] : SameStanza(s, t)
    <3>1. PICK t \in indexes[c][k] : SameStanza(s, t)
      BY <1>2, <2>2 DEF SettledInv
    <3>2. PICK u \in indexes'[c][k] : SameStanza(t, u)
      BY NothingDropped
    <3>. QED
      BY <3>1, <3>2 DEF SameStanza
  <2>. QED
    BY <2>1, <2>2 DEF SettledInv
<1>3. ASSUME NEW r \in Clients, Ask(r) \/ Collect(r)
      PROVE  SettledInv'
  <2>1. /\ UNCHANGED settled
        /\ \A q \in Clients : pc[q] \in Syncing => pc'[q] \in Syncing
    BY <1>3 DEF Ask, Collect, Goto, MutexInv, Syncing
  <2>. QED
    BY <1>2, <2>1
<1>. QED
  BY <1>1, <1>2, <1>3, PcStep

LEMMA ReadStep ==
    ASSUME TypeOK, MutexInv, ReadInv, [Next]_vars
    PROVE  ReadInv'
<1>. SUFFICES ASSUME NEW q \in Clients
              PROVE  /\ pc'[q] = "idle" => found'[q] = {}
                     /\ pc'[q] \notin {"idle", "reading", "answered"} =>
                           found'[q] = {} /\ left'[q] = Archs
                     /\ pc'[q] = "reading" =>
                           found'[q] = UNION {Collected(req[q], a)' : a \in Archs \ left'[q]}
  BY DEF ReadInv
<1>1. ASSUME NEW r \in Clients, Ask(r)
      PROVE  /\ pc'[q] = "idle" => found'[q] = {}
             /\ pc'[q] \notin {"idle", "reading", "answered"} =>
                   found'[q] = {} /\ left'[q] = Archs
             /\ pc'[q] = "reading" =>
                   found'[q] = UNION {Collected(req[q], a)' : a \in Archs \ left'[q]}
  <2>1. CASE q = r
    BY <1>1, <2>1 DEF Ask, Goto, TypeOK
  <2>2. CASE q # r
    <3>1. pc'[q] = pc[q] /\ found'[q] = found[q] /\ left'[q] = left[q] /\ req'[q] = req[q]
      BY <1>1, <2>2 DEF Ask, Goto, TypeOK
    <3>2. \A a : Collected(req[q], a)' = Collected(req[q], a)
      BY <1>1, <3>1 DEF Ask, cacheVars, Collected, CodenameOf, ComponentOf
    <3>. QED
      BY <3>1, <3>2 DEF ReadInv
  <2>. QED
    BY <2>1, <2>2
<1>2. ASSUME NEW r \in Clients, Collect(r)
      PROVE  /\ pc'[q] = "idle" => found'[q] = {}
             /\ pc'[q] \notin {"idle", "reading", "answered"} =>
                   found'[q] = {} /\ left'[q] = Archs
             /\ pc'[q] = "reading" =>
                   found'[q] = UNION {Collected(req[q], a)' : a \in Archs \ left'[q]}
  <2>1. UNCHANGED <<cacheVars, req>>
    BY <1>2 DEF Collect
  <2>2. \A a : Collected(req[q], a)' = Collected(req[q], a)
    BY <2>1 DEF cacheVars, Collected, CodenameOf, ComponentOf
  <2>3. CASE q = r
    <3>1. PICK b \in left[q] :
            /\ found' = [found EXCEPT ![q] = @ \cup Collected(req[q], b)]
            /\ left' = [left EXCEPT ![q] = @ \ {b}]
            /\ Goto(q, IF left[q] = {b} THEN "answered" ELSE "reading")
      BY <1>2, <2>3 DEF Collect
    <3>2. found[q] = UNION {Collected(req[q], a) : a \in Archs \ left[q]}
      BY <1>2, <2>3 DEF Collect, ReadInv
    <3>3. Archs \ left'[q] = (Archs \ left[q]) \cup {b}
      BY <3>1 DEF TypeOK
    <3>4. found'[q] = UNION {Collected(req[q], a) : a \in Archs \ left'[q]}
      BY <3>1, <3>2, <3>3 DEF TypeOK
    <3>5. pc'[q] \in {"answered", "reading"}
      BY <3>1 DEF Goto, TypeOK
    <3>. QED
      BY <2>2, <3>4, <3>5
  <2>4. CASE q # r
    <3>1. pc'[q] = pc[q] /\ found'[q] = found[q] /\ left'[q] = left[q]
      BY <1>2, <2>4 DEF Collect, Goto, TypeOK
    <3>. QED
      BY <2>2, <3>1 DEF ReadInv
  <2>. QED
    BY <2>3, <2>4
<1>3. CASE /\ UNCHANGED <<req, found, left>>
           /\ pc'[q] \in {"idle", "answered"} <=> pc[q] \in {"idle", "answered"}
           /\ pc'[q] = "idle" => pc[q] = "idle"
           /\ pc[q] = "reading" => pc'[q] = "reading"
           /\ pc'[q] = "reading" => pc[q] \in {"reading", "rlock", "rwait"}
  <2>1. CASE pc[q] = "reading"
    <3>1. \A a : Collected(req[q], a)' = Collected(req[q], a)
      BY <1>3, <2>1, ReadersKeepCache DEF cacheVars, Collected, CodenameOf, ComponentOf
    <3>. QED
      BY <1>3, <2>1, <3>1 DEF ReadInv
  <2>2. CASE pc[q] \in {"rlock", "rwait"}
    <3>1. found[q] = {} /\ left[q] = Archs
      BY <2>2 DEF ReadInv
    <3>. QED
      BY <1>3, <2>2, <3>1
  <2>3. CASE pc[q] \notin {"reading", "rlock", "rwait"}
    BY <1>3, <2>3 DEF ReadInv
  <2>. QED
    BY <2>1, <2>2, <2>3
<1>. QED
  BY <1>1, <1>2, <1>3, PcStep

-----------------------------------------------------------------------------
RefinementInv ==
    TypeOK /\ WorkInv /\ MutexInv /\ ListedInv /\ OneStanzaEach /\ SettledInv /\ ReadInv

\* The end of a sync changes the catalogue, and nobody's answer.
LEMMA UnlockIsSync ==
    ASSUME RefinementInv, RefinementInv', NEW r \in Clients, Unlock(r)
    PROVE  Shown!Sync
<1>1. settled' = indexes
  BY DEF Unlock
<1>2. \A c \in Codenames, k \in Keys :
        /\ \A s \in settled[c][k] : \E t \in indexes[c][k] : SameStanza(s, t)
        /\ \A s, t \in indexes[c][k] : SameStanza(s, t) => s = t
  BY DEF RefinementInv, SettledInv, OneStanzaEach
<1>3. Answers' = Answers
  <2>1. UNCHANGED found /\ pc' = [q \in Clients |-> IF q = r THEN "rlock"
                                    ELSE IF pc[q] = "rwait" THEN "reading" ELSE pc[q]]
    BY DEF Unlock, readVars
  <2>2. pc[r] = "target"
    BY DEF Unlock
  <2>. QED
    BY <2>1, <2>2 DEF Answers
<1>. QED
  BY <1>1, <1>2, <1>3 DEF Shown!Sync, Shown!SameStanza, SameStanza

\* A client that asks waits for its answer.
LEMMA AskIsAsk ==
    ASSUME RefinementInv, NEW r \in Clients, Ask(r)
    PROVE  Shown!Ask(r)
<1>1. pc[r] = "idle" /\ found[r] = {}
  BY DEF Ask, RefinementInv, ReadInv
<1>2. Answers[r] = {} /\ Unset # {}
  BY <1>1, NameAssumption DEF Answers
<1>3. pc'[r] \notin {"idle", "answered"}
      /\ \A q \in Clients \ {r} : pc'[q] = pc[q] /\ found'[q] = found[q]
  BY DEF Ask, Goto, RefinementInv, TypeOK
<1>4. Answers' = [Answers EXCEPT ![r] = Unset]
  BY <1>3 DEF Answers
<1>. QED
  BY <1>2, <1>4 DEF Shown!Ask, Ask

\* The answer to a client is what the catalogue has, whatever architecture it
\* has looked at first.
LEMMA CollectIsAnswer ==
    ASSUME RefinementInv, NEW r \in Clients, Collect(r)
    PROVE  Shown!Answer(r) \/ UNCHANGED <<settled, Answers>>
<1>. USE DEF RefinementInv
<1>1. PICK b \in left[r] :
        /\ found' = [found EXCEPT ![r] = @ \cup Collected(req[r], b)]
        /\ left' = [left EXCEPT ![r] = @ \ {b}]
        /\ Goto(r, IF left[r] = {b} THEN "answered" ELSE "reading")
  BY DEF Collect
<1>2. pc[r] = "reading" /\ UNCHANGED settled
  BY DEF Collect
<1>3. \A q \in Clients \ {r} : pc'[q] = pc[q] /\ found'[q] = found[q]
  BY <1>1 DEF Goto, TypeOK
<1>4. CASE left[r] # {b}
  <2>1. pc'[r] = "reading"
    BY <1>1, <1>4 DEF Goto, TypeOK
  <2>. QED
    BY <1>2, <1>3, <2>1 DEF Answers
<1>5. CASE left[r] = {b}
  <2>1. pc'[r] = "answered"
    BY <1>1, <1>5 DEF Goto, TypeOK
  <2>2. Answers[r] = Unset /\ Answers' = [Answers EXCEPT ![r] = found'[r]]
    BY <1>2, <1>3, <2>1 DEF Answers
  <2>3. settled = indexes
    BY <1>2 DEF MutexInv, SettledInv
  <2>4. found'[r] = UNION {Collected(req[r], a) : a \in Archs}
    <3>1. found[r] = UNION {Collected(req[r], a) : a \in Archs \ left[r]}
      BY <1>2 DEF ReadInv
    <3>2. Archs = (Archs \ left[r]) \cup {b}
      BY <1>5 DEF TypeOK
    <3>3. found'[r] = found[r] \cup Collected(req[r], b)
      BY <1>1 DEF TypeOK
    <3>. QED
      BY <1>5, <3>1, <3>2, <3>3
  <2>. DEFINE c == CodenameOf(req[r])
              k == ComponentOf(req[r])
              archs == {a \in Archs : req[r].arch \in {Unset, a}}
  <2>5. CASE c # Unset
    <3>1. c \in Codenames /\ k \in Keys
      BY <2>5, RequestType DEF Keys
    <3>2. \A a \in Archs : Collected(req[r], a) =
            IF a \in archs THEN {s \in settled[c][k] : s.arch = a} ELSE {}
      BY <2>3, <2>5 DEF Collected
    <3>3. archs \in SUBSET Archs
      OBVIOUS
    <3>. HIDE DEF c, k, archs
    <3>4. found'[r] = {s \in settled[c][k] : s.arch \in archs}
      <4>1. ASSUME NEW s \in found'[r]
            PROVE  s \in settled[c][k] /\ s.arch \in archs
        <5>1. PICK a \in Archs : s \in Collected(req[r], a)
          BY <2>4
        <5>. QED
          BY <5>1, <3>2
      <4>2. ASSUME NEW s \in settled[c][k], s.arch \in archs
            PROVE  s \in found'[r]
        <5>1. s.arch \in Archs
          BY <3>3, <4>2
        <5>2. s \in Collected(req[r], s.arch)
          BY <3>2, <4>2, <5>1
        <5>. QED
          BY <2>4, <5>1, <5>2
      <4>. QED
        BY <4>1, <4>2
    <3>. QED
      BY <1>2, <2>2, <3>1, <3>3, <3>4 DEF Shown!Answer, Shown!View
  <2>6. CASE c = Unset
    <3>1. knownCodenames = <<>>
      BY <2>6, NameAssumption DEF CodenameOf, TypeOK
    <3>2. \A d \in Codenames, j \in Keys : indexes[d][j] = {}
      BY <3>1 DEF ListedInv, InSeq
    <3>3. settled = [d \in Codenames |-> [j \in Keys |-> {}]]
      BY <2>3, <3>2 DEF TypeOK
    <3>4. found'[r] = {}
      BY <2>4, <2>6 DEF Collected
    <3>. QED
      BY <1>2, <2>2, <3>3, <3>4 DEF Shown!Answer
  <2>. QED
    BY <2>5, <2>6
<1>. QED
  BY <1>4, <1>5

\* The browser implements the catalogue: concurrent requests see the result of whole
\* syncs, in which no stanza is dropped.
THEOREM RefinementTheorem == Spec => ImplementsCatalogue
<1>1. Init => Shown!Init
  BY DEF Init, Shown!Init, Answers, Empty
<1>2. Init => SettledInv /\ ReadInv
  BY DEF Init, SettledInv, ReadInv, Empty
<1>3. TypeOK /\ WorkInv /\ MutexInv /\ SettledInv /\ ReadInv /\ [Next]_vars => SettledInv' /\ ReadInv'
  BY SettledStep, ReadStep
<1>4. Spec => []RefinementInv
  BY <1>2, <1>3, MutexTheorem, TypeCorrect, OneStanzaTheorem, ListedTheorem, PTL DEF Spec, RefinementInv
<1>5. RefinementInv /\ RefinementInv' /\ [Next]_vars => [Shown!Next]_<<settled, Answers>>
  <2>. SUFFICES ASSUME RefinementInv, RefinementInv', [Next]_vars
                PROVE  Shown!Next \/ UNCHANGED <<settled, Answers>>
    OBVIOUS
  <2>1. ASSUME NEW r \in Clients, Unlock(r) PROVE Shown!Next
    BY <2>1, UnlockIsSync DEF Shown!Next
  <2>2. ASSUME NEW r \in Clients, Ask(r) PROVE Shown!Next
    BY <2>2, AskIsAsk DEF Shown!Next
  <2>3. ASSUME NEW r \in Clients, Collect(r)
        PROVE  Shown!Next \/ UNCHANGED <<settled, Answers>>
    BY <2>3, CollectIsAnswer DEF Shown!Next
  <2>4. CASE /\ UNCHANGED <<found, settled>>
             /\ \A q \in Clients : pc'[q] \in {"idle", "answered"} <=> pc[q] \in {"idle", "answered"}
    BY <2>4 DEF Answers
  <2>5. MutexInv
    BY DEF RefinementInv
  <2>. QED
    BY <2>1, <2>2, <2>3, <2>4, <2>5, PcStep
<1>. QED
  BY <1>1, <1>4, <1>5, PTL DEF Spec, ImplementsCatalogue, Shown!Spec

-----------------------------------------------------------------------------
\* What a fetch finds, while other clients sync at the same time.

\* The codenames that the sync of a request is to do, of those that are stored.
Wanted(q) ==
    LET c == OrCfg(q.codename, CfgCodename) IN IF c = Unset THEN Codenames ELSE {c}

Before == {"idle", "lock", "drain", "discover"}

\* The sync of r has yet to read the Release of c, or the file f.
ReleaseAhead(r, c) ==
    \/ pc[r] \in Before
    \/ pc[r] \in Syncing /\ c \in targets
    \/ pc[r] \in {"inrelease", "release"} /\ c = cur

FileAhead(r, f) ==
    \/ pc[r] \in Before
    \/ pc[r] \in Syncing /\ f.codename \in targets
    \/ pc[r] \in {"inrelease", "release", "list"} /\ f.codename = cur
    \/ pc[r] = "read" /\ f.codename = cur /\ f \in unread

\* A stanza of the file f belongs to a component, if that is the default.
Belongs(f, s, k) == f.comp = k \/ (f.comp = Flat /\ s.comp \in {k, Unset})

\* What is stored in f for a component is cached, as it is stored there or elsewhere.
Kept(f, k) ==
    \A s \in store[f] : Belongs(f, s, k) =>
        \E t \in indexes[f.codename][k] \cap Stored(f.codename, k) : SameStanza(s, t)

\* While a client is quiet, what its sync should have read is in the cache.
SyncedInv ==
    \A r \in quiet : req[r].kind = "fetch" =>
        /\ \A c \in Wanted(req[r]) \ signed : Exists(release[c]) =>
              releaseMeta[c] = release[c] \/ ReleaseAhead(r, c)
        /\ \A f \in Files : Exists(store[f]) /\ f.codename \in Wanted(req[r]) =>
              Kept(f, ComponentOf(req[r])) \/ FileAhead(r, f)

\* What is in the cache when a quiet client is answered stays in its answer.  If no
\* codename was known then, nothing is stored.
AnswerInv ==
    \A r \in quiet, c \in Codenames :
        pc[r] = "answered" /\ req[r].kind = "fetch" /\ CodenameOf(req[r]) \in {c, Unset} =>
            \A s \in Stored(c, ComponentOf(req[r])) :
                \E t \in found[r] \cap Stored(c, ComponentOf(req[r])) : SameStanza(s, t)

-----------------------------------------------------------------------------
LEMMA StoredMember ==
    ASSUME NEW c, NEW k \in Components, NEW s
    PROVE  s \in Stored(c, k) <=>
             \E f \in Files :
                 Exists(store[f]) /\ f.codename = c /\ s \in store[f] /\ Belongs(f, s, k)
BY NameAssumption DEF Stored, Belongs

\* A client stays quiet only as long as it is served by the store it asked.
LEMMA QuietStep ==
    ASSUME TypeOK, [Next]_vars, NEW r \in quiet'
    PROVE  /\ r \in Clients
           /\ Ask(r) \/ (r \in quiet /\ req'[r] = req[r] /\ UNCHANGED <<store, release, signed>>)
<1>. USE DEF TypeOK, storeVars
<1>1. CASE UNCHANGED vars
  BY <1>1 DEF vars
<1>2. CASE PutIndex \/ PutRelease \/ PutInRelease
  BY <1>2 DEF PutIndex, PutRelease, PutInRelease, Put
<1>3. ASSUME NEW q \in Clients, Ask(q)
      PROVE  /\ r \in Clients
             /\ Ask(r) \/ (r \in quiet /\ req'[r] = req[r] /\ UNCHANGED <<store, release, signed>>)
  <2>1. CASE q = r
    BY <1>3, <2>1
  <2>2. CASE q # r
    BY <1>3, <2>2 DEF Ask
  <2>. QED
    BY <2>1, <2>2
<1>4. ASSUME NEW q \in Clients,
             \/ Lock(q) \/ Drained(q) \/ Unlock(q) \/ RLock(q) \/ Collect(q) \/ Discover(q)
             \/ NextTarget(q) \/ GetInRelease(q) \/ GetRelease(q)
             \/ List(q) \/ StartProbe(q) \/ ReadFile(q) \/ EndProbe(q)
      PROVE  r \in quiet /\ UNCHANGED <<req, store, release, signed>>
  BY <1>4 DEF Lock, Drained, Unlock, RLock, Collect, Discover, NextTarget, GetInRelease,
              GetRelease, List, StartProbe, ReadFile, EndProbe, Fails
<1>. QED
  BY <1>1, <1>2, <1>3, <1>4 DEF Next, Proceed

\* What others do to a client: the end of their sync lets it read, and while it has
\* the mutex its sync is its own.
LEMMA OthersStep ==
    ASSUME TypeOK, MutexInv, [Next]_vars, NEW r \in Clients,
           ~(Ask(r) \/ Lock(r) \/ Proceed(r))
    PROVE  /\ pc'[r] = pc[r] \/ (pc[r] = "rwait" /\ pc'[r] = "reading")
           /\ pc[r] \in Syncing => UNCHANGED syncVars
           /\ found'[r] = found[r]
<1>. USE DEF TypeOK, MutexInv, Goto, Syncing, readVars
<1>1. CASE UNCHANGED vars
  BY <1>1 DEF vars
<1>2. CASE PutIndex \/ PutRelease \/ PutInRelease
  BY <1>2 DEF PutIndex, PutRelease, PutInRelease, Put
<1>3. ASSUME NEW q \in Clients \ {r}, Ask(q) \/ Lock(q) \/ Drained(q) \/ RLock(q) \/ Collect(q)
      PROVE  pc'[r] = pc[r] /\ UNCHANGED syncVars /\ found'[r] = found[r]
  BY <1>3 DEF Ask, Lock, Drained, RLock, Collect
<1>4. ASSUME NEW q \in Clients \ {r}, Unlock(q)
      PROVE  /\ pc'[r] = pc[r] \/ (pc[r] = "rwait" /\ pc'[r] = "reading")
             /\ pc[r] \notin Syncing
             /\ found'[r] = found[r]
  BY <1>4 DEF Unlock
<1>5. ASSUME NEW q \in Clients \ {r},
             \/ Discover(q) \/ NextTarget(q) \/ GetInRelease(q) \/ GetRelease(q)
             \/ List(q) \/ StartProbe(q) \/ ReadFile(q) \/ EndProbe(q)
      PROVE  pc'[r] = pc[r] /\ pc[r] \notin Syncing /\ found'[r] = found[r]
  BY <1>5 DEF Discover, NextTarget, GetInRelease, GetRelease, List, StartProbe, ReadFile, EndProbe
<1>. QED
  BY <1>1, <1>2, <1>3, <1>4, <1>5 DEF Next, Proceed

-----------------------------------------------------------------------------
\* The codename of a request, once one is known, is one that its sync is to do.
LEMMA WantedCodename ==
    ASSUME TypeOK, NEW r \in Clients, CodenameOf(req[r]) # Unset
    PROVE  CodenameOf(req[r]) \in Codenames \cap Wanted(req[r])
BY RequestType, NameAssumption DEF CodenameOf, Wanted

\* What is to be done is found first, if the client stays quiet: the codename that it
\* asks for, or all that have anything stored.
LEMMA Discovered ==
    ASSUME TypeOK, NEW r \in Clients, Discover(r), r \in quiet'
    PROVE  \A c \in Wanted(req[r]) :
              \/ Exists(release[c])
              \/ \E f \in Files : f.codename = c /\ Exists(store[f])
              => c \in targets'
<1>. DEFINE c == OrCfg(req[r].codename, CfgCodename)
<1>1. ~Fails(r)
  BY DEF Fails
<1>2. CASE c # Unset /\ targets' = {c}
  BY <1>2 DEF Wanted
<1>3. CASE /\ c = Unset
           /\ targets' = {d \in Codenames : \/ Exists(release[d])
                                            \/ \E f \in Files : f.codename = d /\ Exists(store[f])}
  BY <1>3 DEF Wanted
<1>. QED
  BY <1>1, <1>2, <1>3 DEF Discover

\* The cached manifest of a codename that is not signed is replaced only by what is
\* stored.
LEMMA MetaStays ==
    ASSUME TypeOK, WorkInv, [Next]_vars, NEW c \in Codenames \ signed, releaseMeta[c] = release[c]
    PROVE  releaseMeta'[c] = release[c]
<1>1. CASE UNCHANGED releaseMeta
  BY <1>1
<1>2. ASSUME NEW m, cur \in Codenames, cur = c => m = release[c], Learn(m)
      PROVE  releaseMeta'[c] = release[c]
  BY <1>2 DEF Learn, TypeOK
<1>3. ASSUME NEW r \in Clients, GetInRelease(r) \/ GetRelease(r)
      PROVE  releaseMeta'[c] = release[c]
  <2>1. cur \in Codenames
    BY <1>3 DEF GetInRelease, GetRelease, WorkInv, Working, Syncing
  <2>2. \/ UNCHANGED releaseMeta
        \/ cur \in signed /\ Learn(Blank)
        \/ Learn(release[cur])
    BY <1>3 DEF GetInRelease, GetRelease, cacheVars
  <2>. QED
    BY <1>2, <2>1, <2>2
<1>4. ASSUME NEW r \in Clients,
             \/ Ask(r) \/ Lock(r) \/ Drained(r) \/ Unlock(r) \/ RLock(r) \/ Collect(r)
             \/ Discover(r) \/ NextTarget(r) \/ List(r) \/ StartProbe(r) \/ EndProbe(r)
      PROVE  UNCHANGED releaseMeta
  BY <1>4 DEF Ask, Lock, Drained, Unlock, RLock, Collect, Discover, NextTarget, List,
              StartProbe, EndProbe, cacheVars
<1>5. ASSUME NEW r \in Clients, ReadFile(r) PROVE UNCHANGED releaseMeta
  BY <1>5 DEF ReadFile, Ingest, cacheVars
<1>6. CASE PutIndex \/ PutRelease \/ PutInRelease \/ UNCHANGED vars
  BY <1>6 DEF PutIndex, PutRelease, PutInRelease, Put, vars, cacheVars
<1>. QED
  BY <1>1, <1>3, <1>4, <1>5, <1>6 DEF Next, Proceed

\* A sync reads the Release that it is to read, or the client is not quiet.
LEMMA ReleaseTurn ==
    ASSUME TypeOK, WorkInv, MutexInv, [Next]_vars, NEW r \in quiet', ~Ask(r),
           NEW c \in Wanted(req[r]) \ signed, Exists(release[c]), ReleaseAhead(r, c)
    PROVE  ReleaseAhead(r, c)' \/ releaseMeta'[c] = release[c]
<1>. USE DEF ReleaseAhead, Before, Syncing
<1>1. r \in Clients /\ ~Fails(r)
  BY QuietStep DEF Fails
<1>2. CASE ~(Ask(r) \/ Lock(r) \/ Proceed(r))
  BY <1>1, <1>2, OthersStep DEF syncVars
<1>3. CASE Lock(r) \/ Drained(r)
  BY <1>1, <1>3 DEF Lock, Drained, Goto, TypeOK
<1>4. CASE Discover(r)
  <2>1. c \in targets'
    BY <1>1, <1>4, Discovered
  <2>2. pc'[r] = "target"
    BY <1>1, <1>4 DEF Discover, Goto, TypeOK
  <2>. QED
    BY <2>1, <2>2
<1>5. CASE Unlock(r) \/ RLock(r) \/ Collect(r)
  BY <1>5 DEF Unlock, RLock, Collect
<1>6. CASE NextTarget(r)
  <2>1. pc[r] = "target" /\ pc'[r] = "inrelease" /\ targets' = targets \ {cur'}
    BY <1>1, <1>6 DEF NextTarget, Goto, TypeOK
  <2>. QED
    BY <2>1
<1>7. CASE GetInRelease(r)
  <2>1. pc[r] = "inrelease" /\ pc'[r] \in Syncing /\ UNCHANGED syncVars
        /\ (cur \notin signed => pc'[r] = "release")
    BY <1>1, <1>7 DEF GetInRelease, Goto, TypeOK
  <2>. QED
    BY <2>1 DEF syncVars
<1>8. CASE GetRelease(r)
  <2>1. pc[r] = "release" /\ pc'[r] = "list" /\ UNCHANGED syncVars
        /\ (Exists(release[cur]) => Learn(release[cur]))
    BY <1>1, <1>8 DEF GetRelease, Goto, TypeOK
  <2>2. CASE c = cur
    <3>1. cur \in Codenames
      BY <2>1, <1>1 DEF WorkInv, Working
    <3>. QED
      BY <2>1, <2>2, <3>1 DEF Learn, TypeOK
  <2>. QED
    BY <2>1, <2>2 DEF syncVars
<1>9. CASE List(r) \/ StartProbe(r) \/ EndProbe(r)
  <2>1. pc[r] \in {"list", "read", "probe"} /\ pc'[r] \in Syncing /\ UNCHANGED targets
    BY <1>1, <1>9 DEF List, StartProbe, EndProbe, syncVars, Goto, TypeOK
  <2>. QED
    BY <2>1
<1>10. CASE ReadFile(r)
  <2>1. pc[r] \in {"read", "probe"} /\ UNCHANGED <<pc, targets>>
    BY <1>10 DEF ReadFile
  <2>. QED
    BY <2>1
<1>. QED
  BY <1>2, <1>3, <1>4, <1>5, <1>6, <1>7, <1>8, <1>9, <1>10 DEF Proceed

-----------------------------------------------------------------------------
\* What is ingested for a component is stored for it.
LEMMA IngestedIsStored ==
    ASSUME NEW f \in Files, Exists(store[f]), NEW default, NEW k \in Components,
           NEW s \in store[f], KeyOf(f, s, default) = k
    PROVE  f.codename = cur /\ s \in Stored(cur, k)
<1>1. f.codename = cur /\ Belongs(f, s, k)
  BY NameAssumption DEF KeyOf, OrCfg, Belongs
<1>. QED
  BY <1>1, StoredMember

\* What is cached as it is stored can only be replaced by something that is stored.
LEMMA KeptStays ==
    ASSUME TypeOK, WorkInv, [Next]_vars, NEW f \in Files, NEW k \in Components,
           Kept(f, k), UNCHANGED store
    PROVE  Kept(f, k)'
<1>. DEFINE c == f.codename
<1>1. Stored(c, k)' = Stored(c, k) /\ c \in Codenames /\ k \in Keys
  BY StoreAssumption DEF Stored, Exists, Keys
<1>2. SUFFICES ASSUME NEW s \in store[f], Belongs(f, s, k)
               PROVE  \E t \in indexes'[c][k] \cap Stored(c, k) : SameStanza(s, t)
  BY <1>1 DEF Kept, Belongs
<1>3. PICK t \in indexes[c][k] \cap Stored(c, k) : SameStanza(s, t)
  BY <1>2 DEF Kept
<1>4. CASE UNCHANGED indexes
  BY <1>3, <1>4
<1>5. ASSUME NEW r \in Clients, NEW g \in Files, cur \in Codenames,
             Exists(store[g]), Ingest(g, ComponentOf(req[r]))
      PROVE  \E u \in indexes'[c][k] \cap Stored(c, k) : SameStanza(s, u)
  <2>. DEFINE new == {x \in store[g] : KeyOf(g, x, ComponentOf(req[r])) = k}
  <2>1. indexes'[c][k] = IF c = cur THEN Merged(indexes[c][k], new) ELSE indexes[c][k]
    BY <1>1, <1>5, IngestEffect
  <2>2. c = cur => new \subseteq Stored(c, k)
    BY <1>5, IngestedIsStored
  <2>3. t \in Merged(indexes[c][k], new) \/ \E u \in new : SameStanza(t, u)
    BY <1>3 DEF Merged
  <2>4. new \subseteq Merged(indexes[c][k], new)
    BY DEF Merged
  <2>. HIDE DEF new, c
  <2>5. CASE \E u \in new : SameStanza(t, u) /\ c = cur
    BY <1>3, <2>1, <2>2, <2>4, <2>5 DEF SameStanza
  <2>. QED
    BY <1>3, <2>1, <2>3, <2>5
<1>. QED
  BY <1>4, <1>5, CacheStep

\* A file that is ingested for the component it is wanted for is kept.
LEMMA IngestedIsKept ==
    ASSUME TypeOK, cur \in Codenames, NEW f \in Files, f.codename = cur, Exists(store[f]),
           NEW k \in Components, Ingest(f, k), UNCHANGED <<store, cur>>
    PROVE  Kept(f, k)'
<1>1. Stored(cur, k)' = Stored(cur, k) /\ k \in Keys
  BY DEF Ingest, Stored, Exists, Keys
<1>. SUFFICES ASSUME NEW s \in store[f], Belongs(f, s, k)
              PROVE  s \in indexes'[cur][k] /\ s \in Stored(cur, k)' /\ SameStanza(s, s)
  BY DEF Kept, Belongs
<1>2. s \in Stored(cur, k) /\ SameStanza(s, s)
  BY StoredMember DEF SameStanza
<1>3. KeyOf(f, s, k) = k
  BY NameAssumption DEF KeyOf, OrCfg, Belongs
<1>4. indexes'[cur][k] = Merged(indexes[cur][k], {x \in store[f] : KeyOf(f, x, k) = k})
  BY <1>1, IngestEffect
<1>. QED
  BY <1>1, <1>2, <1>3, <1>4 DEF Merged

\* A sync caches the file that it is to read, or the client is not quiet.
LEMMA FileTurn ==
    ASSUME TypeOK, WorkInv, MutexInv, [Next]_vars, NEW r \in quiet', ~Ask(r), UNCHANGED store,
           NEW f \in Files, Exists(store[f]), f.codename \in Wanted(req[r]), FileAhead(r, f)
    PROVE  FileAhead(r, f)' \/ Kept(f, ComponentOf(req[r]))'
<1>. USE DEF FileAhead, Before, Syncing
<1>1. r \in Clients /\ ~Fails(r)
  BY QuietStep DEF Fails
<1>2. CASE ~(Ask(r) \/ Lock(r) \/ Proceed(r))
  BY <1>1, <1>2, OthersStep DEF syncVars
<1>3. CASE Lock(r) \/ Drained(r)
  BY <1>1, <1>3 DEF Lock, Drained, Goto, TypeOK
<1>4. CASE Discover(r)
  <2>1. f.codename \in targets'
    BY <1>1, <1>4, Discovered
  <2>2. pc'[r] = "target"
    BY <1>1, <1>4 DEF Discover, Goto, TypeOK
  <2>. QED
    BY <2>1, <2>2
<1>5. CASE Unlock(r) \/ RLock(r) \/ Collect(r)
  BY <1>5 DEF Unlock, RLock, Collect
<1>6. CASE NextTarget(r)
  <2>1. pc[r] = "target" /\ pc'[r] = "inrelease" /\ targets' = targets \ {cur'}
    BY <1>1, <1>6 DEF NextTarget, Goto, TypeOK
  <2>. QED
    BY <2>1
<1>7. CASE GetInRelease(r) \/ GetRelease(r)
  <2>1. pc[r] \in {"inrelease", "release"} /\ pc'[r] \in {"release", "list"} /\ UNCHANGED syncVars
    BY <1>1, <1>7 DEF GetInRelease, GetRelease, Goto, TypeOK
  <2>. QED
    BY <2>1 DEF syncVars
<1>8. CASE List(r)
  <2>1. /\ pc[r] = "list" /\ pc'[r] = "read" /\ UNCHANGED <<targets, cur>>
        /\ unread' = {g \in Files : Exists(store[g]) /\ g.codename \in {cur} \cup LongerNames[cur]}
    BY <1>1, <1>8 DEF List, Goto, TypeOK
  <2>. QED
    BY <2>1
<1>9. CASE StartProbe(r) \/ EndProbe(r)
  <2>1. /\ \/ pc[r] = "read" /\ unread = {}
           \/ pc[r] = "probe"
        /\ pc'[r] \in Syncing /\ UNCHANGED targets
    BY <1>1, <1>9 DEF StartProbe, EndProbe, syncVars, Goto, TypeOK
  <2>. QED
    BY <2>1
<1>10. CASE ReadFile(r)
  <2>1. /\ pc[r] \in {"read", "probe"} /\ UNCHANGED <<pc, targets, cur>>
    BY <1>10 DEF ReadFile
  <2>2. PICK g \in unread :
          /\ unread' = unread \ {g}
          /\ \/ Exists(store[g]) /\ Ingest(g, ComponentOf(req[r]))
             \/ ~Exists(store[g])
    BY <1>1, <1>10 DEF ReadFile
  <2>3. cur \in Codenames /\ ComponentOf(req[r]) \in Components
    BY <1>1, <2>1, RequestType DEF WorkInv, Working
  <2>4. CASE f = g /\ f.codename = cur
    <3>1. PICK k \in Components : k = ComponentOf(req[r]) /\ k = ComponentOf(req[r])'
      BY <1>10, <2>3 DEF ReadFile, ComponentOf
    <3>2. Kept(f, k)'
      BY <2>1, <2>2, <2>3, <2>4, <3>1, IngestedIsKept
    <3>. QED
      BY <3>1, <3>2 DEF Kept, Belongs, Stored
  <2>. QED
    BY <2>1, <2>2, <2>4
<1>. QED
  BY <1>2, <1>3, <1>4, <1>5, <1>6, <1>7, <1>8, <1>9, <1>10 DEF Proceed

-----------------------------------------------------------------------------
FetchInv == TypeOK /\ WorkInv /\ MutexInv /\ ListedInv /\ ReadInv

LEMMA SyncedStep ==
    ASSUME FetchInv, SyncedInv, [Next]_vars
    PROVE  SyncedInv'
<1>. USE DEF FetchInv
<1>. SUFFICES ASSUME NEW r \in quiet', req'[r].kind = "fetch"
              PROVE  /\ \A c \in Wanted(req'[r]) \ signed' : Exists(release'[c]) =>
                           releaseMeta'[c] = release'[c] \/ ReleaseAhead(r, c)'
                     /\ \A f \in Files : Exists(store'[f]) /\ f.codename \in Wanted(req'[r]) =>
                           Kept(f, ComponentOf(req[r]))' \/ FileAhead(r, f)'
  BY DEF SyncedInv, Wanted
<1>1. CASE Ask(r)
  <2>1. pc'[r] = "lock"
    BY <1>1, QuietStep DEF Ask, Goto, TypeOK
  <2>. QED
    BY <2>1 DEF ReleaseAhead, FileAhead, Before
<1>2. CASE ~Ask(r)
  <2>1. /\ r \in Clients /\ r \in quiet
        /\ req'[r] = req[r] /\ UNCHANGED <<store, release, signed>>
    BY <1>2, QuietStep
  <2>2. ASSUME NEW c \in Wanted(req[r]) \ signed, Exists(release[c])
        PROVE  releaseMeta'[c] = release[c] \/ ReleaseAhead(r, c)'
    <3>1. releaseMeta[c] = release[c] \/ ReleaseAhead(r, c)
      BY <2>1, <2>2 DEF SyncedInv
    <3>2. c \in Codenames
      BY <2>1, RequestType DEF Wanted
    <3>. QED
      BY <1>2, <2>2, <3>1, <3>2, MetaStays, ReleaseTurn
  <2>3. ASSUME NEW f \in Files, Exists(store[f]), f.codename \in Wanted(req[r])
        PROVE  Kept(f, ComponentOf(req[r]))' \/ FileAhead(r, f)'
    <3>1. Kept(f, ComponentOf(req[r])) \/ FileAhead(r, f)
      BY <2>1, <2>3 DEF SyncedInv
    <3>2. CASE Kept(f, ComponentOf(req[r]))
      <4>1. PICK k \in Components : k = ComponentOf(req[r]) /\ k = ComponentOf(req[r])'
        BY <2>1, RequestType DEF ComponentOf
      <4>2. Kept(f, k)'
        BY <2>1, <3>2, <4>1, KeptStays
      <4>. QED
        BY <4>1, <4>2 DEF Kept, Belongs, Stored
    <3>3. CASE FileAhead(r, f)
      BY <1>2, <2>1, <2>3, <3>3, FileTurn
    <3>. QED
      BY <3>1, <3>2, <3>3
  <2>. QED
    BY <2>1, <2>2, <2>3
<1>. QED
  BY <1>1, <1>2

-----------------------------------------------------------------------------
\* The codename that is shown if none is asked for is the first that was found.
LEMMA CodenameStays ==
    ASSUME TypeOK, [Next]_vars, NEW r \in Clients, req'[r] = req[r]
    PROVE  CodenameOf(req[r])' = CodenameOf(req[r]) \/ CodenameOf(req[r]) = Unset
<1>1. CASE UNCHANGED knownCodenames
  BY <1>1 DEF CodenameOf, OrCfg
<1>2. ASSUME NEW c \in Codenames, knownCodenames' = Append(knownCodenames, c)
      PROVE  CodenameOf(req[r])' = CodenameOf(req[r]) \/ CodenameOf(req[r]) = Unset
  <2>1. knownCodenames # <<>> => knownCodenames' # <<>> /\ knownCodenames'[1] = knownCodenames[1]
    BY <1>2 DEF TypeOK
  <2>. QED
    BY <2>1 DEF CodenameOf, OrCfg
<1>3. ASSUME NEW q \in Clients, NextTarget(q)
      PROVE  \/ UNCHANGED knownCodenames
             \/ \E c \in Codenames : knownCodenames' = Append(knownCodenames, c)
  BY <1>3 DEF NextTarget, TypeOK
<1>4. ASSUME NEW q \in Clients,
             \/ Ask(q) \/ Lock(q) \/ Drained(q) \/ Unlock(q) \/ RLock(q) \/ Collect(q)
             \/ Discover(q) \/ List(q) \/ StartProbe(q) \/ EndProbe(q)
      PROVE  UNCHANGED knownCodenames
  BY <1>4 DEF Ask, Lock, Drained, Unlock, RLock, Collect, Discover, List, StartProbe, EndProbe,
              cacheVars
<1>5. ASSUME NEW q \in Clients, GetInRelease(q) \/ GetRelease(q)
      PROVE  UNCHANGED knownCodenames
  BY <1>5 DEF GetInRelease, GetRelease, Learn, cacheVars
<1>6. ASSUME NEW q \in Clients, ReadFile(q)
      PROVE  UNCHANGED knownCodenames
  BY <1>6 DEF ReadFile, Ingest, cacheVars
<1>7. ASSUME PutIndex \/ PutRelease \/ PutInRelease \/ UNCHANGED vars
      PROVE  UNCHANGED knownCodenames
  BY <1>7 DEF PutIndex, PutRelease, PutInRelease, Put, vars, cacheVars
<1>8. UNCHANGED knownCodenames \/ \E c \in Codenames : knownCodenames' = Append(knownCodenames, c)
  BY <1>3, <1>4, <1>5, <1>6, <1>7 DEF Next, Proceed
<1>. QED
  BY <1>1, <1>2, <1>8

\* A fetch that has read the cache, of every architecture, has found what is stored.
LEMMA CollectedIsStored ==
    ASSUME FetchInv, SyncedInv, NEW r \in quiet, r \in Clients, Collect(r),
           pc'[r] = "answered", req[r].kind = "fetch",
           NEW c \in Codenames,
           CodenameOf(req[r]) \in {c, Unset},
           NEW k \in Components, k = ComponentOf(req[r]), NEW s \in Stored(c, k)
    PROVE  \E t \in found'[r] \cap Stored(c, k) : SameStanza(s, t)
<1>. USE DEF FetchInv
<1>1. PICK f \in Files : Exists(store[f]) /\ f.codename = c /\ s \in store[f] /\ Belongs(f, s, k)
  BY StoredMember
<1>2. f.codename \in Wanted(req[r])
  BY <1>1, RequestType DEF Wanted, CodenameOf
<1>3. pc[r] = "reading" /\ ~FileAhead(r, f)
  BY DEF Collect, FileAhead, Before, Syncing
<1>4. Kept(f, k)
  BY <1>1, <1>2, <1>3 DEF SyncedInv
<1>5. PICK t \in indexes[c][k] \cap Stored(c, k) : SameStanza(s, t)
  BY <1>1, <1>4 DEF Kept
<1>6. c = CodenameOf(req[r])
  <2>1. knownCodenames # <<>>
    BY <1>5 DEF ListedInv, InSeq, Keys
  <2>. QED
    BY <2>1, NameAssumption DEF CodenameOf, TypeOK
<1>7. t.arch \in Archs
  BY StoredMember, ContentsType
<1>8. t \in Collected(req[r], t.arch)
  <2>1. req[r].arch = Unset /\ c # Unset
    BY RequestAssumption, NameAssumption DEF TypeOK
  <2>. QED
    BY <1>5, <1>6, <2>1 DEF Collected
<1>9. PICK b \in left[r] :
        /\ found'[r] = found[r] \cup Collected(req[r], b)
        /\ Goto(r, IF left[r] = {b} THEN "answered" ELSE "reading")
  BY DEF Collect, TypeOK
<1>10. left[r] = {b}
  BY <1>9 DEF Goto, TypeOK
<1>11. t \in found'[r]
  <2>1. CASE t.arch = b
    BY <1>8, <1>9, <2>1
  <2>2. CASE t.arch # b
    <3>1. t.arch \in Archs \ left[r] /\ Collected(req[r], t.arch) \subseteq found[r]
      BY <1>3, <1>7, <1>10, <2>2 DEF ReadInv
    <3>. QED
      BY <1>8, <1>9, <3>1
  <2>. QED
    BY <2>1, <2>2
<1>. QED
  BY <1>5, <1>11

LEMMA AnswerStep ==
    ASSUME FetchInv, SyncedInv, AnswerInv, [Next]_vars
    PROVE  AnswerInv'
<1>. USE DEF FetchInv
<1>. SUFFICES ASSUME NEW r \in quiet', pc'[r] = "answered", req'[r].kind = "fetch",
                     NEW c \in Codenames, CodenameOf(req[r])' \in {c, Unset},
                     NEW s \in Stored(c, ComponentOf(req[r]))'
              PROVE  \E t \in found'[r] \cap Stored(c, ComponentOf(req[r]))' : SameStanza(s, t)
  BY DEF AnswerInv
<1>1. ~Ask(r)
  BY QuietStep DEF Ask, Goto, TypeOK
<1>2. /\ r \in Clients /\ r \in quiet
      /\ req'[r] = req[r] /\ UNCHANGED <<store, release, signed>>
  BY <1>1, QuietStep
<1>3. PICK k \in Components : k = ComponentOf(req[r]) /\ k = ComponentOf(req[r])'
  BY <1>2, RequestType DEF ComponentOf
<1>4. Stored(c, ComponentOf(req[r]))' = Stored(c, k)
  BY <1>2, <1>3 DEF Stored, Exists
<1>5. CodenameOf(req[r]) \in {c, Unset}
  BY <1>2, CodenameStays
<1>6. CASE Collect(r)
  BY <1>2, <1>3, <1>4, <1>5, <1>6, CollectedIsStored
<1>7. CASE pc[r] = "answered" /\ found'[r] = found[r]
  BY <1>2, <1>3, <1>4, <1>5, <1>7 DEF AnswerInv
<1>8. CASE Lock(r) \/ (Proceed(r) /\ ~Collect(r))
  <2>1. pc'[r] # "answered"
    <3>. USE DEF Goto, TypeOK
    <3>1. CASE Lock(r) \/ Drained(r) \/ Unlock(r) \/ RLock(r) \/ Discover(r) \/ NextTarget(r)
      BY <1>2, <3>1 DEF Lock, Drained, Unlock, RLock, Discover, NextTarget
    <3>2. CASE GetInRelease(r) \/ GetRelease(r) \/ List(r) \/ StartProbe(r) \/ EndProbe(r)
      BY <1>2, <3>2 DEF GetInRelease, GetRelease, List, StartProbe, EndProbe
    <3>3. CASE ReadFile(r)
      BY <3>3 DEF ReadFile
    <3>. QED
      BY <1>8, <3>1, <3>2, <3>3 DEF Proceed
  <2>. QED
    BY <2>1
<1>. QED
  BY <1>1, <1>2, <1>6, <1>7, <1>8, OthersStep

\* What quiet clients have to do, have done, and have found.
LEMMA FetchInvariant ==
    Spec => [](FetchInv /\ SyncedInv /\ AnswerInv)
<1>1. Init => SyncedInv /\ AnswerInv /\ ReadInv
  BY DEF Init, SyncedInv, AnswerInv, ReadInv
<1>2. FetchInv /\ SyncedInv /\ AnswerInv /\ [Next]_vars => SyncedInv' /\ AnswerInv'
  BY SyncedStep, AnswerStep
<1>3. TypeOK /\ MutexInv /\ ReadInv /\ [Next]_vars => ReadInv'
  BY ReadStep
<1>. QED
  BY <1>1, <1>2, <1>3, MutexTheorem, TypeCorrect, ListedTheorem, PTL DEF Spec, FetchInv

\* A fetch in whose time nobody published, and of which no call failed, returns all
\* that is stored, whatever others sync meanwhile and whatever earlier syncs missed.
THEOREM FetchTheorem == Spec => []FetchReturnsStored
<1>1. FetchInv /\ AnswerInv => FetchReturnsStored
  <2>. SUFFICES ASSUME FetchInv, AnswerInv, NEW r \in quiet, pc[r] = "answered",
                       req[r].kind = "fetch", CodenameOf(req[r]) # Unset,
                       NEW s \in Stored(CodenameOf(req[r]), ComponentOf(req[r]))
                PROVE  \E t \in found[r] \cap Stored(CodenameOf(req[r]), ComponentOf(req[r])) :
                          SameStanza(s, t)
    BY DEF FetchReturnsStored
  <2>1. CodenameOf(req[r]) \in Codenames
    BY WantedCodename DEF FetchInv, TypeOK
  <2>. QED
    BY <2>1 DEF AnswerInv
<1>. QED
  BY <1>1, FetchInvariant, PTL

\* Such a fetch also leaves the stored Release of the codename it shows, if that has no
\* InRelease.
THEOREM ReleaseTheorem == Spec => []ReleaseIsRead
<1>1. FetchInv /\ SyncedInv => ReleaseIsRead
  <2>. SUFFICES ASSUME FetchInv, SyncedInv, NEW r \in quiet, pc[r] = "answered",
                       req[r].kind = "fetch", NEW c, c = CodenameOf(req[r]), c # Unset,
                       c \notin signed, Exists(release[c])
                PROVE  releaseMeta[c] = release[c]
    BY DEF ReleaseIsRead
  <2>1. c \in Wanted(req[r])
    BY WantedCodename DEF FetchInv, TypeOK
  <2>2. ~ReleaseAhead(r, c)
    BY DEF ReleaseAhead, Before, Syncing
  <2>. QED
    BY <2>1, <2>2 DEF SyncedInv
<1>. QED
  BY <1>1, FetchInvariant, PTL
=============================================================================
