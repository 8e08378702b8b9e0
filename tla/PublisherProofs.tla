-------------------------- MODULE PublisherProofs --------------------------
(***************************************************************************)
(* Theorems about Publisher, for any number of runs with any batches, with *)
(* or without a lock that holds.                                           *)
(***************************************************************************)
EXTENDS Publisher, TLAPS

\* A run that merges or uploads has an index in hand.
IndexInHand ==
    \A w \in Workers :
        /\ pc[w] \in {"merge", "upload"} => index[w] \in Uploads
        /\ pc[w] = "merge" => candidates[w] \subseteq BatchOf[w]

\* Every variable keeps its type.
THEOREM TypeCorrect == Spec => [](TypeOK /\ IndexInHand)
<1>. DEFINE IInv == TypeOK /\ IndexInHand
<1>. USE VariantAssumption
<1>a. \A w \in Workers : BatchOf[w] \subseteq Debs
  BY BatchAssumption
<1>1. Init => IInv
  <2>1. Init => packages \in [Archs -> [1..Variants -> (SUBSET Debs) \cup {Missing}]]
    BY DEF Init
  <2>. QED
    BY <2>1 DEF Init, Lock!Init, TypeOK, IndexInHand, PCs
<1>2. IInv /\ [Next]_vars => IInv'
  <2>. SUFFICES ASSUME IInv, [Next]_vars PROVE IInv'
    OBVIOUS
  <2>. USE DEF TypeOK, IndexInHand, PCs, lockVars, storeVars, Goto
  <2>1. CASE Revoke
    BY <2>1 DEF Revoke, Lock!Revoke
  <2>2. ASSUME NEW w \in Workers, Begin(w) PROVE IInv'
    BY <2>2, <1>a DEF Begin, Lock!Grant
  <2>3. ASSUME NEW w \in Workers, PutPool(w) PROVE IInv'
    <3>. PICK deb \in candidates[w] :
            \E sum \in Contents(deb) : pool' = [pool EXCEPT ![PoolPath(deb)] = sum]
      BY <2>3 DEF PutPool
    <3>. PICK sum \in Contents(deb) : pool' = [pool EXCEPT ![PoolPath(deb)] = sum]
      OBVIOUS
    <3>1. deb \in Debs /\ PoolPath(deb) \in PoolPaths /\ sum \in Sums
      BY DEF Debs, PoolPaths, PoolPath, Contents
    <3>2. ArchsOf(BatchOf[w]) \subseteq Archs
      BY <1>a DEF ArchsOf, Debs
    <3>3. pool' \in [PoolPaths -> Sums \cup {Missing}]
      BY <3>1
    <3>4. /\ pc' \in [Workers -> PCs]
          /\ toIndex' \in [Workers -> SUBSET Archs]
          /\ candidates' \in [Workers -> SUBSET Debs]
      BY <2>3, <3>2 DEF PutPool
    <3>5. IndexInHand'
      BY <2>3 DEF PutPool
    <3>. QED
      BY <2>3, <3>3, <3>4, <3>5 DEF PutPool
  <2>4. ASSUME NEW w \in Workers, GetIndex(w) PROVE IInv'
    <3>1. PICK a \in toIndex[w] : \E existing \in Existing(a) :
             /\ index' = [index EXCEPT ![w] =
                            [arch |-> a, stanzas |-> existing, variant |-> 1]]
             /\ candidates' = [candidates EXCEPT ![w] = InArch(BatchOf[w], a)]
      BY <2>4 DEF GetIndex
    <3>2. PICK existing \in Existing(a) :
             /\ index' = [index EXCEPT ![w] =
                            [arch |-> a, stanzas |-> existing, variant |-> 1]]
             /\ candidates' = [candidates EXCEPT ![w] = InArch(BatchOf[w], a)]
      BY <3>1
    <3>3. a \in Archs /\ 1 \in 1..Variants
      OBVIOUS
    <3>4. existing \subseteq Debs
      BY <3>3 DEF Existing
    <3>5. [arch |-> a, stanzas |-> existing, variant |-> 1] \in Uploads
      BY <3>3, <3>4 DEF Uploads
    <3>6. InArch(BatchOf[w], a) \subseteq BatchOf[w]
      BY DEF InArch
    <3>. QED
      BY <2>4, <3>2, <3>5, <3>6, <1>a DEF GetIndex
  <2>5. ASSUME NEW w \in Workers, MergeOne(w) PROVE IInv'
    <3>1. PICK deb \in candidates[w] :
             /\ index' = [index EXCEPT ![w].stanzas = AddOrUpdate(@, deb, PreserveOf[w])]
             /\ candidates' = [candidates EXCEPT ![w] = @ \ {deb}]
             /\ Goto(w, IF candidates[w] = {deb} THEN "upload" ELSE "merge")
      BY <2>5 DEF MergeOne
    <3>2. index[w] \in Uploads /\ deb \in Debs
      BY <2>5 DEF MergeOne
    <3>3. AddOrUpdate(index[w].stanzas, deb, PreserveOf[w]) \subseteq Debs
      BY <3>2 DEF AddOrUpdate, Uploads
    <3>4. index'[w] \in Uploads
      BY <3>1, <3>2, <3>3 DEF Uploads
    <3>5. index' = [index EXCEPT ![w] = index'[w]]
      BY <3>1
    <3>. QED
      BY <2>5, <3>1, <3>4, <3>5 DEF MergeOne
  <2>6. ASSUME NEW w \in Workers, PutIndex(w) PROVE IInv'
    <3>. DEFINE up == index[w]
    <3>1. /\ pc[w] = "upload" /\ up \in Uploads /\ up.arch \in Archs
          /\ up.variant \in 1..Variants /\ up.stanzas \subseteq Debs
      BY <2>6 DEF PutIndex, Uploads
    <3>2. packages' \in [Archs -> [1..Variants -> (SUBSET Debs) \cup {Missing}]]
      BY <2>6, <3>1 DEF PutIndex
    <3>3. checksums' \in [Workers -> SUBSET Uploads]
      BY <2>6, <3>1 DEF PutIndex
    <3>4. CASE up.variant < Variants
      <4>1. /\ index' = [index EXCEPT ![w].variant = @ + 1]
            /\ UNCHANGED <<pc, toIndex>>
        BY <2>6, <3>4 DEF PutIndex
      <4>2. index'[w] \in Uploads
        <5>1. index'[w] = [arch |-> up.arch, stanzas |-> up.stanzas,
                           variant |-> up.variant + 1]
          BY <3>1, <4>1 DEF Uploads
        <5>2. up.variant + 1 \in 1..Variants
          BY <3>1, <3>4
        <5>. QED
          BY <3>1, <5>1, <5>2 DEF Uploads
      <4>3. index' = [index EXCEPT ![w] = index'[w]]
        BY <4>1
      <4>. QED
        BY <2>6, <3>1, <3>2, <3>3, <4>1, <4>2, <4>3 DEF PutIndex
    <3>5. CASE ~(up.variant < Variants)
      <4>1. /\ index' = [index EXCEPT ![w] = Missing]
            /\ toIndex' = [toIndex EXCEPT ![w] = @ \ {up.arch}]
            /\ Goto(w, IF toIndex[w] = {up.arch} THEN "release" ELSE "index")
        BY <2>6, <3>5 DEF PutIndex
      <4>2. /\ index' \in [Workers -> Uploads \cup {Missing}]
            /\ toIndex' \in [Workers -> SUBSET Archs]
            /\ pc' \in [Workers -> PCs]
            /\ pc'[w] \in {"release", "index"}
        BY <4>1
      <4>3. IndexInHand'
        BY <2>6, <4>1, <4>2 DEF PutIndex
      <4>. QED
        BY <2>6, <3>2, <3>3, <4>2, <4>3 DEF PutIndex
    <3>. QED
      BY <3>4, <3>5
  <2>7. ASSUME NEW w \in Workers, Manifest(w) \in Manifests
        PROVE  PutRelease(w) \/ PutSignature(w) \/ PutInRelease(w) => IInv'
    <3>1. PutRelease(w) => IInv'
      BY <2>7 DEF PutRelease
    <3>2. PutSignature(w) => IInv'
      BY <2>7 DEF PutSignature
    <3>3. PutInRelease(w) => IInv'
      BY <2>7 DEF PutInRelease
    <3>. QED
      BY <3>1, <3>2, <3>3
  <2>8. ASSUME NEW w \in Workers PROVE Manifest(w) \in Manifests
    <3>1. ArchsOf(BatchOf[w]) \cup CfgArchs \subseteq Archs
      BY <1>a, BatchAssumption DEF ArchsOf, Debs
    <3>. QED
      BY <3>1 DEF Manifest, Manifests
  <2>9. ASSUME NEW w \in Workers, Unlock(w) \/ Stop(w) PROVE IInv'
    BY <2>9 DEF Unlock, Stop, Lock!Leave
  <2>10. CASE UNCHANGED vars
    BY <2>10 DEF vars
  <2>. QED
    BY <2>1, <2>2, <2>3, <2>4, <2>5, <2>6, <2>7, <2>8, <2>9, <2>10 DEF Next
<1>. QED
  BY <1>1, <1>2, PTL DEF Spec

-----------------------------------------------------------------------------
(***************************************************************************)
(* Referential integrity: whatever a run is about to list, and whatever it *)
(* merged from an index it read, is in the pool.                           *)
(***************************************************************************)
FilesIn(files, debs) == \A deb \in debs : Exists(files[PoolPath(deb)])

FileInv ==
    /\ EveryStanzaHasItsFile
    /\ \A w \in Workers :
          /\ pc[w] = "pool" => FilesIn(pool, BatchOf[w] \ candidates[w])
          /\ pc[w] \in {"index", "merge", "upload"} => FilesIn(pool, BatchOf[w])
          /\ pc[w] \in {"merge", "upload"} => FilesIn(pool, index[w].stanzas)

\* A step that leaves the pool and the indices alone, and after which w is where
\* it needs nothing, or what it needs is in the pool.
LEMMA FileKept ==
    ASSUME FileInv, NEW w \in Workers, UNCHANGED <<pool, packages>>,
           \A v \in Workers \ {w} :
              /\ pc'[v] = pc[v] /\ candidates'[v] = candidates[v]
              /\ index'[v] = index[v],
           pc'[w] = "pool" => FilesIn(pool, BatchOf[w] \ candidates'[w]),
           pc'[w] \in {"index", "merge", "upload"} => FilesIn(pool, BatchOf[w]),
           pc'[w] \in {"merge", "upload"} => FilesIn(pool, index'[w].stanzas)
    PROVE  FileInv'
BY DEF FileInv, EveryStanzaHasItsFile, FilesIn

\* Every stanza that any variant of an index lists has its file in the pool, even
\* if runs are killed anywhere and the lock does not hold.
THEOREM FilesTheorem == Spec => []EveryStanzaHasItsFile
<1>. DEFINE Typed == TypeOK /\ IndexInHand
<1>. USE VariantAssumption
<1>a. \A w \in Workers : BatchOf[w] \subseteq Debs
  BY BatchAssumption
<1>1. Init => FileInv
  BY DEF Init, FileInv, EveryStanzaHasItsFile, Exists
<1>2. Typed /\ FileInv /\ [Next]_vars => FileInv'
  <2>. SUFFICES ASSUME TypeOK, IndexInHand, FileInv, [Next]_vars PROVE FileInv'
    OBVIOUS
  <2>. USE DEF lockVars, storeVars
  <2>1. CASE Revoke
    BY <2>1 DEF Revoke, FileInv, EveryStanzaHasItsFile, FilesIn
  <2>2. ASSUME NEW w \in Workers, Begin(w) PROVE FileInv'
    <3>1. /\ pc'[w] = "pool" /\ candidates'[w] = BatchOf[w] /\ UNCHANGED <<pool, packages, index>>
          /\ \A v \in Workers \ {w} : pc'[v] = pc[v] /\ candidates'[v] = candidates[v]
      BY <2>2 DEF Begin, Goto, TypeOK
    <3>2. FilesIn(pool, BatchOf[w] \ candidates'[w])
      BY <3>1 DEF FilesIn
    <3>. QED
      BY <3>1, <3>2, FileKept
  <2>3. ASSUME NEW w \in Workers, PutPool(w) PROVE FileInv'
    <3>1. PICK deb \in candidates[w] :
             /\ \E sum \in Contents(deb) : pool' = [pool EXCEPT ![PoolPath(deb)] = sum]
             /\ candidates' = [candidates EXCEPT ![w] = @ \ {deb}]
             /\ IF candidates[w] = {deb}
                  THEN /\ Goto(w, "index")
                       /\ toIndex' = [toIndex EXCEPT ![w] = ArchsOf(BatchOf[w])]
                  ELSE UNCHANGED <<pc, toIndex>>
      BY <2>3 DEF PutPool
    <3>2. pc[w] = "pool" /\ UNCHANGED <<packages, index>>
      BY <2>3 DEF PutPool
    <3>. PICK sum \in Contents(deb) : pool' = [pool EXCEPT ![PoolPath(deb)] = sum]
      BY <3>1
    <3>3. PoolPath(deb) \in PoolPaths /\ sum \in Sums /\ sum # Missing
      BY MissingAssumption DEF TypeOK, Debs, PoolPaths, PoolPath, Contents
    <3>4. \A p \in PoolPaths : Exists(pool[p]) => Exists(pool'[p])
      BY <3>1, <3>3 DEF Exists, TypeOK
    <3>5. Exists(pool'[PoolPath(deb)])
      BY <3>1, <3>3 DEF Exists, TypeOK
    <3>6. \A d \in Debs : PoolPath(d) \in PoolPaths
      BY DEF Debs, PoolPaths, PoolPath
    <3>7. ASSUME NEW debs, debs \subseteq Debs, FilesIn(pool, debs) PROVE FilesIn(pool', debs)
      BY <3>4, <3>6, <3>7 DEF FilesIn
    <3>8. EveryStanzaHasItsFile'
      <4>. SUFFICES ASSUME NEW a \in Archs, NEW v \in 1..Variants, Exists(packages[a][v]),
                           NEW d \in packages[a][v]
                    PROVE  Exists(pool'[PoolPath(d)])
        BY <3>2 DEF EveryStanzaHasItsFile
      <4>1. d \in Debs
        BY DEF TypeOK, Exists
      <4>2. Exists(pool[PoolPath(d)])
        BY DEF FileInv, EveryStanzaHasItsFile
      <4>. QED
        BY <3>4, <3>6, <4>1, <4>2
    <3>9. FilesIn(pool', BatchOf[w] \ candidates'[w])
      <4>1. FilesIn(pool, BatchOf[w] \ candidates[w])
        BY <3>2 DEF FileInv
      <4>2. FilesIn(pool', BatchOf[w] \ candidates[w])
        BY <1>a, <3>7, <4>1
      <4>3. BatchOf[w] \ candidates'[w] \subseteq (BatchOf[w] \ candidates[w]) \cup {deb}
        BY <3>1 DEF TypeOK
      <4>. QED
        BY <3>5, <4>2, <4>3 DEF FilesIn
    <3>10. ASSUME NEW v \in Workers
           PROVE  /\ pc'[v] = "pool" => FilesIn(pool', BatchOf[v] \ candidates'[v])
                  /\ pc'[v] \in {"index", "merge", "upload"} => FilesIn(pool', BatchOf[v])
                  /\ pc'[v] \in {"merge", "upload"} => FilesIn(pool', index'[v].stanzas)
      <4>1. CASE v = w
        <5>1. pc'[w] \in {"pool", "index"}
          BY <3>1, <3>2 DEF Goto, TypeOK
        <5>2. pc'[w] = "index" => candidates'[w] = {}
          BY <3>1, <3>2 DEF Goto, TypeOK
        <5>3. candidates'[w] = {} => BatchOf[w] \ candidates'[w] = BatchOf[w]
          OBVIOUS
        <5>. QED
          BY <3>9, <4>1, <5>1, <5>2, <5>3
      <4>2. CASE v # w
        <5>1. pc'[v] = pc[v] /\ candidates'[v] = candidates[v] /\ index'[v] = index[v]
          BY <3>1, <3>2, <4>2 DEF Goto, TypeOK
        <5>2. /\ pc[v] = "pool" => FilesIn(pool, BatchOf[v] \ candidates[v])
              /\ pc[v] \in {"index", "merge", "upload"} => FilesIn(pool, BatchOf[v])
              /\ pc[v] \in {"merge", "upload"} => FilesIn(pool, index[v].stanzas)
          BY DEF FileInv
        <5>3. pc[v] \in {"merge", "upload"} => index[v].stanzas \subseteq Debs
          BY DEF IndexInHand, Uploads
        <5>4. BatchOf[v] \subseteq Debs /\ BatchOf[v] \ candidates[v] \subseteq Debs
          BY <1>a
        <5>. QED
          BY <3>7, <5>1, <5>2, <5>3, <5>4
      <4>. QED
        BY <4>1, <4>2
    <3>. QED
      BY <3>8, <3>10 DEF FileInv
  <2>4. ASSUME NEW w \in Workers, GetIndex(w) PROVE FileInv'
    <3>1. PICK a \in toIndex[w] : \E existing \in Existing(a) :
             index' = [index EXCEPT ![w] =
                         [arch |-> a, stanzas |-> existing, variant |-> 1]]
      BY <2>4 DEF GetIndex
    <3>2. PICK existing \in Existing(a) :
             index' = [index EXCEPT ![w] =
                         [arch |-> a, stanzas |-> existing, variant |-> 1]]
      BY <3>1
    <3>3. /\ pc[w] = "index" /\ pc'[w] = "merge" /\ UNCHANGED <<pool, packages>>
          /\ index'[w].stanzas = existing
          /\ \A v \in Workers \ {w} :
                /\ pc'[v] = pc[v] /\ candidates'[v] = candidates[v]
                /\ index'[v] = index[v]
      BY <2>4, <3>2 DEF GetIndex, Goto, TypeOK
    <3>4. a \in Archs /\ 1 \in 1..Variants
      BY DEF TypeOK
    <3>5. FilesIn(pool, existing)
      BY <3>4 DEF FilesIn, FileInv, EveryStanzaHasItsFile, Existing, Exists
    <3>6. FilesIn(pool, BatchOf[w])
      BY <3>3 DEF FileInv
    <3>. QED
      BY <3>3, <3>5, <3>6, FileKept
  <2>5. ASSUME NEW w \in Workers, MergeOne(w) PROVE FileInv'
    <3>1. PICK deb \in candidates[w] :
             /\ index' = [index EXCEPT ![w].stanzas = AddOrUpdate(@, deb, PreserveOf[w])]
             /\ candidates' = [candidates EXCEPT ![w] = @ \ {deb}]
             /\ Goto(w, IF candidates[w] = {deb} THEN "upload" ELSE "merge")
      BY <2>5 DEF MergeOne
    <3>2. /\ pc[w] = "merge" /\ pc'[w] \in {"merge", "upload"}
          /\ UNCHANGED <<pool, packages>>
          /\ \A v \in Workers \ {w} :
                /\ pc'[v] = pc[v] /\ candidates'[v] = candidates[v]
                /\ index'[v] = index[v]
      BY <2>5, <3>1 DEF MergeOne, Goto, TypeOK
    <3>3. index[w] \in Uploads /\ deb \in BatchOf[w]
      BY <3>2 DEF IndexInHand
    <3>4. index'[w].stanzas \subseteq index[w].stanzas \cup {deb}
      BY <3>1, <3>3 DEF AddOrUpdate, Uploads, TypeOK
    <3>5. FilesIn(pool, BatchOf[w]) /\ FilesIn(pool, index[w].stanzas)
      BY <3>2 DEF FileInv
    <3>6. FilesIn(pool, index'[w].stanzas)
      BY <3>3, <3>4, <3>5 DEF FilesIn
    <3>. QED
      BY <3>2, <3>5, <3>6, FileKept
  <2>6. ASSUME NEW w \in Workers, PutIndex(w) PROVE FileInv'
    <3>. DEFINE up == index[w]
    <3>1. /\ pc[w] = "upload" /\ up \in Uploads /\ up.arch \in Archs
          /\ up.variant \in 1..Variants /\ up.stanzas \subseteq Debs
      BY <2>6 DEF PutIndex, Uploads, IndexInHand
    <3>2. /\ packages' = [packages EXCEPT ![up.arch][up.variant] = up.stanzas]
          /\ UNCHANGED <<pool, candidates>>
      BY <2>6 DEF PutIndex
    <3>3. FilesIn(pool, BatchOf[w]) /\ FilesIn(pool, up.stanzas)
      BY <3>1 DEF FileInv
    <3>4. EveryStanzaHasItsFile'
      <4>. SUFFICES ASSUME NEW a \in Archs, NEW v \in 1..Variants, Exists(packages'[a][v]),
                           NEW d \in packages'[a][v]
                    PROVE  Exists(pool[PoolPath(d)])
        BY <3>2 DEF EveryStanzaHasItsFile
      <4>1. CASE a = up.arch /\ v = up.variant
        <5>1. packages'[a][v] = up.stanzas
          BY <3>2, <4>1 DEF TypeOK
        <5>. QED
          BY <3>3, <5>1 DEF FilesIn
      <4>2. CASE ~(a = up.arch /\ v = up.variant)
        <5>1. packages'[a][v] = packages[a][v]
          BY <3>1, <3>2, <4>2 DEF TypeOK
        <5>. QED
          BY <5>1 DEF FileInv, EveryStanzaHasItsFile
      <4>. QED
        BY <4>1, <4>2
    <3>5. /\ pc'[w] \in {"upload", "index", "release"}
          /\ pc'[w] = "upload" => index'[w].stanzas = up.stanzas
          /\ \A v \in Workers \ {w} : pc'[v] = pc[v] /\ index'[v] = index[v]
      <4>1. CASE up.variant < Variants
        <5>1. index' = [index EXCEPT ![w].variant = @ + 1] /\ pc' = pc
          BY <2>6, <4>1 DEF PutIndex
        <5>. QED
          BY <3>1, <5>1 DEF TypeOK, Uploads
      <4>2. CASE ~(up.variant < Variants)
        BY <2>6, <4>2 DEF PutIndex, Goto, TypeOK
      <4>. QED
        BY <4>1, <4>2
    <3>6. \A v \in Workers \ {w} : candidates'[v] = candidates[v]
      BY <3>2
    <3>7. ASSUME NEW v \in Workers
          PROVE  /\ pc'[v] = "pool" => FilesIn(pool', BatchOf[v] \ candidates'[v])
                 /\ pc'[v] \in {"index", "merge", "upload"} => FilesIn(pool', BatchOf[v])
                 /\ pc'[v] \in {"merge", "upload"} => FilesIn(pool', index'[v].stanzas)
      BY <3>2, <3>3, <3>5, <3>6 DEF FilesIn, FileInv
    <3>. QED
      BY <3>4, <3>7 DEF FileInv
  <2>7. ASSUME NEW w \in Workers, PutRelease(w) \/ PutSignature(w) \/ PutInRelease(w)
                                  \/ Unlock(w) \/ Stop(w)
        PROVE  FileInv'
    <3>1. /\ pc'[w] \in {"gpg", "inrelease", "unlock", "done", "stopped"}
          /\ UNCHANGED <<pool, packages, candidates, index>>
          /\ \A v \in Workers \ {w} : pc'[v] = pc[v]
      BY <2>7 DEF PutRelease, PutSignature, PutInRelease, Unlock, Stop, Goto, TypeOK
    <3>. QED
      BY <3>1, FileKept
  <2>8. CASE UNCHANGED vars
    BY <2>8 DEF vars, FileInv, EveryStanzaHasItsFile, FilesIn
  <2>. QED
    BY <2>1, <2>2, <2>3, <2>4, <2>5, <2>6, <2>7, <2>8 DEF Next
<1>3. FileInv => EveryStanzaHasItsFile
  BY DEF FileInv
<1>. QED
  BY TypeCorrect, <1>1, <1>2, <1>3, PTL DEF Spec

-----------------------------------------------------------------------------
(***************************************************************************)
(* The manifest.  While no two runs have been inside at once, what the run *)
(* inside has in its checksum table is what is stored, and the table has   *)
(* every variant of the architectures it is done with.                     *)
(***************************************************************************)
Running(w) == pc[w] \notin {"idle", "done", "stopped"}

AloneInv ==
    /\ \A w \in Workers : Running(w) <=> w \in inside
    /\ ~overlapped => \A v, w \in inside : v = w

\* The entry of the table for a variant of an index.
Listed(table, a, v) == \E up \in table : up.arch = a /\ up.variant = v

TableInvOf(w) ==
    /\ pc[w] \in {"idle", "pool"} => checksums[w] = {}
    /\ pc[w] = "index" =>
          \A up \in checksums[w] : up.arch \notin toIndex[w]
    /\ pc[w] \in {"merge", "upload"} =>
          /\ index[w].arch \in toIndex[w]
          /\ \A up \in checksums[w] : up.arch \in toIndex[w] =>
                up.arch = index[w].arch /\ up.variant < index[w].variant
    /\ pc[w] \in {"index", "merge", "upload"} =>
          \A a \in ArchsOf(BatchOf[w]) \ toIndex[w], v \in 1..Variants : Listed(checksums[w], a, v)
    /\ pc[w] = "upload" =>
          \A v \in 1..Variants : v < index[w].variant => Listed(checksums[w], index[w].arch, v)
    /\ pc[w] = "merge" => index[w].variant = 1
    /\ pc[w] \in {"release", "gpg", "inrelease", "unlock"} =>
          \A a \in ArchsOf(BatchOf[w]), v \in 1..Variants : Listed(checksums[w], a, v)

TableInv == \A w \in Workers : TableInvOf(w)

StoredInv ==
    ~overlapped => \A w \in Workers : Running(w) =>
        /\ \A up \in checksums[w] : packages[up.arch][up.variant] = up.stanzas
        /\ pc[w] \in {"gpg", "inrelease", "unlock"} => release = Manifest(w)

\* The runs inside are those that have begun and not ended.
LEMMA AloneInvariant == Spec => []AloneInv
<1>1. Init => AloneInv
  BY DEF Init, Lock!Init, AloneInv, Running
<1>2. TypeOK /\ AloneInv /\ [Next]_vars => AloneInv'
  <2>. SUFFICES ASSUME TypeOK, AloneInv, [Next]_vars PROVE AloneInv'
    OBVIOUS
  <2>. USE DEF AloneInv, Running, lockVars, Goto
  <2>1. CASE Revoke
    BY <2>1 DEF Revoke, Lock!Revoke
  <2>2. ASSUME NEW w \in Workers, Begin(w) PROVE AloneInv'
    BY <2>2 DEF Begin, Lock!Grant, TypeOK
  <2>3. ASSUME NEW w \in Workers,
               PutPool(w) \/ GetIndex(w) \/ MergeOne(w) \/ PutIndex(w)
               \/ PutRelease(w) \/ PutSignature(w) \/ PutInRelease(w)
        PROVE  AloneInv'
    <3>1. /\ UNCHANGED <<inside, overlapped>>
          /\ Running(w) /\ Running(w)'
          /\ \A v \in Workers \ {w} : pc'[v] = pc[v]
      BY <2>3 DEF PutPool, GetIndex, MergeOne, PutIndex, PutRelease, PutSignature,
         PutInRelease, TypeOK
    <3>. QED
      BY <3>1
  <2>4. ASSUME NEW w \in Workers, Unlock(w) \/ Stop(w) PROVE AloneInv'
    BY <2>4 DEF Unlock, Stop, Lock!Leave, TypeOK
  <2>5. CASE UNCHANGED vars
    BY <2>5 DEF vars
  <2>. QED
    BY <2>1, <2>2, <2>3, <2>4, <2>5 DEF Next
<1>. QED
  BY TypeCorrect, <1>1, <1>2, PTL DEF Spec

\* A step of w leaves alone what TableInv says of the other runs.
LEMMA TableOfOthers ==
    ASSUME TableInv, NEW w \in Workers, TableInvOf(w)',
           \A v \in Workers \ {w} :
              /\ pc'[v] = pc[v] /\ toIndex'[v] = toIndex[v]
              /\ index'[v] = index[v] /\ checksums'[v] = checksums[v]
    PROVE  TableInv'
BY DEF TableInv, TableInvOf, Listed

\* The checksum table of a run grows one index and one variant at a time.
LEMMA TableInvariant == Spec => []TableInv
<1>. DEFINE Typed == TypeOK /\ IndexInHand
<1>. USE VariantAssumption
<1>1. Init => TableInv
  BY DEF Init, TableInv, TableInvOf
<1>2. Typed /\ TableInv /\ [Next]_vars => TableInv'
  <2>. SUFFICES ASSUME TypeOK, IndexInHand, TableInv, [Next]_vars PROVE TableInv'
    OBVIOUS
  <2>0. ASSUME NEW w \in Workers PROVE TableInvOf(w)
    BY DEF TableInv
  <2>1. CASE Revoke \/ UNCHANGED vars
    BY <2>1 DEF Revoke, vars, TableInv, TableInvOf, Listed
  <2>2. ASSUME NEW w \in Workers, Begin(w) PROVE TableInv'
    <3>1. /\ pc[w] = "idle" /\ pc'[w] = "pool" /\ UNCHANGED <<toIndex, index, checksums>>
          /\ \A v \in Workers \ {w} : pc'[v] = pc[v]
      BY <2>2 DEF Begin, Goto, TypeOK
    <3>2. TableInvOf(w)'
      BY <2>0, <3>1 DEF TableInvOf
    <3>. QED
      BY <3>1, <3>2, TableOfOthers
  <2>3. ASSUME NEW w \in Workers, PutPool(w) PROVE TableInv'
    <3>1. /\ pc[w] = "pool" /\ UNCHANGED <<index, checksums>>
          /\ \/ UNCHANGED <<pc, toIndex>>
             \/ /\ pc' = [pc EXCEPT ![w] = "index"]
                /\ toIndex' = [toIndex EXCEPT ![w] = ArchsOf(BatchOf[w])]
      BY <2>3 DEF PutPool, Goto
    <3>2. \A v \in Workers \ {w} : pc'[v] = pc[v] /\ toIndex'[v] = toIndex[v]
      BY <3>1 DEF TypeOK
    <3>3. checksums'[w] = {}
      BY <2>0, <3>1 DEF TableInvOf
    <3>4. \/ pc'[w] = "pool"
          \/ pc'[w] = "index" /\ toIndex'[w] = ArchsOf(BatchOf[w])
      BY <3>1 DEF TypeOK
    <3>5. TableInvOf(w)'
      BY <3>3, <3>4 DEF TableInvOf, Listed
    <3>. QED
      BY <3>1, <3>2, <3>5, TableOfOthers
  <2>4. ASSUME NEW w \in Workers, GetIndex(w) PROVE TableInv'
    <3>1. PICK a \in toIndex[w] : \E existing \in Existing(a) :
             index' = [index EXCEPT ![w] =
                         [arch |-> a, stanzas |-> existing, variant |-> 1]]
      BY <2>4 DEF GetIndex
    <3>2. /\ pc[w] = "index" /\ pc'[w] = "merge" /\ UNCHANGED <<toIndex, checksums>>
          /\ index'[w].arch = a /\ index'[w].variant = 1
          /\ \A v \in Workers \ {w} : pc'[v] = pc[v] /\ index'[v] = index[v]
      BY <2>4, <3>1 DEF GetIndex, Goto, TypeOK
    <3>3. TableInvOf(w)'
      BY <2>0, <3>2 DEF TableInvOf, Listed
    <3>. QED
      BY <3>2, <3>3, TableOfOthers
  <2>5. ASSUME NEW w \in Workers, MergeOne(w) PROVE TableInv'
    <3>1. PICK deb \in candidates[w] :
             /\ index' = [index EXCEPT ![w].stanzas = AddOrUpdate(@, deb, PreserveOf[w])]
             /\ Goto(w, IF candidates[w] = {deb} THEN "upload" ELSE "merge")
      BY <2>5 DEF MergeOne
    <3>2. pc[w] = "merge" /\ index[w] \in Uploads /\ UNCHANGED <<toIndex, checksums>>
      BY <2>5 DEF MergeOne, IndexInHand
    <3>3. /\ pc'[w] \in {"merge", "upload"}
          /\ index'[w].arch = index[w].arch /\ index'[w].variant = index[w].variant
          /\ \A v \in Workers \ {w} : pc'[v] = pc[v] /\ index'[v] = index[v]
      BY <3>1, <3>2 DEF Goto, TypeOK, Uploads
    <3>4. TableInvOf(w)'
      BY <2>0, <3>2, <3>3 DEF TableInvOf, Listed
    <3>. QED
      BY <3>2, <3>3, <3>4, TableOfOthers
  <2>6. ASSUME NEW w \in Workers, PutIndex(w) PROVE TableInv'
    <3>. DEFINE up == index[w]
    <3>1. /\ pc[w] = "upload" /\ up \in Uploads /\ up.variant \in 1..Variants
          /\ checksums' = [checksums EXCEPT ![w] = @ \cup {up}]
      BY <2>6 DEF PutIndex, IndexInHand, Uploads
    <3>2. checksums'[w] = checksums[w] \cup {up}
      BY <3>1 DEF TypeOK
    <3>3. /\ \A a, v : Listed(checksums[w], a, v) => Listed(checksums'[w], a, v)
          /\ Listed(checksums'[w], up.arch, up.variant)
      BY <3>2 DEF Listed
    <3>4. /\ up.arch \in toIndex[w]
          /\ \A u \in checksums[w] : u.arch \in toIndex[w] =>
                u.arch = up.arch /\ u.variant < up.variant
          /\ \A a \in ArchsOf(BatchOf[w]) \ toIndex[w], v \in 1..Variants : Listed(checksums[w], a, v)
          /\ \A v \in 1..Variants : v < up.variant => Listed(checksums[w], up.arch, v)
      BY <2>0, <3>1 DEF TableInvOf
    <3>5. CASE up.variant < Variants
      <4>1. /\ index' = [index EXCEPT ![w].variant = @ + 1]
            /\ UNCHANGED <<pc, toIndex>>
        BY <2>6, <3>5 DEF PutIndex
      <4>2. index'[w].arch = up.arch /\ index'[w].variant = up.variant + 1
        BY <3>1, <4>1 DEF TypeOK, Uploads
      <4>3. \A u \in checksums'[w] : u.arch \in toIndex[w] =>
               u.arch = up.arch /\ u.variant < up.variant + 1
        <5>1. \A u \in checksums[w] : u.variant \in Nat
          BY DEF TypeOK, Uploads
        <5>. QED
          BY <3>1, <3>2, <3>4, <5>1
      <4>4. \A v \in 1..Variants : v < up.variant + 1 => Listed(checksums'[w], up.arch, v)
        <5>1. \A v \in 1..Variants : v < up.variant + 1 => v < up.variant \/ v = up.variant
          BY <3>1
        <5>. QED
          BY <3>3, <3>4, <5>1
      <4>5. TableInvOf(w)'
        <5>1. \A a \in ArchsOf(BatchOf[w]) \ toIndex[w], v \in 1..Variants :
                 Listed(checksums'[w], a, v)
          BY <3>3, <3>4
        <5>. QED
          BY <3>1, <3>4, <4>1, <4>2, <4>3, <4>4, <5>1 DEF TableInvOf
      <4>. QED
        BY <3>1, <4>1, <4>5, TableOfOthers DEF TypeOK
    <3>6. CASE ~(up.variant < Variants)
      <4>1. /\ index' = [index EXCEPT ![w] = Missing]
            /\ toIndex' = [toIndex EXCEPT ![w] = @ \ {up.arch}]
            /\ Goto(w, IF toIndex[w] = {up.arch} THEN "release" ELSE "index")
        BY <2>6, <3>6 DEF PutIndex
      <4>2. toIndex'[w] = toIndex[w] \ {up.arch}
        BY <4>1 DEF TypeOK
      <4>3. \/ pc'[w] = "index"
            \/ pc'[w] = "release" /\ toIndex'[w] = {}
        BY <4>1, <4>2 DEF Goto, TypeOK
      <4>4. \A u \in checksums'[w] : u.arch \notin toIndex'[w]
        BY <3>2, <3>4, <4>2
      <4>5. \A v \in 1..Variants : Listed(checksums'[w], up.arch, v)
        <5>1. \A v \in 1..Variants : v < up.variant \/ v = up.variant
          BY <3>1, <3>6
        <5>. QED
          BY <3>3, <3>4, <5>1
      <4>6. \A a \in ArchsOf(BatchOf[w]) \ toIndex'[w], v \in 1..Variants :
               Listed(checksums'[w], a, v)
        <5>1. \A a \in ArchsOf(BatchOf[w]) \ toIndex'[w] :
                 a = up.arch \/ a \in ArchsOf(BatchOf[w]) \ toIndex[w]
          BY <4>2
        <5>. QED
          BY <3>3, <3>4, <4>5, <5>1
      <4>7. TableInvOf(w)'
        BY <4>3, <4>4, <4>6 DEF TableInvOf
      <4>. QED
        BY <3>1, <4>1, <4>7, TableOfOthers DEF TypeOK, Goto
    <3>. QED
      BY <3>5, <3>6
  <2>7. ASSUME NEW w \in Workers, PutRelease(w) \/ PutSignature(w) \/ PutInRelease(w)
                                  \/ Unlock(w) \/ Stop(w)
        PROVE  TableInv'
    <3>1. /\ \/ /\ pc[w] \in {"release", "gpg", "inrelease"}
                /\ pc'[w] \in {"gpg", "inrelease", "unlock"}
             \/ pc'[w] \in {"done", "stopped"}
          /\ UNCHANGED <<toIndex, index, checksums>>
          /\ \A v \in Workers \ {w} : pc'[v] = pc[v]
      BY <2>7 DEF PutRelease, PutSignature, PutInRelease, Unlock, Stop, Goto, TypeOK
    <3>2. TableInvOf(w)'
      BY <2>0, <3>1 DEF TableInvOf, Listed
    <3>. QED
      BY <3>1, <3>2, TableOfOthers
  <2>. QED
    BY <2>1, <2>2, <2>3, <2>4, <2>5, <2>6, <2>7 DEF Next
<1>. QED
  BY TypeCorrect, <1>1, <1>2, PTL DEF Spec

\* What the run inside has uploaded is what is stored: nobody else writes, and it
\* never writes the same variant of an index twice.
LEMMA StoredInvariant == Spec => []StoredInv
<1>. DEFINE Typed == TypeOK /\ IndexInHand
<1>1. Init => StoredInv
  BY DEF Init, StoredInv, Running
<1>2. Typed /\ AloneInv /\ TableInv /\ StoredInv /\ [Next]_vars => StoredInv'
  <2>. SUFFICES ASSUME TypeOK, IndexInHand, AloneInv, TableInv, StoredInv, [Next]_vars,
                       ~overlapped', NEW r \in Workers, Running(r)'
                PROVE  /\ \A u \in checksums'[r] : packages'[u.arch][u.variant] = u.stanzas
                       /\ pc'[r] \in {"gpg", "inrelease", "unlock"} => release' = Manifest(r)'
    BY DEF StoredInv
  <2>0. \A v, w \in Workers : ~overlapped /\ Running(v) /\ Running(w) => v = w
    BY DEF AloneInv
  <2>1. ASSUME ~overlapped, Running(r)
        PROVE  /\ \A u \in checksums[r] : packages[u.arch][u.variant] = u.stanzas
               /\ pc[r] \in {"gpg", "inrelease", "unlock"} => release = Manifest(r)
    BY <2>1 DEF StoredInv
  <2>. USE DEF lockVars, storeVars
  <2>2. CASE Revoke \/ UNCHANGED vars
    BY <2>1, <2>2 DEF Revoke, vars, Running, Manifest
  <2>3. ASSUME NEW w \in Workers, Begin(w)
        PROVE  /\ checksums'[r] = {} /\ pc'[r] = "pool"
    <3>1. /\ pc[w] = "idle" /\ pc' = [pc EXCEPT ![w] = "pool"] /\ inside = {}
          /\ UNCHANGED checksums
      BY <2>3 DEF Begin, Goto
    <3>2. r = w
      BY <3>1 DEF AloneInv, Running, TypeOK
    <3>. QED
      BY <3>1, <3>2 DEF TableInv, TableInvOf, TypeOK
  <2>4. ASSUME NEW w \in Workers,
               PutPool(w) \/ GetIndex(w) \/ MergeOne(w) \/ PutSignature(w) \/ PutInRelease(w)
               \/ Unlock(w) \/ Stop(w)
        PROVE  /\ UNCHANGED <<packages, release, checksums, overlapped>> /\ Running(r)
               /\ pc'[r] \in {"gpg", "inrelease", "unlock"} =>
                     pc[r] \in {"gpg", "inrelease", "unlock"}
    <3>1. UNCHANGED <<packages, release, checksums, overlapped>>
      BY <2>4 DEF PutPool, GetIndex, MergeOne, PutSignature, PutInRelease, Unlock, Stop
    <3>2. \/ UNCHANGED pc
          \/ pc[w] \in {"gpg", "inrelease"} /\ pc' = [pc EXCEPT ![w] = "inrelease"]
          \/ pc[w] \in {"gpg", "inrelease"} /\ pc' = [pc EXCEPT ![w] = "unlock"]
          \/ pc[w] \in {"pool", "index", "merge"}
             /\ pc' \in {[pc EXCEPT ![w] = l] : l \in {"index", "merge", "upload"}}
          \/ pc' \in {[pc EXCEPT ![w] = l] : l \in {"done", "stopped"}}
      BY <2>4 DEF PutPool, GetIndex, MergeOne, PutSignature, PutInRelease, Unlock, Stop, Goto
    <3>. QED
      BY <3>1, <3>2 DEF Running, TypeOK
  <2>5. ASSUME NEW w \in Workers, PutIndex(w)
        PROVE  /\ \A u \in checksums'[r] : packages'[u.arch][u.variant] = u.stanzas
               /\ pc'[r] \notin {"gpg", "inrelease", "unlock"}
    <3>. DEFINE up == index[w]
    <3>1. /\ pc[w] = "upload" /\ up \in Uploads /\ ~overlapped
          /\ up.arch \in Archs /\ up.variant \in 1..Variants
          /\ packages' = [packages EXCEPT ![up.arch][up.variant] = up.stanzas]
          /\ checksums' = [checksums EXCEPT ![w] = @ \cup {up}]
      BY <2>5 DEF PutIndex, IndexInHand, Uploads
    <3>2. \/ UNCHANGED pc
          \/ pc' \in {[pc EXCEPT ![w] = l] : l \in {"release", "index"}}
      BY <2>5 DEF PutIndex, Goto
    <3>3. r = w
      BY <2>0, <3>1, <3>2 DEF Running, TypeOK
    <3>4. pc'[w] \in {"upload", "release", "index"}
      BY <3>1, <3>2 DEF TypeOK
    <3>5. \A u \in checksums[w] : ~(u.arch = up.arch /\ u.variant = up.variant)
      <4>1. \A u \in checksums[w] : u.arch = up.arch => u.variant < up.variant
        BY <3>1 DEF TableInv, TableInvOf
      <4>. QED
        BY <3>1, <4>1
    <3>6. ASSUME NEW u \in checksums'[w] PROVE packages'[u.arch][u.variant] = u.stanzas
      <4>1. u \in checksums[w] \/ u = up
        BY <3>1 DEF TypeOK
      <4>2. CASE u = up
        BY <3>1, <4>2 DEF TypeOK
      <4>3. CASE u \in checksums[w]
        <5>1. packages[u.arch][u.variant] = u.stanzas
          BY <2>1, <3>1, <3>3, <4>3 DEF Running
        <5>2. u.arch \in Archs /\ u.variant \in 1..Variants
          BY <4>3 DEF TypeOK, Uploads
        <5>3. u.arch # up.arch \/ u.variant # up.variant
          BY <3>5, <4>3
        <5>. QED
          BY <3>1, <5>1, <5>2, <5>3 DEF TypeOK
      <4>. QED
        BY <4>1, <4>2, <4>3
    <3>. QED
      BY <3>3, <3>4, <3>6
  <2>6. ASSUME NEW w \in Workers, PutRelease(w)
        PROVE  /\ UNCHANGED <<packages, checksums, overlapped>> /\ Running(r)
               /\ release' = Manifest(r)'
    <3>1. /\ pc[w] = "release" /\ release' = Manifest(w)
          /\ UNCHANGED <<packages, checksums, overlapped>>
          /\ pc' \in {[pc EXCEPT ![w] = l] : l \in {"gpg", "unlock"}}
      BY <2>6 DEF PutRelease, Goto
    <3>2. Running(w) /\ Running(r)
      BY <3>1 DEF Running, TypeOK
    <3>3. r = w
      BY <2>0, <3>1, <3>2
    <3>. QED
      BY <3>1, <3>2, <3>3 DEF Manifest
  <2>. QED
    BY <2>1, <2>2, <2>3, <2>4, <2>5, <2>6 DEF Next, Manifest
<1>. QED
  BY TypeCorrect, AloneInvariant, TableInvariant, <1>1, <1>2, PTL DEF Spec

\* A run is past its Release.
Past(w) == pc[w] \in {"gpg", "inrelease", "unlock", "done", "stopped"}

\* A variant of an index as it is stored, instead of as it is in a table.
Stored(up) == [up EXCEPT !.stanzas = packages[up.arch][up.variant]]

\* It was uploaded by a run that has not uploaded a Release.
Pending(up) == \E w \in Workers \ published : up \in checksums[w]

ManifestInvOf(r) ==
    /\ r \in published /\ release.indices = checksums[r]
    /\ \A up \in checksums[r] : Stored(up) = up \/ Pending(Stored(up))
    /\ \A a \in ArchsOf(BatchOf[r]), v \in 1..Variants : Listed(checksums[r], a, v)

\* The run of the Release has the table that it had when it uploaded it.
ManifestInv ==
    /\ \A w \in published : Past(w)
    /\ ~overlapped /\ Exists(release) => ManifestInvOf(release.date)

\* An index that is uploaded: what it replaces is listed as it was stored no more, but
\* its run has not uploaded a Release.
LEMMA ManifestReplaced ==
    ASSUME TypeOK, IndexInHand, ManifestInv, NEW w \in Workers, PutIndex(w),
           ~overlapped, Exists(release)
    PROVE  ManifestInvOf(release.date)'
<1>. DEFINE r == release.date
            up == index[w]
<1>1. /\ pc[w] = "upload" /\ up \in Uploads
      /\ up.arch \in Archs /\ up.variant \in 1..Variants
      /\ packages' = [packages EXCEPT ![up.arch][up.variant] = up.stanzas]
      /\ checksums' = [checksums EXCEPT ![w] = @ \cup {up}]
      /\ UNCHANGED <<release, published>>
  BY DEF PutIndex, IndexInHand, Uploads
<1>2. ManifestInvOf(r) /\ r \in Workers /\ w \notin published
  BY <1>1 DEF ManifestInv, Past, ManifestInvOf, TypeOK
<1>3. r # w
  BY <1>2 DEF ManifestInvOf
<1>4. /\ checksums'[r] = checksums[r] /\ up \in checksums'[w]
      /\ \A v \in Workers : checksums[v] \subseteq checksums'[v]
  BY <1>1, <1>2, <1>3 DEF TypeOK
<1>5. ASSUME NEW u \in checksums[r] PROVE Stored(u)' = u \/ Pending(Stored(u))'
  <2>1. u \in Uploads /\ u.arch \in Archs /\ u.variant \in 1..Variants
    BY <1>2 DEF TypeOK, Uploads
  <2>2. CASE u.arch = up.arch /\ u.variant = up.variant
    <3>1. packages'[u.arch][u.variant] = up.stanzas
      BY <1>1, <2>2 DEF TypeOK
    <3>2. [u EXCEPT !.stanzas = up.stanzas] = up
      BY <1>1, <2>1, <2>2 DEF Uploads
    <3>. QED
      BY <1>1, <1>2, <1>4, <3>1, <3>2 DEF Stored, Pending
  <2>3. CASE ~(u.arch = up.arch /\ u.variant = up.variant)
    <3>1. packages'[u.arch][u.variant] = packages[u.arch][u.variant]
      BY <1>1, <2>1, <2>3 DEF TypeOK
    <3>2. Stored(u) = u \/ Pending(Stored(u))
      BY <1>2 DEF ManifestInvOf
    <3>. QED
      BY <1>1, <1>4, <3>1, <3>2 DEF Stored, Pending
  <2>. QED
    BY <2>2, <2>3
<1>. QED
  BY <1>1, <1>2, <1>4, <1>5 DEF ManifestInvOf

\* A Release that is uploaded: the run inside has stored what its table has.
LEMMA ManifestPut ==
    ASSUME TypeOK, TableInv, StoredInv, NEW w \in Workers, PutRelease(w), ~overlapped
    PROVE  release'.date = w /\ ManifestInvOf(w)'
<1>1. /\ pc[w] = "release" /\ release' = Manifest(w) /\ published' = published \cup {w}
      /\ UNCHANGED <<packages, checksums>>
  BY DEF PutRelease
<1>2. \A up \in checksums[w] : Stored(up) = up
  <2>. SUFFICES ASSUME NEW up \in checksums[w] PROVE Stored(up) = up
    OBVIOUS
  <2>1. packages[up.arch][up.variant] = up.stanzas /\ up \in Uploads
    BY <1>1 DEF StoredInv, Running, TypeOK
  <2>. QED
    BY <2>1 DEF Stored, Uploads
<1>3. \A a \in ArchsOf(BatchOf[w]), v \in 1..Variants : Listed(checksums[w], a, v)
  BY <1>1 DEF TableInv, TableInvOf
<1>. QED
  BY <1>1, <1>2, <1>3 DEF Manifest, ManifestInvOf, Stored

LEMMA ManifestInvariant == Spec => []ManifestInv
<1>. DEFINE Typed == TypeOK /\ IndexInHand
<1>1. Init => ManifestInv
  BY DEF Init, ManifestInv, Exists
<1>2. Typed /\ TableInv /\ StoredInv /\ ManifestInv /\ [Next]_vars => ManifestInv'
  <2>. SUFFICES ASSUME TypeOK, IndexInHand, TableInv, StoredInv, ManifestInv, [Next]_vars
                PROVE  ManifestInv'
    OBVIOUS
  <2>0. \A w \in published : Past(w)
    BY DEF ManifestInv
  <2>1. CASE Revoke \/ UNCHANGED vars
    BY <2>1 DEF Revoke, vars, storeVars, ManifestInv, ManifestInvOf, Stored, Pending, Past
  <2>2. ASSUME NEW w \in Workers,
               \/ Begin(w) \/ PutPool(w) \/ GetIndex(w) \/ MergeOne(w) \/ PutSignature(w)
               \/ PutInRelease(w) \/ Unlock(w) \/ Stop(w)
        PROVE  ManifestInv'
    <3>1. UNCHANGED <<packages, release, checksums, published>>
      BY <2>2 DEF Begin, PutPool, GetIndex, MergeOne, PutSignature, PutInRelease, Unlock,
         Stop, storeVars
    <3>2. overlapped' = overlapped \/ overlapped' = (overlapped \/ inside # {})
      BY <2>2 DEF Begin, PutPool, GetIndex, MergeOne, PutSignature, PutInRelease, Unlock,
         Stop
    <3>3. /\ \A v \in Workers \ {w} : pc'[v] = pc[v]
          /\ Past(w) => Past(w)'
      BY <2>2 DEF Begin, PutPool, GetIndex, MergeOne, PutSignature, PutInRelease, Unlock,
         Stop, Goto, Past, TypeOK
    <3>4. \A v \in published : Past(v)'
      BY <2>0, <3>3 DEF Past, TypeOK
    <3>. QED
      BY <3>1, <3>2, <3>4 DEF ManifestInv, ManifestInvOf, Stored, Pending
  <2>3. ASSUME NEW w \in Workers, PutIndex(w) PROVE ManifestInv'
    <3>1. /\ pc[w] = "upload" /\ UNCHANGED <<release, published, overlapped>>
          /\ \A v \in Workers \ {w} : pc'[v] = pc[v]
      BY <2>3 DEF PutIndex, Goto, TypeOK
    <3>2. \A v \in published : Past(v)'
      BY <2>0, <3>1 DEF Past, TypeOK
    <3>. QED
      BY <2>3, <3>1, <3>2, ManifestReplaced DEF ManifestInv
  <2>4. ASSUME NEW w \in Workers, PutRelease(w) PROVE ManifestInv'
    <3>1. /\ published' = published \cup {w} /\ UNCHANGED overlapped
          /\ pc'[w] \in {"gpg", "unlock"}
          /\ \A v \in Workers \ {w} : pc'[v] = pc[v]
      BY <2>4 DEF PutRelease, Goto, TypeOK
    <3>2. \A v \in published' : Past(v)'
      BY <2>0, <3>1 DEF Past, TypeOK
    <3>. QED
      BY <2>4, <3>1, <3>2, ManifestPut DEF ManifestInv
  <2>. QED
    BY <2>1, <2>2, <2>3, <2>4 DEF Next
<1>. QED
  BY TypeCorrect, TableInvariant, StoredInvariant, <1>1, <1>2, PTL DEF Spec

\* As long as no two runs have been inside the lock at once, the Release lists every
\* variant of the indices of its run, and each is stored as it is listed, until a run
\* uploads another one and for as long as that run has not uploaded a Release itself.
THEOREM ReleaseTheorem == Spec => []ReleaseMatchesIndices
<1>1. ManifestInv => ReleaseMatchesIndices
  BY DEF ManifestInv, ManifestInvOf, ReleaseMatchesIndices, Stored, Pending, Listed
<1>. QED
  BY ManifestInvariant, <1>1, PTL
=============================================================================
