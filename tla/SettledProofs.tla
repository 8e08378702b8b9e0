--------------------------- MODULE SettledProofs ---------------------------
(***************************************************************************)
(* Theorems about what the runs of Publisher leave behind, one after the   *)
(* other: the signed state, the stanzas of the pool files, and the         *)
(* packages that stay published.                                           *)
(***************************************************************************)
EXTENDS PublisherProofs

\* All runs sign, none was inside with another one, none has failed.
Orderly ==
    /\ ~overlapped
    /\ \A w \in Workers : SignOf[w] /\ pc[w] # "stopped"

\* The three uploads of phase 3 follow each other, and no index is uploaded between.
SignedInv ==
    Orderly /\ Exists(release) =>
        /\ (\A w \in Workers : pc[w] # "gpg") => signature = release
        /\ (\A w \in Workers : pc[w] \notin {"gpg", "inrelease"}) => inRelease = release
        /\ (\A w \in Workers : pc[w] \notin {"index", "merge", "upload", "release"}) =>
              \A up \in release.indices : packages[up.arch][up.variant] = up.stanzas

LEMMA SignedInvariant == Spec => []SignedInv
<1>. DEFINE Typed == TypeOK /\ IndexInHand
<1>1. Init => SignedInv
  BY DEF Init, SignedInv, Exists
<1>2. TypeOK /\ AloneInv /\ StoredInv /\ StoredInv' /\ SignedInv /\ [Next]_vars => SignedInv'
  <2>. SUFFICES ASSUME TypeOK, AloneInv, StoredInv, StoredInv', SignedInv, [Next]_vars,
                       Orderly', Exists(release')
                PROVE  /\ (\A w \in Workers : pc'[w] # "gpg") => signature' = release'
                       /\ (\A w \in Workers : pc'[w] \notin {"gpg", "inrelease"}) =>
                             inRelease' = release'
                       /\ (\A w \in Workers :
                              pc'[w] \notin {"index", "merge", "upload", "release"}) =>
                             \A up \in release'.indices :
                                packages'[up.arch][up.variant] = up.stanzas
    BY DEF SignedInv, Exists
  <2>. USE DEF lockVars, storeVars, Goto
  <2>1. CASE Revoke \/ UNCHANGED vars
    <3>1. UNCHANGED <<storeVars, pc, overlapped>>
      BY <2>1 DEF Revoke, vars
    <3>. QED
      BY <3>1 DEF SignedInv, Orderly
  \* Steps that upload nothing that is signed or listed.
  <2>2. ASSUME NEW w \in Workers,
               \/ Begin(w) \/ PutPool(w) \/ GetIndex(w) \/ MergeOne(w) \/ Unlock(w) \/ Stop(w)
        PROVE  /\ UNCHANGED <<packages, release, signature, inRelease>> /\ Orderly
               /\ pc[w] \notin {"gpg", "inrelease"} /\ pc'[w] \notin {"gpg", "inrelease"}
               /\ pc[w] \in {"index", "merge", "upload", "release"} =>
                     pc'[w] \in {"index", "merge", "upload", "release"}
               /\ \A v \in Workers \ {w} : pc'[v] = pc[v]
    <3>1. UNCHANGED <<packages, release, signature, inRelease>> /\ ~overlapped
      <4>1. CASE Begin(w)
        BY <4>1 DEF Begin, Orderly
      <4>2. CASE ~Begin(w)
        BY <2>2, <4>2 DEF PutPool, GetIndex, MergeOne, Unlock, Stop, Orderly
      <4>. QED
        BY <4>1, <4>2
    <3>2. /\ \A v \in Workers \ {w} : pc'[v] = pc[v]
          /\ \/ pc[w] = "idle" /\ pc'[w] = "pool"
             \/ pc[w] = "pool" /\ pc'[w] \in {"pool", "index"}
             \/ pc[w] = "index" /\ pc'[w] = "merge"
             \/ pc[w] = "merge" /\ pc'[w] \in {"merge", "upload"}
             \/ pc[w] = "unlock" /\ pc'[w] = "done"
             \/ pc'[w] = "stopped"
      BY <2>2 DEF Begin, PutPool, GetIndex, MergeOne, Unlock, Stop, TypeOK
    <3>3. pc'[w] # "stopped"
      BY DEF Orderly
    <3>. QED
      BY <3>1, <3>2, <3>3 DEF Orderly
  <2>3. ASSUME NEW w \in Workers, PutIndex(w)
        PROVE  /\ UNCHANGED <<release, signature, inRelease>> /\ Orderly
               /\ pc[w] = "upload" /\ pc'[w] \in {"upload", "index", "release"}
               /\ \A v \in Workers \ {w} : pc'[v] = pc[v]
    BY <2>3 DEF PutIndex, Orderly, TypeOK
  <2>4. ASSUME NEW w \in Workers, PutRelease(w)
        PROVE  /\ pc'[w] = "gpg"
               /\ \A up \in release'.indices : packages'[up.arch][up.variant] = up.stanzas
    <3>1. pc'[w] = "gpg"
      BY <2>4 DEF PutRelease, Orderly, TypeOK
    <3>2. release' = Manifest(w)' /\ ~overlapped'
          /\ \A up \in checksums'[w] : packages'[up.arch][up.variant] = up.stanzas
      BY <3>1 DEF StoredInv, Running, Orderly
    <3>. QED
      BY <3>1, <3>2 DEF Manifest
  <2>5. ASSUME NEW w \in Workers, PutSignature(w)
        PROVE  /\ signature' = release /\ UNCHANGED <<packages, release>> /\ Orderly
               /\ pc'[w] = "inrelease" /\ pc[w] = "gpg"
               /\ \A v \in Workers \ {w} : pc'[v] = pc[v]
    <3>1. pc[w] = "gpg" /\ pc'[w] = "inrelease" /\ signature' = Manifest(w) /\ Orderly
          /\ UNCHANGED <<packages, release>> /\ \A v \in Workers \ {w} : pc'[v] = pc[v]
      BY <2>5 DEF PutSignature, Orderly, TypeOK
    <3>. QED
      BY <3>1 DEF StoredInv, Running, Orderly
  <2>6. ASSUME NEW w \in Workers, PutInRelease(w)
        PROVE  /\ inRelease' = release /\ UNCHANGED <<packages, release, signature>> /\ Orderly
               /\ pc'[w] = "unlock" /\ pc[w] = "inrelease"
               /\ \A v \in Workers \ {w} : pc'[v] = pc[v]
    <3>1. pc[w] = "inrelease" /\ pc'[w] = "unlock" /\ inRelease' = Manifest(w) /\ Orderly
          /\ UNCHANGED <<packages, release, signature>>
          /\ \A v \in Workers \ {w} : pc'[v] = pc[v]
      BY <2>6 DEF PutInRelease, Orderly, TypeOK
    <3>. QED
      BY <3>1 DEF StoredInv, Running, Orderly
  <2>. QED
    BY <2>1, <2>2, <2>3, <2>4, <2>5, <2>6 DEF Next, SignedInv
<1>. QED
  BY TypeCorrect, AloneInvariant, StoredInvariant, <1>1, <1>2, PTL DEF Spec

\* Between runs that all sign and have all ended well, one after the other, both
\* signatures are of the stored Release, and what it lists is what is stored.
THEOREM SignedTheorem == Spec => []SignedStateIsConsistent
<1>1. SignedInv => SignedStateIsConsistent
  BY DEF SignedInv, SignedStateIsConsistent, Orderly, Quiet
<1>. QED
  BY <1>1, SignedInvariant, PTL

-----------------------------------------------------------------------------
(***************************************************************************)
(* Stanzas and pool files.  A run replaces a file first and its stanza     *)
(* later, variant by variant, so that what a stanza matches is known only  *)
(* for the variants that the run inside is done with; for the others, the  *)
(* file is one that this run publishes.                                    *)
(***************************************************************************)
SamePath(d, e) == PoolPath(d) = PoolPath(e)

\* The file of this package is the one that the run was given.
Uploaded(d) == pool[PoolPath(d)] = d.sum \/ PoolPath(d) \in Rebuilt

Matches(s) == pool[PoolPath(s)] = s.sum \/ Unsettled(PoolPath(s))

\* Of the packages of debs, the stanzas have none but these.
OnlyOwn(stanzas, debs) == \A s \in stanzas, d \in debs : SamePath(s, d) => s = d

StoredOwn(w, a, v) == Exists(packages[a][v]) => OnlyOwn(packages[a][v], BatchOf[w])

Ended == {"release", "gpg", "inrelease", "unlock"}

MatchInvOf(w) ==
    /\ pc[w] = "pool" =>
          candidates[w] \subseteq BatchOf[w] /\ \A d \in BatchOf[w] \ candidates[w] : Uploaded(d)
    /\ pc[w] \in {"index", "merge", "upload"} \cup Ended => \A d \in BatchOf[w] : Uploaded(d)
    /\ pc[w] \in {"merge", "upload"} =>
          \A s \in index[w].stanzas : s.arch = index[w].arch /\ Matches(s)
    /\ pc[w] = "merge" =>
          /\ candidates[w] \subseteq InArch(BatchOf[w], index[w].arch)
          /\ OnlyOwn(index[w].stanzas, InArch(BatchOf[w], index[w].arch) \ candidates[w])
    /\ pc[w] = "upload" =>
          /\ OnlyOwn(index[w].stanzas, BatchOf[w])
          /\ \A v \in 1..Variants : v < index[w].variant => StoredOwn(w, index[w].arch, v)
    /\ pc[w] \in {"index", "merge", "upload"} =>
          \A a \in ArchsOf(BatchOf[w]) \ toIndex[w], v \in 1..Variants : StoredOwn(w, a, v)
    /\ pc[w] \in Ended =>
          \A a \in ArchsOf(BatchOf[w]), v \in 1..Variants : StoredOwn(w, a, v)

MatchInv ==
    ~overlapped =>
        /\ \A a \in Archs, v \in 1..Variants : Exists(packages[a][v]) =>
              \A s \in packages[a][v] : s.arch = a /\ Matches(s)
        /\ \A w \in Workers : MatchInvOf(w)

LEMMA PathFacts ==
    ASSUME NEW d \in Debs, NEW e \in Debs
    PROVE  /\ SamePath(d, e) <=> d.name = e.name /\ d.arch = e.arch /\ d.version = e.version
           /\ PoolPath(d) \in PoolPaths
BY DEF SamePath, PoolPath, PoolPaths, Debs

\* Where nobody else is inside, a step of w keeps what MatchInv says of the others.
LEMMA MatchOfOthers ==
    ASSUME AloneInv, AloneInv', ~overlapped', NEW w \in Workers, Running(w)', MatchInvOf(w)'
    PROVE  \A v \in Workers : MatchInvOf(v)'
<1>1. \A v \in Workers : Running(v)' => v = w
  BY DEF AloneInv
<1>2. \A v \in Workers : ~Running(v)' => MatchInvOf(v)'
  BY DEF Running, MatchInvOf, Ended
<1>. QED
  BY <1>1, <1>2

\* What is unsettled remains so while nobody ends well.
LEMMA UnsettledKept ==
    ASSUME TypeOK,
           \A v \in Workers : pc[v] \notin {"idle", "done"} => pc'[v] \notin {"idle", "done"}
    PROVE  /\ \A path : Unsettled(path) => Unsettled(path)'
           /\ pool' = pool => \A s : Matches(s) => Matches(s)'
BY DEF Unsettled, Matches

LEMMA MatchInvariant == Spec => []MatchInv
<1>. USE VariantAssumption
<1>a. \A w \in Workers : BatchOf[w] \subseteq Debs
  BY BatchAssumption
<1>b. \A w \in Workers : \A d, e \in BatchOf[w] : SamePath(d, e) => d = e
  BY BatchAssumption DEF SamePath
<1>1. Init => MatchInv
  BY DEF Init, MatchInv, MatchInvOf, Exists, Ended
<1>2. TypeOK /\ IndexInHand /\ AloneInv /\ AloneInv' /\ TableInv /\ MatchInv /\ [Next]_vars
         => MatchInv'
  <2>. SUFFICES ASSUME TypeOK, IndexInHand, AloneInv, AloneInv', TableInv, MatchInv, [Next]_vars,
                       ~overlapped'
                PROVE  /\ \A a \in Archs, v \in 1..Variants : Exists(packages'[a][v]) =>
                             \A s \in packages'[a][v] : s.arch = a /\ Matches(s)'
                       /\ \A w \in Workers : MatchInvOf(w)'
    BY DEF MatchInv, Exists
  <2>. USE DEF lockVars, storeVars
  <2>0. ~overlapped
    <3>1. ASSUME NEW w \in Workers, Begin(w) PROVE ~overlapped
      BY <3>1 DEF Begin
    <3>2. CASE UNCHANGED overlapped
      BY <3>2
    <3>. QED
      BY <3>1, <3>2 DEF Next, vars, Revoke, PutPool, GetIndex, MergeOne, PutIndex, PutRelease,
                        PutSignature, PutInRelease, Unlock, Stop
  <2>i. /\ \A a \in Archs, v \in 1..Variants : Exists(packages[a][v]) =>
               \A s \in packages[a][v] : s.arch = a /\ Matches(s)
        /\ \A w \in Workers : MatchInvOf(w)
    BY <2>0 DEF MatchInv
  <2>1. CASE Revoke \/ UNCHANGED vars
    <3>1. UNCHANGED <<storeVars, pc, candidates, toIndex, index>>
      BY <2>1 DEF Revoke, vars
    <3>2. \A s : Matches(s)' <=> Matches(s)
      BY <3>1 DEF Matches, Unsettled
    <3>3. \A w \in Workers : MatchInvOf(w)'
      BY <3>1, <3>2, <2>i DEF MatchInvOf, Uploaded, StoredOwn
    <3>. QED
      BY <3>1, <3>2, <3>3, <2>i
  \* A step that does not touch the store and ends nothing.
  <2>2. ASSUME NEW w \in Workers, UNCHANGED <<pool, packages>>, Running(w)', MatchInvOf(w)',
               \A v \in Workers \ {w} : pc'[v] = pc[v]
        PROVE  /\ \A a \in Archs, v \in 1..Variants : Exists(packages'[a][v]) =>
                     \A s \in packages'[a][v] : s.arch = a /\ Matches(s)'
               /\ \A v \in Workers : MatchInvOf(v)'
    <3>1. \A v \in Workers : pc[v] \notin {"idle", "done"} => pc'[v] \notin {"idle", "done"}
      BY <2>2 DEF Running
    <3>. QED
      BY <2>2, <3>1, <2>i, UnsettledKept, MatchOfOthers
  <2>3. ASSUME NEW w \in Workers, Begin(w) PROVE MatchInv'
    <3>1. /\ pc[w] = "idle" /\ pc'[w] = "pool" /\ UNCHANGED <<pool, packages>>
          /\ candidates'[w] = BatchOf[w] /\ \A v \in Workers \ {w} : pc'[v] = pc[v]
      BY <2>3 DEF Begin, Goto, TypeOK
    <3>2. MatchInvOf(w)'
      BY <3>1 DEF MatchInvOf, Ended
    <3>. QED
      BY <2>2, <3>1, <3>2 DEF MatchInv, Running
  <2>4. ASSUME NEW w \in Workers, PutPool(w) PROVE MatchInv'
    <3>1. PICK deb \in candidates[w] :
             /\ \E sum \in Contents(deb) : pool' = [pool EXCEPT ![PoolPath(deb)] = sum]
             /\ candidates' = [candidates EXCEPT ![w] = @ \ {deb}]
             /\ IF candidates[w] = {deb}
                  THEN /\ Goto(w, "index")
                       /\ toIndex' = [toIndex EXCEPT ![w] = ArchsOf(BatchOf[w])]
                  ELSE UNCHANGED <<pc, toIndex>>
      BY <2>4 DEF PutPool
    <3>2. PICK sum \in Contents(deb) : pool' = [pool EXCEPT ![PoolPath(deb)] = sum]
      BY <3>1
    <3>3. /\ pc[w] = "pool" /\ pc'[w] \in {"pool", "index"} /\ UNCHANGED packages
          /\ candidates'[w] = candidates[w] \ {deb}
          /\ pc'[w] = "index" => candidates'[w] = {} /\ toIndex'[w] = ArchsOf(BatchOf[w])
          /\ \A v \in Workers \ {w} : pc'[v] = pc[v]
      BY <2>4, <3>1 DEF PutPool, Goto, TypeOK
    <3>4. deb \in BatchOf[w] /\ \A d \in BatchOf[w] \ candidates[w] : Uploaded(d)
      BY <3>3, <2>i DEF MatchInvOf
    <3>5. /\ PoolPath(deb) \in PoolPaths
          /\ pool'[PoolPath(deb)] = sum
          /\ \A path \in PoolPaths : path # PoolPath(deb) => pool'[path] = pool[path]
      BY <1>a, <3>2, <3>4, PathFacts DEF TypeOK
    <3>6. Uploaded(deb)'
      BY <3>5 DEF Contents, Uploaded
    <3>7. \A d \in BatchOf[w] \ candidates'[w] : Uploaded(d)'
      <4>. SUFFICES ASSUME NEW d \in BatchOf[w], d \notin candidates[w], d # deb
                    PROVE  Uploaded(d)'
        BY <3>3, <3>6
      <4>1. PoolPath(d) # PoolPath(deb) /\ PoolPath(d) \in PoolPaths
        BY <1>a, <1>b, <3>4, PathFacts DEF SamePath
      <4>. QED
        BY <3>4, <3>5, <4>1 DEF Uploaded
    <3>8. MatchInvOf(w)'
      <4>1. candidates'[w] \subseteq BatchOf[w]
        BY <3>3, <2>i DEF MatchInvOf
      <4>2. pc'[w] = "index" => \A d \in BatchOf[w] : Uploaded(d)'
        BY <3>3, <3>7
      <4>. QED
        BY <3>3, <3>7, <4>1, <4>2 DEF MatchInvOf, Ended
    <3>9. ASSUME NEW s \in Debs, Matches(s) PROVE Matches(s)'
      <4>1. CASE PoolPath(s) = PoolPath(deb)
        BY <3>3, <3>4, <4>1 DEF Matches, Unsettled
      <4>2. CASE PoolPath(s) # PoolPath(deb)
        <5>1. PoolPath(s) \in PoolPaths
          BY PathFacts
        <5>2. \A v \in Workers : pc[v] \notin {"idle", "done"} => pc'[v] \notin {"idle", "done"}
          BY <3>3
        <5>. QED
          BY <3>5, <3>9, <4>2, <5>1, <5>2, UnsettledKept DEF Matches
      <4>. QED
        BY <4>1, <4>2
    <3>10. \A a \in Archs, v \in 1..Variants : Exists(packages'[a][v]) =>
              \A s \in packages'[a][v] : s.arch = a /\ Matches(s)'
      <4>. SUFFICES ASSUME NEW a \in Archs, NEW v \in 1..Variants, Exists(packages[a][v]),
                           NEW s \in packages[a][v]
                    PROVE  s.arch = a /\ Matches(s)'
        BY <3>3
      <4>1. s \in Debs
        BY DEF TypeOK, Exists
      <4>. QED
        BY <2>i, <3>9, <4>1
    <3>11. Running(w)'
      BY <3>3 DEF Running
    <3>. QED
      BY <3>8, <3>10, <3>11, MatchOfOthers DEF MatchInv
  <2>5. ASSUME NEW w \in Workers, GetIndex(w) PROVE MatchInv'
    <3>1. PICK a \in toIndex[w] : \E existing \in Existing(a) :
             /\ index' = [index EXCEPT ![w] =
                            [arch |-> a, stanzas |-> existing, variant |-> 1]]
             /\ candidates' = [candidates EXCEPT ![w] = InArch(BatchOf[w], a)]
      BY <2>5 DEF GetIndex
    <3>2. PICK existing \in Existing(a) :
             /\ index' = [index EXCEPT ![w] =
                            [arch |-> a, stanzas |-> existing, variant |-> 1]]
             /\ candidates' = [candidates EXCEPT ![w] = InArch(BatchOf[w], a)]
      BY <3>1
    <3>3. /\ pc[w] = "index" /\ pc'[w] = "merge" /\ UNCHANGED <<pool, packages, toIndex>>
          /\ index'[w].stanzas = existing /\ index'[w].arch = a
          /\ candidates'[w] = InArch(BatchOf[w], a)
          /\ \A v \in Workers \ {w} : pc'[v] = pc[v]
      BY <2>5, <3>2 DEF GetIndex, Goto, TypeOK
    <3>4. a \in Archs /\ 1 \in 1..Variants
      BY DEF TypeOK
    <3>5. \A s \in existing : s.arch = a /\ Matches(s)
      BY <2>i, <3>4 DEF Existing, Exists
    <3>6. \A s \in existing : s.arch = a /\ Matches(s)'
      <4>1. \A v \in Workers : pc[v] \notin {"idle", "done"} => pc'[v] \notin {"idle", "done"}
        BY <3>3
      <4>. QED
        BY <3>3, <3>5, <4>1, UnsettledKept
    <3>7. OnlyOwn(existing, InArch(BatchOf[w], a) \ candidates'[w])
      BY <3>3 DEF OnlyOwn
    <3>8. MatchInvOf(w)'
      <4>1. \A d \in BatchOf[w] : Uploaded(d)'
        BY <2>i, <3>3 DEF MatchInvOf, Uploaded
      <4>2. \A b \in ArchsOf(BatchOf[w]) \ toIndex'[w], v \in 1..Variants : StoredOwn(w, b, v)'
        BY <2>i, <3>3 DEF MatchInvOf, StoredOwn
      <4>. QED
        BY <3>3, <3>6, <3>7, <4>1, <4>2 DEF MatchInvOf, Ended
    <3>. QED
      BY <2>2, <3>3, <3>8 DEF MatchInv, Running
  <2>6. ASSUME NEW w \in Workers, MergeOne(w) PROVE MatchInv'
    <3>1. PICK deb \in candidates[w] :
             /\ index' = [index EXCEPT ![w].stanzas = AddOrUpdate(@, deb, PreserveOf[w])]
             /\ candidates' = [candidates EXCEPT ![w] = @ \ {deb}]
             /\ Goto(w, IF candidates[w] = {deb} THEN "upload" ELSE "merge")
      BY <2>6 DEF MergeOne
    <3>2. pc[w] = "merge" /\ index[w] \in Uploads /\ candidates[w] \subseteq BatchOf[w]
      BY <2>6 DEF MergeOne, IndexInHand
    <3>. DEFINE old == index[w].stanzas
                new == AddOrUpdate(old, deb, PreserveOf[w])
                arch == index[w].arch
    <3>3. /\ pc'[w] \in {"merge", "upload"} /\ UNCHANGED <<pool, packages, toIndex>>
          /\ index'[w].stanzas = new /\ index'[w].arch = arch
          /\ index'[w].variant = index[w].variant
          /\ candidates'[w] = candidates[w] \ {deb}
          /\ pc'[w] = "upload" => candidates'[w] = {}
          /\ \A v \in Workers \ {w} : pc'[v] = pc[v]
      BY <2>6, <3>1, <3>2 DEF MergeOne, Goto, TypeOK, Uploads
    <3>4. /\ old \subseteq Debs /\ deb \in Debs /\ deb \in BatchOf[w]
          /\ \A s \in old : s.arch = arch /\ Matches(s)
          /\ OnlyOwn(old, InArch(BatchOf[w], arch) \ candidates[w])
          /\ candidates[w] \subseteq InArch(BatchOf[w], arch)
      BY <1>a, <2>i, <3>2 DEF MatchInvOf, Uploads
    <3>5. \A s \in new : s = deb \/ (s \in old /\ ~SamePath(s, deb))
      <4>1. \A s \in old : SamePath(s, deb) => s \notin new \/ s = deb
        BY <3>4, PathFacts DEF AddOrUpdate, SamePackage
      <4>. QED
        BY <4>1 DEF AddOrUpdate
    <3>6. \A s \in new : s.arch = arch /\ Matches(s)'
      <4>1. Matches(deb)'
        BY <3>3, <3>4 DEF Matches, Unsettled
      <4>2. \A v \in Workers : pc[v] \notin {"idle", "done"} => pc'[v] \notin {"idle", "done"}
        BY <3>2, <3>3
      <4>3. \A s \in old : Matches(s)'
        BY <3>3, <3>4, <4>2, UnsettledKept
      <4>4. deb.arch = arch
        BY <3>4 DEF InArch
      <4>. QED
        BY <3>4, <3>5, <4>1, <4>3, <4>4
    <3>7. OnlyOwn(new, InArch(BatchOf[w], arch) \ candidates'[w])
      <4>. SUFFICES ASSUME NEW s \in new, NEW d \in InArch(BatchOf[w], arch),
                           d \notin candidates[w] \/ d = deb, SamePath(s, d)
                    PROVE  s = d
        BY <3>3 DEF OnlyOwn
      <4>1. d \in BatchOf[w]
        BY DEF InArch
      <4>2. CASE s = deb
        BY <1>b, <3>4, <4>1, <4>2
      <4>3. CASE s # deb
        BY <3>4, <3>5, <4>3 DEF OnlyOwn
      <4>. QED
        BY <4>2, <4>3
    <3>8. pc'[w] = "upload" => OnlyOwn(new, BatchOf[w])
      <4>. SUFFICES ASSUME candidates'[w] = {}, NEW s \in new, NEW d \in BatchOf[w], SamePath(s, d)
                    PROVE  s = d
        BY <3>3 DEF OnlyOwn
      <4>1. s \in Debs /\ d \in Debs
        BY <1>a, <3>4, <3>5
      <4>2. d.arch = arch
        BY <3>6, <4>1, PathFacts
      <4>. QED
        BY <3>7, <4>2 DEF OnlyOwn, InArch
    <3>9. MatchInvOf(w)'
      <4>1. \A d \in BatchOf[w] : Uploaded(d)'
        BY <2>i, <3>2, <3>3 DEF MatchInvOf, Uploaded
      <4>2. \A b \in ArchsOf(BatchOf[w]) \ toIndex'[w], v \in 1..Variants : StoredOwn(w, b, v)'
        BY <2>i, <3>2, <3>3 DEF MatchInvOf, StoredOwn
      <4>3. pc'[w] = "upload" => \A v \in 1..Variants : ~(v < index'[w].variant)
        BY <3>2, <3>3 DEF TableInv, TableInvOf
      <4>4. candidates'[w] \subseteq InArch(BatchOf[w], arch)
        BY <3>3, <3>4
      <4>. HIDE DEF new, arch
      <4>. QED
        BY <3>3, <3>6, <3>7, <3>8, <4>1, <4>2, <4>3, <4>4 DEF MatchInvOf, Ended
    <3>. QED
      BY <2>2, <3>3, <3>9 DEF MatchInv, Running
  <2>7. ASSUME NEW w \in Workers, PutIndex(w) PROVE MatchInv'
    <3>. DEFINE up == index[w]
    <3>1. /\ pc[w] = "upload" /\ up \in Uploads /\ up.arch \in Archs
          /\ up.variant \in 1..Variants
          /\ packages' = [packages EXCEPT ![up.arch][up.variant] = up.stanzas]
          /\ UNCHANGED pool
      BY <2>7 DEF PutIndex, IndexInHand, Uploads
    <3>2. /\ packages'[up.arch][up.variant] = up.stanzas
          /\ \A a \in Archs, v \in 1..Variants :
                ~(a = up.arch /\ v = up.variant) => packages'[a][v] = packages[a][v]
      BY <3>1 DEF TypeOK
    <3>3. /\ \A v \in Workers \ {w} : pc'[v] = pc[v]
          /\ \/ /\ pc'[w] = "upload" /\ toIndex'[w] = toIndex[w]
                /\ index'[w].stanzas = up.stanzas /\ index'[w].arch = up.arch
                /\ index'[w].variant = up.variant + 1
             \/ /\ pc'[w] \in {"index", "release"} /\ toIndex'[w] = toIndex[w] \ {up.arch}
                /\ up.variant = Variants
                /\ pc'[w] = "release" => toIndex'[w] = {}
      <4>1. CASE up.variant < Variants
        <5>1. index' = [index EXCEPT ![w].variant = @ + 1] /\ UNCHANGED <<pc, toIndex>>
          BY <2>7, <4>1 DEF PutIndex
        <5>. QED
          BY <3>1, <5>1 DEF TypeOK, Uploads
      <4>2. CASE ~(up.variant < Variants)
        <5>1. up.variant = Variants
          BY <3>1, <4>2
        <5>2. /\ toIndex' = [toIndex EXCEPT ![w] = @ \ {up.arch}]
              /\ pc' = [pc EXCEPT ![w] = IF toIndex[w] = {up.arch} THEN "release" ELSE "index"]
          BY <2>7, <4>2 DEF PutIndex, Goto
        <5>. QED
          BY <5>1, <5>2 DEF TypeOK
      <4>. QED
        BY <4>1, <4>2
    <3>4. /\ \A s \in up.stanzas : s.arch = up.arch /\ Matches(s)
          /\ OnlyOwn(up.stanzas, BatchOf[w])
          /\ \A v \in 1..Variants : v < up.variant => StoredOwn(w, up.arch, v)
          /\ \A a \in ArchsOf(BatchOf[w]) \ toIndex[w], v \in 1..Variants : StoredOwn(w, a, v)
          /\ \A d \in BatchOf[w] : Uploaded(d)
      BY <2>i, <3>1 DEF MatchInvOf
    <3>5. \A s : Matches(s) => Matches(s)'
      <4>1. \A v \in Workers : pc[v] \notin {"idle", "done"} => pc'[v] \notin {"idle", "done"}
        BY <3>3
      <4>. QED
        BY <3>1, <4>1, UnsettledKept
    <3>6. \A a \in Archs, v \in 1..Variants : Exists(packages'[a][v]) =>
             \A s \in packages'[a][v] : s.arch = a /\ Matches(s)'
      <4>. SUFFICES ASSUME NEW a \in Archs, NEW v \in 1..Variants, Exists(packages'[a][v]),
                           NEW s \in packages'[a][v]
                    PROVE  s.arch = a /\ Matches(s)'
        OBVIOUS
      <4>1. CASE a = up.arch /\ v = up.variant
        BY <3>2, <3>4, <3>5, <4>1
      <4>2. CASE ~(a = up.arch /\ v = up.variant)
        BY <2>i, <3>2, <3>5, <4>2 DEF Exists
      <4>. QED
        BY <4>1, <4>2
    <3>. PICK b \in Archs, n \in 1..Variants : b = up.arch /\ n = up.variant
      BY <3>1
    <3>7. ASSUME NEW a \in Archs, NEW v \in 1..Variants, StoredOwn(w, a, v)
          PROVE  StoredOwn(w, a, v)'
      BY <3>2, <3>4, <3>7 DEF StoredOwn, Exists
    <3>8. StoredOwn(w, b, n)'
      BY <3>2, <3>4 DEF StoredOwn
    <3>9. ArchsOf(BatchOf[w]) \subseteq Archs
      BY <1>a DEF ArchsOf, Debs
    <3>10. \A a \in ArchsOf(BatchOf[w]) \ toIndex[w], v \in 1..Variants : StoredOwn(w, a, v)'
      BY <3>4, <3>7, <3>9
    <3>11. \A v \in 1..Variants : v < n \/ v = n => StoredOwn(w, b, v)'
      BY <3>1, <3>4, <3>7, <3>8
    <3>12. MatchInvOf(w)'
      <4>1. \A d \in BatchOf[w] : Uploaded(d)'
        BY <3>1, <3>4 DEF Uploaded
      <4>2. CASE pc'[w] = "upload"
        <5>1. \A v \in 1..Variants : v < n + 1 => StoredOwn(w, b, v)'
          <6>1. \A v \in 1..Variants : v < n + 1 => v < n \/ v = n
            BY <3>1
          <6>. QED
            BY <3>11, <6>1
        <5>2. \A s \in index'[w].stanzas : s.arch = index'[w].arch /\ Matches(s)'
          BY <3>3, <3>4, <3>5, <4>2
        <5>. QED
          BY <3>3, <3>4, <3>10, <4>1, <4>2, <5>1, <5>2 DEF MatchInvOf, Ended
      <4>3. CASE pc'[w] \in {"index", "release"}
        <5>1. \A v \in 1..Variants : StoredOwn(w, b, v)'
          <6>1. \A v \in 1..Variants : v < n \/ v = n
            BY <3>3, <4>3
          <6>. QED
            BY <3>11, <6>1
        <5>2. \A a \in ArchsOf(BatchOf[w]) \ toIndex'[w], v \in 1..Variants : StoredOwn(w, a, v)'
          BY <3>3, <3>10, <4>3, <5>1
        <5>. QED
          BY <3>3, <4>1, <4>3, <5>2 DEF MatchInvOf, Ended
      <4>. QED
        BY <3>3, <4>2, <4>3
    <3>13. Running(w)'
      BY <3>3 DEF Running
    <3>. QED
      BY <3>6, <3>12, <3>13, MatchOfOthers DEF MatchInv
  <2>8. ASSUME NEW w \in Workers, PutRelease(w) \/ PutSignature(w) \/ PutInRelease(w)
        PROVE  MatchInv'
    <3>1. /\ pc[w] \in Ended /\ pc'[w] \in Ended /\ UNCHANGED <<pool, packages>>
          /\ \A v \in Workers \ {w} : pc'[v] = pc[v]
      BY <2>8 DEF PutRelease, PutSignature, PutInRelease, Goto, TypeOK, Ended
    <3>2. MatchInvOf(w)'
      <4>1. \A d \in BatchOf[w] : Uploaded(d)'
        BY <2>i, <3>1 DEF MatchInvOf, Uploaded
      <4>2. \A a \in ArchsOf(BatchOf[w]), v \in 1..Variants : StoredOwn(w, a, v)'
        BY <2>i, <3>1 DEF MatchInvOf, StoredOwn
      <4>. QED
        BY <3>1, <4>1, <4>2 DEF MatchInvOf, Ended
    <3>. QED
      BY <2>2, <3>1, <3>2 DEF MatchInv, Running, Ended
  <2>9. ASSUME NEW w \in Workers, Stop(w) PROVE MatchInv'
    <3>1. /\ Running(w) /\ pc'[w] = "stopped" /\ UNCHANGED <<pool, packages>>
          /\ \A v \in Workers \ {w} : pc'[v] = pc[v]
      BY <2>9 DEF Stop, Goto, TypeOK, Running
    <3>2. \A v \in Workers : pc[v] \notin {"idle", "done"} => pc'[v] \notin {"idle", "done"}
      BY <3>1
    <3>3. \A v \in Workers : ~Running(v)'
      BY <2>0, <3>1 DEF AloneInv, Running
    <3>4. \A v \in Workers : MatchInvOf(v)'
      BY <3>3 DEF Running, MatchInvOf, Ended
    <3>. QED
      BY <2>i, <3>1, <3>2, <3>4, UnsettledKept DEF MatchInv
  <2>10. ASSUME NEW w \in Workers, Unlock(w) PROVE MatchInv'
    <3>1. /\ pc[w] = "unlock" /\ pc'[w] = "done" /\ UNCHANGED <<pool, packages>>
          /\ \A v \in Workers \ {w} : pc'[v] = pc[v]
      BY <2>10 DEF Unlock, Goto, TypeOK
    <3>2. \A v \in Workers : ~Running(v)'
      BY <2>0, <3>1 DEF AloneInv, Running
    <3>3. \A v \in Workers : MatchInvOf(v)'
      BY <3>2 DEF Running, MatchInvOf, Ended
    <3>4. ASSUME NEW a \in Archs, NEW v \in 1..Variants, Exists(packages[a][v]),
                 NEW s \in packages[a][v]
          PROVE  s.arch = a /\ Matches(s)'
      <4>1. s \in Debs /\ s.arch = a /\ Matches(s)
        BY <2>i, <3>4 DEF TypeOK, Exists
      <4>2. CASE \E d \in BatchOf[w] : SamePath(s, d)
        <5>1. PICK d \in BatchOf[w] : SamePath(s, d)
          BY <4>2
        <5>2. d.arch = a
          BY <1>a, <4>1, <5>1, PathFacts
        <5>3. StoredOwn(w, a, v) /\ Uploaded(d)
          BY <2>i, <3>1, <5>2 DEF MatchInvOf, Ended, ArchsOf
        <5>4. s = d
          BY <3>4, <5>1, <5>3 DEF StoredOwn, OnlyOwn
        <5>. QED
          BY <3>1, <4>1, <5>3, <5>4 DEF Uploaded, Matches, Unsettled
      <4>3. CASE ~\E d \in BatchOf[w] : SamePath(s, d)
        BY <3>1, <4>1, <4>3 DEF Matches, Unsettled, SamePath
      <4>. QED
        BY <4>2, <4>3
    <3>. QED
      BY <3>1, <3>3, <3>4 DEF MatchInv, Exists
  <2>. QED
    BY <2>1, <2>3, <2>4, <2>5, <2>6, <2>7, <2>8, <2>9, <2>10 DEF Next, MatchInv
<1>. QED
  BY TypeCorrect, AloneInvariant, TableInvariant, <1>1, <1>2, PTL DEF Spec

\* As long as no two runs were inside at once, whatever fails and is published again, every
\* stanza of every variant has the checksum of its pool file, unless a run that is under way
\* or has failed replaces the file, or it was built anew while a run had it in hand.
THEOREM StanzaTheorem == Spec => []StanzaMatchesFile
<1>1. MatchInv => StanzaMatchesFile
  BY DEF MatchInv, StanzaMatchesFile, Matches
<1>. QED
  BY <1>1, MatchInvariant, PTL
-----------------------------------------------------------------------------
(***************************************************************************)
(* What is published.  A package that a run has published is in the plain  *)
(* index or has been replaced by another run, and that remains so while a  *)
(* run has the index in hand; a run that has not published yet has its own *)
(* packages in the indices that it is done with, and in the one in hand    *)
(* those that it has merged, older ones first.                             *)
(***************************************************************************)
Begun(w) == pc[w] # "idle"

\* In these stanzas, a package of w is kept, or replaced by another run.
Here(stanzas, w, deb) ==
    /\ Exists(stanzas)
    /\ \E s \in stanzas : SamePackage(s, deb)
    /\ deb \in stanzas \/ \E v \in Workers \ {w} : Begun(v) /\ Replaces(v, deb)

\* They have all of these packages of w that w keeps.
Own(stanzas, w, debs) ==
    Exists(stanzas) /\ \A d \in debs : Keeps(w, d) => d \in stanzas

HasPublished(w) == pc[w] \in {"gpg", "inrelease", "unlock", "done", "stopped"}

InHandInvOf(w) ==
    LET up == index[w]
        mine == InArch(BatchOf[w], up.arch)
    IN /\ pc[w] \in {"merge", "upload"} =>
             \A v \in published : \A deb \in InArch(BatchOf[v], up.arch) :
                Keeps(v, deb) => Here(up.stanzas, v, deb)
       /\ pc[w] = "merge" =>
             /\ candidates[w] \subseteq mine
             /\ Own(up.stanzas, w, mine \ candidates[w])
             /\ \A d \in mine \ candidates[w], e \in candidates[w] :
                   SamePackage(d, e) => d.version <= e.version
       /\ pc[w] = "upload" =>
             /\ Own(up.stanzas, w, mine)
             /\ up.variant > 1 => Own(packages[up.arch][1], w, mine)

DoneInvOf(w) ==
    /\ pc[w] \in {"index", "merge", "upload"} =>
          \A a \in ArchsOf(BatchOf[w]) \ toIndex[w] :
             Own(packages[a][1], w, InArch(BatchOf[w], a))
    /\ pc[w] = "release" =>
          \A a \in ArchsOf(BatchOf[w]) : Own(packages[a][1], w, InArch(BatchOf[w], a))

KeptInv ==
    \A w \in published : \A deb \in BatchOf[w] :
        Keeps(w, deb) => Here(packages[deb.arch][1], w, deb)

LossInv ==
    ~overlapped =>
        /\ \A w \in published : HasPublished(w)
        /\ KeptInv
        /\ \A w \in Workers : InHandInvOf(w) /\ DoneInvOf(w)

\* A batch has one build of a version.
LEMMA BatchFacts ==
    ASSUME NEW w \in Workers
    PROVE  /\ BatchOf[w] \subseteq Debs
           /\ \A d, e \in BatchOf[w] :
                 SamePackage(d, e) /\ d.version = e.version => d = e
<1>1. BatchOf[w] \subseteq Debs
  BY BatchAssumption
<1>2. \A d, e \in BatchOf[w] : PoolPath(d) = PoolPath(e) => d = e
  BY BatchAssumption
<1>. QED
  BY <1>1, <1>2 DEF PoolPath, SamePackage, Debs

\* What merging a package leaves.
LEMMA Merging ==
    ASSUME NEW stanzas \in SUBSET Debs, NEW d \in Debs, NEW preserve \in BOOLEAN
    PROVE  /\ AddOrUpdate(stanzas, d, preserve) \in SUBSET Debs
           /\ Exists(AddOrUpdate(stanzas, d, preserve))
           /\ d \in AddOrUpdate(stanzas, d, preserve)
           /\ \A s \in stanzas : s \notin AddOrUpdate(stanzas, d, preserve) =>
                 SamePackage(s, d) /\ (preserve => s.version = d.version)
<1>1. AddOrUpdate(stanzas, d, preserve) \in SUBSET Debs
  BY DEF AddOrUpdate
<1>2. Exists(AddOrUpdate(stanzas, d, preserve))
  BY <1>1, MissingAssumption DEF Exists
<1>. QED
  BY <1>1, <1>2 DEF AddOrUpdate

\* A run replaces nothing of another one but by a package of its own.
LEMMA HereMerged ==
    ASSUME NEW w \in Workers, NEW v \in Workers \ {w}, Begun(w), NEW stanzas \in SUBSET Debs,
           NEW d \in BatchOf[w], NEW deb \in BatchOf[v], Here(stanzas, v, deb)
    PROVE  Here(AddOrUpdate(stanzas, d, PreserveOf[w]), v, deb)
<1>. DEFINE new == AddOrUpdate(stanzas, d, PreserveOf[w])
<1>1. /\ d \in Debs /\ deb \in Debs /\ PreserveOf[w] \in BOOLEAN
  BY BatchAssumption
<1>2. /\ Exists(new) /\ d \in new
      /\ \A s \in stanzas : s \notin new =>
            SamePackage(s, d) /\ (PreserveOf[w] => s.version = d.version)
  BY <1>1, Merging
<1>3. \E s \in new : SamePackage(s, deb)
  <2>1. PICK s \in stanzas : SamePackage(s, deb)
    BY DEF Here
  <2>2. s \notin new => SamePackage(d, deb)
    BY <1>2, <2>1 DEF SamePackage
  <2>. QED
    BY <1>2, <2>1, <2>2
<1>4. deb \in new \/ \E u \in Workers \ {v} : Begun(u) /\ Replaces(u, deb)
  <2>1. CASE deb \in stanzas /\ deb \notin new
    <3>1. Replaces(w, deb)
      BY <1>2, <2>1 DEF Replaces, SamePackage
    <3>. QED
      BY <3>1
  <2>. QED
    BY <2>1 DEF Here
<1>. HIDE DEF new
<1>. QED
  BY <1>2, <1>3, <1>4 DEF Here, new

\* A run that has begun has begun for good, so what is here remains.
LEMMA HereKept ==
    ASSUME \A v \in Workers : Begun(v) => Begun(v)'
    PROVE  \A stanzas, w, deb : Here(stanzas, w, deb) => Here(stanzas, w, deb)'
BY DEF Here

\* Nobody but w is inside: the rest of the invariant is about w.
LEMMA LossOfOthers ==
    ASSUME AloneInv', ~overlapped', NEW w \in Workers,
           Running(w)' => InHandInvOf(w)' /\ DoneInvOf(w)'
    PROVE  Running(w)' => \A v \in Workers : InHandInvOf(v)' /\ DoneInvOf(v)'
<1>1. Running(w)' => \A v \in Workers : Running(v)' => v = w
  BY DEF AloneInv
<1>2. \A v \in Workers : ~Running(v)' => InHandInvOf(v)' /\ DoneInvOf(v)'
  BY DEF Running, InHandInvOf, DoneInvOf
<1>. QED
  BY <1>1, <1>2

\* Everything published is here, and everything that is going to be is on its way.
LEMMA LossInvariant ==
    ASSUME ~ReadFaults
    PROVE  Spec => []LossInv
<1>. USE VariantAssumption
<1>1. Init => LossInv
  BY DEF Init, LossInv, KeptInv, InHandInvOf, DoneInvOf
<1>2. TypeOK /\ IndexInHand /\ AloneInv /\ AloneInv' /\ TableInv /\ LossInv /\ [Next]_vars
         => LossInv'
  <2>. SUFFICES ASSUME TypeOK, IndexInHand, AloneInv, AloneInv', TableInv, LossInv, [Next]_vars,
                       ~overlapped'
                PROVE  /\ \A w \in published' : HasPublished(w)'
                       /\ KeptInv'
                       /\ \A w \in Workers : InHandInvOf(w)' /\ DoneInvOf(w)'
    BY DEF LossInv
  <2>. USE DEF lockVars, storeVars
  <2>0. ~overlapped
    <3>1. ASSUME NEW w \in Workers, Begin(w) PROVE ~overlapped
      BY <3>1 DEF Begin
    <3>2. CASE UNCHANGED overlapped
      BY <3>2
    <3>. QED
      BY <3>1, <3>2 DEF Next, vars, Revoke, PutPool, GetIndex, MergeOne, PutIndex, PutRelease,
                        PutSignature, PutInRelease, Unlock, Stop
  <2>i. /\ \A w \in published : HasPublished(w)
        /\ KeptInv
        /\ \A w \in Workers : InHandInvOf(w) /\ DoneInvOf(w)
    BY <2>0 DEF LossInv
  <2>1. CASE Revoke \/ UNCHANGED vars
    <3>1. UNCHANGED <<storeVars, pc, candidates, toIndex, index, published>>
      BY <2>1 DEF Revoke, vars
    <3>2. \A stanzas, w, deb : Here(stanzas, w, deb) => Here(stanzas, w, deb)'
      BY <3>1, HereKept DEF Begun
    <3>3. KeptInv'
      BY <2>i, <3>1, <3>2 DEF KeptInv
    <3>4. \A w \in Workers : InHandInvOf(w)' /\ DoneInvOf(w)'
      BY <2>i, <3>1, <3>2 DEF InHandInvOf, DoneInvOf, Own
    <3>. QED
      BY <2>i, <3>1, <3>3, <3>4 DEF HasPublished
  \* A step that uploads nothing of these.
  <2>2. ASSUME NEW w \in Workers, UNCHANGED <<packages, published>>, Begun(w)',
               \A v \in Workers \ {w} : pc'[v] = pc[v],
               HasPublished(w) => HasPublished(w)'
        PROVE  /\ \A v \in published' : HasPublished(v)'
               /\ KeptInv'
               /\ \A stanzas, v, deb : Here(stanzas, v, deb) => Here(stanzas, v, deb)'
    <3>1. \A v \in Workers : Begun(v) => Begun(v)'
      BY <2>2 DEF Begun
    <3>2. \A stanzas, v, deb : Here(stanzas, v, deb) => Here(stanzas, v, deb)'
      BY <3>1, HereKept
    <3>3. KeptInv'
      BY <2>2, <2>i, <3>2 DEF KeptInv
    <3>4. \A v \in published' : HasPublished(v)'
      BY <2>2, <2>i DEF HasPublished, TypeOK
    <3>. QED
      BY <3>2, <3>3, <3>4
  <2>3. ASSUME NEW w \in Workers, Begin(w) PROVE LossInv'
    <3>1. /\ pc[w] = "idle" /\ pc'[w] = "pool" /\ UNCHANGED <<packages, published>>
          /\ \A v \in Workers \ {w} : pc'[v] = pc[v]
      BY <2>3 DEF Begin, Goto, TypeOK
    <3>2. InHandInvOf(w)' /\ DoneInvOf(w)'
      BY <3>1 DEF InHandInvOf, DoneInvOf
    <3>3. Running(w)' /\ Begun(w)' /\ (HasPublished(w) => HasPublished(w)')
      BY <3>1 DEF Running, Begun, HasPublished
    <3>. QED
      BY <2>2, <3>1, <3>2, <3>3, LossOfOthers DEF LossInv
  <2>4. ASSUME NEW w \in Workers, PutPool(w) PROVE LossInv'
    <3>1. /\ pc[w] = "pool" /\ pc'[w] \in {"pool", "index"} /\ UNCHANGED <<packages, published>>
          /\ pc'[w] = "index" => toIndex'[w] = ArchsOf(BatchOf[w])
          /\ \A v \in Workers \ {w} : pc'[v] = pc[v]
      BY <2>4 DEF PutPool, Goto, TypeOK
    <3>2. InHandInvOf(w)' /\ DoneInvOf(w)'
      BY <3>1 DEF InHandInvOf, DoneInvOf
    <3>3. Running(w)' /\ Begun(w)' /\ (HasPublished(w) => HasPublished(w)')
      BY <3>1 DEF Running, Begun, HasPublished
    <3>. QED
      BY <2>2, <3>1, <3>2, <3>3, LossOfOthers DEF LossInv
  <2>5. ASSUME NEW w \in Workers, GetIndex(w) PROVE LossInv'
    <3>0. PICK a \in toIndex[w] : \E existing \in Existing(a) :
             /\ index' = [index EXCEPT ![w] =
                            [arch |-> a, stanzas |-> existing, variant |-> 1]]
             /\ candidates' = [candidates EXCEPT ![w] = InArch(BatchOf[w], a)]
      BY <2>5 DEF GetIndex
    <3>1. PICK existing \in Existing(a) :
             /\ index' = [index EXCEPT ![w] =
                            [arch |-> a, stanzas |-> existing, variant |-> 1]]
             /\ candidates' = [candidates EXCEPT ![w] = InArch(BatchOf[w], a)]
      BY <3>0
    <3>2. /\ pc[w] = "index" /\ pc'[w] = "merge" /\ UNCHANGED <<packages, published, toIndex>>
          /\ index'[w].stanzas = existing /\ index'[w].arch = a /\ index'[w].variant = 1
          /\ candidates'[w] = InArch(BatchOf[w], a)
          /\ \A v \in Workers \ {w} : pc'[v] = pc[v]
      BY <2>5, <3>1 DEF GetIndex, Goto, TypeOK
    <3>3. a \in Archs /\ 1 \in 1..Variants
      BY DEF TypeOK
    <3>4. Exists(existing) /\ (Exists(packages[a][1]) => existing = packages[a][1])
      BY <3>3, MissingAssumption DEF Existing, Exists, TypeOK
    <3>5. Running(w)' /\ Begun(w)' /\ (HasPublished(w) => HasPublished(w)')
      BY <3>2 DEF Running, Begun, HasPublished
    <3>6. \A v \in published : \A deb \in InArch(BatchOf[v], a) :
             Keeps(v, deb) => Here(existing, v, deb)'
      <4>. SUFFICES ASSUME NEW v \in published, NEW deb \in BatchOf[v], deb.arch = a,
                           Keeps(v, deb)
                    PROVE  Here(existing, v, deb)'
        BY DEF InArch
      <4>1. Here(packages[a][1], v, deb)
        BY <2>i DEF KeptInv
      <4>2. Here(existing, v, deb)
        BY <3>4, <4>1 DEF Here
      <4>. QED
        BY <2>2, <3>2, <3>5, <4>2
    <3>7. InHandInvOf(w)'
      BY <3>2, <3>4, <3>6 DEF InHandInvOf, Own
    <3>8. DoneInvOf(w)'
      BY <2>i, <3>2 DEF DoneInvOf, Own
    <3>. QED
      BY <2>2, <3>2, <3>5, <3>7, <3>8, LossOfOthers DEF LossInv
  <2>6. ASSUME NEW w \in Workers, MergeOne(w) PROVE LossInv'
    <3>1. PICK deb \in candidates[w] :
             /\ \A d \in candidates[w] : SamePackage(d, deb) => deb.version <= d.version
             /\ index' = [index EXCEPT ![w].stanzas = AddOrUpdate(@, deb, PreserveOf[w])]
             /\ candidates' = [candidates EXCEPT ![w] = @ \ {deb}]
             /\ Goto(w, IF candidates[w] = {deb} THEN "upload" ELSE "merge")
      BY <2>6 DEF MergeOne
    <3>2. pc[w] = "merge" /\ index[w] \in Uploads /\ candidates[w] \subseteq BatchOf[w]
      BY <2>6 DEF MergeOne, IndexInHand
    <3>. PICK old, new, arch, mine :
            /\ old = index[w].stanzas /\ new = AddOrUpdate(old, deb, PreserveOf[w])
            /\ arch = index[w].arch /\ mine = InArch(BatchOf[w], arch)
      OBVIOUS
    <3>3. /\ pc'[w] \in {"merge", "upload"} /\ UNCHANGED <<packages, published, toIndex>>
          /\ index'[w].stanzas = new /\ index'[w].arch = arch
          /\ index'[w].variant = index[w].variant
          /\ candidates'[w] = candidates[w] \ {deb}
          /\ pc'[w] = "upload" => candidates'[w] = {}
          /\ \A v \in Workers \ {w} : pc'[v] = pc[v]
      BY <2>6, <3>1, <3>2 DEF MergeOne, Goto, TypeOK, Uploads
    <3>4. /\ candidates[w] \subseteq mine
          /\ Own(old, w, mine \ candidates[w])
          /\ \A d \in mine \ candidates[w], e \in candidates[w] :
                SamePackage(d, e) => d.version <= e.version
          /\ \A v \in published : \A d \in InArch(BatchOf[v], arch) :
                Keeps(v, d) => Here(old, v, d)
      BY <2>i, <3>2 DEF InHandInvOf
    <3>5. /\ old \in SUBSET Debs /\ deb \in BatchOf[w] /\ deb \in mine
          /\ BatchOf[w] \subseteq Debs /\ PreserveOf[w] \in BOOLEAN
          /\ \A d, e \in BatchOf[w] : SamePackage(d, e) /\ d.version = e.version => d = e
          /\ \A d \in Debs : d.version \in Nat
      BY <3>2, <3>4, BatchFacts, BatchAssumption DEF Uploads, Debs
    <3>6. /\ Exists(new) /\ deb \in new
          /\ \A s \in old : s \notin new =>
                SamePackage(s, deb) /\ (PreserveOf[w] => s.version = deb.version)
      BY <3>5, Merging
    <3>7. Running(w)' /\ Begun(w) /\ Begun(w)' /\ (HasPublished(w) => HasPublished(w)')
          /\ w \notin published
      BY <2>i, <3>2, <3>3 DEF Running, Begun, HasPublished
    <3>8. \A v \in published : \A d \in InArch(BatchOf[v], arch) :
             Keeps(v, d) => Here(new, v, d)'
      <4>. SUFFICES ASSUME NEW v \in published, NEW d \in InArch(BatchOf[v], arch), Keeps(v, d)
                    PROVE  Here(new, v, d)'
        OBVIOUS
      <4>1. v \in Workers \ {w} /\ d \in BatchOf[v] /\ Here(old, v, d)
        BY <3>4, <3>7 DEF TypeOK, InArch
      <4>2. Here(new, v, d)
        BY <3>5, <3>7, <4>1, HereMerged
      <4>. QED
        BY <2>2, <3>3, <3>7, <4>2
    <3>9. ASSUME NEW d \in mine \ candidates[w], Keeps(w, d), d \notin new PROVE FALSE
      <4>1. d \in old /\ d \in BatchOf[w] /\ d # deb
        BY <3>4, <3>9 DEF Own, InArch
      <4>2. SamePackage(d, deb) /\ (PreserveOf[w] => d.version = deb.version)
        BY <3>6, <3>9, <4>1
      <4>3. d.version = deb.version
        <5>1. SamePackage(deb, d)
          BY <4>2 DEF SamePackage
        <5>2. PreserveOf[w] \/ deb.version <= d.version
          BY <3>5, <3>9, <5>1 DEF Keeps
        <5>3. d.version <= deb.version
          BY <3>4, <4>2
        <5>4. d.version \in Nat /\ deb.version \in Nat
          BY <3>5, <4>1
        <5>. QED
          BY <4>2, <5>2, <5>3, <5>4
      <4>. QED
        BY <3>5, <4>1, <4>2, <4>3
    <3>10. Own(new, w, mine \ candidates'[w])
      BY <3>3, <3>6, <3>9 DEF Own
    <3>11. /\ candidates'[w] \subseteq mine
           /\ \A d \in mine \ candidates'[w], e \in candidates'[w] :
                 SamePackage(d, e) => d.version <= e.version
      <4>1. \A e \in candidates[w] : SamePackage(deb, e) => deb.version <= e.version
        BY <3>1 DEF SamePackage
      <4>. QED
        BY <3>3, <3>4, <4>1
    <3>12. InHandInvOf(w)'
      <4>1. pc'[w] = "upload" => mine \ candidates'[w] = mine
        BY <3>3
      <4>2. pc'[w] = "upload" => ~(index'[w].variant > 1)
        BY <3>2, <3>3 DEF TableInv, TableInvOf
      <4>3. mine = InArch(BatchOf[w], index'[w].arch)
        BY <3>3
      <4>4. \A v \in published' : \A d \in InArch(BatchOf[v], index[w].arch)' :
               Keeps(v, d) => Here(index[w].stanzas, v, d)'
        BY <3>3, <3>8
      <4>5. /\ Own(index'[w].stanzas, w, mine \ candidates'[w])
            /\ pc'[w] = "upload" => Own(index'[w].stanzas, w, mine)
        BY <3>3, <3>10, <4>1
      <4>. QED
        BY <3>3, <3>11, <4>2, <4>3, <4>4, <4>5 DEF InHandInvOf, Own
    <3>13. DoneInvOf(w)'
      BY <2>i, <3>2, <3>3 DEF DoneInvOf, Own
    <3>. QED
      BY <2>2, <3>3, <3>7, <3>12, <3>13, LossOfOthers DEF LossInv
  <2>7. ASSUME NEW w \in Workers, PutIndex(w) PROVE LossInv'
    <3>. PICK up, mine : up = index[w] /\ mine = InArch(BatchOf[w], up.arch)
      OBVIOUS
    <3>1. /\ pc[w] = "upload" /\ up \in Uploads /\ up.arch \in Archs
          /\ up.variant \in 1..Variants
          /\ packages' = [packages EXCEPT ![up.arch][up.variant] = up.stanzas]
          /\ UNCHANGED published
      BY <2>7 DEF PutIndex, IndexInHand, Uploads
    <3>2. /\ packages'[up.arch][up.variant] = up.stanzas
          /\ \A a \in Archs, v \in 1..Variants :
                ~(a = up.arch /\ v = up.variant) => packages'[a][v] = packages[a][v]
      BY <3>1 DEF TypeOK
    <3>3. /\ \A v \in Workers \ {w} : pc'[v] = pc[v]
          /\ \/ /\ pc'[w] = "upload" /\ toIndex'[w] = toIndex[w]
                /\ index'[w].stanzas = up.stanzas /\ index'[w].arch = up.arch
             \/ /\ pc'[w] \in {"index", "release"} /\ toIndex'[w] = toIndex[w] \ {up.arch}
                /\ pc'[w] = "release" => toIndex'[w] = {}
      <4>1. CASE up.variant < Variants
        <5>1. index' = [index EXCEPT ![w].variant = @ + 1] /\ UNCHANGED <<pc, toIndex>>
          BY <2>7, <4>1 DEF PutIndex
        <5>. QED
          BY <3>1, <5>1 DEF TypeOK, Uploads
      <4>2. CASE ~(up.variant < Variants)
        <5>1. /\ toIndex' = [toIndex EXCEPT ![w] = @ \ {up.arch}]
              /\ pc' = [pc EXCEPT ![w] = IF toIndex[w] = {up.arch} THEN "release" ELSE "index"]
          BY <2>7, <4>2 DEF PutIndex, Goto
        <5>. QED
          BY <5>1 DEF TypeOK
      <4>. QED
        BY <4>1, <4>2
    <3>4. /\ Own(up.stanzas, w, mine)
          /\ up.variant > 1 => Own(packages[up.arch][1], w, mine)
          /\ \A v \in published : \A deb \in InArch(BatchOf[v], up.arch) :
                Keeps(v, deb) => Here(up.stanzas, v, deb)
          /\ \A a \in ArchsOf(BatchOf[w]) \ toIndex[w] :
                Own(packages[a][1], w, InArch(BatchOf[w], a))
      BY <2>i, <3>1 DEF InHandInvOf, DoneInvOf
    <3>5. Running(w)' /\ Begun(w)' /\ w \notin published
      BY <2>i, <3>1, <3>3 DEF Running, Begun, HasPublished
    <3>6. \A stanzas, v, deb : Here(stanzas, v, deb) => Here(stanzas, v, deb)'
      <4>1. \A v \in Workers : Begun(v) => Begun(v)'
        BY <3>3, <3>5 DEF Begun
      <4>. QED
        BY <4>1, HereKept
    <3>7. packages'[up.arch][1] = up.stanzas \/ packages'[up.arch][1] = packages[up.arch][1]
      BY <3>1, <3>2
    <3>8. Own(packages'[up.arch][1], w, mine)
      BY <3>1, <3>2, <3>4
    <3>9. \A a \in Archs : a # up.arch => packages'[a][1] = packages[a][1]
      BY <3>2
    <3>10. KeptInv'
      <4>. SUFFICES ASSUME NEW v \in published, NEW deb \in BatchOf[v], Keeps(v, deb)
                    PROVE  Here(packages[deb.arch][1], v, deb)'
        BY <3>1 DEF KeptInv
      <4>1. Here(packages[deb.arch][1], v, deb) /\ deb.arch \in Archs
        BY <2>i, BatchFacts DEF KeptInv, TypeOK, Debs
      <4>2. deb.arch = up.arch => Here(up.stanzas, v, deb)
        BY <3>4 DEF InArch
      <4>. PICK stored : stored = packages'[deb.arch][1]
        OBVIOUS
      <4>3. Here(stored, v, deb)
        BY <3>7, <3>9, <4>1, <4>2
      <4>4. Here(stored, v, deb)'
        BY <3>6, <4>3
      <4>. QED
        BY <4>4
    <3>11. ArchsOf(BatchOf[w]) \subseteq Archs
      BY BatchFacts DEF ArchsOf, Debs
    <3>12. \A a \in ArchsOf(BatchOf[w]) \ toIndex[w] :
              Own(packages'[a][1], w, InArch(BatchOf[w], a))
      BY <3>4, <3>8, <3>9, <3>11
    <3>13. DoneInvOf(w)'
      <4>1. \A a \in ArchsOf(BatchOf[w]) : a = up.arch \/ a \notin toIndex[w] =>
               Own(packages'[a][1], w, InArch(BatchOf[w], a))
        BY <3>8, <3>12
      <4>. QED
        BY <3>3, <4>1 DEF DoneInvOf, Own
    <3>14. InHandInvOf(w)'
      <4>1. CASE pc'[w] = "upload"
        <5>1. \A v \in published' : \A deb \in InArch(BatchOf[v], index[w].arch)' :
                 Keeps(v, deb) => Here(index[w].stanzas, v, deb)'
          BY <3>1, <3>3, <3>4, <3>6, <4>1
        <5>2. /\ Own(index'[w].stanzas, w, InArch(BatchOf[w], index'[w].arch))
              /\ Own(packages'[index'[w].arch][1], w, InArch(BatchOf[w], index'[w].arch))
          BY <3>3, <3>4, <3>8, <4>1
        <5>. QED
          BY <4>1, <5>1, <5>2 DEF InHandInvOf, Own
      <4>2. CASE pc'[w] # "upload"
        BY <3>3, <4>2 DEF InHandInvOf
      <4>. QED
        BY <4>1, <4>2
    <3>15. \A v \in published' : HasPublished(v)'
      BY <2>i, <3>1, <3>3, <3>5 DEF HasPublished, TypeOK
    <3>. QED
      BY <3>5, <3>10, <3>13, <3>14, <3>15, LossOfOthers DEF LossInv
  <2>8. ASSUME NEW w \in Workers, PutRelease(w) PROVE LossInv'
    <3>1. /\ pc[w] = "release" /\ pc'[w] \in {"gpg", "unlock"} /\ UNCHANGED packages
          /\ published' = published \cup {w}
          /\ \A v \in Workers \ {w} : pc'[v] = pc[v]
      BY <2>8 DEF PutRelease, Goto, TypeOK
    <3>2. Running(w)' /\ InHandInvOf(w)' /\ DoneInvOf(w)'
      BY <3>1 DEF Running, InHandInvOf, DoneInvOf
    <3>3. \A stanzas, v, deb : Here(stanzas, v, deb) => Here(stanzas, v, deb)'
      <4>1. \A v \in Workers : Begun(v) => Begun(v)'
        BY <3>1 DEF Begun
      <4>. QED
        BY <4>1, HereKept
    <3>4. \A deb \in BatchOf[w] : Keeps(w, deb) => Here(packages[deb.arch][1], w, deb)
      <4>. SUFFICES ASSUME NEW deb \in BatchOf[w], Keeps(w, deb)
                    PROVE  Here(packages[deb.arch][1], w, deb)
        OBVIOUS
      <4>1. Own(packages[deb.arch][1], w, InArch(BatchOf[w], deb.arch))
        BY <2>i, <3>1 DEF DoneInvOf, ArchsOf
      <4>. QED
        BY <4>1 DEF Own, InArch, Here, SamePackage
    <3>5. KeptInv'
      BY <2>i, <3>1, <3>3, <3>4 DEF KeptInv
    <3>6. \A v \in published' : HasPublished(v)'
      BY <2>i, <3>1 DEF HasPublished, TypeOK
    <3>. QED
      BY <3>2, <3>5, <3>6, LossOfOthers DEF LossInv
  <2>9. ASSUME NEW w \in Workers, PutSignature(w) \/ PutInRelease(w) PROVE LossInv'
    <3>1. /\ HasPublished(w)' /\ Running(w)' /\ Begun(w)'
          /\ UNCHANGED <<packages, published>>
          /\ \A v \in Workers \ {w} : pc'[v] = pc[v]
      BY <2>9 DEF PutSignature, PutInRelease, Goto, TypeOK, HasPublished, Running, Begun
    <3>2. InHandInvOf(w)' /\ DoneInvOf(w)'
      BY <3>1 DEF InHandInvOf, DoneInvOf, HasPublished
    <3>. QED
      BY <2>2, <3>1, <3>2, LossOfOthers DEF LossInv
  <2>10. ASSUME NEW w \in Workers, Unlock(w) \/ Stop(w) PROVE LossInv'
    <3>1. /\ Running(w) /\ pc'[w] \in {"done", "stopped"} /\ UNCHANGED <<packages, published>>
          /\ \A v \in Workers \ {w} : pc'[v] = pc[v]
      BY <2>10 DEF Unlock, Stop, Goto, TypeOK, Running
    <3>2. HasPublished(w)' /\ Begun(w)'
      BY <3>1 DEF HasPublished, Begun
    <3>3. \A v \in Workers : ~Running(v)'
      BY <2>0, <3>1 DEF AloneInv, Running
    <3>4. \A v \in Workers : InHandInvOf(v)' /\ DoneInvOf(v)'
      BY <3>3 DEF Running, InHandInvOf, DoneInvOf
    <3>. QED
      BY <2>2, <3>1, <3>2, <3>4 DEF LossInv
  <2>. QED
    BY <2>1, <2>3, <2>4, <2>5, <2>6, <2>7, <2>8, <2>9, <2>10 DEF Next, LossInv
<1>. QED
  BY TypeCorrect, AloneInvariant, TableInvariant, <1>1, <1>2, PTL DEF Spec

\* If what is found can be read, a package that a run has published stays in the index until
\* another run begins to publish the same package, as long as no two runs were inside at once:
\* for any batches, whichever runs are killed between any two uploads.
THEOREM LossTheorem ==
    ASSUME ~ReadFaults
    PROVE  Spec => []NoPackageIsLost
<1>1. LossInv => NoPackageIsLost
  BY DEF LossInv, KeptInv, Here, Begun, NoPackageIsLost
<1>. QED
  BY <1>1, LossInvariant, PTL
=============================================================================
