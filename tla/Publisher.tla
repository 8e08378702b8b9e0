----------------------------- MODULE Publisher -----------------------------
(***************************************************************************)
(* Publisher.PublishDebFiles, internal/repo/publisher.go: several runs of  *)
(* `debpub publish' on one codename and component.  Each of them, under    *)
(* the lock of RevocableLock (which Locker implements), uploads its pool   *)
(* files, then merges its packages into the index of every architecture of *)
(* the batch and uploads the index in all its variants, then uploads the   *)
(* Release manifest and its signatures.  Each storage call is one action.  *)
(* A put is atomic; a run that fails or is killed stops between two of     *)
(* them and the lock is released, or recovered when it is stale.           *)
(*                                                                         *)
(* Abstracted: the .deb contents to a checksum, versions to numbers (with  *)
(* their order), an index to the set of its stanzas, a checksum table to   *)
(* the contents it is the checksums of.  Locking that is disabled is a     *)
(* lock that is revoked at once.                                           *)
(***************************************************************************)
EXTENDS Naturals

CONSTANTS
    Workers,        \* the runs of debpub publish
    NoWorker,       \* the lock has no owner
    Names, Archs, Sums,
    Versions,       \* package versions, as numbers in deb-version(7) order
    BatchOf,        \* the packages each run is given
    PreserveOf,     \* cfg.PreserveVersions of each run
    SignOf,         \* is a signer configured and cfg.Sign set?
    CfgArchs,       \* cfg.Architectures
    Variants,       \* how many variants of an index there are
    ReadFaults,     \* may reading an index fail after it was found?
    Rebuilt,        \* the packages that are built anew while a run waits, by pool path
    Missing         \* there is no such object

Debs == [name : Names, arch : Archs, version : Versions, sum : Sums]

\* computePoolPath: the checksum is no part of the path.
PoolPath(deb) == [name |-> deb.name, arch |-> deb.arch, version |-> deb.version]
PoolPaths == [name : Names, arch : Archs, version : Versions]

\* No batch has two different builds for one pool path.
ASSUME BatchAssumption ==
    /\ NoWorker \notin Workers
    /\ Versions \subseteq Nat
    /\ BatchOf \in [Workers -> SUBSET Debs]
    /\ \A w \in Workers :
          /\ BatchOf[w] # {}
          /\ \A d, e \in BatchOf[w] : PoolPath(d) = PoolPath(e) => d = e
    /\ PreserveOf \in [Workers -> BOOLEAN] /\ SignOf \in [Workers -> BOOLEAN]
    /\ CfgArchs \subseteq Archs /\ ReadFaults \in BOOLEAN /\ Rebuilt \subseteq PoolPaths
ASSUME VariantAssumption == Variants \in Nat \ {0}
ASSUME MissingAssumption == Missing \notin Sums /\ \A debs \in SUBSET Debs : debs # Missing

VARIABLES
    owner, inside,  \* the lock, see RevocableLock
    pool,           \* the checksum of the file at each pool path
    packages,       \* the index of each architecture, by variant; 1 is the plain one
    release,        \* the Release manifest
    signature,      \* the manifest Release.gpg is the signature of
    inRelease,      \* the manifest in InRelease
    pc,             \* where each run is
    candidates,     \* packages to upload; then packages to merge into the index
    toIndex,        \* architectures whose index is to be updated
    index,          \* the index that is being merged, then uploaded
    checksums,      \* allIndexChecksums: what this run has uploaded
    published,      \* history: the runs that have uploaded their Release
    overlapped      \* history: have two runs ever been inside at once?

lockVars  == <<owner, inside>>
storeVars == <<pool, packages, release, signature, inRelease>>
vars == <<lockVars, storeVars, pc, candidates, toIndex, index, checksums,
          published, overlapped>>

Lock == INSTANCE RevocableLock

\* An index being uploaded, and the variant whose turn it is.
Uploads == [arch : Archs, stanzas : SUBSET Debs, variant : 1..Variants]

\* A Release: its date (no two runs have the same), architectures, checksums.
Manifests == [date : Workers, archs : SUBSET Archs, indices : SUBSET Uploads]

PCs == {"idle", "pool", "index", "merge", "upload", "release", "gpg",
        "inrelease", "unlock", "done", "stopped"}

TypeOK ==
    /\ owner \in Workers \cup {NoWorker}
    /\ inside \subseteq Workers
    /\ pool \in [PoolPaths -> Sums \cup {Missing}]
    /\ packages \in [Archs -> [1..Variants -> (SUBSET Debs) \cup {Missing}]]
    /\ {release, signature, inRelease} \subseteq Manifests \cup {Missing}
    /\ pc \in [Workers -> PCs]
    /\ candidates \in [Workers -> SUBSET Debs]
    /\ toIndex \in [Workers -> SUBSET Archs]
    /\ index \in [Workers -> Uploads \cup {Missing}]
    /\ checksums \in [Workers -> SUBSET Uploads]
    /\ published \subseteq Workers
    /\ overlapped \in BOOLEAN

Init ==
    /\ Lock!Init
    /\ pool = [p \in PoolPaths |-> Missing]
    /\ packages = [a \in Archs |-> [v \in 1..Variants |-> Missing]]
    /\ release = Missing /\ signature = Missing /\ inRelease = Missing
    /\ pc = [w \in Workers |-> "idle"]
    /\ candidates = [w \in Workers |-> {}]
    /\ toIndex = [w \in Workers |-> {}]
    /\ index = [w \in Workers |-> Missing]
    /\ checksums = [w \in Workers |-> {}]
    /\ published = {}
    /\ overlapped = FALSE

-----------------------------------------------------------------------------
\* Index.AddOrUpdate on the set of stanzas of an index.
SamePackage(d, e) == d.name = e.name /\ d.arch = e.arch

AddOrUpdate(stanzas, deb, preserve) ==
    {s \in stanzas : SamePackage(s, deb) => preserve /\ s.version # deb.version}
    \cup {deb}

InArch(debs, a) == {d \in debs : d.arch = a}
ArchsOf(debs) == {d.arch : d \in debs}

Goto(w, l) == pc' = [pc EXCEPT ![w] = l]

-----------------------------------------------------------------------------
\* The lock is acquired; the candidates were parsed before.
Begin(w) ==
    /\ pc[w] = "idle"
    /\ Lock!Grant(w)
    /\ Goto(w, "pool")
    /\ candidates' = [candidates EXCEPT ![w] = BatchOf[w]]
    /\ overlapped' = (overlapped \/ inside # {})
    /\ UNCHANGED <<storeVars, toIndex, index, checksums, published>>

\* Bug: phase 1 ends with the first file.
PutFirst(w) ==
    /\ pc[w] = "pool"
    /\ \E deb \in candidates[w] :
          /\ pool' = [pool EXCEPT ![PoolPath(deb)] = deb.sum]
          /\ candidates' = [candidates EXCEPT ![w] = @ \ {deb}]
    /\ Goto(w, "index")
    /\ toIndex' = [toIndex EXCEPT ![w] = ArchsOf(BatchOf[w])]
    /\ UNCHANGED <<lockVars, packages, release, signature, inRelease, index,
                   checksums, published, overlapped>>

\* Bug: a file that is in the pool already is not uploaded.
PutMissing(w) ==
    /\ pc[w] = "pool"
    /\ \E deb \in candidates[w] :
          /\ pool' = [pool EXCEPT ![PoolPath(deb)] = IF @ = Missing THEN deb.sum ELSE @]
          /\ candidates' = [candidates EXCEPT ![w] = @ \ {deb}]
          /\ IF candidates[w] = {deb}
               THEN /\ Goto(w, "index")
                    /\ toIndex' = [toIndex EXCEPT ![w] = ArchsOf(BatchOf[w])]
               ELSE UNCHANGED <<pc, toIndex>>
    /\ UNCHANGED <<lockVars, packages, release, signature, inRelease, index,
                   checksums, published, overlapped>>

\* A file is opened a second time to be uploaded; its control data and checksums are
\* those of before the run waited for the lock.
Contents(deb) == IF PoolPath(deb) \in Rebuilt THEN Sums ELSE {deb.sum}

\* Phase 1: the pool file of one package, replacing what is there.
PutPool(w) ==
    /\ pc[w] = "pool"
    /\ \E deb \in candidates[w] :
          /\ \E sum \in Contents(deb) : pool' = [pool EXCEPT ![PoolPath(deb)] = sum]
          /\ candidates' = [candidates EXCEPT ![w] = @ \ {deb}]
          /\ IF candidates[w] = {deb}
               THEN /\ Goto(w, "index")
                    /\ toIndex' = [toIndex EXCEPT ![w] = ArchsOf(BatchOf[w])]
               ELSE UNCHANGED <<pc, toIndex>>
    /\ UNCHANGED <<lockVars, packages, release, signature, inRelease, index,
                   checksums, published, overlapped>>

\* Phase 2: the plain index of an architecture, empty if there is none, and
\* empty if it cannot be read: that error is dropped.
Existing(a) ==
    IF packages[a][1] = Missing THEN {{}}
    ELSE {packages[a][1]} \cup IF ReadFaults THEN {{}} ELSE {}

\* It is fetched, for one architecture after the other in any order ...
GetIndex(w) ==
    /\ pc[w] = "index"
    /\ \E a \in toIndex[w] : \E existing \in Existing(a) :
          /\ index' = [index EXCEPT ![w] =
                         [arch |-> a, stanzas |-> existing, variant |-> 1]]
          /\ candidates' = [candidates EXCEPT ![w] = InArch(BatchOf[w], a)]
    /\ Goto(w, "merge")
    /\ UNCHANGED <<lockVars, storeVars, toIndex, checksums, published, overlapped>>

\* Bug: the batch is not sorted.
MergeUnsorted(w) ==
    /\ pc[w] = "merge"
    /\ \E deb \in candidates[w] :
          /\ index' = [index EXCEPT ![w].stanzas = AddOrUpdate(@, deb, PreserveOf[w])]
          /\ candidates' = [candidates EXCEPT ![w] = @ \ {deb}]
          /\ Goto(w, IF candidates[w] = {deb} THEN "upload" ELSE "merge")
    /\ UNCHANGED <<lockVars, storeVars, toIndex, checksums, published, overlapped>>

\* ... and merge the packages of the batch into it, older versions first.
MergeOne(w) ==
    /\ pc[w] = "merge"
    /\ \E deb \in candidates[w] :
          /\ \A d \in candidates[w] : SamePackage(d, deb) => deb.version <= d.version
          /\ index' = [index EXCEPT ![w].stanzas = AddOrUpdate(@, deb, PreserveOf[w])]
          /\ candidates' = [candidates EXCEPT ![w] = @ \ {deb}]
          /\ Goto(w, IF candidates[w] = {deb} THEN "upload" ELSE "merge")
    /\ UNCHANGED <<lockVars, storeVars, toIndex, checksums, published, overlapped>>

\* Bug: one variant too many.
PutOneMore(w) ==
    /\ pc[w] = "upload"
    /\ LET up == index[w] IN
          /\ packages' = [packages EXCEPT ![up.arch][up.variant] = up.stanzas]
          /\ checksums' = [checksums EXCEPT ![w] = @ \cup {up}]
          /\ IF up.variant <= Variants
               THEN /\ index' = [index EXCEPT ![w].variant = @ + 1]
                    /\ UNCHANGED <<pc, toIndex>>
               ELSE /\ index' = [index EXCEPT ![w] = Missing]
                    /\ toIndex' = [toIndex EXCEPT ![w] = @ \ {up.arch}]
                    /\ Goto(w, IF toIndex[w] = {up.arch} THEN "release" ELSE "index")
    /\ UNCHANGED <<lockVars, pool, release, signature, inRelease, candidates,
                   published, overlapped>>

\* Upload the merged index, one variant after the other.
PutIndex(w) ==
    /\ pc[w] = "upload"
    /\ LET up == index[w] IN
          /\ packages' = [packages EXCEPT ![up.arch][up.variant] = up.stanzas]
          /\ checksums' = [checksums EXCEPT ![w] = @ \cup {up}]
          /\ IF up.variant < Variants
               THEN /\ index' = [index EXCEPT ![w].variant = @ + 1]
                    /\ UNCHANGED <<pc, toIndex>>
               ELSE /\ index' = [index EXCEPT ![w] = Missing]
                    /\ toIndex' = [toIndex EXCEPT ![w] = @ \ {up.arch}]
                    /\ Goto(w, IF toIndex[w] = {up.arch} THEN "release" ELSE "index")
    /\ UNCHANGED <<lockVars, pool, release, signature, inRelease, candidates,
                   published, overlapped>>

\* Bug: the checksums of the plain variants only.
ManifestOfPlain(w) ==
    [date |-> w, archs |-> ArchsOf(BatchOf[w]) \cup CfgArchs,
     indices |-> {up \in checksums[w] : up.variant = 1}]

\* Phase 3: the manifest knows the indices of this run, and no others.
Manifest(w) ==
    [date |-> w, archs |-> ArchsOf(BatchOf[w]) \cup CfgArchs, indices |-> checksums[w]]

PutRelease(w) ==
    /\ pc[w] = "release"
    /\ release' = Manifest(w)
    /\ published' = published \cup {w}
    /\ Goto(w, IF SignOf[w] THEN "gpg" ELSE "unlock")
    /\ UNCHANGED <<lockVars, pool, packages, signature, inRelease, candidates, toIndex,
                   index, checksums, overlapped>>

\* Bug: Release.gpg is the last upload.
PutOnlySignature(w) ==
    /\ pc[w] = "gpg"
    /\ signature' = Manifest(w)
    /\ Goto(w, "unlock")
    /\ UNCHANGED <<lockVars, pool, packages, release, inRelease, candidates, toIndex,
                   index, checksums, published, overlapped>>

PutSignature(w) ==
    /\ pc[w] = "gpg"
    /\ signature' = Manifest(w)
    /\ Goto(w, "inrelease")
    /\ UNCHANGED <<lockVars, pool, packages, release, inRelease, candidates, toIndex,
                   index, checksums, published, overlapped>>

PutInRelease(w) ==
    /\ pc[w] = "inrelease"
    /\ inRelease' = Manifest(w)
    /\ Goto(w, "unlock")
    /\ UNCHANGED <<lockVars, pool, packages, release, signature, candidates, toIndex,
                   index, checksums, published, overlapped>>

\* The deferred Release of the lock, after the last upload ...
Unlock(w) ==
    /\ pc[w] = "unlock"
    /\ Lock!Leave(w)
    /\ Goto(w, "done")
    /\ UNCHANGED <<storeVars, candidates, toIndex, index, checksums, published, overlapped>>

\* ... or after the storage call that fails, or that the process is killed at.
Stop(w) ==
    /\ pc[w] \notin {"idle", "done", "stopped"}
    /\ Lock!Leave(w)
    /\ Goto(w, "stopped")
    /\ UNCHANGED <<storeVars, candidates, toIndex, index, checksums, published, overlapped>>

\* The lock is taken from its owner, which goes on.
Revoke ==
    /\ Lock!Revoke
    /\ UNCHANGED <<storeVars, pc, candidates, toIndex, index, checksums, published,
                   overlapped>>

Next ==
    \/ Revoke
    \/ \E w \in Workers :
          \/ Begin(w) \/ PutPool(w) \/ GetIndex(w) \/ MergeOne(w) \/ PutIndex(w)
          \/ PutRelease(w) \/ PutSignature(w) \/ PutInRelease(w) \/ Unlock(w) \/ Stop(w)

Spec == Init /\ [][Next]_vars

-----------------------------------------------------------------------------
\* What clients of the repository rely on

Exists(object) == object # Missing

\* Whatever fails and whoever else publishes, every stanza that any variant of an
\* index lists has its file in the pool: phase 1 comes before phase 2.
EveryStanzaHasItsFile ==
    \A a \in Archs, v \in 1..Variants : Exists(packages[a][v]) =>
        \A deb \in packages[a][v] : Exists(pool[PoolPath(deb)])

\* A run that has not ended well, or whose file has changed under it, publishes this file.
Unsettled(path) ==
    \/ path \in Rebuilt
    \/ \E w \in Workers : /\ pc[w] \notin {"idle", "done"}
                         /\ \E d \in BatchOf[w] : PoolPath(d) = path

\* As long as no two runs were inside the lock at once, every stanza of every variant
\* has the checksum of its pool file, except where a run that is under way or has failed
\* replaces the file: a rebuild of a version replaces both the file and the stanza.
StanzaMatchesFile ==
    ~overlapped =>
        \A a \in Archs, v \in 1..Variants : Exists(packages[a][v]) =>
            \A deb \in packages[a][v] :
                pool[PoolPath(deb)] = deb.sum \/ Unsettled(PoolPath(deb))

\* Another run may replace the package: one that does not preserve versions, or
\* one that has the same version.
Replaces(v, deb) ==
    \E d \in BatchOf[v] :
        SamePackage(d, deb) /\ (PreserveOf[v] => d.version = deb.version)

\* A run keeps the packages of its batch but for older versions of its own.
Keeps(w, deb) ==
    PreserveOf[w] \/ \A d \in BatchOf[w] : SamePackage(d, deb) => d.version <= deb.version

\* As long as no two runs were inside the lock at once, a package that a run has
\* published stays in the index, whichever runs are killed in the middle, until
\* another run begins to publish the same package.
NoPackageIsLost ==
    ~overlapped =>
        \A w \in published : \A deb \in BatchOf[w] : Keeps(w, deb) =>
            LET stanzas == packages[deb.arch][1] IN
            /\ \E s \in stanzas : SamePackage(s, deb)
            /\ deb \in stanzas \/ \E v \in Workers \ {w} : pc[v] # "idle" /\ Replaces(v, deb)

\* As long as no two runs were inside at once, the Release, from its upload on and
\* after its run has ended, lists every variant of the indices of its run, and each of
\* them as it is stored, until a run that has not uploaded a Release itself uploads
\* what is stored instead; whichever runs stopped between the two before.
ReleaseMatchesIndices ==
    ~overlapped /\ Exists(release) =>
        /\ \A up \in release.indices :
              LET stored == [up EXCEPT !.stanzas = packages[up.arch][up.variant]] IN
              stored = up \/ \E w \in Workers \ published : stored \in checksums[w]
        /\ \A a \in ArchsOf(BatchOf[release.date]), v \in 1..Variants :
              \E up \in release.indices : up.arch = a /\ up.variant = v

\* Nobody is publishing and nobody failed to.
Quiet == \A w \in Workers : pc[w] \in {"idle", "done"}

\* Between runs that have all ended well, the Release has the checksums of all
\* Packages* files.
ReleaseListsAllIndices ==
    Quiet => \A a \in Archs, v \in 1..Variants : Exists(packages[a][v]) =>
        \E up \in release.indices : up.arch = a /\ up.variant = v

\* Between runs that all sign and have all ended well, one after the other, both
\* signatures are of the stored Release, and the Release fits the stored indices.
SignedStateIsConsistent ==
    ~overlapped /\ Quiet /\ (\A w \in Workers : SignOf[w]) /\ Exists(release) =>
        /\ signature = release /\ inRelease = release
        /\ \A up \in release.indices : packages[up.arch][up.variant] = up.stanzas
=============================================================================
