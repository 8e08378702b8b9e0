------------------------------ MODULE Browser ------------------------------
(***************************************************************************)
(* The repository browser, internal/api: RepositoryManager and the         *)
(* handlers that call it.  Each HTTP client makes one request.  A fetch     *)
(* syncs the cache with the store and then reads the cache; a query only   *)
(* reads it.  Syncs write the cache under the RWMutex and readers read it  *)
(* under the RWMutex; meanwhile others publish to the store.               *)
(*                                                                         *)
(* Abstracted: fields of a stanza but for those that say where it belongs  *)
(* to a checksum; path names to the codename, component, architecture and  *)
(* extension that they are made of; the text search and the order in which *)
(* packages and versions are shown.  Every stanza has an architecture.     *)
(* No client asks for the component dists, by which the stanzas of longer  *)
(* codenames go.                                                           *)
(***************************************************************************)
EXTENDS Naturals, Sequences

CONSTANTS
    Clients,
    Codenames,      \* as numbers in their sort order
    LongerNames,    \* on S3, the codenames that have this one as a prefix
    CfgCodename,    \* cfg.Codename
    CfgArchs,       \* cfg.Architectures
    CfgComponent,   \* cfg.Component
    Common,         \* the codenames that are looked for if none can be listed
    Components, Archs,
    DefaultArchs,   \* all, arm64, amd64, armhf, i386
    Dists,          \* the name of the directory dists, taken for a component
    Flat,           \* the "component" of an index in dists/<codename> itself
    Unset,            \* an empty codename, component or architecture
    Files,          \* the index files there may be
    InitStores,     \* the index files, and the Releases, that are stored at the
    InitReleases,   \* start
    ContentsOf,     \* the sets of stanzas that may be stored in each of them
    Manifests,      \* the Release manifests that may be stored
    Missing,        \* there is no such object
    Requests,       \* the requests that clients make
    Faults,         \* may a storage call fail, or a client cancel its request?
    MaxPuts         \* bound on the changes of the store

\* Where a stanza's Filename or Section says it belongs, Unset if they do not.
StanzaComponents == Components \cup {Unset}

Request == [kind : {"fetch", "query"}, codename : Codenames \cup {Unset},
            component : Components \cup {Unset}, arch : Archs \cup {Unset}]

Keys == Components \cup {Dists}

\* What there may be in any index file, and all stanzas.
Contents == UNION {ContentsOf[f] : f \in Files}
Stanzas  == UNION Contents

SameStanza(s, t) == s.name = t.name /\ s.arch = t.arch /\ s.version = t.version

ASSUME NameAssumption ==
    /\ Codenames \subseteq Nat /\ CfgCodename \in Codenames \cup {Unset}
    /\ Unset \notin Codenames \cup Components \cup Archs /\ Unset # {}
    /\ Common \subseteq Codenames /\ LongerNames \in [Codenames -> SUBSET Codenames]
    /\ Dists \notin Components /\ Flat \notin Components
    /\ CfgComponent \in Components
    /\ CfgArchs \subseteq Archs /\ DefaultArchs \subseteq Archs
ASSUME StoreAssumption ==
    /\ \A f \in Files : /\ f.codename \in Codenames
                        /\ f.comp \in Components \cup {Flat} /\ f.arch \in Archs
    /\ \A f \in Files : \A stanzas \in ContentsOf[f] : \A s, t \in stanzas :
          /\ s.comp \in StanzaComponents /\ s.arch \in Archs
          /\ SameStanza(s, t) => s = t
    /\ Missing \notin Contents /\ InitStores \subseteq [Files -> Contents \cup {Missing}]
    /\ \A files \in InitStores, f \in Files : files[f] \in ContentsOf[f] \cup {Missing}
    /\ InitReleases \subseteq [Codenames -> Manifests \cup {Missing}]
    /\ \A m \in Manifests : m.comps \subseteq Components /\ m.archs \subseteq Archs
    /\ Missing \notin Manifests /\ MaxPuts \in Nat /\ Faults \in BOOLEAN
ASSUME RequestAssumption ==
    /\ Requests # {} /\ Requests \subseteq Request
    /\ \A q \in Requests : q.kind = "fetch" => q.arch = Unset

VARIABLES
    store,          \* the index files
    release,        \* the Release of each codename
    signed,         \* the codenames that have an InRelease
    puts,           \* how often the store has changed
    pc, req,        \* where each client's request is, and the request
    found, left,    \* what a reader has collected, and where it has yet to look
    targets, cur,   \* codenames that the sync has yet to do, and the one it does
    unread, seen,   \* files that it has yet to read, and those that it has listed
    indexes,        \* the cache: the stanzas of each codename and component
    releaseMeta,    \* the cached manifests
    knownCodenames, knownComponents, knownArchs,
    settled,        \* history: indexes when the mutex was last unlocked
    quiet           \* history: clients since whose request no put and no fault was

storeVars == <<store, release, signed, puts>>
readVars  == <<found, left>>
syncVars  == <<targets, cur, unread, seen>>
cacheVars == <<indexes, releaseMeta, knownCodenames, knownComponents, knownArchs>>
vars == <<storeVars, pc, req, readVars, syncVars, cacheVars, settled, quiet>>

Exists(object) == object # Missing

\* The manifest of a text that has none of the fields.
Blank == [comps |-> {}, archs |-> {}]

Syncing == {"discover", "target", "inrelease", "release", "list", "read", "probe"}

PCs == Syncing \cup {"idle", "lock", "drain", "rlock", "rwait", "reading", "answered"}

Empty == [c \in Codenames |-> [k \in Keys |-> {}]]

TypeOK ==
    /\ store \in [Files -> Contents \cup {Missing}]
    /\ \A f \in Files : store[f] \in ContentsOf[f] \cup {Missing}
    /\ release \in [Codenames -> Manifests \cup {Missing}]
    /\ signed \subseteq Codenames
    /\ puts \in 0..MaxPuts
    /\ pc \in [Clients -> PCs]
    /\ req \in [Clients -> Requests]
    /\ found \in [Clients -> SUBSET Stanzas] /\ left \in [Clients -> SUBSET Archs]
    /\ targets \subseteq Codenames /\ cur \in Codenames \cup {Unset}
    /\ unread \subseteq Files /\ seen \subseteq Files
    /\ {indexes, settled} \subseteq [Codenames -> [Keys -> SUBSET Stanzas]]
    /\ releaseMeta \in [Codenames -> Manifests \cup {Blank, Missing}]
    /\ knownCodenames \in Seq(Codenames)
    /\ knownComponents \subseteq Keys /\ knownArchs \subseteq Archs
    /\ quiet \subseteq Clients

Init ==
    /\ store \in InitStores
    /\ release \in InitReleases
    /\ signed = {}
    /\ puts = 0
    /\ pc = [r \in Clients |-> "idle"]
    /\ req \in [Clients -> {CHOOSE q \in Requests : TRUE}]
    /\ found = [r \in Clients |-> {}] /\ left = [r \in Clients |-> {}]
    /\ targets = {} /\ cur = Unset /\ unread = {} /\ seen = {}
    /\ indexes = Empty /\ settled = Empty
    /\ releaseMeta = [c \in Codenames |-> Missing]
    /\ knownCodenames = <<>> /\ knownComponents = {} /\ knownArchs = {}
    /\ quiet = {}

Goto(r, l) == pc' = [pc EXCEPT ![r] = l]

-----------------------------------------------------------------------------
\* Others publish to the store: an index file, or a Release and then its InRelease.
Put ==
    /\ puts < MaxPuts
    /\ puts' = puts + 1
    /\ quiet' = {}
    /\ UNCHANGED <<pc, req, readVars, syncVars, cacheVars, settled>>

PutIndex ==
    /\ Put
    /\ \E f \in Files : \E stanzas \in ContentsOf[f] : store' = [store EXCEPT ![f] = stanzas]
    /\ UNCHANGED <<release, signed>>

PutRelease ==
    /\ Put
    /\ \E c \in Codenames : \E m \in Manifests : release' = [release EXCEPT ![c] = m]
    /\ UNCHANGED <<store, signed>>

PutInRelease ==
    /\ Put
    /\ \E c \in Codenames : Exists(release[c]) /\ signed' = signed \cup {c}
    /\ UNCHANGED <<store, release>>

\* A storage call of r fails; what it should have returned is passed over.
Fails(r) == Faults /\ quiet' = quiet \ {r}

-----------------------------------------------------------------------------
\* The handlers and the RWMutex.  A writer that waits keeps later readers out.

OrCfg(c, cfg) == IF c = Unset THEN cfg ELSE c

Writing == \E r \in Clients : pc[r] \in Syncing \cup {"drain"}

Ask(r) ==
    /\ pc[r] = "idle"
    /\ \E q \in Requests :
          /\ req' = [req EXCEPT ![r] = q]
          /\ Goto(r, IF q.kind = "fetch" THEN "lock" ELSE "rlock")
    /\ found' = [found EXCEPT ![r] = {}]
    /\ left' = [left EXCEPT ![r] = Archs]
    /\ quiet' = quiet \cup {r}
    /\ UNCHANGED <<storeVars, syncVars, cacheVars, settled>>

\* m.mu.Lock: first among the writers, ...
Lock(r) ==
    /\ pc[r] = "lock" /\ ~Writing
    /\ Goto(r, "drain")
    /\ UNCHANGED <<storeVars, req, readVars, syncVars, cacheVars, settled, quiet>>

\* ... then after the readers that were there before.
Drained(r) ==
    /\ pc[r] = "drain" /\ \A q \in Clients : pc[q] # "reading"
    /\ Goto(r, "discover")
    /\ UNCHANGED <<storeVars, req, readVars, syncVars, cacheVars, settled, quiet>>

\* Bug: the handler reads the cache before it has unlocked it.
UnlockLater(r) ==
    /\ pc[r] = "target" /\ targets = {}
    /\ Goto(r, "rwait")
    /\ settled' = indexes
    /\ cur' = Unset /\ seen' = {}
    /\ UNCHANGED <<storeVars, req, readVars, targets, unread, cacheVars, quiet>>

\* m.mu.Unlock, at the end of the sync, lets in all readers that wait.
Unlock(r) ==
    /\ pc[r] = "target" /\ targets = {}
    /\ pc' = [q \in Clients |-> IF q = r THEN "rlock"
                                ELSE IF pc[q] = "rwait" THEN "reading" ELSE pc[q]]
    /\ settled' = indexes
    /\ cur' = Unset /\ seen' = {}
    /\ UNCHANGED <<storeVars, req, readVars, targets, unread, cacheVars, quiet>>

\* Bug: no RLock.
NoRLock(r) ==
    /\ pc[r] = "rlock"
    /\ Goto(r, "reading")
    /\ UNCHANGED <<storeVars, req, readVars, syncVars, cacheVars, settled, quiet>>

RLock(r) ==
    /\ pc[r] = "rlock"
    /\ Goto(r, IF Writing THEN "rwait" ELSE "reading")
    /\ UNCHANGED <<storeVars, req, readVars, syncVars, cacheVars, settled, quiet>>

\* The codename and the component of a request, Unset if there is no codename.
CodenameOf(q) ==
    LET c == OrCfg(q.codename, CfgCodename) IN
    IF c = Unset /\ knownCodenames # <<>> THEN knownCodenames[1] ELSE c
ComponentOf(q) == OrCfg(q.component, CfgComponent)

\* collectStanzas: the index of one architecture, of those that are asked for.
Collected(q, a) ==
    IF CodenameOf(q) = Unset \/ (q.arch # Unset /\ q.arch # a) THEN {}
    ELSE {s \in indexes[CodenameOf(q)][ComponentOf(q)] : s.arch = a}

Collect(r) ==
    /\ pc[r] = "reading"
    /\ \E a \in left[r] :
          /\ found' = [found EXCEPT ![r] = @ \cup Collected(req[r], a)]
          /\ left' = [left EXCEPT ![r] = @ \ {a}]
          /\ Goto(r, IF left[r] = {a} THEN "answered" ELSE "reading")
    /\ UNCHANGED <<storeVars, req, syncVars, cacheVars, settled, quiet>>

-----------------------------------------------------------------------------
\* SyncIndexes

\* The codename that is asked for or configured; if none, those that List finds
\* in dists, or else the common ones that have a Release.
Discover(r) ==
    /\ pc[r] = "discover"
    /\ LET c == OrCfg(req[r].codename, CfgCodename)
           listed == {d \in Codenames : \/ Exists(release[d])
                                        \/ \E f \in Files : f.codename = d /\ Exists(store[f])}
           common == {d \in Common : Exists(release[d])}
       IN \/ c # Unset /\ targets' = {c} /\ UNCHANGED quiet
          \/ c = Unset /\ targets' = listed /\ UNCHANGED quiet
          \/ c = Unset /\ Fails(r) /\ targets' \in SUBSET common
    /\ Goto(r, "target")
    /\ UNCHANGED <<storeVars, req, readVars, cur, unread, seen, cacheVars, settled>>

InSeq(x, s) == \E i \in 1..Len(s) : s[i] = x

NextTarget(r) ==
    /\ pc[r] = "target"
    /\ \E c \in targets :
          /\ \A d \in targets : c <= d
          /\ cur' = c /\ targets' = targets \ {c}
          /\ knownCodenames' = IF InSeq(c, knownCodenames) THEN knownCodenames
                                                           ELSE Append(knownCodenames, c)
    /\ Goto(r, "inrelease")
    /\ UNCHANGED <<storeVars, req, readVars, unread, seen, indexes, releaseMeta,
                   knownComponents, knownArchs, settled, quiet>>

Learn(m) ==
    /\ releaseMeta' = [releaseMeta EXCEPT ![cur] = m]
    /\ knownComponents' = knownComponents \cup m.comps
    /\ knownArchs' = knownArchs \cup m.archs
    /\ UNCHANGED <<indexes, knownCodenames>>

\* The first paragraph of a clear-signed text is the Hash header: the fields of
\* the Release are in the second one.
GetInRelease(r) ==
    /\ pc[r] = "inrelease"
    /\ \/ cur \in signed /\ Learn(Blank) /\ Goto(r, "list") /\ UNCHANGED quiet
       \/ cur \notin signed /\ Goto(r, "release") /\ UNCHANGED <<cacheVars, quiet>>
       \/ Fails(r) /\ Goto(r, "release") /\ UNCHANGED cacheVars
    /\ UNCHANGED <<storeVars, req, readVars, syncVars, settled>>

\* Bug: a manifest that is known already is not looked at again.
GetReleaseOnce(r) ==
    /\ pc[r] = "release"
    /\ \/ Exists(release[cur]) /\ ~Exists(releaseMeta[cur]) /\ Learn(release[cur])
       \/ Exists(releaseMeta[cur]) /\ UNCHANGED cacheVars
       \/ ~Exists(release[cur]) /\ UNCHANGED cacheVars
    /\ Goto(r, "list")
    /\ UNCHANGED <<storeVars, req, readVars, syncVars, settled, quiet>>

GetRelease(r) ==
    /\ pc[r] = "release"
    /\ \/ Exists(release[cur]) /\ Learn(release[cur]) /\ UNCHANGED quiet
       \/ ~Exists(release[cur]) /\ UNCHANGED <<cacheVars, quiet>>
       \/ Fails(r) /\ UNCHANGED cacheVars
    /\ Goto(r, "list")
    /\ UNCHANGED <<storeVars, req, readVars, syncVars, settled>>

\* List finds the stored files of the codename and, where it goes by prefix, those
\* of codenames that are longer.
List(r) ==
    /\ pc[r] = "list"
    /\ \/ /\ unread' = {f \in Files : Exists(store[f]) /\ f.codename \in {cur} \cup LongerNames[cur]}
          /\ UNCHANGED quiet
       \/ Fails(r) /\ unread' = {}
    /\ seen' = unread'
    /\ Goto(r, "read")
    /\ UNCHANGED <<storeVars, req, readVars, targets, cur, cacheVars, settled>>

\* The paths that are looked for whether they were listed or not.
MetaOfCur == IF Exists(releaseMeta[cur]) THEN releaseMeta[cur] ELSE Blank
ProbeArchs == IF CfgArchs # {} THEN CfgArchs
              ELSE IF MetaOfCur.archs # {} THEN MetaOfCur.archs ELSE DefaultArchs

\* Bug: the component that is asked for, even if it is empty.
ProbeAsked(r) == {req[r].component} \cup MetaOfCur.comps
ProbeComponents(r) == {ComponentOf(req[r])} \cup MetaOfCur.comps

Probes(r) == {f \in Files : /\ f.codename = cur
                            /\ \/ f.comp = Flat
                               \/ /\ f.comp \in ProbeComponents(r)
                                  /\ f.arch \in ProbeArchs}

StartProbe(r) ==
    /\ pc[r] = "read" /\ unread = {}
    /\ unread' = Probes(r) \ seen
    /\ knownComponents' = knownComponents \cup ProbeComponents(r)
    /\ Goto(r, "probe")
    /\ UNCHANGED <<storeVars, req, readVars, targets, cur, seen, indexes, releaseMeta,
                   knownCodenames, knownArchs, settled, quiet>>

EndProbe(r) ==
    /\ pc[r] = "probe" /\ unread = {}
    /\ Goto(r, "target")
    /\ UNCHANGED <<storeVars, req, readVars, syncVars, cacheVars, settled, quiet>>

\* Bug: the component is the last directory but one, whatever comes before.
KeyOfPath(f, s, default) == IF f.comp # Flat THEN f.comp ELSE OrCfg(s.comp, default)

\* ingestIndex: the component that a stanza of f is taken to belong to.  The path
\* of a file of a longer codename does not begin with dists/<cur>/.
KeyOf(f, s, default) ==
    IF f.codename # cur THEN Dists
    ELSE IF f.comp # Flat THEN f.comp
    ELSE OrCfg(s.comp, default)

\* Bugs: a stanza is appended without a look at what is there, or not at all if
\* there is one.
MergedBlindly(old, new) == old \cup new
MergedOnce(old, new) == old \cup {t \in new : \A s \in old : ~SameStanza(s, t)}

\* AddOrUpdate, preserving other versions, of every stanza.
Merged(old, new) == {s \in old : \A t \in new : ~SameStanza(s, t)} \cup new

\* Bug: only the Release says which components there are.
IngestUnlisted(f, default) ==
    LET of(k) == {s \in store[f] : KeyOf(f, s, default) = k} IN
    /\ indexes' = [indexes EXCEPT ![cur] = [k \in Keys |-> Merged(@[k], of(k))]]
    /\ knownArchs' = knownArchs \cup {s.arch : s \in store[f]}
    /\ UNCHANGED <<releaseMeta, knownCodenames, knownComponents>>

Ingest(f, default) ==
    LET of(k) == {s \in store[f] : KeyOf(f, s, default) = k} IN
    /\ indexes' = [indexes EXCEPT ![cur] = [k \in Keys |-> Merged(@[k], of(k))]]
    /\ knownComponents' = knownComponents \cup {k \in Keys : of(k) # {}}
    /\ knownArchs' = knownArchs \cup {s.arch : s \in store[f]}
    /\ UNCHANGED <<releaseMeta, knownCodenames>>

\* A file is read, parsed and ingested, or passed over.
ReadFile(r) ==
    /\ pc[r] \in {"read", "probe"}
    /\ \E f \in unread :
          /\ unread' = unread \ {f}
          /\ \/ Exists(store[f]) /\ Ingest(f, ComponentOf(req[r])) /\ UNCHANGED quiet
             \/ ~Exists(store[f]) /\ UNCHANGED <<cacheVars, quiet>>
             \/ Fails(r) /\ UNCHANGED cacheVars
    /\ UNCHANGED <<storeVars, pc, req, readVars, targets, cur, seen, settled>>

Proceed(r) ==
    \/ Drained(r) \/ Unlock(r) \/ RLock(r) \/ Collect(r)
    \/ Discover(r) \/ NextTarget(r) \/ GetInRelease(r) \/ GetRelease(r)
    \/ List(r) \/ StartProbe(r) \/ ReadFile(r) \/ EndProbe(r)

Next ==
    \/ PutIndex \/ PutRelease \/ PutInRelease
    \/ \E r \in Clients : Ask(r) \/ Lock(r) \/ Proceed(r)

Spec == Init /\ [][Next]_vars

-----------------------------------------------------------------------------
\* What the browser promises

Answers == [r \in Clients |->
    IF pc[r] \in {"idle", "answered"} THEN found[r] ELSE Unset]

Shown == INSTANCE Catalogue WITH shown <- settled, answers <- Answers, Asking <- Unset

\* The cache has one stanza per package, architecture and version, however often it
\* reads the index of a package and of its rebuilds.
OneStanzaEach ==
    \A c \in Codenames, k \in Keys : \A s, t \in indexes[c][k] : SameStanza(s, t) => s = t

\* Syncs take effect all at once: whatever runs concurrently, every answer is what
\* the cache contained when no sync was under way, and no stanza is ever dropped.
ImplementsCatalogue == Shown!Spec

\* The cache has a stanza under a codename and component only if an index of that
\* codename and component, or a flat one, may contain it.  The exception is the key
\* dists: under it, and nowhere else, a codename shows what the indexes of longer
\* codenames contain, which a List by prefix finds with its own.
ShownWhereStored ==
    \A c \in Codenames, k \in Keys : \A s \in indexes[c][k] : \E f \in Files :
        /\ s \in UNION ContentsOf[f]
        /\ \/ f.codename = c /\ f.comp = k
           \/ f.codename = c /\ f.comp = Flat /\ s.comp \in {k, Unset}
           \/ k = Dists /\ f.codename \in LongerNames[c]

\* The stanzas stored for a codename and component, when that is the default.
Stored(c, k) ==
    UNION {IF ~Exists(store[f]) \/ f.codename # c THEN {}
           ELSE IF f.comp = k THEN store[f]
           ELSE IF f.comp = Flat THEN {s \in store[f] : s.comp \in {k, Unset}}
           ELSE {} : f \in Files}

\* A fetch in whose time nobody published and no call of its own failed returns
\* every stored stanza, as it is stored, whoever synced or failed to before.
FetchReturnsStored ==
    \A r \in quiet : pc[r] = "answered" /\ req[r].kind = "fetch" /\ CodenameOf(req[r]) # Unset =>
        LET stored == Stored(CodenameOf(req[r]), ComponentOf(req[r])) IN
        \A s \in stored : \E t \in found[r] \cap stored : SameStanza(s, t)

\* While no sync is under way, what is cached can be reached from the lists of
\* codenames, components and architectures.
EverythingIsListed ==
    (\A r \in Clients : pc[r] \notin Syncing) =>
        \A c \in Codenames, k \in Keys : indexes[c][k] # {} =>
            /\ InSeq(c, knownCodenames) /\ k \in knownComponents
            /\ {s.arch : s \in indexes[c][k]} \subseteq knownArchs

\* Requests never all wait for each other: while one is unanswered, one can go on.
NobodyStuck ==
    (\E r \in Clients : pc[r] \notin {"idle", "answered"}) =>
        \E r \in Clients : ENABLED (Lock(r) \/ Proceed(r))

\* A fetch in whose time nobody published and no call of its own failed leaves the
\* stored Release of the codename it shows, whatever was known of it before; but only
\* if the codename is not signed, as the manifest that is read from an InRelease is
\* blank.
ReleaseIsRead ==
    \A r \in quiet : pc[r] = "answered" /\ req[r].kind = "fetch" =>
        LET c == CodenameOf(req[r]) IN
        c # Unset /\ c \notin signed /\ Exists(release[c]) => releaseMeta[c] = release[c]
=============================================================================
