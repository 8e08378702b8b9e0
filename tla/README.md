# Verification of debpub

TLA+ models of `debpub`, a tool that publishes Debian packages to a repository kept in an
object store (local files, SFTP or S3) and serves a web browser of such a repository. TLC
checks the models on small instances and TLAPS proves theorems about them for every value of
their constants. Line numbers refer to the files under `src/`.

## The system

| Component | Source | State | Operations |
|---|---|---|---|
| Advisory lock | `internal/lock` | the object `dists/<codename>/.lock`; per process: deadline, heartbeat channel, ticker | `Acquire`, `checkStale`, `startHeartbeat`, `Release` |
| Storage backends | `internal/storage` | the objects | `Get`, `Put`, `PutBytes`, `PutIfNotExist`, `Delete`, `List`, `Exists` |
| Publisher | `internal/repo/publisher.go` | the pool, the `Packages` indices in all variants, `Release`, `Release.gpg`, `InRelease` | `PublishDebFiles`, in three phases |
| Packages index | `internal/debian/index.go` | a list of stanzas | `ParseIndex`, `AddOrUpdate`, `Remove`, `Sort`, `Serialize` |
| Release manifest | `internal/debian/release.go`, `model.go` | fields and checksum tables | `GenerateRelease` |
| Version comparison | `internal/debian/version.go` | none (pure) | `ParseVersion`, `CompareVersions` |
| deb822 parser | `internal/debian/parser.go`, `model.go` | none (pure) | `ParseParagraphs`, `Paragraph.String`, `ParagraphToStanza` |
| Deb reader, collector | `internal/debian/collector.go`, `control.go` | none | `CollectDebFiles`, `ParseDebReader` |
| Signing, compression | `internal/debian/sign.go`, `internal/compress` | none | clear-signing and detached signing; the variants of an index |
| Repository browser | `internal/api` | a cache of indices and manifests under a `RWMutex` | `SyncIndexes`, `GetRepoInfo`, `ListPackages`, `GetPackageDetail` |
| Configuration | `internal/config`, `cmd/debpub/root.go` | the `Config` of a process | `LoadConfigFile`, `loadConfigWithPrecedence`, `normalizeAndLogConfig`, `ParseDurationFlexible` |
| Commands | `cmd/debpub` | per process: context, HTTP server, error channel, requests in flight | `publish`, `serve` |

**How they interact.** `debpub publish` parses its `.deb` files, acquires the lock of the
codename, runs the three phases (pool files; indices; `Release` and signatures) and releases the
lock in a deferred call. Runs on different machines share nothing but the store: they see each
other through the lock object and the objects they put. Within a run there are two goroutines,
the main one and the heartbeat that rewrites the lock object twice per TTL. The heartbeat talks
to nobody: if a put fails, or the lock has been taken away, the main goroutine is not told. The
browser reads the same objects, without the lock. An object of the file and SFTP backends is
itself several system calls: a temporary file, its chunks, a rename; a reader keeps the file open
that it found. `debpub serve` has the main goroutine, one that listens, one per request, and signals.

**What is hard.** The lock is a lease on a store whose only atomic operation is, at best, one
conditional put. Staleness is judged by the reader's clock; a stale lock is deleted by a plain
`Delete` that does not check what it deletes; heartbeats overwrite whatever is there. A run can
fail or be killed between any two of its uploads, and a client or another run then finds a
half-published repository. An index is parsed and printed again by every run that publishes to it, so
whatever a round trip loses adds up. `PROJECT.json` lists these hazards one by one, at their lines.

**What makes each component correct.**

- *Lock*: a second worker gets in only after a delete; a lock is always recoverable; `Acquire`
  returns; a working holder's lock never looks stale if delays are bounded.
- *Publisher*: no stored index lists a missing pool file; what is published stays listed; the
  `Release` describes the stored indices; signatures are of the stored `Release`.
- *Storage*: a call that succeeds takes effect at one moment; one that fails or dies half-way
  shows nothing; who reads an object gets one that was put, whole.
- *Index and versions*: `CompareVersions` is the order of deb-version(7); `AddOrUpdate` keeps
  one stanza per package, architecture (and version).
- *deb822*: no word of a description is lost, however often an index is parsed and printed.
- *Browser*: a reader sees the result of whole syncs; after a sync the cache has every
  package of the indices that it could read, and the manifest of the codename.
- *Configuration*: what a run works with is what the topmost layer that says anything says.
- *Commands*: nothing is touched before everything that can be checked has been; a signal ends
  `serve`, in bounded time, and the requests that it had accepted are answered.

## The modules

| Module | What it is |
|---|---|
| `RevocableLock` | abstract specification: what the lock promises a publisher |
| `Locker` | `internal/lock/locker.go` and `PutIfNotExist` of all three backends; implements `RevocableLock` |
| `MCLocker` | instances of `Locker`; the bound `WorkUntil` for the liveness runs |
| `LockerProofs` | theorems about `Locker` |
| `Publisher` | `internal/repo/publisher.go`, under a `RevocableLock` |
| `MCPublisher` | instances of `Publisher` |
| `PublisherProofs` | theorems about one state of `Publisher`: files, `Release` |
| `SettledProofs` | theorems about what runs of `Publisher` leave behind: signatures, checksums, packages that stay |
| `ObjectStore` | abstract specification: what everybody takes a storage backend to be |
| `FileStore` | `internal/storage/file.go`, `sftp.go`, by system call; implements `ObjectStore` |
| `MCFileStore` | instances of `FileStore` |
| `FileStoreProofs` | theorems about `FileStore` |
| `Catalogue` | abstract specification: what the browser promises its users |
| `Browser` | `internal/api`: `RepositoryManager` and its handlers; implements `Catalogue` |
| `MCBrowser` | instances of `Browser` |
| `BrowserProofs` | theorems about the cache of `Browser`, and what a fetch brings into it and returns |
| `DebVersion` | reference: the order of versions as deb-version(7) states it |
| `Version` | `internal/debian/version.go`: `ParseVersion`, `CompareVersions` |
| `Deb822` | `internal/debian/parser.go` and the printing of `model.go`, by line |
| `Index` | `internal/debian/index.go` on the lines of a Packages file, and the batch sort of the publisher |
| `MCIndex` | instances of `Index` and its descriptions |
| `VersionProofs` | theorems about `Version`: it computes the order of `DebVersion` |
| `IndexProofs` | theorems about `Index` and `Deb822` |
| `Config` | `internal/config` and its use in `cmd/debpub/root.go` |
| `Collector` | `internal/debian/collector.go`: what the arguments of publish stand for |
| `Command` | `cmd/debpub`: `publish` and `serve` as processes, over `Config` and `Collector` |
| `MCCommand` | instances of `Command`: the invocations |
| `CommandProofs` | theorems about `Command`, `Config` and `Collector` |

The composition is by contract. `Publisher` does not contain the lock's protocol; it
instantiates `RevocableLock` and is checked against everything that specification allows,
including a lock taken away at any step. `Locker` is shown to implement that specification (where
`AtomicPut` holds). So what is said of `Publisher` holds over the real lock. In the same way,
`Publisher` and `Browser` take each `Put`, `Get` and `List` for one step. `ObjectStore` says what
that needs of a backend, and `FileStore` is shown to implement it. `Locker` does not rely on it for
`PutIfNotExist`, for which `ObjectStore` promises less, and models that call itself.

Operators under a comment `Bug:` are not part of the system. Each is a plausible mistake in the
definition that follows it, and substituting it makes TLC find a property violated: they show
that the properties can fail.

### Locker

One action per storage call and per scheduling point, so that the calls of different workers,
and of a worker's heartbeat, interleave freely.

- `lock` is the lock object: a `LockInfo` (holder and expiry), `Gone`, or `Garbage` (an object
  that does not parse: a partial write, or the empty file that `O_EXCL` creates).
- `pc`, `deadline`, `stamp`, `seen` are the locals of `Acquire` (`locker.go:80-160`): `top`,
  `put` (then `write`, or `head` and `headed`), `inspect` and `backoff` are the retry loop, `jitter` and `break` the two-step recovery of
  a stale lock, `relget` and `reldel` are `Release`.
- `hb` and `nextBeat` are the heartbeat goroutine and its ticker. The ticker follows Go: one
  tick is buffered, later ones are dropped, the schedule does not shift. When a tick is ready and
  the channel is closed, `select` may choose either.
- `PutMode` says what `PutIfNotExist` is. S3: one conditional PUT (`PutConditional`), which the
  SDK may repeat after a lost answer (`PutRepeated`: the worker then sees its own lock as somebody
  else's), and which a store that does not know `If-None-Match` refuses with 400 or 501 (`Refuses`,
  `PutRefused`): the code then goes on as with legacy locking (`s3.go:193-196`). File and SFTP: an `O_EXCL` create and then a write (`CreateExclusive`,
  `WriteExclusive`); the write goes to the created file, linked or not (`openFd`). S3 with legacy
  locking: HEAD and then PUT (`HeadLegacy`, `PutLegacy`). `AtomicPut` says when `PutIfNotExist` is
  what `storage.go:29` promises: with neither legacy locking nor a store that refuses.
- `now` is real time, and `ClockOf[w]` how far the clock of `w` is ahead. `Tick` is blocked while
  something has been delayed by `MaxDelay`: that is the only meaning of `MaxDelay`.
- `broken` is a history variable: the workers whose object another worker has deleted.

### Publisher

One action per storage call of `PublishDebFiles`. `.deb` contents are checksums, versions are
numbers, an index is the set of its stanzas, a checksum table is the set of uploads it is about,
and a signature is the manifest it signs. `MergeOne` is one turn of the merge loop
(`publisher.go:170-178`), older versions first as the sort before it orders them; indices are
taken in any order, as the loop ranges over a Go map. A package is opened and hashed before the run
waits for the lock and opened again for the upload: `Rebuilt` are the packages that are built anew in
between, and `PutPool` uploads any of their `Contents`. `Stop` is any error return and any kill: in
both cases nothing further is uploaded and the lock is released, or becomes stale. `owner` and
`inside` belong to the lock; `overlapped` is a history variable.

`ReleaseMatchesIndices` is about every state, of the store at rest too. A later run uploads its indices before its
`Release`, and if it stops in between the `Release` that is stored fits the store no more: what it does not fit
are then uploads of a run that has not uploaded a `Release` (not in `published`), and nothing else can make it unfit.
That it has the indices of its own run only is finding 2.

### Browser

One action per storage call of `SyncIndexes` (`manager.go:48-264`), per index that a reader
looks at, and per step on the `RWMutex`. While a sync holds the mutex, others change the store
between any two of its calls (`PutIndex`, `PutRelease`, `PutInRelease`).

- `Ask`, `Lock`, `Drained`, `Unlock` and `RLock` are the handlers and the mutex. As in Go, a writer
  first keeps later readers out (`Writing`) and then waits for those that are inside; `Unlock`
  lets in all that wait. A fetch unlocks and then takes the read lock: another sync may
  come in between.
- `Discover` chooses `targets`, `NextTarget` takes the smallest, `GetInRelease` and `GetRelease`
  learn a manifest, `List` and `StartProbe` set up the two rounds of `ReadFile`. A listed file is
  never probed (`seen`), even if it could not be read.
- `Collect` is `collectStanzas`, the part that all readers of the cache have in common; it
  takes one architecture at a time, since it ranges over a Go map.
- A storage call that fails (`Fails`) is passed over, as the code does with every one of
  them. `quiet` is a history variable: the requests in whose time nothing failed and nobody published.
- Codenames are numbers in their sort order, and a path is the codename, component,
  architecture and extension that it is made of. A stanza is its name, version, architecture, the
  component that its `Filename` or `Section` names, and a checksum for everything else. The text
  search, the order in which packages are shown and the HTML page are left out. A codename with
  a dot in its name is never discovered, and is not in `Codenames`. The prefetch at the start of
  the server is a fetch like any other.
- `LongerNames` is for S3, where `List` goes by prefix: `dists/stable` also lists the files of
  `dists/stable-updates`. Their paths do not begin with `dists/stable/`, so `ingestIndex` takes
  `dists` itself for their component (`Dists`): under it the browser does show stanzas of other
  codenames. `ShownWhereStored` is about every component, and says that under `dists`, and nowhere
  else, there may be stanzas of longer codenames. No client asks for the component `dists`, though the
  list of components offers it then: `FetchReturnsStored` says nothing of such a request.

`Catalogue` knows nothing of files, syncs or locks: `shown` changes at once, keeps a stanza for
each package, architecture and version it has had, and each answer is a part of one `shown`.
The refinement maps `shown` to `settled`, the cache when the mutex was last unlocked: reading
during a sync would show as an answer that is in neither the catalogue before nor the one after.

`ReleaseIsRead` is about codenames that are not signed: of a signed one the browser reads the
`InRelease`, and nothing of it (see below).

### ObjectStore and FileStore

One action per system call or SFTP request, for any number of processes that share a directory. A
path is a `link` to a file; `data` are the chunks of a file, which outlive its name for those who have it open
(`fd`). A `Put` is `CreateTemp`, one `Copy` per chunk, `Rename`; over SFTP a failed posix-rename is
followed by the plain one (`fallback`), which never replaces; then `RemoveTemp`. `CreateNew`, `Stat` and
`Write` are `PutIfNotExist`, `Open` and `Read` a `Get` and its caller, `ReadDir` and `Lstat` a `List`:
`filepath.Walk` reads the directory first and looks at each name later. `GiveUp` is an error return or a kill
anywhere. A call that fails has no effect but a temporary file.

The refinement maps each path to the value that its file's chunks make, to the client that is still
completing it, or to `Partial`: a `PutIfNotExist` that was given up. A `Put` takes effect at its
rename, a `Get` when it opens the file, although it reads for long after; `ReadsAreWhole` is what makes
that sound, and `reads` shows what was really read. `lists` leaves out temporary files, which a
real `List` returns too. `S3Backend` makes one request per call; that S3 is such a store is an assumption.

### Config, Collector and Command

`Config` has every kind of setting and every setting that something beside the layers
bears on; others of a kind are treated alike by the code. `LoadConfigFile` over the defaults and
`loadConfigWithPrecedence` over the flags are as in the code, with its test for zero values (`Zero`), and
durations are 64-bit numbers (`Wrap`): a number of seconds beyond 64 bits is refused, but the product with a
second wraps. `Collector` is given what each argument finds in the file system;
`CollectArg` is one turn of the loop of `CollectDebFiles`, and the files of one argument come in any order.

`Command` is a process from its command line to its exit. `publish` is `LoadConfig`, `CollectArg`
per argument, `Collect`, `ReachStorage` (backend, signer, locker) and `Publish`, one step that may fail: what happens in it is
`Publisher`'s. `serve` is `LoadConfig`, `Notify`, `ReachStorage`, `Prefetch`, then the `select` of the
main goroutine (`ServerErr`, `Shutdown`) beside `Listen`, `ListenerFails`, `Signal`, and requests that
are sent and answered at any time; `Drained`, `GraceEnds` and `DrainFails` are
`http.Server.Shutdown` under its timeout. The standard library's server is modelled as far as the code uses it: `Shutdown`
closes the listener, and waits for the requests in flight.

### Version, Deb822 and Index

`Version` translates the comparison as the code performs it: two positions that move over both
texts by runs of non-digits, zeros and digits. The loop is a recursive function of the positions. `DebVersion` is independent of it: a version is a record, `Text` is how it is written,
and each part of it has a `Key`, a list of integers such that the first difference of two keys
decides. Texts are sequences of ASCII codes of any length. `MaxInt` is the largest `int`: an epoch beyond it is
ignored by the code, and `WellFormed` leaves it out.

`Deb822` is a parser of lines, not of characters: of a line it keeps the key, how far it is indented and
whether it is empty, a dot, a comment or words. The parser applies `ParseLine` to one line after the other; its record (`Reading`) is the
state of the loop of `ParseParagraphs`. `Texts` is what a line may say, at least nothing, a dot and a comment
(`TextsAssumption`). The fields that have one line are one line (the head), the
`Description` stands for those that have several.

`Index` is the text of one Packages file and the list of stanzas that a run has in hand: `ParseIndex` (with
the batch already sorted), `MergeOne`, `RemovePackages` and `Serialize`. What is stored are lines,
printed and parsed by `Deb822` each time; `Shown` is what a reader sees in them, stanza by stanza, `Listed` the
heads of that, and `Control` gives a package's control file. `ControlAssumption` says what a control file is:
a head, after comments or empty lines at most, and a description of any number of lines. `DebAssumption` has all
packages that are published of one architecture, as a file of the repository has, and takes the index that is
there at the start for one that `debpub` could have written. Stanzas carry a version as a
record, of which the code sees the `Text`: `AddOrUpdate` compares texts and the two sorts compare
versions, so `1.0` and `1.0-0` are two stanzas and one version. `slices.SortFunc` is not stable:
`Serialize` chooses any sorted one of the `Arrangements`. Only the index of one architecture is published to, but a
file made elsewhere may hold others, as does one of the initial indices.

`Publisher` and `Browser` use sets of stanzas instead of lists and numbers instead of versions.
What is proved of `Index` and `Version` makes that sound: a list never has two stanzas of one key, versions are
ordered (those that compare equal are one number), and what a batch does to the set is what
`Publisher!AddOrUpdate` does, latest last.

## The runs

| Run | What it checks | Bounds |
|---|---|---|
| `locker_exclusive` | `TypeOK`, `ExclusionUntilDeleted`, `NeverLockedForLong`, `ImplementsRevocableLock` | 2 workers, exclusive put, all faults, crashes, an expired lock, garbage or no lock at the start; TTL 2, clock to 3, delays unbounded within it |
| `locker_timely` | `HolderNeverStale`, `MutualExclusion` | 2 workers with a skew of 1, conditional put that the store supports, crashes; TTL 9, delay 1, two heartbeats fit before the horizon |
| `locker_served` | `WaiterServed` | 2 workers, legacy put, crashes, any initial object; deadline beyond the horizon |
| `locker_returns` | `AcquireReturns` | 2 workers, conditional put that the store may refuse at any attempt, faults, crashes, no lock or one that never expires |
| `publisher` | `TypeOK`, `EveryStanzaHasItsFile`, `StanzaMatchesFile`, `NoPackageIsLost`, `ReleaseMatchesIndices`, `SignedStateIsConsistent` | 3 runs, 2 names, 2 architectures, 2 versions, 2 builds, one package rebuilt while its run waits, 2 variants, with and without preserved versions |
| `browser` | `TypeOK`, `OneStanzaEach`, `ShownWhereStored`, `FetchReturnsStored`, `EverythingIsListed`, `ReleaseIsRead`, `NobodyStuck`, `ImplementsCatalogue` | 2 requests (fetch of everything, fetch of one component, query), 2 codenames of which one is a prefix of the other, 2 components, 2 architectures, two variants of an index, a flat index, a rebuilt package, two manifests; faults; one put |
| `index` | `TypeOK`, `StoredInOrder`, `BatchIsPublished`, `WordsAreKept` | batches of one or two packages, two packages in all, into an empty file or one with two architectures; one package in 42 versions: every text of up to two of `~ 0 1 a .`, numbers of different lengths, epochs, revisions; a rebuild and another package, with 34 descriptions |
| `storage` | `TypeOK`, `ReadsAreWhole`, `ImplementsObjectStore` | 2 clients, both kinds of backend, 2 paths, 2 values of 2 chunks, 3 files; every operation on one path and a put to the other; failures and kills anywhere |
| `command` | `TypeOK`, `PublishesAsConfigured`, `StorageIsLast`, `StopsInOrder`, `StopsWhenTold` | 1265 invocations of publish and serve, 3 requests, a second of 10 in 8-bit durations |
| `locker_stale_race` | violates `MutualExclusion` | finding 1 |
| `publisher_release_omits` | violates `ReleaseListsAllIndices` | finding 2 |
| `publisher_read_error` | violates `NoPackageIsLost` | finding 3 |

*Why these bounds are enough.* Every hazard of the lock needs two workers and, at most, a dead
third, which is the initial lock object (`Foreign`); its recovery needs one expiry. So the clock
need only pass the first expiry, and in `locker_timely` the second heartbeat, whose deadline
depends on the schedule that the first one left. `Timeout` and `TTL` are as small as still lets
the interesting order occur: `Timeout` ends within the horizon in `locker_exclusive` and
`locker_returns` (workers give up) and beyond it in `locker_served`. Heartbeats occur in all
locker runs but `locker_stale_race`, whose trace ends before the first. The
publisher's batches are chosen to overlap in each way that matters: two versions in one batch, an
older version of a published one, a rebuild of a version, a shared and an unshared
architecture. Two variants are the least that can differ.
In `index` any two versions meet in one batch, in the batch sort and, with preserved versions, in the index
sort; comparing is about two texts, and two characters are enough to follow every
branch of the comparison, a third only repeats the loop. The descriptions have each two of the four
kinds of continuation line (one space or two, words or a dot), as the parser looks at no more than the
line before, under a synopsis or a comment mark, and one of three lines that starts and ends with the rare cases; an
index is rewritten twice.
In `storage` a hazard is between one call and another that replaces or deletes what the first has
in hand; two chunks are the fewest of which a mixture can be made. Three files are one for each client and
one that is linked; a put that finds no free file waits, so a run may stop there, having checked all before.
In `command` the layers are combined where they bear on each other (names; signing; locking; storage), all
values of one group against all of the others in both layers; three requests are one answered, one running and one
that comes too late. A `Limit` of 128 lets 13 and 26 seconds wrap to a negative and to a positive duration,
and 132, which would wrap to a positive one, is no number of 8 bits.
The browser needs two requests, as every hazard of its mutex is between a sync and
another sync or reader, and one put, which splits the files that a sync has read into those before
and those after. One request per client: a second request of a client starts from a cache that
the other client's sync has filled.

*Deadlock* is not checked: all workers, runs, requests and processes end, the clock stops at `Horizon`,
and a run of `index` stops when its two packages are published. In `storage`, where calls begin for ever,
it is the bound on files that may stop a run.

### Fairness

`AcquireReturns` and `WaiterServed` assume weak fairness of the clock and, per worker, of
`Acquire` once called, of the heartbeat and of `Release`. The code justifies it: goroutines are scheduled, storage
calls return (an HTTP or SFTP call that hangs for ever is outside the model), and back-off and
jitter end. A worker need not start, need not stop working by itself, and crashes are never
forced. There is no strong fairness: a worker that waits may lose every race, so `WaiterServed` is
about finitely many workers that work once each. `LiveNext` makes the end of the clock harmless: after `WorkUntil`
nobody starts or crashes or works on while time passes, so that every deadline and every expiry
is behind when the clock stops. Without it a run that stops at `Horizon` would refute liveness
for no reason of the code's.

`Timely`, the assumption of `HolderNeverStale`, is `~Faults` and
`Interval + 4 * MaxDelay + MaxSkew <= TTL`. Four delays can add up: that of the put that
acquires the lock (its stamp is made before), that of the goroutine that receives the tick, that
of the heartbeat's put, and that of a late heartbeat of the previous holder, which may overwrite
the new lock. With three the property is false, in TLC and in the proof. As `Interval` is
half the TTL, or 10 s, a TTL of 20 s or less gives the heartbeat too little time or none.

`StopsWhenTold` assumes weak fairness of the main goroutine of `serve`, of the one that listens and of the
timer of the shutdown. So it rests on calls of the storage that return: a signal that comes during the
prefetch is only looked at afterwards. Handlers have no fairness; a request may hang for ever.

The browser needs no fairness: a request has finitely many steps, so it can only be kept from
its answer if it waits for ever. `NobodyStuck` says that requests never all wait for each other.

## What the runs found

1. `locker_stale_race`. `Acquire` re-checks that a lock is stale and then deletes it: two calls. A
   worker that passed the check deletes the lock that another has broken and acquired meanwhile;
   both publish. No call fails; only the random jitter (100-500 ms) makes it unlikely. `README.md:25`
   promises "Safe concurrent writes from multiple independent CI/CD runners".
2. `publisher_release_omits`. The `Release` lists the indices of the run that wrote it and no
   others: publishing for `arm64` drops the checksums of `amd64`, which then fails to verify.
3. `publisher_read_error`. If the existing index is found but reading or parsing it fails, the error is
   dropped and the run replaces the index by one that has only its own packages.

Noticed while modelling, without a run:

- *Lock.* File and SFTP backends create the lock file empty and write it afterwards (`file.go:142` says
  "atomically if and only if"); `checkStale` takes an empty file for corrupted and so for stale
  (`locker.go:179`): a write later than another worker's jitter loses the lock. A TTL under 20 s expires
  before the heartbeat, which is never sooner than 10 s. An S3 store that answers the conditional PUT with 400
  or 501 gets check-then-put although legacy locking is off, and no message says so (`s3.go:193`): two workers
  that are refused, find nothing and put have both acquired the lock, against `storage.go:29` ("atomically if
  and only if the object does not already exist"). With `Refuses` TLC finds this violation of
  `ExclusionUntilDeleted` at once, without any fault, crash or delay.
- *Storage.* `List` returns temporary files, and that of the file backend fails if one vanishes while it
  walks. A kill, or a failed `Close` over SFTP, leaves a temporary file for ever. The plain SFTP rename, the fallback, never
  replaces: on a server without posix-rename no object can be put twice.
- *Publisher.* A package that is rebuilt between hashing and upload (`publisher.go:60` and `113`) is
  published with the wrong checksum, unnoticed. Without preserved versions an older version
  replaces a newer one that is in the index. A control file with an empty `Package:` makes `PoolPath` panic
  (`publisher.go:270`).
- *Index.* Each round trip loses one of the separators (a line with a dot) that follow each other, and may lose one space
  of a verbatim indent; a continuation line that begins with `#` is dropped. `rules-debian.md:19` asks for the
  separators. `Serialize` calls its text canonical, but stanzas whose versions compare equal keep no fixed order.
- *Browser.* It reads `InRelease` first and takes the manifest from the first paragraph, in a
  clear-signed text the `Hash:` header (`manager.go:108-149`): a signed codename has no origin, date, architectures
  or components. The stanzas of a longer codename appear under the component `dists` (above). A stanza removed from the
  repository stays in the cache for ever, as `AddOrUpdate` only adds (`Catalogue` states it as what the browser
  does). `SyncIndexes` always returns nil, so `handleFetch` reports success even if every storage call failed.
- *Configuration.* `architectures` and `gpg.extra_args` of a file are parsed and never taken over, unlike
  `doc/configuration.md:18`. `sign: false` in a file is overridden by a key, the flag is not. Invalid durations
  of a file, and those that are not positive, are ignored without a word. A large number of seconds wraps
  (`defaults.go:38`), perhaps to a short positive duration.
- *Commands.* When the listener fails as a signal comes, its error may be lost, and `serve` ends with success.

## The proofs

For every value of the constants that satisfies the named assumptions (any number of workers, any
TTL, unbounded `Horizon`, any batches, any clients and stored indices):

| Theorem | Says | Under | Argument |
|---|---|---|---|
| `LockerProofs!TypeCorrect` | `[]TypeOK` | - | inductive as it stands |
| `ExclusionTheorem` | `[]ExclusionUntilDeleted` | `AtomicPut` | `ExclusionInv`: also, while someone is tenured and not broken, there is a lock object. A put that succeeds found none, so everyone inside is broken. |
| `FreshnessTheorem` | `[]HolderNeverStale` | `Timely` | `TimeInv` bounds how far behind the clock each pending put and tick is; `FreshInv` says until when the stored object is valid in each phase of the heartbeat. The margins of `FreshInv` shrink by one `MaxDelay` from phase to phase, which is where the four delays of `Timely` go. |
| `PairTheorem` | `[]MutualExclusion` | `Timely`, conditional put that is not refused, no lock at the start, at most two workers | `PairInv`: who finds a stale lock did not write it, and by `HolderNeverStale` its writer has stopped working; so nobody who works loses its lock to the other |
| `ExpiryTheorem` | `[]NeverLockedForLong` | no initial lock is a worker's | `ExpiryInv`: a stamp is never in the future |
| `RefinementTheorem` | `Spec => ImplementsRevocableLock` | `AtomicPut` | maps each step to `Grant`, `Leave`, `Revoke` or a stutter, with `ExclusionInv` and `BrokenInside` |
| `PublisherProofs!TypeCorrect` | `[](TypeOK /\ IndexInHand)` | - | the index in hand is well-formed where it is used |
| `FilesTheorem` | `[]EveryStanzaHasItsFile` | - | `FileInv`: what a run still has to upload, and what it has in hand, is accounted for in the pool, which only grows. Needs no lock. |
| `ReleaseTheorem` | `[]ReleaseMatchesIndices` | - | `AloneInv` (who is inside), `TableInv` (the checksum table is complete for the architectures done, and for the variants done of the one in hand), `StoredInv` (its entries are the stored indices while no one overlaps), `ManifestInv` (the same of the stored `Release`, but for what a run that has no `Release` yet has uploaded since: `Past` and `Pending`) |
| `BrowserProofs!TypeCorrect` | `[](TypeOK /\ WorkInv)` | - | `MutexInv`: at most one request is syncing, and nobody reads meanwhile. `WorkInv`: where a sync uses `cur` it is a codename, and what it probes are files |
| `OneStanzaTheorem` | `[]OneStanzaEach` | - | `Merged` removes what it replaces, and a stored index has no duplicates |
| `StoredTheorem` | `[]ShownWhereStored` | - | inductive with `UnreadInv`: what a sync reads is of its codename or of a longer one, and `KeyOf` yields a real component only for a file of `cur` |
| `ListedTheorem` | `[]EverythingIsListed` | - | `ListedInv`, the same for every state: each step that caches a stanza also lists it |
| `RefinementTheorem` | `Spec => ImplementsCatalogue` | - | `SettledInv` (the cache is `settled` unless someone syncs, and has every stanza of `settled`, perhaps replaced), `ReadInv` (a reader has found the part of the cache that it has visited), `NothingDropped`; `Unlock` is `Sync`, the last `Collect` is `Answer`, all else stutters |
| `FetchTheorem` | `[]FetchReturnsStored` | - | `SyncedInv`: what the sync of a quiet request should have read is in the cache as it is stored, or is still ahead of it (its codename to be discovered, its index to be listed, probed or read); `AnswerInv`: the reader then finds it in the part of the cache that it has visited |
| `BrowserProofs!ReleaseTheorem` | `[]ReleaseIsRead` | - | `SyncedInv` also says this of the manifest, and nothing else changes the manifest of a codename while it is stored |
| `SettledProofs!SignedTheorem` | `[]SignedStateIsConsistent` | - | `SignedInv`: as long as all went in order, what a run that is about to sign has not signed yet is all that differs, with `StoredInv` and `AloneInv` of the theorems above |
| `StanzaTheorem` | `[]StanzaMatchesFile` | - | `MatchInv`: a stanza in hand or stored matches the file of its path, or the path is unsettled; what a run has yet to upload is its own, and nobody else is inside to put another file there |
| `LossTheorem` | `[]NoPackageIsLost` | `~ReadFaults` | `LossInv`: while no two runs overlap, a published package is in the stored index or has been replaced, and still is while a run has that index in hand; a run has its own packages in the indices that it is done with |
| `FileStoreProofs!TypeCorrect` | `[]TypeOK` | - | inductive as it stands |
| `WholeTheorem` | `[]ReadsAreWhole` | - | `FileInv`: a file that is written has one writer, is temporary until it is whole (or was made by `PutIfNotExist`), and is not written again; what has been read of it is a part of the value that it was when it was opened |
| `RefinementTheorem` | `Spec => ImplementsObjectStore` | - | `Rename` is `Put`, the last `Write` is `Fill`, `Open` is `Get`, `ReadDir` is `List`, each way out is `Return` or `Fail`; `FileInv` tells which objects a step leaves alone |
| `CommandProofs!StopTheorem` | `[]StopsInOrder` | - | `ServeInv`: the error channel tells how the listener ended; `Shutdown` follows a signal; no request is cut off while the process runs |
| `TypeTheorem` | `[]TypeOK` | - | `WrapFits`: a product of 64 bits is a duration, and the right one if it fits |
| `ConfigurationTheorem` | `[]PublishesAsConfigured` | - | `MergeIsTopmost`: merging the file into the flags is to take the topmost layer that says anything; `ConfiguredInv`: the configuration is what the invocation makes, and the backend got what it says |
| `StorageTheorem` | `[]StorageIsLast` | - | `CollectInv`: the list is what the arguments looked at so far stand for, each path once; `CollectedFiles` and `SortedFiles` say what one argument adds and that sorting keeps it |
| `VersionProofs!ParseIs` | `ParseVersion(Text(v))` has the parts of `v` | `WellFormed(v)` | the first colon ends the epoch and the last hyphen begins the revision, whatever else the text has |
| `DebLessIsOrder` | `DebLess` is asymmetric, and its negation transitive | `WellFormed` versions | keys, continued with zeros, are ordered by their first difference, which exists or is none (`BeforeTotal`) |
| `VersionOrder` | `CompareVersions(Text(v), Text(w))` is -1, 1 or 0 as `DebLess` says | `WellFormed` versions | `RunsOrder`: a pair of runs is compared as the keys of what they stand for, and if they are equal the keys go on as those of the rest do (`ComparisonShift`); `PartsOrder` follows by induction on how much is left of both texts. That leading zeros do not count and the longer number is the larger is `LongerIsLarger` and `FirstDigitDecides` |
| `IndexProofs!IndexTypes` | `[]TypeOK` | - | `IInv`: all stanzas in hand and in the file have the form that parsing and printing keep, and the batch is sorted; `UpdatedIs`: `AddOrUpdate` keeps one stanza of each package, architecture and version |
| `IndexInOrder` | `[]StoredInOrder` | - | `VersionOrder`, with which the test of neighbours in a sorted list is a test of all pairs (`Pairwise`) |
| `IndexHasBatch` | `[]BatchIsPublished` | - | `Published`, in `IInv`: of the part of the batch that is merged, and the index in hand, all that `BatchIsPublished` says holds; `OneMore` merges a package that nothing merged before it is later than, as the batch is sorted |
| `IndexKeepsWords` | `[]WordsAreKept` | - | `WrittenHolds`: what the parser, and what a reader, makes of stanzas written one after the other; `PrintedIs`: a stanza that is printed says what it said; both by induction on lines and stanzas |

The strengthenings are needed because few of the properties are inductive as they stand: e.g. nothing in
`ReleaseMatchesIndices` says that the table was right *before* the `Release` was put. The
assumptions are those of the constants (`HolderAssumption`, `TimeAssumption`, ...,
`BatchAssumption`), which the runs evaluate on their instances. `ExclusionTheorem` assumes
`AtomicPut` because it is false otherwise, by legacy locking or by its fallback: HEAD and PUT are two
requests, between which another worker's two fit.

Two theorems have hypotheses because without them they are false, as a run shows: `PairTheorem` (finding 1: with
a stale lock at the start, or a third worker that dies, a late delete takes away a lock that is held) and `LossTheorem`
(finding 3). `NoPackageIsLost` says of a published package that it stays until another run begins to publish the
same package, so it covers all that happens between two publications of it, kills included.

What `Index`, `Deb822` and `Version` compute is defined by recursive functions (of positions in a text, of lines, of
stanzas). The induction theorems of the library, which take an operator, cannot be used here; `VersionProofs!Induction`
is induction for a set of numbers, proved from the well-foundedness of `<`, and `PickedIs`, `WrittenIs`, `ShownIs`,
`ReadIs` and their like prove for each recursive function that it exists and satisfies its equation.

Checked by TLC only:

- Liveness (`AcquireReturns`, `WaiterServed`, `StopsWhenTold`) and `NobodyStuck` (`ENABLED`), which are beyond the prover.
  Every other property of the passing runs is a theorem.

## Not modelled

- Cancellation of `Acquire`'s context: the publish command passes `context.Background()`.
- Storage calls that never return, connections, key prefixes, the creation of directories.
- Texts within a line: control fields, dates, wording of logs and errors; the archive formats ar and tar, the
  compression codecs and gpg, which are third-party or I/O. So signing, compression and the `Release` are
  modelled by what of them the other parts tell apart, and the deb reader by the control paragraph it returns.
- Parsing of the command line, which is cobra's; the HTML page, version stamps and test helpers.

## Plan

Done: every component with behaviour of its own, the refinements `Locker` to `RevocableLock`, `Browser` to
`Catalogue` and `FileStore` to `ObjectStore`, all three proved, and every safety property of the passing runs as a
theorem but `NobodyStuck`. What could follow:

1. `Client`: an apt client that reads `InRelease`, then the index, then the pool, while runs
   publish, composed with `Publisher`: which interleavings give it a mismatch.
2. `Publisher` over `Index`: the refinement that the section on `Index` argues for in words, with the numbers that
   `Publisher` has for versions as the ranks of `DebLess`.
