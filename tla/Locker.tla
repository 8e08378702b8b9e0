------------------------------- MODULE Locker -------------------------------
(***************************************************************************)
(* The advisory lock of a repository codename, internal/lock/locker.go, on *)
(* top of the PutIfNotExist of the storage backends.  Every worker is one  *)
(* run of `debpub publish': it acquires the lock once, works, releases it  *)
(* and exits.  The lock is one object of the store, dists/<codename>/.lock *)
(* and the workers share nothing else.  Each storage call is one action,   *)
(* so that the calls of different workers, and the calls of a worker's     *)
(* heartbeat goroutine, interleave freely.                                 *)
(*                                                                         *)
(* Abstracted: the reason, metadata and pid of a LockInfo, which are only  *)
(* logged; the lengths of the back-off and of the jitter, which may end at *)
(* any time; cancellation of the context (the publish command passes       *)
(* context.Background(), which never ends).                                *)
(***************************************************************************)
EXTENDS Integers

CONSTANTS
    Workers,    \* the publishing processes
    Holders,    \* the values of LockInfo.Holder
    HolderOf,   \* the holder string of each worker
    Absent,     \* "holder" of the lock object when there is no such object
    Corrupt,    \* "holder" of a lock object that does not parse
    NoWorker,   \* no worker has the lock object open
    ClockOf,    \* how far each worker's clock is ahead of the slowest one
    MaxSkew,    \* bound on ClockOf
    TTL,        \* LockerOptions.TTL
    Timeout,    \* LockerOptions.Timeout
    MinBeat,    \* the 10 s floor of the heartbeat interval
    PutMode,    \* how the backend implements PutIfNotExist
    Refuses,    \* may the S3 store refuse a conditional put with HTTP 400 or 501?
    InitLocks,  \* the lock objects the workers may find when they start
    Faults,     \* may a storage call fail?
    Crashes,    \* may a worker crash?
    MaxDelay,   \* how long a pending put or a due heartbeat may be delayed
    Horizon     \* bound on the clock

\* A parsed lock object; expires = 0 is the zero time (no expiry).
LockInfo == [holder : Holders, expires : Nat]

Gone    == [holder |-> Absent, expires |-> 0]
Garbage == [holder |-> Corrupt, expires |-> 0]

\* PutIfNotExist is a conditional PUT (S3), an O_EXCL create followed by a
\* write (file, SFTP), or a HEAD followed by a PUT (S3 with legacy locking).  If
\* the store refuses the conditional PUT, S3 falls back on the HEAD and the PUT.
PutModes == {"conditional", "exclusive", "legacy"}

ASSUME WorkerAssumption == NoWorker \notin Workers
ASSUME HolderAssumption ==
    /\ Absent \notin Holders /\ Corrupt \notin Holders /\ Absent # Corrupt
    /\ HolderOf \in [Workers -> Holders]
ASSUME TimeAssumption ==
    /\ TTL \in Nat \ {0} /\ Timeout \in Nat \ {0} /\ MinBeat \in Nat \ {0}
    /\ MaxDelay \in Nat /\ Horizon \in Nat
    /\ MaxSkew \in Nat /\ ClockOf \in [Workers -> 0..MaxSkew]
ASSUME ModeAssumption ==
    PutMode \in PutModes /\ {Refuses, Faults, Crashes} \subseteq BOOLEAN
ASSUME InitLocksAssumption == InitLocks \subseteq LockInfo \cup {Gone, Garbage}

\* Bug: the heartbeat comes once in a TTL, not twice.
IntervalOfTTL == IF TTL > MinBeat THEN TTL ELSE MinBeat

\* max(l.ttl/2, 10*time.Second)
Interval == IF TTL \div 2 > MinBeat THEN TTL \div 2 ELSE MinBeat

VARIABLES
    now,        \* the time that has passed
    lock,       \* the lock object
    openFd,     \* the worker whose open file is the lock object ("exclusive")
    pc,         \* where the worker's main goroutine is
    deadline,   \* Acquire's deadline
    stamp,      \* when the worker made its latest LockInfo
    seen,       \* existingInfo.Holder of the first staleness check
    hb,         \* the worker's heartbeat goroutine
    nextBeat,   \* the earliest tick its ticker has not delivered
    broken      \* history: workers whose lock object another worker deleted

vars == <<now, lock, openFd, pc, deadline, stamp, seen, hb, nextBeat, broken>>

\* What only the main goroutine, only the heartbeat, and only the clock change.
mainVars == <<pc, deadline, seen>>
beatVars == <<hb, nextBeat>>

PCs == {"idle", "top", "put", "write", "head", "headed", "inspect", "backoff",
        "jitter", "break", "held", "relget", "reldel", "done", "failed", "crashed"}

\* From the moment it created the lock object until it starts to release it.
Tenured == {w \in Workers : pc[w] \in {"write", "held"}}

TypeOK ==
    /\ now \in 0..Horizon
    /\ lock \in LockInfo \cup {Gone, Garbage}
    /\ openFd \in Workers \cup {NoWorker}
    /\ pc \in [Workers -> PCs]
    /\ deadline \in [Workers -> Nat]
    /\ stamp \in [Workers -> Nat]
    /\ seen \in [Workers -> Holders \cup {Absent, Corrupt}]
    /\ hb \in [Workers -> {"off", "waiting", "putting"}]
    /\ nextBeat \in [Workers -> Nat]
    /\ broken \subseteq Workers

Init ==
    /\ now = 0
    /\ lock \in InitLocks
    /\ openFd = NoWorker
    /\ pc = [w \in Workers |-> "idle"]
    /\ deadline = [w \in Workers |-> 0]
    /\ stamp = [w \in Workers |-> 0]
    /\ seen = [w \in Workers |-> Absent]
    /\ hb = [w \in Workers |-> "off"]
    /\ nextBeat = [w \in Workers |-> 0]
    /\ broken = {}

-----------------------------------------------------------------------------
\* Steps of the store

\* Bug: the sign of the TTL.
InfoExpired(w) == [holder |-> HolderOf[w], expires |-> stamp[w] + ClockOf[w] - TTL]

\* The LockInfo that w stamped last, by its own clock.
Info(w) == [holder |-> HolderOf[w], expires |-> stamp[w] + ClockOf[w] + TTL]

\* PutBytes replaces the object: temporary file and rename, or PutObject.
Store(info) == lock' = info /\ openFd' = NoWorker

\* Delete by w: the workers that rely on the object lose it.
Remove(w) ==
    /\ lock' = Gone /\ openFd' = NoWorker
    /\ broken' = broken \cup (Tenured \ {w})

\* Bugs: the creation time is taken for the expiry; a corrupt object is not stale.
StaleSinceCreated(w) ==
    \/ lock.holder = Corrupt
    \/ lock.expires # 0 /\ now + ClockOf[w] > lock.expires - TTL

StaleIfParsed(w) ==
    lock.holder # Corrupt /\ lock.expires # 0 /\ now + ClockOf[w] > lock.expires

\* checkStale, by w's clock: an object that does not parse is stale.
Stale(w) == \/ lock.holder = Corrupt
            \/ lock.expires # 0 /\ now + ClockOf[w] > lock.expires

Goto(w, l) == pc' = [pc EXCEPT ![w] = l]

-----------------------------------------------------------------------------
\* Acquire

Start(w) ==
    /\ pc[w] = "idle"
    /\ Goto(w, "top")
    /\ deadline' = [deadline EXCEPT ![w] = now + Timeout]
    /\ UNCHANGED <<now, lock, openFd, stamp, seen, beatVars, broken>>

\* The top of the retry loop: give up, or stamp a LockInfo and try to put it.
GiveUp(w) ==
    /\ pc[w] = "top" /\ now > deadline[w]
    /\ Goto(w, "failed")
    /\ UNCHANGED <<now, lock, openFd, deadline, stamp, seen, beatVars, broken>>

\* Bug: the deadline starts afresh with every attempt.
AttemptAnew(w) ==
    /\ pc[w] = "top" /\ now <= deadline[w]
    /\ Goto(w, "put")
    /\ stamp' = [stamp EXCEPT ![w] = now]
    /\ deadline' = [deadline EXCEPT ![w] = now + Timeout]
    /\ UNCHANGED <<now, lock, openFd, seen, beatVars, broken>>

Attempt(w) ==
    /\ pc[w] = "top" /\ now <= deadline[w]
    /\ Goto(w, "put")
    /\ stamp' = [stamp EXCEPT ![w] = now]
    /\ UNCHANGED <<now, lock, openFd, deadline, seen, beatVars, broken>>

\* Acquire returns nil and the heartbeat goroutine starts its ticker.
Enter(w) ==
    /\ Goto(w, "held")
    /\ hb' = [hb EXCEPT ![w] = "waiting"]
    /\ nextBeat' = [nextBeat EXCEPT ![w] = now + Interval]

\* PutIfNotExist answers ErrAlreadyExists.
PutExists(w) ==
    /\ pc[w] \in {"put", "head"} /\ lock # Gone
    /\ Goto(w, "inspect")
    /\ UNCHANGED <<now, lock, openFd, deadline, stamp, seen, beatVars, broken>>

\* So it does when the S3 client, whose first request created the object but whose
\* answer was lost, repeats the request: the worker waits for its own lock.
PutRepeated(w) ==
    /\ Faults /\ PutMode = "conditional"
    /\ pc[w] = "put" /\ lock = Gone
    /\ Store(Info(w))
    /\ Goto(w, "inspect")
    /\ UNCHANGED <<now, deadline, stamp, seen, beatVars, broken>>

\* S3: a PutObject with If-None-Match: *.
PutConditional(w) ==
    /\ PutMode = "conditional"
    /\ pc[w] = "put" /\ lock = Gone
    /\ Store(Info(w)) /\ Enter(w)
    /\ UNCHANGED <<now, deadline, stamp, seen, broken>>

\* The store answers 400 or 501: PutIfNotExist goes on as with legacy locking.  The
\* answer may be to the repetition of a request that has created the object.
PutRefused(w) ==
    /\ Refuses /\ PutMode = "conditional"
    /\ pc[w] = "put"
    /\ \/ UNCHANGED <<lock, openFd>>
       \/ Faults /\ lock = Gone /\ Store(Info(w))
    /\ Goto(w, "head")
    /\ UNCHANGED <<now, deadline, stamp, seen, beatVars, broken>>

\* Bug: O_TRUNC for O_EXCL.
CreateTruncated(w) ==
    /\ PutMode = "exclusive"
    /\ pc[w] = "put"
    /\ lock' = Garbage /\ openFd' = w
    /\ Goto(w, "write")
    /\ UNCHANGED <<now, deadline, stamp, seen, beatVars, broken>>

\* File and SFTP: O_EXCL creates an empty object, which does not parse ...
CreateExclusive(w) ==
    /\ PutMode = "exclusive"
    /\ pc[w] = "put" /\ lock = Gone
    /\ lock' = Garbage /\ openFd' = w
    /\ Goto(w, "write")
    /\ UNCHANGED <<now, deadline, stamp, seen, beatVars, broken>>

\* ... and the write goes to the file that was created, linked or not.
WriteExclusive(w) ==
    /\ pc[w] = "write"
    /\ IF openFd = w THEN Store(Info(w)) ELSE UNCHANGED <<lock, openFd>>
    /\ Enter(w)
    /\ UNCHANGED <<now, deadline, stamp, seen, broken>>

\* putIfNotExistLegacy: Exists answers false, then PutBytes whatever is there.
HeadLegacy(w) ==
    /\ pc[w] = IF PutMode = "legacy" THEN "put" ELSE "head"
    /\ lock = Gone
    /\ Goto(w, "headed")
    /\ UNCHANGED <<now, lock, openFd, deadline, stamp, seen, beatVars, broken>>

PutLegacy(w) ==
    /\ pc[w] = "headed"
    /\ Store(Info(w)) /\ Enter(w)
    /\ UNCHANGED <<now, deadline, stamp, seen, broken>>

\* The put fails, before or after it took effect, and Acquire returns the
\* error: an object it may have created stays behind.
Landed(w) ==
    \/ lock' = lock
    \/ PutMode = "conditional" /\ pc[w] = "put" /\ lock = Gone /\ lock' = Info(w)
    \/ PutMode = "exclusive" /\ pc[w] = "put" /\ lock = Gone /\ lock' = Garbage
    \/ openFd = w /\ lock' = Info(w)
    \/ pc[w] = "headed" /\ lock' = Info(w)

\* Bug: the error is dropped, and the worker goes to work.
PutFailsUnnoticed(w) ==
    /\ Faults
    /\ pc[w] \in {"put", "write", "head", "headed"}
    /\ Landed(w)
    /\ openFd' = IF openFd = w THEN NoWorker ELSE openFd
    /\ Enter(w)
    /\ UNCHANGED <<now, deadline, stamp, seen, broken>>

PutFails(w) ==
    /\ Faults
    /\ pc[w] \in {"put", "write", "head", "headed"}
    /\ Landed(w)
    /\ openFd' = IF openFd = w THEN NoWorker ELSE openFd
    /\ Goto(w, "failed")
    /\ UNCHANGED <<now, deadline, stamp, seen, beatVars, broken>>

\* The first checkStale; a Get that fails reads as "not stale".
InspectStale(w) ==
    /\ pc[w] = "inspect" /\ Stale(w)
    /\ Goto(w, "jitter")
    /\ seen' = [seen EXCEPT ![w] = lock.holder]
    /\ UNCHANGED <<now, lock, openFd, deadline, stamp, beatVars, broken>>

InspectFresh(w) ==
    /\ pc[w] = "inspect" /\ (Faults \/ ~Stale(w))
    /\ Goto(w, "backoff")
    /\ UNCHANGED <<now, lock, openFd, deadline, stamp, seen, beatVars, broken>>

\* The back-off of 1-2 s, later of 3-5 s, is over.
Wake(w) ==
    /\ pc[w] = "backoff"
    /\ Goto(w, "top")
    /\ UNCHANGED <<now, lock, openFd, deadline, stamp, seen, beatVars, broken>>

\* The second checkStale, after the jitter of 100-500 ms.
StillStale(w) == Stale(w) /\ seen[w] \in {lock.holder, Corrupt}

Recheck(w) ==
    /\ pc[w] = "jitter"
    /\ \/ StillStale(w) /\ Goto(w, "break")
       \/ (Faults \/ ~StillStale(w)) /\ Goto(w, "top")
    /\ seen' = [seen EXCEPT ![w] = Absent]
    /\ UNCHANGED <<now, lock, openFd, deadline, stamp, beatVars, broken>>

\* Delete the lock object, whatever it is by now; an error is ignored.
Break(w) ==
    /\ pc[w] = "break"
    /\ Remove(w)
    /\ Goto(w, "top")
    /\ UNCHANGED <<now, deadline, stamp, seen, beatVars>>

BreakFails(w) ==
    /\ Faults /\ pc[w] = "break"
    /\ Goto(w, "top")
    /\ UNCHANGED <<now, lock, openFd, deadline, stamp, seen, beatVars, broken>>

-----------------------------------------------------------------------------
\* The heartbeat goroutine

\* Where its select leaves it: with no tick pending, a closed heartbeatCh ends
\* it at once; with both ready, Go chooses, here BeatFire or BeatStop.
Selecting(w, open) == IF ~open /\ nextBeat[w] > now THEN "off" ELSE "waiting"

\* A tick is received and a LockInfo made.  The ticker keeps its schedule and
\* drops the ticks nobody received in time, but for one.
BeatFire(w) ==
    /\ hb[w] = "waiting" /\ nextBeat[w] <= now
    /\ hb' = [hb EXCEPT ![w] = "putting"]
    /\ stamp' = [stamp EXCEPT ![w] = now]
    /\ \E next \in now + 1 .. now + Interval :
          /\ (next - nextBeat[w]) % Interval = 0
          /\ nextBeat' = [nextBeat EXCEPT ![w] = next]
    /\ UNCHANGED <<now, lock, openFd, mainVars, broken>>

\* Bug: the heartbeat adds a TTL to the expiry it finds.
BeatExtends(w) ==
    /\ hb[w] = "putting"
    /\ Store([Info(w) EXCEPT !.expires = @ + lock.expires - now])
    /\ hb' = [hb EXCEPT ![w] = Selecting(w, pc[w] = "held")]
    /\ UNCHANGED <<now, mainVars, stamp, nextBeat, broken>>

\* PutBytes of it, without looking at what is there.
BeatPut(w) ==
    /\ hb[w] = "putting"
    /\ Store(Info(w))
    /\ hb' = [hb EXCEPT ![w] = Selecting(w, pc[w] = "held")]
    /\ UNCHANGED <<now, mainVars, stamp, nextBeat, broken>>

\* The put fails; the error is ignored.
BeatFails(w) ==
    /\ Faults /\ hb[w] = "putting"
    /\ hb' = [hb EXCEPT ![w] = Selecting(w, pc[w] = "held")]
    /\ UNCHANGED <<now, lock, openFd, mainVars, stamp, nextBeat, broken>>

BeatStop(w) ==
    /\ hb[w] = "waiting" /\ pc[w] # "held"
    /\ hb' = [hb EXCEPT ![w] = "off"]
    /\ UNCHANGED <<now, lock, openFd, mainVars, stamp, nextBeat, broken>>

-----------------------------------------------------------------------------
\* Release, and the ends of the process

\* The work is done, or failed: close(heartbeatCh).
StartRelease(w) ==
    /\ pc[w] = "held"
    /\ Goto(w, "relget")
    /\ hb' = [hb EXCEPT ![w] = IF hb[w] = "waiting" THEN Selecting(w, FALSE)
                                                    ELSE hb[w]]
    /\ UNCHANGED <<now, lock, openFd, deadline, stamp, seen, nextBeat, broken>>

\* Somebody else's lock is left alone; one that cannot be read or parsed is not.
ReleaseGet(w) ==
    /\ pc[w] = "relget"
    /\ IF lock.holder \in {HolderOf[w], Corrupt} THEN Goto(w, "reldel")
       ELSE \/ Goto(w, "done")
            \/ Faults /\ Goto(w, "reldel")
    /\ UNCHANGED <<now, lock, openFd, deadline, stamp, seen, beatVars, broken>>

ReleaseDelete(w) ==
    /\ pc[w] = "reldel"
    /\ \/ Remove(w)
       \/ Faults /\ UNCHANGED <<lock, openFd, broken>>
    /\ Goto(w, "done")
    /\ UNCHANGED <<now, deadline, stamp, seen, beatVars>>

\* main returns: the heartbeat goroutine, if it still runs, dies with it.
Exit(w) ==
    /\ pc[w] = "done" /\ hb[w] # "off"
    /\ hb' = [hb EXCEPT ![w] = "off"]
    /\ UNCHANGED <<now, lock, openFd, mainVars, stamp, nextBeat, broken>>

\* The process is killed.  A put under way then either took effect before, or
\* never does.
Crash(w) ==
    /\ Crashes
    /\ pc[w] \notin {"idle", "done", "failed", "crashed"}
    /\ Goto(w, "crashed")
    /\ hb' = [hb EXCEPT ![w] = "off"]
    /\ openFd' = IF openFd = w THEN NoWorker ELSE openFd
    /\ UNCHANGED <<now, lock, deadline, stamp, seen, nextBeat, broken>>

-----------------------------------------------------------------------------
\* Time passes unless something has been delayed for as long as it can be.
Overdue(w) ==
    \/ pc[w] \in {"put", "write", "head", "headed"} /\ now >= stamp[w] + MaxDelay
    \/ hb[w] = "waiting" /\ now >= nextBeat[w] + MaxDelay
    \/ hb[w] = "putting" /\ now >= stamp[w] + MaxDelay

Tick ==
    /\ now < Horizon
    /\ \A w \in Workers : ~Overdue(w)
    /\ now' = now + 1
    /\ UNCHANGED <<lock, openFd, mainVars, stamp, beatVars, broken>>

Acquiring(w) ==
    \/ GiveUp(w) \/ Attempt(w)
    \/ PutExists(w) \/ PutRepeated(w) \/ PutConditional(w) \/ PutRefused(w)
    \/ CreateExclusive(w) \/ WriteExclusive(w)
    \/ HeadLegacy(w) \/ PutLegacy(w) \/ PutFails(w)
    \/ InspectStale(w) \/ InspectFresh(w) \/ Wake(w)
    \/ Recheck(w) \/ Break(w) \/ BreakFails(w)

Beating(w) == BeatFire(w) \/ BeatPut(w) \/ BeatFails(w) \/ BeatStop(w)

Releasing(w) == StartRelease(w) \/ ReleaseGet(w) \/ ReleaseDelete(w) \/ Exit(w)

Next ==
    \/ Tick
    \/ \E w \in Workers :
          Start(w) \/ Acquiring(w) \/ Beating(w) \/ Releasing(w) \/ Crash(w)

Spec == Init /\ [][Next]_vars

-----------------------------------------------------------------------------
\* Fairness: goroutines are scheduled, storage calls return, time passes.  A
\* worker need not start, and need not crash.
Fairness ==
    /\ WF_vars(Tick)
    /\ \A w \in Workers :
          /\ WF_vars(Acquiring(w))
          /\ WF_vars(Beating(w))
          /\ WF_vars(Releasing(w))

-----------------------------------------------------------------------------
\* What the lock promises

\* PutIfNotExist is the one request, or the one system call, that storage.go promises;
\* it is not where S3 looks before it puts, by choice or because the store refuses.
AtomicPut == PutMode = "exclusive" \/ (PutMode = "conditional" /\ ~Refuses)

\* While two workers are past Acquire and before Release, one of them has had
\* its lock object deleted by another worker: PutIfNotExist itself never lets
\* two workers in, and neither do heartbeats, crashes or lost answers.  The code
\* provides it if AtomicPut.
ExclusionUntilDeleted == \A v, w \in Tenured \ broken : v = w

\* The worker whose lock object nobody has deleted.
Owner == IF Tenured \subseteq broken THEN NoWorker
         ELSE CHOOSE w \in Workers : w \in Tenured \ broken

\* The lock object implements a lock that can be taken away: a put that succeeds
\* grants it only while nobody owns it, and only deletes revoke it.
Revocable == INSTANCE RevocableLock WITH owner <- Owner, inside <- Tenured

ImplementsRevocableLock == Revocable!Spec

\* At most one worker changes the repository at any time.
MutualExclusion ==
    \A v, w \in Workers : pc[v] = "held" /\ pc[w] = "held" => v = w

\* Storage calls succeed, and a LockInfo is written again before it expires even
\* if the put that acquires the lock, the goroutine of the next heartbeat and
\* its put, and a late heartbeat of a previous holder, are all delayed.
Timely == ~Faults /\ Interval + 4 * MaxDelay + MaxSkew <= TTL

\* No worker's checkStale can take the lock of a working holder for stale: each
\* heartbeat lands before the LockInfo it replaces expires by any clock.
HolderNeverStale ==
    \A w \in Workers \ broken : pc[w] = "held" => \A v \in Workers : ~Stale(v)

\* A lock object that nobody refreshes any more, be it left by a crash, by a lost
\* answer or by a late heartbeat, expires at most TTL from now.
NeverLockedForLong ==
    lock.holder \in {HolderOf[w] : w \in Workers} =>
        /\ lock.expires # 0
        /\ lock.expires <= now + MaxSkew + TTL

\* Acquire returns, with or without the lock.
AcquireReturns ==
    \A w \in Workers : pc[w] = "top" ~> pc[w] \in {"held", "failed", "crashed"}

\* Acquire obtains the lock if it has the time, whoever crashed or wrote garbage
\* before it.
WaiterServed ==
    \A w \in Workers : pc[w] = "top" ~> pc[w] \in {"held", "crashed"}
=============================================================================
