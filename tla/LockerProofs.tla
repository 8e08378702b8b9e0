---------------------------- MODULE LockerProofs ----------------------------
(***************************************************************************)
(* Theorems about Locker, for any number of workers, any durations, any    *)
(* backend and any lock object found at the start.                         *)
(***************************************************************************)
EXTENDS Locker, TLAPS

\* The heartbeat interval is a positive number of seconds.
LEMMA IntervalType == Interval \in Nat \ {0}
BY TimeAssumption DEF Interval

\* A LockInfo made by a worker is a well-formed lock object that has an expiry.
LEMMA InfoType ==
    ASSUME TypeOK, NEW w \in Workers
    PROVE  Info(w) \in LockInfo /\ Info(w) # Gone /\ Info(w).expires # 0
<1>1. stamp[w] \in Nat /\ ClockOf[w] \in Nat /\ TTL \in Nat \ {0}
  BY TimeAssumption DEF TypeOK
<1>2. HolderOf[w] \in Holders
  BY HolderAssumption
<1>. QED
  BY <1>1, <1>2, HolderAssumption DEF Info, LockInfo, Gone

-----------------------------------------------------------------------------
\* Every variable keeps its type.
THEOREM TypeCorrect == Spec => []TypeOK
<1>. USE TimeAssumption, HolderAssumption, WorkerAssumption
<1>1. Init => TypeOK
  BY InitLocksAssumption DEF Init, TypeOK, PCs
<1>2. TypeOK /\ [Next]_vars => TypeOK'
  <2>. SUFFICES ASSUME TypeOK, [Next]_vars PROVE TypeOK'
    OBVIOUS
  <2>1. CASE Tick
    BY <2>1 DEF Tick, TypeOK, mainVars, beatVars
  <2>2. ASSUME NEW w \in Workers, Start(w) \/ Acquiring(w) PROVE TypeOK'
    <3>. USE DEF TypeOK, PCs, Goto, beatVars
    <3>a. Info(w) \in LockInfo
      BY InfoType
    <3>b. now + Interval \in Nat
      BY IntervalType
    <3>1. CASE Start(w)
      BY <3>1 DEF Start
    <3>2. CASE GiveUp(w)
      BY <3>2 DEF GiveUp
    <3>3. CASE Attempt(w)
      BY <3>3 DEF Attempt
    <3>4. CASE PutExists(w)
      BY <3>4 DEF PutExists
    <3>5. CASE PutConditional(w)
      BY <3>5, <3>a, <3>b DEF PutConditional, Store, Enter
    <3>6. CASE CreateExclusive(w)
      BY <3>6 DEF CreateExclusive
    <3>7. CASE WriteExclusive(w)
      BY <3>7, <3>a, <3>b DEF WriteExclusive, Store, Enter
    <3>8. CASE HeadLegacy(w)
      BY <3>8 DEF HeadLegacy
    <3>9. CASE PutLegacy(w)
      BY <3>9, <3>a, <3>b DEF PutLegacy, Store, Enter
    <3>10. CASE PutFails(w)
      BY <3>10, <3>a DEF PutFails, Landed
    <3>11. CASE InspectStale(w)
      <4>1. lock.holder \in Holders \cup {Absent, Corrupt}
        BY DEF LockInfo, Gone, Garbage
      <4>. QED
        BY <3>11, <4>1 DEF InspectStale
    <3>12. CASE InspectFresh(w)
      BY <3>12 DEF InspectFresh
    <3>13. CASE Wake(w)
      BY <3>13 DEF Wake
    <3>14. CASE Recheck(w)
      BY <3>14 DEF Recheck
    <3>15. CASE Break(w)
      BY <3>15 DEF Break, Remove, Tenured
    <3>16. CASE BreakFails(w)
      BY <3>16 DEF BreakFails
    <3>17. CASE PutRepeated(w)
      BY <3>17, <3>a DEF PutRepeated, Store
    <3>18. CASE PutRefused(w)
      BY <3>18, <3>a DEF PutRefused, Store
    <3>. QED
      BY <2>2, <3>1, <3>2, <3>3, <3>4, <3>5, <3>6, <3>7, <3>8, <3>9, <3>10,
         <3>11, <3>12, <3>13, <3>14, <3>15, <3>16, <3>17, <3>18 DEF Acquiring
  <2>3. ASSUME NEW w \in Workers, Beating(w) PROVE TypeOK'
    <3>. USE DEF TypeOK, mainVars, Selecting
    <3>a. Info(w) \in LockInfo
      BY InfoType
    <3>1. CASE BeatFire(w)
      BY <3>1, IntervalType DEF BeatFire
    <3>2. CASE BeatPut(w)
      BY <3>2, <3>a DEF BeatPut, Store
    <3>3. CASE BeatFails(w)
      BY <3>3 DEF BeatFails
    <3>4. CASE BeatStop(w)
      BY <3>4 DEF BeatStop
    <3>. QED
      BY <2>3, <3>1, <3>2, <3>3, <3>4 DEF Beating
  <2>4. ASSUME NEW w \in Workers, Releasing(w) \/ Crash(w) PROVE TypeOK'
    <3>. USE DEF TypeOK, PCs, Goto, mainVars, beatVars, Selecting
    <3>1. CASE StartRelease(w)
      BY <3>1 DEF StartRelease
    <3>2. CASE ReleaseGet(w)
      BY <3>2 DEF ReleaseGet
    <3>3. CASE ReleaseDelete(w)
      BY <3>3 DEF ReleaseDelete, Remove, Tenured
    <3>4. CASE Exit(w)
      BY <3>4 DEF Exit
    <3>5. CASE Crash(w)
      BY <3>5 DEF Crash
    <3>. QED
      BY <2>4, <3>1, <3>2, <3>3, <3>4, <3>5 DEF Releasing
  <2>5. CASE UNCHANGED vars
    BY <2>5 DEF vars, TypeOK
  <2>. QED
    BY <2>1, <2>2, <2>3, <2>4, <2>5 DEF Next
<1>. QED
  BY <1>1, <1>2, PTL DEF Spec

-----------------------------------------------------------------------------
(***************************************************************************)
(* Exclusion.  It is inductive once it says why a put cannot let a second  *)
(* worker in: while somebody's lock object has not been deleted there is a *)
(* lock object, so that PutIfNotExist refuses.                             *)
(***************************************************************************)
ExclusionInv ==
    /\ ExclusionUntilDeleted
    /\ Tenured \subseteq broken \/ lock # Gone

\* Only where PutIfNotExist is not atomic is a worker about to look, or between the
\* look and the put.
NobodyLooks == \A w \in Workers : pc[w] \notin {"head", "headed"}

\* A step after which no worker is newly tenured, nobody is forgotten to have
\* lost its lock object, and the object is still there if it was.
LEMMA ExclusionKept ==
    ASSUME ExclusionInv,
           Tenured' \subseteq Tenured,
           broken' = broken,
           lock # Gone => lock' # Gone
    PROVE  ExclusionInv'
BY DEF ExclusionInv, ExclusionUntilDeleted

\* A put that finds no lock object: the worker is the only one that has any.
LEMMA ExclusionGained ==
    ASSUME ExclusionInv, NEW w \in Workers,
           lock = Gone, lock' # Gone,
           Tenured' \subseteq Tenured \cup {w},
           broken' = broken
    PROVE  ExclusionInv'
BY DEF ExclusionInv, ExclusionUntilDeleted

\* A delete: nobody has a lock object that was not deleted.
LEMMA ExclusionLost ==
    ASSUME NEW w \in Workers, w \notin Tenured, Tenured' \subseteq Tenured,
           Remove(w)
    PROVE  ExclusionInv'
BY DEF ExclusionInv, ExclusionUntilDeleted, Remove

\* Where PutIfNotExist is atomic, the inductive invariant holds.
LEMMA ExclusionInvariant ==
    ASSUME AtomicPut
    PROVE  Spec => [](ExclusionInv /\ NobodyLooks)
<1>. DEFINE IInv == ExclusionInv /\ NobodyLooks
<1>1. Init => IInv
  BY DEF Init, ExclusionInv, ExclusionUntilDeleted, NobodyLooks, Tenured
<1>2. TypeOK /\ IInv /\ [Next]_vars => IInv'
  <2>. SUFFICES ASSUME TypeOK, IInv, [Next]_vars PROVE IInv'
    OBVIOUS
  <2>1. CASE Tick
    <3>1. Tenured' = Tenured
      BY <2>1 DEF Tick, mainVars, Tenured
    <3>. QED
      BY <2>1, <3>1, ExclusionKept DEF Tick, mainVars, NobodyLooks
  <2>2. ASSUME NEW w \in Workers, Start(w) \/ Acquiring(w) PROVE IInv'
    <3>. USE DEF Goto, TypeOK
    <3>a. Info(w) # Gone /\ Garbage # Gone
      BY InfoType, HolderAssumption DEF Gone, Garbage
    <3>b. ~PutRefused(w) /\ ~HeadLegacy(w) /\ ~PutLegacy(w)
      BY DEF NobodyLooks, AtomicPut, PutRefused, HeadLegacy, PutLegacy
    <3>c. NobodyLooks'
      BY <2>2, <3>b DEF NobodyLooks, Acquiring, Start, GiveUp, Attempt, PutExists,
         PutRepeated, PutConditional, CreateExclusive, WriteExclusive, PutFails,
         InspectStale, InspectFresh, Wake, Recheck, Break, BreakFails, Enter
    <3>1. CASE Start(w) \/ GiveUp(w) \/ Attempt(w) \/ PutExists(w)
      <4>1. Tenured' = Tenured /\ UNCHANGED <<lock, broken>>
        BY <3>1 DEF Tenured, Start, GiveUp, Attempt, PutExists
      <4>. QED
        BY <3>c, <4>1, ExclusionKept
    <3>2. CASE PutConditional(w) \/ CreateExclusive(w)
      <4>1. /\ lock = Gone /\ lock' # Gone /\ broken' = broken
            /\ Tenured' \subseteq Tenured \cup {w}
        BY <3>2, <3>a DEF Tenured, PutConditional, CreateExclusive, Store, Enter
      <4>. QED
        BY <3>c, <4>1, ExclusionGained
    <3>3. CASE WriteExclusive(w)
      <4>1. Tenured' = Tenured /\ broken' = broken
        BY <3>3 DEF Tenured, WriteExclusive, Enter
      <4>2. lock # Gone => lock' # Gone
        BY <3>3, <3>a DEF WriteExclusive, Store
      <4>. QED
        BY <3>c, <4>1, <4>2, ExclusionKept
    <3>5. CASE PutFails(w)
      <4>1. Tenured' \subseteq Tenured /\ broken' = broken
        BY <3>5 DEF Tenured, PutFails
      <4>2. lock # Gone => lock' # Gone
        BY <3>5, <3>a DEF PutFails, Landed
      <4>. QED
        BY <3>c, <4>1, <4>2, ExclusionKept
    <3>6. CASE InspectStale(w) \/ InspectFresh(w) \/ Wake(w) \/ Recheck(w)
               \/ BreakFails(w)
      <4>1. Tenured' = Tenured /\ UNCHANGED <<lock, broken>>
        BY <3>6 DEF Tenured, InspectStale, InspectFresh, Wake, Recheck, BreakFails
      <4>. QED
        BY <3>c, <4>1, ExclusionKept
    <3>7. CASE Break(w)
      <4>1. w \notin Tenured /\ Tenured' = Tenured
        BY <3>7 DEF Tenured, Break
      <4>. QED
        BY <3>7, <3>c, <4>1, ExclusionLost DEF Break
    <3>8. CASE PutRepeated(w)
      <4>1. Tenured' = Tenured /\ broken' = broken /\ lock' # Gone
        BY <3>8, <3>a DEF Tenured, PutRepeated, Store
      <4>. QED
        BY <3>c, <4>1, ExclusionKept
    <3>. QED
      BY <2>2, <3>b, <3>1, <3>2, <3>3, <3>5, <3>6, <3>7, <3>8 DEF Acquiring
  <2>3. ASSUME NEW w \in Workers, Beating(w) PROVE IInv'
    <3>1. UNCHANGED <<pc, broken>> /\ Tenured' = Tenured
      BY <2>3 DEF Beating, BeatFire, BeatPut, BeatFails, BeatStop, mainVars, Tenured
    <3>2. lock # Gone => lock' # Gone
      BY <2>3, InfoType DEF Beating, BeatFire, BeatPut, BeatFails, BeatStop, Store
    <3>. QED
      BY <3>1, <3>2, ExclusionKept DEF NobodyLooks
  <2>4. ASSUME NEW w \in Workers, Releasing(w) \/ Crash(w) PROVE IInv'
    <3>. USE DEF Goto, TypeOK
    <3>a. NobodyLooks'
      BY <2>4 DEF NobodyLooks, Releasing, StartRelease, ReleaseGet, ReleaseDelete, Exit,
         Crash, mainVars
    <3>1. CASE StartRelease(w) \/ ReleaseGet(w) \/ Exit(w) \/ Crash(w)
      <4>1. Tenured' \subseteq Tenured /\ UNCHANGED <<lock, broken>>
        BY <3>1 DEF Tenured, StartRelease, ReleaseGet, Exit, Crash, mainVars
      <4>. QED
        BY <3>a, <4>1, ExclusionKept
    <3>2. CASE ReleaseDelete(w)
      <4>1. w \notin Tenured /\ Tenured' = Tenured
        BY <3>2 DEF Tenured, ReleaseDelete
      <4>2. CASE Remove(w)
        BY <3>a, <4>1, <4>2, ExclusionLost
      <4>3. CASE UNCHANGED <<lock, openFd, broken>>
        BY <3>a, <4>1, <4>3, ExclusionKept
      <4>. QED
        BY <3>2, <4>2, <4>3 DEF ReleaseDelete
    <3>. QED
      BY <2>4, <3>1, <3>2 DEF Releasing
  <2>5. CASE UNCHANGED vars
    BY <2>5 DEF vars, ExclusionInv, ExclusionUntilDeleted, Tenured, NobodyLooks
  <2>. QED
    BY <2>1, <2>2, <2>3, <2>4, <2>5 DEF Next
<1>. QED
  BY TypeCorrect, <1>1, <1>2, PTL DEF Spec

\* Where PutIfNotExist is one request or system call, and the store does not refuse it,
\* two workers are inside only if the lock object of one of them was deleted by another.
THEOREM ExclusionTheorem ==
    ASSUME AtomicPut
    PROVE  Spec => []ExclusionUntilDeleted
<1>1. ExclusionInv => ExclusionUntilDeleted
  BY DEF ExclusionInv
<1>. QED
  BY ExclusionInvariant, <1>1, PTL

-----------------------------------------------------------------------------
(***************************************************************************)
(* Freshness.  TimeInv bounds how late a put or a heartbeat can be; it is  *)
(* what the guard of Tick gives.  FreshInv then says until when the lock   *)
(* object is needed and that it is valid until then.                       *)
(***************************************************************************)
Putting(w) == stamp[w] <= now /\ now <= stamp[w] + MaxDelay

TimeInvOf(w) ==
    /\ pc[w] \in {"put", "write", "head", "headed"} => Putting(w)
    /\ hb[w] = "waiting" => /\ now <= nextBeat[w] + MaxDelay
                            /\ nextBeat[w] <= now + Interval
    /\ hb[w] = "putting" => /\ Putting(w)
                            /\ stamp[w] < nextBeat[w]
                            /\ nextBeat[w] <= stamp[w] + Interval
    /\ pc[w] \notin {"held", "relget", "reldel", "done"} => hb[w] = "off"
    /\ pc[w] = "held" => hb[w] # "off"

TimeInv == \A w \in Workers : TimeInvOf(w)

ValidUntil(t) == lock.holder \in Holders /\ t + MaxSkew <= lock.expires

FreshInvOf(w) ==
    /\ pc[w] = "write" =>
          openFd = w \/ ValidUntil(stamp[w] + Interval + 3 * MaxDelay)
    /\ pc[w] = "held" =>
          /\ hb[w] = "waiting" => ValidUntil(nextBeat[w] + 2 * MaxDelay)
          /\ hb[w] = "putting" => ValidUntil(stamp[w] + MaxDelay)

FreshInv ==
    /\ openFd # NoWorker => lock = Garbage
    /\ \A w \in Workers \ broken : FreshInvOf(w)

\* A step of w leaves alone what TimeInv says of the other workers.
LEMMA TimeOfOthers ==
    ASSUME TypeOK, TimeInv, NEW w \in Workers, now' = now,
           \A v \in Workers \ {w} :
              /\ pc'[v] = pc[v] /\ stamp'[v] = stamp[v]
              /\ hb'[v] = hb[v] /\ nextBeat'[v] = nextBeat[v],
           TimeInvOf(w)'
    PROVE  TimeInv'
BY DEF TimeInv, TimeInvOf, Putting

\* No put and no heartbeat is ever more than MaxDelay late.
LEMMA TimeInvariant == Spec => []TimeInv
<1>. USE TimeAssumption, IntervalType
<1>1. Init => TimeInv
  BY DEF Init, TimeInv, TimeInvOf, Putting
<1>2. TypeOK /\ TimeInv /\ [Next]_vars => TimeInv'
  <2>. SUFFICES ASSUME TypeOK, TimeInv, [Next]_vars PROVE TimeInv'
    OBVIOUS
  <2>1. CASE Tick
    <3>. SUFFICES ASSUME NEW w \in Workers PROVE TimeInvOf(w)'
      BY DEF TimeInv
    <3>1. TimeInvOf(w) /\ ~Overdue(w)
      BY <2>1 DEF TimeInv, Tick
    <3>2. /\ now \in Nat /\ now' = now + 1
          /\ stamp[w] \in Nat /\ nextBeat[w] \in Nat
          /\ UNCHANGED <<pc, stamp, hb, nextBeat>>
      BY <2>1 DEF Tick, TypeOK, mainVars, beatVars
    <3>. QED
      BY <3>1, <3>2 DEF TimeInvOf, Putting, Overdue
  <2>2. ASSUME NEW w \in Workers, Start(w) \/ Acquiring(w) PROVE TimeInv'
    <3>1. TimeInvOf(w)
      BY DEF TimeInv
    <3>2. now \in Nat /\ stamp[w] \in Nat /\ nextBeat[w] \in Nat
      BY DEF TypeOK
    <3>. USE DEF Goto, TypeOK
    <3>3. /\ now' = now
          /\ \A v \in Workers \ {w} :
                /\ pc'[v] = pc[v] /\ stamp'[v] = stamp[v]
                /\ hb'[v] = hb[v] /\ nextBeat'[v] = nextBeat[v]
      BY <2>2 DEF Acquiring, Start, GiveUp, Attempt, PutExists, PutRepeated,
         PutConditional, PutRefused, CreateExclusive, WriteExclusive, HeadLegacy,
         PutLegacy, PutFails, InspectStale, InspectFresh, Wake, Recheck, Break,
         BreakFails, Enter, beatVars
    <3>4. CASE Enter(w)
      <4>1. pc'[w] = "held" /\ hb'[w] = "waiting" /\ nextBeat'[w] = now + Interval
        BY <3>4 DEF Enter
      <4>. QED
        BY <3>2, <3>3, <4>1, TimeOfOthers DEF TimeInvOf, Putting
    <3>5. CASE Attempt(w)
      <4>1. pc'[w] = "put" /\ stamp'[w] = now /\ hb'[w] = "off"
        BY <3>1, <3>5 DEF Attempt, TimeInvOf, beatVars
      <4>. QED
        BY <3>2, <3>3, <4>1, TimeOfOthers DEF TimeInvOf, Putting
    <3>6. CASE CreateExclusive(w) \/ PutRefused(w) \/ HeadLegacy(w)
      <4>1. /\ pc[w] \in {"put", "head"} /\ pc'[w] \in {"write", "head", "headed"}
            /\ UNCHANGED <<stamp, hb>>
        BY <3>6 DEF CreateExclusive, PutRefused, HeadLegacy, beatVars
      <4>. QED
        BY <3>1, <3>2, <3>3, <4>1, TimeOfOthers DEF TimeInvOf, Putting
    <3>7. CASE ~(\/ Enter(w) \/ Attempt(w) \/ CreateExclusive(w) \/ PutRefused(w)
                 \/ HeadLegacy(w))
      <4>1. /\ pc[w] \notin {"held", "relget", "reldel", "done"}
            /\ pc'[w] \notin {"put", "write", "head", "headed", "held"}
            /\ hb' = hb
        BY <2>2, <3>7 DEF Acquiring, Start, GiveUp, PutExists, PutRepeated, PutConditional,
           WriteExclusive, PutLegacy, PutFails, InspectStale,
           InspectFresh, Wake, Recheck, Break, BreakFails, beatVars
      <4>. QED
        BY <3>1, <3>3, <4>1, TimeOfOthers DEF TimeInvOf
    <3>. QED
      BY <3>4, <3>5, <3>6, <3>7
  <2>3. ASSUME NEW w \in Workers, Beating(w) PROVE TimeInv'
    <3>1. TimeInvOf(w)
      BY DEF TimeInv
    <3>2. now \in Nat /\ stamp[w] \in Nat /\ nextBeat[w] \in Nat
      BY DEF TypeOK
    <3>3. /\ now' = now /\ pc' = pc
          /\ \A v \in Workers \ {w} :
                /\ stamp'[v] = stamp[v]
                /\ hb'[v] = hb[v] /\ nextBeat'[v] = nextBeat[v]
      BY <2>3 DEF Beating, BeatFire, BeatPut, BeatFails, BeatStop, mainVars, TypeOK
    <3>4. CASE BeatFire(w)
      <4>1. /\ hb[w] = "waiting" /\ hb'[w] = "putting" /\ stamp'[w] = now
            /\ nextBeat'[w] \in now + 1 .. now + Interval
        BY <3>4 DEF BeatFire, TypeOK
      <4>. QED
        BY <3>1, <3>2, <3>3, <4>1, TimeOfOthers DEF TimeInvOf, Putting
    <3>5. CASE BeatPut(w) \/ BeatFails(w)
      <4>1. /\ hb[w] = "putting" /\ UNCHANGED <<stamp, nextBeat>>
            /\ hb'[w] \in {"off", "waiting"} /\ (pc[w] = "held" => hb'[w] = "waiting")
        BY <3>5 DEF BeatPut, BeatFails, Selecting, TypeOK
      <4>. QED
        BY <3>1, <3>2, <3>3, <4>1, TimeOfOthers DEF TimeInvOf, Putting
    <3>6. CASE BeatStop(w)
      <4>1. hb'[w] = "off" /\ pc[w] # "held" /\ UNCHANGED <<stamp, nextBeat>>
        BY <3>6 DEF BeatStop, TypeOK
      <4>. QED
        BY <3>1, <3>3, <4>1, TimeOfOthers DEF TimeInvOf, Putting
    <3>. QED
      BY <2>3, <3>4, <3>5, <3>6 DEF Beating
  <2>4. ASSUME NEW w \in Workers, Releasing(w) \/ Crash(w) PROVE TimeInv'
    <3>. USE DEF Goto, TypeOK
    <3>1. TimeInvOf(w)
      BY DEF TimeInv
    <3>2. now \in Nat /\ stamp[w] \in Nat /\ nextBeat[w] \in Nat
      BY DEF TypeOK
    <3>3. /\ now' = now /\ UNCHANGED <<stamp, nextBeat>>
          /\ \A v \in Workers \ {w} : pc'[v] = pc[v] /\ hb'[v] = hb[v]
      BY <2>4 DEF Releasing, StartRelease, ReleaseGet, ReleaseDelete, Exit, Crash,
         mainVars, beatVars
    <3>4. /\ pc'[w] \in {"relget", "reldel", "done", "crashed"}
          /\ pc'[w] = "crashed" => hb'[w] = "off"
          /\ hb'[w] \in {"off", hb[w]}
      BY <2>4 DEF Releasing, StartRelease, ReleaseGet, ReleaseDelete, Exit, Crash,
         mainVars, beatVars, Selecting
    <3>. QED
      BY <3>1, <3>2, <3>3, <3>4, TimeOfOthers DEF TimeInvOf, Putting
  <2>5. CASE UNCHANGED vars
    BY <2>5 DEF vars, TimeInv, TimeInvOf, Putting
  <2>. QED
    BY <2>1, <2>2, <2>3, <2>4, <2>5 DEF Next
<1>. QED
  BY TypeCorrect, <1>1, <1>2, PTL DEF Spec

\* A LockInfo that lands in time is valid for as long as anybody needs it,
\* whoever wrote it.
LEMMA FreshWritten ==
    ASSUME TypeOK, TypeOK', TimeInv', Timely, now' = now,
           NEW w \in Workers, Putting(w), Store(Info(w))
    PROVE  FreshInv'
<1>. USE TimeAssumption, IntervalType, HolderAssumption
<1>1. lock'.holder \in Holders /\ openFd' = NoWorker
  BY DEF Info, Store
<1>2. now' + Interval + 3 * MaxDelay + MaxSkew <= lock'.expires
  <2>1. /\ now \in Nat /\ stamp[w] \in Nat /\ ClockOf[w] \in Nat
        /\ now <= stamp[w] + MaxDelay
    BY DEF TypeOK, Putting
  <2>2. lock'.expires = stamp[w] + ClockOf[w] + TTL
    BY DEF Info, Store
  <2>. QED
    BY <2>1, <2>2 DEF Timely
<1>. SUFFICES ASSUME NEW v \in Workers PROVE FreshInvOf(v)'
  BY <1>1 DEF FreshInv
<1>3. TimeInvOf(v)'
  BY DEF TimeInv
<1>4. /\ now' \in Nat /\ stamp'[v] \in Nat /\ nextBeat'[v] \in Nat
      /\ lock'.expires \in Nat
  BY DEF TypeOK, LockInfo, Gone, Garbage
<1>. QED
  BY <1>1, <1>2, <1>3, <1>4 DEF FreshInvOf, ValidUntil, TimeInvOf, Putting

\* A step of w that leaves the lock object alone.
LEMMA FreshKept ==
    ASSUME FreshInv, NEW w \in Workers, UNCHANGED <<lock, broken>>,
           openFd' # openFd => openFd = w /\ openFd' = NoWorker,
           \A v \in Workers \ {w} :
              /\ pc'[v] = pc[v] /\ stamp'[v] = stamp[v]
              /\ hb'[v] = hb[v] /\ nextBeat'[v] = nextBeat[v],
           w \in broken \/ FreshInvOf(w)'
    PROVE  FreshInv'
BY DEF FreshInv, FreshInvOf, ValidUntil

\* After a delete nobody has a lock object to keep fresh.
LEMMA FreshDeleted ==
    ASSUME NEW w \in Workers, pc[w] \notin {"write", "held"}, Remove(w),
           \A v \in Workers \ {w} : pc'[v] = pc[v],
           pc'[w] \notin {"write", "held"}
    PROVE  FreshInv'
BY DEF FreshInv, FreshInvOf, Remove, Tenured

\* If storage calls are quick enough for the TTL, no worker ever takes the lock
\* of a worker that is alive and working for stale.
THEOREM FreshnessTheorem ==
    ASSUME Timely
    PROVE  Spec => []HolderNeverStale
<1>. USE TimeAssumption, IntervalType, HolderAssumption
<1>1. Init => FreshInv
  BY DEF Init, FreshInv, FreshInvOf
<1>2. TypeOK /\ TypeOK' /\ TimeInv /\ TimeInv' /\ FreshInv /\ [Next]_vars => FreshInv'
  <2>. SUFFICES ASSUME TypeOK, TypeOK', TimeInv, TimeInv', FreshInv, [Next]_vars
                PROVE  FreshInv'
    OBVIOUS
  <2>1. CASE Tick
    BY <2>1 DEF Tick, mainVars, beatVars, FreshInv, FreshInvOf, ValidUntil
  <2>2. ASSUME NEW w \in Workers, Start(w) \/ Acquiring(w) PROVE FreshInv'
    <3>1. TimeInvOf(w) /\ ~Faults
      BY DEF TimeInv, Timely
    <3>2. now \in Nat /\ stamp[w] \in Nat /\ nextBeat[w] \in Nat
      BY DEF TypeOK
    <3>. USE DEF Goto, TypeOK
    <3>3. /\ now' = now
          /\ \A v \in Workers \ {w} :
                /\ pc'[v] = pc[v] /\ stamp'[v] = stamp[v]
                /\ hb'[v] = hb[v] /\ nextBeat'[v] = nextBeat[v]
      BY <2>2 DEF Acquiring, Start, GiveUp, Attempt, PutExists, PutRepeated,
         PutConditional, PutRefused, CreateExclusive, WriteExclusive, HeadLegacy,
         PutLegacy, PutFails, InspectStale, InspectFresh, Wake, Recheck, Break,
         BreakFails, Enter, beatVars
    <3>4. CASE Store(Info(w)) /\ Enter(w)
      <4>1. Putting(w)
        BY <2>2, <3>1, <3>4 DEF TimeInvOf, Acquiring, Start, GiveUp, Attempt, PutExists,
           PutRepeated, PutConditional, PutRefused, CreateExclusive, WriteExclusive,
           HeadLegacy, PutLegacy,
           PutFails, InspectStale, InspectFresh, Wake, Recheck, Break, BreakFails, Enter
      <4>. QED
        BY <3>3, <3>4, <4>1, FreshWritten
    <3>5. CASE CreateExclusive(w)
      <4>1. lock = Gone /\ lock' = Garbage /\ openFd' = w /\ broken' = broken
        BY <3>5 DEF CreateExclusive
      <4>2. \A v \in Workers \ broken : pc[v] \notin {"write", "held"}
        <5>1. lock.holder \notin Holders /\ lock # Garbage
          BY <4>1 DEF Gone, Garbage
        <5>2. openFd = NoWorker
          BY <5>1 DEF FreshInv
        <5>3. \A v \in Workers \ broken : FreshInvOf(v) /\ TimeInvOf(v)
          BY DEF FreshInv, TimeInv
        <5>4. \A t : ~ValidUntil(t)
          BY <5>1 DEF ValidUntil
        <5>. QED
          BY <5>2, <5>3, <5>4, WorkerAssumption DEF FreshInvOf, TimeInvOf
      <4>3. pc'[w] = "write"
        BY <3>5 DEF CreateExclusive
      <4>. QED
        BY <3>3, <4>1, <4>2, <4>3 DEF FreshInv, FreshInvOf
    <3>6. CASE WriteExclusive(w) /\ openFd # w
      <4>1. /\ pc[w] = "write" /\ pc'[w] = "held" /\ hb'[w] = "waiting"
            /\ nextBeat'[w] = now + Interval
            /\ UNCHANGED <<lock, openFd, broken>>
        BY <3>6 DEF WriteExclusive, Enter
      <4>2. CASE w \in broken
        BY <3>3, <4>1, <4>2, FreshKept
      <4>3. CASE w \notin broken
        <5>1. ValidUntil(stamp[w] + Interval + 3 * MaxDelay)
          BY <3>6, <4>1, <4>3 DEF FreshInv, FreshInvOf
        <5>2. now <= stamp[w] + MaxDelay
          BY <3>1, <4>1 DEF TimeInvOf, Putting
        <5>3. lock.expires \in Nat
          BY DEF LockInfo, Gone, Garbage
        <5>4. ValidUntil(nextBeat[w] + 2 * MaxDelay)'
          BY <3>2, <4>1, <5>1, <5>2, <5>3 DEF ValidUntil
        <5>. QED
          BY <3>3, <4>1, <5>4, FreshKept DEF FreshInvOf
      <4>. QED
        BY <4>2, <4>3
    <3>7. CASE Break(w)
      <4>1. pc[w] = "break" /\ pc'[w] = "top" /\ Remove(w)
        BY <3>7 DEF Break
      <4>. QED
        BY <3>3, <4>1, FreshDeleted
    <3>8. CASE ~((Store(Info(w)) /\ Enter(w)) \/ CreateExclusive(w)
                 \/ (WriteExclusive(w) /\ openFd # w) \/ Break(w))
      <4>1. UNCHANGED <<lock, openFd, broken>> /\ pc'[w] \notin {"write", "held"}
        BY <2>2, <3>1, <3>8 DEF Acquiring, Start, GiveUp, Attempt, PutExists, PutRepeated,
           PutConditional, PutRefused, WriteExclusive, HeadLegacy, PutLegacy, PutFails,
           InspectStale, InspectFresh, Wake, Recheck, BreakFails
      <4>. QED
        BY <3>3, <4>1, FreshKept DEF FreshInvOf
    <3>. QED
      BY <3>4, <3>5, <3>6, <3>7, <3>8
  <2>3. ASSUME NEW w \in Workers, Beating(w) PROVE FreshInv'
    <3>1. TimeInvOf(w) /\ ~Faults
      BY DEF TimeInv, Timely
    <3>2. now \in Nat /\ stamp[w] \in Nat /\ nextBeat[w] \in Nat
      BY DEF TypeOK
    <3>3. /\ now' = now /\ pc' = pc /\ broken' = broken
          /\ \A v \in Workers \ {w} :
                /\ stamp'[v] = stamp[v]
                /\ hb'[v] = hb[v] /\ nextBeat'[v] = nextBeat[v]
      BY <2>3 DEF Beating, BeatFire, BeatPut, BeatFails, BeatStop, mainVars, TypeOK
    <3>4. CASE BeatFire(w)
      <4>1. /\ hb[w] = "waiting" /\ hb'[w] = "putting" /\ stamp'[w] = now
            /\ UNCHANGED <<lock, openFd>>
        BY <3>4 DEF BeatFire, TypeOK
      <4>2. now <= nextBeat[w] + MaxDelay /\ pc[w] # "write"
        BY <3>1, <4>1 DEF TimeInvOf
      <4>3. lock.expires \in Nat
        BY DEF TypeOK, LockInfo, Gone, Garbage
      <4>4. ASSUME w \notin broken PROVE FreshInvOf(w)'
        BY <3>2, <3>3, <4>1, <4>2, <4>3, <4>4 DEF FreshInv, FreshInvOf, ValidUntil
      <4>. QED
        BY <3>3, <4>1, <4>4, FreshKept
    <3>5. CASE BeatPut(w)
      BY <3>1, <3>3, <3>5, FreshWritten DEF BeatPut, TimeInvOf
    <3>6. CASE BeatStop(w)
      <4>1. pc[w] \notin {"write", "held"} /\ UNCHANGED <<lock, openFd>>
        BY <3>1, <3>6 DEF BeatStop, TimeInvOf
      <4>. QED
        BY <3>3, <4>1, FreshKept DEF FreshInvOf
    <3>. QED
      BY <2>3, <3>1, <3>4, <3>5, <3>6 DEF Beating, BeatFails
  <2>4. ASSUME NEW w \in Workers, Releasing(w) \/ Crash(w) PROVE FreshInv'
    <3>. USE DEF Goto, TypeOK
    <3>1. /\ UNCHANGED <<stamp, nextBeat>> /\ pc'[w] \notin {"write", "held"}
          /\ \A v \in Workers \ {w} : pc'[v] = pc[v] /\ hb'[v] = hb[v]
      BY <2>4 DEF Releasing, StartRelease, ReleaseGet, ReleaseDelete, Exit, Crash,
         mainVars, beatVars
    <3>2. CASE ReleaseDelete(w) /\ Remove(w)
      <4>1. pc[w] = "reldel"
        BY <3>2 DEF ReleaseDelete
      <4>. QED
        BY <3>1, <3>2, <4>1, FreshDeleted
    <3>3. CASE ~(ReleaseDelete(w) /\ Remove(w))
      <4>1. /\ UNCHANGED <<lock, broken>>
            /\ openFd' # openFd => openFd = w /\ openFd' = NoWorker
        BY <2>4, <3>3 DEF Releasing, StartRelease, ReleaseGet, ReleaseDelete, Exit, Crash
      <4>. QED
        BY <3>1, <4>1, FreshKept DEF FreshInvOf
    <3>. QED
      BY <3>2, <3>3
  <2>5. CASE UNCHANGED vars
    BY <2>5 DEF vars, FreshInv, FreshInvOf, ValidUntil
  <2>. QED
    BY <2>1, <2>2, <2>3, <2>4, <2>5 DEF Next
<1>3. TypeOK /\ TimeInv /\ FreshInv => HolderNeverStale
  <2>. SUFFICES ASSUME TypeOK, NEW w \in Workers \ broken, pc[w] = "held",
                       TimeInvOf(w), FreshInvOf(w), NEW v \in Workers
                PROVE  ~Stale(v)
    BY DEF HolderNeverStale, TimeInv, FreshInv
  <2>1. /\ now \in Nat /\ stamp[w] \in Nat /\ nextBeat[w] \in Nat
        /\ ClockOf[v] \in 0..MaxSkew /\ hb[w] \in {"waiting", "putting"}
    BY DEF TypeOK, TimeInvOf
  <2>2. lock.holder \in Holders /\ lock.expires \in Nat
    BY <2>1 DEF FreshInvOf, ValidUntil, TypeOK, LockInfo, Gone, Garbage
  <2>3. now + MaxSkew <= lock.expires
    BY <2>1, <2>2 DEF FreshInvOf, TimeInvOf, ValidUntil, Putting
  <2>. QED
    BY <2>1, <2>2, <2>3 DEF Stale
<1>. QED
  BY TypeCorrect, TimeInvariant, <1>1, <1>2, <1>3, PTL DEF Spec

-----------------------------------------------------------------------------
(***************************************************************************)
(* Refinement of RevocableLock.  Every step grants, leaves, revokes or     *)
(* stutters; that a worker acquires only once is what makes it the owner   *)
(* when it does.                                                           *)
(***************************************************************************)
BrokenInside ==
    \A w \in broken :
        pc[w] \in {"write", "held", "relget", "reldel", "done", "failed", "crashed"}

OwnVars == <<Owner, Tenured>>

LEMMA OwnerIsSole ==
    ASSUME ExclusionUntilDeleted, NEW w \in Tenured \ broken
    PROVE  Owner = w
BY DEF Owner, ExclusionUntilDeleted, Tenured

LEMMA OwnerAbsent == Owner = NoWorker <=> Tenured \subseteq broken
BY WorkerAssumption DEF Owner, Tenured

LEMMA Stutters ==
    ASSUME Tenured' = Tenured, broken' = broken
    PROVE  UNCHANGED OwnVars
BY DEF OwnVars, Owner

LEMMA Revokes ==
    ASSUME Tenured' = Tenured, Tenured \subseteq broken'
    PROVE  Revocable!Revoke \/ UNCHANGED OwnVars
<1>1. Owner' = NoWorker
  BY DEF Owner
<1>. QED
  BY <1>1 DEF OwnVars, Revocable!Revoke

LEMMA Leaves ==
    ASSUME NEW w \in Workers, ExclusionUntilDeleted, ExclusionUntilDeleted',
           Tenured' = Tenured \ {w}, broken' = broken
    PROVE  Revocable!Leave(w) \/ UNCHANGED OwnVars
<1>1. CASE w \notin Tenured
  <2>1. Tenured' = Tenured
    BY <1>1
  <2>. QED
    BY <2>1, Stutters
<1>2. CASE w \in Tenured
  <2>1. CASE Tenured' \subseteq broken
    <3>1. Owner' = NoWorker
      BY <2>1 DEF Owner
    <3>2. Owner # w => Owner = NoWorker
      <4>. SUFFICES ASSUME Owner # w, Owner # NoWorker PROVE FALSE
        OBVIOUS
      <4>1. PICK v \in Tenured : v \notin broken
        BY OwnerAbsent
      <4>. QED
        BY <2>1, <4>1, OwnerIsSole
    <3>. QED
      BY <1>2, <3>1, <3>2 DEF Revocable!Leave
  <2>2. CASE ~(Tenured' \subseteq broken)
    <3>1. PICK v \in Tenured' : v \notin broken'
      BY <2>2
    <3>2. Owner' = v
      <4>1. \A x \in Tenured' \ broken' : x = v
        BY <3>1 DEF ExclusionUntilDeleted
      <4>2. v \in Workers
        BY <3>1 DEF Tenured
      <4>. QED
        BY <3>1, <4>1, <4>2 DEF Owner
    <3>3. Owner = v
      BY <3>1, OwnerIsSole
    <3>. QED
      BY <1>2, <3>1, <3>2, <3>3 DEF Revocable!Leave
  <2>. QED
    BY <2>1, <2>2
<1>. QED
  BY <1>1, <1>2

LEMMA Grants ==
    ASSUME NEW w \in Workers, Tenured \subseteq broken, w \notin broken,
           ExclusionUntilDeleted',
           Tenured' = Tenured \cup {w}, broken' = broken
    PROVE  Revocable!Grant(w)
<1>1. Owner = NoWorker /\ w \notin Tenured
  BY OwnerAbsent
<1>2. Owner' = w
  BY DEF Owner
<1>. QED
  BY <1>1, <1>2 DEF Revocable!Grant

\* A worker acquires once: one whose lock object was deleted is past its put.
LEMMA BrokenInvariant == Spec => []BrokenInside
<1>1. Init => BrokenInside
  BY DEF Init, BrokenInside
<1>2. TypeOK /\ BrokenInside /\ [Next]_vars => BrokenInside'
  <2>. SUFFICES ASSUME TypeOK, BrokenInside, [Next]_vars PROVE BrokenInside'
    OBVIOUS
  <2>. USE DEF BrokenInside
  <2>1. CASE Tick
    BY <2>1 DEF Tick, mainVars
  <2>2. ASSUME NEW w \in Workers, Start(w) \/ Acquiring(w) PROVE BrokenInside'
    <3>1. CASE Break(w)
      BY <3>1 DEF Break, Remove, Tenured, Goto, TypeOK
    <3>2. CASE ~Break(w)
      <4>1. /\ broken' = broken
            /\ \A v \in Workers \ {w} : pc'[v] = pc[v]
            /\ \/ pc[w] \notin {"write", "held", "relget", "reldel", "done", "failed", "crashed"}
               \/ pc'[w] \in {"held", "failed"}
        BY <2>2, <3>2 DEF Acquiring, Start, GiveUp, Attempt, PutExists, PutRepeated,
           PutConditional, PutRefused, CreateExclusive, WriteExclusive, HeadLegacy,
           PutLegacy, PutFails,
           InspectStale, InspectFresh, Wake, Recheck, BreakFails, Enter, Goto, TypeOK
      <4>2. broken \subseteq Workers
        BY DEF TypeOK
      <4>. QED
        BY <4>1, <4>2
    <3>. QED
      BY <3>1, <3>2
  <2>3. ASSUME NEW w \in Workers, Beating(w) PROVE BrokenInside'
    BY <2>3 DEF Beating, BeatFire, BeatPut, BeatFails, BeatStop, mainVars
  <2>4. ASSUME NEW w \in Workers, Releasing(w) \/ Crash(w) PROVE BrokenInside'
    BY <2>4 DEF Releasing, StartRelease, ReleaseGet, ReleaseDelete, Exit, Crash, mainVars,
       Remove, Tenured, Goto, TypeOK
  <2>5. CASE UNCHANGED vars
    BY <2>5 DEF vars
  <2>. QED
    BY <2>1, <2>2, <2>3, <2>4, <2>5 DEF Next
<1>. QED
  BY TypeCorrect, <1>1, <1>2, PTL DEF Spec

\* Where PutIfNotExist is atomic, the lock object implements a lock that is granted to
\* one worker at a time and can be taken away.
THEOREM RefinementTheorem ==
    ASSUME AtomicPut
    PROVE  Spec => ImplementsRevocableLock
<1>. DEFINE IInv == TypeOK /\ BrokenInside /\ ExclusionInv /\ NobodyLooks
            RNext == [Revocable!Next]_OwnVars
<1>1. Init => Revocable!Init
  BY DEF Init, Revocable!Init, Owner, Tenured
<1>2. IInv /\ IInv' /\ [Next]_vars => RNext
  <2>. SUFFICES ASSUME IInv, IInv', [Next]_vars PROVE RNext
    OBVIOUS
  <2>. USE DEF Revocable!Next
  <2>a. ExclusionUntilDeleted /\ ExclusionUntilDeleted'
    BY DEF ExclusionInv
  <2>1. CASE Tick
    BY <2>1, Stutters DEF Tick, mainVars, Tenured
  <2>2. ASSUME NEW w \in Workers, Start(w) \/ Acquiring(w) PROVE RNext
    <3>. USE DEF Goto, TypeOK
    <3>1. CASE PutConditional(w) \/ CreateExclusive(w)
      <4>1. /\ lock = Gone /\ pc[w] = "put" /\ broken' = broken
            /\ Tenured' = Tenured \cup {w}
        BY <3>1 DEF PutConditional, CreateExclusive, Enter, Tenured
      <4>2. Tenured \subseteq broken /\ w \notin broken
        BY <4>1 DEF ExclusionInv, BrokenInside
      <4>. QED
        BY <2>a, <4>1, <4>2, Grants
    <3>2. CASE PutFails(w)
      <4>1. Tenured' = Tenured \ {w} /\ broken' = broken
        BY <3>2 DEF PutFails, Tenured
      <4>. QED
        BY <2>a, <4>1, Leaves
    <3>3. CASE Break(w)
      <4>1. Tenured' = Tenured /\ w \notin Tenured /\ Remove(w)
        BY <3>3 DEF Break, Tenured
      <4>. QED
        BY <4>1, Revokes DEF Remove
    <3>4. CASE ~(PutConditional(w) \/ CreateExclusive(w) \/ PutFails(w) \/ Break(w))
      <4>1. Tenured' = Tenured /\ broken' = broken
        BY <2>2, <3>4 DEF Acquiring, Start, GiveUp, Attempt, PutExists, PutRepeated,
           PutRefused, WriteExclusive, HeadLegacy, PutLegacy, InspectStale, InspectFresh,
           Wake, Recheck, BreakFails, Enter, Tenured, NobodyLooks
      <4>. QED
        BY <4>1, Stutters
    <3>. QED
      BY <3>1, <3>2, <3>3, <3>4
  <2>3. ASSUME NEW w \in Workers, Beating(w) PROVE RNext
    <3>1. Tenured' = Tenured /\ broken' = broken
      BY <2>3 DEF Beating, BeatFire, BeatPut, BeatFails, BeatStop, mainVars, Tenured
    <3>. QED
      BY <3>1, Stutters
  <2>4. ASSUME NEW w \in Workers, Releasing(w) \/ Crash(w) PROVE RNext
    <3>. USE DEF Goto, TypeOK
    <3>1. CASE StartRelease(w) \/ Crash(w)
      <4>1. Tenured' = Tenured \ {w} /\ broken' = broken
        BY <3>1 DEF StartRelease, Crash, Tenured
      <4>. QED
        BY <2>a, <4>1, Leaves
    <3>2. CASE ReleaseDelete(w)
      <4>1. Tenured' = Tenured /\ w \notin Tenured
        BY <3>2 DEF ReleaseDelete, Tenured
      <4>2. Remove(w) \/ broken' = broken
        BY <3>2 DEF ReleaseDelete
      <4>. QED
        BY <4>1, <4>2, Revokes, Stutters DEF Remove
    <3>3. CASE ReleaseGet(w) \/ Exit(w)
      <4>1. Tenured' = Tenured /\ broken' = broken
        BY <3>3 DEF ReleaseGet, Exit, Tenured, mainVars
      <4>. QED
        BY <4>1, Stutters
    <3>. QED
      BY <2>4, <3>1, <3>2, <3>3 DEF Releasing
  <2>5. CASE UNCHANGED vars
    BY <2>5, Stutters DEF vars, Tenured
  <2>. QED
    BY <2>1, <2>2, <2>3, <2>4, <2>5 DEF Next
<1>. QED
  BY TypeCorrect, BrokenInvariant, ExclusionInvariant, <1>1, <1>2, PTL
  DEF Spec, ImplementsRevocableLock, Revocable!Spec, OwnVars

-----------------------------------------------------------------------------
(***************************************************************************)
(* Recovery: no lock object that the workers leave behind, whatever they   *)
(* die of, outlives its TTL.                                               *)
(***************************************************************************)
ExpiryInv ==
    /\ \A w \in Workers : stamp[w] <= now
    /\ NeverLockedForLong

\* A LockInfo made by a worker up to now expires within the TTL, by any clock.
LEMMA InfoExpires ==
    ASSUME TypeOK, NEW w \in Workers, stamp[w] <= now
    PROVE  Info(w).expires # 0 /\ Info(w).expires <= now + MaxSkew + TTL
<1>1. /\ stamp[w] \in Nat /\ ClockOf[w] \in 0..MaxSkew /\ MaxSkew \in Nat
      /\ TTL \in Nat \ {0} /\ now \in Nat
  BY TimeAssumption DEF TypeOK
<1>. QED
  BY <1>1 DEF Info

\* What any step does to the clock, the stamps and the lock object.
LEMMA ClockLockStamp ==
    ASSUME [Next]_vars
    PROVE  /\ now' = now \/ now' = now + 1
           /\ \/ UNCHANGED stamp
              \/ \E w \in Workers : stamp' = [stamp EXCEPT ![w] = now]
           /\ lock' \in {lock, Gone, Garbage} \cup {Info(w) : w \in Workers}
<1>. USE DEF Next, Tick, vars, Acquiring, Beating, Releasing, Start, GiveUp, Attempt,
     PutExists, PutRepeated, PutConditional, PutRefused, CreateExclusive,
     WriteExclusive, HeadLegacy, PutLegacy,
     PutFails, InspectStale, InspectFresh, Wake, Recheck, Break, BreakFails, BeatFire,
     BeatPut, BeatFails, BeatStop, StartRelease, ReleaseGet, ReleaseDelete, Exit, Crash
<1>1. now' = now \/ now' = now + 1
  OBVIOUS
<1>2. \/ UNCHANGED stamp
      \/ \E w \in Workers : stamp' = [stamp EXCEPT ![w] = now]
  OBVIOUS
<1>3. lock' \in {lock, Gone, Garbage} \cup {Info(w) : w \in Workers}
  BY DEF Landed, Store, Remove
<1>. QED
  BY <1>1, <1>2, <1>3

\* A lock object of any of the workers expires at most TTL from now.
THEOREM ExpiryTheorem ==
    ASSUME \A l \in InitLocks, w \in Workers : l.holder # HolderOf[w]
    PROVE  Spec => []NeverLockedForLong
<1>. USE TimeAssumption, HolderAssumption
<1>1. Init => ExpiryInv
  BY DEF Init, ExpiryInv, NeverLockedForLong
<1>2. TypeOK /\ ExpiryInv /\ [Next]_vars => ExpiryInv'
  <2>. SUFFICES ASSUME TypeOK, ExpiryInv, [Next]_vars PROVE ExpiryInv'
    OBVIOUS
  <2>1. \A w \in Workers : Info(w).expires # 0 /\ Info(w).expires <= now + MaxSkew + TTL
    BY InfoExpires DEF ExpiryInv
  <2>2. now' \in Nat /\ now \in Nat /\ now <= now'
    BY ClockLockStamp DEF TypeOK
  <2>3. \A w \in Workers : stamp'[w] <= now'
    BY <2>2, ClockLockStamp DEF ExpiryInv, TypeOK
  <2>4. lock' \in {lock, Gone, Garbage} \cup {Info(w) : w \in Workers}
    BY ClockLockStamp
  <2>5. NeverLockedForLong'
    <3>1. CASE lock' = lock
      <4>1. lock.expires \in Nat
        BY DEF TypeOK, LockInfo, Gone, Garbage
      <4>. QED
        BY <2>2, <3>1, <4>1 DEF ExpiryInv, NeverLockedForLong
    <3>2. CASE lock' \in {Gone, Garbage}
      BY <3>2 DEF NeverLockedForLong, Gone, Garbage
    <3>3. ASSUME NEW w \in Workers, lock' = Info(w) PROVE NeverLockedForLong'
      <4>1. Info(w).expires \in Nat
        BY InfoType DEF LockInfo
      <4>. QED
        BY <2>1, <2>2, <3>3, <4>1 DEF NeverLockedForLong
    <3>. QED
      BY <2>4, <3>1, <3>2, <3>3
  <2>. QED
    BY <2>3, <2>5 DEF ExpiryInv
<1>3. ExpiryInv => NeverLockedForLong
  BY DEF ExpiryInv
<1>. QED
  BY TypeCorrect, <1>1, <1>2, <1>3, PTL DEF Spec

-----------------------------------------------------------------------------
(***************************************************************************)
(* Two workers.  The one that finds a stale lock has not written it: the   *)
(* other has, and is past its work.  With a third worker that need not be  *)
(* so by the time the lock is deleted.                                     *)
(***************************************************************************)
Over == {"relget", "reldel", "done", "crashed"}

PairInv ==
    /\ MutualExclusion
    /\ lock.holder # Corrupt
    /\ lock # Gone => \E v \in Workers : pc[v] \in Over \cup {"held"}
    /\ \A v, w \in Workers : v # w =>
          /\ pc[w] \in {"jitter", "break"} => pc[v] \in Over
          /\ v \in broken => pc[w] = "done"
    /\ \A w \in Workers : pc[w] \notin {"write", "head", "headed"}

\* What a conditional put allows, between two workers whose heartbeats are in time.
LEMMA PairStep ==
    ASSUME Timely, PutMode = "conditional", ~Refuses,
           \A u, v, w \in Workers : u = v \/ v = w \/ u = w,
           TypeOK, ExclusionInv, TimeInv, HolderNeverStale, PairInv,
           NEW w \in Workers, Start(w) \/ Acquiring(w) \/ Beating(w) \/ Releasing(w) \/ Crash(w)
    PROVE  PairInv'
<1>. USE DEF PairInv, Goto, TypeOK, Over
<1>1. ~Faults
  BY DEF Timely
<1>2. Info(w).holder # Corrupt
  BY HolderAssumption DEF Info
<1>3. CASE PutConditional(w)
  <2>1. \A v \in Workers : pc[v] # "held"
    <3>1. pc[w] = "put" /\ lock = Gone
      BY <1>3 DEF PutConditional
    <3>. QED
      BY <3>1 DEF ExclusionInv, Tenured
  <2>2. pc' = [pc EXCEPT ![w] = "held"] /\ lock' = Info(w) /\ broken' = broken /\ pc[w] = "put"
    BY <1>3 DEF PutConditional, Store, Enter
  <2>. QED
    BY <1>2, <2>1, <2>2 DEF MutualExclusion
<1>4. CASE InspectStale(w)
  <2>1. /\ pc[w] = "inspect" /\ Stale(w)
        /\ pc' = [pc EXCEPT ![w] = "jitter"] /\ UNCHANGED <<lock, broken>>
    BY <1>4 DEF InspectStale
  <2>2. lock # Gone
    BY <2>1 DEF Stale, Gone
  <2>3. PICK v \in Workers : pc[v] \in Over \cup {"held"}
    BY <2>2
  <2>4. v # w /\ pc[v] # "held"
    BY <2>1, <2>3 DEF HolderNeverStale
  <2>. QED
    BY <2>1, <2>3, <2>4 DEF MutualExclusion
<1>5. CASE Break(w)
  <2>1. /\ pc[w] = "break" /\ pc' = [pc EXCEPT ![w] = "top"] /\ lock' = Gone
        /\ broken' = broken \cup (Tenured \ {w})
    BY <1>5 DEF Break, Remove
  <2>2. Tenured \ {w} = {}
    BY <2>1 DEF Tenured
  <2>. QED
    BY <2>1, <2>2, HolderAssumption DEF MutualExclusion, Gone
<1>6. CASE ReleaseDelete(w)
  <2>1. /\ pc[w] = "reldel" /\ pc' = [pc EXCEPT ![w] = "done"] /\ lock' = Gone
        /\ broken' = broken \cup (Tenured \ {w})
    BY <1>1, <1>6 DEF ReleaseDelete, Remove
  <2>. QED
    BY <2>1, HolderAssumption DEF MutualExclusion, Gone
<1>7. CASE BeatPut(w)
  <2>1. lock' = Info(w) /\ UNCHANGED <<pc, broken>> /\ pc[w] \in Over \cup {"held"}
    BY <1>7 DEF BeatPut, Store, mainVars, TimeInv, TimeInvOf
  <2>. QED
    BY <1>2, <2>1 DEF MutualExclusion
<1>8. CASE \/ Start(w) \/ GiveUp(w) \/ Attempt(w) \/ PutExists(w) \/ InspectFresh(w)
           \/ Wake(w)
  <2>1. /\ pc[w] \notin Over \cup {"held"} /\ UNCHANGED <<lock, broken>>
        /\ \E l \in {"top", "failed", "put", "inspect", "backoff"} : pc' = [pc EXCEPT ![w] = l]
    BY <1>8 DEF Start, GiveUp, Attempt, PutExists, InspectFresh, Wake
  <2>. QED
    BY <2>1 DEF MutualExclusion
<1>9. CASE Recheck(w)
  <2>1. /\ pc[w] = "jitter" /\ UNCHANGED <<lock, broken>>
        /\ \E l \in {"break", "top"} : pc' = [pc EXCEPT ![w] = l]
    BY <1>9 DEF Recheck
  <2>. QED
    BY <2>1 DEF MutualExclusion
<1>10. CASE BeatFire(w) \/ BeatStop(w) \/ Exit(w)
  BY <1>10 DEF BeatFire, BeatStop, Exit, mainVars, MutualExclusion
<1>11. CASE StartRelease(w) \/ ReleaseGet(w)
  <2>1. /\ pc[w] \in {"held", "relget"} /\ UNCHANGED <<lock, broken>>
        /\ \E l \in Over : pc' = [pc EXCEPT ![w] = l]
    BY <1>11 DEF StartRelease, ReleaseGet
  <2>. QED
    BY <2>1 DEF MutualExclusion
<1>12. CASE Crash(w)
  <2>1. pc[w] # "done" /\ pc' = [pc EXCEPT ![w] = "crashed"] /\ UNCHANGED <<lock, broken>>
    BY <1>12 DEF Crash
  <2>. QED
    BY <2>1 DEF MutualExclusion
<1>13. ~(\/ PutRepeated(w) \/ PutRefused(w) \/ CreateExclusive(w) \/ WriteExclusive(w)
         \/ HeadLegacy(w) \/ PutLegacy(w) \/ PutFails(w) \/ BreakFails(w) \/ BeatFails(w))
  BY <1>1 DEF PutRepeated, PutRefused, CreateExclusive, WriteExclusive, HeadLegacy,
              PutLegacy, PutFails,
              BreakFails, BeatFails
<1>. QED
  BY <1>3, <1>4, <1>5, <1>6, <1>7, <1>8, <1>9, <1>10, <1>11, <1>12, <1>13
     DEF Acquiring, Beating, Releasing

\* Two workers that share a store that supports conditional puts, whose heartbeats are in
\* time and whose calls succeed, never work at the same time, though one of them may
\* crash or release its lock as late as it likes.
THEOREM PairTheorem ==
    ASSUME Timely, PutMode = "conditional", ~Refuses, InitLocks \subseteq {Gone},
           \A u, v, w \in Workers : u = v \/ v = w \/ u = w
    PROVE  Spec => []MutualExclusion
<1>1. Init => PairInv
  BY HolderAssumption DEF Init, PairInv, MutualExclusion, Over, Gone
<1>2. TypeOK /\ ExclusionInv /\ TimeInv /\ HolderNeverStale /\ PairInv /\ [Next]_vars => PairInv'
  <2>. SUFFICES ASSUME TypeOK, ExclusionInv, TimeInv, HolderNeverStale, PairInv, [Next]_vars
                PROVE  PairInv'
    OBVIOUS
  <2>1. CASE Tick \/ UNCHANGED vars
    BY <2>1 DEF Tick, vars, mainVars, PairInv, MutualExclusion
  <2>. QED
    BY <2>1, PairStep DEF Next
<1>3. PairInv => MutualExclusion
  BY DEF PairInv
<1>4. Spec => []HolderNeverStale
  BY FreshnessTheorem
<1>5. Spec => [](ExclusionInv /\ NobodyLooks)
  BY ExclusionInvariant DEF AtomicPut
<1>. QED
  BY TypeCorrect, TimeInvariant, <1>1, <1>2, <1>3, <1>4, <1>5, PTL DEF Spec
=============================================================================
