------------------------------ MODULE MCLocker ------------------------------
(***************************************************************************)
(* Instances of Locker for TLC.                                            *)
(***************************************************************************)
EXTENDS Locker

CONSTANTS Foreign   \* the holder of a lock found at the start

\* Every worker's holder string is its own (host-pid): the worker stands for it.
MCHolders  == Workers \cup {Foreign}
MCHolderOf == [w \in Workers |-> w]
MCClockOf  == [w \in Workers |-> 0]

\* The first clock is ahead of the others.
MCSkewedClockOf == [w \in Workers |-> IF w = CHOOSE v \in Workers : TRUE THEN MaxSkew ELSE 0]

\* No lock object; the expiring lock of a publisher that died; an object that
\* does not parse.
MCNoLock  == {Gone}
MCAnyLock == {Gone, Garbage, [holder |-> Foreign, expires |-> 1]}

\* The lock of a publisher that died; no lock, or a lock without an expiry, as other
\* tools may leave one, which is never stale.
MCExpiringLock == {[holder |-> Foreign, expires |-> 1]}
MCForeverLock  == {Gone, [holder |-> Foreign, expires |-> 0]}

-----------------------------------------------------------------------------
CONSTANT WorkUntil  \* bound on the time at which a worker starts, works or crashes

\* The clock stops at Horizon.  For every deadline and every expiry to have passed
\* by then, after WorkUntil no worker starts, none crashes, and none works on while
\* time passes.
LiveNext ==
    \/ Tick /\ (now >= WorkUntil => \A w \in Workers : pc[w] # "held")
    \/ \E w \in Workers :
          \/ now < WorkUntil /\ (Start(w) \/ Crash(w))
          \/ Acquiring(w) \/ Beating(w) \/ Releasing(w)

LiveSpec == Init /\ [][LiveNext]_vars /\ Fairness
=============================================================================
