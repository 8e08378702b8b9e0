--------------------------- MODULE RevocableLock ---------------------------
(***************************************************************************)
(* What the advisory lock promises a publisher, and all it promises: the   *)
(* lock is granted to one worker at a time, but it may be taken away from  *)
(* its owner, who is not told and goes on working.                         *)
(***************************************************************************)
CONSTANTS Workers, NoWorker

VARIABLES
    owner,      \* the worker the lock belongs to
    inside      \* the workers that were granted the lock and have not left

Init == owner = NoWorker /\ inside = {}

Grant(w) ==
    /\ owner = NoWorker /\ w \notin inside
    /\ owner' = w
    /\ inside' = inside \cup {w}

Leave(w) ==
    /\ w \in inside
    /\ inside' = inside \ {w}
    /\ owner' = IF owner = w THEN NoWorker ELSE owner

Revoke ==
    /\ owner # NoWorker
    /\ owner' = NoWorker
    /\ UNCHANGED inside

Next == Revoke \/ \E w \in Workers : Grant(w) \/ Leave(w)

Spec == Init /\ [][Next]_<<owner, inside>>
=============================================================================
