------------------------------ MODULE Command ------------------------------
(***************************************************************************)
(* cmd/debpub: a process that runs publish or serve, from its command line *)
(* to its exit.  What publish does in the repository is Publisher's, what  *)
(* serve's handlers do is Browser's; here they are one step each, and the  *)
(* point is what happens before, after and beside them: the configuration, *)
(* the arguments, the goroutine that listens, signals, and the requests    *)
(* that are in flight when the server goes down.                           *)
(***************************************************************************)
EXTENDS Config, Collector

CONSTANTS
    Invocations,    \* [command, flags, file, user, args]: how the command may be run
    BadFile,        \* a configuration file that cannot be read
    Requests        \* requests that clients may send to serve

AreTexts(layer) == \A s \in DOMAIN layer : s \in Settings /\ IsText(s, layer[s])

ASSUME InvocationAssumption ==
    \A i \in Invocations :
        /\ i.command \in {"publish", "serve"}
        /\ DOMAIN i.flags \cap Lists = {} /\ AreTexts(i.flags)
        /\ i.file # BadFile => AreTexts(i.file)
        /\ i.args \in Seq(Range(i.args)) /\ \A arg \in Range(i.args) : IsArgument(arg)
        /\ i.command = "publish" => i.args # <<>>

VARIABLES
    invocation,
    pc,
    cfg,            \* the configuration
    looked,         \* how many of the arguments have been looked at
    debFiles,       \* what publish is to publish
    backend,        \* has the storage been reached?
    signer, lock,   \* is there a signer, and the lock's durations (0 if there is no lock)
    signalled,      \* has ctx been cancelled by a signal?
    listener,       \* of the HTTP server
    serverErr,      \* serverErrCh
    shutdown,       \* has Shutdown been called?
    grace,          \* is the time it is given not over yet?
    requests,       \* the state of each request
    exit            \* how the process has ended

configuration == <<invocation, cfg, looked, debFiles, backend, signer, lock>>
server == <<signalled, listener, serverErr, shutdown, grace, requests>>
vars == <<configuration, server, pc, exit>>

Serving == {"serving", "draining"}
Catching == {"notified", "prefetch"} \cup Serving       \* signals only cancel ctx

TypeOK ==
    /\ invocation.command \in {"publish", "serve"}
    /\ pc \in {"start", "configured", "collected", "publish", "exited"} \cup Catching
    /\ DOMAIN cfg = Settings /\ \A s \in Bools : cfg[s] \in BOOLEAN
    /\ \A s \in Durations : cfg[s] \in -Limit..(Limit - 1)
    /\ looked \in 0..Len(invocation.args) /\ debFiles \in Seq(Nat)
    /\ pc \in {"collected", "publish"} => debFiles # <<>>
    /\ backend \in BOOLEAN /\ signer \in BOOLEAN
    /\ lock \in [Durations -> 0..(Limit - 1)]
    /\ signalled \in BOOLEAN /\ shutdown \in BOOLEAN /\ grace \in BOOLEAN
    /\ listener \in {"none", "starting", "open", "failed", "closed"}
    /\ serverErr \in {"empty", "error", "closed"}
    /\ requests \in [Requests -> {"unsent", "running", "answered", "refused", "cut off"}]
    /\ exit \in {"running", "ok", "error", "killed"} /\ (pc = "exited" <=> exit # "running")
    /\ shutdown => signalled /\ pc \in {"draining", "exited"}

NoLock == [s \in Durations |-> 0]

Init ==
    /\ invocation \in Invocations
    /\ pc = "start" /\ exit = "running"
    /\ cfg = DefaultConfig /\ looked = 0 /\ debFiles = <<>>
    /\ backend = FALSE /\ signer = FALSE /\ lock = NoLock
    /\ signalled = FALSE
    /\ listener = "none" /\ serverErr = "empty" /\ shutdown = FALSE /\ grace = TRUE
    /\ requests = [r \in Requests |-> "unsent"]

-----------------------------------------------------------------------------
\* The process ends, and with it what its goroutines are at.
Ends(how) ==
    /\ pc' = "exited" /\ exit' = how
    /\ requests' = [r \in Requests |->
                      IF requests[r] = "running" THEN "cut off" ELSE requests[r]]
    /\ UNCHANGED <<configuration, signalled, listener, serverErr, shutdown, grace>>

\* cobra refuses a flag that does not parse; the rest is loadConfigWithPrecedence and
\* normalizeAndLogConfig.
BadFlags == \E s \in DOMAIN invocation.flags : ValueOf(s, invocation.flags[s]) = Invalid

LoadConfigFails ==
    /\ pc = "start" /\ (BadFlags \/ invocation.file = BadFile)
    /\ Ends("error")

LoadConfig ==
    /\ pc = "start" /\ ~BadFlags /\ invocation.file # BadFile
    /\ pc' = "configured"
    /\ cfg' = normalizeConfig(loadConfigWithPrecedence(invocation.flags, invocation.file),
                              invocation.flags, invocation.user)
    /\ UNCHANGED <<invocation, looked, debFiles, backend, signer, lock, server, exit>>

Publishing == invocation.command = "publish"

\* CollectDebFiles, one argument at a time.
MoreArgs == looked < Len(invocation.args)

CollectFails ==
    /\ pc = "configured" /\ Publishing
    /\ \/ cfg["codename"] = Empty
       \/ MoreArgs /\ Bad(invocation.args[looked + 1])
       \/ ~MoreArgs /\ debFiles = <<>>
    /\ Ends("error")

CollectArg ==
    /\ pc = "configured" /\ Publishing /\ cfg["codename"] # Empty
    /\ MoreArgs /\ ~Bad(invocation.args[looked + 1])
    /\ looked' = looked + 1
    /\ debFiles' \in Collected(debFiles, invocation.args[looked + 1])
    /\ UNCHANGED <<invocation, cfg, backend, signer, lock, server, pc, exit>>

Collect ==
    /\ pc = "configured" /\ Publishing /\ cfg["codename"] # Empty
    /\ ~MoreArgs /\ debFiles # <<>>
    /\ pc' = "collected"
    /\ debFiles' \in Sorted(debFiles)
    /\ UNCHANGED <<invocation, cfg, looked, backend, signer, lock, server, exit>>

\* serve: signal.NotifyContext
Notify ==
    /\ pc = "configured" /\ ~Publishing
    /\ pc' = "notified"
    /\ UNCHANGED <<configuration, server, exit>>

\* buildStorageBackend; it may also fail because of the storage.
HasDirectory == cfg["storage"] = "file"
HasBucket == cfg["storage"] = "s3" /\ cfg["bucket"] # Empty
HasHost == cfg["storage"] = "sftp" /\ cfg["sftp-host"] # Empty
Complete == HasDirectory \/ HasBucket \/ HasHost

BackendFails == pc \in {"collected", "notified"} /\ Ends("error")

\* The publisher gets a signer and a lock, as configured; the manager neither.
ReachStorage ==
    /\ pc \in {"collected", "notified"} /\ Complete
    /\ backend' = TRUE
    /\ pc' = IF Publishing THEN "publish" ELSE "prefetch"
    /\ signer' = (Publishing /\ cfg["sign"])
    /\ lock' = IF Publishing /\ cfg["lock"] THEN [s \in Durations |-> LockDuration(cfg, s)]
               ELSE NoLock
    /\ UNCHANGED <<invocation, cfg, looked, debFiles, server, exit>>

\* PublishDebFiles
Publish == pc = "publish" /\ \E how \in {"ok", "error"} : Ends(how)

-----------------------------------------------------------------------------
\* SyncIndexes, which may fail; and the goroutine that will listen.
Prefetch ==
    /\ pc = "prefetch" /\ pc' = "serving"
    /\ listener' = "starting"
    /\ UNCHANGED <<configuration, signalled, serverErr, shutdown, grace, requests, exit>>

\* The goroutine: ListenAndServe opens the listener unless Shutdown came first, and
\* returns when it fails or Shutdown has closed it.
Listen ==
    /\ pc # "exited" /\ listener = "starting"
    /\ IF shutdown THEN listener' = "closed" /\ serverErr' = "closed"
       ELSE \/ listener' = "open" /\ UNCHANGED serverErr
            \/ listener' = "failed" /\ serverErr' = "error"
    /\ UNCHANGED <<configuration, signalled, shutdown, grace, requests, pc, exit>>

ListenerFails ==
    /\ pc # "exited" /\ listener = "open"
    /\ listener' = "failed" /\ serverErr' = "error"
    /\ UNCHANGED <<configuration, signalled, shutdown, grace, requests, pc, exit>>

\* Clients and handlers.
Send(r) ==
    /\ pc # "exited" /\ ~Publishing /\ requests[r] = "unsent"
    /\ requests' = [requests EXCEPT ![r] = IF listener = "open" THEN "running" ELSE "refused"]
    /\ UNCHANGED <<configuration, signalled, listener, serverErr, shutdown, grace, pc, exit>>

Answer(r) ==
    /\ pc # "exited" /\ requests[r] = "running"
    /\ requests' = [requests EXCEPT ![r] = "answered"]
    /\ UNCHANGED <<configuration, signalled, listener, serverErr, shutdown, grace, pc, exit>>

-----------------------------------------------------------------------------
\* The select statement of serve takes either of two that are ready.
ServerErr ==
    /\ pc = "serving" /\ serverErr # "empty"
    /\ Ends(IF serverErr = "error" THEN "error" ELSE "ok")

\* Shutdown closes the listener, and ListenAndServe returns.
Shutdown ==
    /\ pc = "serving" /\ signalled
    /\ pc' = "draining" /\ shutdown' = TRUE
    /\ listener' = IF listener = "open" THEN "closed" ELSE listener
    /\ serverErr' = IF listener = "open" THEN "closed" ELSE serverErr
    /\ UNCHANGED <<configuration, signalled, grace, requests, exit>>

GraceEnds ==
    /\ pc = "draining" /\ grace /\ grace' = FALSE
    /\ UNCHANGED <<configuration, signalled, listener, serverErr, shutdown, requests, pc, exit>>

\* Bug: Close instead of Shutdown.
CloseAtOnce == pc = "draining" /\ Ends("ok")

\* Shutdown returns when no request is in flight.
Drained == pc = "draining" /\ (\A r \in Requests : requests[r] # "running") /\ Ends("ok")

\* Bug: Shutdown is given no deadline.
NoDeadline == FALSE

DrainFails ==
    /\ pc = "draining" /\ ~grace /\ \E r \in Requests : requests[r] = "running"
    /\ Ends("error")

\* SIGINT or SIGTERM
Signal ==
    /\ pc # "exited" /\ ~signalled
    /\ IF pc \in Catching
       THEN signalled' = TRUE
            /\ UNCHANGED <<configuration, listener, serverErr, shutdown, grace, requests, pc, exit>>
       ELSE Ends("killed")

-----------------------------------------------------------------------------
\* What the main goroutine does by itself.
Main ==
    \/ LoadConfigFails \/ LoadConfig \/ CollectFails \/ CollectArg \/ Collect
    \/ Notify \/ BackendFails \/ ReachStorage \/ Publish \/ Prefetch
    \/ ServerErr \/ Shutdown \/ Drained \/ DrainFails

Next ==
    \/ Main \/ Listen \/ ListenerFails \/ GraceEnds \/ Signal
    \/ \E r \in Requests : Send(r) \/ Answer(r)

\* The main goroutine goes on whenever it can, and so does the one that listens; the
\* calls of the storage return; and time passes.  Handlers may hang.
Spec == Init /\ [][Next]_vars /\ WF_vars(Main) /\ WF_vars(Listen) /\ WF_vars(GraceEnds)

-----------------------------------------------------------------------------
\* The topmost layer that says anything about a setting: the flags, the file, the
\* defaults.  A number of seconds that can be read stands for itself, even if it is more
\* than a Duration holds.
Exact(s, text) == IF s \in Durations /\ text.unit = "none" THEN text.n * Second ELSE ValueOf(s, text)
Layered(s) ==
    IF s \in DOMAIN invocation.flags THEN Exact(s, invocation.flags[s])
    ELSE IF s \in DOMAIN invocation.file /\ ~Zero(s, ValueOf(s, invocation.file[s]))
         THEN Exact(s, invocation.file[s])
    ELSE DefaultConfig[s]

\* What a run of publish works with is what the layers say, whatever they are: it has a
\* codename, and it has a suite; it signs if it is told to, and if it has a key unless the
\* command line says otherwise; and it takes a lock unless it is told not to, with the
\* durations that it is told if they are more than 0 and no more than a Duration holds.
PublishesAsConfigured ==
    backend /\ Publishing =>
        /\ cfg["codename"] = Layered("codename") /\ cfg["codename"] # Empty
        /\ cfg["suite"] = (IF Layered("suite") = Empty THEN cfg["codename"] ELSE Layered("suite"))
        /\ signer <=> \/ Layered("sign")
                      \/ Layered("gpg-key") # Empty /\ "sign" \notin DOMAIN invocation.flags
        /\ \A s \in Durations :
              /\ lock[s] > 0 <=> Layered("lock")
              /\ lock[s] > 0 /\ Layered(s) \in 1..(Limit - 1) => lock[s] = Layered(s)

\* Nothing is done to the storage, not even to look at it, before all that can be wrong
\* with the command line has been looked at; and then every package file that an argument
\* stands for is published, and once.
StorageIsLast ==
    backend =>
        /\ ~BadFlags /\ invocation.file # BadFile /\ Complete
        /\ Publishing =>
              /\ \A n \in DOMAIN invocation.args : ~Bad(invocation.args[n])
              /\ Range(debFiles) = UNION {Debs(invocation.args[n]) : n \in DOMAIN invocation.args}
              /\ \A n \in 1..(Len(debFiles) - 1) : debFiles[n] < debFiles[n + 1]

\* serve exits with success only when it was told to stop, and it has answered every
\* request that it had accepted; and with an error only when the listener failed, the
\* time for requests was over, or it never got as far as to listen.
StopsInOrder ==
    ~Publishing =>
        /\ exit = "ok" => signalled /\ \A r \in Requests : requests[r] # "cut off"
        /\ exit = "error" => listener \in {"none", "failed"} \/ ~grace
        /\ exit = "killed" => ~backend

\* A signal ends the process, however long a request takes and whenever the signal comes,
\* and so does a listener that fails.
StopsWhenTold == (signalled \/ listener = "failed") ~> (pc = "exited")
=============================================================================
