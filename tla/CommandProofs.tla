--------------------------- MODULE CommandProofs ---------------------------
(***************************************************************************)
(* What a command does before it touches the storage, for any flags, file, *)
(* defaults and arguments; and how a server stops, for any requests and    *)
(* any interleaving of the main goroutine, the one that listens, signals   *)
(* and clients.                                                            *)
(***************************************************************************)
EXTENDS Command, FiniteSetTheorems, SequenceTheorems, TLAPS

\* What is between the goroutines of serve: what the channel of errors holds tells how the
\* listener ended, the listener is started by the prefetch, Shutdown is called once a
\* signal has come, and as long as the process runs no request is cut off.
Channel ==
    /\ serverErr \in {"empty", "error", "closed"}
    /\ serverErr = "error" => listener = "failed"
    /\ serverErr = "closed" => shutdown
Progress ==
    /\ pc \in {"start", "configured", "collected", "publish", "exited"} \cup Catching
    /\ pc \in {"start", "configured", "notified", "collected"} => ~backend
    /\ pc \in {"start", "configured", "notified", "collected", "prefetch"} => listener = "none"
    /\ pc \in {"collected", "publish"} => Publishing
    /\ shutdown => pc \in {"draining", "exited"}
    /\ pc = "draining" => signalled
Running ==
    /\ requests \in [Requests -> {"unsent", "running", "answered", "refused", "cut off"}]
    /\ pc # "exited" => exit = "running" /\ \A r \in Requests : requests[r] # "cut off"
ServeInv == Channel /\ Progress /\ Running /\ StopsInOrder

LEMMA InitServe == Init => ServeInv
BY DEF Init, ServeInv, Channel, Progress, Running, StopsInOrder, Serving, Catching, Publishing

\* The end of the process: it only matters how it ends.
LEMMA EndsServe ==
    ASSUME NEW how, ServeInv, Ends(how),
           ~Publishing /\ how = "ok" =>
              signalled /\ \A r \in Requests : requests[r] # "running",
           ~Publishing /\ how = "error" => listener \in {"none", "failed"} \/ ~grace,
           ~Publishing /\ how = "killed" => ~backend,
           pc # "exited"
    PROVE  ServeInv'
<1> USE DEF ServeInv, Ends, configuration, Catching, Serving
<1>1. Channel'
    BY DEF Channel
<1>2. Progress'
    BY DEF Progress, Publishing
<1>3. Running'
    BY DEF Running
<1>4. StopsInOrder'
    BY DEF StopsInOrder, Running, Publishing
<1> QED BY <1>1, <1>2, <1>3, <1>4

\* How the main goroutine ends the process.
LEMMA MainEnds ==
    ASSUME ServeInv,
           LoadConfigFails \/ CollectFails \/ BackendFails \/ Publish \/ ServerErr
              \/ Drained \/ DrainFails
    PROVE  ServeInv'
<1> USE DEF ServeInv
<1>1. CASE LoadConfigFails \/ CollectFails \/ BackendFails
    <2>1. PICK how \in {"error"} : Ends(how)
        BY <1>1 DEF LoadConfigFails, CollectFails, BackendFails
    <2>2. listener = "none" /\ pc # "exited"
        BY <1>1 DEF LoadConfigFails, CollectFails, BackendFails, Progress
    <2> QED BY <2>1, <2>2, EndsServe
<1>2. CASE Publish
    <2>1. PICK how \in {"ok", "error"} : Ends(how)
        BY <1>2 DEF Publish
    <2>2. Publishing /\ pc # "exited"
        BY <1>2 DEF Publish, Progress
    <2> QED BY <2>1, <2>2, EndsServe
<1>3. CASE ServerErr
    \* At serving nothing has called Shutdown: what the channel holds is an error.
    <2>1. serverErr = "error" /\ listener = "failed" /\ pc # "exited"
        BY <1>3 DEF ServerErr, Channel, Progress
    <2>2. PICK how \in {"error"} : Ends(how)
        BY <1>3, <2>1 DEF ServerErr
    <2> QED BY <2>1, <2>2, EndsServe
<1>4. CASE Drained
    <2>1. signalled /\ pc # "exited" /\ \A r \in Requests : requests[r] # "running"
        BY <1>4 DEF Drained, Progress
    <2>2. PICK how \in {"ok"} : Ends(how)
        BY <1>4 DEF Drained
    <2> QED BY <2>1, <2>2, EndsServe
<1>5. CASE DrainFails
    <2>1. ~grace /\ pc # "exited"
        BY <1>5 DEF DrainFails
    <2>2. PICK how \in {"error"} : Ends(how)
        BY <1>5 DEF DrainFails
    <2> QED BY <2>1, <2>2, EndsServe
<1> QED BY <1>1, <1>2, <1>3, <1>4, <1>5

\* The main goroutine's way to the end.
LEMMA MainGoesOn ==
    ASSUME ServeInv,
           LoadConfig \/ CollectArg \/ Collect \/ Notify \/ ReachStorage \/ Prefetch \/ Shutdown
    PROVE  ServeInv'
<1> USE DEF ServeInv, configuration, server, Catching, Serving
<1>1. CASE LoadConfig \/ CollectArg \/ Collect \/ Notify
    <2>1. UNCHANGED <<server, exit, invocation, backend>> /\ pc \in {"start", "configured"}
        BY <1>1 DEF LoadConfig, CollectArg, Collect, Notify
    <2>2. pc' \in {"configured", "collected", "notified"} /\ (pc' = "collected" => Publishing)
        BY <1>1 DEF LoadConfig, CollectArg, Collect, Notify
    <2> QED BY <2>1, <2>2 DEF Channel, Progress, Running, StopsInOrder, Publishing
<1>2. CASE ReachStorage
    <2>1. /\ UNCHANGED <<server, exit, invocation>> /\ pc \in {"collected", "notified"}
          /\ pc' = IF Publishing THEN "publish" ELSE "prefetch"
        BY <1>2 DEF ReachStorage
    <2> QED BY <2>1 DEF Channel, Progress, Running, StopsInOrder, Publishing
<1>3. CASE Prefetch
    <2>1. Channel'
        BY <1>3 DEF Prefetch, Channel, Progress
    <2>2. Progress'
        BY <1>3 DEF Prefetch, Progress, Publishing
    <2>3. Running'
        BY <1>3 DEF Prefetch, Running
    <2>4. StopsInOrder'
        BY <1>3 DEF Prefetch, StopsInOrder, Running, Publishing
    <2> QED BY <2>1, <2>2, <2>3, <2>4
<1>4. CASE Shutdown
    <2>1. Channel'
        BY <1>4 DEF Shutdown, Channel, Progress
    <2>2. Progress'
        BY <1>4 DEF Shutdown, Progress, Publishing
    <2>3. Running'
        BY <1>4 DEF Shutdown, Running
    <2>4. StopsInOrder'
        BY <1>4 DEF Shutdown, StopsInOrder, Running, Publishing
    <2> QED BY <2>1, <2>2, <2>3, <2>4
<1> QED BY <1>1, <1>2, <1>3, <1>4

\* The listener, its clients and the clock.
LEMMA OthersGoOn ==
    ASSUME ServeInv,
           Listen \/ ListenerFails \/ GraceEnds \/ (\E r \in Requests : Send(r) \/ Answer(r))
    PROVE  ServeInv'
<1> USE DEF ServeInv, configuration, Catching, Serving
<1>1. CASE Listen
    <2>1. Channel'
        BY <1>1 DEF Listen, Channel, Progress
    <2>2. Progress'
        BY <1>1 DEF Listen, Progress, Publishing
    <2>3. Running'
        BY <1>1 DEF Listen, Running
    <2>4. StopsInOrder'
        BY <1>1 DEF Listen, StopsInOrder, Running, Publishing
    <2> QED BY <2>1, <2>2, <2>3, <2>4
<1>2. CASE ListenerFails
    <2>1. Channel'
        BY <1>2 DEF ListenerFails, Channel, Progress
    <2>2. Progress'
        BY <1>2 DEF ListenerFails, Progress, Publishing
    <2>3. Running'
        BY <1>2 DEF ListenerFails, Running
    <2>4. StopsInOrder'
        BY <1>2 DEF ListenerFails, StopsInOrder, Running, Publishing
    <2> QED BY <2>1, <2>2, <2>3, <2>4
<1>3. CASE GraceEnds
    <2>1. Channel'
        BY <1>3 DEF GraceEnds, Channel, Progress
    <2>2. Progress'
        BY <1>3 DEF GraceEnds, Progress, Publishing
    <2>3. Running'
        BY <1>3 DEF GraceEnds, Running
    <2>4. StopsInOrder'
        BY <1>3 DEF GraceEnds, StopsInOrder, Running, Publishing
    <2> QED BY <2>1, <2>2, <2>3, <2>4
<1>4. CASE \E r \in Requests : Send(r) \/ Answer(r)
    <2>1. PICK r \in Requests : Send(r) \/ Answer(r)
        BY <1>4
    <2>2. /\ pc # "exited"
          /\ UNCHANGED <<configuration, signalled, listener, serverErr, shutdown, grace, pc, exit>>
        BY <2>1 DEF Send, Answer
    <2>3. \A q \in Requests : requests'[q] # "cut off"
        BY <2>1, <2>2 DEF Send, Answer, Running
    <2>4. requests' \in [Requests -> {"unsent", "running", "answered", "refused", "cut off"}]
        BY <2>1 DEF Send, Answer, Running
    <2>5. Channel' /\ Progress'
        BY <2>2 DEF Channel, Progress, Publishing
    <2>6. Running' /\ StopsInOrder'
        BY <2>2, <2>3, <2>4 DEF Running, StopsInOrder, Publishing
    <2> QED BY <2>5, <2>6
<1> QED BY <1>1, <1>2, <1>3, <1>4

\* A signal either cancels the context or kills.
LEMMA SignalServe == ServeInv /\ Signal => ServeInv'
<1> SUFFICES ASSUME ServeInv, Signal PROVE ServeInv'
    OBVIOUS
<1>1. CASE pc \in Catching
    <2>1. UNCHANGED <<configuration, listener, serverErr, shutdown, grace, requests, pc, exit>>
        BY <1>1 DEF Signal
    <2>2. signalled' = TRUE
        BY <1>1 DEF Signal
    <2>3. pc # "exited"
        BY DEF Signal
    <2>4. Channel' /\ Progress' /\ Running'
        BY <2>1, <2>2 DEF ServeInv, Channel, Progress, Running, Publishing, configuration,
            Catching, Serving
    <2>5. StopsInOrder'
        BY <2>1, <2>3 DEF ServeInv, Running, StopsInOrder, Publishing, configuration
    <2> QED BY <2>4, <2>5 DEF ServeInv
<1>2. CASE pc \notin Catching
    <2>1. PICK how \in {"killed"} : Ends(how)
        BY <1>2 DEF Signal
    <2>2. ~Publishing => ~backend
        BY <1>2 DEF ServeInv, Signal, Progress, Catching, Serving
    <2> QED BY <2>1, <2>2, EndsServe DEF Signal
<1> QED BY <1>1, <1>2

LEMMA NextServe == ServeInv /\ [Next]_vars => ServeInv'
<1> SUFFICES ASSUME ServeInv, [Next]_vars PROVE ServeInv'
    OBVIOUS
<1>1. CASE Main
    BY <1>1, MainEnds, MainGoesOn DEF Main
<1>2. CASE Listen \/ ListenerFails \/ GraceEnds \/ (\E r \in Requests : Send(r) \/ Answer(r))
    BY <1>2, OthersGoOn
<1>3. CASE Signal
    BY <1>3, SignalServe
<1>4. CASE UNCHANGED vars
    BY <1>4 DEF vars, configuration, server, ServeInv, Channel, Progress, Running,
        StopsInOrder, Publishing, Catching, Serving
<1> QED BY <1>1, <1>2, <1>3, <1>4 DEF Next

\* serve exits with success only when it was told to stop and has answered every request
\* that it accepted, and with an error only when its listener failed, the grace period was
\* over or it never got as far as to listen: whatever requests there are, and however the
\* steps of its goroutines and the signal interleave.
THEOREM StopTheorem == Spec => []StopsInOrder
<1>1. Init => ServeInv
    BY InitServe
<1>2. ServeInv /\ [Next]_vars => ServeInv'
    BY NextServe
<1>3. ServeInv => StopsInOrder
    BY DEF ServeInv
<1> QED BY <1>1, <1>2, <1>3, PTL DEF Spec

-----------------------------------------------------------------------------
\* What the layers make of a setting, before anything falls back on another setting: the
\* flag, or else the file unless what it says leaves the setting as it is, or else the
\* default.  In contrast to Layered this is a value that has been parsed.
Merged(i, s) ==
    IF s \in DOMAIN i.flags THEN ValueOf(s, i.flags[s])
    ELSE IF s \in DOMAIN i.file /\ s \notin Lists /\ ~Zero(s, ValueOf(s, i.file[s]))
         THEN ValueOf(s, i.file[s])
    ELSE DefaultConfig[s]

\* The settings are of one kind each.
LEMMA KindsApart ==
    /\ Strings \subseteq Settings /\ Bools \subseteq Settings /\ Durations \subseteq Settings
    /\ Durations \cap (Strings \cup Bools \cup Ints \cup Lists) = {}
    /\ Bools \cap (Strings \cup Ints \cup Lists) = {}
    /\ Strings \cap (Ints \cup Lists) = {} /\ Ints \cap Lists = {}
BY DEF Settings, Strings, Bools, Ints, Durations, Lists

\* The defaults are values of their settings, and the durations are positive.
LEMMA Defaults ==
    /\ DOMAIN DefaultConfig = Settings
    /\ \A s \in Strings \ {"storage"} : DefaultConfig[s] = Empty
    /\ DefaultConfig["sign"] = FALSE /\ DefaultConfig["lock"] = TRUE
    /\ \A s \in Durations : DefaultConfig[s] \in 1..(Limit - 1)
<1>1. DOMAIN DefaultConfig = Settings
    BY DEF DefaultConfig
<1>2. DefaultConfig["storage"] = "file"
    BY DEF DefaultConfig, Settings, Strings, Lists
<1>3. \A s \in Strings \ {"storage"} : DefaultConfig[s] = Empty
    BY DEF DefaultConfig, Settings, Strings, Lists
<1>4. DefaultConfig["sign"] = FALSE /\ DefaultConfig["lock"] = TRUE
    BY DEF DefaultConfig, Settings, Strings, Bools, Lists
<1>5. DefaultConfig["lock-timeout"] = 2 * Second /\ DefaultConfig["lock-ttl"] = 3 * Second
    BY DEF DefaultConfig, Settings, Strings, Durations, Lists, DefaultTimeout, DefaultTTL
<1>6. 2 * Second \in 1..(Limit - 1) /\ 3 * Second \in 1..(Limit - 1)
    BY DurationAssumption
<1> QED BY <1>1, <1>3, <1>4, <1>5, <1>6 DEF Durations

\* A product of 64 bits is a Duration, and it is the product if that is one.
LEMMA WrapFits ==
    ASSUME NEW n \in Int
    PROVE  Wrap(n) \in -Limit..(Limit - 1) /\ (n \in 0..(Limit - 1) => Wrap(n) = n)
<1>1. Limit \in Nat /\ Limit > 0
    BY DurationAssumption
<1>2. (n + Limit) % (2 * Limit) \in 0..(2 * Limit - 1)
    BY <1>1
<1>3. ASSUME n \in 0..(Limit - 1) PROVE (n + Limit) % (2 * Limit) = n + Limit
    BY <1>1, <1>3
<1> QED BY <1>1, <1>2, <1>3 DEF Wrap

\* A duration that is accepted is one, and it is what the text says if that is one.
LEMMA ParsedDuration ==
    ASSUME NEW s \in Durations, NEW text, IsText(s, text), ValueOf(s, text) # Invalid
    PROVE  /\ ValueOf(s, text) \in -Limit..(Limit - 1)
           /\ Exact(s, text) \in 1..(Limit - 1) => ValueOf(s, text) = Exact(s, text)
<1>1. /\ text \in [unit : {"none", "ns"}, n : Int]
      /\ text # Unreadable /\ text.n \in 0..(Limit - 1)
    BY DEF IsText, ValueOf, ParseDurationFlexible
<1>4. text.n \in Int /\ text.unit \in {"none", "ns"}
    BY <1>1
<1>2. CASE text.unit = "none"
    <2>1. text.n * Second \in Int
        BY <1>4, DurationAssumption
    <2>2. ValueOf(s, text) = Wrap(text.n * Second) /\ Exact(s, text) = text.n * Second
        BY <1>1, <1>2 DEF ValueOf, ParseDurationFlexible, Exact
    <2> QED BY <1>1, <1>4, <2>1, <2>2, WrapFits, DurationAssumption
<1>3. CASE text.unit # "none"
    <2>1. ValueOf(s, text) = text.n /\ Exact(s, text) = text.n
        BY <1>1, <1>3 DEF ValueOf, ParseDurationFlexible, Exact
    <2> QED BY <1>1, <1>3, <1>4, <2>1, DurationAssumption
<1> QED BY <1>2, <1>3

\* Merging the file into what the flags have set is to take the topmost layer.
LEMMA MergeIsTopmost ==
    ASSUME NEW i \in Invocations, i.file # BadFile
    PROVE  LET merged == loadConfigWithPrecedence(i.flags, i.file) IN
           DOMAIN merged = Settings /\ \A s \in Settings : merged[s] = Merged(i, s)
<1> DEFINE merged == loadConfigWithPrecedence(i.flags, i.file)
           loaded == LoadConfigFile(i.file, DefaultConfig)
<1>1. DOMAIN merged = Settings
    BY DEF loadConfigWithPrecedence
<1>2. ASSUME NEW s \in Settings PROVE merged[s] = Merged(i, s)
    <2>1. merged[s] = IF s \in DOMAIN i.flags \cup Lists \/ Zero(s, loaded[s])
                      THEN FromFlags(i.flags)[s] ELSE loaded[s]
        BY DEF loadConfigWithPrecedence
    <2>2. loaded[s] = IF s \in DOMAIN i.file /\ ~Zero(s, ValueOf(s, i.file[s]))
                      THEN ValueOf(s, i.file[s]) ELSE DefaultConfig[s]
        BY DEF LoadConfigFile
    <2>3. FromFlags(i.flags)[s] =
              IF s \in DOMAIN i.flags THEN ValueOf(s, i.flags[s]) ELSE DefaultConfig[s]
        BY DEF FromFlags
    <2> HIDE DEF merged, loaded
    <2> QED BY <2>1, <2>2, <2>3 DEF Merged
<1> QED BY <1>1, <1>2

\* What the layers make of a setting is a value of it.
LEMMA MergedTyped ==
    ASSUME NEW i \in Invocations, i.file # BadFile,
           \A s \in DOMAIN i.flags : ValueOf(s, i.flags[s]) # Invalid
    PROVE  /\ \A s \in Bools : Merged(i, s) \in BOOLEAN
           /\ \A s \in Durations : Merged(i, s) \in -Limit..(Limit - 1)
<1>1. AreTexts(i.flags) /\ AreTexts(i.file)
    BY InvocationAssumption
<1>3. ASSUME NEW s \in Bools PROVE Merged(i, s) \in BOOLEAN
    BY <1>1, KindsApart, Defaults DEF Merged, AreTexts, IsText, ValueOf, Bools
<1>4. ASSUME NEW s \in Durations PROVE Merged(i, s) \in -Limit..(Limit - 1)
    <2>1. CASE s \in DOMAIN i.flags
        BY <1>1, <2>1, ParsedDuration DEF Merged, AreTexts
    <2>2. CASE s \notin DOMAIN i.flags /\ s \in DOMAIN i.file /\ ~Zero(s, ValueOf(s, i.file[s]))
        <3>1. ValueOf(s, i.file[s]) # Invalid
            BY <2>2 DEF Zero
        <3> QED BY <1>1, <2>2, <3>1, ParsedDuration, KindsApart DEF Merged, AreTexts
    <2>3. CASE s \notin DOMAIN i.flags /\ ~(s \in DOMAIN i.file /\ ~Zero(s, ValueOf(s, i.file[s])))
        BY <2>3, Defaults, DurationAssumption DEF Merged
    <2> QED BY <2>1, <2>2, <2>3
<1> QED BY <1>3, <1>4

-----------------------------------------------------------------------------
LEMMA FunctionIsSeq ==
    ASSUME NEW S, NEW n \in Nat, NEW f \in [1..n -> S]
    PROVE  f \in Seq(S) /\ Len(f) = n
<1>1. f = [i \in 1..n |-> f[i]]
    OBVIOUS
<1>2. [i \in 1..n |-> f[i]] \in Seq(S) /\ Len([i \in 1..n |-> f[i]]) = n
    OBVIOUS
<1> QED BY <1>1, <1>2

\* A list of a set is a sequence that has each of its members once.
LEMMA ListingLists ==
    ASSUME NEW S, IsFiniteSet(S), S \subseteq Nat, NEW new \in Listings(S)
    PROVE  new \in Seq(Nat) /\ IsInjective(new) /\ Range(new) = S
<1>1. Cardinality(S) \in Nat
    BY FS_CardinalityType
<1>2. /\ new \in [1..Cardinality(S) -> S] /\ IsInjective(new)
      /\ \A t \in S : \E n \in 1..Cardinality(S) : new[n] = t
    BY DEF Listings, Bijection, Injection, Surjection
<1>3. new \in Seq(Nat)
    BY <1>1, <1>2, FunctionIsSeq
<1>4. Range(new) = S
    BY <1>2 DEF Range
<1> QED BY <1>2, <1>3, <1>4

\* The package files of an argument are finitely many paths.
LEMMA DebsAreFinite ==
    ASSUME NEW arg, IsArgument(arg)
    PROVE  IsFiniteSet(Debs(arg)) /\ Debs(arg) \subseteq Nat
<1> DEFINE entries == {e \in arg.found : e.kind = "deb"}
<1>1. IsFiniteSet(entries)
    BY FS_Subset DEF IsArgument
<1>2. [e \in entries |-> e.path] \in Surjection(entries, Debs(arg))
    BY DEF Surjection, Debs
<1>3. IsFiniteSet(Debs(arg))
    BY <1>1, <1>2, FS_Surjection
<1> QED BY <1>3 DEF Debs, IsArgument

\* What has been collected has every path once, and one argument adds its files.
LEMMA CollectedFiles ==
    ASSUME NEW resolved \in Seq(Nat), IsInjective(resolved), NEW arg, IsArgument(arg),
           NEW seq \in Collected(resolved, arg)
    PROVE  seq \in Seq(Nat) /\ IsInjective(seq) /\ Range(seq) = Range(resolved) \cup Debs(arg)
<1> DEFINE S == Debs(arg) \ Range(resolved)
<1>1. IsFiniteSet(S) /\ S \subseteq Nat
    BY DebsAreFinite, FS_Difference
<1>2. PICK new \in Listings(S) : seq = resolved \o new
    BY DEF Collected
<1>3. new \in Seq(Nat) /\ IsInjective(new) /\ Range(new) = S
    BY <1>1, ListingLists
<1>4. /\ seq \in Seq(Nat) /\ Len(seq) = Len(resolved) + Len(new)
      /\ \A n \in 1..Len(resolved) : seq[n] = resolved[n]
      /\ \A n \in 1..Len(new) : seq[Len(resolved) + n] = new[n]
      /\ \A n \in (Len(resolved) + 1)..Len(seq) :
            n - Len(resolved) \in 1..Len(new) /\ seq[n] = new[n - Len(resolved)]
    BY <1>2, <1>3
<1>8. /\ DOMAIN seq = 1..Len(seq) /\ Len(seq) \in Nat
      /\ DOMAIN resolved = 1..Len(resolved) /\ Len(resolved) \in Nat
      /\ DOMAIN new = 1..Len(new) /\ Len(new) \in Nat
    BY <1>3, <1>4
<1>5. Range(seq) = Range(resolved) \cup S
    <2>1. ASSUME NEW x \in Range(seq) PROVE x \in Range(resolved) \cup S
        <3>1. PICK n \in 1..Len(seq) : x = seq[n]
            BY <1>4 DEF Range
        <3>2. CASE n \in 1..Len(resolved)
            BY <1>4, <3>1, <3>2 DEF Range
        <3>3. CASE n \in (Len(resolved) + 1)..Len(seq)
            <4>1. x = new[n - Len(resolved)] /\ n - Len(resolved) \in DOMAIN new
                BY <1>3, <1>4, <3>1, <3>3
            <4> QED BY <1>3, <4>1 DEF Range
        <3> QED BY <1>4, <3>1, <3>2, <3>3
    <2>2. Range(resolved) \subseteq Range(seq)
        <3>1. \A n \in DOMAIN resolved : n \in DOMAIN seq /\ resolved[n] = seq[n]
            BY <1>4, <1>8
        <3> QED BY <3>1 DEF Range
    <2>3. ASSUME NEW x \in S PROVE x \in Range(seq)
        <3>1. PICK n \in 1..Len(new) : x = new[n]
            BY <1>3 DEF Range
        <3>2. Len(resolved) + n \in DOMAIN seq /\ seq[Len(resolved) + n] = x
            BY <1>3, <1>4, <3>1
        <3> QED BY <3>2 DEF Range
    <2> QED BY <2>1, <2>2, <2>3
<1>6. ASSUME NEW m \in 1..Len(seq), NEW n \in 1..Len(seq), m < n PROVE seq[m] # seq[n]
    <2>1. CASE n \in 1..Len(resolved)
        <3>1. m \in DOMAIN resolved /\ n \in DOMAIN resolved
            BY <1>6, <1>8, <2>1
        <3> QED BY <1>4, <1>6, <1>8, <2>1, <3>1 DEF IsInjective
    <2>2. CASE m \in 1..Len(resolved) /\ n \in (Len(resolved) + 1)..Len(seq)
        <3>1. seq[m] \in Range(resolved)
            BY <1>4, <1>8, <2>2 DEF Range
        <3>2. seq[n] \in S
            BY <1>3, <1>4, <1>8, <2>2 DEF Range
        <3> QED BY <3>1, <3>2
    <2>3. CASE m \in (Len(resolved) + 1)..Len(seq) /\ n \in (Len(resolved) + 1)..Len(seq)
        <3>1. m - Len(resolved) \in DOMAIN new /\ n - Len(resolved) \in DOMAIN new
            BY <1>3, <1>4, <2>3
        <3>2. m - Len(resolved) # n - Len(resolved)
            BY <1>6
        <3> QED BY <1>3, <1>4, <2>3, <3>1, <3>2 DEF IsInjective
    <2> QED BY <1>4, <1>6, <1>8, <2>1, <2>2, <2>3
<1>7. IsInjective(seq)
    <2>1. \A m, n \in DOMAIN seq : m < n \/ n < m \/ m = n
        BY <1>8
    <2> QED BY <1>6, <1>8, <2>1 DEF IsInjective
<1> QED BY <1>4, <1>5, <1>7

\* Sorting keeps what is there.
LEMMA SortedFiles ==
    ASSUME NEW resolved \in Seq(Nat), IsInjective(resolved), NEW seq \in Sorted(resolved)
    PROVE  /\ seq \in Seq(Nat) /\ IsInjective(seq) /\ Range(seq) = Range(resolved)
           /\ Len(seq) = Len(resolved)
           /\ \A n \in 1..(Len(seq) - 1) : seq[n] <= seq[n + 1]
<1> DEFINE D == 1..Len(resolved)
<1>1. DOMAIN resolved = D /\ Len(resolved) \in Nat /\ \A n \in D : resolved[n] \in Nat
    OBVIOUS
<1>2. PICK p \in Bijection(D, D) : seq = [n \in D |-> resolved[p[n]]]
    BY <1>1 DEF Sorted
<1>3. p \in [D -> D] /\ IsInjective(p) /\ \A t \in D : \E n \in D : p[n] = t
    BY DEF Bijection, Injection, Surjection
<1>4. seq \in Seq(Nat) /\ Len(seq) = Len(resolved)
    <2>1. seq \in [D -> Nat]
        BY <1>1, <1>2, <1>3
    <2> QED BY <1>1, <2>1, SMTT(30)
<1>5. \A n \in 1..(Len(seq) - 1) : seq[n] <= seq[n + 1]
    <2>1. \A n \in 1..(Len(resolved) - 1) : seq[n] <= seq[n + 1]
        BY DEF Sorted
    <2> QED BY <1>4, <2>1
<1>6. IsInjective(seq)
    <2>1. ASSUME NEW a \in D, NEW b \in D, seq[a] = seq[b] PROVE a = b
        <3>1. p[a] \in D /\ p[b] \in D /\ resolved[p[a]] = resolved[p[b]]
            BY <1>2, <1>3, <2>1
        <3>2. p[a] = p[b]
            BY <1>1, <3>1 DEF IsInjective
        <3> QED BY <1>3, <3>2 DEF IsInjective
    <2>2. DOMAIN seq = D
        BY <1>2
    <2> QED BY <2>1, <2>2 DEF IsInjective
<1>7. Range(seq) = Range(resolved)
    BY <1>1, <1>2, <1>3 DEF Range
<1> QED BY <1>4, <1>5, <1>6, <1>7

-----------------------------------------------------------------------------
\* The configuration that an invocation works with.
Working(i) == normalizeConfig(loadConfigWithPrecedence(i.flags, i.file), i.flags, i.user)

LEMMA WorkingSettings ==
    ASSUME NEW i \in Invocations, i.file # BadFile
    PROVE  /\ DOMAIN Working(i) = Settings
           /\ \A s \in Settings \ {"suite", "sign", "sftp-user"} : Working(i)[s] = Merged(i, s)
           /\ Working(i)["suite"] = IF Merged(i, "suite") = Empty THEN Merged(i, "codename")
                                    ELSE Merged(i, "suite")
           /\ Working(i)["sign"] = (\/ Merged(i, "sign")
                                    \/ Merged(i, "gpg-key") # Empty /\ "sign" \notin DOMAIN i.flags)
<1> DEFINE merged == loadConfigWithPrecedence(i.flags, i.file)
<1>1. DOMAIN merged = Settings /\ \A s \in Settings : merged[s] = Merged(i, s)
    BY MergeIsTopmost
<1>2. {"suite", "sign", "sftp-user", "codename", "gpg-key", "storage"} \subseteq Settings
    BY DEF Settings, Strings, Bools
<1>3. Working(i) = normalizeConfig(merged, i.flags, i.user)
    BY DEF Working
<1> HIDE DEF merged
<1>4. DOMAIN Working(i) = Settings
    BY <1>1, <1>3 DEF normalizeConfig
<1>5. \A s \in Settings \ {"suite", "sign", "sftp-user"} : Working(i)[s] = merged[s]
    BY <1>1, <1>3 DEF normalizeConfig
<1>6. Working(i)["suite"] = IF merged["suite"] = Empty THEN merged["codename"] ELSE merged["suite"]
    BY <1>1, <1>2, <1>3 DEF normalizeConfig
<1>7. Working(i)["sign"] =
          (merged["sign"] \/ (merged["gpg-key"] # Empty /\ "sign" \notin DOMAIN i.flags))
    BY <1>1, <1>2, <1>3 DEF normalizeConfig
<1> QED BY <1>1, <1>2, <1>4, <1>5, <1>6, <1>7

\* What the layers say, and what is made of it.
LEMMA LayeredIsMerged ==
    ASSUME invocation \in Invocations, invocation.file # BadFile, ~BadFlags
    PROVE  /\ \A s \in Strings \cup Bools : Layered(s) = Merged(invocation, s)
           /\ \A s \in Durations :
                 Layered(s) \in 1..(Limit - 1) => Merged(invocation, s) = Layered(s)
<1>1. AreTexts(invocation.flags) /\ AreTexts(invocation.file)
    BY InvocationAssumption
<1>2. ASSUME NEW s \in Strings \cup Bools PROVE Layered(s) = Merged(invocation, s)
    <2>1. s \notin Durations /\ s \notin Lists
        BY KindsApart
    <2> QED BY <2>1 DEF Layered, Merged, Exact, ValueOf
<1>3. ASSUME NEW s \in Durations, Layered(s) \in 1..(Limit - 1)
      PROVE  Merged(invocation, s) = Layered(s)
    <2>1. CASE s \in DOMAIN invocation.flags
        <3>1. IsText(s, invocation.flags[s]) /\ ValueOf(s, invocation.flags[s]) # Invalid
            BY <1>1, <2>1 DEF AreTexts, BadFlags
        <3> QED BY <1>3, <2>1, <3>1, ParsedDuration DEF Layered, Merged
    <2>2. CASE /\ s \notin DOMAIN invocation.flags /\ s \in DOMAIN invocation.file
               /\ ~Zero(s, ValueOf(s, invocation.file[s]))
        <3>1. IsText(s, invocation.file[s]) /\ ValueOf(s, invocation.file[s]) # Invalid
            BY <1>1, <2>2 DEF AreTexts, Zero
        <3> QED BY <1>3, <2>2, <3>1, ParsedDuration, KindsApart DEF Layered, Merged
    <2>3. CASE /\ s \notin DOMAIN invocation.flags
               /\ ~(s \in DOMAIN invocation.file /\ ~Zero(s, ValueOf(s, invocation.file[s])))
        BY <2>3 DEF Layered, Merged
    <2> QED BY <2>1, <2>2, <2>3
<1> QED BY <1>2, <1>3

-----------------------------------------------------------------------------
\* The way through the configuration and the arguments.  Once it has been read the
\* configuration is what the invocation makes, and the backend is given what it says; what
\* has been collected is what the arguments looked at so far stand for, each path once, and
\* before the storage is reached every argument has been looked at and the list is sorted.
Accepted == ~BadFlags /\ invocation.file # BadFile /\ cfg = Working(invocation)
AsConfigured ==
    /\ signer = (Publishing /\ cfg["sign"])
    /\ lock = IF Publishing /\ cfg["lock"] THEN [s \in Durations |-> LockDuration(cfg, s)]
              ELSE NoLock
ConfiguredInv ==
    /\ invocation \in Invocations /\ backend \in BOOLEAN
    /\ pc = "notified" => ~Publishing
    /\ cfg = DefaultConfig \/ Accepted
    /\ pc \notin {"start", "exited"} \/ backend => Accepted
    /\ pc = "collected" \/ (backend /\ Publishing) => cfg["codename"] # Empty
    /\ IF backend THEN Complete /\ AsConfigured ELSE signer = FALSE /\ lock = NoLock

Ready == looked = Len(invocation.args) /\ debFiles # <<>>
         /\ \A n \in 1..(Len(debFiles) - 1) : debFiles[n] <= debFiles[n + 1]
CollectInv ==
    /\ looked \in 0..Len(invocation.args)
    /\ debFiles \in Seq(Nat) /\ IsInjective(debFiles)
    /\ Range(debFiles) = UNION {Debs(invocation.args[n]) : n \in 1..looked}
    /\ \A n \in 1..looked : ~Bad(invocation.args[n])
    /\ pc \in {"collected", "publish"} \/ (backend /\ Publishing) => Ready

\* The types of what the goroutines of serve share.
SharedTypes ==
    /\ signalled \in BOOLEAN /\ shutdown \in BOOLEAN /\ grace \in BOOLEAN
    /\ listener \in {"none", "starting", "open", "failed", "closed"}
    /\ exit \in {"running", "ok", "error", "killed"} /\ (pc = "exited" <=> exit # "running")
    /\ shutdown => signalled
CommandInv == ServeInv /\ ConfiguredInv /\ CollectInv /\ SharedTypes

LEMMA InitCommand == Init => ConfiguredInv /\ CollectInv /\ SharedTypes
<1> SUFFICES ASSUME Init PROVE ConfiguredInv /\ CollectInv /\ SharedTypes
    OBVIOUS
<1>1. ConfiguredInv
    BY DEF Init, ConfiguredInv
<1>2. CollectInv
    <2>1. Len(invocation.args) \in Nat
        BY InvocationAssumption DEF Init
    <2>2. debFiles = <<>> /\ looked = 0 /\ pc = "start" /\ backend = FALSE
        BY DEF Init
    <2>3. Range(debFiles) = {} /\ IsInjective(debFiles)
        BY <2>2 DEF Range, IsInjective
    <2>4. 1..looked = {}
        BY <2>2
    <2>5. debFiles \in Seq(Nat) /\ looked \in 0..Len(invocation.args)
        BY <2>1, <2>2
    <2> QED BY <2>2, <2>3, <2>4, <2>5 DEF CollectInv
<1>3. SharedTypes
    BY DEF Init, SharedTypes
<1> QED BY <1>1, <1>2, <1>3

\* What has been configured and collected stays, as long as no step touches it.
LEMMA ConfigurationStays ==
    ASSUME ConfiguredInv, CollectInv, UNCHANGED configuration,
           pc' \in {pc, "exited"} \/ pc \notin {"start", "exited"},
           pc' \in {"collected", "publish"} => pc' = pc,
           pc' = "notified" => pc' = pc \/ ~Publishing
    PROVE  ConfiguredInv' /\ CollectInv'
<1>1. UNCHANGED <<invocation, cfg, looked, debFiles, backend, signer, lock>>
    BY DEF configuration
<1>2. BadFlags' = BadFlags /\ Publishing' = Publishing /\ Complete' = Complete
    BY <1>1 DEF BadFlags, Publishing, Complete, HasDirectory, HasBucket, HasHost
<1>3. Accepted' = Accepted /\ AsConfigured' = AsConfigured /\ Ready' = Ready
    BY <1>1, <1>2 DEF Accepted, AsConfigured, Ready
<1>4. ConfiguredInv'
    BY <1>1, <1>2, <1>3 DEF ConfiguredInv
<1>5. CollectInv'
    BY <1>1, <1>2, <1>3 DEF CollectInv
<1> QED BY <1>4, <1>5

LEMMA LoadConfigStep ==
    ASSUME Progress, ConfiguredInv, CollectInv, LoadConfig
    PROVE  ConfiguredInv' /\ CollectInv'
<1>1. UNCHANGED <<invocation, looked, debFiles, backend, signer, lock>>
    BY DEF LoadConfig
<1>2. pc = "start" /\ pc' = "configured" /\ ~backend
    BY DEF LoadConfig, Progress
<1>3. BadFlags' = BadFlags /\ Publishing' = Publishing
    BY <1>1 DEF BadFlags, Publishing
<1>4. Accepted'
    BY <1>1, <1>3 DEF LoadConfig, Accepted, Working
<1>5. ConfiguredInv'
    BY <1>1, <1>2, <1>4 DEF ConfiguredInv
<1>6. CollectInv'
    BY <1>1, <1>2, <1>3 DEF CollectInv, Ready
<1> QED BY <1>5, <1>6

\* One more argument.
LEMMA CollectArgStep ==
    ASSUME Progress, ConfiguredInv, CollectInv, CollectArg
    PROVE  ConfiguredInv' /\ CollectInv'
<1>1. UNCHANGED <<invocation, cfg, backend, signer, lock, pc>> /\ pc = "configured" /\ ~backend
    BY DEF CollectArg, Progress
<1>2. BadFlags' = BadFlags /\ Publishing' = Publishing
    BY <1>1 DEF BadFlags, Publishing
<1>3. ConfiguredInv'
    BY <1>1, <1>2 DEF ConfiguredInv, Accepted
<1> DEFINE arg == invocation.args[looked + 1]
<1>4. Len(invocation.args) \in Nat /\ DOMAIN invocation.args = 1..Len(invocation.args)
    BY InvocationAssumption DEF ConfiguredInv
<1>5. /\ looked' = looked + 1 /\ looked' \in 0..Len(invocation.args) /\ looked \in Nat
      /\ looked + 1 \in DOMAIN invocation.args
    BY <1>4 DEF CollectArg, MoreArgs, CollectInv
<1>6. IsArgument(arg)
    BY <1>5, InvocationAssumption DEF ConfiguredInv, Range
<1>7. ~Bad(arg) /\ debFiles' \in Collected(debFiles, arg)
    BY DEF CollectArg
<1>8. /\ debFiles' \in Seq(Nat) /\ IsInjective(debFiles')
      /\ Range(debFiles') = Range(debFiles) \cup Debs(arg)
    BY <1>6, <1>7, CollectedFiles DEF CollectInv
<1>9. \A n \in 1..looked' : n \in 1..looked \/ n = looked + 1
    BY <1>5
<1>10. \A n \in 1..looked' : ~Bad(invocation.args[n])
    BY <1>7, <1>9 DEF CollectInv
<1>11. Range(debFiles') = UNION {Debs(invocation.args[n]) : n \in 1..looked'}
    <2>1. 1..looked' = (1..looked) \cup {looked + 1}
        BY <1>5
    <2>2. Range(debFiles) = UNION {Debs(invocation.args[n]) : n \in 1..looked}
        BY DEF CollectInv
    <2> QED BY <1>8, <2>1, <2>2
<1>12. CollectInv'
    BY <1>1, <1>5, <1>8, <1>10, <1>11 DEF CollectInv
<1> QED BY <1>3, <1>12

\* The end of the collection.
LEMMA CollectStep ==
    ASSUME Progress, ConfiguredInv, CollectInv, Collect
    PROVE  ConfiguredInv' /\ CollectInv'
<1>1. /\ UNCHANGED <<invocation, cfg, looked, backend, signer, lock>>
      /\ pc = "configured" /\ pc' = "collected" /\ ~backend
    BY DEF Collect, Progress
<1>2. BadFlags' = BadFlags /\ Publishing' = Publishing
    BY <1>1 DEF BadFlags, Publishing
<1>3. ConfiguredInv'
    BY <1>1, <1>2 DEF ConfiguredInv, Accepted, Collect
<1>4. Len(invocation.args) \in Nat
    BY InvocationAssumption DEF ConfiguredInv
<1>5. /\ debFiles' \in Seq(Nat) /\ IsInjective(debFiles') /\ Range(debFiles') = Range(debFiles)
      /\ Len(debFiles') = Len(debFiles)
      /\ \A n \in 1..(Len(debFiles') - 1) : debFiles'[n] <= debFiles'[n + 1]
    BY SortedFiles DEF Collect, CollectInv
<1>6. looked = Len(invocation.args) /\ debFiles # <<>>
    BY <1>4 DEF Collect, MoreArgs, CollectInv
<1>7. debFiles' # <<>>
    BY <1>5, <1>6, EmptySeq DEF CollectInv
<1>8. Ready'
    BY <1>1, <1>5, <1>6, <1>7 DEF Ready
<1>9. CollectInv'
    BY <1>1, <1>5, <1>8 DEF CollectInv
<1> QED BY <1>3, <1>9

LEMMA ReachStorageStep ==
    ASSUME Progress, ConfiguredInv, CollectInv, ReachStorage
    PROVE  ConfiguredInv' /\ CollectInv'
<1>1. UNCHANGED <<invocation, cfg, looked, debFiles>> /\ backend'
    BY DEF ReachStorage
<1>2. pc \in {"collected", "notified"} /\ pc' = IF Publishing THEN "publish" ELSE "prefetch"
    BY DEF ReachStorage
<1>3. BadFlags' = BadFlags /\ Publishing' = Publishing /\ Complete' = Complete /\ Ready' = Ready
    BY <1>1 DEF BadFlags, Publishing, Complete, HasDirectory, HasBucket, HasHost, Ready
<1>4. Complete /\ AsConfigured'
    BY <1>1, <1>3 DEF ReachStorage, AsConfigured
<1>5. Publishing => pc = "collected" /\ cfg["codename"] # Empty /\ Ready
    BY <1>2 DEF ConfiguredInv, CollectInv
<1>6. Accepted /\ Accepted' = Accepted
    BY <1>1, <1>2, <1>3 DEF ConfiguredInv, Accepted
<1>7. ConfiguredInv'
    BY <1>1, <1>2, <1>3, <1>4, <1>5, <1>6 DEF ConfiguredInv, ReachStorage
<1>8. CollectInv'
    BY <1>1, <1>2, <1>3, <1>5 DEF CollectInv
<1> QED BY <1>7, <1>8

\* How the process ends matters to what is shared and to nothing else here.
LEMMA EndsCommand ==
    ASSUME ConfiguredInv, CollectInv, SharedTypes, pc # "exited",
           NEW how \in {"ok", "error", "killed"}, Ends(how)
    PROVE  ConfiguredInv' /\ CollectInv' /\ SharedTypes'
<1>1. ConfiguredInv' /\ CollectInv'
    BY ConfigurationStays DEF Ends
<1>2. SharedTypes'
    BY DEF Ends, SharedTypes
<1> QED BY <1>1, <1>2

LEMMA NextCommand == CommandInv /\ [Next]_vars => CommandInv'
<1> SUFFICES ASSUME CommandInv, [Next]_vars PROVE CommandInv'
    OBVIOUS
<1> DEFINE Inv == ConfiguredInv /\ CollectInv /\ SharedTypes
<1>0. ServeInv' /\ ServeInv /\ Progress /\ Running /\ Inv
    BY NextServe DEF CommandInv, ServeInv
<1> SUFFICES Inv'
    BY <1>0 DEF CommandInv
<1>1. CASE LoadConfigFails \/ CollectFails \/ BackendFails
    <2>1. PICK how \in {"error"} : Ends(how)
        BY <1>1 DEF LoadConfigFails, CollectFails, BackendFails
    <2>2. pc # "exited"
        BY <1>1 DEF LoadConfigFails, CollectFails, BackendFails
    <2> QED BY <1>0, <2>1, <2>2, EndsCommand
<1>2. CASE Publish \/ Drained \/ DrainFails \/ ServerErr
    <2>1. PICK how \in {"ok", "error"} : Ends(how)
        BY <1>2 DEF Publish, Drained, DrainFails, ServerErr
    <2>2. pc # "exited"
        BY <1>2 DEF Publish, Drained, DrainFails, ServerErr
    <2> QED BY <1>0, <2>1, <2>2, EndsCommand
<1>3. CASE LoadConfig \/ CollectArg \/ Collect \/ ReachStorage
    <2>1. UNCHANGED <<server, exit>> /\ pc # "exited" /\ pc' # "exited"
        BY <1>3 DEF LoadConfig, CollectArg, Collect, ReachStorage
    <2>2. SharedTypes'
        BY <1>0, <2>1 DEF SharedTypes, server
    <2> QED BY <1>0, <1>3, <2>2, LoadConfigStep, CollectArgStep, CollectStep, ReachStorageStep
<1>4. CASE Notify
    <2>1. ConfiguredInv' /\ CollectInv'
        BY <1>0, <1>4, ConfigurationStays DEF Notify
    <2>2. SharedTypes'
        BY <1>0, <1>4 DEF Notify, SharedTypes, server
    <2> QED BY <2>1, <2>2
<1>5. CASE Prefetch \/ Shutdown
    <2>1. ConfiguredInv' /\ CollectInv'
        BY <1>0, <1>5, ConfigurationStays DEF Prefetch, Shutdown
    <2>2. CASE Prefetch
        <3>1. UNCHANGED <<signalled, shutdown, grace, exit>> /\ listener' = "starting"
            BY <2>2 DEF Prefetch
        <3>2. pc # "exited" /\ pc' # "exited"
            BY <2>2 DEF Prefetch
        <3> QED BY <1>0, <2>1, <3>1, <3>2 DEF SharedTypes
    <2>3. CASE Shutdown
        <3>1. UNCHANGED <<signalled, grace, exit>> /\ shutdown' = TRUE /\ signalled'
            BY <2>3 DEF Shutdown
        <3>2. listener' \in {"closed", listener}
            BY <2>3 DEF Shutdown
        <3>3. pc # "exited" /\ pc' # "exited"
            BY <2>3 DEF Shutdown
        <3> QED BY <1>0, <2>1, <3>1, <3>2, <3>3 DEF SharedTypes
    <2> QED BY <1>5, <2>2, <2>3
<1>6. CASE \/ Listen \/ ListenerFails \/ GraceEnds
           \/ \E r \in Requests : Send(r) \/ Answer(r)
    <2>1. UNCHANGED <<configuration, pc>>
        BY <1>6 DEF Listen, ListenerFails, GraceEnds, Send, Answer
    <2>2. ConfiguredInv' /\ CollectInv'
        BY <1>0, <2>1, ConfigurationStays
    <2>3. UNCHANGED <<signalled, shutdown, exit>> /\ grace' \in {grace, FALSE}
        BY <1>6 DEF Listen, ListenerFails, GraceEnds, Send, Answer
    <2>4. listener' \in {listener, "open", "failed", "closed"}
        BY <1>6 DEF Listen, ListenerFails, GraceEnds, Send, Answer
    <2>5. SharedTypes'
        BY <1>0, <2>1, <2>3, <2>4 DEF SharedTypes
    <2> QED BY <2>2, <2>5
<1>7. CASE Signal
    <2>1. CASE pc \in Catching
        <3>1. ConfiguredInv' /\ CollectInv'
            BY <1>0, <1>7, <2>1, ConfigurationStays DEF Signal
        <3>2. SharedTypes'
            BY <1>0, <1>7, <2>1 DEF Signal, SharedTypes
        <3> QED BY <3>1, <3>2
    <2>2. CASE pc \notin Catching
        <3>1. PICK how \in {"killed"} : Ends(how)
            BY <1>7, <2>2 DEF Signal
        <3> QED BY <1>0, <1>7, <3>1, EndsCommand DEF Signal
    <2> QED BY <2>1, <2>2
<1>8. CASE UNCHANGED vars
    <2>1. ConfiguredInv' /\ CollectInv'
        BY <1>0, <1>8, ConfigurationStays DEF vars
    <2>2. SharedTypes'
        BY <1>0, <1>8 DEF vars, server, SharedTypes
    <2> QED BY <2>1, <2>2
<1> QED BY <1>1, <1>2, <1>3, <1>4, <1>5, <1>6, <1>7, <1>8 DEF Next, Main

LEMMA CommandInvariant == Spec => []CommandInv
<1>1. Init => CommandInv
    BY InitServe, InitCommand DEF CommandInv
<1> QED BY <1>1, NextCommand, PTL DEF Spec

\* The variables keep their types: in particular no text of a duration, however large its
\* number, makes a lock's duration negative or more than an int64 holds.
THEOREM TypeTheorem == Spec => []TypeOK
<1>1. CommandInv => TypeOK
    <2> SUFFICES ASSUME CommandInv PROVE TypeOK
        OBVIOUS
    <2>1. invocation \in Invocations
        BY DEF CommandInv, ConfiguredInv
    <2>2. DOMAIN cfg = Settings /\ (\A s \in Bools : cfg[s] \in BOOLEAN)
          /\ \A s \in Durations : cfg[s] \in -Limit..(Limit - 1)
        <3>1. CASE cfg = DefaultConfig
            <4>1. \A s \in Durations : cfg[s] \in -Limit..(Limit - 1)
                BY <3>1, Defaults, DurationAssumption
            <4>2. \A s \in Bools : cfg[s] \in BOOLEAN
                BY <3>1, Defaults DEF Bools
            <4> QED BY <3>1, <4>1, <4>2, Defaults
        <3>2. CASE Accepted
            <4>1. \A s \in DOMAIN invocation.flags : ValueOf(s, invocation.flags[s]) # Invalid
                BY <3>2 DEF Accepted, BadFlags
            <4>2. /\ \A s \in Bools : Merged(invocation, s) \in BOOLEAN
                  /\ \A s \in Durations : Merged(invocation, s) \in -Limit..(Limit - 1)
                BY <2>1, <3>2, <4>1, MergedTyped DEF Accepted
            <4>3. \A s \in Durations : cfg[s] = Merged(invocation, s)
                BY <2>1, <3>2, WorkingSettings DEF Accepted, Durations, Settings
            <4>4. cfg["sign"] \in BOOLEAN
                BY <2>1, <3>2, <4>2, WorkingSettings DEF Accepted
            <4>5. cfg["lock"] = Merged(invocation, "lock")
                BY <2>1, <3>2, WorkingSettings DEF Accepted, Settings, Bools
            <4> QED BY <2>1, <3>2, <4>2, <4>3, <4>4, <4>5, WorkingSettings DEF Accepted, Bools
        <3> QED BY <3>1, <3>2 DEF CommandInv, ConfiguredInv
    <2>3. lock \in [Durations -> 0..(Limit - 1)]
        <3>1. NoLock \in [Durations -> 0..(Limit - 1)]
            BY DurationAssumption DEF NoLock
        <3>2. \A s \in Durations : LockDuration(cfg, s) \in 0..(Limit - 1)
            BY <2>2, Defaults, DurationAssumption DEF LockDuration
        <3>3. [s \in Durations |-> LockDuration(cfg, s)] \in [Durations -> 0..(Limit - 1)]
            BY <3>2
        <3> QED BY <3>1, <3>3 DEF CommandInv, ConfiguredInv, AsConfigured
    <2>4. signer \in BOOLEAN
        BY DEF CommandInv, ConfiguredInv, AsConfigured
    <2>5. invocation.command \in {"publish", "serve"}
        BY <2>1, InvocationAssumption
    <2>6. looked \in 0..Len(invocation.args) /\ debFiles \in Seq(Nat)
          /\ (pc \in {"collected", "publish"} => debFiles # <<>>)
        BY DEF CommandInv, CollectInv, Ready
    <2>7. backend \in BOOLEAN
        BY DEF CommandInv, ConfiguredInv
    <2>8. /\ pc \in {"start", "configured", "collected", "publish", "exited"} \cup Catching
          /\ serverErr \in {"empty", "error", "closed"}
          /\ requests \in [Requests -> {"unsent", "running", "answered", "refused", "cut off"}]
          /\ shutdown => pc \in {"draining", "exited"}
        BY DEF CommandInv, ServeInv, Progress, Channel, Running
    <2>9. SharedTypes
        BY DEF CommandInv
    <2> QED BY <2>2, <2>3, <2>4, <2>5, <2>6, <2>7, <2>8, <2>9 DEF TypeOK, SharedTypes
<1> QED BY <1>1, CommandInvariant, PTL

\* The storage is not touched before everything that can be wrong with the command line has
\* been looked at, and what is published is every package file that an argument stands for,
\* once: for any flags, any file, and any number of arguments that find any entries.
THEOREM StorageTheorem == Spec => []StorageIsLast
<1>1. CommandInv => StorageIsLast
    <2> SUFFICES ASSUME CommandInv, backend PROVE StorageIsLast
        BY DEF StorageIsLast
    <2>1. ~BadFlags /\ invocation.file # BadFile /\ Complete
        BY DEF CommandInv, ConfiguredInv, Accepted
    <2> SUFFICES ASSUME Publishing
                 PROVE  /\ \A n \in DOMAIN invocation.args : ~Bad(invocation.args[n])
                        /\ Range(debFiles) =
                              UNION {Debs(invocation.args[n]) : n \in DOMAIN invocation.args}
                        /\ \A n \in 1..(Len(debFiles) - 1) : debFiles[n] < debFiles[n + 1]
        BY <2>1 DEF StorageIsLast
    <2>2. CollectInv /\ Ready
        BY DEF CommandInv, CollectInv
    <2>3. DOMAIN invocation.args = 1..looked
        BY <2>2, InvocationAssumption DEF CommandInv, ConfiguredInv, Ready
    <2>4. ASSUME NEW n \in 1..(Len(debFiles) - 1) PROVE debFiles[n] < debFiles[n + 1]
        <3>1. /\ n \in DOMAIN debFiles /\ n + 1 \in DOMAIN debFiles /\ n # n + 1
              /\ debFiles[n] \in Nat /\ debFiles[n + 1] \in Nat
            BY <2>2 DEF CollectInv
        <3>2. debFiles[n] # debFiles[n + 1]
            BY <2>2, <3>1 DEF CollectInv, IsInjective
        <3>3. debFiles[n] <= debFiles[n + 1]
            BY <2>2 DEF Ready
        <3> QED BY <3>1, <3>2, <3>3
    <2> QED BY <2>2, <2>3, <2>4 DEF CollectInv
<1> QED BY <1>1, CommandInvariant, PTL

\* What publish works with is what the layers say, whatever they say: the codename, the
\* suite, whether it signs, and its lock with its durations.
THEOREM ConfigurationTheorem == Spec => []PublishesAsConfigured
<1>1. CommandInv => PublishesAsConfigured
    <2> SUFFICES ASSUME CommandInv, backend, Publishing PROVE PublishesAsConfigured
        BY DEF PublishesAsConfigured
    <2>1. /\ invocation \in Invocations /\ Accepted /\ AsConfigured /\ cfg["codename"] # Empty
          /\ ~BadFlags /\ invocation.file # BadFile /\ cfg = Working(invocation)
        BY DEF CommandInv, ConfiguredInv, Accepted
    <2>2. \A s \in Strings \cup Bools : Layered(s) = Merged(invocation, s)
        BY <2>1, LayeredIsMerged
    <2>3. /\ {"codename", "suite", "gpg-key"} \subseteq Strings
          /\ {"sign", "lock"} \subseteq Bools
          /\ {"codename", "lock"} \cup Durations \subseteq Settings \ {"suite", "sign", "sftp-user"}
        BY DEF Strings, Bools, Durations, Settings
    <2>4. \A s \in {"codename", "lock"} \cup Durations : cfg[s] = Merged(invocation, s)
        BY <2>1, <2>3, WorkingSettings
    <2>5. cfg["codename"] = Layered("codename")
        BY <2>2, <2>3, <2>4
    <2>6. cfg["suite"] = (IF Layered("suite") = Empty THEN cfg["codename"] ELSE Layered("suite"))
        BY <2>1, <2>2, <2>3, <2>4, WorkingSettings
    <2>7. signer <=> \/ Layered("sign")
                     \/ Layered("gpg-key") # Empty /\ "sign" \notin DOMAIN invocation.flags
        <3>1. cfg["sign"] =
                  (\/ Layered("sign")
                   \/ Layered("gpg-key") # Empty /\ "sign" \notin DOMAIN invocation.flags)
            BY <2>1, <2>2, <2>3, WorkingSettings
        <3>2. signer <=> cfg["sign"]
            BY <2>1 DEF AsConfigured
        <3> QED BY <3>1, <3>2
    <2>8. cfg["lock"] = Layered("lock")
        BY <2>2, <2>3, <2>4
    <2>9. ASSUME NEW s \in Durations
          PROVE  /\ lock[s] > 0 <=> Layered("lock")
                 /\ lock[s] > 0 /\ Layered(s) \in 1..(Limit - 1) => lock[s] = Layered(s)
        <3>1. cfg[s] \in -Limit..(Limit - 1)
            <4>1. \A t \in DOMAIN invocation.flags : ValueOf(t, invocation.flags[t]) # Invalid
                BY <2>1 DEF BadFlags
            <4> QED BY <2>1, <2>4, <4>1, MergedTyped
        <3>2. LockDuration(cfg, s) \in 1..(Limit - 1)
            BY <3>1, Defaults, DurationAssumption DEF LockDuration
        <3>3. lock[s] = IF Layered("lock") THEN LockDuration(cfg, s) ELSE 0
            BY <2>1, <2>8 DEF AsConfigured, NoLock
        <3>4. ASSUME Layered(s) \in 1..(Limit - 1) PROVE LockDuration(cfg, s) = Layered(s)
            <4>1. cfg[s] = Layered(s)
                BY <2>1, <2>4, <3>4, LayeredIsMerged
            <4> QED BY <3>4, <4>1 DEF LockDuration
        <3> QED BY <3>2, <3>3, <3>4
    <2> QED BY <2>1, <2>5, <2>6, <2>7, <2>9 DEF PublishesAsConfigured
<1> QED BY <1>1, CommandInvariant, PTL
=============================================================================
