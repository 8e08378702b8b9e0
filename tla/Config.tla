------------------------------- MODULE Config -------------------------------
(***************************************************************************)
(* internal/config and the configuration half of cmd/debpub: how flags, a  *)
(* configuration file, the environment and the defaults become the         *)
(* configuration that a command works with.  A setting has the name of its *)
(* flag.  Of the settings that nothing but the layers bears on there is    *)
(* one of each kind here: the others are treated as it is.                 *)
(***************************************************************************)
EXTENDS Integers

CONSTANTS
    Second,         \* the nanoseconds in a second
    Limit,          \* durations are at least -Limit and below Limit: 2^63
    Invalid         \* no duration

ASSUME DurationAssumption ==
    Second \in Nat \ {0} /\ Limit \in Nat /\ 3 * Second < Limit /\ Invalid \notin Int

Strings == {"storage", "codename", "suite", "gpg-key", "bucket", "sftp-host", "sftp-user"}
Bools == {"sign", "lock"}
Ints == {"server-port"}
Durations == {"lock-timeout", "lock-ttl"}
Lists == {"architectures"}      \* these have no flag
Settings == Strings \cup Bools \cup Ints \cup Durations \cup Lists

Empty == ""     \* a string that is not set

DefaultTimeout == 2 * Second
DefaultTTL == 3 * Second
DefaultPort == 8080

DefaultConfig ==
    [s \in Settings |->
        CASE s = "storage" -> "file"
          [] s \in Strings \ {"storage"} -> Empty
          [] s = "sign" -> FALSE
          [] s = "lock" -> TRUE
          [] s = "server-port" -> DefaultPort
          [] s = "lock-timeout" -> DefaultTimeout
          [] s = "lock-ttl" -> DefaultTTL
          [] s \in Lists -> {}]

-----------------------------------------------------------------------------
\* int64 arithmetic
Wrap(n) == ((n + Limit) % (2 * Limit)) - Limit

\* How durations are written: a number of seconds, or one with units.
Seconds(n) == [unit |-> "none", n |-> n]
Span(n) == [unit |-> "ns", n |-> n]
Unreadable == [unit |-> "?", n |-> 0]

\* ParseDurationFlexible: ParseInt takes no number of seconds beyond 64 bits, but their
\* product with a second may overflow; time.ParseDuration takes nothing that overflows.
\* The file's JSON numbers beyond 64 bits, which become 0 or less, count as not taken.
ParseDurationFlexible(text) ==
    IF text = Unreadable \/ text.n \notin 0..(Limit - 1) THEN Invalid
    ELSE IF text.unit = "none" THEN Wrap(text.n * Second)
    ELSE text.n

\* What may be written for a setting.
IsText(s, text) ==
    /\ s \in Bools => text \in BOOLEAN
    /\ s \in Ints => text \in Int
    /\ s \in Durations => text = Unreadable \/ text \in [unit : {"none", "ns"}, n : Int]

\* The value that is set by a text in the file or on the command line.
ValueOf(s, text) == IF s \in Durations THEN ParseDurationFlexible(text) ELSE text

\* Is a value one that leaves the setting as it is?
Zero(s, value) ==
    \/ s \in Strings /\ value = Empty
    \/ s \in Ints /\ value = 0
    \/ s \in Durations /\ (value = Invalid \/ value <= 0)
    \/ s \in Lists /\ value = {}

\* A file has texts for some settings.
LoadConfigFile(file, target) ==
    [s \in Settings |->
        IF s \in DOMAIN file /\ ~Zero(s, ValueOf(s, file[s])) THEN ValueOf(s, file[s])
        ELSE target[s]]

\* What the flags alone make of the defaults.
FromFlags(flags) ==
    [s \in Settings |-> IF s \in DOMAIN flags THEN ValueOf(s, flags[s]) ELSE DefaultConfig[s]]

\* Bug: what the file does not set is set to its default.
LoadOverFlags(flags, file) ==
    LET loaded == LoadConfigFile(file, DefaultConfig) IN
    [s \in Settings |-> IF s \in Lists \/ (s \in DOMAIN flags /\ ~Zero(s, loaded[s]))
                        THEN FromFlags(flags)[s] ELSE loaded[s]]

\* loadConfigWithPrecedence: lists are not taken over.
loadConfigWithPrecedence(flags, file) ==
    LET loaded == LoadConfigFile(file, DefaultConfig) IN
    [s \in Settings |-> IF s \in DOMAIN flags \cup Lists \/ Zero(s, loaded[s])
                        THEN FromFlags(flags)[s] ELSE loaded[s]]

\* normalizeAndLogConfig
normalizeConfig(cfg, flags, user) ==
    [cfg EXCEPT
        !["suite"] = IF @ = Empty THEN cfg["codename"] ELSE @,
        !["sign"] = @ \/ (cfg["gpg-key"] # Empty /\ "sign" \notin DOMAIN flags),
        !["sftp-user"] = IF cfg["storage"] = "sftp" /\ @ = Empty THEN user ELSE @]

\* Bug: durations are taken as they are.
LockUnchecked(cfg, s) == cfg[s]

\* NewLocker
LockDuration(cfg, s) == IF cfg[s] <= 0 THEN DefaultConfig[s] ELSE cfg[s]
=============================================================================
