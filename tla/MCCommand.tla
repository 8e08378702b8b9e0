----------------------------- MODULE MCCommand -----------------------------
(***************************************************************************)
(* Instances of Command for TLC.  A duration is a number of eight bits in  *)
(* which a second is ten.                                                  *)
(***************************************************************************)
EXTENDS Command
LOCAL INSTANCE SequencesExt

\* Partial functions: each of the settings may be left out or have one of some texts.
Some(setting, texts) == {<<>>} \cup {[s \in {setting} |-> t] : t \in texts}
And(S, T) == {[s \in DOMAIN f \cup DOMAIN g |-> IF s \in DOMAIN f THEN f[s] ELSE g[s]] : f \in S, g \in T}

\* Names, with the empty one, on both layers; signing and its key; the lock, and
\* durations that are 0, negative, of either form, too long, not of 64 bits or none;
\* and storages with or without what they need.
NamesOf(name) == And(Some("codename", {"", name}), Some("suite", {"", name}))
Signing(key) == And(Some("sign", BOOLEAN), Some("gpg-key", {"", key}))
TTLs == {Seconds(0), Seconds(-1), Seconds(1), Seconds(13), Seconds(26), Seconds(132), Span(7),
         Span(132), Unreadable}
Locking == And(Some("lock", BOOLEAN), Some("lock-ttl", TTLs))
Stores ==
    And(Some("storage", {"s3", "sftp", "other"}),
        {<<>>} \cup {[s \in {"bucket", "sftp-host"} |-> s]})

Named == [s \in {"codename"} |-> "stable"]
Layers ==
    {<<f, g>> : f \in NamesOf("flag"), g \in NamesOf("file")}
    \cup {<<f, g>> : f \in And({Named}, Signing("flag")), g \in Signing("file")}
    \cup {<<f, g>> : f \in And({Named}, Locking), g \in Locking}
    \cup {<<f, g>> : f \in And({Named}, Stores), g \in Stores}
    \cup {<<Named, BadFile>>}

Deb1 == Entry(1, "deb")
Deb2 == Entry(2, "deb")
Deb3 == Entry(3, "deb")
Text == Entry(4, "other")
Folder == Entry(5, "dir")
Arguments ==
    {Argument("blank", {}), Argument("bad pattern", {}), Argument("missing", {}),
     Argument("pattern", {}), Argument("pattern", {Text, Folder}),
     Argument("pattern", {Deb1, Deb2, Text, Folder}), Argument("directory", {Deb3, Deb2}),
     Argument("directory", {Text}), Argument("unreadable", {Deb1}),
     Argument("file", {Deb1}), Argument("file", {Text})}
Pairs == {<<a>> : a \in Arguments} \cup {<<a, b>> : a, b \in Arguments}

Run(command, layers, args) ==
    [command |-> command, flags |-> layers[1], file |-> layers[2], user |-> "user", args |-> args]
OneDeb == <<Argument("file", {Deb1})>>
MCInvocations ==
    {Run("publish", l, OneDeb) : l \in Layers}
    \cup {Run("publish", <<Named, <<>> >>, args) : args \in Pairs}
    \cup {Run("serve", l, <<>>) : l \in {<<f, <<>> >> : f \in Stores} \cup {<<Named, BadFile>>}}
=============================================================================
