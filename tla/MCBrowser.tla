----------------------------- MODULE MCBrowser -----------------------------
(***************************************************************************)
(* Instances of Browser for TLC.                                           *)
(***************************************************************************)
EXTENDS Browser, TLC

CONSTANTS r1, r2, main, contrib, amd64, arm64, s1, s2

File(c, k, a, ext) == [codename |-> c, comp |-> k, arch |-> a, ext |-> ext]

\* Two variants of one index; a flat index; the index of a codename whose name
\* begins with that of the first.
Plain == File(1, main, amd64, 1)
Gz    == File(1, main, amd64, 2)
Loose == File(1, Flat, amd64, 1)
Other == File(2, contrib, arm64, 1)
MCFiles == {Plain, Gz, Loose, Other}
MCLongerNames == (1 :> {2} @@ 2 :> {})

Stanza(n, v, a, k, s) == [name |-> n, version |-> v, arch |-> a, comp |-> k, sum |-> s]

\* The first build of a package and, instead, a rebuild of it; stanzas of a flat
\* index that do, or do not, say which component they belong to.
Old == {Stanza("foo", 1, amd64, main, s1)}
New == {Stanza("foo", 1, amd64, main, s2)}
MCContentsOf ==
    Plain :> {Old, New} @@ Gz :> {Old, New}
 @@ Loose :> {{Stanza("bar", 1, arm64, Unset, s1), Stanza("baz", 1, amd64, contrib, s1)}}
 @@ Other :> {{Stanza("foo", 1, arm64, contrib, s1)}}

Holding(present) == [f \in MCFiles |-> IF f \in present THEN CHOOSE x \in MCContentsOf[f] : TRUE
                                                    ELSE Missing]
MCInitStores == {Holding({Plain, Other}), Holding({Loose})}

Both == [comps |-> {main, contrib}, archs |-> {amd64}]
MCManifests == {Both, [comps |-> {main}, archs |-> {amd64}]}
MCInitReleases == {(1 :> Both @@ 2 :> Missing)}

Req(kind, c, k, a) == [kind |-> kind, codename |-> c, component |-> k, arch |-> a]
MCRequests == {Req("fetch", Unset, Unset, Unset), Req("fetch", 1, contrib, Unset),
               Req("query", Unset, Unset, amd64)}
=============================================================================
