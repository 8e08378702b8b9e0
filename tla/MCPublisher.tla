---------------------------- MODULE MCPublisher ----------------------------
(***************************************************************************)
(* Instances of Publisher for TLC.                                         *)
(***************************************************************************)
EXTENDS Publisher, TLC

CONSTANTS w1, w2, w3, foo, bar, amd64, arm64, s1, s2

Deb(n, a, v, s) == [name |-> n, arch |-> a, version |-> v, sum |-> s]

\* Two versions and two architectures of a package; an older version of it; and a
\* rebuild of one version along with another package.
MCBatchOf ==
    w1 :> {Deb(foo, amd64, 1, s1), Deb(foo, amd64, 2, s1), Deb(foo, arm64, 2, s1)}
 @@ w2 :> {Deb(foo, amd64, 1, s1), Deb(bar, amd64, 1, s1)}
 @@ w3 :> {Deb(foo, arm64, 2, s2)}
MCRebuilt == {PoolPath(Deb(bar, amd64, 1, s1))}
MCPreserveOf == (w1 :> FALSE @@ w2 :> TRUE @@ w3 :> FALSE)
MCSignOf == [w \in Workers |-> TRUE]

\* Two runs for two architectures; two versions of a package, one run each.
MCTwoBatchOf == (w1 :> {Deb(foo, amd64, 1, s1)} @@ w2 :> {Deb(foo, arm64, 1, s1)})
MCTwoVersionsOf == (w1 :> {Deb(foo, amd64, 1, s1)} @@ w2 :> {Deb(foo, amd64, 2, s1)})
MCAllPreserveOf == [w \in Workers |-> TRUE]
=============================================================================
