----------------------------- MODULE Collector -----------------------------
(***************************************************************************)
(* internal/debian/collector.go: what the arguments of publish stand for.  *)
(* An argument comes with what is found in the file system when it is      *)
(* looked up: a pattern with what matches it, a directory with everything  *)
(* below it, a file with itself.  A path is a number, its place in the     *)
(* order of cleaned paths.                                                 *)
(***************************************************************************)
EXTENDS Naturals, Sequences, FiniteSets, Functions

\* What an argument may find.
Entry(path, kind) == [path |-> path, kind |-> kind]      \* "deb", "other" or "dir"
Argument(form, found) == [form |-> form, found |-> found]
Forms == {"blank", "pattern", "bad pattern", "directory", "unreadable", "file", "missing"}
IsArgument(arg) ==
    arg.form \in Forms /\ IsFiniteSet(arg.found) /\ \A e \in arg.found : e.path \in Nat

Debs(arg) == {e.path : e \in {e \in arg.found : e.kind = "deb"}}

Bad(arg) ==
    \/ arg.form \in {"bad pattern", "unreadable", "missing"}
    \/ arg.form # "blank" /\ Debs(arg) = {}

\* The ways to list a set.
Listings(S) == Bijection(1..Cardinality(S), S)

\* Bug: what is seen twice in different arguments is listed twice.
CollectTwice(resolved, arg) == {resolved \o new : new \in Listings(Debs(arg))}

\* One argument's files go after those of the arguments before it, in the order in which
\* they are found, but for those that have been seen.
Collected(resolved, arg) == {resolved \o new : new \in Listings(Debs(arg) \ Range(resolved))}

\* slices.Sort
Sorted(resolved) ==
    {seq \in {[n \in DOMAIN resolved |-> resolved[p[n]]] :
                  p \in Bijection(DOMAIN resolved, DOMAIN resolved)} :
        \A n \in 1..(Len(resolved) - 1) : seq[n] <= seq[n + 1]}
=============================================================================
