---------------------------- MODULE MCFileStore ----------------------------
(***************************************************************************)
(* Instances of FileStore for TLC.                                         *)
(***************************************************************************)
EXTENDS FileStore, TLC

CONSTANTS c1, c2, p1, p2, v1, v2, f1, f2, f3

Symmetry == Permutations(Files) \cup Permutations(Clients)

Req(op, p, v) == [op |-> op, path |-> p, value |-> v]

\* Everything that two clients may do to one path, and a put to another one.
MCRequests ==
    {Req("put", p1, v1), Req("put", p1, v2), Req("put", p2, v1), Req("new", p1, v1),
     Req("delete", p1, v1), Req("get", p1, v1), Req("list", p1, v1)}
=============================================================================
