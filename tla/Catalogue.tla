----------------------------- MODULE Catalogue -----------------------------
(***************************************************************************)
(* What the repository browser promises its users: it shows a catalogue    *)
(* that changes from one sync to the next, all at once, in which a stanza  *)
(* may be replaced but is never dropped, and every answer is what the      *)
(* catalogue contains at one moment.                                       *)
(***************************************************************************)
CONSTANTS Clients, Asking, Codenames, Keys, Archs

VARIABLES
    shown,      \* the stanzas of each codename and component
    answers     \* the latest answer to each client, Asking while it waits

\* The catalogue has one stanza per package, architecture and version.
SameStanza(s, t) == s.name = t.name /\ s.arch = t.arch /\ s.version = t.version

Init ==
    /\ shown = [c \in Codenames |-> [k \in Keys |-> {}]]
    /\ answers = [r \in Clients |-> {}]

Sync ==
    /\ \A c \in Codenames, k \in Keys :
          /\ \A s \in shown[c][k] : \E t \in shown'[c][k] : SameStanza(s, t)
          /\ \A s, t \in shown'[c][k] : SameStanza(s, t) => s = t
    /\ UNCHANGED answers

Ask(r) ==
    /\ answers[r] # Asking
    /\ answers' = [answers EXCEPT ![r] = Asking]
    /\ UNCHANGED shown

\* The stanzas of one codename, component and set of architectures.
View(c, k, archs) == {s \in shown[c][k] : s.arch \in archs}

Answer(r) ==
    /\ answers[r] = Asking
    /\ \/ \E c \in Codenames, k \in Keys, archs \in SUBSET Archs :
             answers' = [answers EXCEPT ![r] = View(c, k, archs)]
       \/ /\ shown = [c \in Codenames |-> [k \in Keys |-> {}]]
          /\ answers' = [answers EXCEPT ![r] = {}]
    /\ UNCHANGED shown

Next == Sync \/ \E r \in Clients : Ask(r) \/ Answer(r)

Spec == Init /\ [][Next]_<<shown, answers>>
=============================================================================
