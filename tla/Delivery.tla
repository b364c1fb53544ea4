------------------------------ MODULE Delivery ------------------------------
(***************************************************************************)
(* What a download promises, with no threads, sockets or files in it: each *)
(* get is fed by one source, takes the source's blocks in order, and ends  *)
(* once, either completed or failed.  Completion is only possible when the *)
(* source has said that the file is over and every block of it was taken.  *)
(*                                                                         *)
(* Download.tla implements this specification.                             *)
(***************************************************************************)
EXTENDS Naturals, Sequences

CONSTANTS Gets,     \* the downloads
          Blocks    \* the data units a file is made of

VARIABLES sent,     \* [Gets -> Seq(Blocks)]: what the source has produced
          sealed,   \* [Gets -> BOOLEAN]: the source said that this is all
          got,      \* [Gets -> Seq(Blocks)]: what the get has taken
          outcome   \* [Gets -> {"none", "completed", "failed"}]

vars == <<sent, sealed, got, outcome>>

Init ==
    /\ sent = [g \in Gets |-> <<>>]
    /\ sealed = [g \in Gets |-> FALSE]
    /\ got = [g \in Gets |-> <<>>]
    /\ outcome = [g \in Gets |-> "none"]

Produce(g, b) ==
    /\ ~sealed[g]
    /\ sent' = [sent EXCEPT ![g] = Append(@, b)]
    /\ UNCHANGED <<sealed, got, outcome>>

Seal(g) ==
    /\ ~sealed[g]
    /\ sealed' = [sealed EXCEPT ![g] = TRUE]
    /\ UNCHANGED <<sent, got, outcome>>

\* The get takes the oldest block it has not taken yet.
Take(g) ==
    /\ outcome[g] = "none"
    /\ Len(got[g]) < Len(sent[g])
    /\ got' = [got EXCEPT ![g] = Append(@, sent[g][Len(@) + 1])]
    /\ UNCHANGED <<sent, sealed, outcome>>

Complete(g) ==
    /\ outcome[g] = "none"
    /\ sealed[g]
    /\ got[g] = sent[g]
    /\ outcome' = [outcome EXCEPT ![g] = "completed"]
    /\ UNCHANGED <<sent, sealed, got>>

\* A get may give up at any moment: peers vanish and timeouts expire.
GiveUp(g) ==
    /\ outcome[g] = "none"
    /\ outcome' = [outcome EXCEPT ![g] = "failed"]
    /\ UNCHANGED <<sent, sealed, got>>

Next ==
    \E g \in Gets :
        \/ \E b \in Blocks : Produce(g, b)
        \/ Seal(g)
        \/ Take(g)
        \/ Complete(g)
        \/ GiveUp(g)

Spec == Init /\ [][Next]_vars
=============================================================================
