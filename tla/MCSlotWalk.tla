----------------------------- MODULE MCSlotWalk -----------------------------
(* Instances of SlotWalk for TLC.                                           *)
EXTENDS SlotWalk

CONSTANTS a, b, d, e

MCDummies  == <<d, e>>

(* One selector, one that is itself a dummy, two.                           *)
MCRequests == {<<a>>, <<d>>, <<a, b>>}

(* Three steps, of which one loads a slot keyed by the selector.            *)
Long  == {p \in [1 .. 3 -> Steps] :
             \E i \in 1 .. 3 : /\ p[i] = [kind |-> "load", keyed |-> TRUE]
                               /\ \A j \in 1 .. 3 \ {i} : p[j].kind # "load"}
=============================================================================
