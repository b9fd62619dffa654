------------------------------ MODULE ChildOwner ------------------------------
(***************************************************************************)
(* What a user of the API server sees of an object and of the children a   *)
(* controller derives from it, whatever happens inside: the generation of  *)
(* the object (want), the condition published on it with its observed      *)
(* generation (pub), and the generation each child was rendered from       *)
(* (text, 0 for a child that does not exist).                              *)
(*                                                                         *)
(* Children may disappear at any time; what the controller promises is     *)
(* that it never replaces a text by one of an older generation, never      *)
(* writes a text older than the one it has reported about, and publishes   *)
(* True only for the present generation with no child left behind.         *)
(***************************************************************************)
EXTENDS Naturals

CONSTANT Children

VARIABLES want, pub, text

vars == <<want, pub, text>>

Init ==
    /\ want = 1
    /\ pub = [st |-> FALSE, gen |-> 0]
    /\ text \in [Children -> {0, 1}]

Edit == want' = want + 1 /\ UNCHANGED <<pub, text>>

Drop(R) ==
    /\ text' = [r \in Children |-> IF r \in R THEN 0 ELSE text[r]]
    /\ UNCHANGED <<want, pub>>

Write(R, g) ==
    /\ pub.gen <= g
    /\ \A r \in R : text[r] <= g
    /\ text' = [r \in Children |-> IF r \in R THEN g ELSE text[r]]
    /\ UNCHANGED <<want, pub>>

Publish(b) ==
    /\ b => \A r \in Children : text[r] \in {0, want}
    /\ pub' = [st |-> b, gen |-> want]
    /\ UNCHANGED <<want, text>>

Next ==
    \/ Edit
    \/ \E R \in SUBSET Children : Drop(R)
    \/ \E R \in SUBSET Children, g \in 1..want : Write(R, g)
    \/ \E b \in BOOLEAN : Publish(b)

Spec == Init /\ [][Next]_vars
===============================================================================
