------------------------------ MODULE RouteOwner ------------------------------
(***************************************************************************)
(* What a user of the API server sees of an HTTPRoute that several parents *)
(* are served from: the generation of the route (want), the parents listed *)
(* in its status, and the generation each child was rendered from (text, 0 *)
(* for a child that does not exist).  Parents may share children.          *)
(*                                                                         *)
(* An entry of the status has no generation of its own and is never taken  *)
(* back.  What it stands for is the moment in which it was added: every    *)
(* child of that parent was then of the present generation, unless a       *)
(* template could not be rendered (gap), of which the status says nothing. *)
(* Children may disappear at any time, but never go back to an older       *)
(* generation.                                                             *)
(***************************************************************************)
EXTENDS Naturals

CONSTANTS Children, Listable, ChildrenOf

VARIABLES want, listed, text, gap

vars == <<want, listed, text, gap>>

Init ==
    /\ want = 1 /\ listed = {} /\ gap = FALSE
    /\ text = [r \in Children |-> 0]

Edit == want' = want + 1 /\ UNCHANGED <<listed, text, gap>>

Drop(R) ==
    /\ text' = [r \in Children |-> IF r \in R THEN 0 ELSE text[r]]
    /\ UNCHANGED <<want, listed, gap>>

Write(R, g) ==
    /\ \A r \in R : text[r] <= g
    /\ text' = [r \in Children |-> IF r \in R THEN g ELSE text[r]]
    /\ UNCHANGED <<want, listed, gap>>

Report(b) == gap' = b /\ UNCHANGED <<want, listed, text>>

List(ps) ==
    /\ ~gap => \A p \in ps, r \in Children : r \in ChildrenOf[p] => text[r] \in {0, want}
    /\ listed' = listed \cup ps
    /\ UNCHANGED <<want, text, gap>>

Next ==
    \/ Edit
    \/ \E R \in SUBSET Children : Drop(R)
    \/ \E R \in SUBSET Children, g \in 1..want : Write(R, g)
    \/ \E b \in BOOLEAN : Report(b)
    \/ \E ps \in SUBSET Listable : List(ps)

Spec == Init /\ [][Next]_vars
===============================================================================
