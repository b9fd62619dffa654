------------------------------ MODULE MCManager ------------------------------
(* Small instances of the manager. *)
EXTENDS Manager

\* Two parents of two Gateways, and one that is no Gateway.
PairGatewayOf  == [p1 |-> "g1", p2 |-> "g2", p3 |-> "g2"]
PairKind       == [p1 |-> "Gateway", p2 |-> "Gateway", p3 |-> "Service"]
PairGroup      == [p1 |-> "gateway", p2 |-> "gateway", p3 |-> "other"]
PairSameClass  == [g1 |-> "k1", g2 |-> "k1"]
PairTwoClasses == [g1 |-> "k1", g2 |-> "k2"]
PairLists      == {<<"p2", "p1">>, <<"p3", "p2">>}
PairFixedList  == {<<"p1", "p2">>}

\* The route templates of aws-alb-crossplane, a target group and a binding that
\* reads its ARN.  Both Gateways render the binding, the one from the route alone.
PairResources  == [g1 |-> <<{"tg"}, {"bind"}>>, g2 |-> <<{"bind"}>>]
PairDeps       == [g1 |-> <<{}, {1}>>, g2 |-> <<{}>>]

\* One parent with one child.
OneGatewayOf == [p1 |-> "g1"]
OneKind      == [p1 |-> "Gateway"]
OneGroup     == [p1 |-> "gateway"]
OneClass     == [g1 |-> "k1"]
OneList      == {<<"p1">>}
OneResources == [g1 |-> <<{"tg"}>>]
OneDeps      == [g1 |-> <<{}>>]
===============================================================================
