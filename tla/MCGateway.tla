------------------------------ MODULE MCGateway ------------------------------
(* Small blueprints for the Gateway controller. *)
EXTENDS GatewayController

\* Two templates: the second reads an output of the first.
ChainResourcesOf == <<{"lb"}, {"dns"}>>
ChainDeps        == <<{}, {1}>>

\* The second template is behind a condition and renders to nothing.
EmptyResourcesOf == <<{"lb"}, {}>>
NoDeps           == <<{}, {}>>

GoodBlueprint == {[parses |-> TRUE, status |-> "ok"]}

\* If the templates do not parse, the status template is not looked at.
AllBlueprints == [parses : {TRUE}, status : StatusTemplates] \cup [parses : {FALSE}, status : {"ok"}]
===============================================================================
