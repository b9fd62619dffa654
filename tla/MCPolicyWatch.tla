---------------------------- MODULE MCPolicyWatch ----------------------------
(* One Gateway in a user's namespace and one beside the controller. *)
EXTENDS PolicyWatch

MCGwNamespace  == [g \in {"g1", "g2"} |-> IF g = "g1" THEN "user" ELSE "ctrl"]
MCFirstClass   == [g \in {"g1", "g2"} |-> "k1"]
MCGwName       == [g \in {"g1", "g2"} |-> "gw"]
MCCfgNamespace == [c \in {"c1", "c2"} |-> IF c = "c1" THEN "ctrl" ELSE "user"]
MCCfgKind      == [c \in {"c1", "c2"} |-> IF c = "c1" THEN "GatewayClassConfig" ELSE "GatewayConfig"]

To(kind, group, ns, name) == [kind |-> kind, group |-> group, ns |-> ns, name |-> name]
MCTargets ==
    {To("GatewayClass", "gateway", "none", "k1"), To("Gateway", "gateway", "none", "gw"),
     To("Namespace", "core", "none", "user"), To("Namespace", "core", "none", "ctrl")}
===============================================================================
