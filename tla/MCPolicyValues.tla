---------------------------- MODULE MCPolicyValues ----------------------------
(* The values policies and blueprints may hold. *)
EXTENDS PolicyValues

Pair(d, o) == [default |-> d, override |-> o]
MCParts == {Pair("leaf", "none"), Pair("none", "leaf"), Pair("leaf", "deep"), Pair("deep", "none"),
            Pair("leaf", "leaf"), Pair("wide", "none"), Pair("none", "text")}
===============================================================================
