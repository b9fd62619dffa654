------------------------------ MODULE MCHostnames ------------------------------
(* A Gateway in ns0, a route beside it and one in another namespace. *)
EXTENDS Hostnames

Top == <<"com", "ex">>
MCDomains == {Top, Top \o <<"a">>, Top \o <<"a", "b">>}

MCRouteNamespace == [r \in {"r1", "r2"} |-> IF r = "r1" THEN "ns0" ELSE "ns1"]

Ref(group, kind, ns, name) == [group |-> group, kind |-> kind, ns |-> ns, name |-> name]
MCRefs == {Ref(Unset, Unset, Unset, "gw"), Ref("gateway", "Gateway", "ns0", "gw")}
===============================================================================
