------------------------------- MODULE Hostnames -------------------------------
(***************************************************************************)
(* The hostnames a Gateway hands to its templates: those of its listeners  *)
(* and of the HTTPRoutes attached to it (filterHTTPRoutesForGateway and    *)
(* combineHostnames in gateway_controller.go).  Templates put them into    *)
(* certificates and DNS records.                                           *)
(*                                                                         *)
(* A domain is the sequence of its labels from the top down, so that the   *)
(* string suffix ".example.com" is the prefix <<"com", "example">> of a    *)
(* longer sequence; a hostname is a domain with or without a leading "*.". *)
(***************************************************************************)
EXTENDS Naturals, Sequences, FiniteSets

CONSTANTS
    Labels,           \* DNS labels
    Domains,          \* the domains that may be named
    Routes,           \* keys of HTTPRoutes
    Namespaces,
    RouteNamespace,   \* the namespace of each of them
    GwNamespace,      \* the namespace and the name of the Gateway
    GwName,
    Refs,             \* parentRefs a route may have
    MaxHostnames,     \* bound: hostnames of one object
    Unset             \* an optional field that is nil

Hostname == [wild : BOOLEAN, domain : Domains]
ParentRef == [group : {Unset, "gateway", "other"}, kind : {Unset, "Gateway", "other"},
              ns : Namespaces \cup {Unset}, name : {GwName, "other"}]

ASSUME HostnamesAssumption ==
    /\ Domains \subseteq Seq(Labels)
    /\ RouteNamespace \in [Routes -> Namespaces]
    /\ GwNamespace \in Namespaces /\ Unset \notin Namespaces
    /\ Refs \subseteq ParentRef
    /\ MaxHostnames \in Nat

VARIABLES
    listeners,  \* the listeners: the hostname of each, if any
    refs,       \* the parentRefs of each route; none: the route does not exist
    names       \* the hostnames of each route

hostVars == <<listeners, refs, names>>

Listener == [hostname : Hostname \cup {Unset}]

HostTypeOK ==
    /\ listeners \subseteq Listener
    /\ refs \in [Routes -> SUBSET Refs]
    /\ names \in [Routes -> SUBSET Hostname]

\* The API server requires at least one listener.
Init ==
    /\ \E l \in Listener : listeners = {l}
    /\ refs = [r \in Routes |-> {}]
    /\ names = [r \in Routes |-> {}]

\* Users edit the Gateway ...
EditGateway ==
    /\ \E l \in Listener :
         listeners' = IF l \in listeners THEN listeners \ {l} ELSE listeners \cup {l}
    /\ Cardinality(listeners') \in 1..MaxHostnames
    /\ UNCHANGED <<refs, names>>

\* ... and create, edit and delete routes.
EditRoute(r) ==
    /\ \/ \E p \in Refs :
            /\ refs' = [refs EXCEPT ![r] = IF p \in @ THEN @ \ {p} ELSE @ \cup {p}]
            /\ names' = IF refs'[r] = {} THEN [names EXCEPT ![r] = {}] ELSE names
       \/ \E h \in Hostname :
            /\ refs[r] # {}
            /\ names' = [names EXCEPT ![r] = IF h \in @ THEN @ \ {h} ELSE @ \cup {h}]
            /\ refs' = refs
    /\ Cardinality(names'[r]) <= MaxHostnames
    /\ UNCHANGED listeners

Next == EditGateway \/ \E r \in Routes : EditRoute(r)

Spec == Init /\ [][Next]_hostVars

-------------------------------------------------------------------------------
(* filterHTTPRoutesForGateway *)

RefersToGateway(p, r) ==
    /\ p.group \in {Unset, "gateway"}
    /\ p.kind \in {Unset, "Gateway"}
    /\ (IF p.ns = Unset THEN RouteNamespace[r] ELSE p.ns) = GwNamespace
    /\ p.name = GwName

\* A route with several such parentRefs is returned several times, to no effect.
filterHTTPRoutesForGateway == {r \in Routes : \E p \in refs[r] : RefersToGateway(p, r)}

-------------------------------------------------------------------------------
(* combineHostnames *)

ListenerHostnames == {l.hostname : l \in {m \in listeners : m.hostname # Unset}}

Union == ListenerHostnames \cup UNION {names[r] : r \in filterHTTPRoutesForGateway}

\* strings.HasSuffix(h, "." + w)
Under(h, w) == Len(h) > Len(w) /\ SubSeq(h, 1, Len(w)) = w

\* MUTANT: only the hostnames one label below the wildcard are covered.
CoveredOneLabel(h, ws) ==
    \E w \in ws : w.wild /\ Len(h) <= Len(w.domain) + 1 /\ (Under(h, w.domain) \/ h = w.domain)

\* MUTANT: the arguments of HasSuffix are swapped.
CoveredSwapped(h, ws) == \E w \in ws : w.wild /\ (Under(w.domain, h) \/ h = w.domain)

Covered(h, ws) == \E w \in ws : w.wild /\ (Under(h, w.domain) \/ h = w.domain)

\* What is left when the hostnames covered by a wildcard are removed.
Isect(hs) == {h \in hs : h.wild \/ ~Covered(h.domain, hs)}

Intersection == Isect(Union)

-------------------------------------------------------------------------------
(* Properties *)

\* Which names a hostname stands for in the Gateway API: "*.example.com" matches
\* "test.example.com" and "foo.test.example.com" but not "example.com".
Match(h, d) == IF h.wild THEN Under(d, h.domain) ELSE h.domain = d

Served(hs) == {d \in Domains : \E h \in hs : Match(h, d)}

Apexes(hs) == {h.domain : h \in {w \in hs : w.wild}}

\* A certificate or a DNS record made from the intersection serves every name
\* that one made from the union serves, and no other, but for the domains named
\* both by themselves and with a wildcard.
OnlyApexesLost ==
    /\ Served(Intersection) \subseteq Served(Union)
    /\ Served(Union) \ Served(Intersection) \subseteq Apexes(Union)

\* The purpose of the intersection, "to reduce the number of child resources
\* changes": whatever is done to the routes, the intersection stays the same as
\* long as the hostnames that come or go are exact ones which a wildcard of a
\* listener covers.
CoveredRoutesChangeNothing ==
    [][listeners' = listeners
       /\ (\A h \in (Union \ Union') \cup (Union' \ Union) :
             ~h.wild /\ \E w \in ListenerHostnames : w.wild /\ Under(h.domain, w.domain))
       => Intersection' = Intersection]_hostVars

-------------------------------------------------------------------------------
(* What docs say, and the code does not do *)

\* upstream-gateway-api/crds.yaml: a wildcard does not match its own domain, so
\* the hostnames covered by wildcards are those of names it matches.
NothingLost == Served(Intersection) = Served(Union)
===============================================================================
