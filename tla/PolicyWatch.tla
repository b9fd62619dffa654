----------------------------- MODULE PolicyWatch -----------------------------
(***************************************************************************)
(* How a GatewayClassConfig or GatewayConfig reaches the Gateways it       *)
(* concerns.  Two pieces of code have to agree: lookupValues (common.go)   *)
(* selects the policies of a Gateway when it is reconciled, and            *)
(* gatewaysForConfig (gateway_controller.go) selects the Gateways to       *)
(* reconcile when a policy changes.  Both read informer caches, which      *)
(* follow the API server at their own pace, one kind of object at a time,  *)
(* and may miss versions in between: after a list, an object that was      *)
(* deleted and created again is one update.                                *)
(*                                                                         *)
(* What a policy says is abstracted to its version; the order and the      *)
(* merging of the selected policies is the subject of PolicyValues.  The   *)
(* generation is that of the API server: 1 for a new object, also for one  *)
(* that had a predecessor of the same name, and one more for each new spec.*)
(***************************************************************************)
EXTENDS Naturals, FiniteSets

CONSTANTS
    Gateways,             \* keys of Gateway objects
    Configs,              \* keys of policy objects
    Names,                \* names of namespaces, classes and Gateways
    GwNamespace, GwName,  \* the namespace and the name of each Gateway
    CfgNamespace,         \* the namespace of each policy
    CfgKind,              \* its kind
    ControllerNamespace,  \* where global policies live
    ClassNames,           \* classes a Gateway may be given, all of this controller
    FirstClass,           \* the class each Gateway has when the controller starts
    Targets,              \* targetRefs a policy may be given
    NoNamespace,          \* a targetRef without namespace
    MaxEdits              \* bound: edits by users and failed calls

Target == [group : {"gateway", "core", "other"}, kind : {"GatewayClass", "Namespace", "Gateway"},
           ns : Names \cup {NoNamespace}, name : Names]

ASSUME PolicyAssumption ==
    /\ GwNamespace \in [Gateways -> Names] /\ GwName \in [Gateways -> Names]
    /\ CfgNamespace \in [Configs -> Names]
    /\ CfgKind \in [Configs -> {"GatewayClassConfig", "GatewayConfig"}]
    /\ ControllerNamespace \in Names
    /\ ClassNames \subseteq Names /\ FirstClass \in [Gateways -> ClassNames]
    /\ Targets \subseteq Target
    /\ NoNamespace \notin Names
    /\ MaxEdits \in Nat

VARIABLES
    gws,       \* API server: the class of each Gateway, if it exists
    cfgs,      \* API server: each policy, if it exists
    gwCache,   \* informer cache of the Gateways
    cfgCache,  \* informer caches of the policies
    queue,     \* work queue of the Gateway controller
    busy,      \* the Gateway being reconciled: at most one, MaxConcurrentReconciles is 1
    pc,        \* how far lookupValues has come: "idle", "global", "class", "gateway" or "apply"
    class,     \* the class read for it
    lists,     \* what the List calls of lookupValues have returned
    used,      \* the policies the children of each Gateway were last rendered from
    edits,     \* edits and failures so far
    dropped    \* history: Gateways of a policy event that the event filter has dropped
               \* since their last Reconcile began

vars == <<gws, cfgs, gwCache, cfgCache, queue, busy, pc, class, lists, used, edits, dropped>>

Absent == [there |-> FALSE]
Policy == [there : {TRUE}, target : Targets, gen : Nat, version : Nat] \cup {Absent}
Parent == [there : {TRUE}, class : ClassNames] \cup {Absent}
Object == Configs \X Policy
Groups == [gwccGlobal : SUBSET Object, gwccNs : SUBSET Object, gwccLocalGwc : SUBSET Object,
           gwcNs : SUBSET Object, gwcGw : SUBSET Object]
NoGroups == [gwccGlobal |-> {}, gwccNs |-> {}, gwccLocalGwc |-> {}, gwcNs |-> {}, gwcGw |-> {}]
Lists == [gwccGlobal : SUBSET Object, gwccLocal : SUBSET Object, gwcLocal : SUBSET Object]
NoLists == [gwccGlobal |-> {}, gwccLocal |-> {}, gwcLocal |-> {}]

PolicyTypeOK ==
    /\ gws \in [Gateways -> Parent] /\ gwCache \in [Gateways -> Parent]
    /\ cfgs \in [Configs -> Policy] /\ cfgCache \in [Configs -> Policy]
    /\ queue \subseteq Gateways
    /\ busy \in Gateways
    /\ pc \in {"idle", "global", "class", "gateway", "apply"}
    /\ class \in ClassNames
    /\ lists \in Lists
    /\ used \in [Gateways -> Groups]
    /\ edits \in 0..MaxEdits
    /\ dropped \subseteq Gateways

\* The controller starts: the caches are filled and every Gateway is queued.
Init ==
    /\ gws = [g \in Gateways |-> [there |-> TRUE, class |-> FirstClass[g]]] /\ gwCache = gws
    /\ cfgs = [c \in Configs |-> Absent] /\ cfgCache = cfgs
    /\ queue = Gateways
    /\ busy \in Gateways /\ pc = "idle" /\ class \in ClassNames
    /\ lists = NoLists
    /\ used = [g \in Gateways |-> NoGroups]
    /\ edits = 0 /\ dropped = {}

-------------------------------------------------------------------------------
(* Selection: lookupValues *)

\* client.List of one kind in one namespace.
List(kind, ns) ==
    {<<c, cfgCache[c]>> : c \in {d \in Configs : cfgCache[d].there /\ CfgKind[d] = kind /\ CfgNamespace[d] = ns}}

TargetsClass(t, cl)  == t.kind = "GatewayClass" /\ t.group = "gateway" /\ t.name = cl
TargetsNamespace(t, ns) == t.kind = "Namespace" /\ t.group = "core" /\ t.name = ns
TargetsGateway(t, g) ==
    /\ t.kind = "Gateway" /\ t.group = "gateway"
    /\ t.ns \in {NoNamespace, GwNamespace[g]} /\ t.name = GwName[g]

\* The five groups lookupValues filters out of the lists, least specific first.
Filtered(g, cl, ls) ==
    [gwccGlobal   |-> {o \in ls.gwccGlobal : TargetsClass(o[2].target, cl)},
     gwccNs       |-> {o \in ls.gwccLocal : TargetsNamespace(o[2].target, GwNamespace[g])},
     gwccLocalGwc |-> {o \in ls.gwccLocal : TargetsClass(o[2].target, cl)},
     gwcNs        |-> {o \in ls.gwcLocal : TargetsNamespace(o[2].target, GwNamespace[g])},
     gwcGw        |-> {o \in ls.gwcLocal : TargetsGateway(o[2].target, g)}]

ListsNow(g) ==
    [gwccGlobal |-> List("GatewayClassConfig", ControllerNamespace),
     gwccLocal  |-> List("GatewayClassConfig", GwNamespace[g]),
     gwcLocal   |-> List("GatewayConfig", GwNamespace[g])]

-------------------------------------------------------------------------------
(* Notification: gatewaysForConfig *)

\* MUTANT: policies in the controller namespace are treated like any other.
GlobalNever(c, o) == FALSE

Global(c, o) ==
    /\ CfgKind[c] = "GatewayClassConfig" /\ CfgNamespace[c] = ControllerNamespace
    /\ o.target.kind = "GatewayClass" /\ o.target.group = "gateway"

Matches(c, o, g) ==
    \/ /\ o.target.group = "gateway" /\ o.target.kind = "GatewayClass"
       /\ CfgKind[c] = "GatewayClassConfig" /\ gwCache[g].class = o.target.name
    \/ /\ o.target.group = "core" /\ o.target.kind = "Namespace"
       /\ GwNamespace[g] = o.target.name
    \/ /\ o.target.group = "gateway" /\ o.target.kind = "Gateway"
       /\ CfgKind[c] = "GatewayConfig" /\ GwName[g] = o.target.name
       /\ o.target.ns \in {NoNamespace, GwNamespace[g]}

gatewaysForConfig(c, o) ==
    {g \in Gateways : /\ gwCache[g].there
                      /\ Global(c, o) \/ GwNamespace[g] = CfgNamespace[c]
                      /\ Matches(c, o, g)}

\* GenerationChangedPredicate: an update must have changed the generation.  That of
\* a policy that was deleted and created again may be what it was.
Passes(old, new) == old.there /\ new.there => old.gen # new.gen

\* EnqueueRequestsFromMapFunc maps the new object of a create event, the old one
\* of a delete event and both of an update event.
Concerned(c, old, new) ==
    UNION {gatewaysForConfig(c, o) : o \in {x \in {old, new} : x.there}}

\* MUTANT: only the new version of a policy is mapped to Gateways.
RequestsNewOnly(c, old, new) ==
    IF Passes(old, new) /\ new.there THEN gatewaysForConfig(c, new) ELSE {}

Requests(c, old, new) == IF Passes(old, new) THEN Concerned(c, old, new) ELSE {}

-------------------------------------------------------------------------------
(* Users *)

Edit == edits < MaxEdits /\ edits' = edits + 1

\* A policy is created, deleted or gets a new spec, possibly a new target.
EditConfig(c) ==
    /\ Edit
    /\ \/ cfgs[c].there /\ cfgs' = [cfgs EXCEPT ![c] = Absent]
       \/ \E t \in Targets :
            cfgs' = [cfgs EXCEPT ![c] =
                       [there |-> TRUE, target |-> t, version |-> edits',
                        gen |-> IF cfgs[c].there THEN cfgs[c].gen + 1 ELSE 1]]
    /\ UNCHANGED <<gws, gwCache, cfgCache, queue, busy, pc, class, lists, used, dropped>>

EditGateway(g) ==
    /\ Edit
    /\ \/ gws[g].there /\ gws' = [gws EXCEPT ![g] = Absent]
       \/ \E cl \in ClassNames : gws' = [gws EXCEPT ![g] = [there |-> TRUE, class |-> cl]]
    /\ UNCHANGED <<cfgs, gwCache, cfgCache, queue, busy, pc, class, lists, used, dropped>>

-------------------------------------------------------------------------------
(* Informers *)

DeliverConfig(c) ==
    /\ cfgCache[c] # cfgs[c]
    /\ cfgCache' = [cfgCache EXCEPT ![c] = cfgs[c]]
    /\ queue' = queue \cup Requests(c, cfgCache[c], cfgs[c])
    /\ dropped' = IF Passes(cfgCache[c], cfgs[c]) THEN dropped
                  ELSE dropped \cup Concerned(c, cfgCache[c], cfgs[c])
    /\ UNCHANGED <<gws, cfgs, gwCache, busy, pc, class, lists, used, edits>>

\* Gateways are watched without a filter.
DeliverGateway(g) ==
    /\ gwCache[g] # gws[g]
    /\ gwCache' = [gwCache EXCEPT ![g] = gws[g]]
    /\ queue' = queue \cup {g}
    /\ UNCHANGED <<gws, cfgs, cfgCache, busy, pc, class, lists, used, edits, dropped>>

\* MUTANT: Gateways are watched with GenerationChangedPredicate, too.
ResyncFiltered(g) == FALSE /\ UNCHANGED vars

\* The periodic resync is an update of each Gateway to what it is.  That of a
\* policy does not pass the filter.
Resync(g) ==
    /\ gwCache[g].there /\ g \notin queue
    /\ queue' = queue \cup {g}
    /\ UNCHANGED <<gws, cfgs, gwCache, cfgCache, busy, pc, class, lists, used, edits, dropped>>

-------------------------------------------------------------------------------
(* The worker *)

ReconcileGone(g) ==
    /\ pc = "idle" /\ g \in queue /\ ~gwCache[g].there
    /\ queue' = queue \ {g}
    /\ UNCHANGED <<gws, cfgs, gwCache, cfgCache, busy, pc, class, lists, used, edits, dropped>>

ReconcileBegins(g) ==
    /\ pc = "idle" /\ g \in queue /\ gwCache[g].there
    /\ queue' = queue \ {g} /\ dropped' = dropped \ {g}
    /\ busy' = g /\ class' = gwCache[g].class
    /\ pc' = "global"
    /\ UNCHANGED <<gws, cfgs, gwCache, cfgCache, lists, used, edits>>

ListGlobal ==
    /\ pc = "global" /\ pc' = "class"
    /\ lists' = [lists EXCEPT !.gwccGlobal = List("GatewayClassConfig", ControllerNamespace)]
    /\ UNCHANGED <<gws, cfgs, gwCache, cfgCache, queue, busy, class, used, edits, dropped>>

ListClassConfigs ==
    /\ pc = "class" /\ pc' = "gateway"
    /\ lists' = [lists EXCEPT !.gwccLocal = List("GatewayClassConfig", GwNamespace[busy])]
    /\ UNCHANGED <<gws, cfgs, gwCache, cfgCache, queue, busy, class, used, edits, dropped>>

ListGatewayConfigs ==
    /\ pc = "gateway" /\ pc' = "apply"
    /\ lists' = [lists EXCEPT !.gwcLocal = List("GatewayConfig", GwNamespace[busy])]
    /\ UNCHANGED <<gws, cfgs, gwCache, cfgCache, queue, busy, class, used, edits, dropped>>

\* Values are merged and the children rendered and applied.
Apply ==
    /\ pc = "apply" /\ pc' = "idle"
    /\ used' = [used EXCEPT ![busy] = Filtered(busy, class, lists)]
    /\ lists' = NoLists
    /\ UNCHANGED <<gws, cfgs, gwCache, cfgCache, queue, busy, class, edits, dropped>>

\* An error anywhere in between puts the key back with a delay.
Fail ==
    /\ Edit
    /\ pc # "idle" /\ pc' = "idle"
    /\ queue' = queue \cup {busy}
    /\ lists' = NoLists
    /\ UNCHANGED <<gws, cfgs, gwCache, cfgCache, busy, class, used, dropped>>

Worker ==
    \/ \E g \in Gateways : ReconcileGone(g) \/ ReconcileBegins(g)
    \/ ListGlobal \/ ListClassConfigs \/ ListGatewayConfigs \/ Apply

Informers ==
    \/ \E c \in Configs : DeliverConfig(c)
    \/ \E g \in Gateways : DeliverGateway(g)

Next ==
    \/ \E c \in Configs : EditConfig(c)
    \/ \E g \in Gateways : EditGateway(g) \/ Resync(g)
    \/ Informers
    \/ Worker
    \/ Fail

Spec == Init /\ [][Next]_vars

\* Informers go on until they have delivered what the API server holds, and the
\* worker serves the queue in the order of arrival: a key that stays in it is taken
\* in the end.  The resync is not among what has to happen.
FairSpec ==
    /\ Spec
    /\ WF_vars(Informers)
    /\ \A g \in Gateways : SF_vars(ReconcileBegins(g) \/ ReconcileGone(g))
    /\ WF_vars(Worker)

-------------------------------------------------------------------------------
(* Properties *)

UpToDate(g) == used[g] = Filtered(g, gwCache[g].class, ListsNow(g))

\* The children of a Gateway that is neither queued nor being worked on were
\* rendered from exactly the policies that lookupValues would select now: no
\* change of a policy, of its target or of the class of the Gateway is missed,
\* although lookupValues reads three lists one after the other and
\* gatewaysForConfig reads a cache of Gateways that may be behind.  The one
\* exception is GenerationChangedPredicate: it drops an update that replaces a
\* policy by a new one of the same generation.
NoMissedPolicy ==
    \A g \in Gateways : gwCache[g].there /\ g \notin queue \cup dropped /\ ~(pc # "idle" /\ busy = g)
        => UpToDate(g)

\* The policies a Gateway is rendered from are in the end those on the API server,
\* without the help of the periodic resync, unless the event filter has dropped an
\* event of one of them and the Gateway was not reconciled since.
PoliciesArrive ==
    <>[](\A g \in Gateways : gws[g].there =>
            gwCache = gws /\ cfgCache = cfgs /\ (g \notin dropped => UpToDate(g)))

\* What the filter has dropped is repaired by the resync.
ResyncRepairs ==
    (\A g \in Gateways : WF_vars(Resync(g)))
        => <>[](\A g \in Gateways : gws[g].there => gwCache = gws /\ cfgCache = cfgs /\ UpToDate(g))

\* What a call in progress has read, together with the keys marked dirty since.
ReadSoFar ==
    pc # "idle" /\ busy \notin queue \cup dropped =>
        LET now == Filtered(busy, class, ListsNow(busy))
            got == Filtered(busy, class, lists)
        IN  /\ gwCache[busy].there /\ gwCache[busy].class = class
            /\ pc \in {"class", "gateway", "apply"} => got.gwccGlobal = now.gwccGlobal
            /\ pc \in {"gateway", "apply"} => got.gwccNs = now.gwccNs /\ got.gwccLocalGwc = now.gwccLocalGwc
            /\ pc = "apply" => got.gwcNs = now.gwcNs /\ got.gwcGw = now.gwcGw

PolicyInductive == PolicyTypeOK /\ NoMissedPolicy /\ ReadSoFar
===============================================================================
