-------------------------- MODULE PolicyWatchProofs --------------------------
(***************************************************************************)
(* lookupValues and gatewaysForConfig agree, and therefore no change of a  *)
(* policy is missed that passes the event filter, for any set of Gateways, *)
(* policies and targets.                                                   *)
(***************************************************************************)
EXTENDS PolicyWatch, TLAPS

USE PolicyAssumption

\* Whether policy c in version o is one of those lookupValues selects for g.
Selects(g, c, o) ==
    LET cl == gwCache[g].class
        ns == GwNamespace[g]
    IN  \/ /\ CfgKind[c] = "GatewayClassConfig" /\ CfgNamespace[c] = ControllerNamespace
           /\ TargetsClass(o.target, cl)
        \/ /\ CfgKind[c] = "GatewayClassConfig" /\ CfgNamespace[c] = ns
           /\ TargetsNamespace(o.target, ns) \/ TargetsClass(o.target, cl)
        \/ /\ CfgKind[c] = "GatewayConfig" /\ CfgNamespace[c] = ns
           /\ TargetsNamespace(o.target, ns) \/ TargetsGateway(o.target, g)

\* A policy event wakes exactly the Gateways it concerns: gatewaysForConfig maps a
\* policy to the Gateways in the cache for which lookupValues selects it.
THEOREM MappingIsExact ==
    ASSUME NEW c \in Configs, NEW o \in Policy, o.there, NEW g \in Gateways, gwCache[g].there
    PROVE  g \in gatewaysForConfig(c, o) <=> Selects(g, c, o)
<1>1. o.target \in Target
  <2>1. o # Absent
    BY DEF Absent
  <2>2. o.target \in Targets
    BY <2>1 DEF Policy
  <2>. QED
    BY <2>2
<1>2. CASE CfgKind[c] = "GatewayClassConfig"
  BY <1>1, <1>2 DEF gatewaysForConfig, Global, Matches, Selects, TargetsClass, TargetsNamespace, TargetsGateway, Target
<1>3. CASE CfgKind[c] = "GatewayConfig"
  BY <1>1, <1>3 DEF gatewaysForConfig, Global, Matches, Selects, TargetsClass, TargetsNamespace, TargetsGateway, Target
<1>. QED
  BY <1>2, <1>3

\* The policies selected for g, as lookupValues finds them in the caches.
Now(g) == Filtered(g, gwCache[g].class, ListsNow(g))

\* A change of c that neither wakes g nor is dropped before it could leaves a list
\* as it was, but for policies that are not selected for g.
LEMMA UnwokenGatewayKeepsItsPolicies ==
    ASSUME PolicyTypeOK, NEW c \in Configs, DeliverConfig(c), NEW g \in Gateways, gwCache[g].there,
           g \notin queue' \cup dropped'
    PROVE  Now(g)' = Now(g)
<1>. DEFINE old == cfgCache[c]
            new == cfgs[c]
            cl  == gwCache[g].class
            ns  == GwNamespace[g]
<1>1. old \in Policy /\ new \in Policy /\ cfgCache' = [cfgCache EXCEPT ![c] = new] /\ gwCache' = gwCache
  BY DEF PolicyTypeOK, DeliverConfig
<1>2. /\ old.there => ~Selects(g, c, old)
      /\ new.there => ~Selects(g, c, new)
  <2>1. g \notin Concerned(c, old, new)
    BY DEF DeliverConfig, Requests
  <2>2. old.there => g \notin gatewaysForConfig(c, old)
    BY <2>1 DEF Concerned
  <2>3. new.there => g \notin gatewaysForConfig(c, new)
    BY <2>1 DEF Concerned
  <2>. QED
    BY <1>1, <2>2, <2>3, MappingIsExact
<1>3. \A d \in Configs : cfgCache'[d] = IF d = c THEN new ELSE cfgCache[d]
  BY <1>1 DEF PolicyTypeOK
<1>. HIDE DEF old, new
<1>4. {o \in List("GatewayClassConfig", ControllerNamespace)' : TargetsClass(o[2].target, cl)}
        = {o \in List("GatewayClassConfig", ControllerNamespace) : TargetsClass(o[2].target, cl)}
  BY <1>2, <1>3 DEF List, Selects, old, new
<1>5. {o \in List("GatewayClassConfig", ns)' : TargetsNamespace(o[2].target, ns)}
        = {o \in List("GatewayClassConfig", ns) : TargetsNamespace(o[2].target, ns)}
  BY <1>2, <1>3 DEF List, Selects, old, new
<1>6. {o \in List("GatewayClassConfig", ns)' : TargetsClass(o[2].target, cl)}
        = {o \in List("GatewayClassConfig", ns) : TargetsClass(o[2].target, cl)}
  BY <1>2, <1>3 DEF List, Selects, old, new
<1>7. {o \in List("GatewayConfig", ns)' : TargetsNamespace(o[2].target, ns)}
        = {o \in List("GatewayConfig", ns) : TargetsNamespace(o[2].target, ns)}
  BY <1>2, <1>3 DEF List, Selects, old, new
<1>8. {o \in List("GatewayConfig", ns)' : TargetsGateway(o[2].target, g)}
        = {o \in List("GatewayConfig", ns) : TargetsGateway(o[2].target, g)}
  BY <1>2, <1>3 DEF List, Selects, old, new
<1>. QED
  BY <1>1, <1>4, <1>5, <1>6, <1>7, <1>8 DEF Now, Filtered, ListsNow

-------------------------------------------------------------------------------
(* Type correctness *)

\* A List call returns policies.
LEMMA ListType ==
    ASSUME PolicyTypeOK, NEW kind, NEW ns
    PROVE  List(kind, ns) \subseteq Object
BY DEF List, Object, PolicyTypeOK

\* Filtering what was listed gives five groups of policies.
LEMMA FilteredType ==
    ASSUME PolicyTypeOK, NEW g, NEW cl, NEW ls \in Lists
    PROVE  Filtered(g, cl, ls) \in Groups
BY DEF Filtered, Groups, Lists

\* The type invariant holds at the start ...
LEMMA PolicyTypeInit == Init => PolicyTypeOK
BY DEF Init, PolicyTypeOK, Parent, Policy, Absent, Lists, NoLists, Groups, NoGroups

\* ... and every step keeps it.
LEMMA PolicyTypeNext == PolicyTypeOK /\ [Next]_vars => PolicyTypeOK'
<1>. SUFFICES ASSUME PolicyTypeOK, [Next]_vars
              PROVE  PolicyTypeOK'
  OBVIOUS
<1>1. ASSUME NEW c \in Configs, EditConfig(c)
      PROVE  PolicyTypeOK'
  <2>1. edits' \in 0..MaxEdits
    BY <1>1 DEF EditConfig, Edit, PolicyTypeOK
  <2>2. cfgs' \in [Configs -> Policy]
    <3>1. Absent \in Policy
      BY DEF Policy
    <3>2. /\ 1 \in Nat
          /\ cfgs[c].there => cfgs[c].gen + 1 \in Nat
      <4>1. cfgs[c] \in Policy
        BY DEF PolicyTypeOK
      <4>2. cfgs[c].there => cfgs[c] # Absent
        BY DEF Absent
      <4>3. cfgs[c].there => cfgs[c].gen \in Nat
        BY <4>1, <4>2 DEF Policy
      <4>. QED
        BY <4>3
    <3>3. \A t \in Targets, n \in Nat :
            [there |-> TRUE, target |-> t, version |-> edits', gen |-> n] \in Policy
      BY <2>1 DEF Policy
    <3>4. \E o \in Policy : cfgs' = [cfgs EXCEPT ![c] = o]
      <4>1. CASE cfgs' = [cfgs EXCEPT ![c] = Absent]
        BY <3>1, <4>1
      <4>2. CASE cfgs' # [cfgs EXCEPT ![c] = Absent]
        <5>1. PICK t \in Targets :
                cfgs' = [cfgs EXCEPT ![c] =
                           [there |-> TRUE, target |-> t, version |-> edits',
                            gen |-> IF cfgs[c].there THEN cfgs[c].gen + 1 ELSE 1]]
          BY <1>1, <4>2 DEF EditConfig
        <5>2. (IF cfgs[c].there THEN cfgs[c].gen + 1 ELSE 1) \in Nat
          BY <3>2
        <5>. QED
          BY <3>3, <5>1, <5>2
      <4>. QED
        BY <4>1, <4>2
    <3>. QED
      BY <3>4 DEF PolicyTypeOK
  <2>. QED
    BY <1>1, <2>1, <2>2 DEF EditConfig, PolicyTypeOK
<1>2. ASSUME NEW g \in Gateways, EditGateway(g)
      PROVE  PolicyTypeOK'
  <2>1. edits' \in 0..MaxEdits
    BY <1>2 DEF EditGateway, Edit, PolicyTypeOK
  <2>2. gws' \in [Gateways -> Parent]
    <3>1. Absent \in Parent
      BY DEF Parent
    <3>2. \A cl \in ClassNames : [there |-> TRUE, class |-> cl] \in Parent
      BY DEF Parent
    <3>3. \E o \in Parent : gws' = [gws EXCEPT ![g] = o]
      BY <1>2, <3>1, <3>2 DEF EditGateway
    <3>. QED
      BY <3>3 DEF PolicyTypeOK
  <2>. QED
    BY <1>2, <2>1, <2>2 DEF EditGateway, PolicyTypeOK
<1>3. ASSUME NEW c \in Configs, DeliverConfig(c)
      PROVE  PolicyTypeOK'
  <2>1. Concerned(c, cfgCache[c], cfgs[c]) \subseteq Gateways
    BY DEF Concerned, gatewaysForConfig
  <2>2. queue' \subseteq Gateways /\ dropped' \subseteq Gateways
    BY <1>3, <2>1 DEF DeliverConfig, Requests, PolicyTypeOK
  <2>. QED
    BY <1>3, <2>2 DEF DeliverConfig, PolicyTypeOK
<1>4. ASSUME NEW g \in Gateways, DeliverGateway(g)
      PROVE  PolicyTypeOK'
  BY <1>4 DEF DeliverGateway, PolicyTypeOK
<1>5. ASSUME NEW g \in Gateways, ReconcileGone(g)
      PROVE  PolicyTypeOK'
  BY <1>5 DEF ReconcileGone, PolicyTypeOK
<1>6. ASSUME NEW g \in Gateways, ReconcileBegins(g)
      PROVE  PolicyTypeOK'
  <2>1. gwCache[g].class \in ClassNames
    <3>1. gwCache[g] \in Parent /\ gwCache[g].there
      BY <1>6 DEF ReconcileBegins, PolicyTypeOK
    <3>2. gwCache[g] # Absent
      BY <3>1 DEF Absent
    <3>. QED
      BY <3>1, <3>2 DEF Parent
  <2>. QED
    BY <1>6, <2>1 DEF ReconcileBegins, PolicyTypeOK
<1>7. CASE ListGlobal
  BY <1>7, ListType DEF ListGlobal, PolicyTypeOK, Lists
<1>8. CASE ListClassConfigs
  BY <1>8, ListType DEF ListClassConfigs, PolicyTypeOK, Lists
<1>9. CASE ListGatewayConfigs
  BY <1>9, ListType DEF ListGatewayConfigs, PolicyTypeOK, Lists
<1>10. CASE Apply
  <2>1. Filtered(busy, class, lists) \in Groups
    BY FilteredType DEF PolicyTypeOK
  <2>. QED
    BY <1>10, <2>1 DEF Apply, PolicyTypeOK, Lists, NoLists
<1>11. CASE Fail
  <2>1. edits' \in 0..MaxEdits
    BY <1>11 DEF Fail, Edit, PolicyTypeOK
  <2>. QED
    BY <1>11, <2>1 DEF Fail, PolicyTypeOK, Lists, NoLists
<1>12. ASSUME NEW g \in Gateways, Resync(g)
       PROVE  PolicyTypeOK'
  BY <1>12 DEF Resync, PolicyTypeOK
<1>13. CASE UNCHANGED vars
  BY <1>13 DEF vars, PolicyTypeOK
<1>. QED
  BY <1>1, <1>2, <1>3, <1>4, <1>5, <1>6, <1>7, <1>8, <1>9, <1>10, <1>11, <1>12, <1>13
     DEF Next, Informers, Worker

-------------------------------------------------------------------------------
(* No policy is missed *)

PolicyCore == NoMissedPolicy /\ ReadSoFar

\* At the start every Gateway is queued and no call is in progress.
LEMMA PolicyCoreInit == Init => PolicyCore
BY DEF Init, PolicyCore, NoMissedPolicy, ReadSoFar

\* Steps that change no cache, no queue and nothing the worker has.
LEMMA PolicyFrame ==
    ASSUME PolicyCore, UNCHANGED <<gwCache, cfgCache, queue, busy, pc, class, lists, used, dropped>>
    PROVE  PolicyCore'
<1>1. \A g : ListsNow(g)' = ListsNow(g)
  BY DEF ListsNow, List
<1>2. NoMissedPolicy'
  BY <1>1 DEF PolicyCore, NoMissedPolicy, UpToDate, Filtered
<1>3. ListsNow(busy)' = ListsNow(busy)
  BY DEF ListsNow, List
<1>4. /\ Filtered(busy, class, ListsNow(busy))' = Filtered(busy, class, ListsNow(busy))
      /\ Filtered(busy, class, lists)' = Filtered(busy, class, lists)
  BY <1>3 DEF Filtered
<1>5. ReadSoFar'
  BY <1>4 DEF PolicyCore, ReadSoFar
<1>. QED
  BY <1>2, <1>5 DEF PolicyCore

\* Every step of users, informers and the worker keeps the invariant.
LEMMA PolicyCoreNext == PolicyTypeOK /\ PolicyCore /\ [Next]_vars => PolicyCore'
<1>. SUFFICES ASSUME PolicyTypeOK, PolicyCore, [Next]_vars
              PROVE  PolicyCore'
  OBVIOUS
<1>1. ASSUME NEW c \in Configs, EditConfig(c)
      PROVE  PolicyCore'
  BY <1>1, PolicyFrame DEF EditConfig
<1>2. ASSUME NEW g \in Gateways, EditGateway(g)
      PROVE  PolicyCore'
  BY <1>2, PolicyFrame DEF EditGateway
<1>3. ASSUME NEW c \in Configs, DeliverConfig(c)
      PROVE  PolicyCore'
  <2>1. /\ UNCHANGED <<gwCache, busy, pc, class, lists, used>>
        /\ queue \subseteq queue' /\ dropped \subseteq dropped'
    BY <1>3 DEF DeliverConfig
  <2>2. ASSUME NEW g \in Gateways, g \notin queue' \cup dropped', gwCache[g].there
        PROVE  Now(g)' = Now(g)
    BY <1>3, <2>2, UnwokenGatewayKeepsItsPolicies
  <2>3. NoMissedPolicy'
    BY <2>1, <2>2 DEF PolicyCore, NoMissedPolicy, UpToDate, Now
  <2>4. ReadSoFar'
    <3>1. SUFFICES ASSUME pc # "idle", busy \notin queue' \cup dropped'
                   PROVE  ReadSoFar'
      BY <2>1 DEF ReadSoFar
    <3>2. gwCache[busy].there /\ gwCache[busy].class = class
      BY <2>1, <3>1 DEF PolicyCore, ReadSoFar
    <3>3. Filtered(busy, class, ListsNow(busy))' = Filtered(busy, class, ListsNow(busy))
      BY <2>1, <2>2, <3>1, <3>2 DEF Now, PolicyTypeOK
    <3>4. Filtered(busy, class, lists)' = Filtered(busy, class, lists)
      BY <2>1 DEF Filtered
    <3>. QED
      BY <2>1, <3>1, <3>3, <3>4 DEF PolicyCore, ReadSoFar
  <2>. QED
    BY <2>3, <2>4 DEF PolicyCore
<1>4. ASSUME NEW h \in Gateways, DeliverGateway(h)
      PROVE  PolicyCore'
  <2>1. /\ UNCHANGED <<cfgCache, busy, pc, class, lists, used, dropped>>
        /\ queue' = queue \cup {h}
        /\ \A g \in Gateways : g # h => gwCache'[g] = gwCache[g]
    BY <1>4 DEF DeliverGateway, PolicyTypeOK
  <2>2. \A g \in Gateways : ListsNow(g)' = ListsNow(g)
    BY <2>1 DEF ListsNow, List
  <2>3. NoMissedPolicy'
    BY <2>1, <2>2 DEF PolicyCore, NoMissedPolicy, UpToDate, Filtered
  <2>4. ReadSoFar'
    BY <2>1, <2>2 DEF PolicyCore, ReadSoFar, Filtered, PolicyTypeOK
  <2>. QED
    BY <2>3, <2>4 DEF PolicyCore
<1>5. ASSUME NEW h \in Gateways, ReconcileGone(h)
      PROVE  PolicyCore'
  <2>1. /\ UNCHANGED <<gwCache, cfgCache, busy, pc, class, lists, used, dropped>>
        /\ queue' = queue \ {h} /\ pc = "idle" /\ ~gwCache[h].there
    BY <1>5 DEF ReconcileGone
  <2>. QED
    BY <2>1 DEF PolicyCore, NoMissedPolicy, UpToDate, ReadSoFar, Filtered, ListsNow, List
<1>6. ASSUME NEW h \in Gateways, ReconcileBegins(h)
      PROVE  PolicyCore'
  <2>1. /\ UNCHANGED <<gwCache, cfgCache, used>>
        /\ queue' = queue \ {h} /\ dropped' = dropped \ {h}
        /\ pc = "idle" /\ pc' = "global" /\ busy' = h
        /\ class' = gwCache[h].class /\ gwCache[h].there
    BY <1>6 DEF ReconcileBegins
  <2>2. NoMissedPolicy'
    BY <2>1 DEF PolicyCore, NoMissedPolicy, UpToDate, Filtered, ListsNow, List
  <2>3. ReadSoFar'
    BY <2>1 DEF ReadSoFar
  <2>. QED
    BY <2>2, <2>3 DEF PolicyCore
<1>7. CASE ListGlobal \/ ListClassConfigs \/ ListGatewayConfigs
  <2>1. /\ UNCHANGED <<gwCache, cfgCache, queue, busy, class, used, dropped>>
        /\ pc # "idle" /\ pc' # "idle"
    BY <1>7 DEF ListGlobal, ListClassConfigs, ListGatewayConfigs
  <2>2. NoMissedPolicy'
    BY <2>1 DEF PolicyCore, NoMissedPolicy, UpToDate, Filtered, ListsNow, List
  <2>3. ListsNow(busy)' = ListsNow(busy)
    BY <2>1 DEF ListsNow, List
  <2>4. \/ /\ pc = "global" /\ pc' = "class" /\ lists'.gwccGlobal = ListsNow(busy).gwccGlobal
        \/ /\ pc = "class" /\ pc' = "gateway" /\ lists'.gwccGlobal = lists.gwccGlobal
           /\ lists'.gwccLocal = ListsNow(busy).gwccLocal
        \/ /\ pc = "gateway" /\ pc' = "apply" /\ lists'.gwccGlobal = lists.gwccGlobal
           /\ lists'.gwccLocal = lists.gwccLocal /\ lists'.gwcLocal = ListsNow(busy).gwcLocal
    BY <1>7 DEF ListGlobal, ListClassConfigs, ListGatewayConfigs, ListsNow, PolicyTypeOK, Lists
  <2>5. ReadSoFar'
    BY <2>1, <2>3, <2>4 DEF PolicyCore, ReadSoFar, Filtered
  <2>. QED
    BY <2>2, <2>5 DEF PolicyCore
<1>8. CASE Apply
  <2>1. /\ UNCHANGED <<gwCache, cfgCache, queue, busy, class, dropped>>
        /\ pc = "apply" /\ pc' = "idle"
        /\ used' = [used EXCEPT ![busy] = Filtered(busy, class, lists)]
    BY <1>8 DEF Apply
  <2>2. \A g \in Gateways : Now(g)' = Now(g)
    BY <2>1 DEF Now, Filtered, ListsNow, List
  <2>3. busy \notin queue \cup dropped => Filtered(busy, class, lists) = Now(busy)
    BY <2>1 DEF PolicyCore, ReadSoFar, Now, Filtered
  <2>4. \A g \in Gateways : used'[g] = IF g = busy THEN Filtered(busy, class, lists) ELSE used[g]
    BY <2>1 DEF PolicyTypeOK
  <2>5. NoMissedPolicy'
    BY <2>1, <2>2, <2>3, <2>4 DEF PolicyCore, NoMissedPolicy, UpToDate, Now
  <2>. QED
    BY <2>1, <2>5 DEF PolicyCore, ReadSoFar
<1>9. CASE Fail
  <2>1. /\ UNCHANGED <<gwCache, cfgCache, used, busy, dropped>>
        /\ pc' = "idle" /\ queue' = queue \cup {busy}
    BY <1>9 DEF Fail
  <2>2. NoMissedPolicy'
    BY <2>1 DEF PolicyCore, NoMissedPolicy, UpToDate, Filtered, ListsNow, List
  <2>. QED
    BY <2>1, <2>2 DEF PolicyCore, ReadSoFar
<1>10. ASSUME NEW h \in Gateways, Resync(h)
       PROVE  PolicyCore'
  <2>1. /\ UNCHANGED <<gwCache, cfgCache, busy, pc, class, lists, used, dropped>>
        /\ queue' = queue \cup {h}
    BY <1>10 DEF Resync
  <2>2. NoMissedPolicy'
    BY <2>1 DEF PolicyCore, NoMissedPolicy, UpToDate, Filtered, ListsNow, List
  <2>3. ReadSoFar'
    BY <2>1 DEF PolicyCore, ReadSoFar, Filtered, ListsNow, List
  <2>. QED
    BY <2>2, <2>3 DEF PolicyCore
<1>11. CASE UNCHANGED vars
  BY <1>11, PolicyFrame DEF vars
<1>. QED
  BY <1>1, <1>2, <1>3, <1>4, <1>5, <1>6, <1>7, <1>8, <1>9, <1>10, <1>11 DEF Next, Informers, Worker

\* No change of a policy, of its target or of a Gateway's class is missed by the
\* watches of SetupWithManager and the three reads of lookupValues, apart from the
\* replacement of a policy that GenerationChangedPredicate drops.
THEOREM NoPolicyIsMissed == Spec => []NoMissedPolicy
<1>1. Init => PolicyTypeOK /\ PolicyCore
  BY PolicyTypeInit, PolicyCoreInit
<1>2. PolicyTypeOK /\ PolicyCore /\ [Next]_vars => (PolicyTypeOK /\ PolicyCore)'
  BY PolicyTypeNext, PolicyCoreNext
<1>3. PolicyCore => NoMissedPolicy
  BY DEF PolicyCore
<1>. QED
  BY <1>1, <1>2, <1>3, PTL DEF Spec
===============================================================================
