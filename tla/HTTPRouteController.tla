------------------------- MODULE HTTPRouteController -------------------------
(***************************************************************************)
(* The HTTPRoute controller (controllers/httproute_controller.go) for one  *)
(* HTTPRoute.  Reconcile walks through the parentRefs in their order: it   *)
(* looks up the Gateway, its class and its blueprint, runs the render and  *)
(* apply loop with the route templates of that blueprint, and notes an     *)
(* Accepted condition for the parent; the status is written once, after    *)
(* the last parent.  Some problems of a parent skip it, others end the     *)
(* whole call.                                                             *)
(*                                                                         *)
(* The loop is that of Templating, instantiated for each Gateway.  The     *)
(* lookups for one parent are a step, as are each template's rendering,    *)
(* each template's apply calls and the status update.                      *)
(***************************************************************************)
EXTENDS GatewayClassController, Sequences

CONSTANTS
    Gateways,        \* keys of Gateways
    ClassOf,         \* the class of each Gateway
    GatewayStates,   \* what a lookup may find: "live", "deleting" or "missing"
    Parents,         \* parentRefs; two of them may name one Gateway
    GatewayOf,       \* the namespace and name a parentRef resolves to
    RefKind,         \* its kind, which the API server sets when it is left out
    RefGroup,        \* its group
    RefLists,        \* the values spec.parentRefs may be given
    Resources,       \* child resources of the route
    RouteResources,  \* for each Gateway, the resources its templates render to
    RouteDeps,       \* ... and the templates they refer to
    ClusterScoped,   \* children without an owner reference
    Managed,         \* children whose output is a status of another controller
    MaxEntries,      \* maxItems of status.parents
    MayDelete,       \* bound: is the route ever deleted
    MaxGen           \* bound: generation of the route

NumTemplates(g) == Len(RouteResources[g])

ASSUME RouteAssumption ==
    /\ ClassOf \in [Gateways -> ClassNames]
    /\ GatewayStates \subseteq {"live", "deleting", "missing"}
    /\ GatewayOf \in [Parents -> Gateways]
    /\ RefKind \in [Parents -> {"Gateway", "Service"}]
    /\ RefGroup \in [Parents -> {"gateway", "other"}]
    /\ RefLists \subseteq Seq(Parents)
    /\ RouteResources \in [Gateways -> Seq(SUBSET Resources)]
    /\ \A g \in Gateways : NumTemplates(g) \in Nat \ {0}
    /\ RouteDeps \in [Gateways -> Seq(SUBSET Nat)]
    /\ \A g \in Gateways : RouteDeps[g] \in [1..NumTemplates(g) -> SUBSET (1..NumTemplates(g))]
    /\ ClusterScoped \subseteq Resources /\ Managed \subseteq Resources
    /\ MaxEntries \in Nat /\ MayDelete \in BOOLEAN /\ MaxGen \in Nat

VARIABLES
    \* the world
    rt,         \* the HTTPRoute on the API server
    rtc,        \* its copy in the informer cache
    gws,        \* the Gateways, as the cache holds them
    spec,       \* the children, and
    seen,       \* what their controllers have acted on: see Templating
    queued,     \* the key is in the work queue, or marked dirty
    timer,      \* a delayed requeue is pending
    \* one call of Reconcile
    snap,       \* the route it read
    todo,       \* the parentRefs it has not finished, in their order
    added,      \* parents it has noted as accepted
    requeue,    \* local of the same name
    sinp,       \* version of the inputs read for the present parent
    stage, attempt, idx, rendered, tspec, renderErr, applyErr, cur, avail,
                \* the loop for the present parent: see Templating
    \* history
    due,        \* the last change of a policy that concerns the route
    unrendered  \* the last completed call left a template unrendered

T(g) == INSTANCE Templating WITH
            N <- NumTemplates(g), ResourcesOf <- RouteResources[g], Deps <- RouteDeps[g]

tmplVars  == <<attempt, idx, rendered, tspec, renderErr, applyErr, cur, avail>>
callVars  == <<snap, todo, added, requeue, sinp, stage, tmplVars>>
childVars == <<spec, seen>>
routeVars == <<rt, rtc, gws, childVars, queued, timer, callVars, due, unrendered>>

Route   == [st : {"live", "deleting", "gone"}, gen : Nat, refs : Seq(Parents), entries : SUBSET Parents]
NoRoute == [st |-> "gone", gen |-> 0, refs |-> <<>>, entries |-> {}]
Text    == [gen : Nat, age : Nat]
NoSpec  == [gen |-> 0, age |-> 0]
Nil     == [spec |-> NoSpec, seen |-> NoSpec]
Stages  == {"idle", "lookup", "render", "apply", "status"}

RouteTypeOK ==
    /\ rt \in Route /\ rtc \in Route /\ snap \in Route
    /\ gws \in [Gateways -> GatewayStates]
    /\ spec \in [Resources -> Text] /\ seen \in [Resources -> Text]
    /\ queued \in BOOLEAN /\ timer \in BOOLEAN /\ requeue \in BOOLEAN /\ unrendered \in BOOLEAN
    /\ todo \in Seq(Parents) /\ added \subseteq Parents
    /\ sinp \in 0..MaxEdits /\ due \in 0..MaxEdits
    /\ stage \in Stages
    /\ stage \in {"render", "apply"} => attempt < NumTemplates(GatewayOf[Head(todo)])
    /\ cur \in [Resources -> [spec : Text, seen : Text]] /\ avail \subseteq Resources

Exists(r) == spec[r] # NoSpec
ResourcesFor(g) == UNION {RouteResources[g][t] : t \in 1..NumTemplates(g)}

\* The locals of the loop before the first and after the last parent.
NoLoop ==
    /\ attempt = 0 /\ idx = 1 /\ rendered = {} /\ tspec = <<>>
    /\ renderErr = {} /\ applyErr = {}
    /\ cur = [r \in Resources |-> Nil] /\ avail = {}

RouteInit ==
    /\ \E refs \in RefLists : rt = [st |-> "live", gen |-> 1, refs |-> refs, entries |-> {}]
    /\ rtc = rt
    /\ gws \in [Gateways -> GatewayStates]
    /\ spec = [r \in Resources |-> NoSpec] /\ seen = spec
    /\ queued = TRUE /\ timer = FALSE
    /\ snap = NoRoute /\ todo = <<>> /\ added = {} /\ requeue = FALSE /\ sinp = 0
    /\ stage = "idle" /\ NoLoop
    /\ due = 0 /\ unrendered = FALSE

-------------------------------------------------------------------------------
(* The world around the controller *)

EditRoute ==
    /\ rt.st = "live" /\ rt.gen < MaxGen
    /\ \E refs \in RefLists :
         rt' = [st |-> "live", gen |-> rt.gen + 1, refs |-> refs, entries |-> rt.entries]
    /\ UNCHANGED <<rtc, gws, childVars, queued, timer, callVars, due, unrendered, edits, faults>>

\* In the foreground or in the background, as for a Gateway.
DeleteRoute ==
    /\ rt.st = "live" /\ MayDelete
    /\ \E s \in {"deleting", "gone"} : rt' = [rt EXCEPT !.st = s]
    /\ UNCHANGED <<rtc, gws, childVars, queued, timer, callVars, due, unrendered, edits, faults>>

\* A cluster-scoped child cannot have a namespaced owner: neither does the
\* deletion wait for it, nor is it collected.
FinishRouteDeletion ==
    /\ rt.st = "deleting" /\ \A r \in Resources \ ClusterScoped : ~Exists(r)
    /\ rt' = [rt EXCEPT !.st = "gone"]
    /\ UNCHANGED <<rtc, gws, childVars, queued, timer, callVars, due, unrendered, edits, faults>>

Remove(r) ==
    /\ Exists(r)
    /\ spec' = [spec EXCEPT ![r] = NoSpec] /\ seen' = [seen EXCEPT ![r] = NoSpec]
    /\ UNCHANGED <<rt, rtc, gws, queued, timer, callVars, due, unrendered, edits>>

\* The garbage collector, and someone who deletes a child.
CollectChild(r) == rt.st # "live" /\ r \notin ClusterScoped /\ Remove(r) /\ UNCHANGED faults
LoseChild(r)    == Remove(r) /\ Faults(1)

ChildReconcile(r) ==
    /\ r \in Managed /\ Exists(r) /\ seen[r] # spec[r]
    /\ seen' = [seen EXCEPT ![r] = spec[r]]
    /\ UNCHANGED <<spec, rt, rtc, gws, queued, timer, callVars, due, unrendered, edits, faults>>

\* A Gateway appears, is edited or deleted.  The controller does not watch it.
EditGateway(g) ==
    /\ Edit
    /\ \E s \in GatewayStates : gws' = [gws EXCEPT ![g] = s]
    /\ UNCHANGED <<rt, rtc, childVars, queued, timer, callVars, due, unrendered, faults>>

\* A parentRef to Gateway g, and a route that has one.
RefersTo(p, g) == RefKind[p] = "Gateway" /\ RefGroup[p] = "gateway" /\ GatewayOf[p] = g
Names(r, g) == r.st # "gone" /\ \E i \in 1..Len(r.refs) : RefersTo(r.refs[i], g)

\* MUTANT: only the first parentRef of a route is looked at.
AttachedFirst(r, g) == r.st # "gone" /\ r.refs # <<>> /\ RefersTo(Head(r.refs), g)

\* filterHTTPRoutesForGateway, for this route.
Attached(r, g) == Names(r, g)

\* A policy of Gateway g changes and the event passes GenerationChangedPredicate:
\* routesForConfig, which finds the Gateway by gatewaysForConfig and the routes
\* attached to it, in the cache.  A change that is dropped is a new input of which
\* the controller hears nothing, as EditGateway.
EditConfig(g) ==
    /\ Edit
    /\ gws[g] # "missing"
    /\ queued' = (queued \/ Attached(rtc, g))
    /\ due' = IF Names(rt, g) THEN edits' ELSE due
    /\ UNCHANGED <<rt, rtc, gws, childVars, timer, callVars, unrendered, faults>>

RouteCacheSync ==
    /\ rtc # rt
    /\ rtc' = rt /\ queued' = TRUE
    /\ UNCHANGED <<rt, gws, childVars, timer, callVars, due, unrendered, edits, faults>>

RouteResync ==
    /\ rtc.st # "gone" /\ ~queued
    /\ queued' = TRUE
    /\ UNCHANGED <<rt, rtc, gws, childVars, timer, callVars, due, unrendered, edits, faults>>

RouteTimerFires ==
    /\ timer
    /\ timer' = FALSE /\ queued' = TRUE
    /\ UNCHANGED <<rt, rtc, gws, childVars, callVars, due, unrendered, edits, faults>>

-------------------------------------------------------------------------------
(* Reconcile: the parents *)

Dequeue == stage = "idle" /\ queued /\ queued' = FALSE

LoopReset ==
    /\ attempt' = 0 /\ idx' = 1 /\ rendered' = {} /\ tspec' = <<>>
    /\ renderErr' = {} /\ applyErr' = {}
    /\ cur' = [r \in Resources |-> Nil] /\ avail' = {}

\* The locals of Reconcile are gone.
EndCall ==
    /\ stage' = "idle" /\ snap' = NoRoute /\ todo' = <<>> /\ added' = {}
    /\ requeue' = FALSE /\ sinp' = 0
    /\ LoopReset

\* MUTANT: a route with a deletion timestamp is reconciled like any other.
IgnoredIfAbsent == rtc.st = "gone"

\* MUTANT: a route whose parents are all listed is not reconciled again.
IgnoredIfListed ==
    rtc.st # "live" \/ \A i \in 1..Len(rtc.refs) : rtc.refs[i] \in rtc.entries

Ignored == rtc.st # "live"

RouteSkipped ==
    /\ Dequeue /\ Ignored
    /\ UNCHANGED <<rt, rtc, gws, childVars, timer, callVars, due, unrendered, edits, faults>>

\* Get returns an error other than not found.
RouteUnread ==
    /\ Dequeue /\ Faults(1)
    /\ timer' = TRUE
    /\ UNCHANGED <<rt, rtc, gws, childVars, callVars, due, unrendered, edits>>

RouteBegins ==
    /\ Dequeue /\ ~Ignored
    /\ snap' = rtc /\ todo' = rtc.refs /\ added' = {} /\ requeue' = FALSE
    /\ stage' = "lookup" /\ unrendered' = FALSE
    /\ UNCHANGED <<rt, rtc, gws, childVars, timer, sinp, tmplVars, due, edits, faults>>

\* The parent whose turn it is, its Gateway, and the class of that Gateway.
\* Reconcile looks at the kind of the parentRef, not at its group.
Parent  == Head(todo)
TheGw   == GatewayOf[Parent]
TheClass == ClassOf[TheGw]
LooksUp == stage = "lookup" /\ todo # <<>>
IsGateway == RefKind[Parent] = "Gateway"

\* MUTANT: the first parent that is not there ends the loop over the parents.
AfterMissingStops == <<>>

AfterMissing == Tail(todo)

ParentSkipped ==
    /\ LooksUp
    /\ \/ ~IsGateway
       \/ gws[TheGw] = "deleting"
       \/ gws[TheGw] = "live" /\ clsc[TheClass].st = "foreign"
    /\ todo' = Tail(todo)
    /\ UNCHANGED <<rt, rtc, gws, childVars, queued, timer, snap, added, requeue, sinp, stage,
                   tmplVars, due, unrendered, edits, faults>>

\* Gateway, class and blueprint of the parent are all there.
Found ==
    /\ IsGateway /\ gws[TheGw] = "live"
    /\ isOurGatewayClass(TheClass) /\ BlueprintFound(TheClass)

\* One of them is not, or its lookup returns an error.
ParentMissing ==
    /\ LooksUp /\ IsGateway
    /\ FaultIf(Found \/ gws[TheGw] = "deleting"
                     \/ (gws[TheGw] = "live" /\ clsc[TheClass].st = "foreign"))
    /\ requeue' = TRUE /\ todo' = AfterMissing
    /\ UNCHANGED <<rt, rtc, gws, childVars, queued, timer, snap, added, sinp, stage,
                   tmplVars, due, unrendered, edits>>

\* Reconcile returns an error in the middle of the parents: what it noted about
\* the earlier ones is not written, the later ones are not looked at.
Fails ==
    /\ timer' = TRUE /\ EndCall
    /\ UNCHANGED <<rt, rtc, gws, childVars, queued, due, unrendered, edits>>

\* lookupValues or parseTemplates returns an error.
ParentFails ==
    /\ LooksUp /\ Found
    /\ FaultIf(bps[TheClass] # "broken")
    /\ Fails

ParentBegins ==
    /\ LooksUp /\ Found /\ bps[TheClass] = "ok"
    /\ \E g \in Gateways : g = TheGw /\ T(g)!ResetTemplates
    /\ sinp' = edits /\ stage' = "render"
    /\ UNCHANGED <<rt, rtc, gws, childVars, queued, timer, snap, todo, added, requeue,
                   due, unrendered, edits, faults>>

-------------------------------------------------------------------------------
(* Reconcile: the render/apply loop for one parent *)

loopFrame == <<rt, rtc, gws, queued, timer, snap, todo, added, requeue, sinp, due, unrendered, edits>>

\* MUTANT: the errors of applyTemplates are only logged.
PassFailedNever == FALSE

\* applyTemplates returned the errors of its pass.
PassFailed == stage \in {"render", "status"} /\ applyErr # {}

RenderStep ==
    /\ stage = "render" /\ ~PassFailed
    /\ \E g \in Gateways :
         /\ g = TheGw
         /\ \/ \E failed \in SUBSET RouteResources[g][idx] :
                 /\ \/ T(g)!RenderSucceeds(snap.gen, snap.gen + sinp, failed)
                    \/ T(g)!RenderSkipped(failed)
                 /\ FaultIf(failed # {})
            \/ \E broken \in BOOLEAN : T(g)!RenderFails(broken) /\ FaultIf(broken)
    /\ UNCHANGED loopFrame

ApplyStep ==
    /\ stage = "apply"
    /\ \E g \in Gateways :
         /\ g = TheGw
         /\ \E applied, failed \in SUBSET RouteResources[g][idx] :
              T(g)!ApplyTemplate(applied, failed) /\ FaultIf(failed # {})
    /\ UNCHANGED loopFrame

ApplyFailed ==
    /\ PassFailed
    /\ Fails /\ UNCHANGED faults

\* renderedNum, which counts no template that failed to render, and existsNum.
Requeue == requeue \/ \E g \in Gateways : g = TheGw /\ T(g)!NotAllExist

ParentDone ==
    /\ stage = "status" /\ ~PassFailed
    /\ added' = added \cup {Parent} /\ requeue' = Requeue
    /\ todo' = Tail(todo) /\ stage' = "lookup" /\ sinp' = 0
    /\ unrendered' = (unrendered \/ renderErr # {})
    /\ LoopReset
    /\ UNCHANGED <<rt, rtc, gws, childVars, queued, timer, snap, due, edits, faults>>

-------------------------------------------------------------------------------
(* Reconcile: the status update *)

\* setRouteStatusCondition adds an entry unless there is one; none is removed.
NewRoute == [rt EXCEPT !.entries = snap.entries \cup added]

\* MUTANT: the update carries no resource version, and is accepted as it is.
StoredAnyway == rt.st = "live" /\ Cardinality(NewRoute.entries) <= MaxEntries

\* The update is rejected when the route is no longer the one read or when there
\* are too many entries, and (lost) it may return an error on its own, whether or
\* not it was carried out.
Stored == rt = snap /\ Cardinality(NewRoute.entries) <= MaxEntries

RouteDone ==
    /\ stage = "lookup" /\ todo = <<>>
    /\ \/ /\ added = {}
          /\ rt' = rt /\ timer' = (timer \/ requeue) /\ UNCHANGED faults
       \/ /\ added # {}
          /\ \E lost \in BOOLEAN :
               /\ FaultIf(lost)
               /\ \/ Stored /\ rt' = NewRoute
                  \/ (lost \/ ~Stored) /\ rt' = rt
               /\ timer' = (timer \/ requeue \/ lost \/ ~Stored)
    /\ EndCall
    /\ UNCHANGED <<rtc, gws, childVars, queued, due, unrendered, edits>>

RouteReconcile ==
    \/ RouteSkipped \/ RouteUnread \/ RouteBegins
    \/ ParentSkipped \/ ParentMissing \/ ParentFails \/ ParentBegins
    \/ RenderStep \/ ApplyStep \/ ApplyFailed \/ ParentDone
    \/ RouteDone

\* The new process lists the route and queues it.
RouteRestart ==
    /\ rtc' = rt /\ queued' = (rt.st # "gone") /\ timer' = FALSE
    /\ EndCall
    /\ UNCHANGED <<rt, gws, childVars, due, unrendered, edits>>

-------------------------------------------------------------------------------
(* The controller by itself *)

RouteWorld ==
    \/ EditRoute \/ DeleteRoute \/ FinishRouteDeletion
    \/ \E r \in Resources : CollectChild(r) \/ LoseChild(r) \/ ChildReconcile(r)
    \/ \E g \in Gateways : EditGateway(g) \/ EditConfig(g)

RouteStep == RouteCacheSync \/ RouteResync \/ RouteTimerFires \/ RouteReconcile

\* The GatewayClass controller takes no step: what it writes is nothing that a
\* Reconcile of the route reads.
RouteNext ==
    \/ (RouteWorld \/ RouteStep) /\ UNCHANGED <<cls, clsc, bps, classVars>>
    \/ /\ \E c \in ClassNames : EditClass(c) \/ EditBlueprint(c)
       /\ UNCHANGED <<classVars, routeVars>>
    \/ (\E c \in ClassNames : ClassCacheSync(c)) /\ UNCHANGED routeVars
    \/ Faults(1) /\ RouteRestart /\ clsc' = cls /\ UNCHANGED <<cls, bps, classVars>>

allVars == <<worldVars, classVars, routeVars, faults>>

allInit == ClassInit /\ RouteInit

RouteSpec == allInit /\ [][RouteNext]_allVars

\* Informers, timers and the worker make progress, as for a Gateway, and so do the
\* garbage collector and the other controllers.
RouteFairness ==
    LET framed(A) == A /\ UNCHANGED <<cls, clsc, bps, classVars>> IN
    /\ WF_allVars(framed(RouteCacheSync)) /\ WF_allVars(framed(RouteResync))
    /\ WF_allVars(framed(RouteTimerFires)) /\ WF_allVars(framed(RouteReconcile))
    /\ WF_allVars(framed(FinishRouteDeletion))
    /\ \A r \in Resources :
         WF_allVars(framed(CollectChild(r))) /\ WF_allVars(framed(ChildReconcile(r)))
    /\ \A c \in ClassNames : WF_allVars(ClassCacheSync(c) /\ UNCHANGED routeVars)

RouteFairSpec == RouteSpec /\ RouteFairness

-------------------------------------------------------------------------------
(* Properties *)

\* The blueprint of a parent is there when a call looks for it now, and parses.
Reachable(p) ==
    LET g == GatewayOf[p]  c == ClassOf[g] IN
    /\ RefKind[p] = "Gateway" /\ gws[g] = "live"
    /\ cls[c].st = "ours" /\ cls[c].params /\ bps[c] # "missing"
Broken(p) == Reachable(p) /\ bps[ClassOf[GatewayOf[p]]] = "broken"
Served(p) == Reachable(p) /\ ~Broken(p)

Refs == 1..Len(rt.refs)

\* No text of resource r, for any of the parents refs, is made from another child.
SelfContained(r, refs) ==
    \A i \in 1..Len(refs) : LET g == GatewayOf[refs[i]] IN RefKind[refs[i]] = "Gateway" =>
        \A t \in 1..NumTemplates(g) : r \in RouteResources[g][t] => RouteDeps[g][t] = {}

\* No wake-up is lost: once the controller has seen the present route, and has
\* neither a queued key nor a pending requeue nor a call in progress, every parent
\* has its entry and every child that exists carries the text of this generation
\* of the route, and of the last policy change if no text of it needs another child.
\* The cases in which Reconcile gives up on a parent without a retry are left out.
RouteNoLostWakeup ==
    /\ stage = "idle" /\ ~queued /\ ~timer /\ ~unrendered
    /\ rt.st = "live" /\ rtc = rt
    /\ "deleting" \notin GatewayStates /\ "foreign" \notin ClassStates
    => \A i \in Refs : LET p == rt.refs[i]  g == GatewayOf[p] IN RefKind[p] = "Gateway" =>
         /\ p \in rt.entries
         /\ \A r \in ResourcesFor(g) : Exists(r) =>
              /\ spec[r].gen = rt.gen
              /\ SelfContained(r, rt.refs) => spec[r].age >= rt.gen + due

\* An Accepted entry is backed by children: when one is added, every child of that
\* parent which exists carries the text of the route's present generation, although
\* the status is written long after the first parent was served, from a copy of the
\* route.  Render errors are left out: Reconcile says nothing about them.
EntryIsBacked ==
    [][\A p \in rt'.entries \ rt.entries : ~unrendered =>
         \A r \in ResourcesFor(GatewayOf[p]) : Exists(r) => spec[r].gen = rt.gen]_allVars

\* Seen from outside, the controller keeps the promise of RouteOwner: the children
\* move forward through the generations of the route, also those that two parents
\* share, and an entry is added only in a moment in which all children of its parent
\* are of the present generation.
Owner == INSTANCE RouteOwner WITH
            Children <- Resources, Listable <- Parents,
            ChildrenOf <- [p \in Parents |-> ResourcesFor(GatewayOf[p])],
            want <- rt.gen, listed <- rt.entries, gap <- unrendered,
            text <- [r \in Resources |-> spec[r].gen]
RouteImplementsOwner == Owner!Spec

\* What the controller has achieved once edits and failures are over: all parents
\* before the first one whose blueprint does not parse are served, and if there is
\* no such parent, all of them are listed in the status.
RouteSettled ==
    rt.st = "live" =>
    /\ \A i \in Refs : Served(rt.refs[i]) /\ (\A j \in 1..i : ~Broken(rt.refs[j]))
         => \A r \in ResourcesFor(GatewayOf[rt.refs[i]]) :
              spec[r] = [gen |-> rt.gen, age |-> rt.gen + edits]
    /\ (\A i \in Refs : ~Broken(rt.refs[i]))
         => \A i \in Refs : Served(rt.refs[i]) => rt.refs[i] \in rt.entries

\* Edits, conflicts, failures and restarts are eventually repaired, although only
\* the periodic resync brings Reconcile to see a Gateway, a class, a blueprint or
\* the status of a child that changed.
RouteConverges == <>[]RouteSettled

\* After the route is deleted its namespaced children disappear for good, although a
\* call that began before may still apply them, and although cluster-scoped ones stay.
RouteDeletionCompletes ==
    rt.st # "live" ~> [](rt.st = "gone" /\ \A r \in Resources \ ClusterScoped : ~Exists(r))

-------------------------------------------------------------------------------
(* What the documentation says, and the code does not do *)

\* doc/creating-gatewayclass-definitions.md: "rendering of the HTTPRoute will be done
\* independently for each parent Gateway the HTTPRoute is attached to".
ParentsIndependent ==
    <>[](rt.st = "live" => \A i \in Refs : Served(rt.refs[i]) =>
            \A r \in ResourcesFor(GatewayOf[rt.refs[i]]) : Exists(r))
===============================================================================
