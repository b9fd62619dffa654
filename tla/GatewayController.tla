-------------------------- MODULE GatewayController --------------------------
(***************************************************************************)
(* The Gateway controller (controllers/gateway_controller.go) for one      *)
(* Gateway object: the work queue entry of that object, the informer cache *)
(* copy that Reconcile reads, the render/apply loop, the status update,    *)
(* and the world around them: users who edit and delete objects, the       *)
(* garbage collector, the controllers that own the child resources, API    *)
(* calls that fail and a controller process that is restarted.             *)
(*                                                                         *)
(* controller-runtime never runs two Reconcile calls for one key, and the  *)
(* deployment elects a leader, so at most one call is in progress.  A      *)
(* Reconcile is one step up to the render/apply loop (it only reads the    *)
(* informer cache until then), one step per template and phase in the      *)
(* loop, and one step for the status update.                               *)
(***************************************************************************)
EXTENDS Templating

CONSTANTS
    ClusterScoped,  \* resources without an owner reference
    StatusDeps,     \* templates the status template refers to
    Classes,        \* what the lookup of the GatewayClass may find
    Blueprints,     \* what may be stored as the blueprint
    MayDelete,      \* bound: is the Gateway ever deleted
    MaxGen,         \* bound: generation of the Gateway
    MaxInp,         \* bound: edits of the other inputs
    MaxFaults       \* bound: failures of API calls, restarts, lost children

ClassStates == {"ours", "foreign", "missing", "invalid"}
StatusTemplates == {"none", "ok", "bad", "nokey", "empty"}

ASSUME GatewayAssumption ==
    /\ ClusterScoped \subseteq Resources
    /\ StatusDeps \subseteq Templates
    /\ Classes \subseteq ClassStates
    /\ Blueprints \subseteq [parses : BOOLEAN, status : StatusTemplates]
    /\ MayDelete \in BOOLEAN
    /\ MaxGen \in Nat /\ MaxInp \in Nat /\ MaxFaults \in Nat

VARIABLES
    gw,       \* the Gateway object on the API server
    gwc,      \* its copy in the informer cache
    inp,      \* version of the other inputs: class, blueprint, policies, routes
    cls,      \* the GatewayClass
    bp,       \* the blueprint: do its templates parse, and its status template
    queued,   \* the key is in the work queue (or marked dirty while processed)
    timer,    \* a delayed requeue is pending
    snap,     \* the Gateway as read by the Reconcile in progress
    sinp,     \* inp as read by it
    sbp,      \* bp as read by it
    faults,   \* failures so far
    steady    \* history: when this Reconcile began every child existed with its
              \* output, and nothing has been lost and no read failed since

worldVars == <<gw, gwc, inp, cls, bp>>
callVars  == <<snap, sinp, sbp>>
childVars == <<spec, seen>>
vars == <<worldVars, callVars, childVars, loopVars, queued, timer, faults, steady>>

Condition == [st : BOOLEAN, gen : Nat]
Unset     == [st |-> FALSE, gen |-> 0]
Gateway   == [st : {"live", "deleting", "gone"}, gen : Nat,
              acc : Condition, prog : Condition, ready : Condition, addr : Nat]
NoGateway == [st |-> "gone", gen |-> 0, acc |-> Unset, prog |-> Unset,
              ready |-> Unset, addr |-> 0]

TypeOK ==
    /\ TemplatingTypeOK
    /\ gw \in Gateway /\ gwc \in Gateway /\ snap \in Gateway
    /\ inp \in 0..MaxInp /\ sinp \in 0..MaxInp
    /\ cls \in Classes
    /\ bp \in Blueprints /\ sbp \in Blueprints
    /\ queued \in BOOLEAN /\ timer \in BOOLEAN /\ steady \in BOOLEAN
    /\ faults \in 0..MaxFaults

Exists(r) == spec[r] # NoSpec
OutputNow(r) == Output(r, [spec |-> spec[r], seen |-> seen[r]])

\* n of the failures the model allows happen in this step.
Faults(n) == faults + n <= MaxFaults /\ faults' = faults + n
FaultIf(b) == Faults(IF b THEN 1 ELSE 0)

\* The text rendered from the first version of everything.
First == [gen |-> 1, age |-> 1]

\* The controller starts with the Gateway in its cache and queued.  Children may
\* be left from an earlier installation whose status was not kept (a backup
\* restores no status of the Gateway).
Init ==
    /\ gw = [NoGateway EXCEPT !.st = "live", !.gen = 1]
    /\ gwc = gw
    /\ inp = 0
    /\ cls \in Classes
    /\ bp \in Blueprints
    /\ queued = TRUE
    /\ timer = FALSE
    /\ snap = NoGateway /\ sinp = 0 /\ sbp = bp
    /\ \E left \in SUBSET Resources :
         /\ spec = [r \in Resources |-> IF r \in left THEN First ELSE NoSpec]
         /\ seen = [r \in Resources |-> IF r \in left \cap Managed THEN First ELSE NoSpec]
    /\ stage = "idle"
    /\ attempt = 0 /\ idx = 1
    /\ rendered = {} /\ renderErr = {} /\ applyErr = {} /\ avail = {}
    /\ tspec = [t \in Templates |-> NoSpec]
    /\ cur = [r \in Resources |-> Nil]
    /\ faults = 0
    /\ steady = FALSE

-------------------------------------------------------------------------------
(* The world around the controller *)

\* The API server bumps metadata.generation on every change of the spec.
EditGateway ==
    /\ gw.st = "live" /\ gw.gen < MaxGen
    /\ gw' = [gw EXCEPT !.gen = @ + 1]
    /\ UNCHANGED <<gwc, inp, cls, bp, callVars, childVars, loopVars, queued, timer, faults, steady>>

\* A foreground deletion sets the deletion timestamp, a background deletion
\* removes the object at once.
DeleteGateway ==
    /\ gw.st = "live" /\ MayDelete
    /\ \E s \in {"deleting", "gone"} : gw' = [gw EXCEPT !.st = s]
    /\ UNCHANGED <<gwc, inp, cls, bp, callVars, childVars, loopVars, queued, timer, faults, steady>>

\* Owner references are set with blockOwnerDeletion: a foreground deletion ends
\* when the garbage collector has removed all dependents.
FinishDeletion ==
    /\ gw.st = "deleting"
    /\ \A r \in Resources \ ClusterScoped : ~Exists(r)
    /\ gw' = [gw EXCEPT !.st = "gone"]
    /\ UNCHANGED <<gwc, inp, cls, bp, callVars, childVars, loopVars, queued, timer, faults, steady>>

Remove(r) ==
    /\ Exists(r)
    /\ spec' = [spec EXCEPT ![r] = NoSpec]
    /\ seen' = [seen EXCEPT ![r] = NoSpec]
    /\ steady' = FALSE
    /\ UNCHANGED <<worldVars, callVars, loopVars, queued, timer>>

\* The garbage collector follows the owner references, which applyTemplates
\* sets on namespaced resources only.
CollectChild(r) ==
    /\ gw.st # "live"
    /\ r \notin ClusterScoped
    /\ Remove(r)
    /\ UNCHANGED faults

\* Someone else deletes a child.
LoseChild(r) == Remove(r) /\ Faults(1)

\* The controller that owns the kind of r acts on its present spec and
\* publishes the outcome in the status.
ChildReconcile(r) ==
    /\ r \in Managed
    /\ Exists(r) /\ seen[r] # spec[r]
    /\ seen' = [seen EXCEPT ![r] = spec[r]]
    /\ UNCHANGED <<spec, worldVars, callVars, loopVars, queued, timer, faults, steady>>

\* A GatewayConfig or GatewayClassConfig that targets this Gateway changes:
\* SetupWithManager watches both kinds and gatewaysForConfig maps the event to
\* this key.
EditConfig ==
    /\ inp < MaxInp
    /\ inp' = inp + 1
    /\ queued' = TRUE
    /\ UNCHANGED <<gw, gwc, cls, bp, callVars, childVars, loopVars, timer, faults, steady>>

\* The GatewayClass, the blueprint or an HTTPRoute changes: the Gateway
\* controller watches none of them.
EditUnwatched ==
    /\ inp < MaxInp
    /\ inp' = inp + 1
    /\ cls' \in Classes
    /\ bp' \in Blueprints
    /\ UNCHANGED <<gw, gwc, callVars, childVars, loopVars, queued, timer, faults, steady>>

\* The watch delivers the present object (or its deletion), events in between
\* may be compressed.
CacheSync ==
    /\ gwc # gw
    /\ gwc' = gw
    /\ queued' = TRUE
    /\ UNCHANGED <<gw, inp, cls, bp, callVars, childVars, loopVars, timer, faults, steady>>

\* The periodic resync of the informer (--sync-period, 120s by default).
Resync ==
    /\ gwc.st # "gone" /\ ~queued
    /\ queued' = TRUE
    /\ UNCHANGED <<worldVars, callVars, childVars, loopVars, timer, faults, steady>>

TimerFires ==
    /\ timer
    /\ timer' = FALSE
    /\ queued' = TRUE
    /\ UNCHANGED <<worldVars, callVars, childVars, loopVars, faults, steady>>

-------------------------------------------------------------------------------
(* Reconcile, up to the render/apply loop *)

Dequeue == stage = "idle" /\ queued /\ queued' = FALSE

\* MUTANT: an object with a deletion timestamp is reconciled like any other.
NothingToDoIfAbsent == gwc.st = "gone" \/ cls = "foreign"

\* MUTANT: a Gateway whose observed generation is current is not reconciled again.
NothingToDoIfObserved == gwc.st # "live" \/ cls = "foreign" \/ gwc.acc.gen = gwc.gen

\* The Gateway is not found or is being deleted, or its class is not ours.
NothingToDo == gwc.st # "live" \/ cls = "foreign"

ReconcileSkips ==
    /\ Dequeue
    /\ NothingToDo
    /\ UNCHANGED <<worldVars, callVars, childVars, loopVars, timer, faults, steady>>

\* A missing GatewayClass is looked up again in 30 seconds; a class without a
\* usable blueprint, and a lookup that fails, end in an error and a retry.
ReconcileRetries ==
    /\ Dequeue
    /\ ~NothingToDo
    /\ FaultIf(cls = "ours")
    /\ timer' = TRUE
    /\ UNCHANGED <<worldVars, callVars, childVars, loopVars, steady>>

\* MUTANT: Ready is left alone when the templates do not parse.
FailureStatusKeepsReady(g) == [g EXCEPT !.prog = [st |-> FALSE, gen |-> g.gen]]

\* updateGatewayFailureStatus: Accepted keeps whatever it was.
FailureStatus(g) ==
    [g EXCEPT !.prog  = [st |-> FALSE, gen |-> g.gen],
              !.ready = [st |-> FALSE, gen |-> g.gen]]

\* Status().Update for the copy `read' with the new status `new': skipped when
\* nothing changes, rejected when the object is no longer the one read, and (lost)
\* it may return an error on its own, whether or not it was carried out.
UpdateStatus(read, new, lost) ==
    /\ lost => new # read
    /\ \/ gw = read /\ gw' = new
       \/ gw # read /\ gw' = gw
       \/ lost /\ gw' = gw

Rejected(read, new, lost) == new # read /\ (gw # read \/ lost)

\* parseTemplates fails.
ReconcileInvalid ==
    /\ Dequeue
    /\ ~NothingToDo /\ cls = "ours" /\ ~bp.parses
    /\ \E lost \in BOOLEAN :
         FaultIf(lost) /\ UpdateStatus(gwc, FailureStatus(gwc), lost)
    /\ timer' = TRUE
    /\ UNCHANGED <<gwc, inp, cls, bp, callVars, childVars, loopVars, steady>>

\* Everything Reconcile reads is read before the loop.
ReconcileBegins ==
    /\ Dequeue
    /\ ~NothingToDo /\ cls = "ours" /\ bp.parses
    /\ snap' = gwc /\ sinp' = inp /\ sbp' = bp
    /\ ResetTemplates
    /\ stage' = "render"
    /\ steady' = \A r \in Resources : Exists(r) /\ OutputNow(r) # 0
    /\ UNCHANGED <<worldVars, childVars, timer, faults>>

-------------------------------------------------------------------------------
(* The render/apply loop *)

Fresh == snap.gen + sinp

RenderStep ==
    /\ \/ \E failed \in SUBSET ResourcesOf[idx] :
            /\ \/ RenderSucceeds(snap.gen, Fresh, failed)
               \/ RenderSkipped(failed)
            /\ FaultIf(failed # {})
            /\ steady' = (steady /\ failed = {})
       \/ \E broken \in BOOLEAN :
            /\ RenderFails(broken)
            /\ FaultIf(broken)
            /\ steady' = (steady /\ ~broken)
    /\ UNCHANGED <<worldVars, callVars, queued, timer>>

ApplyStep ==
    /\ \E applied \in SUBSET ResourcesOf[idx], failed \in SUBSET ResourcesOf[idx] :
         ApplyTemplate(applied, failed) /\ FaultIf(failed # {})
    /\ UNCHANGED <<worldVars, callVars, queued, timer, steady>>

-------------------------------------------------------------------------------
(* The status update *)

\* updateGatewayAddresses returns true: no status template, or one that
\* renders and has an `addresses' key.
AddressesOK == sbp.status = "none" \/ (sbp.status = "ok" /\ Resolves(StatusDeps))

\* The addresses are emptied before the key is looked up.
Addresses ==
    CASE sbp.status = "ok"    /\ Resolves(StatusDeps) -> OldestInput(StatusDeps, Fresh)
      [] sbp.status = "nokey" /\ Resolves(StatusDeps) -> 0
      [] OTHER -> snap.addr

\* An index out of range in updateGatewayAddresses: the status template renders
\* to no document at all.  controller-runtime recovers the panic as an error.
AddressesPanic == sbp.status = "empty" /\ Resolves(StatusDeps)

Programmed == NothingMissing /\ ~LoopFailed

\* MUTANT: Ready does not look at the outcome of the loop.
ReadyIfHealthy(kErr) == statusIsReady /\ ~kErr /\ AddressesOK

\* kErr: status.Compute cannot judge one of the fetched resources.
Ready(kErr) == statusIsReady /\ ~kErr /\ AddressesOK /\ Programmed

NewStatus(kErr) ==
    [snap EXCEPT !.addr  = Addresses,
                 !.acc   = [st |-> TRUE, gen |-> snap.gen],
                 !.prog  = [st |-> Programmed, gen |-> snap.gen],
                 !.ready = [st |-> Ready(kErr), gen |-> snap.gen]]

\* MUTANT: no delayed requeue for children that do not exist yet.
MustRetryOnError(kErr) == LoopFailed \/ kErr \/ ~AddressesOK

\* Reconcile returns an error or asks for a delayed requeue.
MustRetry(kErr) == LoopFailed \/ kErr \/ NotAllExist \/ ~AddressesOK

\* The locals of Reconcile are gone.
EndReconcile ==
    /\ stage' = "idle"
    /\ ResetTemplates
    /\ snap' = NoGateway /\ sinp' = 0 /\ sbp' = bp
    /\ steady' = FALSE

StatusStep ==
    /\ stage = "status"
    /\ ~AddressesPanic
    /\ \E lost, kErr \in BOOLEAN :
         /\ kErr => \E r \in RenderedResources : Fetched(r)
         /\ Faults((IF lost THEN 1 ELSE 0) + (IF kErr THEN 1 ELSE 0))
         /\ UpdateStatus(snap, NewStatus(kErr), lost)
         /\ timer' = (timer \/ Rejected(snap, NewStatus(kErr), lost) \/ MustRetry(kErr))
    /\ EndReconcile
    /\ UNCHANGED <<gwc, inp, cls, bp, childVars, queued>>

StatusPanics ==
    /\ stage = "status"
    /\ AddressesPanic
    /\ timer' = TRUE
    /\ EndReconcile
    /\ UNCHANGED <<worldVars, childVars, queued, faults>>

\* The process dies at any point.  The next one lists all Gateways, which fills
\* the cache and queues each of them; delayed requeues are forgotten.
Crash ==
    /\ Faults(1)
    /\ EndReconcile
    /\ timer' = FALSE
    /\ gwc' = gw
    /\ queued' = (gw.st # "gone")
    /\ UNCHANGED <<gw, inp, cls, bp, childVars>>

-------------------------------------------------------------------------------
Environment ==
    \/ EditGateway \/ DeleteGateway \/ FinishDeletion
    \/ EditConfig \/ EditUnwatched
    \/ \E r \in Resources : CollectChild(r) \/ LoseChild(r) \/ ChildReconcile(r)

Reconcile ==
    \/ ReconcileSkips \/ ReconcileRetries \/ ReconcileInvalid \/ ReconcileBegins
    \/ RenderStep \/ ApplyStep \/ StatusStep \/ StatusPanics

Next ==
    \/ Environment
    \/ CacheSync \/ Resync \/ TimerFires
    \/ Reconcile
    \/ Crash

Spec == Init /\ [][Next]_vars

\* The watch, the informer and the work queue make progress, and a worker takes
\* the key once it is queued and runs Reconcile to its end; the garbage
\* collector and the other controllers do their work.
Fairness ==
    /\ WF_vars(CacheSync) /\ WF_vars(Resync) /\ WF_vars(TimerFires)
    /\ WF_vars(Reconcile)
    /\ WF_vars(FinishDeletion)
    /\ \A r \in Resources : WF_vars(CollectChild(r)) /\ WF_vars(ChildReconcile(r))

FairSpec == Spec /\ Fairness

-------------------------------------------------------------------------------
(* Properties *)

\* The templates can be ordered so that each refers only to earlier ones.
IsRank(rank) == \A t \in Templates : \A d \in Deps[t] : rank[d] < rank[t]
Acyclic == \E rank \in [Templates -> 0..(N - 1)] : IsRank(rank)

NoEmptyTemplate == \A t \in Templates : ResourcesOf[t] # {}

\* Programmed=True is never a lie: as long as the condition with its observed
\* generation stands on the Gateway, every child that exists carries the text
\* of that generation or of a newer one, whatever failed, was conflicting or
\* was restarted in between (Reconcile collects ApplyError of every template
\* after the last attempt).
ProgrammedSound ==
    gw.prog.st => \A r \in Inputs(Templates) : Exists(r) => spec[r].gen >= gw.prog.gen

\* Whoever reads Ready=True may rely on Programmed=True for the same
\* generation: the two are written together on the normal path and on the
\* failure path of updateGatewayFailureStatus.
ReadyConsistent ==
    gw.ready.st => gw.prog.st /\ gw.prog.gen = gw.ready.gen /\ gw.acc.st

\* When every child already exists with its output and no call fails, the N
\* attempts of the render/apply loop are enough to render and fetch all
\* templates of an acyclic blueprint in a single Reconcile.
LoopSufficient ==
    stage = "status" /\ steady /\ Acyclic /\ NoEmptyTemplate
        => NothingMissing /\ renderErr = {}

\* No wake-up is lost: a controller that has seen the present Gateway, and has
\* neither a queued key nor a pending requeue nor a call in progress, has
\* programmed exactly this generation.  A class of another controller is the
\* one case in which Reconcile gives up without a retry.
NoLostWakeup ==
    /\ stage = "idle" /\ ~queued /\ ~timer
    /\ gw.st = "live" /\ gwc = gw
    /\ "foreign" \notin Classes /\ NoEmptyTemplate
    => gw.prog = [st |-> TRUE, gen |-> gw.gen] /\ gw.acc = gw.prog

\* A child that exists is never overwritten by an older text: neither one of an
\* earlier generation of the Gateway nor one computed from older inputs or from
\* an output that is not there yet, although Reconcile reads caches and copies.
NeverStaler ==
    [][\A r \in Resources : Exists(r) /\ Exists(r)' =>
          spec'[r].gen >= spec[r].gen /\ spec'[r].age >= spec[r].age]_vars

\* Seen from outside, the controller keeps the promise of ChildOwner: children move
\* forward through the generations of the Gateway, and Programmed=True is only ever
\* published for the present generation with no child behind it.  The caches, the
\* copies fetched during the loop, retries and restarts are internal to it.
Owner == INSTANCE ChildOwner WITH
            Children <- Inputs(Templates), want <- gw.gen, pub <- gw.prog,
            text <- [r \in Inputs(Templates) |-> spec[r].gen]
ImplementsOwner == Owner!Spec

UpToDate(r) == spec[r] = [gen |-> gw.gen, age |-> gw.gen + inp]

\* What the controller has achieved once edits and failures are over.  Nothing is
\* said of a status template that renders to nothing: updateGatewayAddresses
\* panics on it before any condition is written.
Settled ==
    /\ gw.st = "live" /\ cls = "ours" /\ (bp.parses => bp.status # "empty")
       => /\ gw.prog = [st |-> bp.parses, gen |-> gw.gen]
          /\ gw.ready.gen = gw.gen
    /\ gw.st = "live" /\ cls = "ours" /\ bp.parses
       => \A r \in Inputs(Templates) : UpToDate(r)
    /\ gw.st = "live" /\ cls = "ours" /\ bp.parses /\ bp.status # "empty"
       => /\ gw.ready.st = (bp.status \in {"none", "ok"})
          /\ bp.status = "ok" => gw.addr = gw.gen + inp

\* Edits, conflicts, failures and restarts are eventually repaired: the children
\* carry the newest inputs, chained through each other's outputs, and the
\* conditions and addresses report just that.  Only the periodic resync brings
\* Reconcile to see a child's status or an unwatched input.
Convergence == <>[]Settled

\* After the Gateway is deleted its namespaced children disappear for good,
\* although a Reconcile that began before may still apply them.
DeletionCompletes ==
    gw.st # "live" ~> [](gw.st = "gone" /\ \A r \in Resources \ ClusterScoped : ~Exists(r))

-------------------------------------------------------------------------------
(* What the documentation says, and the code does not do *)

\* doc/creating-gatewayclass-definitions.md: a template that renders to zero
\* resources is supported, so a Gateway with one is programmed in the end.
EmptyTemplateProgrammed == <>[](gw.prog = [st |-> TRUE, gen |-> gw.gen])
===============================================================================
