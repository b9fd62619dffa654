# Formal models of bifrost-gateway-controller

TLA+ models of the controller in `src/`, model-checked with TLC on small
instances, and proofs of the central properties for all instances with TLAPS.
Every definition that stands for code is listed in `PROJECT.json` under `map`
with the lines it models.

## The system

bifrost-gateway-controller turns a Gateway API `Gateway` into the resources an
infrastructure team describes as templates in a `GatewayClassBlueprint`. Three
reconcilers run in one manager process; they share no memory and interact only
through objects on the API server and through informer caches.

| Component | State it keeps | Operations | Hard behaviour |
|---|---|---|---|
| Template engine (`templating.go`) | per call: templates, their rendered resources, fetched copies, errors | parse, render and fetch, apply | templates read each other's outputs; partial failures; copies go stale |
| Gateway controller (`gateway_controller.go`) | the Gateway's conditions and addresses; work queue entry | `Reconcile`, `gatewaysForConfig` | reads caches, is edited, deleted, restarted at any point, several retry paths |
| Policies (`common.go`) | none | `lookupValues`, `merge` | three lists read one after the other; order of layers; informer lists have no order |
| Hostnames (`gateway_controller.go`) | none | `filterHTTPRoutesForGateway`, `combineHostnames` | wildcards and the domains below them |
| Status check (`statuscheck.go`) | none | `statusIsReady`, `statusExistingTemplates` | zero resources, resources without status |
| HTTPRoute controller (`httproute_controller.go`) | a status entry per parent | `Reconcile`, `routesForConfig` | one loop per parent, early returns between parents |
| GatewayClass controller (`gatewayclass_controller.go`) | one condition | `Reconcile` | the blueprint is not watched; the class changes between lookup and update |
| Manager (`main.go`) | leader lease, caches | start, periodic resync | restart |

What makes them correct: `Programmed` and `Ready` are not claimed for texts that
were not applied; a child is not set back to an older text; every unfinished
Reconcile leaves a retry behind; after the last edit and failure, children and
status reach the newest inputs; deletion removes the namespaced children; a policy
reaches exactly the Gateways it concerns and is merged at its documented level;
hostnames of certificates serve the names that listeners and routes ask for; a
route is rendered for each of its parents, and a parent is listed as accepted only
with its children up to date; a class is accepted if and only if its blueprint is
found, and is not forgotten while it is not.
`PROJECT.json` lists the hazards at their lines and the property that watches
each.

## Modules

### Templating

The render/apply loop that both template controllers share. A blueprint is `N`
templates in the order of their names (`parseTemplates` sorts them), and a text
is reduced to the resources it renders to (`ResourcesOf`) and the templates whose
resources it reads (`Deps`). The contents of a resource are reduced to their
freshness: `gen`, the Gateway generation, and `age`, the oldest input that went
into it. Inputs are numbered by the edits made so far, so a text rendered from an
old output of a sibling is visibly older than one rendered from the new output.

`stage`, `attempt` and `idx` are the program counter. Each template's rendering
and Get calls are a step (`RenderSucceeds`, `RenderFails`, `RenderSkipped`), and
so are its applies (`ApplyTemplate`), so that other actors run between them. A
call may fail before or after the API server has carried it out. `Resolves`
models `missingkey=error` and out-of-range indices: a text reads all resources of
the templates it refers to.

### GatewayController

Extends Templating with one Gateway and all that happens to it: the object on the
API server (`gw`), the informer's copy (`gwc`), the key in the work queue
(`queued`), a delayed requeue (`timer`), and what the call in progress has read
(`snap`, `sinp`, `sbp`). Up to the loop, Reconcile only reads caches and is one
step with one action per way out: `ReconcileSkips`, `ReconcileRetries`,
`ReconcileInvalid` and `ReconcileBegins`. After the loop, `StatusStep` computes
conditions and addresses and performs the optimistic `Status().Update`;
`StatusPanics` is the index out of range of a status template that renders to
nothing. The environment edits and deletes the Gateway, edits watched and
unwatched inputs, removes children, lets their controllers act, delivers the
cache, resyncs, fires timers and restarts the process (`Crash`).

The routes, policies, class and blueprint enter as one version counter `inp`;
`cls` and `bp` add what the lookups may find (a class with invalid parameters takes
the same branch as a missing one). `steady` is a history variable for one property
and influences nothing.

### ChildOwner

What a user of the API server may rely on, without caches, copies, attempts and
retries: an object with a generation, a published condition, and children with
the generation of their text. Children may disappear at any time. A write moves
children to one generation, never back and never behind what was published; True
is published only for the present generation with no child behind it.
`GatewayController` implements it (`ImplementsOwner`), with the generation of the
Gateway, its Programmed condition and the generation in each child's text.

### GatewayClassController

The classes on the API server and in the cache (`cls`, `clsc`), the blueprint each
of them names (`bps`), and the work queue. A `Reconcile` is two steps: `ClassSkipped`
or `ClassLookedUp` read the caches, `ClassUpdated` writes the status. In between
the class and the blueprint may change; an update of a class that changed is
rejected. The condition carries the generation it was computed for.

### HTTPRouteController

One HTTPRoute with several parents. `todo` is the loop over the parents: for its
head, `ParentSkipped`, `ParentMissing`, `ParentFails` and `ParentBegins` are the
outcomes of the lookups; `RenderStep` and `ApplyStep` are the loop of Templating,
instantiated with the route templates of that Gateway; `ApplyFailed` ends the call
as the code does, `ParentDone` notes the parent as accepted and goes on; `RouteDone`
writes the status, if any parent was noted, and decides about the requeue. Children
in `ClusterScoped` get no owner reference and are not collected with the route. A
parentRef is a model value, so that `parentRefCmp` is equality; `GatewayOf`,
`RefKind` and `RefGroup` say what it refers to, since `filterHTTPRoutesForGateway`
looks at the group and Reconcile does not. `EditConfig` is a policy event with
`routesForConfig` on the cached route. `due` and `unrendered` are history variables.

`RouteOwner` is its promise: children of a route move forward through its
generations, also those that two parents share, and an entry is added only in a moment
in which all children of its parent are of the present generation, unless a template
could not be rendered, of which the status says nothing. It is not
`ChildOwner`, because an entry carries no generation, is never taken back and concerns
the children of one parent.

`RouteSpec` is the controller by itself. The GatewayClass controller is idle in it:
it writes only the status of classes, which no Reconcile of a route reads.

### Manager

Both controllers over the same classes, caches and API server; a restart stops
both at once. The Gateway controller is not part of the composition: of what it
writes, only the status of a Gateway reaches a route, as an input of its templates,
and `EditGateway` stands for that write as for any other change of a Gateway.

### PolicyWatch

Several Gateways and policies with their caches, the work queue, and one worker
(`MaxConcurrentReconciles` is 1) that runs `lookupValues` with its three List
calls as separate steps. `Filtered` is the selection, `gatewaysForConfig` the
notification. An event of a policy first has to pass `GenerationChangedPredicate`
(`Passes`); `Concerned` is what `EnqueueRequestsFromMapFunc` then does with it: both
versions of an update are mapped. The List call in `gatewaysForConfig` reads a cache
and is taken not to fail.

What a policy says is its version, which is never used twice. Its generation is that
of the API server, which starts at 1 again when a policy is deleted and created anew.
An informer may miss the deletion, for instance when its watch was down and it lists
again: it then reports one update. If both generations are equal, the filter drops
it, although the two policies may have nothing in common, and the Gateways keep the
values of the old one until something else wakes them, in the end the resync
(`Resync`). The history variable `dropped` holds the Gateways such an event would have
concerned, until their next Reconcile begins; `NoMissedPolicy` and `PoliciesArrive` are
about all others, and `ResyncRepairs` about those in it. The Gateways exist when the
controller starts (`FirstClass`), and may be deleted, created and given another class.

### PolicyValues

`lookupValues` after the lists are read: groups, sorting, layers, and `Merge` on
JSON trees, one step per layer. A leaf carries the name of the part it was
written in, so the result shows who won. The references mention neither sorting nor
merging. `ValuesFollowHierarchy` is the documented hierarchy (`Beats`): overrides over
defaults, and the order of the levels. It leaves out two cases of which the repository
does not say one thing: values of different types at one path, and several policies of
one level (see below). `ValuesAreFixed` says what the code does there, without the
documents' blessing: an object is never displaced by a leaf, and within a level creation
time and then name decide (`Wins`), the newest for defaults and the oldest for
overrides. What it adds is that the policies alone fix the values, although informers
list them in no order. The recursion of
`merge` is unrolled as deep as the trees of the model are: `MergeBy` is the body of the
function with the recursive call as a parameter, and `Merge` uses it for an object and
for the objects in it.

### Hostnames

Domains are sequences of labels from the top down, so the string suffix test of
the code becomes a prefix test. `Match` is the meaning of a hostname in the
Gateway API. `allowedRoutes` of a listener is left out, since
`filterHTTPRoutesForGateway` and `combineHostnames` do not read it.

### Proof and MC modules

`GatewayControllerProofs`, `GatewayAgeProofs`, `HTTPRouteControllerProofs`,
`ManagerProofs`, `PolicyWatchProofs`, `PolicyValuesProofs` and `HostnamesProofs` hold
the inductive invariants and the theorems, `Minimum` the one fact about numbers that
three of them need; `MCGateway`, `MCManager`, `MCPolicyWatch`, `MCPolicyValues` and
`MCHostnames` hold the small instances. `GatewayAgeProofs` extends
`GatewayControllerProofs`, and `ManagerProofs` extends the proofs about the route
controller.

## Runs

| Run | Shows | Bounds |
|---|---|---|
| `gateway_safety` | `TypeOK`, `ProgrammedSound`, `NoLostWakeup`, `ReadyConsistent`, `LoopSufficient`, `NeverStaler` and the refinement `ImplementsOwner` under edits, failing calls, lost children, restarts | 2 templates, the second reading a status of the first; 2 generations, 1 other edit, 2 faults |
| `gateway_outcomes` | `ReadyConsistent`, and `Convergence` under fairness, for all outcomes of class, blueprint and status template, which change unnoticed | the same with 1 generation, 1 edit and 1 fault |
| `gateway_liveness` | `Convergence` and `DeletionCompletes` under fairness | 2 generations, deletion at every point, 1 fault, one cluster-scoped child, outputs that need no other controller |
| `policy_watch` | `NoMissedPolicy`, `PoliciesArrive` under fairness without a resync, and `ResyncRepairs` with it | 2 Gateways that exist at the start, one of them beside the controller; 2 policies, 4 targets, 3 edits or failures, enough to create, delete and re-create a policy |
| `policy_values` | `ValuesFollowHierarchy`, `ValuesAreFixed`, `MergeIsLocal` | blueprint and 2 policies of any kind, 2 creation times, 7 pairs of values |
| `route_safety` | `RouteTypeOK`, `RouteNoLostWakeup`, `EntryIsBacked` and the refinement `RouteImplementsOwner` | 2 Gateways of one class that share a child, 3 parentRefs, one of them no Gateway; 2 generations, 1 other edit, 1 fault |
| `route_liveness` | `RouteConverges`, `RouteDeletionCompletes` under fairness | 2 Gateways of 2 classes, either blueprint broken or not; 2 generations, deletion at every point, 1 fault, one cluster-scoped child, outputs that need no other controller |
| `manager` | `UnacceptedIsRetried`, `AcceptedIsCurrent`, and `ClassesSettle`, `AcceptedIsServed`, `RouteConverges` under fairness | 1 class, Gateway, parent and child, every outcome of the lookups; 1 edit, 1 fault |
| `hostnames` | `OnlyApexesLost`, `CoveredRoutesChangeNothing` | 3 nested domains, 2 listeners, 2 routes with 2 hostnames |

Two templates are the smallest blueprint with a reference; with two generations
a text of the old one can meet the new one at every point; two faults allow a
failure while another one is being repaired. Two parents let one be served while
the other one is missing, broken or the place where the call ends; that they share
a child lets the loop of one meet the text of the other. Two policies, the
blueprint and their two parts give six layers, enough for a leaf, an object and a
leaf at the same path. The bounds `MaxGen`, `MaxInp`, `MaxFaults`, `MaxEdits`, `MaxPolicies`, `MaxBorn` and
`MaxHostnames` are guards of the actions they limit. `MaxEdits` counts a user's
edits and failed calls together in PolicyWatch, and the edits of everything but
the route itself in Manager. `MaxEntries` is the limit of `status.parents`; no run
reaches it. Deadlock checking is off where a run may come to rest: after the
deletion of the Gateway or the route, and in PolicyWatch, where all Gateways may be
deleted.

### Where the code and its documents disagree

Three runs state what a document says and end in a counterexample; `findings` in
`PROJECT.json` quotes the lines.

- `gateway_empty_template`: a template that renders to nothing keeps `Programmed`
  False for ever, though it is documented as supported.
- `hostnames_apex`: `example.com` is taken to be covered by `*.example.com`.
- `route_parents`: a route is said to be rendered independently for each parent. A
  parent whose blueprint does not parse ends every call, so that the parents after
  it are never served and no status is written for those before it.

The models show some more behaviour that a reader of the code might not expect:

- N attempts are not enough for a chain of N templates while the resources do not
  exist, because a resource is fetched one attempt after it was applied and read
  one attempt after that: the first pass needs up to 2N-1. `LoopSufficient` is
  therefore about resources that exist; the retry repairs the rest.
- `Ready` is computed from copies fetched before the new texts were applied and is
  published with the new generation.
- A route template that fails to render causes neither a requeue nor an error, and
  the parent is listed as accepted all the same. `RouteNoLostWakeup` and
  `EntryIsBacked` leave these calls out (`unrendered`); the resync repairs them, as
  `RouteConverges` shows. A parent that is being deleted or belongs to another
  controller is skipped without a retry as well.
- Two parents of a route may render the same child. If its text for one of them is
  made from the output of another child, and for the other one from none, a call may
  end with the text made from an old output, without an error or a requeue.
  `RouteNoLostWakeup` therefore speaks of the inputs of a child only if no text of it
  needs another child (`SelfContained`), and of its generation in any case.
- Entries of parents that a route no longer names stay in its status.
- `Accepted` of a class does not tell whether the blueprint parses.
- A policy that is replaced by another one of the same name and generation, unseen by
  the informer in between, reaches its Gateways with the resync only.
- Cluster-scoped children stay when their Gateway or route is deleted.
- A status template that renders to nothing makes Reconcile panic; the conditions of
  before stay as they are. No property excludes that (`ReadyConsistent` is about what
  a status update writes), nor that addresses are emptied by a status template that
  stops producing any.

Further disagreements were met and are not runs: the properties leave the cases out.

- The comment on `merge` (`common.go:108`) says "On type conflicts precedence is given
  to 'a' i.e. no overwrite". The code gives it to the object: a scalar in the first
  argument is replaced by an object of the second.
- For several policies of one level, `doc/extended-configuration-w-policy-attachments.md`
  (lines 117-119) says that "the result is undefined", the comments in `common.go` (141
  and 193) cite the conflict resolution of GEP-713, and a test title
  (`common_test.go:624`) says "oldest wins". In the code the oldest override and the
  newest default win, as the body of that test expects.
- `doc/normalization.md:37-39` says that a route from a namespace the Gateway does not
  allow must be ignored; no code looks at `allowedRoutes`.

### Fairness

Users, failures and restarts are never assumed to happen. Weak fairness is given
to the informers (`CacheSync`, `RouteCacheSync`, `ClassCacheSync`, `Informers`), the
resync (`Resync`, `RouteResync`, `ClassResync`: `--sync-period`, always set in
`main.go`), the delayed requeues (timers of the
work queue), to Reconcile as a whole (a worker always takes the next key and
runs to the end of the call), to the garbage collector and to the controllers of
children. In PolicyWatch each Gateway has strong fairness for being taken from
the queue: the work queue is first in, first out, so a key in it is reached
however many others are added. Its resync is not assumed to happen, so that
`PoliciesArrive` holds without it; only `ResyncRepairs` has it as a premise.

## Proofs

All of the following hold for every value of the constants that satisfies the
named assumptions. These say only what the constants are (sets, functions
between them) and that templates do not share resources, that there is at least
one template, and that bounds are natural numbers: the bounds may be arbitrarily
large.

- `TypeCorrect`: types, together with `AttemptsBounded`, without which the loop
  counter is not bounded by an inductive argument.
- `ProgrammedIsSound` and `WakeupsAreNotLost` rest on one inductive invariant,
  `Core`. `ProgrammedSound` speaks of the status on the server, but a status is
  written from what a call read earlier, so the invariant orders generations
  (server, cache, snapshot: `GenerationsOrdered`), says that rendered texts are
  of the snapshot (`RenderedFromSnapshot`), what the present pass of applies has
  left behind (`AppliedSoFar`), that each template whose turn came is rendered or
  has an error (`TurnsRecorded`), and that a change that arrives during a call has
  marked the key dirty (`DirtyIfChanged`).
- `ReadyIsConsistent` is inductive given the types.
- `LoopIsSufficient`: attempts complete the templates rank by rank
  (`RankByRank`), where the rank of a template is its place in the longest chain
  of references. It needs that whatever is read while the call is steady is there
  (`SteadyReads`) and that no text is rendered from nothing (`TextsAreFresh`).
- `GatewayImplementsOwner`: every step of `GatewayController` is a step of
  `ChildOwner` or leaves it alone. A write must not set a child back, and what a
  call writes is decided by the cached Gateway it read; `TextsNotAhead` says that
  no child is ahead of the cache, nor of what the call in progress has read, which
  with `Core` gives both the order of texts and that Programmed is never published
  for a generation that was overtaken.
- `ChildrenNeverGoBack` (`NeverStaler`): a child is not overwritten by an older text.
  That the text is not of an older generation is `TextsNotAhead`. That it is not made
  from older inputs is not inductive by itself, because a text is as old as the oldest
  output read for it, that output as old as its own inputs, and the copies from which
  a call reads were fetched at different times. `AgeInv` has three parts. `AgesBounded`:
  no text is newer than what the cache has seen and the call has read. `AgesOrdered`: a
  copy is no newer than its original, and no child is newer than the text that the
  call in progress is about to apply to it. `Chained`: no text of a template, applied
  or rendered, is newer than anything that can still be read from a template in its
  `Upstream`, the least set that contains its references and theirs. `Chained` needs
  this closure: for a new text of the template whose turn it is, which reads the copies,
  both sides must be compared, with the texts of templates that read it
  (`NewTextIsNoOlder`) and with all that feeds it (`NewTextIsChained`). The rule that an
  absent output is an error is essential: the mutant without it sets a child back.
  Nothing is assumed about the graph of references; it may have cycles.
- `ClassesAreNotForgotten`: `UnacceptedIsRetried` is inductive once the cached
  classes are known to be no newer than the classes (`CopiesBehind`): an edit then
  always differs from the copy in the cache, so the informer still has to deliver
  it, and a rejected update leaves a retry behind. `AcceptedKeepsUp` follows from the
  same invariant: only a class that is still the one looked up is written, and a lookup
  succeeds only for a copy that names a blueprint.
- `RouteTypeCorrect`, `RouteWakeupsAreKept` and `EntriesAreBacked` rest on the inductive
  invariant `RouteInv` of the route controller. `RouteNoLostWakeup` speaks of a
  controller at rest; what it says is built up over the loop over the parents, so the
  invariant says it for the parents that are done (`ParentsInv`: a parent of the route
  that was read is still to come, or noted as accepted, or has left a requeue behind, and
  the children of a noted one are up to date) and, within the present parent, for the
  templates whose turn has come (`LoopInv`). `CopiesInv` orders the route, its copy in
  the cache and the one the call works from, and says that a call whose copy is
  overtaken has its key queued again. "Up to date" is weaker while such a change is on its
  way: the generation is the one the call has read, and the inputs are only claimed
  as long as nothing new has arrived (`Fresh`). Two parents may share children;
  what is said of the first one survives the loop of the second because both apply
  texts of one generation. `EntryIsBacked` is then a consequence: an entry is only
  written if the route is still the one that was read.
- `RouteKeepsPromise`: every step of the route controller is a step of `RouteOwner` or
  leaves it alone. `RouteInv` gives what an entry needs; that no text goes back needs
  the order of generations between children, the copy in the cache and the route a call
  has read (`TextsNotAhead`): the children are never ahead of the call that writes
  them, because the next call reads the cache after the one before it has ended.
- `ManagerKeepsWakeups`, `ManagerBacksEntries` and `ManagerKeepsPromise`: the same in the
  composition. The steps of the GatewayClass controller leave alone all that `RouteInv`
  speaks of, apart from what the lookups find (`ClassesKnown`), and a restart ends the
  calls of both.
- `MappingIsExact`: notification and selection agree. `NoPolicyIsMissed` follows
  with an invariant on the call in progress (`ReadSoFar`): what it has listed so
  far is what it would list now, unless its key is queued again. Both leave out the
  Gateways of an event that the filter has dropped (`dropped`).
- `ValuesAreDetermined`: the policies alone fix what `lookupValues` returns, for any
  number of policies and any timestamps, ties included. The argument has two
  halves, joined by the list of layers. The layers are sorted (`Layering`): every source
  has a layer after which only layers of sources that win over it come
  (`LayersAreLayering`, from what `Group` returns, `GroupIs`; that there is such an order
  at all, so that the CHOOSE in `Group` is one, is `SortExists`). And merging keeps at
  each path what the last layer that sets it has there, or an object if there is one
  (`Merged`): this is an invariant of the steps of `mergeValues`, from what `Merge` does
  at one path (`MergeAt`). A policy that is listed twice has two layers; only the later
  one counts, which is why `Layering` asks for one layer per source and not for an order
  of all layers. `HierarchyIsFollowed` is a consequence: what wins over all others in
  the code's order is beaten by none of them in the documented one (`WinnerIsUnbeaten`).
- `MergeStaysLocal` is `MergeAt` read as a property of a step.
- `IntersectionLosesOnlyApexes` and `CoveredRoutesAreFree`: facts about the
  operators, true in every state.

Each inductive invariant was checked with TLC on the instances of the runs before it
was proved. `Chained` was also checked on a chain of three templates and on one whose
order is against the references.

The theorems about `PolicyValues` are for any number of policies, timestamps and parts,
but for parts of the shapes in `Shapes`: objects in an object, no deeper. A proof for
trees of any depth is an induction over data, which the provers do not have.

Model-checked only: the liveness properties and `AcceptedIsServed`, since fairness is
out of the prover's reach. What the three runs that end in a counterexample show is
shown by the counterexample.

## Not modelled

- Template texts, YAML, sprig and `toYaml`, formats of messages, logging, metrics.
- The Gateway controller in one composition with the other two (see Manager above),
  and several routes at once, which meet only if their templates render to the same
  resource.
- Conditions of a route other than the presence of an entry: there is only
  Accepted=True, without an observed generation.
- The per-listener status: `Reconcile` computes it and does not store it.
- A blueprint without templates: the loop is then not entered.
- Reading single indices of a template with several resources, some of which are
  missing.
- The leader election protocol: the chart passes `--leader-elect`, and a single
  active process is assumed.
- Children of templates that were renamed or removed: no code removes them.

## Plan

1. Partial reads of templates with several resources: a text that reads one index, while
   one of the resources before it is missing.
2. `PolicyValues` for trees of any depth.
3. The Gateway controller in the composition: a route reads the status that it writes.
