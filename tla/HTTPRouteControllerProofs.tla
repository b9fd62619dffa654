----------------------- MODULE HTTPRouteControllerProofs -----------------------
(***************************************************************************)
(* Machine-checked proofs about the HTTPRoute controller, for every number *)
(* of Gateways, parents, templates, edits and faults.                      *)
(***************************************************************************)
EXTENDS HTTPRouteController, Minimum, TLAPS

(* The inductive invariant *)

InLoop == stage \in {"render", "apply", "status"}
InCall == stage # "idle"

TheNum  == NumTemplates(TheGw)
TheRes  == RouteResources[TheGw]
TheDeps == RouteDeps[TheGw]

\* The locals of the loop are about the templates of the present parent's Gateway.
LoopTypes ==
    /\ attempt \in 0..TheNum /\ (stage \in {"render", "apply"} => attempt < TheNum)
    /\ idx \in 1..TheNum
    /\ rendered \subseteq 1..TheNum /\ renderErr \subseteq 1..TheNum /\ applyErr \subseteq 1..TheNum
    /\ tspec \in [1..TheNum -> Text]

\* What the lookups find is what is ever created.
ClassesKnown ==
    /\ cls \in [ClassNames -> Class] /\ clsc \in [ClassNames -> Class]
    /\ \A c \in ClassNames : cls[c].st \in ClassStates \cup {"gone"}
                          /\ clsc[c].st \in ClassStates \cup {"gone"}

RouteTypes ==
    /\ RouteTypeOK /\ ClassesKnown /\ edits \in 0..MaxEdits
    /\ InLoop => todo # <<>> /\ IsGateway /\ LoopTypes

\* a is an earlier version of the route b.
Behind(a, b) ==
    /\ a.gen <= b.gen /\ (a.gen = b.gen => a.refs = b.refs)
    /\ a.entries \subseteq b.entries
    /\ b.st = "live" => a.st = "live"

\* The copy in the cache is behind the route, the one a call reads behind the
\* cache; if a call has read an older one, the key is queued again.
CopiesInv ==
    /\ Behind(rtc, rt)
    /\ due <= edits
    /\ InCall => Behind(snap, rtc) /\ snap.st = "live" /\ (queued \/ snap = rtc)

\* Nothing has changed that the present call would not know of.
Fresh == ~queued /\ rtc = rt /\ rt.st = "live"

\* Resource r is up to date as far as the present call can tell.
UpToDate(r) ==
    Exists(r) => /\ spec[r].gen = snap.gen
                 /\ Fresh /\ SelfContained(r, snap.refs) => spec[r].age >= snap.gen + due

\* Every parent of the route is still to be handled, or is noted as accepted, or
\* leaves a requeue behind; parents come from the route.
ParentsInv ==
    /\ \A j \in 1..Len(todo) : \E i \in 1..Len(snap.refs) : todo[j] = snap.refs[i]
    /\ ("deleting" \notin GatewayStates /\ "foreign" \notin ClassStates) =>
         \A i \in 1..Len(snap.refs) :
            \/ \E j \in 1..Len(todo) : todo[j] = snap.refs[i]
            \/ RefKind[snap.refs[i]] # "Gateway" \/ requeue \/ snap.refs[i] \in added
    /\ ~unrendered => \A p \in added : \A r \in ResourcesFor(GatewayOf[p]) : UpToDate(r)

\* Templates whose turn to render has come, and whose turn to be applied in the
\* present pass has.
Turned(t)  == stage = "render" => attempt > 0 \/ t < idx
Applied(t) == stage = "status" \/ (stage = "apply" /\ t < idx)

LoopInv ==
    /\ Fresh => sinp >= due
    /\ \A t \in rendered : /\ tspec[t].gen = snap.gen
                           /\ Fresh /\ TheDeps[t] = {} => tspec[t].age >= snap.gen + due
    /\ \A t \in 1..TheNum : Turned(t) => t \in rendered \cup renderErr \/ TheRes[t] = {}
    /\ \A t \in rendered \ applyErr : Applied(t) => \A r \in TheRes[t] : UpToDate(r)

CallInv == (InCall => ParentsInv) /\ (InLoop => LoopInv)

RouteInv == RouteTypes /\ CopiesInv /\ CallInv /\ RouteNoLostWakeup

-------------------------------------------------------------------------------
(* Classes *)

\* The fields of a class.
LEMMA ClassFields ==
    ASSUME NEW k \in Class
    PROVE  /\ k.st \in {"ours", "foreign", "gone"} /\ k.gen \in Nat /\ k.params \in BOOLEAN
           /\ k.acc \in Condition
  BY DEF Class

\* The record they make.
LEMMA ClassRecord ==
    ASSUME NEW s \in {"ours", "foreign", "gone"}, NEW g \in Nat, NEW p \in BOOLEAN, NEW a \in Condition
    PROVE  /\ NewClass(s, g, p, a) \in Class
           /\ NewClass(s, g, p, a).st = s /\ NewClass(s, g, p, a).gen = g
  BY DEF Class, NewClass

\* A class that is deleted keeps the other fields.
LEMMA ClassGone ==
    ASSUME NEW k \in Class
    PROVE  [k EXCEPT !.st = "gone"] = NewClass("gone", k.gen, k.params, k.acc)
<1>1. k = [st |-> k.st, gen |-> k.gen, params |-> k.params, acc |-> k.acc]
  BY DEF Class
<1>. QED
  BY <1>1 DEF NewClass

\* What an edit makes of a class: its generation grows, unless it is deleted.
LEMMA ClassEdited ==
    ASSUME cls \in [ClassNames -> Class], NEW c \in ClassNames, EditClass(c)
    PROVE  \E new \in Class :
             /\ cls' = [cls EXCEPT ![c] = new]
             /\ (new.st = "gone" /\ new.gen = cls[c].gen) \/ new.gen = cls[c].gen + 1
             /\ new.st \in ClassStates \cup {"gone", cls[c].st}
<1>0. cls[c] \in Class /\ cls[c].gen \in Nat
  BY DEF Class
<1>1. Unset \in Condition /\ cls[c].gen + 1 \in Nat
  BY <1>0 DEF Unset, Condition
<1>2. /\ cls[c].st \in {"ours", "foreign", "gone"} /\ cls[c].params \in BOOLEAN
      /\ cls[c].acc \in Condition
  BY <1>0, ClassFields
<1>3. CASE \E st \in ClassStates, p \in BOOLEAN :
             cls' = [cls EXCEPT ![c] = NewClass(st, cls[c].gen + 1, p, Unset)]
  <2>1. PICK st \in ClassStates, p \in BOOLEAN :
             cls' = [cls EXCEPT ![c] = NewClass(st, cls[c].gen + 1, p, Unset)]
    BY <1>3
  <2>2. st \in {"ours", "foreign", "gone"}
    BY ClassAssumption
  <2>. DEFINE new == NewClass(st, cls[c].gen + 1, p, Unset)
  <2>3. new \in Class /\ new.gen = cls[c].gen + 1 /\ new.st = st
    BY <1>1, <2>2, ClassRecord
  <2>. QED
    BY <2>1, <2>3, Zenon
<1>4. CASE cls' = [cls EXCEPT ![c] = [cls[c] EXCEPT !.st = "gone"]]
  <2>. DEFINE new == NewClass("gone", cls[c].gen, cls[c].params, cls[c].acc)
  <2>1. cls' = [cls EXCEPT ![c] = new]
    BY <1>0, <1>4, ClassGone, Zenon
  <2>2. new \in Class /\ new.st = "gone" /\ new.gen = cls[c].gen
    BY <1>0, <1>2, ClassRecord
  <2>. QED
    BY <2>1, <2>2, Zenon
<1>5. CASE \E p \in BOOLEAN :
             cls' = [cls EXCEPT ![c] = NewClass(cls[c].st, cls[c].gen + 1, p, cls[c].acc)]
  <2>1. PICK p \in BOOLEAN :
             cls' = [cls EXCEPT ![c] = NewClass(cls[c].st, cls[c].gen + 1, p, cls[c].acc)]
    BY <1>5
  <2>. DEFINE new == NewClass(cls[c].st, cls[c].gen + 1, p, cls[c].acc)
  <2>2. new \in Class /\ new.gen = cls[c].gen + 1 /\ new.st = cls[c].st
    BY <1>1, <1>2, ClassRecord
  <2>. QED
    BY <2>1, <2>2, Zenon
<1>. QED
  BY <1>3, <1>4, <1>5, Zenon DEF EditClass

-------------------------------------------------------------------------------
(* The constants, the records and the queues of parents *)

USE RouteAssumption, ClassAssumption

\* The templates of a Gateway render to resources and refer to each other.
LEMMA Blueprint ==
    ASSUME NEW g \in Gateways
    PROVE  /\ NumTemplates(g) \in Nat \ {0}
           /\ \A t \in 1..NumTemplates(g) : /\ RouteResources[g][t] \subseteq Resources
                                            /\ RouteDeps[g][t] \subseteq 1..NumTemplates(g)
           /\ ResourcesFor(g) \subseteq Resources
<1>1. RouteResources[g] \in Seq(SUBSET Resources)
  OBVIOUS
<1>2. \A t \in 1..NumTemplates(g) : RouteResources[g][t] \subseteq Resources
  BY <1>1 DEF NumTemplates
<1>. QED
  BY <1>2 DEF ResourcesFor

\* The first parent is one, and the others are the parents that remain.
LEMMA Queue ==
    ASSUME NEW s \in Seq(Parents), s # <<>>
    PROVE  /\ Head(s) \in Parents /\ Head(s) = s[1] /\ Len(s) >= 1
           /\ Tail(s) \in Seq(Parents) /\ Len(Tail(s)) = Len(s) - 1
           /\ \A j \in 1..Len(Tail(s)) : Tail(s)[j] = s[j + 1]
  OBVIOUS

\* A route is the record of its fields, and stays one when it is marked as deleted
\* or gets entries.
LEMMA RouteFields ==
    ASSUME NEW k \in Route
    PROVE  /\ k.st \in {"live", "deleting", "gone"} /\ k.gen \in Nat
           /\ k.refs \in Seq(Parents) /\ k.entries \subseteq Parents
           /\ k = [st |-> k.st, gen |-> k.gen, refs |-> k.refs, entries |-> k.entries]
  BY DEF Route

LEMMA RouteMarked ==
    ASSUME NEW k \in Route, NEW s \in {"live", "deleting", "gone"}
    PROVE  /\ [k EXCEPT !.st = s] \in Route /\ [k EXCEPT !.st = s].gen = k.gen
           /\ [k EXCEPT !.st = s].st = s /\ [k EXCEPT !.st = s].refs = k.refs
           /\ [k EXCEPT !.st = s].entries = k.entries
  BY DEF Route

LEMMA RouteListed ==
    ASSUME NEW k \in Route, NEW ps \in SUBSET Parents
    PROVE  /\ [k EXCEPT !.entries = @ \cup ps] \in Route
           /\ [k EXCEPT !.entries = @ \cup ps].gen = k.gen
           /\ [k EXCEPT !.entries = @ \cup ps].st = k.st
           /\ [k EXCEPT !.entries = @ \cup ps].refs = k.refs
           /\ [k EXCEPT !.entries = @ \cup ps].entries = k.entries \cup ps
  BY DEF Route

-------------------------------------------------------------------------------
(* Type correctness *)

\* At the start.
LEMMA TypesInit == allInit => RouteTypes
<1>. SUFFICES ASSUME allInit
              PROVE  RouteTypes
  OBVIOUS
<1>1. PICK refs \in RefLists : rt = [st |-> "live", gen |-> 1, refs |-> refs, entries |-> {}]
  BY DEF allInit, RouteInit
<1>2. rt \in Route /\ rtc \in Route /\ snap \in Route
  BY <1>1 DEF allInit, RouteInit, Route, NoRoute
<1>3. /\ spec \in [Resources -> Text] /\ seen \in [Resources -> Text]
      /\ cur \in [Resources -> [spec : Text, seen : Text]] /\ avail \subseteq Resources
  BY DEF allInit, RouteInit, NoLoop, Text, NoSpec, Nil
<1>0. queued \in BOOLEAN /\ timer \in BOOLEAN /\ requeue \in BOOLEAN /\ unrendered \in BOOLEAN
  BY Zenon DEF allInit, RouteInit
<1>4. /\ gws \in [Gateways -> GatewayStates]
      /\ todo \in Seq(Parents) /\ added \subseteq Parents
      /\ sinp \in 0..MaxEdits /\ due \in 0..MaxEdits /\ edits \in 0..MaxEdits
      /\ stage = "idle"
  BY DEF allInit, RouteInit, ClassInit
<1>5. RouteTypeOK
  BY <1>0, <1>2, <1>3, <1>4 DEF RouteTypeOK, Stages
<1>6. ClassesKnown
  <2>1. PICK st \in [ClassNames -> ClassStates], params \in [ClassNames -> BOOLEAN] :
          cls = [c \in ClassNames |-> NewClass(st[c], 1, params[c], Unset)]
    BY DEF allInit, ClassInit
  <2>2. clsc = cls
    BY DEF allInit, ClassInit
  <2>. QED
    BY <2>1, <2>2 DEF ClassesKnown, NewClass, Unset, Class, Condition
<1>. QED
  BY <1>4, <1>5, <1>6 DEF RouteTypes, InLoop

\* The oldest input of a text is a natural number, and the parent's own point on the
\* time line if the text needs no other child.
LEMMA OldestInputAge ==
    ASSUME RouteTypeOK, NEW g \in Gateways, NEW ts \in SUBSET (1..NumTemplates(g)), NEW fresh \in Nat
    PROVE  /\ T(g)!OldestInput(ts, fresh) \in Nat
           /\ ts = {} => T(g)!OldestInput(ts, fresh) = fresh
<1>. DEFINE S == {fresh} \cup {T(g)!Output(r, cur[r]) : r \in T(g)!Inputs(ts)}
<1>1. T(g)!Inputs(ts) \subseteq Resources
  BY Blueprint DEF T!Inputs
<1>2. S \subseteq Nat
  BY <1>1 DEF RouteTypeOK, T!Output, Text
<1>3. PICK x \in S : \A y \in S : x <= y
  BY <1>2, MinimumExists
<1>4. T(g)!OldestInput(ts, fresh) \in S
  BY <1>3 DEF T!OldestInput, T!Oldest
<1>5. ts = {} => S = {fresh}
  BY DEF T!Inputs
<1>. QED
  BY <1>2, <1>4, <1>5

\* What the loop fetches are copies of children.
LEMMA FetchTypes ==
    ASSUME RouteTypeOK, NEW g \in Gateways, NEW rs, NEW failed, T(g)!Fetch(rs, failed)
    PROVE  cur' \in [Resources -> [spec : Text, seen : Text]]
  BY DEF RouteTypeOK, T!Fetch

\* A step of the loop goes on with the next template, or to the apply calls.
LEMMA NextTypes ==
    ASSUME NEW g \in Gateways, idx \in 1..NumTemplates(g), T(g)!NextToRender
    PROVE  /\ idx' \in 1..NumTemplates(g) /\ stage' \in {"render", "apply"}
           /\ UNCHANGED <<spec, seen, attempt, applyErr, avail>>
<1>1. NumTemplates(g) \in Nat \ {0}
  BY Blueprint
<1>. QED
  BY <1>1 DEF T!NextToRender

\* The loop counters of a call outside of the steps of the loop.
LEMMA LoopTypesKept ==
    ASSUME RouteTypes, UNCHANGED callVars
    PROVE  (InLoop => todo # <<>> /\ IsGateway /\ LoopTypes)'
  BY DEF RouteTypes, InLoop, IsGateway, Parent, LoopTypes, TheNum, TheGw, callVars, tmplVars

\* The locals at the beginning of the loop ...
LEMMA LoopStartTypes ==
    ASSUME NEW g \in Gateways, T(g)!ResetTemplates
    PROVE  /\ attempt' = 0 /\ idx' = 1 /\ attempt' \in 0..NumTemplates(g) /\ attempt' < NumTemplates(g)
           /\ idx' \in 1..NumTemplates(g) /\ rendered' = {} /\ renderErr' = {} /\ applyErr' = {}
           /\ tspec' \in [1..NumTemplates(g) -> Text]
           /\ cur' \in [Resources -> [spec : Text, seen : Text]] /\ avail' = {}
<1>1. NumTemplates(g) \in Nat \ {0}
  BY Blueprint
<1>. QED
  BY <1>1 DEF T!ResetTemplates, T!Templates, T!NoSpec, T!Nil, Text, NoSpec

\* ... and at its end.
LEMMA LoopResetTypes ==
    ASSUME LoopReset
    PROVE  cur' \in [Resources -> [spec : Text, seen : Text]] /\ avail' \subseteq Resources
  BY DEF LoopReset, Nil, NoSpec, Text

\* A render step.
LEMMA RenderTypes ==
    ASSUME RouteTypes, RenderStep, UNCHANGED <<cls, clsc>>
    PROVE  RouteTypes'
<1>0. PICK g \in Gateways :
        /\ g = TheGw
        /\ \/ \E failed : T(g)!RenderSucceeds(snap.gen, snap.gen + sinp, failed) \/ T(g)!RenderSkipped(failed)
           \/ \E broken : T(g)!RenderFails(broken)
  BY DEF RenderStep
<1>1. /\ g \in Gateways /\ g = GatewayOf[Head(todo)] /\ todo # <<>> /\ IsGateway
      /\ LoopTypes /\ stage = "render" /\ UNCHANGED loopFrame
      /\ snap.gen \in Nat /\ sinp \in Nat
  <2>1. todo \in Seq(Parents) /\ todo # <<>> /\ LoopTypes /\ IsGateway /\ stage = "render"
    BY DEF RenderStep, RouteTypes, RouteTypeOK, InLoop
  <2>2. Head(todo) \in Parents
    BY <2>1, Queue
  <2>. QED
    BY <1>0, <2>1, <2>2, RouteFields DEF RenderStep, RouteTypes, RouteTypeOK, TheGw, Parent
<1>2. RouteTypeOK
  BY DEF RouteTypes
<1>3. \/ \E failed : T(g)!RenderSucceeds(snap.gen, snap.gen + sinp, failed) \/ T(g)!RenderSkipped(failed)
      \/ \E broken : T(g)!RenderFails(broken)
  BY <1>0
<1>4. /\ NumTemplates(g) = TheNum /\ idx \in 1..NumTemplates(g)
      /\ tspec \in [1..NumTemplates(g) -> Text]
      /\ rendered \subseteq 1..NumTemplates(g) /\ renderErr \subseteq 1..NumTemplates(g)
  BY <1>0, <1>1 DEF LoopTypes, TheNum
<1>5. T(g)!NextToRender
  BY <1>3 DEF T!RenderSucceeds, T!RenderSkipped, T!RenderFails
<1>6. /\ idx' \in 1..NumTemplates(g) /\ stage' \in {"render", "apply"}
      /\ UNCHANGED <<spec, seen, attempt, applyErr, avail>>
  BY <1>1, <1>4, <1>5, NextTypes
<1>7. cur' \in [Resources -> [spec : Text, seen : Text]]
  <2>1. (\E rs, failed : T(g)!Fetch(rs, failed)) \/ cur' = cur
    BY <1>3 DEF T!RenderSucceeds, T!RenderSkipped, T!RenderFails
  <2>. QED
    BY <1>1, <1>2, <2>1, FetchTypes DEF RouteTypeOK
<1>8. /\ tspec' \in [1..NumTemplates(g) -> Text]
      /\ rendered' \subseteq 1..NumTemplates(g) /\ renderErr' \subseteq 1..NumTemplates(g)
  <2>1. RouteDeps[g][idx] \subseteq 1..NumTemplates(g) /\ snap.gen + sinp \in Nat
    BY <1>1, <1>4, Blueprint
  <2>2. T(g)!OldestInput(RouteDeps[g][idx], snap.gen + sinp) \in Nat
    BY <1>1, <1>2, <2>1, OldestInputAge
  <2>3. [gen |-> snap.gen, age |-> T(g)!OldestInput(RouteDeps[g][idx], snap.gen + sinp)] \in Text
    BY <1>1, <2>2 DEF Text
  <2>4. \/ tspec' = tspec
        \/ tspec' = [tspec EXCEPT ![idx] = [gen |-> snap.gen,
                                         age |-> T(g)!OldestInput(RouteDeps[g][idx], snap.gen + sinp)]]
    BY <1>3, Zenon DEF T!RenderSucceeds, T!RenderSkipped, T!RenderFails
  <2>5. rendered' \in {rendered, rendered \cup {idx}} /\ renderErr' \subseteq renderErr \cup {idx}
    BY <1>3 DEF T!RenderSucceeds, T!RenderSkipped, T!RenderFails
  <2>. QED
    BY <1>4, <2>3, <2>4, <2>5
<1>9. LoopTypes' /\ todo' # <<>> /\ IsGateway'
  <2>1. attempt \in 0..TheNum /\ attempt < TheNum /\ applyErr \subseteq 1..TheNum
    BY <1>1 DEF LoopTypes
  <2>2. TheNum' = NumTemplates(g) /\ IsGateway' /\ todo' # <<>>
    BY <1>0, <1>1 DEF TheNum, TheGw, Parent, IsGateway, loopFrame
  <2>. QED
    BY <1>4, <1>6, <1>8, <2>1, <2>2 DEF LoopTypes
<1>10. RouteTypeOK'
  <2>1. stage' \in {"render", "apply"} => attempt' < NumTemplates(GatewayOf[Head(todo')])
    BY <1>1, <1>6, <1>9 DEF LoopTypes, TheNum, TheGw, Parent
  <2>. QED
    BY <1>1, <1>2, <1>6, <1>7, <2>1 DEF RouteTypeOK, loopFrame, Stages
<1>11. cls' = cls /\ clsc' = clsc => ClassesKnown'
  BY DEF RouteTypes, ClassesKnown
<1>. QED
  BY <1>1, <1>9, <1>10, <1>11 DEF RouteTypes, loopFrame

\* The present parent is one of those to come, and its Gateway has templates.
LEMMA PresentParent ==
    ASSUME RouteTypes, todo # <<>>
    PROVE  /\ Parent \in Parents /\ Parent = todo[1] /\ TheGw \in Gateways
           /\ TheNum \in Nat \ {0} /\ Len(todo) >= 1 /\ Len(Tail(todo)) = Len(todo) - 1
           /\ Tail(todo) \in Seq(Parents)
           /\ \A j \in 1..Len(Tail(todo)) : Tail(todo)[j] = todo[j + 1]
<1>1. todo \in Seq(Parents)
  BY DEF RouteTypes, RouteTypeOK
<1>2. Parent \in Parents /\ TheGw \in Gateways
  BY <1>1, Queue DEF Parent, TheGw
<1>. QED
  BY <1>1, <1>2, Queue, Blueprint DEF Parent, TheNum

\* What an apply step does, for the present parent.
LEMMA ApplyFacts ==
    ASSUME RouteTypes, ApplyStep
    PROVE  \E applied, failed \in SUBSET TheRes[idx] :
             LET target == IF idx \in rendered THEN TheRes[idx] ELSE {} IN
             /\ stage = "apply" /\ applied \subseteq target /\ target \ failed \subseteq applied
             /\ spec' = [r \in Resources |-> IF r \in applied THEN tspec[idx] ELSE spec[r]]
             /\ applyErr' = IF failed = {} THEN applyErr \ {idx} ELSE applyErr \cup {idx}
             /\ \/ idx < TheNum /\ idx' = idx + 1 /\ UNCHANGED <<stage, attempt, avail>>
                \/ /\ ~(idx < TheNum) /\ idx' = 1 /\ attempt' = attempt + 1
                   /\ stage' = (IF attempt + 1 < TheNum THEN "render" ELSE "status")
                   /\ avail' \subseteq Resources
             /\ UNCHANGED <<seen, rendered, tspec, renderErr, cur>> /\ UNCHANGED loopFrame
<1>0. PICK g \in Gateways :
        /\ g = TheGw
        /\ \E applied \in SUBSET RouteResources[g][idx], failed \in SUBSET RouteResources[g][idx] :
             T(g)!ApplyTemplate(applied, failed)
        /\ UNCHANGED loopFrame
  BY DEF ApplyStep
<1>1. PICK applied \in SUBSET RouteResources[g][idx], failed \in SUBSET RouteResources[g][idx] :
        T(g)!ApplyTemplate(applied, failed) /\ UNCHANGED loopFrame
  BY <1>0
<1>2. stage = "apply" /\ (idx < NumTemplates(g) \/ ~(idx < NumTemplates(g)))
  BY <1>1 DEF T!ApplyTemplate
<1>3. LET target == IF idx \in rendered THEN RouteResources[g][idx] ELSE {} IN
      /\ applied \subseteq target /\ target \ failed \subseteq applied
      /\ spec' = [r \in Resources |-> IF r \in applied THEN tspec[idx] ELSE spec[r]]
      /\ applyErr' = IF failed = {} THEN applyErr \ {idx} ELSE applyErr \cup {idx}
      /\ UNCHANGED <<seen, rendered, tspec, renderErr, cur>>
  BY <1>1 DEF T!ApplyTemplate
<1>4. \/ idx < NumTemplates(g) /\ idx' = idx + 1 /\ UNCHANGED <<stage, attempt, avail>>
      \/ /\ ~(idx < NumTemplates(g)) /\ idx' = 1 /\ attempt' = attempt + 1
         /\ stage' = (IF attempt + 1 < NumTemplates(g) THEN "render" ELSE "status")
         /\ avail' \subseteq Resources
  BY <1>1 DEF T!ApplyTemplate, T!MoreAttempts
<1>. QED
  BY <1>0, <1>1, <1>2, <1>3, <1>4, Zenon DEF TheRes, TheNum

\* An apply step.
LEMMA ApplyTypes ==
    ASSUME RouteTypes, ApplyStep, UNCHANGED <<cls, clsc>>
    PROVE  RouteTypes'
<1>1. PICK applied, failed \in SUBSET TheRes[idx] :
        /\ stage = "apply"
        /\ applied \subseteq (IF idx \in rendered THEN TheRes[idx] ELSE {})
        /\ spec' = [r \in Resources |-> IF r \in applied THEN tspec[idx] ELSE spec[r]]
        /\ applyErr' = IF failed = {} THEN applyErr \ {idx} ELSE applyErr \cup {idx}
        /\ \/ idx < TheNum /\ idx' = idx + 1 /\ UNCHANGED <<stage, attempt, avail>>
           \/ /\ ~(idx < TheNum) /\ idx' = 1 /\ attempt' = attempt + 1
              /\ stage' = (IF attempt + 1 < TheNum THEN "render" ELSE "status")
              /\ avail' \subseteq Resources
        /\ UNCHANGED <<seen, rendered, tspec, renderErr, cur>> /\ UNCHANGED loopFrame
  BY ApplyFacts, Zenon
<1>2. todo # <<>> /\ IsGateway /\ LoopTypes /\ RouteTypeOK /\ TheNum \in Nat \ {0}
  BY <1>1, PresentParent DEF RouteTypes, InLoop
<1>3. TheNum' = TheNum /\ IsGateway' /\ todo' # <<>>
  BY <1>1, <1>2 DEF TheNum, TheGw, Parent, IsGateway, loopFrame
<1>4. /\ idx' \in 1..TheNum /\ attempt' \in 0..TheNum /\ applyErr' \subseteq 1..TheNum
      /\ stage' \in {"render", "apply", "status"}
      /\ stage' \in {"render", "apply"} => attempt' < TheNum
  BY <1>1, <1>2 DEF LoopTypes
<1>5. spec' \in [Resources -> Text] /\ avail' \subseteq Resources
  BY <1>1, <1>2 DEF LoopTypes, RouteTypeOK
<1>6. LoopTypes'
  BY <1>1, <1>2, <1>3, <1>4 DEF LoopTypes
<1>7. RouteTypeOK'
  <2>1. stage' \in {"render", "apply"} => attempt' < NumTemplates(GatewayOf[Head(todo')])
    BY <1>3, <1>4 DEF TheNum, TheGw, Parent
  <2>. QED
    BY <1>1, <1>2, <1>4, <1>5, <2>1 DEF RouteTypeOK, loopFrame, Stages
<1>8. ClassesKnown' /\ edits' = edits
  BY <1>1 DEF RouteTypes, ClassesKnown, loopFrame
<1>. QED
  BY <1>3, <1>6, <1>7, <1>8 DEF RouteTypes

\* What is left of a call when it is over.
LEMMA EndTypes ==
    ASSUME RouteTypes, EndCall, UNCHANGED <<spec, seen, gws, queued, due, unrendered, edits, cls, clsc>>,
           rt' \in Route, rtc' \in Route, timer' \in BOOLEAN
    PROVE  RouteTypes'
<1>1. NoRoute \in Route /\ <<>> \in Seq(Parents) /\ 0 \in 0..MaxEdits
  BY ClassAssumption DEF NoRoute, Route
<1>2. cur' \in [Resources -> [spec : Text, seen : Text]] /\ avail' \subseteq Resources
  BY LoopResetTypes DEF EndCall
<1>3. stage' = "idle" /\ snap' \in Route /\ todo' \in Seq(Parents) /\ added' \subseteq Parents
      /\ sinp' \in 0..MaxEdits
  BY <1>1 DEF EndCall
<1>4. requeue' \in BOOLEAN /\ queued' \in BOOLEAN /\ unrendered' \in BOOLEAN
  BY Zenon DEF EndCall, RouteTypes, RouteTypeOK
<1>5. RouteTypeOK'
  <2>1. /\ gws' \in [Gateways -> GatewayStates]
        /\ spec' \in [Resources -> Text] /\ seen' \in [Resources -> Text] /\ due' \in 0..MaxEdits
    BY DEF RouteTypes, RouteTypeOK
  <2>. QED
    BY <1>2, <1>3, <1>4, <2>1 DEF RouteTypeOK, Stages
<1>. QED
  BY <1>3, <1>5 DEF RouteTypes, ClassesKnown, InLoop

\* A step of the world around the controller.
LEMMA WorldTypes ==
    ASSUME RouteTypes, RouteWorld, UNCHANGED <<cls, clsc>>
    PROVE  RouteTypes'
<1>0. RouteTypeOK
  BY DEF RouteTypes
<1>1. UNCHANGED <<rtc, timer, callVars, unrendered>>
  BY DEF RouteWorld, EditRoute, DeleteRoute, FinishRouteDeletion, CollectChild, LoseChild, Remove,
         ChildReconcile, EditGateway, EditConfig
<1>2. rt' \in Route
  <2>1. CASE EditRoute
    <3>1. PICK refs \in RefLists :
            rt' = [st |-> "live", gen |-> rt.gen + 1, refs |-> refs, entries |-> rt.entries]
      BY <2>1 DEF EditRoute
    <3>2. rt.gen \in Nat /\ rt.entries \subseteq Parents /\ refs \in Seq(Parents)
      BY <1>0, RouteFields, RouteAssumption DEF RouteTypeOK
    <3>. QED
      BY <3>1, <3>2 DEF Route
  <2>2. CASE DeleteRoute \/ FinishRouteDeletion
    <3>1. PICK s \in {"deleting", "gone"} : rt' = [rt EXCEPT !.st = s]
      BY <2>2 DEF DeleteRoute, FinishRouteDeletion
    <3>. QED
      BY <1>0, <3>1, RouteMarked DEF RouteTypeOK
  <2>3. CASE rt' = rt
    BY <1>0, <2>3 DEF RouteTypeOK
  <2>. QED
    BY <2>1, <2>2, <2>3 DEF RouteWorld, CollectChild, LoseChild, Remove, ChildReconcile, EditGateway, EditConfig
<1>3. spec' \in [Resources -> Text] /\ seen' \in [Resources -> Text]
  <2>1. CASE UNCHANGED childVars
    BY <1>0, <2>1 DEF RouteTypeOK, childVars
  <2>2. ASSUME NEW r \in Resources, Remove(r) \/ ChildReconcile(r)
        PROVE  spec' \in [Resources -> Text] /\ seen' \in [Resources -> Text]
    <3>1. NoSpec \in Text /\ spec \in [Resources -> Text] /\ seen \in [Resources -> Text]
      BY <1>0 DEF RouteTypeOK, NoSpec, Text
    <3>2. CASE Remove(r)
      BY <3>1, <3>2 DEF Remove
    <3>3. CASE ChildReconcile(r)
      BY <3>1, <3>3 DEF ChildReconcile
    <3>. QED
      BY <2>2, <3>2, <3>3
  <2>. QED
    BY <2>1, <2>2 DEF RouteWorld, EditRoute, DeleteRoute, FinishRouteDeletion, CollectChild, LoseChild,
                      EditGateway, EditConfig
<1>4. gws' \in [Gateways -> GatewayStates]
  <2>1. gws' = gws \/ \E g \in Gateways, s \in GatewayStates : gws' = [gws EXCEPT ![g] = s]
    BY DEF RouteWorld, EditRoute, DeleteRoute, FinishRouteDeletion, CollectChild, LoseChild, Remove,
           ChildReconcile, EditGateway, EditConfig
  <2>2. gws \in [Gateways -> GatewayStates]
    BY <1>0 DEF RouteTypeOK
  <2>3. ASSUME NEW g \in Gateways, NEW s \in GatewayStates
        PROVE  [gws EXCEPT ![g] = s] \in [Gateways -> GatewayStates]
    BY <2>2
  <2>4. CASE \E g \in Gateways, s \in GatewayStates : gws' = [gws EXCEPT ![g] = s]
    <3>1. PICK g \in Gateways, s \in GatewayStates : gws' = [gws EXCEPT ![g] = s]
      BY <2>4
    <3>. QED
      BY <2>3, <3>1, Zenon
  <2>. QED
    BY <2>1, <2>2, <2>4
<1>5. edits' \in 0..MaxEdits /\ due' \in 0..MaxEdits
  <2>1. edits' = edits \/ Edit
    BY DEF RouteWorld, EditRoute, DeleteRoute, FinishRouteDeletion, CollectChild, LoseChild, Remove,
           ChildReconcile, EditGateway, EditConfig
  <2>2. edits' \in 0..MaxEdits
    BY <2>1, ClassAssumption DEF Edit, RouteTypes
  <2>3. due' \in {due, edits'}
    BY DEF RouteWorld, EditRoute, DeleteRoute, FinishRouteDeletion, CollectChild, LoseChild, Remove,
           ChildReconcile, EditGateway, EditConfig
  <2>. QED
    BY <1>0, <2>2, <2>3 DEF RouteTypeOK
<1>6. queued' \in BOOLEAN
  <2>1. queued' = queued \/ \E g : queued' = (queued \/ Attached(rtc, g))
    BY DEF RouteWorld, EditRoute, DeleteRoute, FinishRouteDeletion, CollectChild, LoseChild, Remove,
           ChildReconcile, EditGateway, EditConfig
  <2>2. \A g : (queued \/ Attached(rtc, g)) \in BOOLEAN
    OBVIOUS
  <2>. QED
    BY <1>0, <2>1, <2>2, Zenon DEF RouteTypeOK
<1>7. RouteTypeOK'
  BY <1>0, <1>1, <1>2, <1>3, <1>4, <1>5, <1>6 DEF RouteTypeOK, callVars, tmplVars
<1>8. (InLoop => todo # <<>> /\ IsGateway /\ LoopTypes)'
  BY <1>1, LoopTypesKept
<1>. QED
  BY <1>5, <1>7, <1>8 DEF RouteTypes, ClassesKnown

\* A step of the informer, the timers or the work queue.
LEMMA WakeTypes ==
    ASSUME RouteTypes, UNCHANGED <<cls, clsc>>,
           RouteCacheSync \/ RouteResync \/ RouteTimerFires \/ RouteSkipped \/ RouteUnread
    PROVE  RouteTypes'
<1>0. RouteTypeOK
  BY DEF RouteTypes
<1>1. /\ UNCHANGED <<rt, gws, childVars, callVars, due, unrendered, edits>>
      /\ rtc' \in {rt, rtc} /\ queued' \in {TRUE, FALSE} /\ timer' \in {timer, TRUE, FALSE}
  BY DEF RouteCacheSync, RouteResync, RouteTimerFires, RouteSkipped, RouteUnread, Dequeue
<1>2. rtc' \in Route /\ queued' \in BOOLEAN /\ timer' \in BOOLEAN
  BY <1>0, <1>1, Zenon DEF RouteTypeOK
<1>3. RouteTypeOK'
  BY <1>0, <1>1, <1>2 DEF RouteTypeOK, callVars, tmplVars, childVars
<1>4. (InLoop => todo # <<>> /\ IsGateway /\ LoopTypes)'
  BY <1>1, LoopTypesKept
<1>. QED
  BY <1>1, <1>3, <1>4 DEF RouteTypes, ClassesKnown

\* A step of Reconcile between two parents.
LEMMA ParentTypes ==
    ASSUME RouteTypes, UNCHANGED <<cls, clsc>>, ParentSkipped \/ ParentMissing \/ ParentDone
    PROVE  RouteTypes'
<1>0. RouteTypeOK /\ todo # <<>>
  BY DEF RouteTypes, ParentSkipped, ParentMissing, LooksUp, ParentDone, InLoop
<1>1. /\ UNCHANGED <<rt, rtc, gws, childVars, queued, timer, snap, due, edits>>
      /\ stage' = "lookup" /\ todo' = Tail(todo)
  BY DEF ParentSkipped, ParentMissing, LooksUp, ParentDone, AfterMissing
<1>2. added' \subseteq Parents /\ sinp' \in 0..MaxEdits /\ todo' \in Seq(Parents)
  BY <1>0, <1>1, PresentParent, ClassAssumption DEF ParentSkipped, ParentMissing, ParentDone, RouteTypeOK
<1>3. requeue' \in BOOLEAN /\ unrendered' \in BOOLEAN
  <2>1. Requeue \in BOOLEAN /\ (unrendered \/ renderErr # {}) \in BOOLEAN
    BY Zenon DEF Requeue
  <2>. QED
    BY <1>0, <2>1, Zenon DEF ParentSkipped, ParentMissing, ParentDone, RouteTypeOK
<1>4. cur' \in [Resources -> [spec : Text, seen : Text]] /\ avail' \subseteq Resources
  BY <1>0, LoopResetTypes DEF ParentSkipped, ParentMissing, ParentDone, RouteTypeOK, tmplVars
<1>5. RouteTypeOK'
  BY <1>0, <1>1, <1>2, <1>3, <1>4 DEF RouteTypeOK, Stages, childVars
<1>. QED
  BY <1>1, <1>5 DEF RouteTypes, ClassesKnown, InLoop

\* The call begins, with the route as it is in the cache.
LEMMA BeginTypes ==
    ASSUME RouteTypes, UNCHANGED <<cls, clsc>>, RouteBegins
    PROVE  RouteTypes'
<1>0. RouteTypeOK
  BY DEF RouteTypes
<1>1. rtc.refs \in Seq(Parents)
  BY <1>0, RouteFields DEF RouteTypeOK
<1>2. queued' \in BOOLEAN /\ requeue' \in BOOLEAN /\ unrendered' \in BOOLEAN
  BY Zenon DEF RouteBegins, Dequeue
<1>3. RouteTypeOK'
  BY <1>0, <1>1, <1>2 DEF RouteTypeOK, RouteBegins, Stages, childVars, tmplVars
<1>. QED
  BY <1>3 DEF RouteTypes, ClassesKnown, InLoop, RouteBegins

\* The loop for a parent begins.
LEMMA ParentBeginsTypes ==
    ASSUME RouteTypes, UNCHANGED <<cls, clsc>>, ParentBegins
    PROVE  RouteTypes'
<1>0. RouteTypeOK /\ todo # <<>> /\ IsGateway /\ TheGw \in Gateways
  BY PresentParent DEF RouteTypes, ParentBegins, LooksUp, Found
<1>1. PICK g \in Gateways : g = TheGw /\ T(g)!ResetTemplates
  BY DEF ParentBegins
<1>2. UNCHANGED <<rt, rtc, gws, childVars, queued, timer, snap, todo, added, requeue, due, unrendered, edits>>
      /\ stage' = "render" /\ sinp' = edits
  BY DEF ParentBegins
<1>3. /\ attempt' = 0 /\ attempt' < NumTemplates(TheGw) /\ attempt' \in 0..NumTemplates(TheGw)
      /\ idx' \in 1..NumTemplates(TheGw) /\ rendered' = {} /\ renderErr' = {} /\ applyErr' = {}
      /\ tspec' \in [1..NumTemplates(TheGw) -> Text]
      /\ cur' \in [Resources -> [spec : Text, seen : Text]] /\ avail' = {}
  BY <1>0, <1>1, LoopStartTypes
<1>4. TheNum' = NumTemplates(TheGw) /\ IsGateway' /\ todo' # <<>>
  BY <1>0, <1>2 DEF TheNum, TheGw, Parent, IsGateway
<1>5. LoopTypes'
  BY <1>2, <1>3, <1>4 DEF LoopTypes
<1>6. RouteTypeOK'
  <2>1. stage' \in {"render", "apply"} => attempt' < NumTemplates(GatewayOf[Head(todo')])
    BY <1>2, <1>3 DEF TheGw, Parent
  <2>2. edits \in 0..MaxEdits
    BY DEF RouteTypes
  <2>. QED
    BY <1>0, <1>2, <1>3, <2>1, <2>2 DEF RouteTypeOK, Stages, childVars
<1>. QED
  BY <1>2, <1>4, <1>5, <1>6 DEF RouteTypes, ClassesKnown

\* The call ends, in an error or after the last parent.
LEMMA CallEndTypes ==
    ASSUME RouteTypes, UNCHANGED <<cls, clsc>>, ParentFails \/ ApplyFailed \/ RouteDone
    PROVE  RouteTypes'
<1>0. RouteTypeOK
  BY DEF RouteTypes
<1>1. EndCall /\ UNCHANGED <<rtc, spec, seen, gws, queued, due, unrendered, edits>>
  BY DEF ParentFails, ApplyFailed, Fails, RouteDone, childVars
<1>2. rt' \in {rt, NewRoute}
  BY DEF ParentFails, ApplyFailed, Fails, RouteDone
<1>3. NewRoute \in Route
  <2>1. rt \in Route /\ snap \in Route /\ added \in SUBSET Parents
    BY <1>0 DEF RouteTypeOK
  <2>. QED
    BY <2>1 DEF NewRoute, Route
<1>4. timer' \in BOOLEAN
  <2>1. CASE ParentFails \/ ApplyFailed
    BY <2>1, Zenon DEF ParentFails, ApplyFailed, Fails
  <2>2. CASE RouteDone
    <3>1. (timer \/ requeue) \in BOOLEAN /\ \A lost : (timer \/ requeue \/ lost \/ ~Stored) \in BOOLEAN
      OBVIOUS
    <3>. QED
      BY <2>2, <3>1, Zenon DEF RouteDone
  <2>. QED
    BY <2>1, <2>2
<1>. QED
  BY <1>0, <1>1, <1>2, <1>3, <1>4, EndTypes DEF RouteTypeOK

\* The new process begins without a call.
LEMMA RestartTypes ==
    ASSUME RouteTypes, RouteRestart, clsc' = cls, cls' = cls
    PROVE  RouteTypes'
<1>0. RouteTypeOK
  BY DEF RouteTypes
<1>1. /\ EndCall /\ rtc' = rt /\ timer' = FALSE
      /\ UNCHANGED <<rt, gws, spec, seen, due, unrendered, edits>>
  BY DEF RouteRestart, childVars
<1>2. NoRoute \in Route /\ <<>> \in Seq(Parents) /\ 0 \in 0..MaxEdits
  BY ClassAssumption DEF NoRoute, Route
<1>3. cur' \in [Resources -> [spec : Text, seen : Text]] /\ avail' \subseteq Resources
  BY <1>1, LoopResetTypes DEF EndCall
<1>4. stage' = "idle" /\ snap' \in Route /\ todo' \in Seq(Parents) /\ added' \subseteq Parents
      /\ sinp' \in 0..MaxEdits
  BY <1>1, <1>2 DEF EndCall
<1>5. requeue' \in BOOLEAN /\ queued' \in BOOLEAN /\ unrendered' \in BOOLEAN /\ timer' \in BOOLEAN
  BY <1>0, <1>1, Zenon DEF EndCall, RouteTypeOK, RouteRestart
<1>6. RouteTypeOK'
  BY <1>0, <1>1, <1>3, <1>4, <1>5 DEF RouteTypeOK, Stages
<1>. QED
  BY <1>1, <1>4, <1>6 DEF RouteTypes, ClassesKnown, InLoop

\* A step of classes and blueprints.
LEMMA ClassTypes ==
    ASSUME RouteTypes, UNCHANGED routeVars,
           \E c \in ClassNames : EditClass(c) \/ EditBlueprint(c) \/ ClassCacheSync(c)
    PROVE  RouteTypes' /\ edits <= edits'
<1>1. PICK c \in ClassNames : EditClass(c) \/ EditBlueprint(c) \/ ClassCacheSync(c)
  OBVIOUS
<1>2. cls \in [ClassNames -> Class] /\ clsc \in [ClassNames -> Class] /\ edits \in 0..MaxEdits
  BY DEF RouteTypes, ClassesKnown
<1>3. edits' \in 0..MaxEdits /\ edits <= edits'
  BY <1>1, <1>2, ClassAssumption DEF EditClass, EditBlueprint, ClassCacheSync, Edit
<1>4. ClassesKnown'
  <2>1. CASE EditClass(c)
    <3>1. PICK new \in Class : /\ cls' = [cls EXCEPT ![c] = new]
                               /\ new.st \in ClassStates \cup {"gone", cls[c].st}
      BY <1>2, <2>1, ClassEdited
    <3>. QED
      BY <1>2, <2>1, <3>1 DEF RouteTypes, ClassesKnown, EditClass
  <2>2. CASE EditBlueprint(c)
    BY <2>2 DEF RouteTypes, ClassesKnown, EditBlueprint
  <2>3. CASE ClassCacheSync(c)
    BY <2>3 DEF RouteTypes, ClassesKnown, ClassCacheSync
  <2>. QED
    BY <1>1, <2>1, <2>2, <2>3
<1>5. RouteTypeOK'
  BY DEF RouteTypes, RouteTypeOK, routeVars, callVars, tmplVars, childVars
<1>6. (InLoop => todo # <<>> /\ IsGateway /\ LoopTypes)'
  BY LoopTypesKept DEF routeVars
<1>. QED
  BY <1>3, <1>4, <1>5, <1>6 DEF RouteTypes

\* Every step of the route controller and its world keeps the types.
LEMMA RouteStepTypes ==
    ASSUME RouteTypes, RouteWorld \/ RouteStep, UNCHANGED <<cls, clsc>>
    PROVE  RouteTypes'
  BY WorldTypes, WakeTypes, ParentTypes, BeginTypes, ParentBeginsTypes, CallEndTypes, RenderTypes, ApplyTypes
     DEF RouteStep, RouteReconcile

\* So does every step of the specification.
LEMMA TypesNext == RouteTypes /\ [RouteNext]_allVars => RouteTypes'
<1>. SUFFICES ASSUME RouteTypes, [RouteNext]_allVars
              PROVE  RouteTypes'
  OBVIOUS
<1>1. CASE (RouteWorld \/ RouteStep) /\ UNCHANGED <<cls, clsc, bps, classVars>>
  BY <1>1, RouteStepTypes
<1>2. CASE /\ UNCHANGED routeVars
           /\ \E c \in ClassNames : EditClass(c) \/ EditBlueprint(c) \/ ClassCacheSync(c)
  BY <1>2, ClassTypes
<1>3. CASE RouteRestart /\ clsc' = cls /\ UNCHANGED <<cls, bps, classVars>>
  BY <1>3, RestartTypes
<1>4. CASE UNCHANGED allVars
  <2>1. (InLoop => todo # <<>> /\ IsGateway /\ LoopTypes)'
    BY <1>4, LoopTypesKept DEF allVars, routeVars
  <2>. QED
    BY <1>4, <2>1 DEF allVars, worldVars, routeVars, RouteTypes, RouteTypeOK, ClassesKnown,
                      callVars, tmplVars, childVars
<1>. QED
  BY <1>1, <1>2, <1>3, <1>4 DEF RouteNext

\* Whatever happens to the route, its Gateways, classes and children, the locals of
\* Reconcile stay in their ranges: inside the loop of a parent the attempt counter is
\* below the number of templates of its own Gateway, although the next parent may have
\* fewer.
THEOREM RouteTypeCorrect == RouteSpec => []RouteTypeOK
<1>1. RouteSpec => []RouteTypes
  BY TypesInit, TypesNext, PTL DEF RouteSpec
<1>2. RouteTypes => RouteTypeOK
  BY DEF RouteTypes
<1>. QED
  BY <1>1, <1>2, PTL

-------------------------------------------------------------------------------
(* Copies of the route, and steps that leave the call alone *)

\* Being an earlier version is reflexive and transitive.
LEMMA BehindOrder ==
    ASSUME NEW a \in Route, NEW b \in Route, NEW c \in Route
    PROVE  Behind(a, a) /\ (Behind(a, b) /\ Behind(b, c) => Behind(a, c))
<1>1. a.gen \in Nat /\ b.gen \in Nat /\ c.gen \in Nat
  BY RouteFields
<1>. QED
  BY <1>1 DEF Behind

\* When the route is still the one the call has read, so is the copy in the cache.
LEMMA BehindEqual ==
    ASSUME NEW a \in Route, NEW b \in Route, Behind(a, b), Behind(b, a), a.st = "live", b.st = "live"
    PROVE  a = b
<1>1. a.gen \in Nat /\ b.gen \in Nat
  BY RouteFields
<1>2. a.gen = b.gen /\ a.refs = b.refs /\ a.entries = b.entries
  BY <1>1 DEF Behind
<1>. QED
  BY <1>2, RouteFields

\* At the start.
LEMMA InvInit == allInit => RouteInv
<1>. SUFFICES ASSUME allInit
              PROVE  RouteInv
  OBVIOUS
<1>1. RouteTypes
  BY TypesInit
<1>2. rtc = rt /\ queued = TRUE /\ stage = "idle" /\ due = 0 /\ edits = 0
  BY DEF allInit, RouteInit, ClassInit
<1>3. Behind(rtc, rt)
  BY <1>1, <1>2, BehindOrder DEF RouteTypes, RouteTypeOK
<1>. QED
  BY <1>1, <1>2, <1>3 DEF RouteInv, CopiesInv, CallInv, InCall, InLoop, RouteNoLostWakeup

\* Steps of users, informers, timers and the other controllers, and of the queue: the
\* call goes on as it was, children may disappear, and whatever makes the copy in the
\* cache differ from the route, or a policy of the route newer, queues the key.
Outside ==
    /\ UNCHANGED <<callVars, unrendered>>
    /\ \A r \in Resources : spec'[r] \in {spec[r], NoSpec}
    /\ Behind(rtc, rtc') /\ Behind(rtc', rt') /\ due' <= edits'
    /\ queued => queued'
    /\ rtc' = rtc \/ queued'
    /\ timer => timer' \/ queued'
    /\ Fresh' => Fresh /\ due' = due /\ rt' = rt

\* A child that is up to date stays so.
LEMMA UpToDateKept ==
    ASSUME NEW r, UpToDate(r), spec'[r] \in {spec[r], NoSpec}, snap' = snap,
           Fresh' => Fresh /\ due' = due
    PROVE  UpToDate(r)'
<1>1. CASE spec'[r] = NoSpec
  BY <1>1 DEF UpToDate, Exists
<1>2. CASE spec'[r] = spec[r]
  BY <1>2 DEF UpToDate, Exists
<1>. QED
  BY <1>1, <1>2

\* The resources of the parents of a route.
LEMMA ParentResources ==
    ASSUME NEW k \in Route, NEW i \in 1..Len(k.refs)
    PROVE  /\ k.refs[i] \in Parents /\ GatewayOf[k.refs[i]] \in Gateways
           /\ ResourcesFor(GatewayOf[k.refs[i]]) \subseteq Resources
<1>1. k.refs[i] \in Parents
  BY RouteFields
<1>. QED
  BY <1>1, Blueprint

\* What is known of the call stays true.
LEMMA OutsideCall ==
    ASSUME RouteTypes, CallInv, Outside
    PROVE  CallInv'
<1>1. /\ UNCHANGED <<snap, todo, added, requeue, sinp, stage, unrendered>>
      /\ UNCHANGED <<attempt, idx, rendered, tspec, renderErr, applyErr>>
      /\ Fresh' => Fresh /\ due' = due
  BY DEF Outside, callVars, tmplVars
<1>2. ASSUME NEW r \in Resources, UpToDate(r)
      PROVE  UpToDate(r)'
  BY <1>1, <1>2, UpToDateKept DEF Outside
<1>3. ASSUME InCall'
      PROVE  ParentsInv'
  <2>1. ParentsInv
    BY <1>1, <1>3 DEF CallInv, InCall
  <2>2. ASSUME ~unrendered', NEW p \in added', NEW r \in ResourcesFor(GatewayOf[p])
        PROVE  UpToDate(r)'
    <3>1. p \in Parents /\ UpToDate(r)
      BY <1>1, <2>1, <2>2 DEF ParentsInv, RouteTypes, RouteTypeOK
    <3>2. r \in Resources
      BY <2>2, <3>1, Blueprint
    <3>. QED
      BY <1>2, <3>1, <3>2
  <2>. QED
    BY <1>1, <2>1, <2>2 DEF ParentsInv
<1>4. ASSUME InLoop'
      PROVE  LoopInv'
  <2>1. LoopInv /\ LoopTypes /\ todo # <<>>
    BY <1>1, <1>4 DEF CallInv, InLoop, RouteTypes
  <2>2. TheNum' = TheNum /\ TheRes' = TheRes /\ TheDeps' = TheDeps
    BY <1>1 DEF TheNum, TheRes, TheDeps, TheGw, Parent
  <2>3. ASSUME NEW t \in rendered \ applyErr, Applied(t), NEW r \in TheRes[t]
        PROVE  UpToDate(r)'
    <3>1. r \in Resources
      BY <2>1, <2>3, PresentParent, Blueprint DEF LoopTypes, TheRes, TheNum
    <3>. QED
      BY <1>2, <2>1, <2>3, <3>1 DEF LoopInv
  <2>4. \A t \in rendered' \ applyErr' : Applied(t)' => \A r \in TheRes'[t] : UpToDate(r)'
    BY <1>1, <2>2, <2>3 DEF Applied
  <2>5. \A t \in rendered' :
           /\ tspec'[t].gen = snap'.gen
           /\ Fresh' /\ TheDeps'[t] = {} => tspec'[t].age >= snap'.gen + due'
    BY <1>1, <2>1, <2>2 DEF LoopInv
  <2>6. \A t \in 1..TheNum' : Turned(t)' => t \in rendered' \cup renderErr' \/ TheRes'[t] = {}
    BY <1>1, <2>1, <2>2 DEF LoopInv, Turned
  <2>7. Fresh' => sinp' >= due'
    BY <1>1, <2>1 DEF LoopInv
  <2>. QED
    BY <2>4, <2>5, <2>6, <2>7 DEF LoopInv
<1>. QED
  BY <1>3, <1>4 DEF CallInv

\* So does what is known of the copies and, between two calls, that no wake-up is
\* lost.
LEMMA OutsideKeeps ==
    ASSUME RouteInv, RouteTypes', Outside
    PROVE  RouteInv'
<1>1. RouteTypes /\ CopiesInv /\ CallInv /\ RouteNoLostWakeup
  BY DEF RouteInv
<1>2. UNCHANGED <<snap, stage, unrendered>>
  BY DEF Outside, callVars
<1>3. /\ rt \in Route /\ rtc \in Route /\ snap \in Route /\ rt' \in Route /\ rtc' \in Route
  BY <1>1 DEF RouteTypes, RouteTypeOK
<1>4. CopiesInv'
  BY <1>1, <1>2, <1>3, BehindOrder DEF CopiesInv, Outside, InCall
<1>5. CallInv'
  BY <1>1, OutsideCall
<1>6. RouteNoLostWakeup'
  <2>. SUFFICES ASSUME stage' = "idle", ~queued', ~timer', ~unrendered', rt'.st = "live", rtc' = rt',
                       "deleting" \notin GatewayStates, "foreign" \notin ClassStates,
                       NEW i \in 1..Len(rt'.refs), RefKind[rt'.refs[i]] = "Gateway"
                PROVE  /\ rt'.refs[i] \in rt'.entries
                       /\ \A r \in ResourcesFor(GatewayOf[rt'.refs[i]]) : Exists(r)' =>
                            /\ spec'[r].gen = rt'.gen
                            /\ SelfContained(r, rt'.refs) => spec'[r].age >= rt'.gen + due'
    BY DEF RouteNoLostWakeup, Refs
  <2>1. Fresh /\ due' = due /\ rt' = rt
    BY DEF Outside, Fresh
  <2>2. stage = "idle" /\ ~queued /\ ~timer /\ ~unrendered /\ rt.st = "live" /\ rtc = rt
    BY <1>2, <2>1 DEF Outside, Fresh
  <2>3. /\ rt.refs[i] \in rt.entries
        /\ \A r \in ResourcesFor(GatewayOf[rt.refs[i]]) : Exists(r) =>
             /\ spec[r].gen = rt.gen
             /\ SelfContained(r, rt.refs) => spec[r].age >= rt.gen + due
    BY <1>1, <2>1, <2>2 DEF RouteNoLostWakeup, Refs
  <2>4. \A r \in ResourcesFor(GatewayOf[rt.refs[i]]) : Exists(r)' => spec'[r] = spec[r] /\ Exists(r)
    BY <1>3, <2>1, ParentResources DEF Outside, Exists
  <2>. QED
    BY <2>1, <2>3, <2>4
<1>. QED
  BY <1>4, <1>5, <1>6 DEF RouteInv

\* The steps of the world around the controller are such steps ...
LEMMA WorldOutside ==
    ASSUME RouteTypes, RouteTypes', CopiesInv, RouteWorld
    PROVE  Outside
<1>1. /\ rt \in Route /\ rtc \in Route /\ rt' \in Route /\ rt.gen \in Nat /\ rtc.gen \in Nat
      /\ edits \in Nat /\ due \in Nat /\ edits' \in Nat
  BY RouteFields, ClassAssumption DEF RouteTypes, RouteTypeOK
<1>2. UNCHANGED <<rtc, timer, callVars, unrendered>>
  BY DEF RouteWorld, EditRoute, DeleteRoute, FinishRouteDeletion, CollectChild, LoseChild, Remove,
         ChildReconcile, EditGateway, EditConfig
<1>3. Behind(rtc, rtc') /\ Behind(rtc, rt) /\ due <= edits
  BY <1>1, <1>2, BehindOrder DEF CopiesInv
<1>4. CASE EditRoute \/ DeleteRoute \/ FinishRouteDeletion
  <2>1. UNCHANGED <<spec, queued, timer, due, edits>>
    BY <1>4 DEF EditRoute, DeleteRoute, FinishRouteDeletion, childVars
  <2>2. CASE EditRoute
    <3>1. PICK refs \in RefLists :
            rt' = [st |-> "live", gen |-> rt.gen + 1, refs |-> refs, entries |-> rt.entries]
      BY <2>2 DEF EditRoute
    <3>2. rt'.gen = rt.gen + 1 /\ rt'.entries = rt.entries /\ rt'.st = "live" /\ rt.st = "live"
      BY <2>2, <3>1 DEF EditRoute
    <3>3. Behind(rtc, rt') /\ rtc # rt'
      BY <1>1, <1>3, <3>2 DEF Behind
    <3>. QED
      BY <1>2, <1>3, <2>1, <3>3 DEF Outside, Fresh
  <2>3. CASE DeleteRoute \/ FinishRouteDeletion
    <3>1. PICK s \in {"deleting", "gone"} : rt' = [rt EXCEPT !.st = s]
      BY <2>3 DEF DeleteRoute, FinishRouteDeletion
    <3>2. rt'.gen = rt.gen /\ rt'.refs = rt.refs /\ rt'.entries = rt.entries /\ rt'.st = s
      BY <1>1, <3>1, RouteMarked
    <3>3. Behind(rtc, rt') /\ rt'.st # "live"
      BY <1>1, <1>3, <3>2 DEF Behind
    <3>. QED
      BY <1>2, <1>3, <2>1, <3>3 DEF Outside, Fresh
  <2>. QED
    BY <1>4, <2>2, <2>3
<1>5. ASSUME NEW r \in Resources, Remove(r) \/ ChildReconcile(r)
      PROVE  Outside
  <2>1. UNCHANGED <<rt, queued, due, edits>> /\ \A q \in Resources : spec'[q] \in {spec[q], NoSpec}
    BY <1>5 DEF Remove, ChildReconcile, RouteTypes, RouteTypeOK
  <2>. QED
    BY <1>2, <1>3, <2>1 DEF Outside, Fresh
<1>6. ASSUME NEW g \in Gateways, EditGateway(g)
      PROVE  Outside
  <2>1. UNCHANGED <<rt, queued, due, spec>> /\ edits' = edits + 1
    BY <1>6 DEF EditGateway, Edit, childVars
  <2>. QED
    BY <1>1, <1>2, <1>3, <2>1 DEF Outside, Fresh
<1>7. ASSUME NEW g \in Gateways, EditConfig(g)
      PROVE  Outside
  <2>1. /\ UNCHANGED <<rt, spec>> /\ edits' = edits + 1
        /\ queued' = (queued \/ Attached(rtc, g))
        /\ due' = IF Names(rt, g) THEN edits' ELSE due
    BY <1>7 DEF EditConfig, Edit, childVars
  <2>2. due' <= edits'
    BY <1>1, <1>3, <2>1
  <2>3. queued => queued'
    BY <2>1, Zenon
  <2>4. Fresh' => Fresh /\ due' = due
    BY <1>2, <2>1 DEF Fresh, Attached
  <2>. QED
    BY <1>2, <1>3, <2>1, <2>2, <2>3, <2>4 DEF Outside
<1>. QED
  BY <1>4, <1>5, <1>6, <1>7 DEF RouteWorld, CollectChild, LoseChild

\* ... and those of the informer and the timers.
LEMMA WakeOutside ==
    ASSUME RouteTypes, CopiesInv, RouteCacheSync \/ RouteResync \/ RouteTimerFires
    PROVE  Outside
<1>1. rt \in Route /\ rtc \in Route /\ rtc' \in {rt, rtc}
  BY DEF RouteTypes, RouteTypeOK, RouteCacheSync, RouteResync, RouteTimerFires
<1>2. UNCHANGED <<callVars, unrendered, rt, spec, due, edits>> /\ queued' = TRUE
  BY DEF RouteCacheSync, RouteResync, RouteTimerFires, childVars
<1>3. Behind(rtc, rtc') /\ Behind(rtc', rt')
  BY <1>1, <1>2, BehindOrder DEF CopiesInv
<1>. QED
  BY <1>2, <1>3 DEF Outside, Fresh, CopiesInv

\* Steps of the classes and blueprints, and steps of others, change nothing of this.
LEMMA OthersOutside ==
    ASSUME RouteTypes, CopiesInv, UNCHANGED routeVars, RouteTypes', edits <= edits'
    PROVE  Outside
<1>1. rt \in Route /\ edits \in Nat /\ edits' \in Nat /\ due \in Nat
  BY ClassAssumption DEF RouteTypes, RouteTypeOK
<1>2. UNCHANGED <<callVars, unrendered, rt, rtc, spec, due, queued, timer>>
  BY DEF routeVars, childVars
<1>3. Behind(rtc, rtc') /\ Behind(rtc', rt')
  BY <1>1, <1>2, BehindOrder DEF CopiesInv, RouteTypes, RouteTypeOK
<1>. QED
  BY <1>1, <1>2, <1>3 DEF Outside, Fresh, CopiesInv

-------------------------------------------------------------------------------
(* The steps of a call *)

\* A call that ends in an error leaves a pending requeue behind; so does one that
\* cannot read the route.
LEMMA ErrorKeeps ==
    ASSUME RouteInv, RouteTypes', ParentFails \/ ApplyFailed \/ RouteUnread
    PROVE  RouteInv'
<1>1. timer' = TRUE /\ stage' = "idle" /\ UNCHANGED <<rt, rtc, due, edits>>
  BY DEF ParentFails, ApplyFailed, Fails, EndCall, RouteUnread, Dequeue, callVars
<1>. QED
  BY <1>1 DEF RouteInv, CopiesInv, CallInv, InCall, InLoop, RouteNoLostWakeup

\* A route that is gone or being deleted needs no wake-up.
LEMMA SkipKeeps ==
    ASSUME RouteInv, RouteTypes', RouteSkipped
    PROVE  RouteInv'
<1>1. rtc'.st # "live" /\ stage' = "idle" /\ UNCHANGED <<rt, rtc, due, edits>>
  BY DEF RouteSkipped, Dequeue, Ignored, callVars
<1>. QED
  BY <1>1 DEF RouteInv, CopiesInv, CallInv, InCall, InLoop, RouteNoLostWakeup

\* The new process queues a route that is not gone.
LEMMA RestartKeeps ==
    ASSUME RouteInv, RouteTypes', RouteRestart
    PROVE  RouteInv'
<1>1. /\ rtc' = rt' /\ rt' = rt /\ queued' = (rt.st # "gone") /\ stage' = "idle"
      /\ UNCHANGED <<due, edits>>
  BY DEF RouteRestart, EndCall
<1>2. Behind(rtc', rt')
  BY <1>1, BehindOrder DEF RouteInv, RouteTypes, RouteTypeOK
<1>. QED
  BY <1>1, <1>2 DEF RouteInv, CopiesInv, CallInv, InCall, InLoop, RouteNoLostWakeup

\* A call begins with all parents of the route, as it is in the cache.
LEMMA BeginKeeps ==
    ASSUME RouteInv, RouteTypes', RouteBegins
    PROVE  RouteInv'
<1>1. /\ snap' = rtc /\ todo' = rtc.refs /\ added' = {} /\ stage' = "lookup"
      /\ rtc.st = "live" /\ UNCHANGED <<rt, rtc, due, edits>>
  BY DEF RouteBegins, Ignored
<1>2. CopiesInv'
  BY <1>1, BehindOrder DEF RouteInv, CopiesInv, RouteTypes, RouteTypeOK
<1>3. ParentsInv'
  <2>1. todo' = snap'.refs /\ added' = {}
    BY <1>1
  <2>. QED
    BY <2>1 DEF ParentsInv
<1>. QED
  BY <1>1, <1>2, <1>3 DEF RouteInv, CallInv, InCall, InLoop, RouteNoLostWakeup

\* The steps in the middle of a call disturb neither the copies nor what holds
\* between two calls.
LEMMA InsideKeeps ==
    ASSUME RouteInv, RouteTypes', InCall, stage' # "idle", CallInv',
           UNCHANGED <<rt, rtc, queued, snap, due, edits>>
    PROVE  RouteInv'
  BY DEF RouteInv, CopiesInv, InCall, RouteNoLostWakeup

\* When the turn of a parent is over, each of those still to come was to come, and the
\* others have had their turn.
LEMMA NextParent ==
    ASSUME RouteTypes, ParentsInv, todo # <<>>, todo' = Tail(todo), snap' = snap,
           requeue => requeue', added \subseteq added',
           "deleting" \notin GatewayStates /\ "foreign" \notin ClassStates =>
             RefKind[Parent] # "Gateway" \/ requeue' \/ Parent \in added',
           ~unrendered' => \A p \in added' : \A r \in ResourcesFor(GatewayOf[p]) : UpToDate(r)'
    PROVE  ParentsInv'
<1>1. /\ Parent = todo[1] /\ Len(todo) \in Nat /\ Len(todo) >= 1 /\ Len(todo') = Len(todo) - 1
      /\ \A j \in 1..Len(todo') : todo'[j] = todo[j + 1]
  BY PresentParent DEF RouteTypes, RouteTypeOK
<1>2. ASSUME NEW j \in 1..Len(todo')
      PROVE  \E i \in 1..Len(snap'.refs) : todo'[j] = snap'.refs[i]
  <2>1. j + 1 \in 1..Len(todo) /\ todo'[j] = todo[j + 1]
    BY <1>1
  <2>2. PICK i \in 1..Len(snap.refs) : todo[j + 1] = snap.refs[i]
    BY <2>1 DEF ParentsInv
  <2>. QED
    BY <2>1, <2>2
<1>3. ASSUME "deleting" \notin GatewayStates, "foreign" \notin ClassStates, NEW i \in 1..Len(snap.refs)
      PROVE  \/ \E j \in 1..Len(todo') : todo'[j] = snap.refs[i]
             \/ RefKind[snap.refs[i]] # "Gateway" \/ requeue' \/ snap.refs[i] \in added'
  <2>1. CASE \E j \in 1..Len(todo) : todo[j] = snap.refs[i]
    <3>1. PICK j \in 1..Len(todo) : todo[j] = snap.refs[i]
      BY <2>1
    <3>2. CASE j = 1
      BY <1>1, <1>3, <3>1, <3>2
    <3>3. CASE j # 1
      <4>1. j - 1 \in 1..Len(todo') /\ todo'[j - 1] = snap.refs[i]
        BY <1>1, <3>1, <3>3
      <4>. QED
        BY <4>1
    <3>. QED
      BY <3>2, <3>3
  <2>2. CASE RefKind[snap.refs[i]] # "Gateway" \/ requeue \/ snap.refs[i] \in added
    BY <2>2
  <2>. QED
    BY <1>3, <2>1, <2>2 DEF ParentsInv
<1>. QED
  BY <1>2, <1>3 DEF ParentsInv

\* A parent is skipped for good only for a reason that the property leaves out.
LEMMA SkipParentKeeps ==
    ASSUME RouteInv, RouteTypes', ParentSkipped \/ ParentMissing
    PROVE  RouteInv'
<1>1. /\ stage = "lookup" /\ stage' = "lookup" /\ todo # <<>> /\ todo' = Tail(todo)
      /\ UNCHANGED <<rt, rtc, queued, snap, due, edits, spec, added, unrendered>>
      /\ requeue => requeue'
  BY DEF ParentSkipped, ParentMissing, LooksUp, AfterMissing, childVars
<1>2. RouteTypes /\ ParentsInv /\ TheGw \in Gateways
  BY <1>1, PresentParent DEF RouteInv, CallInv, InCall
<1>3. ASSUME "deleting" \notin GatewayStates, "foreign" \notin ClassStates
      PROVE  RefKind[Parent] # "Gateway" \/ requeue'
  <2>1. gws[TheGw] # "deleting"
    BY <1>2, <1>3 DEF RouteTypes, RouteTypeOK
  <2>2. clsc[TheClass].st # "foreign"
    BY <1>2, <1>3, RouteAssumption DEF RouteTypes, ClassesKnown, TheClass
  <2>. QED
    BY <2>1, <2>2 DEF ParentSkipped, ParentMissing, IsGateway
<1>4. \A r : UpToDate(r) => UpToDate(r)'
  BY <1>1 DEF UpToDate, Exists, Fresh
<1>5. ParentsInv'
  <2>1. ~unrendered' => \A p \in added' : \A r \in ResourcesFor(GatewayOf[p]) : UpToDate(r)'
    BY <1>1, <1>2, <1>4 DEF ParentsInv
  <2>. QED
    BY <1>1, <1>2, <1>3, <2>1, NextParent
<1>6. CallInv' /\ InCall
  BY <1>1, <1>5 DEF CallInv, InCall, InLoop
<1>. QED
  BY <1>1, <1>6, InsideKeeps

\* A parent is noted as accepted when every template with resources was rendered and
\* applied in the last pass, unless one could not be rendered.
LEMMA DoneParentKeeps ==
    ASSUME RouteInv, RouteTypes', ParentDone
    PROVE  RouteInv'
<1>1. /\ stage = "status" /\ stage' = "lookup" /\ todo' = Tail(todo) /\ applyErr = {}
      /\ added' = added \cup {Parent}
      /\ unrendered' = (unrendered \/ renderErr # {})
      /\ UNCHANGED <<rt, rtc, queued, snap, due, edits, spec>>
  BY DEF ParentDone, PassFailed, childVars
<1>2. requeue => requeue'
  BY Zenon DEF ParentDone, Requeue
<1>3. RouteTypes /\ todo # <<>> /\ ParentsInv /\ LoopInv /\ LoopTypes
  BY <1>1 DEF RouteInv, CallInv, InCall, InLoop, RouteTypes
<1>4. \A r : UpToDate(r) => UpToDate(r)'
  BY <1>1 DEF UpToDate, Exists, Fresh
<1>5. ASSUME ~unrendered', NEW p \in added', NEW r \in ResourcesFor(GatewayOf[p])
      PROVE  UpToDate(r)'
  <2>1. ~unrendered /\ renderErr = {}
    BY <1>1, <1>5, Zenon
  <2>2. CASE p \in added
    BY <1>3, <1>4, <1>5, <2>1, <2>2 DEF ParentsInv
  <2>3. CASE p = Parent
    <3>1. PICK t \in 1..TheNum : r \in TheRes[t]
      BY <1>5, <2>3 DEF ResourcesFor, TheNum, TheRes, TheGw
    <3>2. t \in rendered \ applyErr
      BY <1>1, <1>3, <2>1, <3>1 DEF LoopInv, Turned
    <3>3. Applied(t)
      BY <1>1 DEF Applied
    <3>. QED
      BY <1>3, <1>4, <3>1, <3>2, <3>3 DEF LoopInv
  <2>. QED
    BY <1>1, <2>2, <2>3
<1>6. ParentsInv'
  BY <1>1, <1>2, <1>3, <1>5, NextParent
<1>7. CallInv' /\ InCall
  BY <1>1, <1>6 DEF CallInv, InCall, InLoop
<1>. QED
  BY <1>1, <1>7, InsideKeeps

\* The loop for a parent begins with the inputs as they are now.
LEMMA BeginParentKeeps ==
    ASSUME RouteInv, RouteTypes', ParentBegins
    PROVE  RouteInv'
<1>1. /\ stage = "lookup" /\ stage' = "render" /\ sinp' = edits /\ todo # <<>>
      /\ UNCHANGED <<rt, rtc, queued, snap, due, edits, spec, todo, added, requeue, unrendered>>
  BY DEF ParentBegins, LooksUp, childVars
<1>2. RouteTypes /\ ParentsInv /\ TheGw \in Gateways /\ due <= edits
  BY <1>1, PresentParent DEF RouteInv, CallInv, CopiesInv, InCall
<1>3. attempt' = 0 /\ idx' = 1 /\ rendered' = {}
  <2>1. PICK g \in Gateways : T(g)!ResetTemplates
    BY DEF ParentBegins
  <2>. QED
    BY <2>1, LoopStartTypes
<1>4. ParentsInv'
  BY <1>1, <1>2 DEF ParentsInv, UpToDate, Exists, Fresh
<1>5. LoopInv'
  <2>1. edits \in Nat /\ due \in Nat
    BY <1>2, ClassAssumption DEF RouteTypes, RouteTypeOK
  <2>2. sinp' >= due'
    BY <1>1, <1>2, <2>1
  <2>3. \A t \in 1..TheNum' : ~Turned(t)'
    BY <1>1, <1>3 DEF Turned
  <2>. QED
    BY <1>3, <2>2, <2>3 DEF LoopInv
<1>6. CallInv' /\ InCall
  BY <1>1, <1>4, <1>5 DEF CallInv, InCall, InLoop
<1>. QED
  BY <1>1, <1>6, InsideKeeps

\* What a render step does, for the present parent.
LEMMA RenderFacts ==
    ASSUME RouteTypes, RenderStep
    PROVE  /\ stage = "render"
           /\ idx' = (IF idx < TheNum THEN idx + 1 ELSE 1)
           /\ stage' = (IF idx < TheNum THEN "render" ELSE "apply")
           /\ UNCHANGED <<spec, seen, attempt, applyErr, avail>> /\ UNCHANGED loopFrame
           /\ \/ \E text \in Text :
                   /\ text.gen = snap.gen /\ (TheDeps[idx] = {} => text.age = snap.gen + sinp)
                   /\ rendered' = (IF TheRes[idx] = {} THEN rendered ELSE rendered \cup {idx})
                   /\ idx \notin rendered
                   /\ tspec' = [tspec EXCEPT ![idx] = text] /\ renderErr' = renderErr \ {idx}
              \/ idx \in rendered /\ UNCHANGED <<rendered, tspec, renderErr>>
              \/ renderErr' = renderErr \cup {idx} /\ UNCHANGED <<rendered, tspec>>
<1>0. stage = "render" /\ LoopTypes /\ RouteTypeOK /\ UNCHANGED loopFrame /\ todo # <<>>
  BY DEF RenderStep, RouteTypes, InLoop
<1>1. PICK g \in Gateways :
        /\ g = TheGw
        /\ \/ \E failed : T(g)!RenderSucceeds(snap.gen, snap.gen + sinp, failed)
           \/ \E failed : T(g)!RenderSkipped(failed)
           \/ \E broken : T(g)!RenderFails(broken)
  BY DEF RenderStep
<1>2. /\ stage = "render" /\ LoopTypes /\ RouteTypeOK /\ UNCHANGED loopFrame
      /\ snap.gen + sinp \in Nat /\ snap.gen \in Nat
  <2>1. snap.gen \in Nat /\ sinp \in Nat
    BY <1>0, RouteFields, ClassAssumption DEF RouteTypeOK
  <2>. QED
    BY <1>0, <2>1
<1>3. T(g)!NextToRender
  BY <1>1 DEF T!RenderSucceeds, T!RenderSkipped, T!RenderFails
<1>4. /\ idx' = (IF idx < NumTemplates(g) THEN idx + 1 ELSE 1)
      /\ stage' = (IF idx < NumTemplates(g) THEN "render" ELSE "apply")
      /\ UNCHANGED <<spec, seen, attempt, applyErr, avail>>
  BY <1>3 DEF T!NextToRender
<1>5. CASE \E failed : T(g)!RenderSucceeds(snap.gen, snap.gen + sinp, failed)
  <2>. DEFINE age  == T(g)!OldestInput(RouteDeps[g][idx], snap.gen + sinp)
              text == [gen |-> snap.gen, age |-> age]
  <2>1. idx \in 1..NumTemplates(g)
    BY <1>1, <1>2 DEF LoopTypes, TheNum
  <2>2. RouteDeps[g][idx] \subseteq 1..NumTemplates(g)
    BY <2>1, Blueprint
  <2>3. age \in Nat /\ (RouteDeps[g][idx] = {} => age = snap.gen + sinp)
    BY <1>2, <2>2, OldestInputAge
  <2>4. /\ rendered' = (IF RouteResources[g][idx] = {} THEN rendered ELSE rendered \cup {idx})
        /\ idx \notin rendered
        /\ tspec' = [tspec EXCEPT ![idx] = text] /\ renderErr' = renderErr \ {idx}
    BY <1>5, Zenon DEF T!RenderSucceeds
  <2>. HIDE DEF age
  <2>5. text \in Text /\ text.gen = snap.gen /\ text.age = age
    BY <1>2, <2>3 DEF Text
  <2>. HIDE DEF text
  <2>6. /\ text \in Text /\ text.gen = snap.gen /\ (TheDeps[idx] = {} => text.age = snap.gen + sinp)
        /\ rendered' = (IF TheRes[idx] = {} THEN rendered ELSE rendered \cup {idx})
        /\ idx \notin rendered
        /\ tspec' = [tspec EXCEPT ![idx] = text] /\ renderErr' = renderErr \ {idx}
    BY <1>1, <2>3, <2>4, <2>5 DEF TheRes, TheDeps
  <2>. QED
    BY <1>1, <1>2, <1>4, <2>6, Zenon DEF TheNum
<1>6. CASE \E failed : T(g)!RenderSkipped(failed)
  <2>1. idx \in rendered /\ UNCHANGED <<rendered, tspec, renderErr>>
    BY <1>6 DEF T!RenderSkipped
  <2>. QED
    BY <1>1, <1>2, <1>4, <2>1, Zenon DEF TheNum
<1>7. CASE \E broken : T(g)!RenderFails(broken)
  <2>1. renderErr' = renderErr \cup {idx} /\ UNCHANGED <<rendered, tspec>>
    BY <1>7 DEF T!RenderFails
  <2>. QED
    BY <1>1, <1>2, <1>4, <2>1, Zenon DEF TheNum
<1>. QED
  BY <1>1, <1>5, <1>6, <1>7

\* A template whose turn has come is rendered, or failed to render, or has no
\* resources; its text is of the generation and the inputs that the call has read.
LEMMA RenderKeeps ==
    ASSUME RouteInv, RouteTypes', RenderStep
    PROVE  RouteInv'
<1>1. RouteTypes /\ CopiesInv
  BY DEF RouteInv
<1>2. /\ stage = "render"
      /\ idx' = (IF idx < TheNum THEN idx + 1 ELSE 1)
      /\ stage' = (IF idx < TheNum THEN "render" ELSE "apply")
      /\ UNCHANGED <<spec, attempt, applyErr, rt, rtc, queued, snap, todo, added, requeue, sinp, due,
                     unrendered, edits>>
  BY <1>1, RenderFacts DEF loopFrame
<1>3. ParentsInv /\ LoopInv /\ LoopTypes /\ todo # <<>> /\ TheNum \in Nat \ {0} /\ InCall
  BY <1>1, <1>2, PresentParent DEF RouteInv, CallInv, InCall, InLoop, RouteTypes
<1>4. TheNum' = TheNum /\ TheRes' = TheRes /\ TheDeps' = TheDeps
  BY <1>2 DEF TheNum, TheRes, TheDeps, TheGw, Parent
<1>5. \A r : UpToDate(r) => UpToDate(r)'
  BY <1>2 DEF UpToDate, Exists, Fresh
<1>6. ParentsInv'
  BY <1>2, <1>3, <1>5 DEF ParentsInv
<1>7. idx \in 1..TheNum /\ rendered \subseteq 1..TheNum /\ tspec \in [1..TheNum -> Text]
      /\ sinp \in Nat /\ due \in Nat /\ snap.gen \in Nat
  <2>1. sinp \in Nat /\ due \in Nat /\ snap.gen \in Nat
    BY <1>1, ClassAssumption, RouteFields DEF RouteTypes, RouteTypeOK
  <2>. QED
    BY <1>3, <2>1 DEF LoopTypes
<1>8. Fresh' => Fresh
  BY <1>2 DEF Fresh
<1>9. \A t \in 1..TheNum : ~Applied(t)' /\ (Turned(t)' => t = idx \/ Turned(t))
  BY <1>2, <1>3, <1>7 DEF Applied, Turned
<1>10. \A t \in 1..TheNum : Turned(t)' => t \in rendered' \cup renderErr' \/ TheRes[t] = {}
  <2>1. /\ rendered \subseteq rendered' /\ renderErr \ {idx} \subseteq renderErr'
        /\ idx \in rendered' \cup renderErr' \/ TheRes[idx] = {}
    BY <1>1, RenderFacts
  <2>. QED
    BY <1>3, <1>9, <2>1 DEF LoopInv
<1>11. \A t \in rendered' :
          /\ tspec'[t].gen = snap.gen
          /\ Fresh /\ TheDeps[t] = {} => tspec'[t].age >= snap.gen + due
  <2>1. CASE \E text \in Text :
               /\ text.gen = snap.gen /\ (TheDeps[idx] = {} => text.age = snap.gen + sinp)
               /\ rendered' \subseteq rendered \cup {idx}
               /\ tspec' = [tspec EXCEPT ![idx] = text]
    <3>1. PICK text \in Text :
               /\ text.gen = snap.gen /\ (TheDeps[idx] = {} => text.age = snap.gen + sinp)
               /\ rendered' \subseteq rendered \cup {idx}
               /\ tspec' = [tspec EXCEPT ![idx] = text]
      BY <2>1
    <3>2. tspec'[idx] = text /\ \A t \in rendered : t # idx => tspec'[t] = tspec[t]
      BY <1>7, <3>1
    <3>3. Fresh => sinp >= due
      BY <1>3 DEF LoopInv
    <3>4. Fresh /\ TheDeps[idx] = {} => text.age >= snap.gen + due
      BY <1>7, <3>1, <3>3
    <3>. QED
      BY <1>3, <3>1, <3>2, <3>4 DEF LoopInv
  <2>2. CASE UNCHANGED <<rendered, tspec>>
    BY <1>3, <2>2 DEF LoopInv
  <2>. QED
    BY <1>1, <2>1, <2>2, RenderFacts
<1>12. LoopInv'
  <2>1. \A t \in 1..TheNum' : Turned(t)' => t \in rendered' \cup renderErr' \/ TheRes'[t] = {}
    BY <1>4, <1>10
  <2>2. \A t \in rendered' :
          /\ tspec'[t].gen = snap'.gen
          /\ Fresh' /\ TheDeps'[t] = {} => tspec'[t].age >= snap'.gen + due'
    BY <1>2, <1>4, <1>8, <1>11
  <2>3. rendered' \subseteq 1..TheNum
    BY <1>1, <1>7, RenderFacts
  <2>4. Fresh' => sinp' >= due'
    BY <1>2, <1>3, <1>8 DEF LoopInv
  <2>. QED
    BY <1>9, <2>1, <2>2, <2>3, <2>4 DEF LoopInv
<1>13. CallInv' /\ stage' # "idle"
  BY <1>2, <1>6, <1>12 DEF CallInv
<1>. QED
  BY <1>2, <1>3, <1>13, InsideKeeps

\* A template that is applied without an error leaves children that are up to date,
\* and no apply call makes another child older.
LEMMA ApplyKeeps ==
    ASSUME RouteInv, RouteTypes', ApplyStep
    PROVE  RouteInv'
<1>1. RouteTypes /\ CopiesInv
  BY DEF RouteInv
<1>2. PICK applied, failed \in SUBSET TheRes[idx] :
        /\ stage = "apply"
        /\ applied \subseteq (IF idx \in rendered THEN TheRes[idx] ELSE {})
        /\ (IF idx \in rendered THEN TheRes[idx] ELSE {}) \ failed \subseteq applied
        /\ spec' = [r \in Resources |-> IF r \in applied THEN tspec[idx] ELSE spec[r]]
        /\ applyErr' = IF failed = {} THEN applyErr \ {idx} ELSE applyErr \cup {idx}
        /\ \/ idx < TheNum /\ idx' = idx + 1 /\ UNCHANGED <<stage, attempt, avail>>
           \/ /\ ~(idx < TheNum) /\ idx' = 1 /\ attempt' = attempt + 1
              /\ stage' = (IF attempt + 1 < TheNum THEN "render" ELSE "status")
              /\ avail' \subseteq Resources
        /\ UNCHANGED <<rendered, tspec, renderErr>> /\ UNCHANGED loopFrame
  BY <1>1, ApplyFacts, Zenon
<1>3. ParentsInv /\ LoopInv /\ LoopTypes /\ todo # <<>> /\ IsGateway /\ TheNum \in Nat \ {0} /\ InCall
  BY <1>1, <1>2, PresentParent DEF RouteInv, CallInv, InCall, InLoop, RouteTypes
<1>4. /\ TheNum' = TheNum /\ TheRes' = TheRes /\ TheDeps' = TheDeps /\ (Fresh' => Fresh)
      /\ UNCHANGED <<rt, rtc, queued, snap, due, edits, todo, added, requeue, sinp, unrendered>>
  BY <1>2 DEF TheNum, TheRes, TheDeps, TheGw, Parent, Fresh, loopFrame
<1>5. /\ idx \in 1..TheNum /\ attempt \in Nat /\ rendered \subseteq 1..TheNum
      /\ stage' \in {"apply", "render", "status"}
  BY <1>2, <1>3 DEF LoopTypes
<1>6. ASSUME NEW r \in applied, r \in Resources
      PROVE  UpToDate(r)'
  <2>1. idx \in rendered /\ r \in TheRes[idx] /\ spec'[r] = tspec[idx]
    BY <1>2, <1>6
  <2>2. SelfContained(r, snap.refs) => TheDeps[idx] = {}
    <3>1. PICK i \in 1..Len(snap.refs) : snap.refs[i] = Parent
      <4>1. Parent = todo[1] /\ 1 \in 1..Len(todo)
        BY <1>1, <1>3, PresentParent DEF RouteTypes, RouteTypeOK
      <4>. QED
        BY <1>3, <4>1 DEF ParentsInv
    <3>. QED
      BY <1>3, <1>5, <2>1, <3>1 DEF SelfContained, TheDeps, TheRes, TheNum, TheGw, IsGateway
  <2>3. /\ tspec[idx].gen = snap.gen
        /\ Fresh /\ TheDeps[idx] = {} => tspec[idx].age >= snap.gen + due
    BY <1>3, <2>1 DEF LoopInv
  <2>. QED
    BY <1>4, <2>1, <2>2, <2>3 DEF UpToDate
<1>7. ASSUME NEW r \in Resources, UpToDate(r)
      PROVE  UpToDate(r)'
  <2>1. CASE r \in applied
    BY <1>6, <2>1
  <2>2. CASE r \notin applied
    <3>1. spec'[r] = spec[r]
      BY <1>2, <2>2
    <3>. QED
      BY <1>4, <1>7, <3>1, UpToDateKept
  <2>. QED
    BY <2>1, <2>2
<1>8. ParentsInv'
  <2>1. ASSUME ~unrendered', NEW p \in added', NEW r \in ResourcesFor(GatewayOf[p])
        PROVE  UpToDate(r)'
    <3>1. p \in Parents /\ UpToDate(r)
      BY <1>1, <1>3, <1>4, <2>1 DEF ParentsInv, RouteTypes, RouteTypeOK
    <3>2. r \in Resources
      BY <2>1, <3>1, Blueprint
    <3>. QED
      BY <1>7, <3>1, <3>2
  <2>. QED
    BY <1>3, <1>4, <2>1 DEF ParentsInv
<1>9. ASSUME NEW t \in rendered' \ applyErr', Applied(t)', NEW r \in TheRes[t]
      PROVE  UpToDate(r)'
  <2>1. t \in 1..TheNum /\ r \in Resources
    BY <1>1, <1>2, <1>3, <1>5, <1>9, PresentParent, Blueprint DEF TheRes, TheNum
  <2>2. CASE t = idx
    <3>1. idx \in rendered /\ failed = {}
      BY <1>2, <1>9, <2>2
    <3>. QED
      BY <1>2, <1>6, <1>9, <2>1, <2>2, <3>1
  <2>3. CASE t # idx
    <3>1. t \in rendered \ applyErr
      BY <1>2, <1>9, <2>3
    <3>2. t < idx
      BY <1>2, <1>3, <1>5, <1>9, <2>1, <2>3 DEF Applied
    <3>. QED
      BY <1>2, <1>3, <1>7, <1>9, <2>1, <3>1, <3>2 DEF LoopInv, Applied
  <2>. QED
    BY <2>2, <2>3
<1>10. LoopInv'
  <2>1. \A t \in rendered' :
          /\ tspec'[t].gen = snap'.gen
          /\ Fresh' /\ TheDeps'[t] = {} => tspec'[t].age >= snap'.gen + due'
    BY <1>2, <1>3, <1>4 DEF LoopInv
  <2>2. \A t \in 1..TheNum' : t \in rendered' \cup renderErr' \/ TheRes'[t] = {}
    BY <1>2, <1>3, <1>4 DEF LoopInv, Turned
  <2>3. Fresh' => sinp' >= due'
    BY <1>3, <1>4 DEF LoopInv
  <2>. QED
    BY <1>4, <1>9, <2>1, <2>2, <2>3 DEF LoopInv
<1>11. CallInv' /\ stage' # "idle"
  BY <1>5, <1>8, <1>10 DEF CallInv
<1>. QED
  BY <1>3, <1>4, <1>11, InsideKeeps

-------------------------------------------------------------------------------
(* The end of a call, and the theorems *)

\* A status update that the API server accepts finds the route, and its copy in the
\* cache, as the call has read it.
LEMMA StoredIsCurrent ==
    ASSUME RouteInv, InCall, rt = snap
    PROVE  rtc = snap
<1>1. Behind(rtc, rt) /\ Behind(snap, rtc) /\ snap.st = "live"
  BY DEF RouteInv, CopiesInv
<1>2. rtc \in Route /\ snap \in Route /\ rtc.st = "live"
  BY <1>1 DEF RouteInv, RouteTypes, RouteTypeOK, Behind
<1>. QED
  BY <1>1, <1>2, BehindEqual

\* After the last parent: unless a retry is left behind or something has happened in
\* the meantime, every parent has its entry and its children are up to date.
LEMMA DoneKeeps ==
    ASSUME RouteInv, RouteTypes', RouteDone
    PROVE  RouteInv'
<1>1. /\ stage = "lookup" /\ todo = <<>> /\ stage' = "idle" /\ InCall
      /\ UNCHANGED <<rtc, queued, due, edits, spec, unrendered>>
  BY DEF RouteDone, EndCall, childVars, InCall
<1>2. /\ RouteTypes /\ CopiesInv /\ ParentsInv
      /\ rt \in Route /\ rtc \in Route /\ snap \in Route /\ added \in SUBSET Parents
  BY <1>1 DEF RouteInv, CallInv, RouteTypes, RouteTypeOK
<1>3. /\ NewRoute \in Route
      /\ NewRoute.gen = rt.gen /\ NewRoute.st = rt.st /\ NewRoute.refs = rt.refs
      /\ NewRoute.entries = snap.entries \cup added
  BY <1>2 DEF NewRoute, Route
<1>4. rt' = rt \/ (rt = snap /\ rt' = NewRoute)
  BY DEF RouteDone, Stored
<1>5. ASSUME ~timer'
      PROVE  ~requeue /\ ((added = {} /\ rt' = rt) \/ (rt = snap /\ rt' = NewRoute))
  <2>1. CASE added = {} /\ rt' = rt /\ timer' = (timer \/ requeue)
    BY <1>5, <2>1, Zenon
  <2>2. CASE \E lost \in BOOLEAN : /\ (Stored /\ rt' = NewRoute) \/ ((lost \/ ~Stored) /\ rt' = rt)
                                   /\ timer' = (timer \/ requeue \/ lost \/ ~Stored)
    BY <1>5, <2>2, Zenon DEF Stored
  <2>. QED
    BY <2>1, <2>2, Zenon DEF RouteDone
<1>6. CopiesInv'
  <2>1. CASE rt' = rt
    BY <1>1, <1>2, <2>1 DEF CopiesInv, InCall
  <2>2. CASE rt = snap /\ rt' = NewRoute
    <3>1. rtc' = snap
      BY <1>1, <2>2, StoredIsCurrent
    <3>2. snap.gen \in Nat
      BY <1>2, RouteFields
    <3>3. Behind(rtc', rt')
      BY <1>3, <2>2, <3>1, <3>2 DEF Behind
    <3>. QED
      BY <1>1, <1>2, <3>3 DEF CopiesInv, InCall
  <2>. QED
    BY <1>4, <2>1, <2>2
<1>7. CallInv'
  BY <1>1 DEF CallInv, InCall, InLoop
<1>8. RouteNoLostWakeup'
  <2>. SUFFICES ASSUME stage' = "idle", ~queued', ~timer', ~unrendered', rt'.st = "live", rtc' = rt',
                       "deleting" \notin GatewayStates, "foreign" \notin ClassStates,
                       NEW i \in 1..Len(rt'.refs), RefKind[rt'.refs[i]] = "Gateway"
                PROVE  /\ rt'.refs[i] \in rt'.entries
                       /\ \A r \in ResourcesFor(GatewayOf[rt'.refs[i]]) : Exists(r)' =>
                            /\ spec'[r].gen = rt'.gen
                            /\ SelfContained(r, rt'.refs) => spec'[r].age >= rt'.gen + due'
    BY DEF RouteNoLostWakeup, Refs
  <2>1. rt' = rtc /\ rtc = snap
    BY <1>1, <1>2 DEF CopiesInv
  <2>2. rt = rtc
    BY <1>4, <1>1, <2>1, StoredIsCurrent
  <2>3. Fresh
    BY <1>1, <2>1, <2>2 DEF Fresh
  <2>4. ~requeue /\ snap.refs[i] \in added
    <3>1. ~requeue
      BY <1>5
    <3>2. ~\E j \in 1..Len(todo) : todo[j] = snap.refs[i]
      BY <1>1
    <3>. QED
      BY <1>2, <2>1, <3>1, <3>2 DEF ParentsInv
  <2>5. rt'.refs[i] \in rt'.entries
    BY <1>3, <1>5, <2>1, <2>4
  <2>6. \A r \in ResourcesFor(GatewayOf[snap.refs[i]]) : UpToDate(r)
    BY <1>1, <1>2, <2>4 DEF ParentsInv
  <2>. QED
    BY <1>1, <2>1, <2>3, <2>5, <2>6 DEF UpToDate, Exists
<1>. QED
  BY <1>6, <1>7, <1>8 DEF RouteInv

\* Every step of the route controller and of the world around it.
LEMMA RouteStepInv ==
    ASSUME RouteInv, RouteWorld \/ RouteStep, UNCHANGED <<cls, clsc>>
    PROVE  RouteInv'
<1>1. RouteTypes /\ CopiesInv /\ RouteTypes'
  BY RouteStepTypes DEF RouteInv
<1>2. CASE RouteWorld
  BY <1>1, <1>2, WorldOutside, OutsideKeeps
<1>3. CASE RouteCacheSync \/ RouteResync \/ RouteTimerFires
  BY <1>1, <1>3, WakeOutside, OutsideKeeps
<1>4. CASE RouteSkipped
  BY <1>1, <1>4, SkipKeeps
<1>5. CASE RouteUnread \/ ParentFails \/ ApplyFailed
  BY <1>1, <1>5, ErrorKeeps
<1>6. CASE RouteBegins
  BY <1>1, <1>6, BeginKeeps
<1>7. CASE ParentSkipped \/ ParentMissing
  BY <1>1, <1>7, SkipParentKeeps
<1>8. CASE ParentBegins
  BY <1>1, <1>8, BeginParentKeeps
<1>9. CASE RenderStep
  BY <1>1, <1>9, RenderKeeps
<1>10. CASE ApplyStep
  BY <1>1, <1>10, ApplyKeeps
<1>11. CASE ParentDone
  BY <1>1, <1>11, DoneParentKeeps
<1>12. CASE RouteDone
  BY <1>1, <1>12, DoneKeeps
<1>. QED
  BY <1>2, <1>3, <1>4, <1>5, <1>6, <1>7, <1>8, <1>9, <1>10, <1>11, <1>12 DEF RouteStep, RouteReconcile

\* Every step of classes and blueprints.
LEMMA ClassStepInv ==
    ASSUME RouteInv, UNCHANGED routeVars,
           \E c \in ClassNames : EditClass(c) \/ EditBlueprint(c) \/ ClassCacheSync(c)
    PROVE  RouteInv'
<1>1. RouteTypes' /\ edits <= edits' /\ RouteTypes /\ CopiesInv
  BY ClassTypes DEF RouteInv
<1>. QED
  BY <1>1, OthersOutside, OutsideKeeps

\* A restart of the process.
LEMMA RestartInv ==
    ASSUME RouteInv, RouteRestart, clsc' = cls, cls' = cls
    PROVE  RouteInv'
  BY RestartTypes, RestartKeeps DEF RouteInv

\* Every step of the specification.
LEMMA InvNext == RouteInv /\ [RouteNext]_allVars => RouteInv'
<1>. SUFFICES ASSUME RouteInv, [RouteNext]_allVars
              PROVE  RouteInv'
  OBVIOUS
<1>1. CASE (RouteWorld \/ RouteStep) /\ UNCHANGED <<cls, clsc, bps, classVars>>
  BY <1>1, RouteStepInv
<1>2. CASE /\ UNCHANGED routeVars
           /\ \E c \in ClassNames : EditClass(c) \/ EditBlueprint(c) \/ ClassCacheSync(c)
  BY <1>2, ClassStepInv
<1>3. CASE RouteRestart /\ clsc' = cls /\ UNCHANGED <<cls, bps, classVars>>
  BY <1>3, RestartInv
<1>4. CASE UNCHANGED allVars
  <2>1. RouteTypes' /\ RouteTypes /\ CopiesInv
    BY <1>4, TypesNext DEF RouteInv
  <2>2. UNCHANGED routeVars /\ edits <= edits'
    BY <1>4, <2>1, ClassAssumption DEF allVars, worldVars, RouteTypes
  <2>. QED
    BY <2>1, <2>2, OthersOutside, OutsideKeeps
<1>. QED
  BY <1>1, <1>2, <1>3, <1>4 DEF RouteNext

\* Whatever is edited, fails, conflicts or restarts during the calls for a route with
\* several parents, no wake-up is lost: at rest every Gateway parent is listed, and its
\* children are up to date as far as RouteNoLostWakeup says; it leaves out calls in
\* which a template did not render, Gateways in deletion and foreign classes.
THEOREM RouteWakeupsAreKept == RouteSpec => []RouteNoLostWakeup
<1>1. RouteSpec => []RouteInv
  BY InvInit, InvNext, PTL DEF RouteSpec
<1>2. RouteInv => RouteNoLostWakeup
  BY DEF RouteInv
<1>. QED
  BY <1>1, <1>2, PTL

\* An entry is added only by a status update that finds the route unchanged, after
\* every child of the parent was written from it.
LEMMA EntryStep ==
    ASSUME RouteInv, [RouteNext]_allVars, NEW p \in rt'.entries \ rt.entries, ~unrendered,
           NEW r \in ResourcesFor(GatewayOf[p]), Exists(r)
    PROVE  spec[r].gen = rt.gen
<1>0. /\ rt \in Route /\ snap \in Route /\ added \in SUBSET Parents
  BY DEF RouteInv, RouteTypes, RouteTypeOK
<1>1. rt' # rt
  OBVIOUS
<1>2. rt'.entries # rt.entries
  OBVIOUS
<1>3. ~EditRoute
  BY <1>2 DEF EditRoute
<1>4. ~DeleteRoute /\ ~FinishRouteDeletion
  <2>1. ASSUME NEW s \in {"deleting", "gone"}, rt' = [rt EXCEPT !.st = s]
        PROVE  FALSE
    <3>1. [rt EXCEPT !.st = s].entries = rt.entries
      BY <1>0, RouteMarked
    <3>. QED
      BY <1>2, <2>1, <3>1
  <2>. QED
    BY <2>1 DEF DeleteRoute, FinishRouteDeletion
<1>5. RouteDone
  BY <1>1, <1>3, <1>4
     DEF RouteNext, allVars, routeVars, RouteWorld, CollectChild, LoseChild, Remove, ChildReconcile,
         EditGateway, EditConfig, RouteStep, RouteCacheSync, RouteResync, RouteTimerFires,
         RouteReconcile, RouteSkipped, RouteUnread, RouteBegins, ParentSkipped, ParentMissing,
         ParentFails, ParentBegins, RenderStep, ApplyStep, ApplyFailed, Fails, loopFrame, ParentDone,
         RouteRestart
<1>6. rt = snap /\ rt' = NewRoute /\ InCall
  BY <1>1, <1>5 DEF RouteDone, Stored, InCall
<1>7. p \in added
  BY <1>0, <1>6, RouteListed DEF NewRoute
<1>8. UpToDate(r)
  BY <1>6, <1>7 DEF RouteInv, CallInv, ParentsInv
<1>. QED
  BY <1>6, <1>8 DEF UpToDate

\* An Accepted entry is backed by children of the route's present generation at the
\* moment it is written, although the first parent was served long before, from a copy.
THEOREM EntriesAreBacked == RouteSpec => EntryIsBacked
<1>1. RouteInv /\ [RouteNext]_allVars =>
        [\A p \in rt'.entries \ rt.entries : ~unrendered =>
           \A r \in ResourcesFor(GatewayOf[p]) : Exists(r) => spec[r].gen = rt.gen]_allVars
  BY EntryStep
<1>. QED
  BY <1>1, InvInit, InvNext, PTL DEF RouteSpec, EntryIsBacked


-------------------------------------------------------------------------------
(* The refinement *)

\* No child is of a later generation than the copy in the cache, nor than the one a
\* call in progress has read.
TextsNotAhead ==
    /\ 1 <= rtc.gen /\ (InCall => 1 <= snap.gen)
    /\ \A r \in Resources : spec[r].gen <= rtc.gen /\ (InCall => spec[r].gen <= snap.gen)

\* All steps but those that apply a child: children may disappear, the cache may catch
\* up, and a call goes on with the route it has read, ends, or begins with the copy in
\* the cache.
AppliesNothing ==
    /\ \A r \in Resources : spec'[r] \in {spec[r], NoSpec}
    /\ rtc' \in {rtc, rt}
    /\ \/ stage' = "idle"
       \/ InCall /\ snap' = snap
       \/ rtc' = rtc /\ snap' = rtc

\* Every step is one of these or an apply step.
LEMMA StepKinds ==
    ASSUME RouteTypeOK, [RouteNext]_allVars
    PROVE  ApplyStep \/ AppliesNothing
<1>1. ASSUME NEW r \in Resources, CollectChild(r) \/ LoseChild(r)
      PROVE  AppliesNothing
  <2>1. spec' = [spec EXCEPT ![r] = NoSpec] /\ UNCHANGED <<rtc, callVars>>
    BY <1>1 DEF CollectChild, LoseChild, Remove
  <2>2. \A q \in Resources : spec'[q] \in {spec[q], NoSpec}
    BY <2>1 DEF RouteTypeOK
  <2>. QED
    BY <2>1, <2>2 DEF AppliesNothing, InCall, callVars
<1>2. CASE \/ EditRoute \/ DeleteRoute \/ FinishRouteDeletion
           \/ (\E r \in Resources : ChildReconcile(r)) \/ (\E g \in Gateways : EditGateway(g) \/ EditConfig(g))
           \/ RouteResync \/ RouteTimerFires \/ RouteSkipped \/ RouteUnread \/ UNCHANGED routeVars
  <2>1. spec' = spec /\ rtc' = rtc /\ UNCHANGED callVars
    BY <1>2 DEF EditRoute, DeleteRoute, FinishRouteDeletion, ChildReconcile, EditGateway, EditConfig,
       RouteResync, RouteTimerFires, RouteSkipped, RouteUnread, routeVars, childVars
  <2>. QED
    BY <2>1 DEF AppliesNothing, InCall, callVars
<1>3. CASE RouteCacheSync
  BY <1>3 DEF RouteCacheSync, AppliesNothing, InCall, callVars, childVars
<1>4. CASE RouteBegins
  BY <1>4 DEF RouteBegins, AppliesNothing, childVars
<1>5. CASE ParentFails \/ ApplyFailed \/ RouteDone \/ RouteRestart
  BY <1>5 DEF ParentFails, ApplyFailed, Fails, RouteDone, RouteRestart, EndCall, AppliesNothing, childVars
<1>6. CASE ParentSkipped \/ ParentMissing \/ ParentBegins \/ ParentDone
  BY <1>6 DEF ParentSkipped, ParentMissing, ParentBegins, ParentDone, LooksUp, AppliesNothing, InCall,
     childVars
<1>7. CASE RenderStep
  <2>1. spec' = spec
    BY <1>7 DEF RenderStep, T!RenderSucceeds, T!RenderSkipped, T!RenderFails, T!NextToRender
  <2>2. UNCHANGED <<rtc, snap>> /\ stage = "render"
    BY <1>7 DEF RenderStep, loopFrame
  <2>. QED
    BY <2>1, <2>2 DEF AppliesNothing, InCall
<1>8. CASE RouteWorld
  BY <1>1, <1>2, <1>8 DEF RouteWorld
<1>9. CASE RouteStep
  BY <1>2, <1>3, <1>4, <1>5, <1>6, <1>7, <1>9 DEF RouteStep, RouteReconcile
<1>. QED
  BY <1>2, <1>5, <1>8, <1>9 DEF RouteNext, allVars

\* What an apply step writes are texts of the route the call has read.
LEMMA ApplyWrites ==
    ASSUME RouteInv, ApplyStep
    PROVE  /\ \E applied \in SUBSET Resources : \A r \in Resources :
                spec'[r].gen = IF r \in applied THEN snap.gen ELSE spec[r].gen
           /\ InCall /\ UNCHANGED <<rt, rtc, snap, unrendered>>
<1>1. RouteTypes
  BY DEF RouteInv
<1>2. PICK applied, failed \in SUBSET TheRes[idx] :
        /\ stage = "apply"
        /\ applied \subseteq (IF idx \in rendered THEN TheRes[idx] ELSE {})
        /\ spec' = [r \in Resources |-> IF r \in applied THEN tspec[idx] ELSE spec[r]]
        /\ UNCHANGED loopFrame
  BY <1>1, ApplyFacts, Zenon
<1>3. LoopInv
  BY <1>2 DEF RouteInv, CallInv, InLoop
<1>4. applied # {} => tspec[idx].gen = snap.gen
  BY <1>2, <1>3 DEF LoopInv
<1>5. \A r \in Resources : spec'[r].gen = IF r \in applied \cap Resources THEN snap.gen ELSE spec[r].gen
  BY <1>2, <1>4
<1>. QED
  BY <1>2, <1>5 DEF InCall, loopFrame

LEMMA AheadInit == allInit => TextsNotAhead
BY DEF allInit, RouteInit, TextsNotAhead, InCall, NoSpec

LEMMA AheadNext == RouteInv /\ TextsNotAhead /\ [RouteNext]_allVars => TextsNotAhead'
<1>. SUFFICES ASSUME RouteInv, TextsNotAhead, [RouteNext]_allVars
              PROVE  TextsNotAhead'
  OBVIOUS
<1>1. /\ rt.gen \in Nat /\ rtc.gen \in Nat /\ snap.gen \in Nat
      /\ \A r \in Resources : spec[r].gen \in Nat
  BY RouteFields DEF RouteInv, RouteTypes, RouteTypeOK, Text
<1>2. rtc.gen <= rt.gen /\ (InCall => snap.gen <= rtc.gen)
  BY DEF RouteInv, CopiesInv, Behind
<1>3. CASE ApplyStep
  <2>1. PICK applied \in SUBSET Resources : \A r \in Resources :
          spec'[r].gen = IF r \in applied THEN snap.gen ELSE spec[r].gen
    BY <1>3, ApplyWrites
  <2>2. InCall /\ rtc' = rtc /\ snap' = snap
    BY <1>3, ApplyWrites
  <2>4. ASSUME NEW r \in Resources
        PROVE  spec'[r].gen <= rtc.gen /\ spec'[r].gen <= snap.gen
    <3>1. spec'[r].gen \in {spec[r].gen, snap.gen}
      BY <2>1
    <3>2. spec[r].gen <= rtc.gen /\ spec[r].gen <= snap.gen
      BY <2>2 DEF TextsNotAhead
    <3>. QED
      BY <1>1, <1>2, <2>2, <3>1, <3>2
  <2>. QED
    BY <2>2, <2>4 DEF TextsNotAhead
<1>4. CASE AppliesNothing
  <2>1. \A r \in Resources : spec'[r].gen \in {spec[r].gen, 0}
    BY <1>4 DEF AppliesNothing, NoSpec
  <2>2. rtc'.gen >= rtc.gen /\ rtc'.gen \in Nat
    BY <1>1, <1>2, <1>4 DEF AppliesNothing
  <2>3. InCall' => (InCall /\ snap' = snap) \/ snap' = rtc
    BY <1>4 DEF AppliesNothing, InCall
  <2>4. 1 <= rtc'.gen /\ (InCall' => 1 <= snap'.gen)
    BY <1>1, <2>2, <2>3 DEF TextsNotAhead
  <2>5. ASSUME NEW r \in Resources
        PROVE  spec'[r].gen <= rtc'.gen /\ (InCall' => spec'[r].gen <= snap'.gen)
    <3>1. spec'[r].gen \in {spec[r].gen, 0}
      BY <2>1
    <3>2. spec[r].gen <= rtc.gen /\ (InCall => spec[r].gen <= snap.gen)
      BY DEF TextsNotAhead
    <3>. QED
      BY <1>1, <2>2, <2>3, <3>1, <3>2
  <2>. QED
    BY <2>4, <2>5 DEF TextsNotAhead
<1>. QED
  BY <1>3, <1>4, StepKinds DEF RouteInv, RouteTypes

\* Initial states map to initial states.
LEMMA OwnerInit == allInit => Owner!Init
<1>. SUFFICES ASSUME allInit
              PROVE  Owner!Init
  OBVIOUS
<1>1. rt.gen = 1 /\ rt.entries = {} /\ unrendered = FALSE
  BY DEF allInit, RouteInit
<1>2. \A r \in Resources : spec[r].gen = 0
  BY DEF allInit, RouteInit, NoSpec
<1>. QED
  BY <1>1, <1>2 DEF Owner!Init

texts == [r \in Resources |-> spec[r].gen]

\* A step that changes none of the four is a stuttering step.
LEMMA OwnerStutter ==
    ASSUME rt'.gen = rt.gen, rt'.entries = rt.entries, UNCHANGED <<spec, unrendered>>
    PROVE  UNCHANGED Owner!vars
BY DEF Owner!vars

\* Every step maps to a step of RouteOwner or to a stuttering step.
LEMMA OwnerNext == RouteInv /\ TextsNotAhead /\ [RouteNext]_allVars => [Owner!Next]_Owner!vars
<1>. SUFFICES ASSUME RouteInv, TextsNotAhead, [RouteNext]_allVars
              PROVE  Owner!Next \/ UNCHANGED Owner!vars
  BY DEF Owner!vars
<1>0. /\ rt \in Route /\ rtc \in Route /\ snap \in Route /\ added \in SUBSET Parents
      /\ rt.gen \in Nat /\ rtc.gen \in Nat /\ snap.gen \in Nat /\ rtc.gen <= rt.gen
      /\ InCall => snap.gen <= rtc.gen
      /\ RouteTypeOK
  BY RouteFields DEF RouteInv, RouteTypes, RouteTypeOK, CopiesInv, Behind
<1>1. CASE EditRoute
  <2>1. PICK refs \in RefLists :
          rt' = [st |-> "live", gen |-> rt.gen + 1, refs |-> refs, entries |-> rt.entries]
    BY <1>1 DEF EditRoute
  <2>2. rt'.gen = rt.gen + 1 /\ rt'.entries = rt.entries /\ UNCHANGED <<spec, unrendered>>
    BY <1>1, <2>1 DEF EditRoute, childVars
  <2>. QED
    BY <2>2 DEF Owner!Next, Owner!Edit
<1>2. CASE DeleteRoute \/ FinishRouteDeletion
  <2>1. PICK s \in {"deleting", "gone"} : rt' = [rt EXCEPT !.st = s]
    BY <1>2 DEF DeleteRoute, FinishRouteDeletion
  <2>2. rt'.gen = rt.gen /\ rt'.entries = rt.entries
    BY <1>0, <2>1, RouteMarked
  <2>3. UNCHANGED <<spec, unrendered>>
    BY <1>2 DEF DeleteRoute, FinishRouteDeletion, childVars
  <2>. QED
    BY <2>2, <2>3, OwnerStutter
<1>3. ASSUME NEW r \in Resources, CollectChild(r) \/ LoseChild(r)
      PROVE  Owner!Next
  <2>1. spec' = [spec EXCEPT ![r] = NoSpec] /\ UNCHANGED <<rt, unrendered>>
    BY <1>3 DEF CollectChild, LoseChild, Remove
  <2>2. \A q \in Resources : spec'[q].gen = IF q = r THEN 0 ELSE spec[q].gen
    BY <1>0, <2>1 DEF RouteTypeOK, NoSpec
  <2>3. texts' = [q \in Resources |-> IF q \in {r} THEN 0 ELSE texts[q]]
    BY <2>2 DEF texts
  <2>4. Owner!Drop({r})
    BY <2>1, <2>3 DEF Owner!Drop, texts
  <2>. QED
    BY <2>4 DEF Owner!Next
<1>4. CASE ApplyStep
  <2>1. PICK applied \in SUBSET Resources : \A r \in Resources :
          spec'[r].gen = IF r \in applied THEN snap.gen ELSE spec[r].gen
    BY <1>4, ApplyWrites
  <2>2. InCall /\ rt' = rt /\ unrendered' = unrendered
    BY <1>4, ApplyWrites
  <2>3. texts' = [r \in Resources |-> IF r \in applied THEN snap.gen ELSE texts[r]]
    BY <2>1 DEF texts
  <2>4. \A r \in applied : texts[r] <= snap.gen
    BY <2>2 DEF TextsNotAhead, texts
  <2>5. snap.gen \in 1..rt.gen
    BY <1>0, <2>2 DEF TextsNotAhead
  <2>6. Owner!Write(applied, snap.gen)
    BY <2>2, <2>3, <2>4 DEF Owner!Write, texts
  <2>7. \E R \in SUBSET Resources, g \in 1..rt.gen : Owner!Write(R, g)
    BY <2>5, <2>6 DEF Owner!Write
  <2>. QED
    BY <2>7 DEF Owner!Next
<1>5. CASE RouteBegins \/ ParentDone
  <2>1. UNCHANGED <<rt, spec>>
    BY <1>5 DEF RouteBegins, ParentDone, childVars
  <2>2. unrendered' \in BOOLEAN
    BY <1>5, InvNext DEF RouteInv, RouteTypes, RouteTypeOK
  <2>3. Owner!Report(unrendered')
    BY <2>1 DEF Owner!Report
  <2>. QED
    BY <2>2, <2>3 DEF Owner!Next
<1>6. CASE RouteDone
  <2>1. rt' = rt \/ (rt = snap /\ rt' = NewRoute)
    BY <1>6 DEF RouteDone, Stored
  <2>2. UNCHANGED <<spec, unrendered>> /\ InCall
    BY <1>6 DEF RouteDone, childVars, InCall
  <2>3. CASE rt = snap /\ rt' = NewRoute
    <3>1. rt'.gen = rt.gen /\ rt'.entries = rt.entries \cup added
      BY <1>0, <2>3, RouteListed DEF NewRoute
    <3>2. ASSUME ~unrendered, NEW p \in added, NEW r \in Resources, r \in ResourcesFor(GatewayOf[p])
          PROVE  spec[r].gen \in {0, rt.gen}
      <4>1. UpToDate(r)
        BY <2>2, <3>2 DEF RouteInv, CallInv, ParentsInv
      <4>. QED
        BY <2>3, <4>1 DEF UpToDate, Exists, NoSpec
    <3>3. Owner!List(added)
      BY <1>0, <2>2, <3>1, <3>2 DEF Owner!List
    <3>. QED
      BY <1>0, <3>3 DEF Owner!Next
  <2>. QED
    BY <2>1, <2>2, <2>3, OwnerStutter
<1>7. CASE RenderStep
  <2>1. spec' = spec
    BY <1>7 DEF RenderStep, T!RenderSucceeds, T!RenderSkipped, T!RenderFails, T!NextToRender
  <2>. QED
    BY <1>7, <2>1, OwnerStutter DEF RenderStep, loopFrame
<1>8. CASE \/ (\E r \in Resources : ChildReconcile(r)) \/ (\E g \in Gateways : EditGateway(g) \/ EditConfig(g))
           \/ RouteCacheSync \/ RouteResync \/ RouteTimerFires \/ RouteSkipped \/ RouteUnread
           \/ ParentSkipped \/ ParentMissing \/ ParentFails \/ ParentBegins \/ ApplyFailed
           \/ RouteRestart \/ UNCHANGED routeVars
  BY <1>8, OwnerStutter
     DEF ChildReconcile, EditGateway, EditConfig, RouteCacheSync, RouteResync, RouteTimerFires,
         RouteSkipped, RouteUnread, ParentSkipped, ParentMissing, ParentFails, ParentBegins,
         ApplyFailed, Fails, RouteRestart, routeVars, childVars
<1>9. CASE RouteWorld
  BY <1>1, <1>2, <1>3, <1>8, <1>9 DEF RouteWorld
<1>10. CASE RouteStep
  BY <1>4, <1>5, <1>6, <1>7, <1>8, <1>10 DEF RouteStep, RouteReconcile
<1>. QED
  BY <1>8, <1>9, <1>10 DEF RouteNext, allVars

\* Seen from outside, the HTTPRoute controller is a RouteOwner: whatever it reads from
\* the cache, whichever parents share children and wherever a call ends, no child goes
\* back to an older generation and no entry is added ahead of its children.
THEOREM RouteKeepsPromise == RouteSpec => RouteImplementsOwner
<1>1. allInit => RouteInv /\ TextsNotAhead /\ Owner!Init
  BY InvInit, AheadInit, OwnerInit
<1>2. RouteInv /\ TextsNotAhead /\ [RouteNext]_allVars => (RouteInv /\ TextsNotAhead)'
  BY InvNext, AheadNext
<1>3. RouteInv /\ TextsNotAhead /\ [RouteNext]_allVars => [Owner!Next]_Owner!vars
  BY OwnerNext
<1>. QED
  BY <1>1, <1>2, <1>3, PTL DEF RouteSpec, RouteImplementsOwner, Owner!Spec
===============================================================================
