----------------------- MODULE GatewayControllerProofs -----------------------
(***************************************************************************)
(* Machine-checked proofs about GatewayController, for every blueprint and *)
(* every bound.                                                            *)
(***************************************************************************)
EXTENDS GatewayController, Minimum, TLAPS

(* The inductive invariant behind the safety properties *)

AttemptsBounded == stage \in {"render", "apply"} => attempt < N

\* The cache is behind the API server, the snapshot of a call behind the cache,
\* and no status was ever written for a generation newer than those.
GenerationsOrdered ==
    /\ gwc.gen <= gw.gen
    /\ gw.prog.gen <= gwc.gen
    /\ stage # "idle" => snap.gen <= gwc.gen /\ gw.prog.gen <= snap.gen

RenderedFromSnapshot == stage # "idle" => \A t \in rendered : tspec[t].gen = snap.gen

\* What the apply pass of this attempt has left behind so far.
AppliedSoFar ==
    \A t \in rendered \ applyErr :
        stage = "status" \/ (stage = "apply" /\ t < idx)
            => \A r \in ResourcesOf[t] : Exists(r) => spec[r].gen = snap.gen

\* A template whose turn has come was rendered or has an error.
Visited(t) == stage = "status" \/ stage = "apply" \/ attempt > 0 \/ t < idx
TurnsRecorded ==
    stage # "idle" => \A t \in Templates :
        Visited(t) => t \in rendered \cup renderErr \/ ResourcesOf[t] = {}

\* A change that arrives during a call marks the key dirty.
DirtyIfChanged == stage # "idle" /\ ~queued => gwc = snap

\* Generations count from 1, and a text is never rendered from an absent output.
TextsAreFresh ==
    /\ gw.gen > 0 /\ gwc.gen > 0
    /\ stage # "idle" => snap.gen > 0 /\ \A t \in rendered : tspec[t].age > 0
    /\ \A r \in Resources : Exists(r) => spec[r].age > 0

\* While a call is steady, everything it reads is there.
SteadyReads ==
    steady => \A r \in Resources :
        Exists(r) /\ OutputNow(r) # 0 /\ (Fetched(r) => Output(r, cur[r]) # 0)

\* The position of a template in the longest chain of references.
Rank == CHOOSE rank \in [Templates -> 0..(N - 1)] : IsRank(rank)

\* Each attempt completes the templates of one more rank, so that the next one
\* can read them.
TurnTaken(t) ==
    Rank[t] < attempt \/ (Rank[t] = attempt /\ (stage = "apply" \/ (stage = "render" /\ t < idx)))
RankByRank ==
    stage # "idle" /\ steady /\ Acyclic /\ NoEmptyTemplate => \A t \in Templates :
        /\ TurnTaken(t) => t \in rendered /\ \A r \in ResourcesOf[t] : Fetched(r)
        /\ Rank[t] < attempt => ResourcesOf[t] \subseteq avail

\* No child was rendered from a generation that the cache has not reached, or that
\* the call in progress did not read.
TextsNotAhead ==
    \A r \in Resources :
        spec[r].gen <= gwc.gen /\ (stage # "idle" => spec[r].gen <= snap.gen)

LoopBookkeeping ==
    /\ stage = "status" => attempt = N
    /\ rendered \cap renderErr = {}
    /\ stage = "idle" => ~steady

Inductive ==
    /\ TypeOK
    /\ AttemptsBounded
    /\ GenerationsOrdered
    /\ RenderedFromSnapshot
    /\ AppliedSoFar
    /\ ProgrammedSound
    /\ TurnsRecorded
    /\ DirtyIfChanged
    /\ NoLostWakeup
    /\ TextsAreFresh
    /\ SteadyReads
    /\ RankByRank
    /\ LoopBookkeeping
    /\ TextsNotAhead

-------------------------------------------------------------------------------
(* Oldest is a minimum *)

\* A non-empty set of naturals has an oldest element: OldestInput is well
\* defined whatever a template reads.
LEMMA OldestIsMin ==
    ASSUME NEW S, S \subseteq Nat, S # {}
    PROVE  Oldest(S) \in S /\ \A y \in S : Oldest(S) <= y
BY MinimumExists DEF Oldest

-------------------------------------------------------------------------------
(* Type correctness *)

TypeInv == TypeOK /\ AttemptsBounded

USE TemplatingAssumption, GatewayAssumption

\* The freshness of a rendered text is a natural number, and at least 1 when
\* every reference resolves (missingkey=error).
LEMMA OldestInputType ==
    ASSUME TypeOK, NEW ts \in SUBSET Templates, NEW fresh \in Nat
    PROVE  OldestInput(ts, fresh) \in Nat
<1>. DEFINE S == {fresh} \cup {Output(r, cur[r]) : r \in Inputs(ts)}
<1>1. Inputs(ts) \subseteq Resources
  BY DEF Inputs
<1>2. S \subseteq Nat
  BY <1>1 DEF TypeOK, TemplatingTypeOK, Output, Child, Text
<1>3. S # {}
  OBVIOUS
<1>4. Oldest(S) \in S
  BY <1>2, <1>3, OldestIsMin
<1>. QED
  BY <1>2, <1>4 DEF OldestInput

\* The type invariant holds at the start.
LEMMA TypeInit == Init => TypeInv
<1>. SUFFICES ASSUME Init
              PROVE  TypeInv
  OBVIOUS
<1>1. gw \in Gateway /\ gwc \in Gateway /\ snap \in Gateway
  BY DEF Init, NoGateway, Unset, Gateway, Condition
<1>2. spec \in [Resources -> Text] /\ seen \in [Resources -> Text]
  BY DEF Init, First, Text, NoSpec
<1>3. tspec \in [Templates -> Text] /\ cur \in [Resources -> Child]
  BY DEF Init, Text, NoSpec, Nil, Child
<1>4. AttemptsBounded /\ attempt \in 0..N /\ idx \in Templates
  BY DEF Init, AttemptsBounded, Templates
<1>5. inp \in 0..MaxInp /\ sinp \in 0..MaxInp /\ faults \in 0..MaxFaults
  BY DEF Init
<1>. QED
  BY <1>1, <1>2, <1>3, <1>4, <1>5 DEF Init, TypeInv, TypeOK, TemplatingTypeOK

\* The locals of a call are well typed when it begins and when it ends.
LEMMA ResetType ==
    ASSUME ResetTemplates
    PROVE  /\ attempt' \in 0..N /\ attempt' < N
           /\ idx' \in Templates
           /\ rendered' \subseteq Templates /\ renderErr' \subseteq Templates
           /\ applyErr' \subseteq Templates /\ avail' \subseteq Resources
           /\ tspec' \in [Templates -> Text]
           /\ cur' \in [Resources -> Child]
BY DEF ResetTemplates, Templates, Text, NoSpec, Nil, Child

\* Forgetting the locals of Reconcile keeps the types.
LEMMA EndType ==
    ASSUME TypeOK, EndReconcile
    PROVE  /\ snap' \in Gateway /\ sinp' \in 0..MaxInp /\ sbp' \in Blueprints
           /\ stage' = "idle" /\ steady' \in BOOLEAN
<1>1. NoGateway \in Gateway
  BY DEF NoGateway, Unset, Gateway, Condition
<1>2. 0 \in 0..MaxInp
  OBVIOUS
<1>. QED
  BY <1>1, <1>2 DEF EndReconcile, TypeOK

\* Counting failures respects the bound ...
LEMMA FaultsType ==
    ASSUME TypeOK, NEW n \in Nat, Faults(n)
    PROVE  faults' \in 0..MaxFaults
BY DEF Faults, TypeOK

\* ... also when at most one happens.
LEMMA FaultIfType ==
    ASSUME TypeOK, NEW b \in BOOLEAN, FaultIf(b)
    PROVE  faults' \in 0..MaxFaults
BY FaultsType DEF FaultIf

\* What renderTemplates fetches are copies of children.
LEMMA FetchType ==
    ASSUME TypeOK, NEW rs, NEW failed, Fetch(rs, failed)
    PROVE  cur' \in [Resources -> Child]
BY DEF TypeOK, TemplatingTypeOK, Fetch, Child

\* A status update leaves a Gateway behind.
LEMMA UpdateStatusType ==
    ASSUME TypeOK, NEW read, NEW new \in Gateway, NEW lost, UpdateStatus(read, new, lost)
    PROVE  gw' \in Gateway
BY DEF TypeOK, UpdateStatus

\* Every step keeps the types, and the loop counter below N.
LEMMA TypeNext == TypeInv /\ [Next]_vars => TypeInv'
<1>. SUFFICES ASSUME TypeInv, [Next]_vars
              PROVE  TypeInv'
  OBVIOUS
<1>. USE DEF TypeInv
<1>1. CASE EditGateway
  BY <1>1 DEF EditGateway, TypeOK, TemplatingTypeOK, AttemptsBounded, callVars, childVars, loopVars, Gateway
<1>2. CASE DeleteGateway
  BY <1>2 DEF DeleteGateway, TypeOK, TemplatingTypeOK, AttemptsBounded, callVars, childVars, loopVars, Gateway
<1>3. CASE FinishDeletion
  BY <1>3 DEF FinishDeletion, TypeOK, TemplatingTypeOK, AttemptsBounded, callVars, childVars, loopVars, Gateway
<1>4. CASE EditConfig
  BY <1>4 DEF EditConfig, TypeOK, TemplatingTypeOK, AttemptsBounded, callVars, childVars, loopVars
<1>5. CASE EditUnwatched
  BY <1>5 DEF EditUnwatched, TypeOK, TemplatingTypeOK, AttemptsBounded, callVars, childVars, loopVars
<1>6. ASSUME NEW r \in Resources, CollectChild(r)
      PROVE  TypeInv'
  BY <1>6 DEF CollectChild, Remove, TypeOK, TemplatingTypeOK, AttemptsBounded, worldVars, callVars, loopVars, Text, NoSpec
<1>7. ASSUME NEW r \in Resources, LoseChild(r)
      PROVE  TypeInv'
  BY <1>7, FaultsType DEF LoseChild, Remove, TypeOK, TemplatingTypeOK, AttemptsBounded, worldVars, callVars, loopVars, Text, NoSpec
<1>8. ASSUME NEW r \in Resources, ChildReconcile(r)
      PROVE  TypeInv'
  BY <1>8 DEF ChildReconcile, TypeOK, TemplatingTypeOK, AttemptsBounded, worldVars, callVars, loopVars
<1>9. CASE CacheSync
  BY <1>9 DEF CacheSync, TypeOK, TemplatingTypeOK, AttemptsBounded, callVars, childVars, loopVars
<1>10. CASE Resync
  BY <1>10 DEF Resync, TypeOK, TemplatingTypeOK, AttemptsBounded, worldVars, callVars, childVars, loopVars
<1>11. CASE TimerFires
  BY <1>11 DEF TimerFires, TypeOK, TemplatingTypeOK, AttemptsBounded, worldVars, callVars, childVars, loopVars
<1>12. CASE ReconcileSkips
  BY <1>12 DEF ReconcileSkips, Dequeue, TypeOK, TemplatingTypeOK, AttemptsBounded, worldVars, callVars, childVars, loopVars
<1>13. CASE ReconcileRetries
  BY <1>13, FaultIfType DEF ReconcileRetries, Dequeue, TypeOK, TemplatingTypeOK, AttemptsBounded, worldVars, callVars, childVars, loopVars
<1>14. CASE ReconcileInvalid
  <2>1. FailureStatus(gwc) \in Gateway
    BY DEF TypeOK, FailureStatus, Gateway, Condition
  <2>2. gw' \in Gateway
    BY <1>14, <2>1, UpdateStatusType DEF ReconcileInvalid
  <2>. QED
    BY <1>14, <2>2, FaultIfType DEF ReconcileInvalid, Dequeue, TypeOK, TemplatingTypeOK, AttemptsBounded, callVars, childVars, loopVars
<1>15. CASE ReconcileBegins
  BY <1>15, ResetType DEF ReconcileBegins, Dequeue, TypeOK, TemplatingTypeOK, AttemptsBounded, worldVars, childVars
<1>16. CASE RenderStep
  <2>1. cur' \in [Resources -> Child]
    BY <1>16, FetchType DEF RenderStep, RenderSucceeds, RenderSkipped, RenderFails, TypeOK, TemplatingTypeOK
  <2>2. tspec' \in [Templates -> Text]
    <3>1. Fresh \in Nat /\ snap.gen \in Nat
      BY DEF Fresh, TypeOK, Gateway
    <3>2. OldestInput(Deps[idx], Fresh) \in Nat
      BY <3>1, OldestInputType DEF TypeOK, TemplatingTypeOK
    <3>. QED
      BY <1>16, <3>1, <3>2 DEF RenderStep, RenderSucceeds, RenderSkipped, RenderFails, TypeOK, TemplatingTypeOK, Text
  <2>3. /\ stage' \in {"render", "apply"} /\ attempt' = attempt /\ idx' \in Templates
        /\ stage = "render"
        /\ UNCHANGED <<spec, seen, applyErr, avail>>
    BY <1>16 DEF RenderStep, RenderSucceeds, RenderSkipped, RenderFails, NextToRender, Templates, TypeOK, TemplatingTypeOK
  <2>4. rendered' \subseteq Templates /\ renderErr' \subseteq Templates
    BY <1>16 DEF RenderStep, RenderSucceeds, RenderSkipped, RenderFails, TypeOK, TemplatingTypeOK
  <2>5. faults' \in 0..MaxFaults /\ steady' \in BOOLEAN
    BY <1>16, FaultIfType DEF RenderStep, TypeOK
  <2>. QED
    BY <1>16, <2>1, <2>2, <2>3, <2>4, <2>5 DEF RenderStep, TypeOK, TemplatingTypeOK, AttemptsBounded, worldVars, callVars
<1>17. CASE ApplyStep
  <2>1. PICK applied \in SUBSET ResourcesOf[idx], failed \in SUBSET ResourcesOf[idx] :
            ApplyTemplate(applied, failed) /\ FaultIf(failed # {})
    BY <1>17 DEF ApplyStep
  <2>2. spec' \in [Resources -> Text] /\ applyErr' \subseteq Templates /\ avail' \subseteq Resources
    BY <2>1 DEF ApplyTemplate, TypeOK, TemplatingTypeOK
  <2>3. stage' \in {"render", "apply", "status"} /\ attempt' \in 0..N /\ idx' \in Templates /\ AttemptsBounded'
    BY <2>1 DEF ApplyTemplate, MoreAttempts, TypeOK, TemplatingTypeOK, AttemptsBounded, Templates
  <2>4. faults' \in 0..MaxFaults
    BY <2>1 DEF FaultIf, Faults, TypeOK
  <2>5. UNCHANGED <<seen, rendered, tspec, renderErr, cur>>
    BY <2>1 DEF ApplyTemplate
  <2>. QED
    BY <1>17, <2>2, <2>3, <2>4, <2>5 DEF ApplyStep, TypeOK, TemplatingTypeOK, worldVars, callVars
<1>18. CASE StatusStep
  <2>1. PICK lost \in BOOLEAN, kErr \in BOOLEAN :
            /\ Faults((IF lost THEN 1 ELSE 0) + (IF kErr THEN 1 ELSE 0))
            /\ UpdateStatus(snap, NewStatus(kErr), lost)
            /\ timer' = (timer \/ Rejected(snap, NewStatus(kErr), lost) \/ MustRetry(kErr))
    BY <1>18 DEF StatusStep
  <2>2. Addresses \in Nat
    <3>1. Fresh \in Nat
      BY DEF Fresh, TypeOK, Gateway
    <3>. QED
      BY <3>1, OldestInputType DEF Addresses, TypeOK, Gateway
  <2>3. NewStatus(kErr) \in Gateway
    BY <2>2 DEF NewStatus, Programmed, Ready, TypeOK, Gateway, Condition
  <2>4. gw' \in Gateway /\ faults' \in 0..MaxFaults /\ timer' \in BOOLEAN
    BY <2>1, <2>3, UpdateStatusType DEF Faults, TypeOK
  <2>. QED
    BY <1>18, <2>4, ResetType, EndType DEF StatusStep, EndReconcile, TypeOK, TemplatingTypeOK,
       AttemptsBounded, childVars
<1>19. CASE StatusPanics
  BY <1>19, ResetType, EndType DEF StatusPanics, EndReconcile, TypeOK, TemplatingTypeOK,
     AttemptsBounded, worldVars, childVars
<1>20. CASE Crash
  <2>1. faults' \in 0..MaxFaults
    BY <1>20, FaultsType DEF Crash
  <2>. QED
    BY <1>20, <2>1, ResetType, EndType DEF Crash, EndReconcile, TypeOK, TemplatingTypeOK,
       AttemptsBounded, childVars
<1>21. CASE UNCHANGED vars
  BY <1>21 DEF vars, TypeOK, TemplatingTypeOK, AttemptsBounded, worldVars, callVars, childVars, loopVars
<1>. QED
  BY <1>1, <1>2, <1>3, <1>4, <1>5, <1>6, <1>7, <1>8, <1>9, <1>10, <1>11, <1>12, <1>13, <1>14,
     <1>15, <1>16, <1>17, <1>18, <1>19, <1>20, <1>21 DEF Next, Environment, Reconcile

\* Every variable keeps its type; the attempt counter of the render/apply loop
\* never exceeds the number of templates.
THEOREM TypeCorrect == Spec => []TypeOK
<1>1. TypeInv => TypeOK
  BY DEF TypeInv
<1>. QED
  BY <1>1, TypeInit, TypeNext, PTL DEF Spec

-------------------------------------------------------------------------------
(* Programmed, Ready and the wake-ups *)

Core == /\ GenerationsOrdered
        /\ RenderedFromSnapshot
        /\ AppliedSoFar
        /\ ProgrammedSound
        /\ TurnsRecorded
        /\ DirtyIfChanged
        /\ NoLostWakeup

\* The invariant behind ProgrammedSound and NoLostWakeup holds at the start ...
LEMMA CoreInit == Init => Core
<1>. SUFFICES ASSUME Init
              PROVE  Core
  OBVIOUS
<1>1. gw.gen = 1 /\ gwc = gw /\ gw.prog = [st |-> FALSE, gen |-> 0] /\ gw.st = "live"
  BY DEF Init, NoGateway, Unset
<1>. QED
  BY <1>1 DEF Init, Core, GenerationsOrdered, RenderedFromSnapshot, AppliedSoFar, ProgrammedSound,
     TurnsRecorded, DirtyIfChanged, NoLostWakeup

\* Children only disappear, or nothing of the call and of the Gateway changes.
LEMMA CoreRemove ==
    ASSUME TypeInv, Core, NEW r \in Resources, Remove(r)
    PROVE  Core'
<1>1. \A q \in Resources : Exists(q)' => Exists(q) /\ spec'[q] = spec[q]
  BY DEF Remove, Exists, TypeInv, TypeOK, TemplatingTypeOK
<1>2. Inputs(Templates) \subseteq Resources /\ \A t \in Templates : ResourcesOf[t] \subseteq Resources
  BY DEF Inputs
<1>3. AppliedSoFar' /\ ProgrammedSound'
  BY <1>1, <1>2 DEF Core, AppliedSoFar, ProgrammedSound, Remove, worldVars, callVars, loopVars,
     TypeInv, TypeOK, TemplatingTypeOK
<1>. QED
  BY <1>3 DEF Core, GenerationsOrdered, RenderedFromSnapshot, TurnsRecorded, Visited, DirtyIfChanged,
     NoLostWakeup, Remove, worldVars, callVars, loopVars

\* A step that touches neither the children nor the locals, and leaves the
\* conditions of the Gateway alone, keeps what is said about the loop.
LEMMA CoreFrame ==
    ASSUME Core, UNCHANGED <<spec, callVars, loopVars>>, gw'.prog = gw.prog
    PROVE  RenderedFromSnapshot' /\ AppliedSoFar' /\ ProgrammedSound' /\ TurnsRecorded'
BY DEF Core, RenderedFromSnapshot, AppliedSoFar, ProgrammedSound, TurnsRecorded, Visited, Exists, callVars, loopVars

\* ... and every step keeps it.
LEMMA CoreNext == TypeInv /\ TypeInv' /\ Core /\ [Next]_vars => Core'
<1>. SUFFICES ASSUME TypeInv, TypeInv', Core, [Next]_vars
              PROVE  Core'
  OBVIOUS
<1>. USE DEF Core
<1>0. gw.gen \in Nat /\ gwc.gen \in Nat /\ snap.gen \in Nat /\ gw.prog.gen \in Nat
  BY DEF TypeInv, TypeOK, Gateway, Condition
<1>1. CASE EditGateway
  <2>1. gw'.prog = gw.prog /\ gw'.gen = gw.gen + 1 /\ gwc # gw'
    BY <1>0, <1>1 DEF EditGateway, GenerationsOrdered, TypeInv, TypeOK, Gateway
  <2>. QED
    BY <1>0, <1>1, <2>1, CoreFrame DEF EditGateway, GenerationsOrdered, DirtyIfChanged, NoLostWakeup, childVars, callVars, loopVars
<1>2. CASE DeleteGateway
  <2>1. gw'.prog = gw.prog /\ gw'.gen = gw.gen /\ gw'.st # "live"
    BY <1>2 DEF DeleteGateway, TypeInv, TypeOK, Gateway
  <2>. QED
    BY <1>2, <2>1, CoreFrame DEF DeleteGateway, GenerationsOrdered, DirtyIfChanged, NoLostWakeup, childVars, callVars, loopVars
<1>3. CASE FinishDeletion
  <2>1. gw'.prog = gw.prog /\ gw'.gen = gw.gen /\ gw'.st # "live"
    BY <1>3 DEF FinishDeletion, TypeInv, TypeOK, Gateway
  <2>. QED
    BY <1>3, <2>1, CoreFrame DEF FinishDeletion, GenerationsOrdered, DirtyIfChanged, NoLostWakeup, childVars, callVars, loopVars
<1>4. CASE EditConfig
  BY <1>4, CoreFrame DEF EditConfig, GenerationsOrdered, DirtyIfChanged, NoLostWakeup, childVars, callVars, loopVars
<1>5. CASE EditUnwatched
  BY <1>5, CoreFrame DEF EditUnwatched, GenerationsOrdered, DirtyIfChanged, NoLostWakeup, childVars, callVars, loopVars
<1>6. ASSUME NEW r \in Resources, CollectChild(r) \/ LoseChild(r)
      PROVE  Core'
  BY <1>6, CoreRemove DEF CollectChild, LoseChild
<1>8. ASSUME NEW r \in Resources, ChildReconcile(r)
      PROVE  Core'
  BY <1>8, CoreFrame DEF ChildReconcile, GenerationsOrdered, DirtyIfChanged, NoLostWakeup, worldVars, callVars, loopVars
<1>9. CASE CacheSync
  BY <1>0, <1>9, CoreFrame DEF CacheSync, GenerationsOrdered, DirtyIfChanged, NoLostWakeup, childVars, callVars, loopVars
<1>10. CASE Resync
  BY <1>10, CoreFrame DEF Resync, GenerationsOrdered, DirtyIfChanged, NoLostWakeup, worldVars, childVars, callVars, loopVars
<1>11. CASE TimerFires
  BY <1>11, CoreFrame DEF TimerFires, GenerationsOrdered, DirtyIfChanged, NoLostWakeup, worldVars, childVars, callVars, loopVars
<1>12. CASE ReconcileSkips
  BY <1>12, CoreFrame DEF ReconcileSkips, NothingToDo, Dequeue, GenerationsOrdered, DirtyIfChanged, NoLostWakeup,
     worldVars, childVars, callVars, loopVars, TypeInv, TypeOK
<1>13. CASE ReconcileRetries
  BY <1>13, CoreFrame DEF ReconcileRetries, Dequeue, GenerationsOrdered, DirtyIfChanged, NoLostWakeup,
     worldVars, childVars, callVars, loopVars
<1>14. CASE ReconcileInvalid
  <2>1. \/ gw' = gw
        \/ gw = gwc /\ gw'.gen = gwc.gen /\ gw'.prog = [st |-> FALSE, gen |-> gwc.gen]
    BY <1>14 DEF ReconcileInvalid, UpdateStatus, FailureStatus, TypeInv, TypeOK, Gateway
  <2>2. /\ stage = "idle" /\ timer' /\ gwc' = gwc
        /\ UNCHANGED <<spec, callVars, loopVars>>
    BY <1>14 DEF ReconcileInvalid, Dequeue, childVars
  <2>3. CASE gw' = gw
    BY <2>2, <2>3, CoreFrame DEF GenerationsOrdered, DirtyIfChanged, NoLostWakeup, loopVars
  <2>4. CASE gw = gwc /\ gw'.gen = gwc.gen /\ gw'.prog = [st |-> FALSE, gen |-> gwc.gen]
    BY <1>0, <2>2, <2>4 DEF GenerationsOrdered, RenderedFromSnapshot, AppliedSoFar, ProgrammedSound,
       TurnsRecorded, DirtyIfChanged, NoLostWakeup, loopVars
  <2>. QED
    BY <2>1, <2>3, <2>4
<1>15. CASE ReconcileBegins
  <2>1. /\ snap' = gwc /\ gw' = gw /\ gwc' = gwc /\ spec' = spec
        /\ stage' = "render" /\ attempt' = 0 /\ idx' = 1 /\ rendered' = {}
    BY <1>15 DEF ReconcileBegins, ResetTemplates, worldVars, childVars
  <2>. QED
    BY <1>0, <2>1 DEF GenerationsOrdered, RenderedFromSnapshot, AppliedSoFar, ProgrammedSound, TurnsRecorded,
       Visited, DirtyIfChanged, NoLostWakeup, Exists, Templates
<1>16. CASE RenderStep
  <2>1. /\ gw' = gw /\ gwc' = gwc /\ snap' = snap /\ queued' = queued
        /\ stage = "render" /\ spec' = spec /\ attempt' = attempt /\ applyErr' = applyErr
        /\ idx' = (IF idx < N THEN idx + 1 ELSE 1)
        /\ stage' = (IF idx < N THEN "render" ELSE "apply")
    BY <1>16 DEF RenderStep, RenderSucceeds, RenderSkipped, RenderFails, NextToRender, worldVars, callVars
  <2>2. /\ rendered \subseteq rendered' /\ rendered' \subseteq rendered \cup {idx}
        /\ \A t \in rendered' : tspec'[t].gen = snap.gen
    BY <1>16, <2>1 DEF RenderStep, RenderSucceeds, RenderSkipped, RenderFails, RenderedFromSnapshot,
       TypeInv, TypeOK, TemplatingTypeOK
  <2>3. \A t \in Templates \ {idx} : (t \in rendered \cup renderErr => t \in rendered' \cup renderErr')
    BY <1>16 DEF RenderStep, RenderSucceeds, RenderSkipped, RenderFails
  <2>4. idx \in rendered' \cup renderErr' \/ ResourcesOf[idx] = {}
    BY <1>16 DEF RenderStep, RenderSucceeds, RenderSkipped, RenderFails
  <2>5. TurnsRecorded'
    <3>. SUFFICES ASSUME NEW t \in Templates, Visited(t)'
                  PROVE  t \in rendered' \cup renderErr' \/ ResourcesOf[t] = {}
      BY DEF TurnsRecorded
    <3>1. t = idx \/ Visited(t)
      BY <2>1 DEF Visited, Templates, TypeInv, TypeOK, TemplatingTypeOK
    <3>. QED
      BY <3>1, <2>1, <2>3, <2>4 DEF TurnsRecorded
  <2>6. GenerationsOrdered' /\ RenderedFromSnapshot' /\ DirtyIfChanged' /\ NoLostWakeup'
    BY <2>1, <2>2 DEF GenerationsOrdered, RenderedFromSnapshot, DirtyIfChanged, NoLostWakeup
  <2>7. AppliedSoFar' /\ ProgrammedSound'
    BY <2>1, <2>2 DEF AppliedSoFar, ProgrammedSound, Exists, Templates, TypeInv, TypeOK, TemplatingTypeOK
  <2>. QED
    BY <2>5, <2>6, <2>7
<1>17. CASE ApplyStep
  <2>1. PICK applied \in SUBSET ResourcesOf[idx], failed \in SUBSET ResourcesOf[idx] :
            ApplyTemplate(applied, failed)
    BY <1>17 DEF ApplyStep
  <2>2. /\ gw' = gw /\ gwc' = gwc /\ snap' = snap /\ queued' = queued
        /\ rendered' = rendered /\ renderErr' = renderErr /\ tspec' = tspec
        /\ stage = "apply"
        /\ idx < N => idx' = idx + 1 /\ stage' = "apply" /\ attempt' = attempt
        /\ idx >= N => idx' = 1 /\ attempt' = attempt + 1 /\ stage' \in {"render", "status"}
        /\ stage' # "idle"
    BY <1>17, <2>1 DEF ApplyStep, ApplyTemplate, worldVars, callVars, Templates, TypeInv, TypeOK, TemplatingTypeOK
  <2>3. \A r \in Resources : spec'[r] = IF r \in applied THEN tspec[idx] ELSE spec[r]
    BY <2>1 DEF ApplyTemplate
  <2>4. applied # {} => idx \in rendered
    BY <2>1 DEF ApplyTemplate
  <2>5. idx \in rendered /\ idx \notin applyErr' => applied = ResourcesOf[idx]
    BY <2>1 DEF ApplyTemplate, TypeInv, TypeOK, TemplatingTypeOK
  <2>6. \A t \in Templates : t # idx => (t \in applyErr' <=> t \in applyErr)
    BY <2>1 DEF ApplyTemplate
  <2>7. \A t \in Templates, r \in Resources : t # idx /\ r \in ResourcesOf[t] => spec'[r] = spec[r]
    BY <2>3 DEF TypeInv, TypeOK, TemplatingTypeOK
  <2>8. ProgrammedSound'
    <3>1. SUFFICES ASSUME gw.prog.st, NEW r \in Inputs(Templates), Exists(r)'
                   PROVE  spec'[r].gen >= gw.prog.gen
      BY <2>2 DEF ProgrammedSound
    <3>2. r \in Resources
      BY DEF Inputs
    <3>3. CASE r \in applied
      BY <1>0, <2>2, <2>3, <2>4, <3>2, <3>3 DEF RenderedFromSnapshot, GenerationsOrdered
    <3>4. CASE r \notin applied
      BY <2>3, <3>1, <3>2, <3>4 DEF ProgrammedSound, Exists
    <3>. QED
      BY <3>3, <3>4
  <2>9. AppliedSoFar'
    <3>1. SUFFICES ASSUME NEW t \in rendered, t \notin applyErr',
                          stage' = "status" \/ (stage' = "apply" /\ t < idx'),
                          NEW r \in ResourcesOf[t], Exists(r)'
                   PROVE  spec'[r].gen = snap.gen
      BY <2>2 DEF AppliedSoFar
    <3>2. t \in Templates /\ r \in Resources
      BY DEF TypeInv, TypeOK, TemplatingTypeOK
    <3>3. CASE t = idx
      BY <2>2, <2>3, <2>5, <3>1, <3>2, <3>3 DEF RenderedFromSnapshot
    <3>4. CASE t # idx
      <4>1. t < idx
        BY <2>2, <3>1, <3>2, <3>4 DEF Templates, TypeInv, TypeOK, TemplatingTypeOK
      <4>2. spec'[r] = spec[r] /\ t \notin applyErr
        BY <2>6, <2>7, <3>1, <3>2, <3>4
      <4>. QED
        BY <2>2, <3>1, <4>1, <4>2 DEF AppliedSoFar, Exists
    <3>. QED
      BY <3>3, <3>4
  <2>10. TurnsRecorded'
    BY <2>2 DEF TurnsRecorded, Visited, TypeInv, TypeOK, TemplatingTypeOK
  <2>11. GenerationsOrdered' /\ RenderedFromSnapshot' /\ DirtyIfChanged' /\ NoLostWakeup'
    BY <2>2 DEF GenerationsOrdered, RenderedFromSnapshot, DirtyIfChanged, NoLostWakeup
  <2>. QED
    BY <2>8, <2>9, <2>10, <2>11
<1>18. CASE StatusStep
  <2>1. PICK lost \in BOOLEAN, kErr \in BOOLEAN :
            /\ UpdateStatus(snap, NewStatus(kErr), lost)
            /\ timer' = (timer \/ Rejected(snap, NewStatus(kErr), lost) \/ MustRetry(kErr))
    BY <1>18 DEF StatusStep
  <2>. DEFINE new == NewStatus(kErr)
  <2>2. /\ new.gen = snap.gen /\ new.st = snap.st
        /\ new.prog = [st |-> Programmed, gen |-> snap.gen]
        /\ new.acc = [st |-> TRUE, gen |-> snap.gen]
    BY DEF NewStatus, TypeInv, TypeOK, Gateway
  <2>. HIDE DEF new
  <2>3. gw' = gw \/ (gw = snap /\ gw' = new)
    BY <2>1 DEF UpdateStatus, new
  <2>4. /\ stage = "status" /\ stage' = "idle" /\ rendered' = {} /\ spec' = spec
        /\ gwc' = gwc /\ queued' = queued
    BY <1>18 DEF StatusStep, EndReconcile, ResetTemplates, childVars
  <2>5. Programmed => rendered = Templates /\ applyErr = {}
    BY DEF Programmed, NothingMissing, LoopFailed
  <2>6. GenerationsOrdered'
    BY <1>0, <2>2, <2>3, <2>4 DEF GenerationsOrdered
  <2>7. ProgrammedSound'
    <3>1. CASE gw' = gw
      BY <2>4, <3>1 DEF ProgrammedSound, Exists
    <3>2. CASE gw = snap /\ gw' = new
      <4>1. SUFFICES ASSUME Programmed, NEW r \in Inputs(Templates), Exists(r)
                     PROVE  spec[r].gen >= snap.gen
        BY <2>2, <2>4, <3>2 DEF ProgrammedSound, Exists
      <4>2. PICK t \in Templates : r \in ResourcesOf[t]
        BY DEF Inputs
      <4>. QED
        BY <1>0, <2>4, <2>5, <4>1, <4>2 DEF AppliedSoFar
    <3>. QED
      BY <2>3, <3>1, <3>2
  <2>8. NoLostWakeup'
    <3>1. SUFFICES ASSUME ~queued, ~timer', gw'.st = "live", gwc = gw',
                          "foreign" \notin Classes, NoEmptyTemplate
                   PROVE  gw'.prog = [st |-> TRUE, gen |-> gw'.gen] /\ gw'.acc = gw'.prog
      BY <2>4 DEF NoLostWakeup
    <3>2. ~Rejected(snap, new, lost) /\ ~MustRetry(kErr)
      BY <2>1, <3>1 DEF new
    <3>3. gwc = snap
      BY <2>4, <3>1 DEF DirtyIfChanged
    <3>4. gw' = new
      BY <2>1, <3>1, <3>2, <3>3 DEF UpdateStatus, Rejected, new
    <3>5. renderErr = {} /\ applyErr = {} /\ ~NotAllExist
      BY <3>2 DEF MustRetry, LoopFailed
    <3>6. rendered = Templates
      BY <2>4, <3>1, <3>5 DEF TurnsRecorded, Visited, NoEmptyTemplate, TypeInv, TypeOK, TemplatingTypeOK
    <3>7. Programmed = TRUE
      BY <3>5, <3>6 DEF Programmed, NothingMissing, LoopFailed
    <3>. QED
      BY <2>2, <3>4, <3>7
  <2>9. RenderedFromSnapshot' /\ AppliedSoFar' /\ TurnsRecorded' /\ DirtyIfChanged'
    BY <2>4 DEF RenderedFromSnapshot, AppliedSoFar, TurnsRecorded, DirtyIfChanged
  <2>. QED
    BY <2>6, <2>7, <2>8, <2>9
<1>19. CASE StatusPanics \/ Crash
  <2>1. /\ stage' = "idle" /\ rendered' = {} /\ spec' = spec /\ gw' = gw
        /\ (gwc' = gwc /\ timer') \/ (gwc' = gw /\ queued' = (gw.st # "gone"))
    BY <1>19 DEF StatusPanics, Crash, EndReconcile, ResetTemplates, childVars, worldVars
  <2>2. GenerationsOrdered'
    BY <1>0, <2>1 DEF GenerationsOrdered
  <2>3. NoLostWakeup'
    BY <2>1 DEF NoLostWakeup
  <2>. QED
    BY <2>1, <2>2, <2>3 DEF RenderedFromSnapshot, AppliedSoFar, ProgrammedSound, TurnsRecorded,
       DirtyIfChanged, Exists
<1>20. CASE UNCHANGED vars
  BY <1>20, CoreFrame DEF vars, GenerationsOrdered, DirtyIfChanged, NoLostWakeup, worldVars, childVars, callVars, loopVars
<1>. QED
  BY <1>1, <1>2, <1>3, <1>4, <1>5, <1>6, <1>8, <1>9, <1>10, <1>11, <1>12, <1>13, <1>14,
     <1>15, <1>16, <1>17, <1>18, <1>19, <1>20 DEF Next, Environment, Reconcile

\* The inductive invariant of the Gateway controller holds in every reachable state.
THEOREM CoreInvariant == Spec => []Core
<1>1. Init => TypeInv /\ Core
  BY TypeInit, CoreInit
<1>2. TypeInv /\ Core /\ [Next]_vars => (TypeInv /\ Core)'
  BY TypeNext, CoreNext
<1>. QED
  BY <1>1, <1>2, PTL DEF Spec

\* The condition Programmed=True published by Reconcile is never a lie: every
\* child that exists carries the text of that generation or of a newer one.
THEOREM ProgrammedIsSound == Spec => []ProgrammedSound
<1>1. Core => ProgrammedSound
  BY DEF Core
<1>. QED
  BY <1>1, CoreInvariant, PTL

\* No wake-up of Reconcile is lost: a controller at rest with an up-to-date cache
\* has programmed the present generation of the Gateway.
THEOREM WakeupsAreNotLost == Spec => []NoLostWakeup
<1>1. Core => NoLostWakeup
  BY DEF Core
<1>. QED
  BY <1>1, CoreInvariant, PTL

\* The status writes of Reconcile keep Ready=True together with Programmed=True
\* of the same generation and with Accepted=True.
THEOREM ReadyIsConsistent == Spec => []ReadyConsistent
<1>1. Init => ReadyConsistent
  BY DEF Init, ReadyConsistent, NoGateway, Unset
<1>2. TypeInv /\ ReadyConsistent /\ [Next]_vars => ReadyConsistent'
  <2>. SUFFICES ASSUME TypeInv, ReadyConsistent, [Next]_vars
                PROVE  ReadyConsistent'
    OBVIOUS
  <2>. USE DEF ReadyConsistent
  <2>1. CASE EditGateway \/ DeleteGateway \/ FinishDeletion
    BY <2>1 DEF EditGateway, DeleteGateway, FinishDeletion, TypeInv, TypeOK, Gateway
  <2>2. CASE ReconcileInvalid
    <3>1. gw' = gw \/ gw' = FailureStatus(gwc)
      BY <2>2 DEF ReconcileInvalid, UpdateStatus
    <3>2. CASE gw' = FailureStatus(gwc)
      BY <3>2 DEF FailureStatus, TypeInv, TypeOK, Gateway
    <3>. QED
      BY <3>1, <3>2
  <2>3. CASE StatusStep
    <3>1. PICK lost \in BOOLEAN, kErr \in BOOLEAN : UpdateStatus(snap, NewStatus(kErr), lost)
      BY <2>3 DEF StatusStep
    <3>2. CASE gw' = gw
      BY <3>2
    <3>3. CASE gw' = NewStatus(kErr)
      BY <3>3 DEF NewStatus, Ready, TypeInv, TypeOK, Gateway
    <3>. QED
      BY <3>1, <3>2, <3>3 DEF UpdateStatus
  <2>4. CASE gw' = gw
    BY <2>4
  <2>5. CASE \/ EditConfig \/ EditUnwatched \/ CacheSync \/ Resync \/ TimerFires
             \/ ReconcileSkips \/ ReconcileRetries \/ ReconcileBegins
             \/ RenderStep \/ ApplyStep \/ StatusPanics \/ Crash
             \/ \E r \in Resources : CollectChild(r) \/ LoseChild(r) \/ ChildReconcile(r)
             \/ UNCHANGED vars
    BY <2>4, <2>5 DEF EditConfig, EditUnwatched, CacheSync, Resync, TimerFires, ReconcileSkips,
       ReconcileRetries, ReconcileBegins, RenderStep, ApplyStep, StatusPanics, Crash, CollectChild,
       LoseChild, Remove, ChildReconcile, worldVars, vars
  <2>. QED
    BY <2>1, <2>2, <2>3, <2>5 DEF Next, Environment, Reconcile
<1>. QED
  BY <1>1, <1>2, TypeInit, TypeNext, PTL DEF Spec

-------------------------------------------------------------------------------
(* The render/apply loop *)

Loop == /\ TextsAreFresh
        /\ SteadyReads
        /\ RankByRank
        /\ LoopBookkeeping

\* With missingkey=error a text that renders is not computed from an absent
\* output.
LEMMA OldestInputPositive ==
    ASSUME TypeOK, NEW ts \in SUBSET Templates, NEW fresh \in Nat, fresh > 0, Resolves(ts)
    PROVE  OldestInput(ts, fresh) > 0
<1>. DEFINE S == {fresh} \cup {Output(r, cur[r]) : r \in Inputs(ts)}
<1>1. Inputs(ts) \subseteq Resources
  BY DEF Inputs
<1>2. S \subseteq Nat /\ S # {}
  BY <1>1 DEF TypeOK, TemplatingTypeOK, Output, Child, Text
<1>3. \A x \in S : x # 0
  BY DEF Resolves
<1>4. Oldest(S) \in S
  BY <1>2, OldestIsMin
<1>. QED
  BY <1>2, <1>3, <1>4 DEF OldestInput

\* The chosen rank is one when there is any.
LEMMA RankIsRank ==
    ASSUME Acyclic
    PROVE  Rank \in [Templates -> 0..(N - 1)] /\ IsRank(Rank)
BY DEF Acyclic, Rank

\* The invariant of the render/apply loop holds at the start.
LEMMA LoopInit == Init => Loop
<1>. SUFFICES ASSUME Init
              PROVE  Loop
  OBVIOUS
<1>1. gw.gen = 1 /\ gwc = gw
  BY DEF Init, NoGateway
<1>2. \A r \in Resources : spec[r] \in {First, NoSpec}
  BY DEF Init
<1>3. TextsAreFresh
  BY <1>1, <1>2 DEF Init, TextsAreFresh, Exists, First
<1>. QED
  BY <1>3 DEF Init, Loop, SteadyReads, RankByRank, LoopBookkeeping

\* Steps outside the loop that do not remove a child.
LEMMA LoopFrame ==
    ASSUME TypeInv, Loop, UNCHANGED <<spec, callVars, loopVars, steady>>, gw'.gen >= gw.gen,
           gwc' \in {gwc, gw}, seen' = seen,
           gw.gen \in Nat, gw'.gen \in Nat
    PROVE  Loop'
<1>1. TextsAreFresh'
  BY DEF Loop, TextsAreFresh, callVars, loopVars, Exists, TypeInv, TypeOK, TemplatingTypeOK, Text, Gateway
<1>2. SteadyReads'
  BY DEF Loop, SteadyReads, Exists, OutputNow, Output, Fetched, loopVars
<1>3. RankByRank' /\ LoopBookkeeping'
  BY DEF Loop, RankByRank, TurnTaken, LoopBookkeeping, Fetched, loopVars
<1>. QED
  BY <1>1, <1>2, <1>3 DEF Loop

\* A child that disappears ends the steady period.
LEMMA LoopRemove ==
    ASSUME TypeInv, Loop, NEW r \in Resources, Remove(r)
    PROVE  Loop'
<1>1. \A q \in Resources : Exists(q)' => Exists(q) /\ spec'[q] = spec[q]
  BY DEF Remove, Exists, TypeInv, TypeOK, TemplatingTypeOK
<1>2. TextsAreFresh'
  BY <1>1 DEF Loop, TextsAreFresh, Remove, worldVars, callVars, loopVars
<1>3. SteadyReads' /\ RankByRank' /\ LoopBookkeeping'
  BY DEF Loop, SteadyReads, RankByRank, LoopBookkeeping, Remove, loopVars
<1>. QED
  BY <1>2, <1>3 DEF Loop

\* The call is over.
LEMMA LoopEnd ==
    ASSUME TypeInv, Loop, EndReconcile, spec' = spec, gw'.gen = gw.gen, gwc' \in {gwc, gw}
    PROVE  Loop'
BY DEF Loop, TextsAreFresh, SteadyReads, RankByRank, LoopBookkeeping, EndReconcile, ResetTemplates, Exists

\* Every step keeps the invariant of the loop.
LEMMA LoopNext == TypeInv /\ TypeInv' /\ Loop /\ [Next]_vars => Loop'
<1>. SUFFICES ASSUME TypeInv, TypeInv', Loop, [Next]_vars
              PROVE  Loop'
  OBVIOUS
<1>0. gw.gen \in Nat /\ gw'.gen \in Nat
  BY DEF TypeInv, TypeOK, Gateway
<1>1. CASE EditGateway \/ DeleteGateway \/ FinishDeletion
  <2>1. gw'.gen >= gw.gen
    BY <1>0, <1>1 DEF EditGateway, DeleteGateway, FinishDeletion, TypeInv, TypeOK, Gateway
  <2>. QED
    BY <1>0, <1>1, <2>1, LoopFrame DEF EditGateway, DeleteGateway, FinishDeletion, childVars
<1>2. CASE EditConfig \/ EditUnwatched \/ CacheSync \/ Resync \/ TimerFires
  BY <1>0, <1>2, LoopFrame DEF EditConfig, EditUnwatched, CacheSync, Resync, TimerFires, childVars, worldVars
<1>3. ASSUME NEW r \in Resources, CollectChild(r) \/ LoseChild(r)
      PROVE  Loop'
  BY <1>3, LoopRemove DEF CollectChild, LoseChild
<1>4. ASSUME NEW r \in Resources, ChildReconcile(r)
      PROVE  Loop'
  <2>1. /\ UNCHANGED <<spec, worldVars, callVars, loopVars, steady>>
        /\ Exists(r) /\ r \in Managed
        /\ seen' = [seen EXCEPT ![r] = spec[r]]
    BY <1>4 DEF ChildReconcile
  <2>2. TextsAreFresh'
    BY <2>1 DEF Loop, TextsAreFresh, Exists, worldVars, callVars, loopVars
  <2>3. SteadyReads'
    <3>1. \A q \in Resources \ {r} : seen'[q] = seen[q]
      BY <2>1 DEF TypeInv, TypeOK, TemplatingTypeOK
    <3>2. seen'[r] = spec[r] /\ spec[r].age > 0
      BY <2>1 DEF Loop, TextsAreFresh, TypeInv, TypeOK, TemplatingTypeOK
    <3>. QED
      BY <2>1, <3>1, <3>2 DEF Loop, SteadyReads, Exists, OutputNow, Output, Fetched, loopVars
  <2>4. RankByRank' /\ LoopBookkeeping'
    BY <2>1 DEF Loop, RankByRank, TurnTaken, LoopBookkeeping, Fetched, loopVars
  <2>. QED
    BY <2>2, <2>3, <2>4 DEF Loop
<1>5. CASE ReconcileSkips \/ ReconcileRetries
  BY <1>0, <1>5, LoopFrame DEF ReconcileSkips, ReconcileRetries, childVars, worldVars
<1>6. CASE ReconcileInvalid
  <2>1. gw'.gen >= gw.gen
    <3>1. gw' = gw \/ (gw = gwc /\ gw' = FailureStatus(gwc))
      BY <1>6 DEF ReconcileInvalid, UpdateStatus
    <3>2. gw.gen \in Nat /\ FailureStatus(gwc).gen = gwc.gen
      BY DEF FailureStatus, TypeInv, TypeOK, Gateway
    <3>. QED
      BY <3>1, <3>2
  <2>. QED
    BY <1>0, <1>6, <2>1, LoopFrame DEF ReconcileInvalid, childVars
<1>7. CASE ReconcileBegins
  <2>1. /\ UNCHANGED <<gw, gwc, spec, seen>>
        /\ snap' = gwc /\ stage' = "render" /\ attempt' = 0 /\ idx' = 1
        /\ rendered' = {} /\ renderErr' = {} /\ cur' = [r \in Resources |-> Nil]
        /\ steady' = \A r \in Resources : Exists(r) /\ OutputNow(r) # 0
    BY <1>7 DEF ReconcileBegins, ResetTemplates, worldVars, childVars
  <2>2. TextsAreFresh' /\ LoopBookkeeping'
    BY <2>1 DEF Loop, TextsAreFresh, LoopBookkeeping, Exists
  <2>3. SteadyReads'
    BY <2>1 DEF SteadyReads, Exists, OutputNow, Output, Fetched
  <2>4. RankByRank'
    <3>1. SUFFICES ASSUME Acyclic, NEW t \in Templates
                   PROVE  ~TurnTaken(t)' /\ ~(Rank[t] < attempt')
      BY DEF RankByRank
    <3>. QED
      BY <2>1, <3>1, RankIsRank DEF TurnTaken, Templates
  <2>. QED
    BY <2>2, <2>3, <2>4 DEF Loop
<1>8. CASE RenderStep
  <2>1. /\ UNCHANGED <<gw, gwc, snap, sinp, spec, seen, attempt, avail>>
        /\ stage = "render"
        /\ idx' = (IF idx < N THEN idx + 1 ELSE 1)
        /\ stage' = (IF idx < N THEN "render" ELSE "apply")
        /\ steady' => steady
    BY <1>8 DEF RenderStep, RenderSucceeds, RenderSkipped, RenderFails, NextToRender, worldVars, callVars
  <2>2. /\ \A r \in Resources : Fetched(r) => cur'[r] = cur[r]
        /\ \A r \in Resources : cur'[r] \in {cur[r], [spec |-> spec[r], seen |-> seen[r]]}
        /\ rendered \subseteq rendered'
    BY <1>8 DEF RenderStep, RenderSucceeds, RenderSkipped, RenderFails, Fetch
  <2>3. TextsAreFresh'
    <3>1. \A t \in rendered' : tspec'[t].age > 0
      <4>1. CASE idx \notin rendered /\ Resolves(Deps[idx]) /\ rendered' \subseteq rendered \cup {idx}
                 /\ tspec' = [tspec EXCEPT ![idx] = [gen |-> snap.gen, age |-> OldestInput(Deps[idx], Fresh)]]
        <5>1. Fresh \in Nat /\ Fresh > 0
          BY <2>1 DEF Loop, TextsAreFresh, Fresh, TypeInv, TypeOK, Gateway
        <5>2. OldestInput(Deps[idx], Fresh) > 0
          BY <4>1, <5>1, OldestInputPositive DEF TypeInv, TypeOK, TemplatingTypeOK
        <5>. QED
          BY <2>1, <4>1, <5>2 DEF Loop, TextsAreFresh, TypeInv, TypeOK, TemplatingTypeOK
      <4>2. CASE rendered' = rendered /\ tspec' = tspec
        BY <2>1, <4>2 DEF Loop, TextsAreFresh
      <4>. QED
        BY <1>8, <4>1, <4>2 DEF RenderStep, RenderSucceeds, RenderSkipped, RenderFails
    <3>. QED
      BY <2>1, <3>1 DEF Loop, TextsAreFresh, Exists
  <2>4. SteadyReads'
    BY <2>1, <2>2 DEF Loop, SteadyReads, Exists, OutputNow, Output, Fetched
  <2>5. LoopBookkeeping'
    <3>1. rendered' \cap renderErr' = {}
      BY <1>8 DEF RenderStep, RenderSucceeds, RenderSkipped, RenderFails, Loop, LoopBookkeeping
    <3>. QED
      BY <2>1, <3>1 DEF LoopBookkeeping
  <2>6. RankByRank'
    <3>1. SUFFICES ASSUME steady', Acyclic, NoEmptyTemplate, NEW t \in Templates
                   PROVE  /\ TurnTaken(t)' => t \in rendered' /\ \A r \in ResourcesOf[t] : Fetched(r)'
                          /\ Rank[t] < attempt' => ResourcesOf[t] \subseteq avail'
      BY DEF RankByRank
    <3>2. Rank \in [Templates -> 0..(N - 1)] /\ IsRank(Rank)
      BY <3>1, RankIsRank
    <3>3. Rank[t] < attempt' => ResourcesOf[t] \subseteq avail'
      BY <2>1, <3>1 DEF Loop, RankByRank
    <3>4. ASSUME TurnTaken(t)'
          PROVE  t \in rendered' /\ \A r \in ResourcesOf[t] : Fetched(r)'
      <4>0. ResourcesOf[t] \subseteq Resources
        OBVIOUS
      <4>1. TurnTaken(t) \/ (t = idx /\ Rank[t] = attempt)
        BY <2>1, <3>2, <3>4 DEF TurnTaken, Templates, TypeInv, TypeOK, TemplatingTypeOK
      <4>2. CASE TurnTaken(t)
        <5>1. t \in rendered /\ \A r \in ResourcesOf[t] : Fetched(r)
          BY <2>1, <3>1, <4>2 DEF Loop, RankByRank
        <5>. QED
          BY <2>2, <4>0, <5>1 DEF Fetched
      <4>3. CASE t = idx /\ Rank[t] = attempt
        <5>1. \A d \in Deps[idx] : /\ d \in Templates /\ Rank[d] < attempt
                                   /\ TurnTaken(d) /\ ResourcesOf[d] # {}
          BY <3>1, <3>2, <4>3 DEF IsRank, TurnTaken, NoEmptyTemplate, Templates
        <5>2. \A d \in Deps[idx] : \A r \in ResourcesOf[d] : r \in avail /\ Fetched(r) /\ r \in Resources
          BY <2>1, <3>1, <5>1 DEF Loop, RankByRank
        <5>3. Resolves(Deps[idx])
          BY <2>1, <3>1, <5>1, <5>2 DEF Resolves, Inputs, Loop, SteadyReads
        <5>4. /\ idx \in rendered'
              /\ \A r \in ResourcesOf[idx] : Fetched(r) \/ cur'[r] = [spec |-> spec[r], seen |-> seen[r]]
          BY <1>8, <3>1, <4>3, <5>3 DEF RenderStep, RenderSucceeds, RenderSkipped, RenderFails, Fetch, NoEmptyTemplate
        <5>5. \A r \in ResourcesOf[idx] : cur'[r] # Nil
          <6>1. SUFFICES ASSUME NEW r \in ResourcesOf[idx]
                         PROVE  cur'[r] # Nil
            OBVIOUS
          <6>2. r \in Resources /\ spec[r] # NoSpec
            BY <2>1, <3>1, <4>0, <4>3 DEF Loop, SteadyReads, Exists
          <6>3. CASE Fetched(r)
            BY <2>2, <6>2, <6>3 DEF Fetched
          <6>4. CASE cur'[r] = [spec |-> spec[r], seen |-> seen[r]]
            BY <6>2, <6>4 DEF Nil
          <6>. QED
            BY <5>4, <6>3, <6>4
        <5>. QED
          BY <4>3, <5>4, <5>5 DEF Fetched
      <4>. QED
        BY <4>1, <4>2, <4>3
    <3>. QED
      BY <3>3, <3>4
  <2>. QED
    BY <2>3, <2>4, <2>5, <2>6 DEF Loop
<1>9. CASE ApplyStep
  <2>1. PICK applied \in SUBSET ResourcesOf[idx], failed \in SUBSET ResourcesOf[idx] :
            ApplyTemplate(applied, failed)
    BY <1>9 DEF ApplyStep
  <2>2. /\ UNCHANGED <<gw, gwc, snap, seen, steady, rendered, tspec, renderErr, cur>>
        /\ stage = "apply" /\ stage' # "idle"
        /\ idx < N => stage' = "apply" /\ attempt' = attempt /\ avail' = avail
        /\ idx >= N => /\ stage' \in {"render", "status"} /\ attempt' = attempt + 1 /\ idx' = 1
                       /\ stage' = "status" => attempt + 1 >= N
                       /\ avail' = {r \in Resources : Fetched(r)}
    BY <1>9, <2>1 DEF ApplyStep, ApplyTemplate, MoreAttempts, worldVars, callVars, Templates, TypeInv, TypeOK, TemplatingTypeOK
  <2>3. \A r \in Resources : \/ spec'[r] = spec[r]
                             \/ idx \in rendered /\ spec'[r] = tspec[idx]
    BY <2>1 DEF ApplyTemplate
  <2>4. \A r \in Resources : (Exists(r) => Exists(r)') /\ (Exists(r)' => spec'[r].age > 0)
    BY <2>2, <2>3 DEF Loop, TextsAreFresh, Exists, NoSpec
  <2>5. TextsAreFresh'
    BY <2>2, <2>4 DEF Loop, TextsAreFresh
  <2>6. SteadyReads'
    BY <2>2, <2>3, <2>4 DEF Loop, SteadyReads, OutputNow, Output, Fetched
  <2>7. LoopBookkeeping'
    <3>1. stage' = "status" => attempt' = N
      BY <2>2 DEF TypeInv, AttemptsBounded, TypeOK, TemplatingTypeOK, Templates
    <3>. QED
      BY <2>2, <3>1 DEF Loop, LoopBookkeeping
  <2>8. RankByRank'
    <3>1. SUFFICES ASSUME steady, Acyclic, NoEmptyTemplate, NEW t \in Templates
                   PROVE  /\ TurnTaken(t)' => t \in rendered /\ \A r \in ResourcesOf[t] : Fetched(r)
                          /\ Rank[t] < attempt' => ResourcesOf[t] \subseteq avail'
      BY <2>2 DEF RankByRank, Fetched
    <3>2. Rank \in [Templates -> 0..(N - 1)]
      BY <3>1, RankIsRank
    <3>3. TurnTaken(t)' => TurnTaken(t)
      BY <2>2, <3>2 DEF TurnTaken, Templates, TypeInv, TypeOK, TemplatingTypeOK
    <3>4. TurnTaken(t)' => t \in rendered /\ \A r \in ResourcesOf[t] : Fetched(r)
      BY <2>2, <3>1, <3>3 DEF Loop, RankByRank
    <3>5. Rank[t] < attempt' => ResourcesOf[t] \subseteq avail'
      <4>1. CASE idx < N
        BY <2>2, <3>1, <4>1 DEF Loop, RankByRank
      <4>2. CASE idx >= N
        <5>1. Rank[t] < attempt' => TurnTaken(t)'
          BY DEF TurnTaken
        <5>. QED
          BY <2>2, <3>4, <4>2, <5>1
      <4>. QED
        BY <4>1, <4>2 DEF Templates, TypeInv, TypeOK, TemplatingTypeOK
    <3>. QED
      BY <3>4, <3>5
  <2>. QED
    BY <2>5, <2>6, <2>7, <2>8 DEF Loop
<1>10. CASE StatusStep
  <2>1. gw'.gen = gw.gen
    <3>1. PICK kErr \in BOOLEAN : gw' = gw \/ (gw = snap /\ gw' = NewStatus(kErr))
      BY <1>10 DEF StatusStep, UpdateStatus
    <3>. QED
      BY <3>1 DEF NewStatus, TypeInv, TypeOK, Gateway
  <2>. QED
    BY <1>10, <2>1, LoopEnd DEF StatusStep, childVars
<1>11. CASE StatusPanics \/ Crash
  BY <1>11, LoopEnd DEF StatusPanics, Crash, childVars, worldVars
<1>12. CASE UNCHANGED vars
  BY <1>0, <1>12, LoopFrame DEF vars, childVars, worldVars
<1>. QED
  BY <1>1, <1>2, <1>3, <1>4, <1>5, <1>6, <1>7, <1>8, <1>9, <1>10, <1>11, <1>12 DEF Next, Environment, Reconcile

\* N attempts of the render/apply loop are enough for any acyclic blueprint of N
\* templates once the children exist: after attempt k every template of rank k
\* is rendered and its resources are fetched.
THEOREM LoopIsSufficient == Spec => []LoopSufficient
<1>1. Init => TypeInv /\ Loop
  BY TypeInit, LoopInit
<1>2. TypeInv /\ Loop /\ [Next]_vars => (TypeInv /\ Loop)'
  BY TypeNext, LoopNext
<1>3. TypeInv /\ Loop => LoopSufficient
  <2>1. SUFFICES ASSUME TypeInv, Loop, stage = "status", steady, Acyclic, NoEmptyTemplate
                 PROVE  NothingMissing /\ renderErr = {}
    BY DEF LoopSufficient
  <2>2. \A t \in Templates : TurnTaken(t)
    BY <2>1, RankIsRank DEF Loop, LoopBookkeeping, TurnTaken
  <2>3. \A t \in Templates : t \in rendered /\ \A r \in ResourcesOf[t] : Fetched(r)
    BY <2>1, <2>2 DEF Loop, RankByRank
  <2>4. rendered = Templates
    BY <2>1, <2>3 DEF TypeInv, TypeOK, TemplatingTypeOK
  <2>5. ~NotAllExist
    BY <2>3, <2>4 DEF NotAllExist, RenderedResources, Inputs
  <2>6. renderErr = {}
    BY <2>1, <2>4 DEF Loop, LoopBookkeeping, TypeInv, TypeOK, TemplatingTypeOK
  <2>. QED
    BY <2>4, <2>5, <2>6 DEF NothingMissing
<1>. QED
  BY <1>1, <1>2, <1>3, PTL DEF Spec

-------------------------------------------------------------------------------
(* The Gateway controller implements ChildOwner.  Beside Core the proof needs that
   no child is ahead of the copy of the Gateway that a Reconcile works from: this is
   why a Reconcile that reads a cache never sets a child back. *)

\* Children left from an earlier installation are of the first generation.
LEMMA AheadInit == Init => TextsNotAhead
<1>. SUFFICES ASSUME Init
              PROVE  TextsNotAhead
  OBVIOUS
<1>1. gwc.gen = 1 /\ stage = "idle"
  BY DEF Init, NoGateway
<1>2. \A r \in Resources : spec[r].gen \in {0, 1}
  BY DEF Init, First, NoSpec
<1>. QED
  BY <1>1, <1>2 DEF TextsNotAhead

\* Every step keeps it: the cache only moves forward, a call reads a cache that
\* is no older than any child, and applies texts of the generation it read.
LEMMA AheadNext ==
    TypeInv /\ TypeInv' /\ Core /\ TextsNotAhead /\ [Next]_vars => TextsNotAhead'
<1>. SUFFICES ASSUME TypeInv, TypeInv', Core, TextsNotAhead, [Next]_vars
              PROVE  TextsNotAhead'
  OBVIOUS
<1>0. /\ gw.gen \in Nat /\ gwc.gen \in Nat /\ snap.gen \in Nat /\ gwc.gen <= gw.gen
      /\ stage # "idle" => snap.gen <= gwc.gen
      /\ \A r \in Resources : spec[r].gen \in Nat
  BY DEF Core, GenerationsOrdered, TypeInv, TypeOK, TemplatingTypeOK, Gateway, Text
<1>1. CASE UNCHANGED <<spec, gwc, snap, stage>>
  BY <1>1 DEF TextsNotAhead
<1>2. CASE CacheSync
  BY <1>0, <1>2 DEF CacheSync, TextsNotAhead, childVars, callVars, loopVars
<1>3. ASSUME NEW r \in Resources, CollectChild(r) \/ LoseChild(r)
      PROVE  TextsNotAhead'
  <2>1. \A q \in Resources : spec'[q] = spec[q] \/ spec'[q].gen = 0
    BY <1>3 DEF CollectChild, LoseChild, Remove, NoSpec, TypeInv, TypeOK, TemplatingTypeOK
  <2>2. UNCHANGED <<gwc, snap, stage>>
    BY <1>3 DEF CollectChild, LoseChild, Remove, worldVars, callVars, loopVars
  <2>. QED
    BY <1>0, <2>1, <2>2 DEF TextsNotAhead
<1>4. CASE ReconcileBegins
  BY <1>0, <1>4 DEF ReconcileBegins, TextsNotAhead, worldVars, childVars
<1>5. CASE RenderStep
  <2>1. UNCHANGED <<spec, gwc, snap>> /\ stage = "render"
    BY <1>5 DEF RenderStep, RenderSucceeds, RenderSkipped, RenderFails, NextToRender, worldVars, callVars
  <2>. QED
    BY <2>1 DEF TextsNotAhead
<1>6. CASE ApplyStep
  <2>1. PICK applied \in SUBSET ResourcesOf[idx], failed \in SUBSET ResourcesOf[idx] :
            ApplyTemplate(applied, failed)
    BY <1>6 DEF ApplyStep
  <2>2. UNCHANGED <<gwc, snap>> /\ stage = "apply"
    BY <1>6, <2>1 DEF ApplyStep, ApplyTemplate, worldVars, callVars
  <2>3. applied # {} => tspec[idx].gen = snap.gen
    BY <2>1, <2>2 DEF ApplyTemplate, Core, RenderedFromSnapshot
  <2>4. \A r \in Resources : spec'[r] = IF r \in applied THEN tspec[idx] ELSE spec[r]
    BY <2>1 DEF ApplyTemplate
  <2>. QED
    BY <1>0, <2>2, <2>3, <2>4 DEF TextsNotAhead
<1>7. CASE StatusStep \/ StatusPanics \/ Crash
  <2>1. stage' = "idle" /\ spec' = spec /\ gwc' \in {gwc, gw}
    BY <1>7 DEF StatusStep, StatusPanics, Crash, EndReconcile, childVars, worldVars
  <2>. QED
    BY <1>0, <2>1 DEF TextsNotAhead
<1>8. CASE \/ EditGateway \/ DeleteGateway \/ FinishDeletion \/ EditConfig \/ EditUnwatched
           \/ (\E r \in Resources : ChildReconcile(r)) \/ Resync \/ TimerFires
           \/ ReconcileSkips \/ ReconcileRetries \/ ReconcileInvalid \/ UNCHANGED vars
  BY <1>1, <1>8 DEF EditGateway, DeleteGateway, FinishDeletion, EditConfig, EditUnwatched,
     ChildReconcile, Resync, TimerFires, ReconcileSkips, ReconcileRetries, ReconcileInvalid, vars,
     worldVars, callVars, childVars, loopVars
<1>. QED
  BY <1>2, <1>3, <1>4, <1>5, <1>6, <1>7, <1>8 DEF Next, Environment, Reconcile

-------------------------------------------------------------------------------
(* The refinement *)

kids == Inputs(Templates)
texts == [r \in kids |-> spec[r].gen]

\* Initial states map to initial states.
LEMMA OwnerInit == Init => Owner!Init
<1>. SUFFICES ASSUME Init
              PROVE  Owner!Init
  OBVIOUS
<1>1. gw.gen = 1 /\ gw.prog = [st |-> FALSE, gen |-> 0]
  BY DEF Init, NoGateway, Unset
<1>2. \A r \in Resources : spec[r].gen \in {0, 1}
  BY DEF Init, First, NoSpec
<1>3. kids \subseteq Resources
  BY TemplatingAssumption DEF kids, Inputs
<1>. QED
  BY <1>1, <1>2, <1>3 DEF Owner!Init, kids

\* A step that changes neither the generation nor the condition nor a child is a
\* stuttering step.
LEMMA OwnerStutter ==
    ASSUME gw'.gen = gw.gen, gw'.prog = gw.prog, UNCHANGED spec
    PROVE  UNCHANGED Owner!vars
BY DEF Owner!vars

\* Every step maps to a step of ChildOwner or to a stuttering step.
LEMMA OwnerNext ==
    TypeInv /\ TypeInv' /\ Core /\ TextsNotAhead /\ [Next]_vars => [Owner!Next]_Owner!vars
<1>. SUFFICES ASSUME TypeInv, TypeInv', Core, TextsNotAhead, [Next]_vars
              PROVE  Owner!Next \/ UNCHANGED Owner!vars
  BY DEF Owner!vars
<1>0. /\ gw.gen \in Nat /\ gwc.gen \in Nat /\ snap.gen \in Nat /\ gw.prog.gen \in Nat
      /\ gwc.gen <= gw.gen /\ gw.prog.gen <= gwc.gen
      /\ stage # "idle" => snap.gen <= gwc.gen /\ gw.prog.gen <= snap.gen
      /\ \A r \in Resources : spec[r].gen \in Nat
  BY DEF Core, GenerationsOrdered, TypeInv, TypeOK, TemplatingTypeOK, Gateway, Condition, Text
<1>1. kids \subseteq Resources
  BY TemplatingAssumption DEF kids, Inputs
<1>2. CASE EditGateway
  <2>1. gw'.gen = gw.gen + 1 /\ gw'.prog = gw.prog /\ spec' = spec
    BY <1>2 DEF EditGateway, TypeInv, TypeOK, Gateway, childVars
  <2>. QED
    BY <2>1 DEF Owner!Next, Owner!Edit
<1>3. CASE DeleteGateway \/ FinishDeletion
  <2>1. gw'.gen = gw.gen /\ gw'.prog = gw.prog /\ spec' = spec
    BY <1>3 DEF DeleteGateway, FinishDeletion, TypeInv, TypeOK, Gateway, childVars
  <2>. QED
    BY <2>1, OwnerStutter
<1>4. ASSUME NEW r \in Resources, CollectChild(r) \/ LoseChild(r)
      PROVE  Owner!Next
  <2>1. gw' = gw /\ \A q \in Resources : spec'[q].gen = IF q = r THEN 0 ELSE spec[q].gen
    BY <1>4 DEF CollectChild, LoseChild, Remove, NoSpec, worldVars, TypeInv, TypeOK, TemplatingTypeOK
  <2>2. texts' = [q \in kids |-> IF q \in {r} \cap kids THEN 0 ELSE texts[q]]
    BY <1>1, <2>1 DEF texts, kids
  <2>3. Owner!Drop({r} \cap kids)
    BY <2>1, <2>2 DEF Owner!Drop, texts, kids
  <2>4. {r} \cap kids \in SUBSET kids
    OBVIOUS
  <2>. QED
    BY <2>3, <2>4 DEF Owner!Next, kids
<1>5. CASE ApplyStep
  <2>1. PICK applied \in SUBSET ResourcesOf[idx], failed \in SUBSET ResourcesOf[idx] :
            ApplyTemplate(applied, failed)
    BY <1>5 DEF ApplyStep
  <2>2. gw' = gw /\ stage = "apply"
    BY <1>5, <2>1 DEF ApplyStep, ApplyTemplate, worldVars
  <2>3. applied # {} => idx \in rendered /\ tspec[idx].gen = snap.gen
    BY <2>1, <2>2 DEF ApplyTemplate, Core, RenderedFromSnapshot
  <2>4. \A r \in Resources : spec'[r].gen = IF r \in applied THEN snap.gen ELSE spec[r].gen
    BY <2>1, <2>3 DEF ApplyTemplate
  <2>5. texts' = [r \in kids |-> IF r \in applied \cap kids THEN snap.gen ELSE texts[r]]
    BY <1>1, <2>4 DEF texts, kids
  <2>6. CASE snap.gen = 0
    <3>1. Owner!Drop(applied \cap kids)
      BY <2>2, <2>5, <2>6 DEF Owner!Drop, texts, kids
    <3>2. applied \cap kids \in SUBSET kids
      OBVIOUS
    <3>. QED
      BY <3>1, <3>2 DEF Owner!Next, kids
  <2>7. CASE snap.gen # 0
    <3>1. \A r \in applied \cap kids : texts[r] <= snap.gen
      BY <1>1, <2>2 DEF TextsNotAhead, texts
    <3>2. Owner!Write(applied \cap kids, snap.gen)
      BY <1>0, <2>2, <2>5, <3>1 DEF Owner!Write, texts, kids
    <3>3. snap.gen \in 1..gw.gen
      BY <1>0, <2>2, <2>7
    <3>4. applied \cap kids \in SUBSET kids
      OBVIOUS
    <3>5. \E R \in SUBSET kids, g \in 1..gw.gen : Owner!Write(R, g)
      BY <3>2, <3>3, <3>4 DEF Owner!Write
    <3>. QED
      BY <3>5 DEF Owner!Next, kids
  <2>. QED
    BY <2>6, <2>7
<1>6. CASE ReconcileInvalid
  <2>1. \/ gw' = gw
        \/ gw'.gen = gw.gen /\ gw'.prog = [st |-> FALSE, gen |-> gw.gen]
    BY <1>6 DEF ReconcileInvalid, UpdateStatus, FailureStatus, TypeInv, TypeOK, Gateway
  <2>2. spec' = spec
    BY <1>6 DEF ReconcileInvalid, childVars
  <2>3. CASE gw'.gen = gw.gen /\ gw'.prog = [st |-> FALSE, gen |-> gw.gen]
    <3>1. Owner!Publish(FALSE)
      BY <2>2, <2>3 DEF Owner!Publish
    <3>. QED
      BY <3>1 DEF Owner!Next
  <2>. QED
    BY <2>1, <2>2, <2>3, OwnerStutter
<1>7. CASE StatusStep
  <2>1. PICK lost \in BOOLEAN, kErr \in BOOLEAN : UpdateStatus(snap, NewStatus(kErr), lost)
    BY <1>7 DEF StatusStep
  <2>2. \/ gw' = gw
        \/ gw = snap /\ gw'.gen = gw.gen /\ gw'.prog = [st |-> Programmed, gen |-> gw.gen]
    <3>1. snap \in Gateway
      BY DEF TypeInv, TypeOK
    <3>2. NewStatus(kErr).gen = snap.gen /\ NewStatus(kErr).prog = [st |-> Programmed, gen |-> snap.gen]
      BY <3>1, Zenon DEF NewStatus, Gateway
    <3>. QED
      BY <2>1, <3>2 DEF UpdateStatus
  <2>3. spec' = spec /\ stage = "status"
    BY <1>7 DEF StatusStep, childVars
  <2>4. CASE gw = snap /\ gw'.gen = gw.gen /\ gw'.prog = [st |-> Programmed, gen |-> gw.gen]
    <3>1. Programmed => \A r \in kids : texts[r] \in {0, gw.gen}
      <4>1. SUFFICES ASSUME Programmed, NEW r \in kids
                     PROVE  spec[r].gen \in {0, gw.gen}
        BY DEF texts
      <4>2. rendered = Templates /\ applyErr = {}
        BY <4>1 DEF Programmed, NothingMissing, LoopFailed
      <4>3. PICK t \in Templates : r \in ResourcesOf[t]
        BY DEF kids, Inputs
      <4>4. Exists(r) => spec[r].gen = snap.gen
        BY <2>3, <4>2, <4>3 DEF Core, AppliedSoFar
      <4>5. ~Exists(r) => spec[r].gen = 0
        BY DEF Exists, NoSpec
      <4>. QED
        BY <2>4, <4>4, <4>5
    <3>2. Programmed \in BOOLEAN
      BY DEF Programmed, NothingMissing, LoopFailed
    <3>3. Owner!Publish(Programmed)
      BY <2>3, <2>4, <3>1 DEF Owner!Publish, texts, kids
    <3>. QED
      BY <3>2, <3>3 DEF Owner!Next
  <2>. QED
    BY <2>2, <2>3, <2>4, OwnerStutter
<1>8. CASE RenderStep
  BY <1>8, OwnerStutter DEF RenderStep, RenderSucceeds, RenderSkipped, RenderFails, NextToRender, worldVars
<1>9. CASE \/ EditConfig \/ EditUnwatched \/ (\E r \in Resources : ChildReconcile(r))
           \/ CacheSync \/ Resync \/ TimerFires \/ ReconcileSkips \/ ReconcileRetries
           \/ ReconcileBegins \/ StatusPanics \/ Crash \/ UNCHANGED vars
  BY <1>9, OwnerStutter DEF EditConfig, EditUnwatched, ChildReconcile, CacheSync, Resync, TimerFires,
     ReconcileSkips, ReconcileRetries, ReconcileBegins, StatusPanics, Crash, vars, worldVars, childVars
<1>. QED
  BY <1>2, <1>3, <1>4, <1>5, <1>6, <1>7, <1>8, <1>9 DEF Next, Environment, Reconcile

\* Seen from outside, the Gateway controller is a ChildOwner: whatever Reconcile
\* reads from caches and whatever fails, children only move forward and
\* Programmed=True is published with no child behind it.
THEOREM GatewayImplementsOwner == Spec => ImplementsOwner
<1>1. Init => TypeInv /\ Core /\ TextsNotAhead /\ Owner!Init
  BY TypeInit, CoreInit, AheadInit, OwnerInit
<1>2. TypeInv /\ Core /\ TextsNotAhead /\ [Next]_vars => (TypeInv /\ Core /\ TextsNotAhead)'
  BY TypeNext, CoreNext, AheadNext
<1>3. TypeInv /\ TypeInv' /\ Core /\ TextsNotAhead /\ [Next]_vars => [Owner!Next]_Owner!vars
  BY OwnerNext
<1>. QED
  BY <1>1, <1>2, <1>3, PTL DEF Spec, ImplementsOwner, Owner!Spec
===============================================================================
