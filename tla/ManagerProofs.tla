---------------------------- MODULE ManagerProofs ----------------------------
(***************************************************************************)
(* The GatewayClass controller never forgets a class, for any number of    *)
(* classes, edits and faults, beside the HTTPRoute controller in the same  *)
(* process.                                                                *)
(***************************************************************************)
EXTENDS Manager, HTTPRouteControllerProofs

\* The copies of classes are no newer than the classes, one is reconciled at a time,
\* and no blueprint is found for a copy that does not name one.
CopiesBehind ==
    /\ cls \in [ClassNames -> Class] /\ clsc \in [ClassNames -> Class] /\ csnap \in Class
    /\ cvalid \in BOOLEAN /\ (cvalid => csnap.params) /\ \A c, d \in cbusy : c = d
    /\ \A c \in ClassNames : clsc[c].gen <= cls[c].gen

ClassInv == CopiesBehind /\ UnacceptedIsRetried

\* At the start every class is queued.
LEMMA ClassInvInit == Init => ClassInv
<1>. SUFFICES ASSUME Init
              PROVE  ClassInv
  OBVIOUS
<1>1. PICK st \in [ClassNames -> ClassStates], params \in [ClassNames -> BOOLEAN] :
        cls = [c \in ClassNames |-> NewClass(st[c], 1, params[c], Unset)]
  BY DEF Init, allInit, ClassInit
<1>2. cls \in [ClassNames -> Class] /\ NoClass \in Class
  BY <1>1, ClassAssumption DEF NoClass, NewClass, Unset, Class, Condition
<1>3. clsc = cls /\ csnap = NoClass /\ cvalid = FALSE /\ cqueue = ClassNames /\ cbusy = {}
  BY DEF Init, allInit, ClassInit
<1>4. CopiesBehind
  <2>1. \A c \in ClassNames : cls[c].gen \in Nat
    BY <1>2 DEF Class
  <2>2. cvalid \in BOOLEAN
    BY <1>3
  <2>3. \A c \in ClassNames : clsc[c].gen <= cls[c].gen
    BY <1>3, <2>1
  <2>. QED
    BY <1>2, <1>3, <2>2, <2>3, Zenon DEF CopiesBehind
<1>. QED
  BY <1>3, <1>4 DEF ClassInv, UnacceptedIsRetried, Pending

\* A class that is edited differs from the copy in the cache until the informer
\* delivers it, which queues the class.
LEMMA EditKeepsInv ==
    ASSUME ClassInv, NEW c \in ClassNames, EditClass(c), UNCHANGED <<cqueue, ctimer, cbusy, csnap, cvalid>>
    PROVE  ClassInv'
<1>1. clsc' = clsc
  BY DEF EditClass
<1>0. cls \in [ClassNames -> Class] /\ cls[c] \in Class /\ cls[c].gen \in Nat /\ NoClass \in Class
  BY DEF ClassInv, CopiesBehind, Class, Condition, NoClass, NewClass, Unset
<1>2. PICK new \in Class :
        /\ cls' = [cls EXCEPT ![c] = new]
        /\ (new.st = "gone" /\ new.gen = cls[c].gen) \/ new.gen = cls[c].gen + 1
  BY <1>0, ClassEdited
<1>3. CopiesBehind'
  BY <1>0, <1>1, <1>2 DEF ClassInv, CopiesBehind, Class
<1>4. clsc[c].st = "ours" => clsc[c] # cls'[c]
  BY <1>0, <1>2 DEF ClassInv, CopiesBehind, Class
<1>. QED
  BY <1>1, <1>2, <1>3, <1>4 DEF ClassInv, UnacceptedIsRetried, Pending

\* The status update is either accepted, with Accepted=True for the generation read,
\* or a retry is left behind.
LEMMA UpdateKeepsInv ==
    ASSUME ClassInv, NEW c \in ClassNames, ClassUpdated(c)
    PROVE  ClassInv'
<1>. DEFINE new == [cls[c] EXCEPT !.acc = [st |-> cvalid, gen |-> csnap.gen]]
<1>1. PICK lost \in BOOLEAN :
        /\ \/ cls[c] = csnap /\ cls' = [cls EXCEPT ![c] = new]
           \/ (cls[c] # csnap \/ lost) /\ cls' = cls
        /\ ctimer' = IF ClassRetry(cls[c] # csnap \/ lost) THEN ctimer \cup {c} ELSE ctimer
  BY Zenon DEF ClassUpdated, Overtaken
<1>2. /\ clsc' = clsc /\ cqueue' = cqueue /\ cbusy' = {}
      /\ csnap' = NoClass /\ cvalid' = FALSE
  BY DEF ClassUpdated
<1>3. new \in Class /\ new.gen = cls[c].gen /\ new.acc = [st |-> cvalid, gen |-> csnap.gen]
  BY DEF ClassInv, CopiesBehind, Class, Condition
<1>. HIDE DEF new
<1>4. /\ cls' \in [ClassNames -> Class] /\ cls'[c].gen = cls[c].gen
      /\ \A d \in ClassNames : d # c => cls'[d] = cls[d]
  BY <1>1, <1>3 DEF ClassInv, CopiesBehind
<1>5. CopiesBehind'
  <2>1. NoClass \in Class
    BY DEF NoClass, NewClass, Unset, Class, Condition
  <2>. QED
    BY <1>2, <1>4, <2>1 DEF ClassInv, CopiesBehind
<1>6. \A d \in ClassNames : d # c /\ Pending(d) => Pending(d)'
  <2>1. \A d \in cbusy : d = c
    BY DEF ClassUpdated, ClassInv, CopiesBehind
  <2>. QED
    BY <1>1, <1>2, <2>1 DEF Pending
<1>. QED
  BY <1>1, <1>2, <1>3, <1>4, <1>5, <1>6 DEF ClassInv, UnacceptedIsRetried, Pending, ClassRetry

\* A key leaves the queue only for a class of another controller, or into a call.
LEMMA DequeueKeepsInv ==
    ASSUME ClassInv, NEW c \in ClassNames, ClassSkipped(c) \/ ClassLookedUp(c)
    PROVE  ClassInv'
<1>1. CASE ClassSkipped(c)
  BY <1>1 DEF ClassSkipped, ClassDequeue, isOurGatewayClass, worldVars, ClassInv, CopiesBehind,
              UnacceptedIsRetried, Pending
<1>2. CASE ClassLookedUp(c)
  <2>1. PICK failed \in BOOLEAN : cvalid' = LookupResult(c, failed)
    BY <1>2 DEF ClassLookedUp
  <2>2. cvalid' \in BOOLEAN /\ (cvalid' => clsc[c].params)
    BY <2>1 DEF LookupResult, BlueprintFound, ClassInv, CopiesBehind, Class
  <2>3. /\ cls' = cls /\ clsc' = clsc /\ csnap' = clsc[c] /\ ctimer' = ctimer
        /\ cbusy = {} /\ cbusy' = {c} /\ cqueue' = cqueue \ {c}
    BY <1>2 DEF ClassLookedUp, ClassDequeue, worldVars
  <2>4. CopiesBehind'
    BY <2>2, <2>3 DEF ClassInv, CopiesBehind
  <2>. QED
    BY <2>3, <2>4 DEF ClassInv, UnacceptedIsRetried, Pending
<1>. QED
  BY <1>1, <1>2

\* Every step of the manager, of its environment or of the route controller.
LEMMA ClassInvNext == ClassInv /\ [Next]_vars => ClassInv'
<1>. SUFFICES ASSUME ClassInv, [Next]_vars
              PROVE  ClassInv'
  OBVIOUS
<1>. USE DEF ClassInv
<1>1. ASSUME UNCHANGED <<cls, clsc, classVars>>
      PROVE  ClassInv'
  BY <1>1 DEF classVars, CopiesBehind, UnacceptedIsRetried, Pending
<1>2. CASE ClassWorld
  <2>1. PICK c \in ClassNames : EditClass(c) \/ EditBlueprint(c)
    BY <1>2 DEF ClassWorld
  <2>2. CASE EditClass(c)
    BY <1>2, <2>2, EditKeepsInv DEF ClassWorld, classVars
  <2>3. CASE EditBlueprint(c)
    BY <1>1, <1>2, <2>3 DEF ClassWorld, EditBlueprint
  <2>. QED
    BY <2>1, <2>2, <2>3
<1>3. CASE ClassStep
  <2>1. PICK c \in ClassNames :
          \/ ClassCacheSync(c) \/ ClassResync(c) \/ ClassTimerFires(c)
          \/ ClassSkipped(c) \/ ClassLookedUp(c) \/ ClassUpdated(c)
    BY <1>3 DEF ClassStep, ClassReconcile
  <2>2. CASE ClassCacheSync(c)
    <3>1. CopiesBehind'
      BY <2>2 DEF ClassCacheSync, CopiesBehind, Class
    <3>. QED
      BY <2>2, <3>1 DEF ClassCacheSync, CopiesBehind, UnacceptedIsRetried, Pending
  <2>3. CASE ClassResync(c) \/ ClassTimerFires(c)
    BY <2>3 DEF ClassResync, ClassTimerFires, worldVars, CopiesBehind, UnacceptedIsRetried, Pending
  <2>4. CASE ClassSkipped(c) \/ ClassLookedUp(c)
    BY <2>4, DequeueKeepsInv
  <2>5. CASE ClassUpdated(c)
    BY <2>5, UpdateKeepsInv
  <2>. QED
    BY <2>1, <2>2, <2>3, <2>4, <2>5
<1>4. CASE Restart
  <2>1. /\ cls' = cls /\ clsc' = cls /\ cqueue' = {c \in ClassNames : cls[c].st # "gone"}
        /\ cbusy' = {} /\ csnap' = NoClass /\ cvalid' = FALSE
    BY <1>4 DEF Restart, ClassRestart
  <2>2. NoClass \in Class
    BY DEF NoClass, NewClass, Unset, Class, Condition
  <2>3. CopiesBehind'
    <3>1. \A c \in ClassNames : cls[c].gen \in Nat
      BY DEF CopiesBehind, Class
    <3>2. \A c \in ClassNames : clsc'[c].gen <= cls'[c].gen
      BY <2>1, <3>1
    <3>3. cvalid' \in BOOLEAN
      BY <2>1
    <3>. QED
      BY <2>1, <2>2, <3>2, <3>3 DEF CopiesBehind
  <2>. QED
    BY <2>1, <2>3 DEF UnacceptedIsRetried, Pending
<1>5. CASE UNCHANGED vars
  BY <1>1, <1>5 DEF vars, allVars, worldVars
<1>. QED
  BY <1>1, <1>2, <1>3, <1>4, <1>5 DEF Next

\* A class of this controller that is not accepted in its present form is always
\* looked at again, although its blueprint is not watched: Reconcile leaves either
\* Accepted=True for the generation it read, or an error and with it a retry, or a
\* newer class that the informer still has to deliver.
THEOREM ClassesAreNotForgotten == Spec => []UnacceptedIsRetried
<1>1. Spec => []ClassInv
  BY ClassInvInit, ClassInvNext, PTL DEF Spec
<1>2. ClassInv => UnacceptedIsRetried
  BY DEF ClassInv
<1>. QED
  BY <1>1, <1>2, PTL

\* The condition of a class changes in its status update only, which must find the
\* class that was looked up.
LEMMA ConditionStep ==
    ASSUME ClassInv, [Next]_vars, NEW c \in ClassNames,
           cls'[c].gen = cls[c].gen, cls'[c].acc # cls[c].acc
    PROVE  cls'[c].acc.gen = cls[c].gen /\ (cls'[c].acc.st => cls[c].params)
<1>0. cls \in [ClassNames -> Class] /\ \A d \in ClassNames : cls[d] \in Class /\ cls[d].gen \in Nat
  BY DEF ClassInv, CopiesBehind, Class
<1>1. ASSUME NEW d \in ClassNames, EditClass(d)
      PROVE  FALSE
  <2>0. PICK new \in Class :
          /\ cls' = [cls EXCEPT ![d] = new]
          /\ (new.acc = cls[d].acc /\ new.gen = cls[d].gen) \/ new.gen = cls[d].gen + 1
    <3>1. CASE cls[d].st = "gone" /\ \E st \in ClassStates, p \in BOOLEAN :
                 cls' = [cls EXCEPT ![d] = NewClass(st, cls[d].gen + 1, p, Unset)]
      <4>1. PICK st \in ClassStates, p \in BOOLEAN :
              cls' = [cls EXCEPT ![d] = NewClass(st, cls[d].gen + 1, p, Unset)]
        BY <3>1
      <4>2. /\ NewClass(st, cls[d].gen + 1, p, Unset) \in Class
            /\ NewClass(st, cls[d].gen + 1, p, Unset).gen = cls[d].gen + 1
        BY <1>0, ClassAssumption DEF NewClass, Unset, Class, Condition
      <4>. QED
        BY <4>1, <4>2
    <3>2. CASE cls' = [cls EXCEPT ![d] = [cls[d] EXCEPT !.st = "gone"]]
      <4>1. /\ [cls[d] EXCEPT !.st = "gone"] \in Class
            /\ [cls[d] EXCEPT !.st = "gone"].acc = cls[d].acc
            /\ [cls[d] EXCEPT !.st = "gone"].gen = cls[d].gen
        BY <1>0 DEF Class
      <4>. QED
        BY <3>2, <4>1
    <3>3. CASE \E p \in BOOLEAN :
                 cls' = [cls EXCEPT ![d] = NewClass(cls[d].st, cls[d].gen + 1, p, cls[d].acc)]
      <4>1. PICK p \in BOOLEAN :
              cls' = [cls EXCEPT ![d] = NewClass(cls[d].st, cls[d].gen + 1, p, cls[d].acc)]
        BY <3>3
      <4>2. /\ NewClass(cls[d].st, cls[d].gen + 1, p, cls[d].acc) \in Class
            /\ NewClass(cls[d].st, cls[d].gen + 1, p, cls[d].acc).gen = cls[d].gen + 1
        BY <1>0 DEF NewClass, Class
      <4>. QED
        BY <4>1, <4>2
    <3>. QED
      BY <1>1, <3>1, <3>2, <3>3 DEF EditClass
  <2>. QED
    BY <1>0, <2>0
<1>2. ASSUME NEW d \in ClassNames, ClassUpdated(d)
      PROVE  cls'[c].acc.gen = cls[c].gen /\ (cls'[c].acc.st => cls[c].params)
  <2>. DEFINE new == [cls[d] EXCEPT !.acc = [st |-> cvalid, gen |-> csnap.gen]]
  <2>1. cls' = cls \/ (cls[d] = csnap /\ cls' = [cls EXCEPT ![d] = new])
    BY <1>2, Zenon DEF ClassUpdated, Overtaken
  <2>2. new.acc.gen = csnap.gen /\ new.acc.st = cvalid
    BY <1>0 DEF Class
  <2>. HIDE DEF new
  <2>3. c = d /\ cls[d] = csnap /\ cls'[d] = new
    BY <1>0, <2>1
  <2>. QED
    BY <2>2, <2>3 DEF ClassInv, CopiesBehind
<1>3. cls' = cls \/ \E d \in ClassNames : EditClass(d) \/ ClassUpdated(d)
  <2>1. CASE ClassWorld
    BY <2>1 DEF ClassWorld, EditBlueprint
  <2>2. CASE ClassStep
    BY <2>2 DEF ClassStep, ClassReconcile, ClassCacheSync, ClassResync, ClassTimerFires, ClassSkipped,
                ClassLookedUp, worldVars
  <2>3. CASE Restart
    BY <2>3 DEF Restart, ClassRestart
  <2>4. CASE UNCHANGED vars
    BY <2>4 DEF vars, allVars, worldVars
  <2>. QED
    BY <2>1, <2>2, <2>3, <2>4 DEF Next
<1>. QED
  BY <1>1, <1>2, <1>3

\* No lookup that was overtaken is published: between the lookup of the blueprint and
\* the status update the class may be edited, deleted or created again, and then the
\* update is rejected by its resource version.
THEOREM AcceptedKeepsUp == Spec => AcceptedIsCurrent
<1>1. Spec => []ClassInv
  BY ClassInvInit, ClassInvNext, PTL DEF Spec
<1>2. ClassInv /\ [Next]_vars =>
        [\A c \in ClassNames : cls'[c].gen = cls[c].gen /\ cls'[c].acc # cls[c].acc
           => cls'[c].acc.gen = cls[c].gen /\ (cls'[c].acc.st => cls[c].params)]_vars
  BY ConditionStep
<1>. QED
  BY <1>1, <1>2, PTL DEF Spec, AcceptedIsCurrent

-------------------------------------------------------------------------------
(* The HTTPRoute controller beside it *)

\* A status update changes neither the controller of a class nor any other class.
LEMMA UpdateKnown ==
    ASSUME ClassInv, RouteTypes, NEW c \in ClassNames, ClassUpdated(c)
    PROVE  ClassesKnown'
<1>. DEFINE new == [cls[c] EXCEPT !.acc = [st |-> cvalid, gen |-> csnap.gen]]
<1>1. clsc' = clsc /\ (cls' = cls \/ cls' = [cls EXCEPT ![c] = new])
  BY Zenon DEF ClassUpdated
<1>2. new \in Class /\ new.st = cls[c].st
  BY DEF ClassInv, CopiesBehind, Class, Condition
<1>. HIDE DEF new
<1>. QED
  BY <1>1, <1>2 DEF RouteTypes, ClassesKnown

\* The steps of the GatewayClass controller change nothing that the invariant of the
\* route controller is about, except what its lookups find.
LEMMA ClassStepKeepsRoute ==
    ASSUME ClassInv, RouteInv, ClassStep
    PROVE  RouteInv'
<1>0. RouteTypes /\ CopiesInv /\ UNCHANGED routeVars
  BY DEF RouteInv, ClassStep
<1>1. PICK c \in ClassNames :
        \/ ClassCacheSync(c) \/ ClassResync(c) \/ ClassTimerFires(c)
        \/ ClassSkipped(c) \/ ClassLookedUp(c) \/ ClassUpdated(c)
  BY DEF ClassStep, ClassReconcile
<1>2. CASE ClassCacheSync(c)
  BY <1>0, <1>2, ClassStepInv
<1>3. CASE ~ClassCacheSync(c)
  <2>1. edits' = edits
    BY <1>1, <1>3 DEF ClassResync, ClassTimerFires, ClassSkipped, ClassLookedUp, ClassUpdated, worldVars
  <2>2. ClassesKnown'
    <3>1. CASE ClassUpdated(c)
      BY <1>0, <3>1, UpdateKnown
    <3>2. CASE ~ClassUpdated(c)
      <4>1. UNCHANGED <<cls, clsc>>
        BY <1>1, <1>3, <3>2 DEF ClassResync, ClassTimerFires, ClassSkipped, ClassLookedUp, worldVars
      <4>. QED
        BY <1>0, <4>1 DEF RouteTypes, ClassesKnown
    <3>. QED
      BY <3>1, <3>2
  <2>3. RouteTypeOK'
    BY <1>0 DEF RouteTypes, RouteTypeOK, routeVars, callVars, tmplVars, childVars
  <2>4. (InLoop => todo # <<>> /\ IsGateway /\ LoopTypes)'
    BY <1>0, LoopTypesKept DEF routeVars
  <2>5. RouteTypes'
    BY <1>0, <2>1, <2>2, <2>3, <2>4 DEF RouteTypes
  <2>6. edits <= edits'
    BY <1>0, <2>1, ClassAssumption DEF RouteTypes
  <2>. QED
    BY <1>0, <2>5, <2>6, OthersOutside, OutsideKeeps
<1>. QED
  BY <1>2, <1>3

\* Every step of the manager, its environment and a restart.
LEMMA RouteInvNext == ClassInv /\ RouteInv /\ [Next]_vars => RouteInv'
<1>. SUFFICES ASSUME ClassInv, RouteInv, [Next]_vars
              PROVE  RouteInv'
  OBVIOUS
<1>1. CASE ClassWorld
  BY <1>1, ClassStepInv DEF ClassWorld
<1>2. CASE ClassStep
  BY <1>2, ClassStepKeepsRoute
<1>3. CASE (RouteWorld \/ RouteStep) /\ UNCHANGED <<cls, clsc, bps, classVars>>
  BY <1>3, RouteStepInv
<1>4. CASE Restart
  BY <1>4, RestartInv DEF Restart, ClassRestart
<1>5. CASE UNCHANGED vars
  BY <1>5, InvNext DEF vars
<1>. QED
  BY <1>1, <1>2, <1>3, <1>4, <1>5 DEF Next

\* The route controller loses no wake-up either while the GatewayClass controller runs
\* beside it in one process, which dies with both in the middle of what they do.
THEOREM ManagerKeepsWakeups == Spec => [](UnacceptedIsRetried /\ RouteNoLostWakeup /\ RouteTypeOK)
<1>1. Spec => [](ClassInv /\ RouteInv)
  BY ClassInvInit, ClassInvNext, InvInit, RouteInvNext, PTL DEF Spec, Init
<1>2. ClassInv /\ RouteInv => UnacceptedIsRetried /\ RouteNoLostWakeup /\ RouteTypeOK
  BY DEF ClassInv, RouteInv, RouteTypes
<1>. QED
  BY <1>1, <1>2, PTL

\* An entry of a parent is written with up to date children also beside the GatewayClass
\* controller, which touches neither the route nor its children.
THEOREM ManagerBacksEntries == Spec => EntryIsBacked
<1>. DEFINE Backed == \A p \in rt'.entries \ rt.entries : ~unrendered =>
                        \A r \in ResourcesFor(GatewayOf[p]) : Exists(r) => spec[r].gen = rt.gen
<1>1. ClassInv /\ RouteInv /\ [Next]_vars => [Backed]_allVars
  <2>. SUFFICES ASSUME RouteInv, Next
                PROVE  Backed
    BY DEF vars
  <2>1. CASE ClassWorld \/ ClassStep
    BY <2>1 DEF ClassWorld, ClassStep, routeVars
  <2>2. CASE (RouteWorld \/ RouteStep) /\ UNCHANGED <<cls, clsc, bps, classVars>>
    BY <2>2, EntryStep DEF RouteNext
  <2>3. CASE Restart
    BY <2>3 DEF Restart, RouteRestart
  <2>. QED
    BY <2>1, <2>2, <2>3 DEF Next
<1>2. Spec => [](ClassInv /\ RouteInv)
  BY ClassInvInit, ClassInvNext, InvInit, RouteInvNext, PTL DEF Spec, Init
<1>3. Spec => [][Backed]_allVars
  BY <1>1, <1>2, PTL DEF Spec
<1>. QED
  BY <1>3 DEF EntryIsBacked


\* What a Restart of the manager does to the route, and what the GatewayClass controller
\* and its world do to it: nothing that a user of the API server sees.
LEMMA ManagerSteps ==
    ASSUME RouteInv, TextsNotAhead, [Next]_vars
    PROVE  TextsNotAhead' /\ [Owner!Next]_Owner!vars
<1>0. /\ rtc.gen \in Nat /\ rt.gen \in Nat /\ rtc.gen <= rt.gen
      /\ \A r \in Resources : spec[r].gen \in Nat
  BY RouteFields DEF RouteInv, RouteTypes, RouteTypeOK, CopiesInv, Behind, Text
<1>1. CASE ClassWorld \/ ClassStep \/ UNCHANGED vars
  <2>1. UNCHANGED <<rt, rtc, spec, unrendered, stage, snap>>
    BY <1>1 DEF ClassWorld, ClassStep, routeVars, vars, allVars, childVars, callVars
  <2>2. UNCHANGED Owner!vars
    BY <2>1, OwnerStutter
  <2>. QED
    BY <2>1, <2>2 DEF TextsNotAhead, InCall
<1>2. CASE (RouteWorld \/ RouteStep) /\ UNCHANGED <<cls, clsc, bps, classVars>>
  <2>1. [RouteNext]_allVars
    BY <1>2 DEF RouteNext
  <2>. QED
    BY <2>1, AheadNext, OwnerNext
<1>3. CASE Restart
  <2>1. rtc' = rt /\ stage' = "idle" /\ UNCHANGED <<rt, spec, unrendered>>
    BY <1>3 DEF Restart, RouteRestart, EndCall, childVars
  <2>2. UNCHANGED Owner!vars
    BY <2>1, OwnerStutter
  <2>3. TextsNotAhead'
    BY <1>0, <2>1 DEF TextsNotAhead, InCall
  <2>. QED
    BY <2>2, <2>3
<1>. QED
  BY <1>1, <1>2, <1>3 DEF Next

\* The promise of the HTTPRoute controller holds in the composition: what the other
\* controller does, and a restart of both, are stuttering steps of RouteOwner.
THEOREM ManagerKeepsPromise == Spec => RouteImplementsOwner
<1>1. Init => ClassInv /\ RouteInv /\ TextsNotAhead /\ Owner!Init
  BY ClassInvInit, InvInit, AheadInit, OwnerInit DEF Init
<1>2. /\ ClassInv /\ RouteInv /\ TextsNotAhead /\ [Next]_vars => (ClassInv /\ RouteInv /\ TextsNotAhead)'
      /\ ClassInv /\ RouteInv /\ TextsNotAhead /\ [Next]_vars => [Owner!Next]_Owner!vars
  BY ClassInvNext, RouteInvNext, ManagerSteps
<1>. QED
  BY <1>1, <1>2, PTL DEF Spec, RouteImplementsOwner, Owner!Spec
===============================================================================
