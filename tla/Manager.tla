------------------------------- MODULE Manager -------------------------------
(***************************************************************************)
(* The manager process (main.go) with its GatewayClass and its HTTPRoute   *)
(* controller, which share one cache and one API server and run at the     *)
(* same time.  A restart stops both in the middle of what they do.         *)
(***************************************************************************)
EXTENDS HTTPRouteController

vars == allVars

Init == allInit

ClassWorld ==
    /\ \E c \in ClassNames : EditClass(c) \/ EditBlueprint(c)
    /\ UNCHANGED <<classVars, routeVars>>

ClassStep ==
    /\ \/ \E c \in ClassNames : ClassCacheSync(c) \/ ClassResync(c) \/ ClassTimerFires(c)
       \/ ClassReconcile
    /\ UNCHANGED routeVars

\* The process dies; the next one reads everything anew.
Restart == Faults(1) /\ ClassRestart /\ RouteRestart

Next ==
    \/ ClassWorld \/ ClassStep
    \/ (RouteWorld \/ RouteStep) /\ UNCHANGED <<cls, clsc, bps, classVars>>
    \/ Restart

Spec == Init /\ [][Next]_vars

\* Both controllers and their informers make progress.
Fairness ==
    /\ RouteFairness
    /\ WF_vars(ClassReconcile /\ UNCHANGED routeVars)
    /\ \A c \in ClassNames :
         /\ WF_vars(ClassResync(c) /\ UNCHANGED routeVars)
         /\ WF_vars(ClassTimerFires(c) /\ UNCHANGED routeVars)

FairSpec == Spec /\ Fairness

TypeOK == ClassTypeOK /\ RouteTypeOK

\* A lookup that was overtaken is not published: whatever happens between the lookup
\* and the status update, the condition of a class only changes to one for its
\* present generation, and to Accepted=True only if that one names a blueprint.
AcceptedIsCurrent ==
    [][\A c \in ClassNames : cls'[c].gen = cls[c].gen /\ cls'[c].acc # cls[c].acc
         => cls'[c].acc.gen = cls[c].gen /\ (cls'[c].acc.st => cls[c].params)]_vars

\* Accepted is reported for the present form of every class, whatever failed, was
\* edited behind a Reconcile or was restarted, although a class that is accepted
\* is not looked at again before the next resync.
ClassesSettle == <>[]ClassSettled

\* What the one controller reports the other one acts on: a route ends up with up
\* to date children for a parent of a class that reports Accepted=True, unless the
\* blueprint of a parent does not parse, which Accepted does not tell.
AcceptedClass(c) == cls[c].st = "ours" /\ cls[c].acc.st
AcceptedIsServed ==
    <>[](rt.st = "live" /\ (\A i \in Refs : ~Broken(rt.refs[i])) =>
           \A i \in Refs : LET p == rt.refs[i]  g == GatewayOf[p] IN
             RefKind[p] = "Gateway" /\ gws[g] = "live" /\ AcceptedClass(ClassOf[g])
               => \A r \in ResourcesFor(g) : Exists(r) /\ spec[r].gen = rt.gen)
===============================================================================
