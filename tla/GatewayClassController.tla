------------------------ MODULE GatewayClassController ------------------------
(***************************************************************************)
(* The GatewayClass controller (controllers/gatewayclass_controller.go),   *)
(* and the classes and blueprints that all three controllers look up.      *)
(*                                                                         *)
(* A Reconcile reads the informer caches in one step and writes the status *)
(* in another one; classes and blueprints change in between.  Blueprints   *)
(* are not watched.  Each class names a blueprint of its own.              *)
(***************************************************************************)
EXTENDS Naturals, FiniteSets

CONSTANTS
    ClassNames,       \* keys of GatewayClass objects
    ClassStates,      \* whose classes are created: "ours" or "foreign"
    BlueprintStates,  \* "missing", "ok", or "broken": its templates do not parse
    MaxEdits,         \* bound: edits of classes, blueprints and other inputs
    MaxFaults         \* bound: failed calls, restarts, lost children

ASSUME ClassAssumption ==
    /\ ClassStates \subseteq {"ours", "foreign"}
    /\ BlueprintStates \subseteq {"missing", "ok", "broken"}
    /\ MaxEdits \in Nat /\ MaxFaults \in Nat

VARIABLES
    cls,     \* the GatewayClasses on the API server
    clsc,    \* their copies in the informer cache
    bps,     \* the blueprint each class names
    cqueue,  \* work queue of the GatewayClass controller
    ctimer,  \* classes with a delayed requeue
    cbusy,   \* the class being reconciled, if any
    csnap,   \* the copy read by the Reconcile in progress
    cvalid,  \* local of Reconcile: the blueprint was found
    edits,   \* edits so far; the version of all inputs
    faults   \* failures so far

worldVars == <<cls, clsc, bps, edits>>
classVars == <<cqueue, ctimer, cbusy, csnap, cvalid>>

Condition == [st : BOOLEAN, gen : Nat]
Unset     == [st |-> FALSE, gen |-> 0]

\* gen counts the creations and the changes of the spec of an object, so that it
\* stands for uid and generation; params: parametersRef has the right kind.
Class   == [st : {"ours", "foreign", "gone"}, gen : Nat, params : BOOLEAN, acc : Condition]
NewClass(st, gen, params, acc) == [st |-> st, gen |-> gen, params |-> params, acc |-> acc]
NoClass == NewClass("gone", 0, FALSE, Unset)

ClassTypeOK ==
    /\ cls \in [ClassNames -> Class] /\ clsc \in [ClassNames -> Class]
    /\ bps \in [ClassNames -> BlueprintStates]
    /\ cqueue \subseteq ClassNames /\ ctimer \subseteq ClassNames /\ cbusy \subseteq ClassNames
    /\ csnap \in Class /\ cvalid \in BOOLEAN
    /\ edits \in 0..MaxEdits /\ faults \in 0..MaxFaults

ClassInit ==
    /\ \E st \in [ClassNames -> ClassStates], params \in [ClassNames -> BOOLEAN] :
         cls = [c \in ClassNames |-> NewClass(st[c], 1, params[c], Unset)]
    /\ clsc = cls
    /\ bps \in [ClassNames -> BlueprintStates]
    /\ cqueue = ClassNames /\ ctimer = {} /\ cbusy = {}
    /\ csnap = NoClass /\ cvalid = FALSE
    /\ edits = 0 /\ faults = 0

Faults(n) == faults + n <= MaxFaults /\ faults' = faults + n
FaultIf(b) == Faults(IF b THEN 1 ELSE 0)

-------------------------------------------------------------------------------
(* Users and informers *)

Edit == edits < MaxEdits /\ edits' = edits + 1

\* A class is created, deleted or gets another parametersRef.  The API server
\* does not let controllerName change.
EditClass(c) ==
    /\ Edit
    /\ \/ /\ cls[c].st = "gone"
          /\ \E st \in ClassStates, p \in BOOLEAN :
               cls' = [cls EXCEPT ![c] = NewClass(st, cls[c].gen + 1, p, Unset)]
       \/ cls[c].st # "gone" /\ cls' = [cls EXCEPT ![c] = [cls[c] EXCEPT !.st = "gone"]]
       \/ /\ cls[c].st # "gone"
          /\ \E p \in BOOLEAN :
               cls' = [cls EXCEPT ![c] = NewClass(cls[c].st, cls[c].gen + 1, p, cls[c].acc)]
    /\ UNCHANGED <<clsc, bps, faults>>

\* A blueprint is created, deleted or edited.
EditBlueprint(c) ==
    /\ Edit
    /\ \E b \in BlueprintStates : bps' = [bps EXCEPT ![c] = b]
    /\ UNCHANGED <<cls, clsc, faults>>

ClassCacheSync(c) ==
    /\ clsc[c] # cls[c]
    /\ clsc' = [clsc EXCEPT ![c] = cls[c]]
    /\ cqueue' = cqueue \cup {c}
    /\ UNCHANGED <<cls, bps, edits, faults, ctimer, cbusy, csnap, cvalid>>

\* The periodic resync of the informer.
ClassResync(c) ==
    /\ clsc[c].st # "gone" /\ c \notin cqueue
    /\ cqueue' = cqueue \cup {c}
    /\ UNCHANGED <<worldVars, faults, ctimer, cbusy, csnap, cvalid>>

ClassTimerFires(c) ==
    /\ c \in ctimer
    /\ ctimer' = ctimer \ {c}
    /\ cqueue' = cqueue \cup {c}
    /\ UNCHANGED <<worldVars, faults, cbusy, csnap, cvalid>>

-------------------------------------------------------------------------------
(* Lookups of common.go, on the caches *)

isOurGatewayClass(c) == clsc[c].st = "ours"

\* lookupGatewayClassBlueprint returns no error.
BlueprintFound(c) == clsc[c].params /\ bps[c] # "missing"

-------------------------------------------------------------------------------
(* Reconcile *)

\* MUTANT: the lookup of a class that was accepted before is skipped.
LookupResultSticky(c, failed) == clsc[c].acc.st \/ (BlueprintFound(c) /\ ~failed)

\* Any error of the lookup counts as a missing blueprint.
LookupResult(c, failed) == BlueprintFound(c) /\ ~failed

ClassDequeue(c) == cbusy = {} /\ c \in cqueue /\ cqueue' = cqueue \ {c}

\* The class is not found or belongs to another controller.  Reconcile swallows any
\* error of this Get; its informer is synced before the controller starts, so there
\* is no other error than not found.
ClassSkipped(c) ==
    /\ ClassDequeue(c)
    /\ ~isOurGatewayClass(c)
    /\ UNCHANGED <<worldVars, faults, ctimer, cbusy, csnap, cvalid>>

ClassLookedUp(c) ==
    /\ ClassDequeue(c)
    /\ isOurGatewayClass(c)
    /\ \E failed \in BOOLEAN : FaultIf(failed) /\ cvalid' = LookupResult(c, failed)
    /\ cbusy' = {c} /\ csnap' = clsc[c]
    /\ UNCHANGED <<worldVars, ctimer>>

\* MUTANT: a class without a blueprint is not looked at again.
ClassRetryOnError(rejected) == rejected

\* Reconcile returns an error: the update failed or the blueprint is missing.
ClassRetry(rejected) == rejected \/ ~cvalid

\* MUTANT: the status is patched, without the resource version of the class read.
OvertakenNever(c) == FALSE

\* The class is no longer the one read.
Overtaken(c) == cls[c] # csnap

\* Status().Update: rejected when the class is no longer the one read, and
\* (lost) it may fail on its own, whether or not it was carried out.
ClassUpdated(c) ==
    /\ c \in cbusy
    /\ LET new == [cls[c] EXCEPT !.acc = [st |-> cvalid, gen |-> csnap.gen]]
       IN \E lost \in BOOLEAN :
            /\ FaultIf(lost)
            /\ \/ ~Overtaken(c) /\ cls' = [cls EXCEPT ![c] = new]
               \/ (Overtaken(c) \/ lost) /\ cls' = cls
            /\ ctimer' = IF ClassRetry(Overtaken(c) \/ lost) THEN ctimer \cup {c} ELSE ctimer
    /\ cbusy' = {} /\ csnap' = NoClass /\ cvalid' = FALSE
    /\ UNCHANGED <<clsc, bps, edits, cqueue>>

ClassReconcile ==
    \E c \in ClassNames : ClassSkipped(c) \/ ClassLookedUp(c) \/ ClassUpdated(c)

\* The process is restarted: the new one lists all classes and queues them.
ClassRestart ==
    /\ clsc' = cls
    /\ cqueue' = {c \in ClassNames : cls[c].st # "gone"}
    /\ ctimer' = {} /\ cbusy' = {} /\ csnap' = NoClass /\ cvalid' = FALSE
    /\ UNCHANGED <<cls, bps, edits>>

-------------------------------------------------------------------------------
(* Properties *)

Pending(c) == c \in cqueue \cup ctimer \cup cbusy

\* A class that is not accepted in its present form is looked at again: whatever
\* was edited during a Reconcile, failed or was restarted, a class of this
\* controller without Accepted=True for its generation is queued, being
\* reconciled or waiting for a retry, although nothing watches its blueprint.
UnacceptedIsRetried ==
    \A c \in ClassNames : clsc[c].st = "ours" /\ clsc[c] = cls[c] /\ ~Pending(c)
        => cls[c].acc = [st |-> TRUE, gen |-> cls[c].gen]

\* Accepted tells whether the class has a blueprint.
ClassSettled ==
    \A c \in ClassNames : cls[c].st = "ours"
        => cls[c].acc = [st |-> cls[c].params /\ bps[c] # "missing", gen |-> cls[c].gen]
===============================================================================
