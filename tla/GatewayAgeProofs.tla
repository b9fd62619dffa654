--------------------------- MODULE GatewayAgeProofs ---------------------------
(***************************************************************************)
(* No child of a Gateway is ever overwritten by an older text, for every   *)
(* blueprint and every bound.  That a text is not of an older generation   *)
(* follows from TextsNotAhead.  That it is not computed from older inputs  *)
(* is harder: a text depends on the outputs of other children, as they     *)
(* were when this or an earlier call fetched them, and those children on   *)
(* others again.  The invariant relates each text to everything that can   *)
(* still be read from the templates that feed it, however indirectly.      *)
(***************************************************************************)
EXTENDS GatewayControllerProofs

(* The templates that feed a template *)

\* What template t reads, directly or through the children of other templates: the
\* least set that contains its references and theirs.
Upstream(t) ==
    {d \in Templates : \A C \in SUBSET Templates :
        Deps[t] \subseteq C /\ (\A e \in C : Deps[e] \subseteq C) => d \in C}

\* The ages of the texts of template t, applied or about to be.
TextAges(t) ==
    {spec[r].age : r \in {q \in ResourcesOf[t] : Exists(q)}} \cup (IF t \in rendered THEN {tspec[t].age} ELSE {})

\* The ages that are or may become an output of template d, or are read as one.
OutputAges(d) ==
    TextAges(d) \cup (({OutputNow(q) : q \in ResourcesOf[d]} \cup {Output(q, cur[q]) : q \in ResourcesOf[d]}) \ {0})

-------------------------------------------------------------------------------
(* The inductive invariant *)

\* No text is newer than anything that can still be read from what feeds it.
Chained == \A t \in Templates : \A d \in Upstream(t) :
    \A x \in TextAges(t), y \in OutputAges(d) : x <= y

\* What a child's controller has acted on is no newer than the child, a copy is no
\* newer than its original or than the text of this call, and no child is newer than
\* the text this call applies to it.
AgesOrdered ==
    /\ \A r \in Resources : seen[r].age <= spec[r].age
    /\ \A t \in Templates : \A r \in ResourcesOf[t] :
         /\ t \in rendered /\ Exists(r) => spec[r].age <= tspec[t].age
         /\ Fetched(r) => /\ t \in rendered
                          /\ cur[r].seen.age <= cur[r].spec.age /\ cur[r].spec.age <= tspec[t].age
                          /\ Exists(r) => cur[r].spec.age <= spec[r].age
                          /\ seen[r].age # 0 => cur[r].seen.age <= seen[r].age

\* No text is newer than what the cache has seen and what the call has read.
AgesBounded ==
    /\ \A r \in Resources : spec[r].age <= gwc.gen + inp /\ (stage # "idle" => spec[r].age <= Fresh)
    /\ stage # "idle" => Fresh <= gwc.gen + inp /\ \A t \in rendered : tspec[t].age <= Fresh

AgeInv == AgesBounded /\ AgesOrdered /\ Chained
-------------------------------------------------------------------------------
(* Lemmas about the operators *)

USE TemplatingAssumption

\* What feeds a template is what it refers to ...
LEMMA UpstreamDeps ==
    ASSUME NEW t \in Templates
    PROVE  Deps[t] \subseteq Upstream(t) /\ Upstream(t) \subseteq Templates
  BY DEF Upstream

\* ... and what feeds that: nothing is left out ...
LEMMA UpstreamClosed ==
    ASSUME NEW t \in Templates, NEW e \in Upstream(t)
    PROVE  Deps[e] \subseteq Upstream(t)
<1>. SUFFICES ASSUME NEW d \in Deps[e], NEW C \in SUBSET Templates,
                     Deps[t] \subseteq C, \A f \in C : Deps[f] \subseteq C
              PROVE  d \in Templates /\ d \in C
  <2>1. e \in Templates
    BY DEF Upstream
  <2>. QED
    BY <2>1 DEF Upstream
<1>1. e \in C /\ e \in Templates
  BY DEF Upstream
<1>. QED
  BY <1>1

\* ... and there is nothing else.
LEMMA UpstreamSplit ==
    ASSUME NEW t \in Templates, NEW d \in Upstream(t), d \notin Deps[t]
    PROVE  \E e \in Deps[t] : d \in Upstream(e)
<1>. DEFINE C == Deps[t] \cup UNION {Upstream(e) : e \in Deps[t]}
<1>1. C \in SUBSET Templates /\ Deps[t] \subseteq C
  BY UpstreamDeps
<1>2. \A f \in C : Deps[f] \subseteq C
  <2>1. \A f \in Deps[t] : Deps[f] \subseteq Upstream(f)
    BY UpstreamDeps
  <2>2. \A e \in Deps[t] : \A f \in Upstream(e) : Deps[f] \subseteq Upstream(e)
    BY UpstreamClosed
  <2>. QED
    BY <2>1, <2>2
<1>3. d \in C
  BY <1>1, <1>2, Zenon DEF Upstream
<1>. QED
  BY <1>3

\* Ages are natural numbers.
LEMMA Ages ==
    ASSUME TypeInv
    PROVE  /\ \A r \in Resources :
                /\ spec[r].age \in Nat /\ seen[r].age \in Nat
                /\ cur[r].spec.age \in Nat /\ cur[r].seen.age \in Nat
                /\ OutputNow(r) \in Nat /\ Output(r, cur[r]) \in Nat
           /\ \A t \in Templates : tspec[t].age \in Nat
           /\ Fresh \in Nat /\ gwc.gen \in Nat /\ gw.gen \in Nat /\ inp \in Nat
           /\ idx \in Templates /\ cur \in [Resources -> Child]
<1>1. TypeOK /\ TemplatingTypeOK
  BY DEF TypeInv, TypeOK
<1>2. \A r \in Resources : /\ spec[r].age \in Nat /\ seen[r].age \in Nat
                           /\ cur[r].spec.age \in Nat /\ cur[r].seen.age \in Nat
  BY <1>1 DEF TemplatingTypeOK, Text, Child
<1>3. Fresh \in Nat /\ gwc.gen \in Nat /\ gw.gen \in Nat /\ inp \in Nat
  BY <1>1, GatewayAssumption DEF TypeOK, Fresh, Gateway
<1>. QED
  BY <1>1, <1>2, <1>3 DEF OutputNow, Output, TemplatingTypeOK, Text

\* The age of a rendered text: it is bounded by the parent and by everything read,
\* and it is one of these.
LEMMA OldestInputBound ==
    ASSUME TypeInv, NEW ts \in SUBSET Templates
    PROVE  /\ OldestInput(ts, Fresh) \in Nat
           /\ OldestInput(ts, Fresh) <= Fresh
           /\ \A d \in ts : \A q \in ResourcesOf[d] : OldestInput(ts, Fresh) <= Output(q, cur[q])
           /\ \A x \in Nat :
                x <= Fresh /\ (\A d \in ts : \A q \in ResourcesOf[d] : x <= Output(q, cur[q]))
                  => x <= OldestInput(ts, Fresh)
<1>. DEFINE S == {Fresh} \cup {Output(r, cur[r]) : r \in Inputs(ts)}
<1>1. Inputs(ts) \subseteq Resources /\ \A d \in ts : ResourcesOf[d] \subseteq Inputs(ts)
  BY DEF Inputs
<1>2. S \subseteq Nat
  BY <1>1, Ages
<1>3. OldestInput(ts, Fresh) \in S /\ \A y \in S : OldestInput(ts, Fresh) <= y
  BY <1>2, OldestIsMin DEF OldestInput
<1>4. \A x \in Nat :
        x <= Fresh /\ (\A d \in ts : \A q \in ResourcesOf[d] : x <= Output(q, cur[q])) => \A y \in S : x <= y
  BY DEF Inputs
<1>. QED
  BY <1>1, <1>2, <1>3, <1>4

\* If neither the texts of a template nor what can be read of it gain an age, the
\* order is kept.
LEMMA ChainedShrinks ==
    ASSUME Chained, \A t \in Templates : TextAges(t)' \subseteq TextAges(t),
           \A t \in Templates : OutputAges(t)' \subseteq OutputAges(t)
    PROVE  Chained'
<1>. SUFFICES ASSUME NEW t \in Templates, NEW d \in Upstream(t),
                     NEW x \in TextAges(t)', NEW y \in OutputAges(d)'
              PROVE  x <= y
  BY DEF Chained
<1>1. d \in Templates
  BY UpstreamDeps
<1>. QED
  BY <1>1 DEF Chained

\* A resource belongs to one template.
LEMMA OneTemplate ==
    ASSUME NEW s \in Templates, NEW t \in Templates, NEW r \in ResourcesOf[s], r \in ResourcesOf[t]
    PROVE  s = t /\ r \in Resources
OBVIOUS

\* Every text of a template is a child or what the call is about to apply ...
LEMMA TextAgeCases ==
    ASSUME NEW t, NEW x \in TextAges(t)
    PROVE  \/ \E r \in ResourcesOf[t] : Exists(r) /\ x = spec[r].age
           \/ t \in rendered /\ x = tspec[t].age
BY DEF TextAges

\* ... and every output is a text, or what a child says or a copy says of it.
LEMMA OutputAgeCases ==
    ASSUME NEW d, NEW y \in OutputAges(d)
    PROVE  \/ y \in TextAges(d)
           \/ y # 0 /\ \E q \in ResourcesOf[d] : y = OutputNow(q) \/ y = Output(q, cur[q])
BY DEF OutputAges

-------------------------------------------------------------------------------
(* Initial states *)

\* At the start every text there is has age 1, and no call has copied any.
LEMMA AgeInit == Init => AgeInv
<1>. SUFFICES ASSUME Init
              PROVE  AgeInv
  OBVIOUS
<1>1. /\ gwc.gen = 1 /\ inp = 0 /\ stage = "idle" /\ rendered = {}
      /\ \A r \in Resources : cur[r] = Nil
  BY DEF Init, NoGateway
<1>2. \A r \in Resources : /\ spec[r] = First \/ (spec[r] = NoSpec /\ seen[r] = NoSpec)
                           /\ seen[r] \in {First, NoSpec}
  BY DEF Init
<1>3. AgesBounded /\ AgesOrdered
  BY <1>1, <1>2 DEF AgesBounded, AgesOrdered, First, NoSpec, Fetched
<1>4. \A t \in Templates : TextAges(t) \subseteq {1}
  <2>1. SUFFICES ASSUME NEW t \in Templates, NEW x \in TextAges(t)
                 PROVE  x = 1
    OBVIOUS
  <2>2. PICK r \in ResourcesOf[t] : Exists(r) /\ x = spec[r].age
    BY <1>1, <2>1, TextAgeCases
  <2>. QED
    BY <1>2, <2>2 DEF Exists, First
<1>5. \A d \in Templates : OutputAges(d) \subseteq {1}
  <2>1. SUFFICES ASSUME NEW d \in Templates, NEW y \in OutputAges(d), y \notin TextAges(d)
                 PROVE  y = 1
    BY <1>4
  <2>2. PICK q \in ResourcesOf[d] : y # 0 /\ (y = OutputNow(q) \/ y = Output(q, cur[q]))
    BY <2>1, OutputAgeCases
  <2>3. q \in Resources
    OBVIOUS
  <2>. QED
    BY <1>1, <1>2, <2>2, <2>3 DEF OutputNow, Output, First, NoSpec, Nil
<1>6. Chained
  BY <1>4, <1>5, UpstreamDeps DEF Chained
<1>. QED
  BY <1>3, <1>6 DEF AgeInv

-------------------------------------------------------------------------------
(* Steps that write no text *)

\* A step that changes neither texts nor copies, and goes on with the call if there
\* is one, keeps the invariant: the inputs only get newer.
LEMMA AgeFrame ==
    ASSUME TypeInv, TypeInv', AgeInv,
           UNCHANGED <<spec, seen, rendered, tspec, cur, stage, snap, sinp>>,
           gwc.gen + inp <= gwc'.gen + inp'
    PROVE  AgeInv'
<1>1. AgesBounded'
  <2>1. gwc'.gen \in Nat /\ inp' \in Nat
    BY DEF TypeInv, TypeOK, Gateway
  <2>2. Fresh' = Fresh
    BY DEF Fresh
  <2>. QED
    BY <2>1, <2>2, Ages DEF AgeInv, AgesBounded, TypeInv, TypeOK, TemplatingTypeOK
<1>2. AgesOrdered'
  BY DEF AgeInv, AgesOrdered, Exists, Fetched
<1>3. Chained'
  <2>1. \A t \in Templates : TextAges(t)' = TextAges(t)
    BY DEF TextAges, Exists
  <2>2. \A t \in Templates : OutputAges(t)' = OutputAges(t)
    BY <2>1 DEF OutputAges, OutputNow, Output
  <2>. QED
    BY <2>1, <2>2, ChainedShrinks DEF AgeInv
<1>. QED
  BY <1>1, <1>2, <1>3 DEF AgeInv

\* A call that begins or ends has no texts and no copies; one that begins reads the
\* newest inputs that the cache has.
LEMMA AgeReset ==
    ASSUME TypeInv, TypeInv', AgeInv, ResetTemplates, UNCHANGED <<spec, seen>>,
           gwc.gen + inp <= gwc'.gen + inp', stage' # "idle" => Fresh' = gwc'.gen + inp'
    PROVE  AgeInv'
<1>1. rendered' = {} /\ \A r \in Resources : cur'[r] = Nil
  BY DEF ResetTemplates
<1>2. AgesBounded'
  <2>1. gwc'.gen \in Nat /\ inp' \in Nat
    BY DEF TypeInv, TypeOK, Gateway
  <2>. QED
    BY <1>1, <2>1, Ages DEF AgeInv, AgesBounded
<1>3. AgesOrdered'
  BY <1>1 DEF AgeInv, AgesOrdered, Exists, Fetched
<1>4. Chained'
  <2>1. \A t \in Templates : TextAges(t)' \subseteq TextAges(t)
    BY <1>1 DEF TextAges, Exists
  <2>2. ASSUME NEW t \in Templates, NEW y \in OutputAges(t)'
        PROVE  y \in OutputAges(t)
    <3>1. \/ y \in TextAges(t)'
          \/ y # 0 /\ \E q \in ResourcesOf[t] : y = OutputNow(q)' \/ y = Output(q, cur[q])'
      BY <2>2 DEF OutputAges
    <3>2. \A q \in ResourcesOf[t] : OutputNow(q)' = OutputNow(q) /\ Output(q, cur[q])' = 0
      BY <1>1 DEF OutputNow, Output, Nil, NoSpec
    <3>. QED
      BY <2>1, <3>1, <3>2 DEF OutputAges
  <2>. QED
    BY <2>1, <2>2, ChainedShrinks DEF AgeInv
<1>. QED
  BY <1>2, <1>3, <1>4 DEF AgeInv

-------------------------------------------------------------------------------
(* Steps of the children and of the loop *)

\* A child that disappears takes its text and its output along.
LEMMA AgeRemove ==
    ASSUME TypeInv, AgeInv, NEW r \in Resources, Remove(r)
    PROVE  AgeInv'
<1>1. /\ \A q \in Resources : spec'[q] = (IF q = r THEN NoSpec ELSE spec[q])
      /\ \A q \in Resources : seen'[q] = (IF q = r THEN NoSpec ELSE seen[q])
      /\ UNCHANGED <<gwc, inp, snap, sinp, stage, rendered, tspec, cur>>
  BY DEF Remove, TypeInv, TypeOK, TemplatingTypeOK, worldVars, callVars, loopVars
<1>2. Fresh' = Fresh
  BY <1>1 DEF Fresh
<1>3. AgesBounded'
  <2>1. \A q \in Resources : spec'[q].age <= spec[q].age
    BY <1>1, Ages DEF NoSpec
  <2>2. \A q \in Resources : spec'[q].age \in Nat
    BY <1>1, Ages DEF NoSpec
  <2>. QED
    BY <1>1, <1>2, <2>1, <2>2, Ages DEF AgeInv, AgesBounded
<1>4. AgesOrdered'
  BY <1>1, Ages DEF AgeInv, AgesOrdered, Exists, Fetched, NoSpec
<1>5. Chained'
  <2>1. \A t \in Templates : TextAges(t)' \subseteq TextAges(t)
    BY <1>1 DEF TextAges, Exists
  <2>2. ASSUME NEW t \in Templates, NEW y \in OutputAges(t)'
        PROVE  y \in OutputAges(t)
    <3>1. \/ y \in TextAges(t)'
          \/ y # 0 /\ \E q \in ResourcesOf[t] : y = OutputNow(q)' \/ y = Output(q, cur[q])'
      BY <2>2 DEF OutputAges
    <3>2. \A q \in ResourcesOf[t] : OutputNow(q)' \in {0, OutputNow(q)} /\ Output(q, cur[q])' = Output(q, cur[q])
      BY <1>1 DEF OutputNow, Output, NoSpec
    <3>. QED
      BY <2>1, <3>1, <3>2 DEF OutputAges
  <2>. QED
    BY <2>1, <2>2, ChainedShrinks DEF AgeInv
<1>. QED
  BY <1>3, <1>4, <1>5 DEF AgeInv

\* A child's controller publishes an output that is the child's own text.
LEMMA AgeReconcile ==
    ASSUME TypeInv, AgeInv, NEW r \in Resources, ChildReconcile(r)
    PROVE  AgeInv'
<1>1. /\ \A q \in Resources : seen'[q] = (IF q = r THEN spec[q] ELSE seen[q])
      /\ UNCHANGED <<spec, gwc, inp, snap, sinp, stage, rendered, tspec, cur>>
      /\ Exists(r)
  BY DEF ChildReconcile, TypeInv, TypeOK, TemplatingTypeOK, worldVars, callVars, loopVars
<1>2. Fresh' = Fresh
  BY <1>1 DEF Fresh
<1>3. AgesBounded'
  BY <1>1, <1>2 DEF AgeInv, AgesBounded
<1>4. AgesOrdered'
  <2>1. \A q \in Resources : seen'[q].age <= spec[q].age
    BY <1>1, Ages DEF AgeInv, AgesOrdered
  <2>2. ASSUME NEW t \in Templates, NEW q \in ResourcesOf[t], Fetched(q), seen'[q].age # 0
        PROVE  cur[q].seen.age <= seen'[q].age
    <3>1. q \in Resources
      OBVIOUS
    <3>2. CASE q = r
      BY <1>1, <2>2, <3>1, <3>2, Ages DEF AgeInv, AgesOrdered
    <3>3. CASE q # r
      BY <1>1, <2>2, <3>1, <3>3 DEF AgeInv, AgesOrdered
    <3>. QED
      BY <3>2, <3>3
  <2>. QED
    BY <1>1, <2>1, <2>2 DEF AgeInv, AgesOrdered, Exists, Fetched
<1>5. Chained'
  <2>1. \A t \in Templates : TextAges(t)' \subseteq TextAges(t)
    BY <1>1 DEF TextAges, Exists
  <2>2. ASSUME NEW t \in Templates, NEW y \in OutputAges(t)'
        PROVE  y \in OutputAges(t)
    <3>1. \/ y \in TextAges(t)'
          \/ y # 0 /\ \E q \in ResourcesOf[t] : y = OutputNow(q)' \/ y = Output(q, cur[q])'
      BY <2>2 DEF OutputAges
    <3>2. \A q \in ResourcesOf[t] : /\ OutputNow(q)' = OutputNow(q) \/ (q = r /\ OutputNow(q)' = spec[q].age)
                                    /\ Output(q, cur[q])' = Output(q, cur[q])
      BY <1>1 DEF OutputNow, Output
    <3>3. r \in ResourcesOf[t] => spec[r].age \in TextAges(t)
      BY <1>1 DEF TextAges
    <3>. QED
      BY <2>1, <3>1, <3>2, <3>3 DEF OutputAges
  <2>. QED
    BY <2>1, <2>2, ChainedShrinks DEF AgeInv
<1>. QED
  BY <1>3, <1>4, <1>5 DEF AgeInv

\* The apply pass turns a text of this call into a child: no text is new.
LEMMA AgeApply ==
    ASSUME TypeInv, AgeInv, ApplyStep
    PROVE  AgeInv'
<1>1. PICK applied \in SUBSET ResourcesOf[idx], failed \in SUBSET ResourcesOf[idx] :
          ApplyTemplate(applied, failed)
  BY DEF ApplyStep
<1>2. /\ \A q \in Resources : spec'[q] = (IF q \in applied THEN tspec[idx] ELSE spec[q])
      /\ UNCHANGED <<seen, gwc, inp, snap, sinp, rendered, tspec, cur>>
      /\ applied # {} => idx \in rendered
      /\ stage # "idle" /\ stage' # "idle" /\ idx \in Templates
  BY <1>1, Ages DEF ApplyStep, ApplyTemplate, worldVars, callVars
<1>3. Fresh' = Fresh
  BY <1>2 DEF Fresh
<1>4. \A q \in applied : q \in Resources /\ idx \in rendered /\ (Exists(q) => spec[q].age <= tspec[idx].age)
  BY <1>2 DEF AgeInv, AgesOrdered
<1>5. AgesBounded'
  <2>1. ASSUME NEW q \in Resources
        PROVE  spec'[q].age <= gwc.gen + inp /\ spec'[q].age <= Fresh
    <3>1. CASE q \in applied
      BY <1>2, <1>4, <3>1, Ages DEF AgeInv, AgesBounded
    <3>2. CASE q \notin applied
      BY <1>2, <3>2 DEF AgeInv, AgesBounded
    <3>. QED
      BY <3>1, <3>2
  <2>. QED
    BY <1>2, <1>3, <2>1 DEF AgeInv, AgesBounded
<1>6. AgesOrdered'
  <2>1. \A q \in Resources : Exists(q) => spec[q].age <= spec'[q].age
    BY <1>2, <1>4, Ages
  <2>2. ASSUME NEW q \in Resources
        PROVE  seen[q].age <= spec'[q].age
    <3>1. CASE Exists(q)
      BY <1>2, <1>4, <2>1, <3>1, Ages DEF AgeInv, AgesOrdered
    <3>2. CASE ~Exists(q)
      BY <1>2, <1>4, <3>2, Ages DEF AgeInv, AgesOrdered, Exists, NoSpec
    <3>. QED
      BY <3>1, <3>2
  <2>3. ASSUME NEW t \in Templates, NEW q \in ResourcesOf[t]
        PROVE  /\ t \in rendered /\ Exists(q)' => spec'[q].age <= tspec[t].age
               /\ Fetched(q) /\ Exists(q)' => cur[q].spec.age <= spec'[q].age
    <3>0. q \in Resources
      OBVIOUS
    <3>1. CASE q \in applied
      <4>1. t = idx
        BY <1>2, <3>1, OneTemplate
      <4>2. spec'[q] = tspec[t]
        BY <1>2, <3>0, <3>1, <4>1
      <4>. QED
        BY <4>1, <4>2, Ages DEF AgeInv, AgesOrdered
    <3>2. CASE q \notin applied
      BY <1>2, <3>0, <3>2 DEF AgeInv, AgesOrdered, Exists
    <3>. QED
      BY <3>1, <3>2
  <2>. QED
    BY <1>2, <2>2, <2>3 DEF AgeInv, AgesOrdered, Exists, Fetched
<1>7. Chained'
  <2>1. ASSUME NEW t \in Templates, NEW x \in TextAges(t)'
        PROVE  x \in TextAges(t)
    <3>1. \/ \E r \in ResourcesOf[t] : Exists(r)' /\ x = spec'[r].age
          \/ t \in rendered /\ x = tspec[t].age
      BY <1>2, <2>1 DEF TextAges, Exists
    <3>2. ASSUME NEW r \in ResourcesOf[t], Exists(r)', x = spec'[r].age
          PROVE  x \in TextAges(t)
      <4>1. r \in Resources
        OBVIOUS
      <4>2. CASE r \in applied
        <5>1. t = idx
          BY <1>2, <4>2, OneTemplate
        <5>. QED
          BY <1>2, <3>2, <4>1, <4>2, <5>1 DEF TextAges
      <4>3. CASE r \notin applied
        BY <1>2, <3>2, <4>1, <4>3 DEF TextAges, Exists
      <4>. QED
        BY <4>2, <4>3
    <3>3. t \in rendered => tspec[t].age \in TextAges(t)
      BY DEF TextAges
    <3>. QED
      BY <3>1, <3>2, <3>3
  <2>2. ASSUME NEW t \in Templates, NEW y \in OutputAges(t)'
        PROVE  y \in OutputAges(t)
    <3>1. \/ y \in TextAges(t)'
          \/ y # 0 /\ \E q \in ResourcesOf[t] : y = OutputNow(q)' \/ y = Output(q, cur[q])'
      BY <2>2 DEF OutputAges
    <3>2. ASSUME NEW q \in ResourcesOf[t]
          PROVE  /\ Output(q, cur[q])' = Output(q, cur[q])
                 /\ OutputNow(q)' = OutputNow(q) \/ (OutputNow(q)' = tspec[t].age /\ t \in rendered)
      <4>1. q \in Resources
        OBVIOUS
      <4>2. q \in applied => t = idx /\ t \in rendered
        BY <1>2, OneTemplate
      <4>. QED
        BY <1>2, <4>1, <4>2 DEF OutputNow, Output
    <3>3. t \in rendered => tspec[t].age \in TextAges(t)
      BY DEF TextAges
    <3>. QED
      BY <2>1, <3>1, <3>2, <3>3 DEF OutputAges
  <2>. QED
    BY <2>1, <2>2, ChainedShrinks DEF AgeInv
<1>. QED
  BY <1>5, <1>6, <1>7 DEF AgeInv

-------------------------------------------------------------------------------
(* Rendering *)

\* A text that reads at least what the template now renders from is no newer than
\* the new text: it was bounded by each of the outputs read, and by the parent.
LEMMA NewTextIsNoOlder ==
    ASSUME TypeInv, AgeInv, stage # "idle", Resolves(Deps[idx]),
           NEW t \in Templates, Deps[idx] \subseteq Upstream(t), NEW x \in TextAges(t)
    PROVE  x <= OldestInput(Deps[idx], Fresh)
<1>0. ResourcesOf[t] \subseteq Resources /\ idx \in Templates
  BY Ages
<1>1. x \in Nat /\ x <= Fresh
  <2>1. CASE \E r \in ResourcesOf[t] : Exists(r) /\ x = spec[r].age
    BY <1>0, <2>1, Ages DEF AgeInv, AgesBounded
  <2>2. CASE t \in rendered /\ x = tspec[t].age
    BY <2>2, Ages DEF AgeInv, AgesBounded
  <2>. QED
    BY <2>1, <2>2, TextAgeCases
<1>2. ASSUME NEW d \in Deps[idx], NEW q \in ResourcesOf[d]
      PROVE  x <= Output(q, cur[q])
  <2>1. d \in Templates /\ d \in Upstream(t)
    BY <1>0
  <2>2. Output(q, cur[q]) # 0
    BY DEF Resolves, Inputs
  <2>3. Output(q, cur[q]) \in OutputAges(d)
    BY <2>2 DEF OutputAges
  <2>. QED
    BY <2>1, <2>3 DEF AgeInv, Chained
<1>3. Deps[idx] \in SUBSET Templates
  BY <1>0
<1>. QED
  BY <1>1, <1>2, <1>3, OldestInputBound

\* The new text is no newer than anything that can still be read of what it read:
\* what it read was copied, and the originals have only moved on since.
LEMMA NewTextIsNoNewer ==
    ASSUME TypeInv, AgeInv, stage # "idle", Resolves(Deps[idx]),
           NEW d \in Deps[idx], NEW y \in OutputAges(d)
    PROVE  /\ d \in Templates /\ d \in rendered
           /\ OldestInput(Deps[idx], Fresh) <= tspec[d].age
           /\ OldestInput(Deps[idx], Fresh) <= y
<1>. DEFINE a == OldestInput(Deps[idx], Fresh)
<1>1. d \in Templates /\ Deps[idx] \in SUBSET Templates /\ ResourcesOf[d] # {} /\ ResourcesOf[d] \subseteq Resources
  BY Ages DEF Resolves
<1>2. a \in Nat /\ \A q \in ResourcesOf[d] : a <= Output(q, cur[q])
  BY <1>1, OldestInputBound
<1>3. ASSUME NEW q \in ResourcesOf[d]
      PROVE  /\ Fetched(q) /\ d \in rendered /\ a <= cur[q].spec.age /\ a <= tspec[d].age
             /\ Exists(q) => a <= spec[q].age
             /\ OutputNow(q) # 0 => a <= OutputNow(q)
  <2>0. q \in Resources
    BY <1>1
  <2>1. Output(q, cur[q]) # 0
    BY DEF Resolves, Inputs
  <2>2. Fetched(q)
    BY <2>1 DEF Fetched, Output, Nil, NoSpec
  <2>3. /\ d \in rendered
        /\ cur[q].seen.age <= cur[q].spec.age /\ cur[q].spec.age <= tspec[d].age
        /\ Exists(q) => cur[q].spec.age <= spec[q].age
        /\ seen[q].age # 0 => cur[q].seen.age <= seen[q].age
    BY <1>1, <2>2 DEF AgeInv, AgesOrdered
  <2>4. a <= cur[q].spec.age /\ (q \in Managed => a <= cur[q].seen.age)
    BY <1>2, <2>0, <2>3, Ages DEF Output
  <2>5. a <= tspec[d].age /\ (Exists(q) => a <= spec[q].age)
    BY <1>1, <1>2, <2>0, <2>3, <2>4, Ages
  <2>6. OutputNow(q) # 0 => a <= OutputNow(q)
    <3>1. CASE q \in Managed
      <4>1. OutputNow(q) = seen[q].age
        BY <3>1 DEF OutputNow, Output
      <4>. QED
        BY <1>2, <2>0, <2>3, <2>4, <3>1, <4>1, Ages
    <3>2. CASE q \notin Managed
      <4>1. OutputNow(q) = spec[q].age
        BY <3>2 DEF OutputNow, Output
      <4>2. OutputNow(q) # 0 => Exists(q)
        BY <4>1 DEF Exists, NoSpec
      <4>. QED
        BY <2>5, <4>1, <4>2
    <3>. QED
      BY <3>1, <3>2
  <2>. QED
    BY <2>2, <2>3, <2>4, <2>5, <2>6
<1>4. d \in rendered /\ a <= tspec[d].age
  BY <1>1, <1>3
<1>5. a <= y
  <2>1. CASE y \in TextAges(d)
    BY <1>3, <1>4, <2>1, TextAgeCases
  <2>2. CASE y # 0 /\ \E q \in ResourcesOf[d] : y = OutputNow(q) \/ y = Output(q, cur[q])
    BY <1>2, <1>3, <2>2
  <2>. QED
    BY <2>1, <2>2, OutputAgeCases
<1>. QED
  BY <1>1, <1>4, <1>5

\* ... and no newer than anything that feeds it indirectly.
LEMMA NewTextIsChained ==
    ASSUME TypeInv, AgeInv, stage # "idle", Resolves(Deps[idx]),
           NEW d \in Upstream(idx), NEW y \in OutputAges(d)
    PROVE  OldestInput(Deps[idx], Fresh) <= y
<1>. DEFINE a == OldestInput(Deps[idx], Fresh)
<1>0. idx \in Templates /\ d \in Templates /\ Deps[idx] \in SUBSET Templates
  BY Ages, UpstreamDeps
<1>1. CASE d \in Deps[idx]
  BY <1>1, NewTextIsNoNewer
<1>2. CASE d \notin Deps[idx]
  <2>1. PICK e \in Deps[idx] : d \in Upstream(e)
    BY <1>0, <1>2, UpstreamSplit
  <2>2. PICK q \in ResourcesOf[e] : Output(q, cur[q]) # 0
    BY DEF Resolves, Inputs
  <2>3. Output(q, cur[q]) \in OutputAges(e)
    BY <2>2 DEF OutputAges
  <2>4. e \in Templates /\ e \in rendered /\ a <= tspec[e].age
    BY <2>3, NewTextIsNoNewer
  <2>5. tspec[e].age \in TextAges(e)
    BY <2>4 DEF TextAges
  <2>6. tspec[e].age <= y
    BY <2>1, <2>4, <2>5 DEF AgeInv, Chained
  <2>7. a \in Nat /\ tspec[e].age \in Nat
    BY <1>0, <2>4, Ages, OldestInputBound
  <2>8. y \in Nat
    <3>1. \A q1 \in ResourcesOf[d] : OutputNow(q1) \in Nat /\ Output(q1, cur[q1]) \in Nat /\ spec[q1].age \in Nat
      BY <1>0, Ages
    <3>. QED
      BY <1>0, <3>1, Ages, OutputAgeCases, TextAgeCases
  <2>. QED
    BY <2>4, <2>6, <2>7, <2>8
<1>. QED
  BY <1>1, <1>2

\* What a render step changes: it may add one text, that of the template whose turn
\* it is, and copies of the children of a template that has a text.
LEMMA RenderChanges ==
    ASSUME TypeInv, AgeInv, RenderStep
    PROVE  /\ UNCHANGED <<spec, seen, gwc, inp, snap, sinp>>
           /\ stage = "render" /\ stage' # "idle"
           /\ \/ rendered' = rendered /\ \A t \in rendered : tspec'[t] = tspec[t]
              \/ /\ idx \notin rendered /\ rendered' = rendered \cup {idx} /\ Resolves(Deps[idx])
                 /\ tspec'[idx].age = OldestInput(Deps[idx], Fresh)
                 /\ \A t \in rendered : tspec'[t] = tspec[t]
           /\ \A r \in Resources :
                \/ cur'[r] = cur[r]
                \/ /\ r \in ResourcesOf[idx] /\ idx \in rendered'
                   /\ cur'[r] = [spec |-> spec[r], seen |-> seen[r]]
<1>1. /\ UNCHANGED <<spec, seen, gwc, inp, snap, sinp>> /\ stage = "render" /\ stage' # "idle"
      /\ idx \in Templates /\ tspec \in [Templates -> Text] /\ rendered \subseteq Templates
  BY Ages DEF RenderStep, RenderSucceeds, RenderSkipped, RenderFails, NextToRender, worldVars, callVars,
     TypeInv, TypeOK, TemplatingTypeOK
<1>2. PICK failed \in SUBSET ResourcesOf[idx], broken \in BOOLEAN :
        RenderSucceeds(snap.gen, Fresh, failed) \/ RenderSkipped(failed) \/ RenderFails(broken)
  BY DEF RenderStep
<1>3. CASE RenderSucceeds(snap.gen, Fresh, failed)
  <2>1. /\ idx \notin rendered /\ Resolves(Deps[idx])
        /\ tspec'[idx].age = OldestInput(Deps[idx], Fresh)
        /\ \A t \in rendered : tspec'[t] = tspec[t]
    BY <1>1, <1>3 DEF RenderSucceeds
  <2>2. rendered' = (IF ResourcesOf[idx] = {} THEN rendered ELSE rendered \cup {idx})
    BY <1>3 DEF RenderSucceeds
  <2>3. \A r \in Resources :
                \/ cur'[r] = cur[r]
                \/ /\ r \in ResourcesOf[idx] /\ idx \in rendered'
                   /\ cur'[r] = [spec |-> spec[r], seen |-> seen[r]]
    BY <1>3, <2>2 DEF RenderSucceeds, Fetch
  <2>. QED
    BY <1>1, <2>1, <2>2, <2>3
<1>4. CASE RenderSkipped(failed)
  BY <1>1, <1>4 DEF RenderSkipped, Fetch
<1>5. CASE RenderFails(broken)
  BY <1>1, <1>5 DEF RenderFails
<1>. QED
  BY <1>2, <1>3, <1>4, <1>5

\* A render step adds a text that fits between what reads it and what it reads.
LEMMA AgeRender ==
    ASSUME TypeInv, TypeInv', AgeInv, RenderStep
    PROVE  AgeInv'
<1>. DEFINE a == OldestInput(Deps[idx], Fresh)
            new == idx \notin rendered /\ idx \in rendered'
<1>0. idx \in Templates /\ Deps[idx] \in SUBSET Templates /\ a \in Nat
  <2>1. idx \in Templates /\ Deps[idx] \in SUBSET Templates
    BY Ages
  <2>. QED
    BY <2>1, OldestInputBound
<1>1. /\ UNCHANGED <<spec, seen, gwc, inp, snap, sinp>>
      /\ stage = "render" /\ stage # "idle" /\ stage' # "idle"
      /\ rendered \subseteq rendered' /\ rendered' \subseteq rendered \cup {idx}
      /\ \A t \in rendered : tspec'[t] = tspec[t]
      /\ new => Resolves(Deps[idx]) /\ tspec'[idx].age = a
  BY RenderChanges
<1>2. \A r \in Resources :
        \/ cur'[r] = cur[r]
        \/ /\ r \in ResourcesOf[idx] /\ idx \in rendered'
           /\ cur'[r] = [spec |-> spec[r], seen |-> seen[r]]
  BY RenderChanges
<1>3. Fresh' = Fresh
  BY <1>1 DEF Fresh
<1>4. AgesBounded'
  <2>1. new => a <= Fresh
    BY <1>0, OldestInputBound
  <2>2. \A t \in rendered' : tspec'[t].age <= Fresh
    BY <1>1, <2>1 DEF AgeInv, AgesBounded
  <2>. QED
    BY <1>1, <1>3, <2>2 DEF AgeInv, AgesBounded
<1>5. ASSUME NEW t \in Templates, NEW r \in ResourcesOf[t], t \in rendered', Exists(r)
      PROVE  spec[r].age <= tspec'[t].age
  <2>1. CASE t \in rendered
    BY <1>1, <1>5, <2>1 DEF AgeInv, AgesOrdered
  <2>2. CASE t \notin rendered
    <3>1. t = idx /\ new
      BY <1>1, <1>5, <2>2
    <3>2. spec[r].age \in TextAges(t)
      BY <1>5 DEF TextAges
    <3>3. Deps[idx] \subseteq Upstream(t)
      BY <1>0, <3>1, UpstreamDeps
    <3>4. spec[r].age <= a
      BY <1>1, <3>1, <3>2, <3>3, NewTextIsNoOlder
    <3>. QED
      BY <1>1, <3>1, <3>4
  <2>. QED
    BY <2>1, <2>2
<1>6. AgesOrdered'
  <2>1. ASSUME NEW t \in Templates, NEW r \in ResourcesOf[t], Fetched(r)'
        PROVE  /\ t \in rendered'
               /\ cur'[r].seen.age <= cur'[r].spec.age /\ cur'[r].spec.age <= tspec'[t].age
               /\ Exists(r) => cur'[r].spec.age <= spec[r].age
               /\ seen[r].age # 0 => cur'[r].seen.age <= seen[r].age
    <3>0. r \in Resources
      OBVIOUS
    <3>1. CASE cur'[r] = cur[r]
      <4>1. Fetched(r)
        BY <2>1, <3>1 DEF Fetched
      <4>. QED
        BY <1>1, <3>1, <4>1 DEF AgeInv, AgesOrdered
    <3>2. CASE r \in ResourcesOf[idx] /\ idx \in rendered' /\ cur'[r] = [spec |-> spec[r], seen |-> seen[r]]
      <4>1. t = idx
        BY <1>0, <3>2, OneTemplate
      <4>2. seen[r].age <= spec[r].age /\ spec[r].age \in Nat /\ seen[r].age \in Nat
        BY <3>0, Ages DEF AgeInv, AgesOrdered
      <4>3. spec[r].age <= tspec'[t].age
        <5>1. CASE Exists(r)
          BY <1>5, <3>2, <4>1, <5>1
        <5>2. CASE ~Exists(r)
          <6>1. tspec'[t].age \in Nat
            BY DEF TypeInv, TypeOK, TemplatingTypeOK, Text
          <6>. QED
            BY <5>2, <6>1 DEF Exists, NoSpec
        <5>. QED
          BY <5>1, <5>2
      <4>. QED
        BY <3>2, <4>1, <4>2, <4>3
    <3>. QED
      BY <1>2, <3>0, <3>1, <3>2
  <2>2. \A r \in Resources : Exists(r)' = Exists(r)
    BY <1>1 DEF Exists
  <2>. QED
    BY <1>1, <1>5, <2>1, <2>2 DEF AgeInv, AgesOrdered
<1>7. \A t \in Templates : TextAges(t)' \subseteq TextAges(t) \cup (IF t = idx /\ new THEN {a} ELSE {})
  <2>1. SUFFICES ASSUME NEW t \in Templates, NEW x \in TextAges(t)'
                 PROVE  x \in TextAges(t) \/ (t = idx /\ new /\ x = a)
    OBVIOUS
  <2>2. \/ \E r \in ResourcesOf[t] : Exists(r) /\ x = spec[r].age
        \/ t \in rendered' /\ x = tspec'[t].age
    BY <1>1, <2>1 DEF TextAges, Exists
  <2>3. ASSUME NEW r \in ResourcesOf[t], Exists(r), x = spec[r].age
        PROVE  x \in TextAges(t)
    BY <2>3 DEF TextAges
  <2>4. CASE t \in rendered /\ x = tspec'[t].age
    BY <1>1, <2>4 DEF TextAges
  <2>5. CASE t \in rendered' \ rendered /\ x = tspec'[t].age
    BY <1>1, <2>5
  <2>. QED
    BY <2>2, <2>3, <2>4, <2>5
<1>8. \A d \in Templates : OutputAges(d)' \subseteq OutputAges(d) \cup (IF d = idx /\ new THEN {a} ELSE {})
  <2>1. SUFFICES ASSUME NEW d \in Templates, NEW y \in OutputAges(d)'
                 PROVE  y \in OutputAges(d) \/ (d = idx /\ new /\ y = a)
    OBVIOUS
  <2>2. \/ y \in TextAges(d)'
        \/ y # 0 /\ \E q \in ResourcesOf[d] : y = OutputNow(q)' \/ y = Output(q, cur[q])'
    BY <2>1 DEF OutputAges
  <2>3. ASSUME NEW q \in ResourcesOf[d]
        PROVE  /\ OutputNow(q)' = OutputNow(q)
               /\ Output(q, cur[q])' \in {OutputNow(q), Output(q, cur[q])}
    <3>1. q \in Resources
      OBVIOUS
    <3>. QED
      BY <1>1, <1>2, <3>1 DEF OutputNow, Output
  <2>4. CASE y \in TextAges(d)'
    BY <1>7, <2>4 DEF OutputAges
  <2>5. CASE y # 0 /\ \E q \in ResourcesOf[d] : y = OutputNow(q)' \/ y = Output(q, cur[q])'
    BY <2>3, <2>5 DEF OutputAges
  <2>. QED
    BY <2>2, <2>4, <2>5
<1>9. Chained'
  <2>1. SUFFICES ASSUME NEW t \in Templates, NEW d \in Upstream(t),
                        NEW x \in TextAges(t)', NEW y \in OutputAges(d)'
                 PROVE  x <= y
    BY DEF Chained
  <2>2. d \in Templates
    BY UpstreamDeps
  <2>3. CASE x \in TextAges(t) /\ y \in OutputAges(d)
    BY <2>3 DEF AgeInv, Chained
  <2>4. CASE x \in TextAges(t) /\ y = a /\ d = idx /\ new
    <3>1. Deps[idx] \subseteq Upstream(t)
      BY <2>4, UpstreamClosed
    <3>. QED
      BY <1>1, <2>4, <3>1, NewTextIsNoOlder
  <2>5. CASE x = a /\ t = idx /\ new /\ y \in OutputAges(d)
    BY <1>1, <2>5, NewTextIsChained
  <2>6. CASE x = a /\ y = a
    BY <1>0, <2>6
  <2>. QED
    BY <1>7, <1>8, <2>2, <2>3, <2>4, <2>5, <2>6
<1>. QED
  BY <1>4, <1>6, <1>9 DEF AgeInv

-------------------------------------------------------------------------------
(* The theorem *)

\* Every step keeps the invariant.
LEMMA AgeNext == TypeInv /\ TypeInv' /\ Core /\ AgeInv /\ [Next]_vars => AgeInv'
<1>. SUFFICES ASSUME TypeInv, TypeInv', Core, AgeInv, [Next]_vars
              PROVE  AgeInv'
  OBVIOUS
<1>0. gw.gen \in Nat /\ gwc.gen \in Nat /\ inp \in Nat /\ gwc.gen <= gw.gen
  BY Ages DEF Core, GenerationsOrdered
<1>1. CASE \/ EditGateway \/ DeleteGateway \/ FinishDeletion \/ EditConfig \/ EditUnwatched
           \/ CacheSync \/ Resync \/ TimerFires \/ UNCHANGED vars
  <2>1. gwc.gen + inp <= gwc'.gen + inp'
    BY <1>0, <1>1 DEF EditGateway, DeleteGateway, FinishDeletion, EditConfig, EditUnwatched, CacheSync,
       Resync, TimerFires, vars, worldVars
  <2>2. UNCHANGED <<spec, seen, rendered, tspec, cur, stage, snap, sinp>>
    BY <1>1 DEF EditGateway, DeleteGateway, FinishDeletion, EditConfig, EditUnwatched, CacheSync,
       Resync, TimerFires, vars, callVars, childVars, loopVars
  <2>. QED
    BY <2>1, <2>2, AgeFrame
<1>2. CASE ReconcileSkips \/ ReconcileRetries \/ ReconcileInvalid
  <2>1. UNCHANGED <<gwc, inp, spec, seen, rendered, tspec, cur, stage, snap, sinp>>
    BY <1>2 DEF ReconcileSkips, ReconcileRetries, ReconcileInvalid, worldVars, callVars, childVars, loopVars
  <2>. QED
    BY <1>0, <2>1, AgeFrame
<1>3. ASSUME NEW r \in Resources, CollectChild(r) \/ LoseChild(r)
      PROVE  AgeInv'
  BY <1>3, AgeRemove DEF CollectChild, LoseChild
<1>4. ASSUME NEW r \in Resources, ChildReconcile(r)
      PROVE  AgeInv'
  BY <1>4, AgeReconcile
<1>5. CASE ReconcileBegins
  <2>1. /\ UNCHANGED <<gwc, inp, spec, seen>> /\ ResetTemplates
        /\ snap' = gwc /\ sinp' = inp
    BY <1>5 DEF ReconcileBegins, worldVars, childVars
  <2>2. Fresh' = gwc'.gen + inp'
    BY <2>1 DEF Fresh
  <2>. QED
    BY <1>0, <2>1, <2>2, AgeReset
<1>6. CASE RenderStep
  BY <1>6, AgeRender
<1>7. CASE ApplyStep
  BY <1>7, AgeApply
<1>8. CASE StatusStep \/ StatusPanics \/ Crash
  <2>1. /\ UNCHANGED <<inp, spec, seen>> /\ ResetTemplates
        /\ stage' = "idle" /\ gwc' \in {gwc, gw}
    BY <1>8 DEF StatusStep, StatusPanics, Crash, EndReconcile, worldVars, childVars
  <2>2. gwc.gen + inp <= gwc'.gen + inp'
    BY <1>0, <2>1
  <2>. QED
    BY <2>1, <2>2, AgeReset
<1>. QED
  BY <1>1, <1>2, <1>3, <1>4, <1>5, <1>6, <1>7, <1>8 DEF Next, Environment, Reconcile

\* What a step may do to a child that exists.
NotStaler == \A r \in Resources : Exists(r) /\ Exists(r)' =>
                spec'[r].gen >= spec[r].gen /\ spec'[r].age >= spec[r].age

\* Only the apply pass writes a child, and it writes a text of this call: of the
\* generation read, which no child is ahead of, and no older than the child.
LEMMA StepIsNotStaler ==
    TypeInv /\ Core /\ TextsNotAhead /\ AgeInv /\ [Next]_vars => [NotStaler]_vars
<1>. SUFFICES ASSUME TypeInv, Core, TextsNotAhead, AgeInv, Next
              PROVE  NotStaler
  OBVIOUS
<1>0. \A r \in Resources : spec[r].gen \in Nat /\ spec[r].age \in Nat
  BY DEF TypeInv, TypeOK, TemplatingTypeOK, Text
<1>1. CASE ApplyStep
  <2>1. PICK applied \in SUBSET ResourcesOf[idx], failed \in SUBSET ResourcesOf[idx] :
            ApplyTemplate(applied, failed)
    BY <1>1 DEF ApplyStep
  <2>2. /\ stage = "apply" /\ idx \in Templates
        /\ applied # {} => idx \in rendered
        /\ \A r \in Resources : spec'[r] = (IF r \in applied THEN tspec[idx] ELSE spec[r])
    BY <2>1, Ages DEF ApplyTemplate
  <2>3. SUFFICES ASSUME NEW r \in Resources, r \in applied, Exists(r)
                 PROVE  tspec[idx].gen >= spec[r].gen /\ tspec[idx].age >= spec[r].age
    BY <1>0, <2>2 DEF NotStaler
  <2>4. tspec[idx].gen = snap.gen /\ spec[r].gen <= snap.gen
    BY <2>2, <2>3 DEF Core, RenderedFromSnapshot, TextsNotAhead
  <2>5. spec[r].age <= tspec[idx].age
    BY <2>2, <2>3 DEF AgeInv, AgesOrdered
  <2>6. snap.gen \in Nat /\ tspec[idx].age \in Nat
    BY <2>2, Ages DEF TypeInv, TypeOK, Gateway
  <2>. QED
    BY <1>0, <2>4, <2>5, <2>6
<1>2. ASSUME NEW q \in Resources, CollectChild(q) \/ LoseChild(q)
      PROVE  NotStaler
  <2>1. \A r \in Resources : spec'[r] \in {spec[r], NoSpec}
    BY <1>2 DEF CollectChild, LoseChild, Remove, TypeInv, TypeOK, TemplatingTypeOK
  <2>. QED
    BY <1>0, <2>1 DEF NotStaler, Exists
<1>3. CASE spec' = spec
  BY <1>0, <1>3 DEF NotStaler
<1>4. \/ spec' = spec \/ ApplyStep
      \/ \E q \in Resources : CollectChild(q) \/ LoseChild(q)
  BY DEF Next, Environment, Reconcile, EditGateway, DeleteGateway, FinishDeletion, EditConfig, EditUnwatched,
     ChildReconcile, CacheSync, Resync, TimerFires, ReconcileSkips, ReconcileRetries, ReconcileInvalid,
     ReconcileBegins, RenderStep, RenderSucceeds, RenderSkipped, RenderFails, NextToRender, StatusStep,
     StatusPanics, Crash, worldVars, childVars
<1>. QED
  BY <1>1, <1>2, <1>3, <1>4

\* No child that exists is ever overwritten by an older text, whatever Reconcile
\* reads from caches and from the copies it fetched, whatever fails in between and
\* however the templates refer to each other.
THEOREM ChildrenNeverGoBack == Spec => NeverStaler
<1>1. Init => TypeInv /\ Core /\ TextsNotAhead /\ AgeInv
  BY TypeInit, CoreInit, AheadInit, AgeInit
<1>2. TypeInv /\ Core /\ TextsNotAhead /\ AgeInv /\ [Next]_vars => (TypeInv /\ Core /\ TextsNotAhead /\ AgeInv)'
  BY TypeNext, CoreNext, AheadNext, AgeNext
<1>3. TypeInv /\ Core /\ TextsNotAhead /\ AgeInv /\ [Next]_vars => [NotStaler]_vars
  BY StepIsNotStaler
<1>4. Spec => [][NotStaler]_vars
  BY <1>1, <1>2, <1>3, PTL DEF Spec
<1>. QED
  BY <1>4 DEF NeverStaler, NotStaler
===============================================================================
