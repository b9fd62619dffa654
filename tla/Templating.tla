------------------------------ MODULE Templating ------------------------------
(***************************************************************************)
(* The template engine shared by the Gateway and the HTTPRoute controllers *)
(* (controllers/templating.go), and the child resources it writes.         *)
(*                                                                         *)
(* A blueprint holds N templates.  Their texts are abstracted to two       *)
(* facts: which resources a template renders to (ResourcesOf) and which    *)
(* other templates it indexes through .Resources (Deps).  parseTemplates   *)
(* sorts the templates by name, so a template is its position 1..N.        *)
(*                                                                         *)
(* The contents of a resource are abstracted to their freshness: `gen' is  *)
(* the generation of the parent object the text was rendered from, `age'   *)
(* the oldest input that went into it, on the time line on which every     *)
(* edit of an input counts one (the module that extends this one passes    *)
(* the parent's own point on that line as `fresh').                        *)
(***************************************************************************)
EXTENDS Integers, FiniteSets

CONSTANTS
    N,            \* number of resource templates in the blueprint
    Resources,    \* child resources (group, kind, namespace and name)
    ResourcesOf,  \* the resources each template renders to, possibly none
    Deps,         \* the templates each template refers to through .Resources
    Managed       \* resources whose output is a status that another
                  \* controller writes; the others (a ConfigMap) can be read
                  \* as soon as they exist

Templates == 1..N

ASSUME TemplatingAssumption ==
    /\ N \in Nat \ {0}
    /\ ResourcesOf \in [Templates -> SUBSET Resources]
    /\ \A s, t \in Templates : s # t => ResourcesOf[s] \cap ResourcesOf[t] = {}
    /\ Deps \in [Templates -> SUBSET Templates]
    /\ Managed \subseteq Resources

VARIABLES
    \* API server
    spec,       \* the applied text of each child resource; NoSpec: absent
    seen,       \* the text its own controller last acted on (its status)
    \* one call of Reconcile
    stage,      \* "idle", "render", "apply" or "status"
    attempt,    \* loop counter of the render/apply loop
    idx,        \* the template whose turn it is
    rendered,   \* templates with len(tmpl.Resources) > 0
    tspec,      \* res.Rendered of each rendered template
    renderErr,  \* templates with RenderError # nil
    applyErr,   \* templates with ApplyError # nil
    cur,        \* res.Current, the copy fetched in this call; Nil: not fetched
    avail       \* the resources buildResourceValues put in .Resources

loopVars == <<stage, attempt, idx, rendered, tspec, renderErr, applyErr, cur, avail>>

Text   == [gen : Nat, age : Nat]
NoSpec == [gen |-> 0, age |-> 0]
Child  == [spec : Text, seen : Text]
Nil    == [spec |-> NoSpec, seen |-> NoSpec]

TemplatingTypeOK ==
    /\ spec \in [Resources -> Text]
    /\ seen \in [Resources -> Text]
    /\ stage \in {"idle", "render", "apply", "status"}
    /\ attempt \in 0..N
    /\ idx \in Templates
    /\ rendered \subseteq Templates
    /\ tspec \in [Templates -> Text]
    /\ renderErr \subseteq Templates
    /\ applyErr \subseteq Templates
    /\ cur \in [Resources -> Child]
    /\ avail \subseteq Resources

-------------------------------------------------------------------------------
(* Reading the current resources *)

Oldest(S) == CHOOSE x \in S : \A y \in S : x <= y

\* The value a template reads from the fetched copy c of resource r; 0 when
\* the field is not there yet, which is a render error because templates are
\* parsed with missingkey=error.
Output(r, c) == IF r \in Managed THEN c.seen.age ELSE c.spec.age

Inputs(ts) == UNION {ResourcesOf[d] : d \in ts}

\* MUTANT: missingkey=error dropped, an absent field renders as an empty string.
ResolvesNoMissingKey(ts) == Inputs(ts) \subseteq avail

\* Every reference of the form (index .Resources.d i).field in a text that
\* refers to the templates ts resolves.  A text reads all resources of a
\* template it refers to, so one of them that is missing is a render error:
\* index is out of range, buildResourceValues having left out the missing one.
Resolves(ts) ==
    /\ \A d \in ts : ResourcesOf[d] # {}
    /\ \A r \in Inputs(ts) : r \in avail /\ Output(r, cur[r]) # 0

\* The oldest of the parent itself (fresh) and of everything read from ts.
OldestInput(ts, fresh) == Oldest({fresh} \cup {Output(r, cur[r]) : r \in Inputs(ts)})

Fetched(r) == cur[r] # Nil

\* Resources of rendered templates: what renderedNum counts.  existsNum counts
\* the fetched ones among them.
RenderedResources == Inputs(rendered)
NotAllExist == \E r \in RenderedResources : ~Fetched(r)

-------------------------------------------------------------------------------
(* The render/apply loop *)

\* parseTemplates, and the buildResourceValues call of the first attempt: no
\* template has been rendered and nothing has been fetched.
ResetTemplates ==
    /\ attempt' = 0
    /\ idx' = 1
    /\ rendered' = {}
    /\ tspec' = [t \in Templates |-> NoSpec]
    /\ renderErr' = {}
    /\ applyErr' = {}
    /\ cur' = [r \in Resources |-> Nil]
    /\ avail' = {}

\* The Get calls of renderTemplates for the resources rs: one that is already
\* fetched is kept as it is, one that is absent or whose Get fails stays nil.
Fetch(rs, failed) ==
    cur' = [r \in Resources |->
              IF r \in rs \ failed /\ ~Fetched(r)
              THEN [spec |-> spec[r], seen |-> seen[r]]
              ELSE cur[r]]

NextToRender ==
    /\ idx' = IF idx < N THEN idx + 1 ELSE 1
    /\ stage' = IF idx < N THEN "render" ELSE "apply"
    /\ UNCHANGED <<spec, seen, attempt, applyErr, avail>>

\* template2Composite succeeds: the rendering is kept, unless it is empty, in
\* which case the template still has no resources and is rendered again in the
\* next attempt.
RenderSucceeds(g, fresh, failed) ==
    /\ stage = "render"
    /\ idx \notin rendered
    /\ Resolves(Deps[idx])
    /\ rendered' = IF ResourcesOf[idx] = {} THEN rendered ELSE rendered \cup {idx}
    /\ tspec' = [tspec EXCEPT ![idx] = [gen |-> g, age |-> OldestInput(Deps[idx], fresh)]]
    /\ renderErr' = renderErr \ {idx}
    /\ Fetch(ResourcesOf[idx], failed)
    /\ NextToRender

\* template2Composite fails: a reference that does not resolve, or (broken)
\* malformed YAML or a kind the REST mapper does not know.
RenderFails(broken) ==
    /\ stage = "render"
    /\ idx \notin rendered
    /\ broken \/ ~Resolves(Deps[idx])
    /\ renderErr' = renderErr \cup {idx}
    /\ UNCHANGED <<rendered, tspec, cur>>
    /\ NextToRender

\* Rendered in an earlier attempt: only the missing resources are fetched.
RenderSkipped(failed) ==
    /\ stage = "render"
    /\ idx \in rendered
    /\ Fetch(ResourcesOf[idx], failed)
    /\ UNCHANGED <<rendered, tspec, renderErr>>
    /\ NextToRender

\* MUTANT: the loop stops one attempt early.
MoreAttemptsShort == attempt + 2 < N

\* MUTANT: the loop condition is attempt <= len(templates).
MoreAttemptsLong == attempt + 1 <= N

\* The loop condition attempt < len(templates), after the increment.
MoreAttempts == attempt + 1 < N

\* applyTemplates for one template: a server-side apply of each of its
\* resources.  `failed' are the calls that returned an error; a call that
\* failed may still have been carried out (applied).
ApplyTemplate(applied, failed) ==
    /\ stage = "apply"
    /\ LET todo == IF idx \in rendered THEN ResourcesOf[idx] ELSE {}
       IN /\ applied \subseteq todo
          /\ failed \subseteq todo
          /\ todo \ failed \subseteq applied
    /\ spec' = [r \in Resources |-> IF r \in applied THEN tspec[idx] ELSE spec[r]]
    /\ applyErr' = IF failed = {} THEN applyErr \ {idx} ELSE applyErr \cup {idx}
    /\ IF idx < N
       THEN idx' = idx + 1 /\ UNCHANGED <<stage, attempt, avail>>
       ELSE /\ idx' = 1
            /\ attempt' = attempt + 1
            /\ stage' = IF MoreAttempts THEN "render" ELSE "status"
            /\ avail' = {r \in Resources : Fetched(r)}
    /\ UNCHANGED <<seen, rendered, tspec, renderErr, cur>>

-------------------------------------------------------------------------------
(* statuscheck.go *)

\* External: kstatus.  An object without a status counts as current, one with
\* a status when its controller has observed the present generation.
KStatusCurrent(c) == c.seen \in {NoSpec, c.spec}

\* statusExistingTemplates returns nothing.
NothingMissing == rendered = Templates /\ ~NotAllExist

statusIsReady == \A r \in RenderedResources : Fetched(r) /\ KStatusCurrent(cur[r])

\* MUTANT: the errors of the apply calls are only logged.
LoopFailedRenderOnly == renderErr # {}

\* The error that Reconcile collects after the loop.
LoopFailed == renderErr # {} \/ applyErr # {}

===============================================================================
