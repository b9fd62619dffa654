----------------------------- MODULE PolicyValues -----------------------------
(***************************************************************************)
(* The values a Gateway's templates are rendered with: those of the        *)
(* blueprint and of the policies selected for the Gateway, merged layer by *)
(* layer (lookupValues and merge in common.go).  Which policies are        *)
(* selected is the subject of PolicyWatch; here each policy is one of the  *)
(* selected ones, and its kind says into which of the five groups          *)
(* lookupValues puts it.                                                   *)
(*                                                                         *)
(* A JSON value is a leaf or an object.  A leaf carries the name of the    *)
(* policy and the part (default or override) it was written in, so that a  *)
(* result shows which of them won.  The trees a part may hold are a few    *)
(* shapes; "none" is an absent part and "text" one that is not an object,  *)
(* which the schema of the policies does not rule out.                     *)
(***************************************************************************)
EXTENDS Naturals, Sequences, FiniteSets, SequencesExt

CONSTANTS
    Parts,        \* the pairs of default and override a policy may hold
    MaxPolicies,  \* bound: policies at a time
    MaxBorn       \* bound: creation timestamps, in whole seconds

Shapes == {"none", "text", "leaf", "deep", "wide"}

Leaf(by) == [t |-> "leaf", by |-> by]
Obj(f)   == [t |-> "object", of |-> f]
Nil      == [t |-> "nil"]
Missing  == [t |-> "missing"]
Error    == [t |-> "error"]

Tree(shape, by) ==
    CASE shape = "none"  -> Nil
      [] shape = "text"  -> Leaf(by)
      [] shape = "leaf"  -> Obj([k |-> Leaf(by)])
      [] shape = "deep"  -> Obj([k |-> Obj([n |-> Leaf(by)])])
      [] shape = "wide"  -> Obj([k |-> Obj([o |-> Leaf(by)]), m |-> Leaf(by)])

\* The places of a value in these trees.
Paths == {<<"k">>, <<"m">>, <<"k", "n">>, <<"k", "o">>}

Kinds == {"gwccGlobal", "gwccNs", "gwccClass", "gwcNs", "gwcGateway"}
Policy == [name : 1..MaxPolicies, kind : Kinds, born : 1..MaxBorn, parts : Parts]

ASSUME PolicyValuesAssumption ==
    /\ Parts \subseteq [default : Shapes, override : Shapes]
    /\ MaxPolicies \in Nat /\ MaxBorn \in Nat

VARIABLES
    beside,  \* is the Gateway in the namespace of the controller
    items,   \* the selected policies in the order in which List returns them
    blue,    \* the values of the blueprint
    stage,   \* "idle", "merge" or "done": the call of lookupValues
    todo,    \* what it has still to merge
    values   \* what it has merged

vars == <<beside, items, blue, stage, todo, values>>

Init ==
    /\ beside \in BOOLEAN
    /\ items = <<>>
    /\ blue \in Parts
    /\ stage = "idle" /\ todo = <<>> /\ values = Obj(<<>>)

\* A policy is created: the clock does not go back, the order of a List follows
\* neither the names nor the timestamps.
CreatePolicy ==
    /\ stage = "idle" /\ Len(items) < MaxPolicies
    /\ \E p \in Policy, i \in 1..(Len(items) + 1) :
         /\ \A q \in Range(items) : q.name # p.name /\ q.born <= p.born
         /\ beside => p.kind # "gwccGlobal"
         /\ items' = InsertAt(items, i, p)
    /\ UNCHANGED <<beside, blue, stage, todo, values>>

DeletePolicy ==
    /\ stage = "idle"
    /\ \E i \in DOMAIN items : items' = RemoveAt(items, i)
    /\ UNCHANGED <<beside, blue, stage, todo, values>>

-------------------------------------------------------------------------------
(* merge *)

\* MUTANT: the objects in an object are replaced, not merged.
MergeShallow(a, b) ==
    CASE a.t # "object" -> b
      [] a.t = "object" /\ b.t # "object" -> a
      [] OTHER -> Obj(b.of @@ a.of)

\* The body of merge, with the recursive call as a parameter.
MergeBy(recur(_, _), a, b) ==
    CASE a.t # "object" -> b
      [] a.t = "object" /\ b.t # "object" -> a
      [] OTHER -> Obj([k \in DOMAIN a.of \cup DOMAIN b.of |->
                         IF k \notin DOMAIN a.of THEN b.of[k]
                         ELSE IF k \notin DOMAIN b.of THEN a.of[k]
                         ELSE recur(a.of[k], b.of[k])])

\* The recursion ends with the trees: an object in an object has only leaves, and
\* of two leaves merge returns the second.
MergeLeaves(a, b) == b
MergeMembers(a, b) == MergeBy(MergeLeaves, a, b)

Merge(a, b) == MergeBy(MergeMembers, a, b)

-------------------------------------------------------------------------------
(* lookupValues *)

\* A GatewayClassConfig for the class in the namespace of the controller is listed
\* twice for a Gateway in that namespace: as a global and as a local one.
GroupsOf(kind) ==
    CASE kind = "gwccGlobal" -> {1}
      [] kind = "gwccNs"     -> {2}
      [] kind = "gwccClass"  -> IF beside THEN {1, 3} ELSE {3}
      [] kind = "gwcNs"      -> {4}
      [] kind = "gwcGateway" -> {5}

\* MUTANT: no tie break by name.
PrecedesByTime(p, q) == p.born < q.born

\* Creation timestamp, then name; the policies of a group share a namespace.
Precedes(p, q) == p.born < q.born \/ (p.born = q.born /\ p.name < q.name)

\* sort.SliceStable: by Precedes, and in the order of the list where it is a tie.
SortsBefore(i, j) ==
    \/ Precedes(items[i], items[j])
    \/ ~Precedes(items[j], items[i]) /\ i < j

Members(g) == {i \in DOMAIN items : g \in GroupsOf(items[i].kind)}

Group(g) ==
    LET places == 1..Cardinality(Members(g))
        sorted == CHOOSE f \in Bijection(places, Members(g)) :
                    \A a, b \in places : a < b => SortsBefore(f[a], f[b])
    IN  [a \in places |-> items[sorted[a]]]

Filtered == Group(1) \o Group(2) \o Group(3) \o Group(4) \o Group(5)

By(p, part) == [name |-> p.name, part |-> part]
Blueprint(part) == [name |-> 0, part |-> part]

Part(p, part) == Tree(p.parts[part], By(p, part))

\* MUTANT: the overrides are merged in the order of the defaults.
LayersForward ==
    LET pols == Filtered
    IN  <<Tree(blue.default, Blueprint("default"))>>
          \o [i \in DOMAIN pols |-> Part(pols[i], "default")]
          \o [i \in DOMAIN pols |-> Part(pols[i], "override")]
          \o <<Tree(blue.override, Blueprint("override"))>>

\* All parts in the order in which mergeValues is called with them.
Layers ==
    LET pols == Filtered
    IN  <<Tree(blue.default, Blueprint("default"))>>
          \o [i \in DOMAIN pols |-> Part(pols[i], "default")]
          \o Reverse([i \in DOMAIN pols |-> Part(pols[i], "override")])
          \o <<Tree(blue.override, Blueprint("override"))>>

Begin ==
    /\ stage = "idle" /\ stage' = "merge"
    /\ todo' = Layers
    /\ UNCHANGED <<beside, items, blue, values>>

\* json.Unmarshal of a part that is not an object fails, and the lookup with it.
mergeValues ==
    /\ stage = "merge" /\ todo # <<>>
    /\ LET src == Head(todo)
       IN  IF src.t = "leaf"
           THEN values' = Error /\ todo' = <<>>
           ELSE /\ values' = IF src = Nil THEN values ELSE Merge(values, src)
                /\ todo' = Tail(todo)
    /\ stage' = IF todo' = <<>> THEN "done" ELSE "merge"
    /\ UNCHANGED <<beside, items, blue>>

Return ==
    /\ stage = "done" /\ stage' = "idle"
    /\ values' = Obj(<<>>)
    /\ UNCHANGED <<beside, items, blue, todo>>

Next == CreatePolicy \/ DeletePolicy \/ Begin \/ mergeValues \/ Return

Spec == Init /\ [][Next]_vars

-------------------------------------------------------------------------------
(* Properties *)

\* What is at a path of a tree; Missing when there is nothing.
Below(v, k) == IF v.t = "object" /\ k \in DOMAIN v.of THEN v.of[k] ELSE Missing
At(v, p) == IF Len(p) = 1 THEN Below(v, p[1]) ELSE Below(Below(v, p[1]), p[2])

\* Every part of a policy or the blueprint, with its level in the documented
\* hierarchy.  For its defaults a policy that is listed twice counts at the more
\* specific level, for its overrides at the less specific one.
Level(p, part) == IF part = "default" THEN Max(GroupsOf(p.kind)) ELSE Min(GroupsOf(p.kind))

PolicySource(p, part) ==
    [level |-> Level(p, part), born |-> p.born, by |-> By(p, part), tree |-> Part(p, part)]

BlueprintSource(part) ==
    [level |-> 0, born |-> 0, by |-> Blueprint(part), tree |-> Tree(blue[part], Blueprint(part))]

Sources ==
    {BlueprintSource(part) : part \in {"default", "override"}}
        \cup {PolicySource(p, part) : p \in Range(items), part \in {"default", "override"}}

Invalid == \E s \in Sources : s.tree.t = "leaf"

Setting(p) == {s \in Sources : At(s.tree, p).t \in {"leaf", "object"}}

\* The documented hierarchy: overrides beat defaults, the less specific level of
\* overrides beats the more specific one, and of defaults the more specific beats
\* the less specific one.  Between policies of one level it says nothing.
Beats(s, t) ==
    \/ s.by.part = "override" /\ t.by.part = "default"
    \/ s.by.part = "override" /\ t.by.part = "override" /\ s.level < t.level
    \/ s.by.part = "default"  /\ t.by.part = "default"  /\ t.level < s.level

\* At the path, or at the key above it, one part has a leaf and another an object.
TypeConflict(p) ==
    \E q \in {<<p[1]>>, p} : \E s, t \in Sources :
        At(s.tree, q).t = "leaf" /\ At(t.tree, q).t = "object"

\* The values are those of the documented hierarchy: a path that no part sets is
\* absent, and a leaf comes from a part that no other part setting the path beats.
\* Two cases are left out because what the repository says of them disagrees with
\* itself or with the code.  For a type conflict, the comment of merge gives
\* precedence to its first argument without overwriting it (common.go:108), while
\* the code gives it to the object.  For policies of one level the documentation of
\* the extended configuration calls the result undefined (lines 117-119), while the
\* comments on the sorting cite GEP-713 (common.go:141 and 193) and a test title
\* says that the oldest wins (common_test.go:624).  ValuesAreFixed says what the
\* code does in both.
ValuesFollowHierarchy ==
    stage = "done" /\ ~Invalid => \A p \in Paths :
        /\ Setting(p) = {} => At(values, p) = Missing
        /\ Setting(p) # {} /\ ~TypeConflict(p) =>
             \/ /\ \A s \in Setting(p) : At(s.tree, p).t = "object"
                /\ At(values, p).t = "object"
             \/ \E s \in Setting(p) :
                  At(values, p) = Leaf(s.by) /\ \A u \in Setting(p) : ~Beats(u, s)

\* The order in which the code settles what the documented hierarchy leaves open:
\* within a level, creation time and then name, the newest first for defaults and
\* the oldest first for overrides.
LessSpecific(s, t) ==
    \/ s.level < t.level
    \/ s.level = t.level /\ s.born < t.born
    \/ s.level = t.level /\ s.born = t.born /\ s.by.name < t.by.name

Wins(s, t) ==
    \/ s.by.part = "override" /\ t.by.part = "default"
    \/ s.by.part = "override" /\ t.by.part = "override" /\ LessSpecific(s, t)
    \/ s.by.part = "default"  /\ t.by.part = "default"  /\ LessSpecific(t, s)

\* The policies alone fix the values, whatever the order in which the informer
\* lists them: at each path the one part that wins over all others setting it, in
\* the code's order, except that an object is never displaced by a leaf.  A part
\* that is not an object makes the lookup fail as a whole.
ValuesAreFixed ==
    stage = "done" =>
        IF Invalid THEN values = Error
        ELSE \A p \in Paths :
            LET objects == {s \in Setting(p) : At(s.tree, p).t = "object"}
                result  == At(values, p)
            IN  CASE objects # {}    -> result.t = "object"
                  [] Setting(p) = {} -> result = Missing
                  [] OTHER -> \E s \in Setting(p) :
                       result = Leaf(s.by) /\ \A u \in Setting(p) \ {s} : Wins(s, u)

\* A layer that is merged changes the values only where it sets them, and never
\* takes anything away: what lies beside or below a path it sets is kept.
MergeIsLocal ==
    [][stage = "merge" /\ values' # Error => \A p \in Paths :
         /\ At(values', p) # At(values, p) => At(Head(todo), p) # Missing
         /\ At(values, p) # Missing => At(values', p) # Missing]_vars
===============================================================================
