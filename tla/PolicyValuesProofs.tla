-------------------------- MODULE PolicyValuesProofs --------------------------
(***************************************************************************)
(* Machine-checked proofs about PolicyValues, for any number of policies,  *)
(* any creation timestamps and any choice of the parts.  There are two     *)
(* halves: the layers are sorted (every source has a layer after which     *)
(* only sources that win over it follow), and merge keeps at each path     *)
(* what the last layer that sets it has there.  Together they say that the *)
(* policies alone fix what the templates see, and that it follows the      *)
(* documented hierarchy.                                                   *)
(***************************************************************************)
EXTENDS PolicyValues, FiniteSetTheorems, SequenceTheorems, Minimum, TLAPS

(* The inductive invariant *)

TypeOK ==
    /\ beside \in BOOLEAN
    /\ items \in Seq(Policy)
    /\ blue \in Parts
    /\ stage \in {"idle", "merge", "done"}

\* The name of a policy is its identity.
NamesDiffer == \A i, j \in DOMAIN items : i # j => items[i].name # items[j].name

\* The trees of Tree: an object of leaves and of objects of leaves.
IsInner(v) == v.t = "object" /\ \A k \in DOMAIN v.of : v.of[k].t = "leaf"
IsTree(v)  == v.t = "object" /\ \A k \in DOMAIN v.of : v.of[k].t = "leaf" \/ IsInner(v.of[k])
IsLayer(v) == v = Nil \/ v.t = "leaf" \/ IsTree(v)

\* Every source has a layer after which only layers of sources that win over it
\* come.  A policy that is listed twice has two layers of each part; the later one
\* counts.
Layering(L) ==
    \E src \in [DOMAIN L -> Sources] :
        /\ \A i \in DOMAIN L : L[i] = src[i].tree
        /\ \A s \in Sources : \E i \in DOMAIN L :
             src[i] = s /\ \A j \in DOMAIN L : i < j => Wins(src[j], s)

\* What the first n layers make of a path: an object if one of them has an object
\* there, and else what the last of them has that sets it.
Setters(L, n, p) == {i \in 1..n : At(L[i], p) # Missing}
HasObject(L, n, p) == \E i \in Setters(L, n, p) : At(L[i], p).t = "object"
MergedAt(v, L, n, p) ==
    /\ HasObject(L, n, p) => At(v, p).t = "object"
    /\ Setters(L, n, p) = {} => At(v, p) = Missing
    /\ Setters(L, n, p) # {} /\ ~HasObject(L, n, p) =>
         \E m \in Setters(L, n, p) : (\A i \in Setters(L, n, p) : i <= m) /\ At(v, p) = At(L[m], p)

\* The first n layers have been merged.
Merged(v, L, n) ==
    /\ IsTree(v)
    /\ \A i \in 1..n : L[i].t # "leaf"
    /\ \A p \in Paths : MergedAt(v, L, n, p)

\* A call merges the layers of the policies that are there, one after the other,
\* until a part is not an object.
Progress ==
    IF stage = "idle" THEN values = Obj(<<>>)
    ELSE \E L \in Seq({s.tree : s \in Sources}) :
        /\ Layering(L)
        /\ \/ \E n \in 0..Len(L) : todo = SubSeq(L, n + 1, Len(L)) /\ Merged(values, L, n)
           \/ todo = <<>> /\ values = Error /\ Invalid
        /\ stage = "done" <=> todo = <<>>

Inductive == TypeOK /\ NamesDiffer /\ Progress

-------------------------------------------------------------------------------
(* Merging two trees *)

USE DEF Leaf, Obj, Nil, Missing, Error

\* What is below an object: its member, or nothing.
LEMMA BelowType ==
    ASSUME NEW v, NEW k
    PROVE  /\ IsTree(v) => \/ Below(v, k) = Missing \/ Below(v, k).t = "leaf"
                           \/ IsInner(Below(v, k))
           /\ IsInner(v) => Below(v, k) = Missing \/ Below(v, k).t = "leaf"
           /\ v.t # "object" => Below(v, k) = Missing
BY DEF Below, IsTree, IsInner

\* An inner object has its members from the second argument where it has them.
LEMMA MergeInner ==
    ASSUME NEW a, NEW b, IsInner(a), IsInner(b)
    PROVE  /\ IsInner(MergeMembers(a, b))
           /\ \A k : Below(MergeMembers(a, b), k) =
                       IF Below(b, k) # Missing THEN Below(b, k) ELSE Below(a, k)
BY DEF MergeMembers, MergeBy, MergeLeaves, IsInner, Below

\* merge on what two trees have for one key.
LEMMA MergeKey ==
    ASSUME NEW a, NEW b, IsTree(a), IsTree(b)
    PROVE  /\ IsTree(Merge(a, b))
           /\ \A k : Below(Merge(a, b), k) =
                       IF Below(a, k) = Missing THEN Below(b, k)
                       ELSE IF Below(b, k) = Missing THEN Below(a, k)
                       ELSE MergeMembers(Below(a, k), Below(b, k))
<1>. DEFINE M == Merge(a, b)
<1>1. M = Obj([k \in DOMAIN a.of \cup DOMAIN b.of |->
                 IF k \notin DOMAIN a.of THEN b.of[k]
                 ELSE IF k \notin DOMAIN b.of THEN a.of[k]
                 ELSE MergeMembers(a.of[k], b.of[k])])
  BY Zenon DEF Merge, MergeBy, IsTree
<1>2. M.t = "object" /\ DOMAIN M.of = DOMAIN a.of \cup DOMAIN b.of
  BY <1>1
<1>3. \A k \in DOMAIN M.of : M.of[k] = IF k \notin DOMAIN a.of THEN b.of[k]
                 ELSE IF k \notin DOMAIN b.of THEN a.of[k]
                 ELSE MergeMembers(a.of[k], b.of[k])
  BY <1>1
<1>4. ASSUME NEW k \in DOMAIN M.of
      PROVE  M.of[k].t = "leaf" \/ IsInner(M.of[k])
  <2>1. CASE k \in DOMAIN a.of /\ k \in DOMAIN b.of /\ IsInner(a.of[k]) /\ IsInner(b.of[k])
    BY <1>3, <1>4, <2>1, MergeInner
  <2>2. CASE k \in DOMAIN a.of /\ k \in DOMAIN b.of /\ ~(IsInner(a.of[k]) /\ IsInner(b.of[k]))
    <3>1. M.of[k] \in {a.of[k], b.of[k]}
      BY <1>3, <1>4, <2>2 DEF MergeMembers, MergeBy, IsTree, IsInner
    <3>. QED
      BY <3>1, <2>2 DEF IsTree
  <2>3. CASE ~(k \in DOMAIN a.of /\ k \in DOMAIN b.of)
    BY <1>2, <1>3, <1>4, <2>3 DEF IsTree
  <2>. QED
    BY <2>1, <2>2, <2>3 DEF IsTree
<1>5. IsTree(M)
  BY <1>2, <1>4 DEF IsTree
<1>6. ASSUME NEW k
      PROVE  Below(M, k) = IF Below(a, k) = Missing THEN Below(b, k)
                           ELSE IF Below(b, k) = Missing THEN Below(a, k)
                           ELSE MergeMembers(Below(a, k), Below(b, k))
  <2>1. k \in DOMAIN a.of <=> Below(a, k) # Missing
    BY DEF Below, IsTree, IsInner
  <2>2. k \in DOMAIN b.of <=> Below(b, k) # Missing
    BY DEF Below, IsTree, IsInner
  <2>3. Below(M, k) = IF k \in DOMAIN M.of THEN M.of[k] ELSE Missing
    BY <1>2 DEF Below
  <2>4. k \in DOMAIN a.of => Below(a, k) = a.of[k]
    BY DEF Below, IsTree
  <2>5. k \in DOMAIN b.of => Below(b, k) = b.of[k]
    BY DEF Below, IsTree
  <2>. HIDE DEF M
  <2>. QED
    BY <1>2, <1>3, <2>1, <2>2, <2>3, <2>4, <2>5
<1>. QED
  BY <1>5, <1>6

\* A path goes one or two steps down.
LEMMA AtSteps ==
    ASSUME NEW p
    PROVE  \/ \A v : At(v, p) = Below(v, p[1])
           \/ \A v : At(v, p) = Below(Below(v, p[1]), p[2])
BY DEF At

\* What is at a path of a tree is nothing, a leaf or an object.
LEMMA AtType ==
    ASSUME NEW v, IsLayer(v), NEW p
    PROVE  At(v, p) = Missing \/ At(v, p).t \in {"leaf", "object"}
<1>1. CASE \A w : At(w, p) = Below(w, p[1])
  BY <1>1, BelowType DEF IsLayer, IsInner
<1>2. CASE \A w : At(w, p) = Below(Below(w, p[1]), p[2])
  <2>1. \/ Below(v, p[1]) = Missing \/ Below(v, p[1]).t = "leaf" \/ IsInner(Below(v, p[1]))
    BY BelowType DEF IsLayer
  <2>2. Missing.t # "object"
    OBVIOUS
  <2>. QED
    BY <1>2, <2>1, <2>2, BelowType
<1>. QED
  BY <1>1, <1>2, AtSteps

\* merge on what two trees have at a path: the second wins, except that an object is
\* not displaced by a leaf, and nothing that only one of them has is lost.
LEMMA MergeAt ==
    ASSUME NEW a, NEW b, IsTree(a), IsTree(b), NEW p
    PROVE  /\ At(b, p) = Missing => At(Merge(a, b), p) = At(a, p)
           /\ At(a, p).t = "object" => At(Merge(a, b), p).t = "object"
           /\ At(b, p) # Missing /\ At(a, p).t # "object" => At(Merge(a, b), p) = At(b, p)
<1>. DEFINE M == Merge(a, b)
            k == p[1]
            A == Below(a, k)
            B == Below(b, k)
<1>0. Below(M, k) = IF A = Missing THEN B ELSE IF B = Missing THEN A ELSE MergeMembers(A, B)
  BY MergeKey
<1>1. /\ A = Missing \/ A.t = "leaf" \/ IsInner(A)
      /\ B = Missing \/ B.t = "leaf" \/ IsInner(B)
  BY BelowType
<1>2. A.t # "object" => MergeMembers(A, B) = B
  BY Zenon DEF MergeMembers, MergeBy
<1>3. A.t = "object" /\ B.t # "object" => MergeMembers(A, B) = A
  BY Zenon DEF MergeMembers, MergeBy
<1>4. Missing.t # "object" /\ \A x : Below(Missing, x) = Missing
  BY DEF Below
<1>5. CASE \A v : At(v, p) = Below(v, k)
  <2>. HIDE DEF M, A, B
  <2>1. At(M, p) = Below(M, k) /\ At(a, p) = Below(a, k) /\ At(b, p) = Below(b, k)
    BY <1>5
  <2>2. IsInner(A) /\ IsInner(B) => MergeMembers(A, B).t = "object"
    BY MergeInner DEF IsInner
  <2>. QED
    BY <1>0, <1>1, <1>2, <1>3, <1>4, <2>1, <2>2 DEF A, B, M, IsInner
<1>6. CASE \A v : At(v, p) = Below(Below(v, k), p[2])
  <2>1. /\ IsInner(A) => Below(A, p[2]) = Missing \/ Below(A, p[2]).t = "leaf"
        /\ A.t # "object" => Below(A, p[2]) = Missing
        /\ B.t # "object" => Below(B, p[2]) = Missing
    BY BelowType
  <2>2. IsInner(A) /\ IsInner(B) => Below(MergeMembers(A, B), p[2]) =
           IF Below(B, p[2]) # Missing THEN Below(B, p[2]) ELSE Below(A, p[2])
    BY MergeInner
  <2>. HIDE DEF M, A, B, k
  <2>3. At(M, p) = Below(Below(M, k), p[2]) /\ At(a, p) = Below(A, p[2]) /\ At(b, p) = Below(B, p[2])
    BY <1>6 DEF A, B
  <2>4. "leaf" # "object"
    OBVIOUS
  <2>5. IsInner(A) \/ Below(A, p[2]) = Missing
    BY <1>1, <1>4, <2>1, <2>4
  <2>6. IsInner(B) \/ Below(B, p[2]) = Missing
    BY <1>1, <1>4, <2>1, <2>4
  <2>7. Below(A, p[2]).t # "object"
    BY <1>4, <2>1, <2>4, <2>5
  <2>8. CASE IsInner(A) /\ IsInner(B)
    <3>1. A # Missing /\ B # Missing
      BY <2>8, <1>4 DEF IsInner
    <3>2. At(M, p) = IF Below(B, p[2]) # Missing THEN Below(B, p[2]) ELSE Below(A, p[2])
      BY <1>0, <2>2, <2>3, <2>8, <3>1
    <3>. QED
      BY <2>3, <2>7, <3>2 DEF M
  <2>9. CASE ~IsInner(A)
    <3>1. Below(M, k) = B \/ (B = Missing /\ Below(M, k) = A)
      BY <1>0, <1>1, <1>2, <1>4, <2>9
    <3>2. Below(A, p[2]) = Missing
      BY <2>5, <2>9
    <3>. QED
      BY <1>4, <2>3, <2>7, <3>1, <3>2 DEF M
  <2>10. CASE IsInner(A) /\ ~IsInner(B)
    <3>1. Below(M, k) = A
      BY <1>0, <1>1, <1>3, <1>4, <2>10, <2>4 DEF IsInner
    <3>. QED
      BY <2>3, <2>6, <2>10, <2>7, <3>1 DEF M
  <2>. QED
    BY <2>8, <2>9, <2>10
<1>. QED
  BY <1>5, <1>6, AtSteps

-------------------------------------------------------------------------------
(* Merging one layer after the other *)

\* Before the first layer nothing is set.
LEMMA MergedNone ==
    ASSUME NEW L
    PROVE  Merged(Obj(<<>>), L, 0)
<1>. DEFINE v == Obj(<<>>)
<1>1. v.t = "object" /\ DOMAIN v.of = {}
  OBVIOUS
<1>2. \A k : Below(v, k) = Missing /\ Below(Missing, k) = Missing
  BY <1>1 DEF Below
<1>3. \A p : At(v, p) = Missing
  <2>. HIDE DEF v
  <2>. QED
    BY <1>2, AtSteps
<1>. HIDE DEF v
<1>4. ASSUME NEW p \in Paths
      PROVE  MergedAt(v, L, 0, p)
  <2>1. Setters(L, 0, p) = {}
    BY DEF Setters
  <2>. QED
    BY <1>3, <2>1 DEF MergedAt, HasObject
<1>5. IsTree(v)
  BY <1>1 DEF IsTree
<1>. QED
  BY <1>4, <1>5 DEF Merged, v

\* An absent part sets nothing.
LEMMA NilAt ==
    ASSUME NEW p
    PROVE  At(Nil, p) = Missing
<1>1. \A k : Below(Nil, k) = Missing /\ Below(Missing, k) = Missing
  BY DEF Below
<1>. HIDE DEF Nil
<1>. QED
  BY <1>1, AtSteps

\* The next layer is the last that sets what it sets.
LEMMA MergedNext ==
    ASSUME NEW v, NEW L, NEW n \in Nat, Merged(v, L, n),
           IsLayer(L[n + 1]), L[n + 1].t # "leaf"
    PROVE  Merged(IF L[n + 1] = Nil THEN v ELSE Merge(v, L[n + 1]), L, n + 1)
<1>. DEFINE b == L[n + 1]
            w == IF b = Nil THEN v ELSE Merge(v, b)
<1>1. IsTree(v) /\ (b = Nil \/ IsTree(b))
  BY DEF Merged, IsLayer
<1>2. IsTree(w)
  BY <1>1, MergeKey
<1>3. \A i \in 1..(n + 1) : L[i].t # "leaf"
  BY DEF Merged
<1>4. ASSUME NEW p \in Paths
      PROVE  MergedAt(w, L, n + 1, p)
  <2>. DEFINE S == Setters(L, n, p)
              T == Setters(L, n + 1, p)
  <2>1. MergedAt(v, L, n, p)
    BY DEF Merged
  <2>2. /\ At(b, p) = Missing => At(w, p) = At(v, p)
        /\ At(v, p).t = "object" => At(w, p).t = "object"
        /\ At(b, p) # Missing /\ At(v, p).t # "object" => At(w, p) = At(b, p)
    <3>1. CASE b = Nil
      <4>1. At(b, p) = Missing
        BY <3>1, NilAt
      <4>. QED
        BY <3>1, <4>1
    <3>2. CASE b # Nil
      <4>. HIDE DEF b
      <4>1. w = Merge(v, b)
        BY <3>2
      <4>. QED
        BY <1>1, <3>2, <4>1, MergeAt
    <3>. QED
      BY <3>1, <3>2
  <2>. HIDE DEF w
  <2>3. T = IF At(b, p) = Missing THEN S ELSE S \cup {n + 1}
    BY DEF Setters
  <2>4. \A i \in S : i \in 1..n
    BY DEF Setters
  <2>5. CASE At(b, p) = Missing
    <3>1. T = S /\ At(w, p) = At(v, p)
      BY <2>2, <2>3, <2>5
    <3>. QED
      BY <2>1, <3>1 DEF MergedAt, HasObject
  <2>6. CASE At(b, p) # Missing
    <3>1. T = S \cup {n + 1}
      BY <2>3, <2>6
    <3>2. CASE HasObject(L, n, p)
      <4>1. At(w, p).t = "object"
        BY <2>1, <2>2, <3>2 DEF MergedAt
      <4>2. HasObject(L, n + 1, p)
        BY <3>1, <3>2 DEF HasObject
      <4>. QED
        BY <3>1, <4>1, <4>2 DEF MergedAt
    <3>3. CASE ~HasObject(L, n, p)
      <4>1. At(v, p).t # "object"
        <5>1. Missing.t # "object"
          OBVIOUS
        <5>. QED
          BY <2>1, <3>3, <5>1 DEF MergedAt, HasObject
      <4>2. At(w, p) = At(b, p)
        BY <2>2, <2>6, <4>1
      <4>3. n + 1 \in T /\ \A i \in T : i <= n + 1
        BY <2>4, <3>1
      <4>4. HasObject(L, n + 1, p) <=> At(b, p).t = "object"
        BY <3>1, <3>3 DEF HasObject
      <4>. QED
        BY <4>2, <4>3, <4>4 DEF MergedAt
    <3>. QED
      BY <3>2, <3>3
  <2>. QED
    BY <2>5, <2>6
<1>. QED
  BY <1>2, <1>3, <1>4 DEF Merged

-------------------------------------------------------------------------------
(* The stable sort *)

\* R is a strict total order on M.
Orders(R, M) ==
    /\ \A i \in M : <<i, i>> \notin R
    /\ \A i, j, k \in M : <<i, j>> \in R /\ <<j, k>> \in R => <<i, k>> \in R
    /\ \A i, j \in M : i # j => <<i, j>> \in R \/ <<j, i>> \in R

\* Of finitely many numbers and a strict total order on them there is a sorted
\* arrangement: sort.SliceStable has a result.
LEMMA SortExists ==
    ASSUME NEW M, NEW N \in Nat, M \subseteq 1..N, NEW R, Orders(R, M)
    PROVE  \E n \in Nat : \E f \in Bijection(1..n, M) :
              \A a, b \in 1..n : a < b => <<f[a], f[b]>> \in R
<1>. DEFINE Upto(m) == {i \in M : i <= m}
            Sorted(n, f, S) ==
              /\ f \in [1..n -> S]
              /\ \A i \in S : \E a \in 1..n : f[a] = i
              /\ \A a, b \in 1..n : a < b => <<f[a], f[b]>> \in R
            Done(m) == \E n \in Nat : \E f : Sorted(n, f, Upto(m))
<1>0. \A i \in M : i \in Nat /\ 1 <= i /\ i <= N
  OBVIOUS
<1>. USE DEF Orders
<1>1. Done(0)
  <2>1. Upto(0) = {}
    <3>1. \A i \in M : ~(i <= 0)
      BY <1>0
    <3>. QED
      BY <3>1, Zenon
  <2>2. Sorted(0, [i \in 1..0 |-> 0], {})
    OBVIOUS
  <2>. QED
    BY <2>1, <2>2
<1>2. ASSUME NEW m \in Nat, Done(m)
      PROVE  Done(m + 1)
  <2>. DEFINE x == m + 1
  <2>1. CASE x \notin M
    <3>1. \A i \in M : i <= m + 1 <=> i <= m
      BY <1>0, <2>1
    <3>2. Upto(m + 1) = Upto(m)
      BY <3>1
    <3>. QED
      BY <1>2, <3>2
  <2>2. CASE x \in M
    <3>1. PICK n \in Nat : \E f : Sorted(n, f, Upto(m))
      BY <1>2
    <3>2. PICK f : Sorted(n, f, Upto(m))
      BY <3>1
    <3>3. x \notin Upto(m) /\ Upto(m + 1) = Upto(m) \cup {x}
      <4>1. \A i \in M : i <= m + 1 <=> i <= m \/ i = x
        BY <1>0
      <4>2. ~(x <= m)
        OBVIOUS
      <4>3. x <= m + 1
        OBVIOUS
      <4>4. x \notin Upto(m)
        BY <4>2
      <4>5. ASSUME NEW i
            PROVE  i \in Upto(m + 1) <=> i \in Upto(m) \cup {x}
        <5>1. CASE i \in M
          BY <4>1, <4>3, <5>1, <2>2
        <5>2. CASE i \notin M
          BY <5>2, <2>2
        <5>. QED
          BY <5>1, <5>2
      <4>. HIDE DEF Upto
      <4>. QED
        BY <4>4, <4>5
    <3>. DEFINE J == {a \in 1..n : <<x, f[a]>> \in R} \cup {n + 1}
    <3>4. PICK j \in J : \A a \in J : j <= a
      <4>1. J \subseteq Nat /\ J # {}
        OBVIOUS
      <4>. QED
        BY <4>1, MinimumExists
    <3>5. j \in 1..(n + 1) /\ (j # n + 1 => <<x, f[j]>> \in R)
      OBVIOUS
    <3>6. \A a \in 1..n : a < j => <<f[a], x>> \in R
      <4>1. SUFFICES ASSUME NEW a \in 1..n, a < j
                     PROVE  <<f[a], x>> \in R
        OBVIOUS
      <4>2. <<x, f[a]>> \notin R
        BY <3>4, <4>1
      <4>3. f[a] \in Upto(m)
        BY <3>2
      <4>. QED
        BY <2>2, <3>3, <4>2, <4>3
    <3>7. \A a \in 1..n : a >= j => <<x, f[a]>> \in R
      <4>1. SUFFICES ASSUME NEW a \in 1..n, a >= j
                     PROVE  <<x, f[a]>> \in R
        OBVIOUS
      <4>2. j \in 1..n /\ <<x, f[j]>> \in R
        BY <3>5, <4>1
      <4>3. f[a] \in M /\ f[j] \in M
        BY <3>2, <4>1, <4>2
      <4>4. a = j \/ <<f[j], f[a]>> \in R
        BY <3>2, <4>1, <4>2
      <4>. QED
        BY <2>2, <4>2, <4>3, <4>4
    <3>. DEFINE g == [a \in 1..(n + 1) |-> IF a < j THEN f[a] ELSE IF a = j THEN x ELSE f[a - 1]]
    <3>. HIDE DEF J, Upto
    <3>8. g \in [1..(n + 1) -> Upto(m + 1)]
      <4>1. SUFFICES ASSUME NEW a \in 1..(n + 1)
                     PROVE  g[a] \in Upto(m + 1)
        OBVIOUS
      <4>2. CASE a < j
        <5>1. a \in 1..n /\ g[a] = f[a]
          BY <3>5, <4>2
        <5>. QED
          BY <3>2, <3>3, <5>1
      <4>3. CASE a = j
        BY <3>3, <4>3
      <4>4. CASE a > j
        <5>1. a - 1 \in 1..n /\ g[a] = f[a - 1]
          BY <3>5, <4>4
        <5>. QED
          BY <3>2, <3>3, <5>1
      <4>. QED
        BY <3>5, <4>2, <4>3, <4>4
    <3>9. \A i \in Upto(m + 1) : \E a \in 1..(n + 1) : g[a] = i
      <4>1. SUFFICES ASSUME NEW i \in Upto(m + 1)
                     PROVE  \E a \in 1..(n + 1) : g[a] = i
        OBVIOUS
      <4>2. CASE i = x
        <5>1. g[j] = x
          BY <3>5
        <5>. QED
          BY <3>5, <4>2, <5>1
      <4>3. CASE i # x
        <5>1. PICK a \in 1..n : f[a] = i
          BY <3>2, <3>3, <4>3
        <5>2. CASE a < j
          <6>1. a \in 1..(n + 1) /\ g[a] = i
            BY <5>1, <5>2
          <6>. QED
            BY <6>1
        <5>3. CASE a >= j
          <6>1. a + 1 \in 1..(n + 1) /\ g[a + 1] = i
            BY <3>5, <5>1, <5>3
          <6>. QED
            BY <6>1
        <5>. QED
          BY <3>5, <5>2, <5>3
      <4>. QED
        BY <4>2, <4>3
    <3>10. \A a, b \in 1..(n + 1) : a < b => <<g[a], g[b]>> \in R
      <4>1. SUFFICES ASSUME NEW a \in 1..(n + 1), NEW b \in 1..(n + 1), a < b
                     PROVE  <<g[a], g[b]>> \in R
        OBVIOUS
      <4>2. CASE b < j
        <5>1. a \in 1..n /\ b \in 1..n /\ g[a] = f[a] /\ g[b] = f[b]
          BY <3>5, <4>1, <4>2
        <5>. QED
          BY <3>2, <4>1, <5>1
      <4>3. CASE b = j
        <5>1. a \in 1..n /\ a < j /\ g[a] = f[a] /\ g[b] = x
          BY <3>5, <4>1, <4>3
        <5>. QED
          BY <3>6, <5>1
      <4>4. CASE b > j /\ a < j
        <5>1. /\ a \in 1..n /\ b - 1 \in 1..n /\ a < b - 1
              /\ g[a] = f[a] /\ g[b] = f[b - 1]
          BY <3>5, <4>1, <4>4
        <5>. QED
          BY <3>2, <5>1
      <4>5. CASE b > j /\ a = j
        <5>1. b - 1 \in 1..n /\ b - 1 >= j /\ g[a] = x /\ g[b] = f[b - 1]
          BY <3>5, <4>1, <4>5
        <5>. QED
          BY <3>7, <5>1
      <4>6. CASE b > j /\ a > j
        <5>1. /\ a - 1 \in 1..n /\ b - 1 \in 1..n /\ a - 1 < b - 1
              /\ g[a] = f[a - 1] /\ g[b] = f[b - 1]
          BY <3>5, <4>1, <4>6
        <5>. QED
          BY <3>2, <5>1
      <4>. QED
        BY <3>5, <4>2, <4>3, <4>4, <4>5, <4>6
    <3>. HIDE DEF g
    <3>11. Sorted(n + 1, g, Upto(m + 1))
      BY <3>8, <3>9, <3>10
    <3>. QED
      BY <3>11
  <2>. QED
    BY <2>1, <2>2
<1>. HIDE DEF Done
<1>3. Done(N)
  <2>1. SUFFICES ASSUME ~Done(N)
                 PROVE  FALSE
    OBVIOUS
  <2>2. PICK m \in {i \in Nat : ~Done(i)} : \A i \in {k \in Nat : ~Done(k)} : m <= i
    <3>1. {i \in Nat : ~Done(i)} \subseteq Nat /\ {i \in Nat : ~Done(i)} # {}
      BY <2>1
    <3>. QED
      BY <3>1, MinimumExists
  <2>3. m # 0
    BY <1>1, <2>2
  <2>4. m - 1 \in Nat /\ (m - 1) + 1 = m
    BY <2>2, <2>3
  <2>5. Done(m - 1)
    BY <2>2, <2>4
  <2>6. Done((m - 1) + 1)
    BY <1>2, <2>4, <2>5
  <2>. QED
    BY <2>2, <2>4, <2>6
<1>4. PICK n \in Nat : \E f : Sorted(n, f, Upto(N))
  BY <1>3 DEF Done
<1>5. PICK f : Sorted(n, f, Upto(N))
  BY <1>4
<1>6. Upto(N) = M
  BY <1>0
<1>7. f \in Bijection(1..n, M)
  <2>1. f \in [1..n -> M] /\ \A i \in M : \E a \in 1..n : f[a] = i
    BY <1>5, <1>6
  <2>2. \A a, b \in 1..n : f[a] = f[b] => a = b
    <3>1. SUFFICES ASSUME NEW a \in 1..n, NEW b \in 1..n, f[a] = f[b], a < b \/ b < a
                   PROVE  FALSE
      OBVIOUS
    <3>2. <<f[a], f[b]>> \in R \/ <<f[b], f[a]>> \in R
      BY <1>5, <3>1
    <3>. QED
      BY <2>1, <3>1, <3>2
  <2>. QED
    BY <2>1, <2>2 DEF Bijection, Injection, Surjection, IsInjective
<1>. QED
  BY <1>5, <1>7

\* Two policies are never equal in the sort order: it ends with the name.
LEMMA PrecedesOrders ==
    ASSUME TypeOK, NamesDiffer
    PROVE  /\ \A i \in DOMAIN items : items[i] \in Policy
           /\ \A i \in DOMAIN items : ~SortsBefore(i, i)
           /\ \A i, j \in DOMAIN items :
                SortsBefore(i, j) <=> Precedes(items[i], items[j])
           /\ \A i, j \in DOMAIN items : i # j => SortsBefore(i, j) \/ SortsBefore(j, i)
           /\ \A i, j, k \in DOMAIN items : SortsBefore(i, j) /\ SortsBefore(j, k) => SortsBefore(i, k)
<1>1. \A i \in DOMAIN items : i \in Nat /\ items[i] \in Policy
  BY DEF TypeOK
<1>2. \A i \in DOMAIN items : items[i].born \in Nat /\ items[i].name \in Nat
  BY <1>1, PolicyValuesAssumption DEF Policy
<1>3. \A i, j \in DOMAIN items : i # j => items[i].name # items[j].name
  BY DEF NamesDiffer
<1>4. \A i, j \in DOMAIN items : SortsBefore(i, j) <=> Precedes(items[i], items[j])
  BY <1>1, <1>2, <1>3 DEF SortsBefore, Precedes
<1>. QED
  BY <1>1, <1>2, <1>3, <1>4 DEF Precedes

\* A group holds the policies of its kind, sorted.
LEMMA GroupIs ==
    ASSUME TypeOK, NamesDiffer, NEW g
    PROVE  /\ Group(g) \in Seq(Policy)
           /\ \A a \in DOMAIN Group(g) :
                Group(g)[a] \in Range(items) /\ g \in GroupsOf(Group(g)[a].kind)
           /\ \A q \in Range(items) :
                g \in GroupsOf(q.kind) => \E a \in DOMAIN Group(g) : Group(g)[a] = q
           /\ \A a, b \in DOMAIN Group(g) : a < b => Precedes(Group(g)[a], Group(g)[b])
<1>. DEFINE M == Members(g)
            R == {ij \in M \X M : SortsBefore(ij[1], ij[2])}
            Ordered(n, f) == \A a, b \in 1..n : a < b => SortsBefore(f[a], f[b])
<1>0. items \in Seq(Policy) /\ Len(items) \in Nat /\ DOMAIN items = 1..Len(items)
  BY DEF TypeOK
<1>1. M \subseteq DOMAIN items /\ M \subseteq 1..Len(items)
  BY <1>0 DEF Members
<1>2. \A i, j \in M : <<i, j>> \in R <=> SortsBefore(i, j)
  OBVIOUS
<1>3. Orders(R, M)
  <2>. HIDE DEF M, R
  <2>. QED
    BY <1>1, <1>2, PrecedesOrders DEF Orders
<1>. HIDE DEF R
<1>4. PICK n \in Nat : \E f \in Bijection(1..n, M) : \A a, b \in 1..n : a < b => <<f[a], f[b]>> \in R
  <2>. HIDE DEF M
  <2>. QED
    BY <1>0, <1>1, <1>3, SortExists
<1>5. PICK h \in Bijection(1..n, M) : \A a, b \in 1..n : a < b => <<h[a], h[b]>> \in R
  BY <1>4
<1>. HIDE DEF M
<1>6. \A f \in Bijection(1..n, M) :
        f \in [1..n -> M] /\ \A i \in M : \E a \in 1..n : f[a] = i
  BY DEF Bijection, Surjection
<1>7. Ordered(n, h)
  BY <1>2, <1>5, <1>6
<1>8. Cardinality(M) = n
  <2>1. ExistsBijection(1..n, M)
    BY <1>5 DEF ExistsBijection
  <2>. QED
    BY <1>4, <2>1, FS_CountingElements
<1>. DEFINE c == Cardinality(M)
            s == CHOOSE f \in Bijection(1..c, M) : Ordered(c, f)
<1>9. s \in Bijection(1..n, M) /\ Ordered(n, s)
  <2>1. \E f \in Bijection(1..c, M) : Ordered(c, f)
    BY <1>5, <1>7, <1>8
  <2>2. s \in Bijection(1..c, M) /\ Ordered(c, s)
    <3>. HIDE DEF Ordered, c
    <3>. QED
      BY <2>1, Zenon
  <2>. QED
    BY <1>8, <2>2
<1>10. Group(g) = [a \in 1..n |-> items[s[a]]]
  <2>1. Group(g) = [a \in 1..c |-> items[s[a]]]
    BY Zenon DEF Group, M
  <2>. HIDE DEF s, c
  <2>. QED
    BY <1>8, <2>1 DEF c
<1>. HIDE DEF s
<1>11. \A a \in 1..n : s[a] \in M
  BY <1>6, <1>9
<1>12. \A i \in M : items[i] \in Policy /\ items[i] \in Range(items) /\ g \in GroupsOf(items[i].kind)
  BY <1>0, PrecedesOrders DEF M, Members, Range
<1>13. Group(g) \in Seq(Policy) /\ DOMAIN Group(g) = 1..n
  BY <1>4, <1>10, <1>11, <1>12
<1>14. \A a \in 1..n : Group(g)[a] = items[s[a]]
  BY <1>10
<1>15. ASSUME NEW q \in Range(items), g \in GroupsOf(q.kind)
       PROVE  \E a \in 1..n : Group(g)[a] = q
  <2>1. PICK i \in DOMAIN items : items[i] = q
    BY DEF Range
  <2>2. i \in M
    BY <1>15, <2>1 DEF M, Members
  <2>3. PICK a \in 1..n : s[a] = i
    BY <1>6, <1>9, <2>2
  <2>. QED
    BY <1>14, <2>1, <2>3
<1>16. \A a, b \in 1..n : a < b => Precedes(Group(g)[a], Group(g)[b])
  <2>1. \A a, b \in 1..n : a < b => SortsBefore(s[a], s[b])
    BY <1>9
  <2>. QED
    BY <1>1, <1>11, <1>14, <2>1, PrecedesOrders
<1>. QED
  BY <1>11, <1>12, <1>13, <1>14, <1>15, <1>16

-------------------------------------------------------------------------------
(* The order of the policies *)

\* F lists the groups 1 to k one after the other, each of them sorted and complete.
Grouped(F, k) ==
    /\ F \in Seq(Policy)
    /\ \E grp \in [DOMAIN F -> 1..k] :
         /\ \A i \in DOMAIN F : F[i] \in Range(items) /\ grp[i] \in GroupsOf(F[i].kind)
         /\ \A i, j \in DOMAIN F : i < j =>
              grp[i] < grp[j] \/ (grp[i] = grp[j] /\ Precedes(F[i], F[j]))
         /\ \A q \in Range(items), g \in 1..k :
              g \in GroupsOf(q.kind) => \E i \in DOMAIN F : F[i] = q /\ grp[i] = g

\* No group is listed at first ...
LEMMA GroupedNone == Grouped(<<>>, 0)
<1>. DEFINE F == <<>>
<1>1. F \in Seq(Policy) /\ DOMAIN F = {}
  OBVIOUS
<1>. HIDE DEF F
<1>2. [i \in DOMAIN F |-> 0] \in [DOMAIN F -> 1..0] /\ 1..0 = {}
  BY <1>1
<1>3. Grouped(F, 0)
  <2>1. \A i \in DOMAIN F : FALSE
    BY <1>1
  <2>2. \A g \in 1..0 : FALSE
    BY <1>2
  <2>. QED
    BY <1>1, <1>2, <2>1, <2>2, Zenon DEF Grouped
<1>. QED
  BY <1>3 DEF F

\* ... and the next group is appended.
LEMMA GroupedNext ==
    ASSUME TypeOK, NamesDiffer, NEW k \in Nat, NEW F, Grouped(F, k)
    PROVE  Grouped(F \o Group(k + 1), k + 1)
<1>. DEFINE G == Group(k + 1)
            H == F \o G
            n == Len(F)
<1>1. /\ G \in Seq(Policy)
      /\ \A a \in DOMAIN G : G[a] \in Range(items) /\ k + 1 \in GroupsOf(G[a].kind)
      /\ \A q \in Range(items) : k + 1 \in GroupsOf(q.kind) => \E a \in DOMAIN G : G[a] = q
      /\ \A a, b \in DOMAIN G : a < b => Precedes(G[a], G[b])
  BY GroupIs
<1>. HIDE DEF G
<1>2. F \in Seq(Policy)
  BY DEF Grouped
<1>3. PICK grp \in [DOMAIN F -> 1..k] :
         /\ \A i \in DOMAIN F : F[i] \in Range(items) /\ grp[i] \in GroupsOf(F[i].kind)
         /\ \A i, j \in DOMAIN F : i < j =>
              grp[i] < grp[j] \/ (grp[i] = grp[j] /\ Precedes(F[i], F[j]))
         /\ \A q \in Range(items), g \in 1..k :
              g \in GroupsOf(q.kind) => \E i \in DOMAIN F : F[i] = q /\ grp[i] = g
  BY DEF Grouped
<1>4. /\ H \in Seq(Policy) /\ n \in Nat /\ Len(G) \in Nat
      /\ DOMAIN F = 1..n /\ DOMAIN G = 1..Len(G) /\ DOMAIN H = 1..(n + Len(G))
      /\ \A i \in 1..n : i \in DOMAIN H /\ H[i] = F[i]
      /\ \A a \in 1..Len(G) : n + a \in DOMAIN H /\ H[n + a] = G[a]
  BY <1>1, <1>2
<1>5. ASSUME NEW i \in DOMAIN H
      PROVE  i \in 1..n \/ (i > n /\ i - n \in DOMAIN G /\ H[i] = G[i - n])
  <2>1. CASE i > n
    <3>1. i - n \in 1..Len(G) /\ n + (i - n) = i
      BY <1>4, <2>1
    <3>. QED
      BY <1>4, <2>1, <3>1
  <2>. QED
    BY <1>4, <2>1
<1>. HIDE DEF H, n
<1>. DEFINE grq == [i \in DOMAIN H |-> IF i <= n THEN grp[i] ELSE k + 1]
<1>6. \A i \in DOMAIN H : i \in Nat /\ (i <= n <=> i \in 1..n)
  BY <1>4
<1>7. grq \in [DOMAIN H -> 1..(k + 1)]
  <2>1. \A i \in 1..n : grp[i] \in 1..k
    BY <1>4
  <2>. QED
    BY <1>6, <2>1
<1>8. \A i \in DOMAIN H : grq[i] = IF i <= n THEN grp[i] ELSE k + 1
  OBVIOUS
<1>. HIDE DEF grq
<1>9. ASSUME NEW i \in DOMAIN H
      PROVE  H[i] \in Range(items) /\ grq[i] \in GroupsOf(H[i].kind)
  BY <1>1, <1>3, <1>4, <1>5, <1>6, <1>8
<1>10. ASSUME NEW i \in DOMAIN H, NEW j \in DOMAIN H, i < j
       PROVE  grq[i] < grq[j] \/ (grq[i] = grq[j] /\ Precedes(H[i], H[j]))
  <2>1. CASE j <= n
    <3>1. i \in 1..n /\ j \in 1..n
      BY <1>4, <1>6, <1>10, <2>1
    <3>. QED
      BY <1>3, <1>4, <1>6, <1>8, <1>10, <3>1
  <2>2. CASE i <= n /\ j > n
    <3>1. grp[i] \in 1..k
      BY <1>4, <1>6, <2>2
    <3>. QED
      BY <1>6, <1>8, <2>2, <3>1, <1>4
  <2>3. CASE i > n /\ j > n
    <3>1. grq[i] = k + 1 /\ grq[j] = k + 1
      BY <1>4, <1>6, <1>8, <2>3
    <3>2. i - n \in DOMAIN G /\ j - n \in DOMAIN G /\ i - n < j - n
      BY <1>4, <1>5, <1>6, <1>10, <2>3
    <3>3. H[i] = G[i - n] /\ H[j] = G[j - n]
      BY <1>4, <1>5, <1>6, <2>3
    <3>. QED
      BY <1>1, <3>1, <3>2, <3>3
  <2>. QED
    BY <1>4, <1>6, <1>10, <2>1, <2>2, <2>3
<1>11. ASSUME NEW q \in Range(items), NEW g \in 1..(k + 1), g \in GroupsOf(q.kind)
       PROVE  \E i \in DOMAIN H : H[i] = q /\ grq[i] = g
  <2>1. CASE g \in 1..k
    <3>1. PICK i \in DOMAIN F : F[i] = q /\ grp[i] = g
      BY <1>3, <1>11, <2>1
    <3>2. i \in DOMAIN H /\ H[i] = q /\ grq[i] = g
      BY <1>4, <1>6, <1>8, <3>1
    <3>. QED
      BY <3>2
  <2>2. CASE g = k + 1
    <3>1. PICK a \in DOMAIN G : G[a] = q
      BY <1>1, <1>11, <2>2
    <3>2. n + a \in DOMAIN H /\ H[n + a] = q /\ ~(n + a <= n)
      BY <1>4, <3>1
    <3>3. grq[n + a] = g
      BY <1>8, <2>2, <3>2
    <3>. QED
      BY <3>2, <3>3
  <2>. QED
    BY <2>1, <2>2
<1>12. Grouped(H, k + 1)
  BY <1>4, <1>7, <1>9, <1>10, <1>11 DEF Grouped
<1>. QED
  BY <1>12 DEF H, G

\* lookupValues lists the policies of all five groups.
LEMMA FilteredIs ==
    ASSUME TypeOK, NamesDiffer
    PROVE  Grouped(Filtered, 5)
<1>1. Grouped(<<>> \o Group(1), 1)
  <2>1. Grouped(<<>> \o Group(0 + 1), 0 + 1)
    BY GroupedNone, GroupedNext
  <2>. QED
    BY <2>1
<1>2. <<>> \o Group(1) = Group(1)
  BY GroupIs
<1>3. Grouped(Group(1) \o Group(2), 2)
  BY <1>1, <1>2, GroupedNext
<1>4. Grouped(Group(1) \o Group(2) \o Group(3), 3)
  BY <1>3, GroupedNext
<1>5. Grouped(Group(1) \o Group(2) \o Group(3) \o Group(4), 4)
  BY <1>4, GroupedNext
<1>6. Grouped(Group(1) \o Group(2) \o Group(3) \o Group(4) \o Group(5), 5)
  BY <1>5, GroupedNext
<1>. QED
  BY <1>6 DEF Filtered

-------------------------------------------------------------------------------
(* The layers are in the order of Wins *)

\* A policy is in one group, or in the first and the third.
LEMMA GroupsAre ==
    ASSUME NEW kind \in Kinds
    PROVE  GroupsOf(kind) \in {{1}, {2}, {3}, {4}, {5}, {1, 3}}
<1>1. CASE kind = "gwccGlobal"
  BY <1>1, Zenon DEF GroupsOf
<1>2. CASE kind = "gwccNs"
  BY <1>2 DEF GroupsOf
<1>3. CASE kind = "gwccClass"
  BY <1>3 DEF GroupsOf
<1>4. CASE kind = "gwcNs"
  BY <1>4 DEF GroupsOf
<1>5. CASE kind = "gwcGateway"
  BY <1>5 DEF GroupsOf
<1>. QED
  BY <1>1, <1>2, <1>3, <1>4, <1>5 DEF Kinds

\* For its defaults a policy counts at the last of its groups, for its overrides at
\* the first.
LEMMA LevelBounds ==
    ASSUME NEW q \in Policy
    PROVE  /\ Level(q, "default") \in GroupsOf(q.kind) /\ Level(q, "override") \in GroupsOf(q.kind)
           /\ \A g \in GroupsOf(q.kind) :
                g \in 1..5 /\ g <= Level(q, "default") /\ Level(q, "override") <= g
<1>. DEFINE S == GroupsOf(q.kind)
<1>1. S \in {{1}, {2}, {3}, {4}, {5}, {1, 3}}
  BY GroupsAre DEF Policy
<1>. HIDE DEF S
<1>2. /\ \A g \in S : g \in 1..5
      /\ \E x \in S : \A y \in S : x >= y
      /\ \E x \in S : \A y \in S : x =< y
  BY <1>1
<1>3. Max(S) \in S /\ \A y \in S : Max(S) >= y
  BY <1>2, Zenon DEF Max
<1>4. Min(S) \in S /\ \A y \in S : Min(S) =< y
  BY <1>2, Zenon DEF Min
<1>5. Level(q, "default") = Max(S) /\ Level(q, "override") = Min(S)
  BY Zenon DEF Level, S
<1>. QED
  BY <1>2, <1>3, <1>4, <1>5 DEF S

\* The fields of a source.
LEMMA SourceFields ==
    /\ \A q, part : /\ PolicySource(q, part).level = Level(q, part)
                    /\ PolicySource(q, part).born = q.born
                    /\ PolicySource(q, part).by.name = q.name
                    /\ PolicySource(q, part).by.part = part
                    /\ PolicySource(q, part).tree = Part(q, part)
    /\ \A part : /\ BlueprintSource(part).level = 0
                 /\ BlueprintSource(part).by.part = part
                 /\ BlueprintSource(part).tree = Tree(blue[part], Blueprint(part))
BY DEF PolicySource, BlueprintSource, By, Blueprint

\* Which of two sources wins.
LEMMA WhoWins ==
    ASSUME NEW q \in Policy, NEW r \in Policy
    PROVE  /\ \/ Level(q, "default") < Level(r, "default")
              \/ Level(q, "default") = Level(r, "default") /\ Precedes(q, r)
              => Wins(PolicySource(r, "default"), PolicySource(q, "default"))
           /\ \/ Level(q, "override") < Level(r, "override")
              \/ Level(q, "override") = Level(r, "override") /\ Precedes(q, r)
              => Wins(PolicySource(q, "override"), PolicySource(r, "override"))
           /\ Wins(PolicySource(q, "override"), PolicySource(r, "default"))
           /\ Wins(PolicySource(q, "default"), BlueprintSource("default"))
           /\ Wins(PolicySource(q, "override"), BlueprintSource("default"))
           /\ Wins(BlueprintSource("override"), PolicySource(q, "default"))
           /\ Wins(BlueprintSource("override"), PolicySource(q, "override"))
<1>1. 0 < Level(q, "default") /\ 0 < Level(q, "override")
  BY LevelBounds
<1>. QED
  BY <1>1, SourceFields DEF Wins, LessSpecific, Precedes

\* The layers as Layers concatenates them, and the place of each.
Stack(a, D, O, b) == <<a>> \o D \o Reverse(O) \o <<b>>
Placed(L, S, n, a, D, O, b) ==
    /\ L \in Seq(S) /\ DOMAIN L = 1..(2 * n + 2)
    /\ L[1] = a /\ L[2 * n + 2] = b
    /\ \A i \in 1..n : L[i + 1] = D[i] /\ L[2 * n + 2 - i] = O[i]

LEMMA Places ==
    ASSUME NEW S, NEW a \in S, NEW b \in S, NEW n \in Nat,
           NEW D \in [1..n -> S], NEW O \in [1..n -> S]
    PROVE  Placed(Stack(a, D, O, b), S, n, a, D, O, b)
<1>. DEFINE L == Stack(a, D, O, b)
<1>1. D \in Seq(S) /\ O \in Seq(S) /\ Len(D) = n /\ Len(O) = n
  OBVIOUS
<1>. DEFINE R == Reverse(O)
<1>2. /\ R \in Seq(S) /\ Len(R) = n
      /\ \A i \in 1..n : n + 1 - i \in 1..n /\ R[n + 1 - i] = O[i]
  BY <1>1 DEF Reverse
<1>. HIDE DEF R
<1>. DEFINE A == <<a>> \o D
            B == A \o R
<1>3. A \in Seq(S) /\ Len(A) = n + 1 /\ A[1] = a /\ \A i \in 1..n : A[i + 1] = D[i]
  BY <1>1
<1>. HIDE DEF A
<1>4. /\ B \in Seq(S) /\ Len(B) = 2 * n + 1
      /\ \A i \in 1..(n + 1) : B[i] = A[i]
      /\ \A i \in 1..n : B[n + 1 + i] = R[i]
  <2>. DEFINE la == Len(A)
              lr == Len(R)
  <2>1. /\ A \in Seq(S) /\ R \in Seq(S) /\ la \in Nat /\ lr \in Nat
        /\ la = n + 1 /\ lr = n
    BY <1>2, <1>3
  <2>2. /\ B \in Seq(S) /\ Len(B) = la + lr
        /\ \A i \in 1..la : B[i] = A[i]
        /\ \A i \in 1..lr : B[la + i] = R[i]
    BY <2>1
  <2>. HIDE DEF B, la, lr
  <2>. QED
    BY <2>1, <2>2
<1>. HIDE DEF B
<1>5. L = B \o <<b>>
  BY DEF B, A, R, Stack
<1>. HIDE DEF L
<1>6. /\ L \in Seq(S) /\ Len(L) = 2 * n + 2 /\ DOMAIN L = 1..(2 * n + 2)
      /\ \A i \in 1..(2 * n + 1) : L[i] = B[i]
      /\ L[2 * n + 2] = b
  <2>1. <<b>> \in Seq(S) /\ Len(<<b>>) = 1 /\ <<b>>[1] = b
    OBVIOUS
  <2>2. /\ L \in Seq(S) /\ Len(L) = Len(B) + 1 /\ DOMAIN L = 1..(Len(B) + 1)
        /\ \A i \in 1..Len(B) : L[i] = B[i]
        /\ L[Len(B) + 1] = b
    <3>1. B \in Seq(S) /\ Len(B) \in Nat
      BY <1>4
    <3>. QED
      BY <1>5, <3>1
  <2>3. Len(B) = 2 * n + 1 /\ Len(B) + 1 = 2 * n + 2
    BY <1>4
  <2>. QED
    BY <2>2, <2>3
<1>7. ASSUME NEW i \in 1..n
      PROVE  L[i + 1] = D[i] /\ L[2 * n + 2 - i] = O[i]
  <2>1. L[i + 1] = D[i]
    <3>1. i + 1 \in 1..(n + 1) /\ i + 1 \in 1..(2 * n + 1)
      OBVIOUS
    <3>2. L[i + 1] = B[i + 1] /\ B[i + 1] = A[i + 1]
      BY <1>4, <1>6, <3>1
    <3>. QED
      BY <1>3, <3>2
  <2>2. 2 * n + 2 - i = n + 1 + (n + 1 - i)
    OBVIOUS
  <2>3. B[n + 1 + (n + 1 - i)] = R[n + 1 - i]
    BY <1>2, <1>4
  <2>4. 2 * n + 2 - i \in 1..(2 * n + 1)
    OBVIOUS
  <2>. QED
    BY <1>2, <1>6, <2>1, <2>2, <2>3, <2>4
<1>8. L[1] = a
  <2>1. 1 \in 1..(n + 1) /\ 1 \in 1..(2 * n + 1)
    OBVIOUS
  <2>. QED
    BY <1>3, <1>4, <1>6, <2>1
<1>. QED
  BY <1>6, <1>7, <1>8 DEF Placed, L

\* The layers are layers of the sources in their order.
LEMMA LayersAreLayering ==
    ASSUME TypeOK, NamesDiffer
    PROVE  Layers \in Seq({s.tree : s \in Sources}) /\ Layering(Layers)
<1>. DEFINE F == Filtered
            n == Len(F)
            L == Layers
            S == {s.tree : s \in Sources}
            D == [i \in 1..n |-> Part(F[i], "default")]
            O == [i \in 1..n |-> Part(F[i], "override")]
            bd == BlueprintSource("default")
            bo == BlueprintSource("override")
<1>1. Grouped(F, 5)
  BY FilteredIs
<1>2. F \in Seq(Policy) /\ n \in Nat /\ DOMAIN F = 1..n /\ \A i \in 1..n : F[i] \in Policy
  BY <1>1 DEF Grouped
<1>3. L = Stack(bd.tree, D, O, bo.tree)
  <2>1. /\ bd.tree = Tree(blue.default, Blueprint("default"))
        /\ bo.tree = Tree(blue.override, Blueprint("override"))
    BY SourceFields
  <2>2. DOMAIN F = 1..n
    BY <1>2
  <2>. HIDE DEF bd, bo, n
  <2>3. L = Stack(bd.tree, [i \in DOMAIN F |-> Part(F[i], "default")],
                  [i \in DOMAIN F |-> Part(F[i], "override")], bo.tree)
    BY <2>1, Zenon DEF Layers, Stack
  <2>. HIDE DEF L, F
  <2>. QED
    BY <2>2, <2>3
<1>. HIDE DEF F, n, L
<1>4. PICK grp \in [DOMAIN F -> 1..5] :
         /\ \A i \in DOMAIN F : F[i] \in Range(items) /\ grp[i] \in GroupsOf(F[i].kind)
         /\ \A i, j \in DOMAIN F : i < j =>
              grp[i] < grp[j] \/ (grp[i] = grp[j] /\ Precedes(F[i], F[j]))
         /\ \A q \in Range(items), g \in 1..5 :
              g \in GroupsOf(q.kind) => \E i \in DOMAIN F : F[i] = q /\ grp[i] = g
  BY <1>1 DEF Grouped
<1>5. /\ bd \in Sources /\ bo \in Sources
      /\ \A q \in Range(items), part \in {"default", "override"} : PolicySource(q, part) \in Sources
      /\ \A s \in Sources : \/ s = bd \/ s = bo
                            \/ \E q \in Range(items) :
                                 s = PolicySource(q, "default") \/ s = PolicySource(q, "override")
  BY DEF Sources
<1>. HIDE DEF bd, bo
<1>6. /\ L \in Seq(S) /\ DOMAIN L = 1..(2 * n + 2)
      /\ L[1] = bd.tree /\ L[2 * n + 2] = bo.tree
      /\ \A i \in 1..n : L[i + 1] = D[i] /\ L[2 * n + 2 - i] = O[i]
  <2>1. bd.tree \in S /\ bo.tree \in S
    BY <1>5
  <2>2. \A i \in 1..n : Part(F[i], "default") \in S /\ Part(F[i], "override") \in S
    <3>1. SUFFICES ASSUME NEW i \in 1..n, NEW part \in {"default", "override"}
                   PROVE  Part(F[i], part) \in S
      OBVIOUS
    <3>2. PolicySource(F[i], part) \in Sources
      BY <1>2, <1>4, <1>5
    <3>. QED
      BY <3>2, SourceFields
  <2>3. D \in [1..n -> S] /\ O \in [1..n -> S]
    BY <2>2
  <2>4. n \in Nat
    BY <1>2
  <2>. DEFINE a == bd.tree
              b == bo.tree
  <2>. HIDE DEF S, D, O
  <2>5. a \in S /\ b \in S /\ L = Stack(a, D, O, b)
    BY <1>3, <2>1
  <2>. HIDE DEF a, b
  <2>6. Placed(L, S, n, a, D, O, b)
    BY <2>3, <2>4, <2>5, Places
  <2>. QED
    BY <2>6 DEF a, b, Placed
<1>. HIDE DEF S
<1>. DEFINE src == [i \in DOMAIN L |->
                      IF i = 1 THEN bd
                      ELSE IF i <= n + 1 THEN PolicySource(F[i - 1], "default")
                      ELSE IF i <= 2 * n + 1 THEN PolicySource(F[2 * n + 2 - i], "override")
                      ELSE bo]
<1>7. /\ src[1] = bd /\ src[2 * n + 2] = bo
      /\ \A i \in 1..n : src[i + 1] = PolicySource(F[i], "default")
      /\ \A i \in 1..n : src[2 * n + 2 - i] = PolicySource(F[i], "override")
  <2>1. 1 \in DOMAIN L /\ 2 * n + 2 \in DOMAIN L
    BY <1>2, <1>6
  <2>2. src[1] = bd /\ src[2 * n + 2] = bo
    BY <1>2, <2>1
  <2>3. ASSUME NEW i \in 1..n
        PROVE  src[i + 1] = PolicySource(F[i], "default")
    <3>1. i + 1 \in DOMAIN L /\ i + 1 # 1 /\ i + 1 <= n + 1 /\ (i + 1) - 1 = i
      BY <1>2, <1>6
    <3>. QED
      BY <3>1
  <2>4. ASSUME NEW i \in 1..n
        PROVE  src[2 * n + 2 - i] = PolicySource(F[i], "override")
    <3>. DEFINE j == 2 * n + 2 - i
    <3>1. j \in DOMAIN L /\ j # 1 /\ ~(j <= n + 1) /\ j <= 2 * n + 1 /\ 2 * n + 2 - j = i
      BY <1>2, <1>6
    <3>. HIDE DEF j
    <3>2. src[j] = PolicySource(F[i], "override")
      BY <3>1
    <3>. QED
      BY <3>2 DEF j
  <2>. QED
    BY <2>2, <2>3, <2>4
<1>8. DOMAIN src = DOMAIN L
  OBVIOUS
<1>. HIDE DEF src
<1>9. ASSUME NEW j \in DOMAIN L
      PROVE  \/ j = 1 \/ j = 2 * n + 2
             \/ \E i \in 1..n : j = i + 1
             \/ \E i \in 1..n : j = 2 * n + 2 - i
  <2>1. j \in 1..(2 * n + 2)
    BY <1>6
  <2>2. CASE 1 < j /\ j <= n + 1
    <3>1. j - 1 \in 1..n /\ j = (j - 1) + 1
      BY <1>2, <2>1, <2>2
    <3>. QED
      BY <3>1
  <2>3. CASE n + 1 < j /\ j < 2 * n + 2
    <3>1. 2 * n + 2 - j \in 1..n /\ j = 2 * n + 2 - (2 * n + 2 - j)
      BY <1>2, <2>1, <2>3
    <3>. QED
      BY <3>1
  <2>. QED
    BY <1>2, <2>1, <2>2, <2>3
<1>10. ASSUME NEW j \in DOMAIN L
       PROVE  src[j] \in Sources /\ L[j] = src[j].tree
  <2>1. \A i \in 1..n : F[i] \in Range(items)
    BY <1>2, <1>4
  <2>2. \A i \in 1..n : D[i] = Part(F[i], "default") /\ O[i] = Part(F[i], "override")
    OBVIOUS
  <2>. HIDE DEF D, O
  <2>. QED
    BY <1>5, <1>6, <1>7, <1>9, <2>1, <2>2, SourceFields
<1>11. \E m \in [DOMAIN L -> Sources] : m = src
  <2>1. src = [i \in DOMAIN L |-> src[i]]
    BY DEF src
  <2>. QED
    BY <1>10, <2>1
<1>12. ASSUME NEW s \in Sources
       PROVE  \E i \in DOMAIN L : src[i] = s /\ \A j \in DOMAIN L : i < j => Wins(src[j], s)
  <2>1. CASE s = bd
    <3>1. \A j \in DOMAIN L : 1 < j => Wins(src[j], bd)
      <4>1. SUFFICES ASSUME NEW j \in DOMAIN L, 1 < j
                     PROVE  Wins(src[j], bd)
        OBVIOUS
      <4>2. CASE \E i \in 1..n : j = i + 1
        BY <1>2, <1>7, <4>2, WhoWins DEF bd
      <4>3. CASE \E i \in 1..n : j = 2 * n + 2 - i
        BY <1>2, <1>7, <4>3, WhoWins DEF bd
      <4>4. CASE j = 2 * n + 2
        BY <1>7, <4>4, SourceFields DEF Wins, bd, bo
      <4>. QED
        BY <1>9, <4>1, <4>2, <4>3, <4>4
    <3>2. 1 \in DOMAIN L
      BY <1>2, <1>6
    <3>. QED
      BY <1>7, <2>1, <3>1, <3>2
  <2>2. CASE s = bo
    <3>1. 2 * n + 2 \in DOMAIN L /\ \A j \in DOMAIN L : ~(2 * n + 2 < j)
      BY <1>2, <1>6
    <3>. QED
      BY <1>7, <2>2, <3>1
  <2>3. ASSUME NEW q \in Range(items), s = PolicySource(q, "default")
        PROVE  \E i \in DOMAIN L : src[i] = s /\ \A j \in DOMAIN L : i < j => Wins(src[j], s)
    <3>0. q \in Policy
      BY DEF TypeOK, Range
    <3>1. PICK f \in 1..n : F[f] = q /\ grp[f] = Level(q, "default")
      BY <1>2, <1>4, <3>0, LevelBounds
    <3>2. f + 1 \in DOMAIN L /\ src[f + 1] = s
      BY <1>2, <1>6, <1>7, <2>3, <3>1
    <3>3. ASSUME NEW j \in DOMAIN L, f + 1 < j
          PROVE  Wins(src[j], s)
      <4>1. CASE \E i \in 1..n : j = i + 1
        <5>1. PICK i \in 1..n : j = i + 1
          BY <4>1
        <5>2. f < i /\ src[j] = PolicySource(F[i], "default")
          BY <1>2, <1>7, <3>3, <5>1
        <5>3. grp[f] < grp[i] \/ (grp[f] = grp[i] /\ Precedes(q, F[i]))
          BY <1>2, <1>4, <3>1, <5>2
        <5>4. grp[i] \in 1..5 /\ grp[i] <= Level(F[i], "default") /\ Level(F[i], "default") \in 1..5
          BY <1>2, <1>4, LevelBounds
        <5>5. Level(q, "default") \in 1..5
          BY <3>0, LevelBounds
        <5>6. \/ Level(q, "default") < Level(F[i], "default")
              \/ Level(q, "default") = Level(F[i], "default") /\ Precedes(q, F[i])
          BY <3>1, <5>3, <5>4, <5>5
        <5>. QED
          BY <1>2, <2>3, <3>0, <5>2, <5>6, WhoWins
      <4>2. CASE \E i \in 1..n : j = 2 * n + 2 - i
        BY <1>2, <1>7, <2>3, <3>0, <4>2, WhoWins
      <4>3. CASE j = 2 * n + 2
        BY <1>7, <2>3, <3>0, <4>3, WhoWins DEF bo
      <4>4. j # 1
        BY <1>2, <3>3
      <4>. QED
        BY <1>9, <4>1, <4>2, <4>3, <4>4
    <3>. QED
      BY <3>2, <3>3
  <2>4. ASSUME NEW q \in Range(items), s = PolicySource(q, "override")
        PROVE  \E i \in DOMAIN L : src[i] = s /\ \A j \in DOMAIN L : i < j => Wins(src[j], s)
    <3>0. q \in Policy
      BY DEF TypeOK, Range
    <3>1. PICK f \in 1..n : F[f] = q /\ grp[f] = Level(q, "override")
      BY <1>2, <1>4, <3>0, LevelBounds
    <3>. DEFINE k == 2 * n + 2 - f
    <3>2. k \in DOMAIN L /\ src[k] = s /\ n + 1 < k
      BY <1>2, <1>6, <1>7, <2>4, <3>1
    <3>3. ASSUME NEW j \in DOMAIN L, k < j
          PROVE  Wins(src[j], s)
      <4>1. CASE \E i \in 1..n : j = 2 * n + 2 - i
        <5>1. PICK i \in 1..n : j = 2 * n + 2 - i
          BY <4>1
        <5>2. i < f /\ src[j] = PolicySource(F[i], "override")
          BY <1>2, <1>7, <3>3, <5>1
        <5>3. grp[i] < grp[f] \/ (grp[i] = grp[f] /\ Precedes(F[i], q))
          BY <1>2, <1>4, <3>1, <5>2
        <5>4. grp[i] \in 1..5 /\ Level(F[i], "override") <= grp[i] /\ Level(F[i], "override") \in 1..5
          BY <1>2, <1>4, LevelBounds
        <5>5. Level(q, "override") \in 1..5
          BY <3>0, LevelBounds
        <5>6. \/ Level(F[i], "override") < Level(q, "override")
              \/ Level(F[i], "override") = Level(q, "override") /\ Precedes(F[i], q)
          BY <3>1, <5>3, <5>4, <5>5
        <5>. QED
          BY <1>2, <2>4, <3>0, <5>2, <5>6, WhoWins
      <4>2. CASE j = 2 * n + 2
        BY <1>7, <2>4, <3>0, <4>2, WhoWins DEF bo
      <4>3. j # 1 /\ \A i \in 1..n : j # i + 1
        BY <1>2, <3>2, <3>3
      <4>. QED
        BY <1>9, <4>1, <4>2, <4>3
    <3>. QED
      BY <3>2, <3>3
  <2>. QED
    BY <1>5, <2>1, <2>2, <2>3, <2>4
<1>. QED
  BY <1>6, <1>10, <1>11, <1>12 DEF Layering, S, L

-------------------------------------------------------------------------------
(* What a part holds *)

\* A part is absent, a leaf or a tree, and its leaves carry its source.
LEMMA TreeIs ==
    ASSUME NEW shape \in Shapes, NEW by
    PROVE  /\ IsLayer(Tree(shape, by))
           /\ \A p \in Paths : At(Tree(shape, by), p).t = "leaf" => At(Tree(shape, by), p) = Leaf(by)
<1>. DEFINE v == Tree(shape, by)
            OneLeaf(w) == w = Missing \/ w = Leaf(by)
            Found(w) == OneLeaf(w) \/ (IsInner(w) /\ \A k : OneLeaf(Below(w, k)))
<1>1. IsLayer(v) /\ \A k : Found(Below(v, k))
  <2>0. \A k : Below(Nil, k) = Missing /\ Below(Leaf(by), k) = Missing
    BY DEF Below
  <2>1. CASE shape = "none"
    BY <2>0, <2>1 DEF Tree, IsLayer
  <2>2. CASE shape = "text"
    <3>1. v = Leaf(by) /\ v.t = "leaf"
      BY <2>2 DEF Tree
    <3>. QED
      BY <2>0, <3>1 DEF IsLayer
  <2>3. CASE shape = "leaf"
    <3>1. v = Obj([k |-> Leaf(by)])
      BY <2>3 DEF Tree
    <3>. QED
      BY <3>1 DEF IsLayer, IsTree, Below
  <2>4. CASE shape = "deep"
    <3>. DEFINE w == Obj([n |-> Leaf(by)])
    <3>1. v = Obj([k |-> w])
      BY <2>4 DEF Tree
    <3>2. IsInner(w) /\ \A k : OneLeaf(Below(w, k))
      BY DEF IsInner, Below
    <3>. HIDE DEF w, OneLeaf
    <3>3. IsTree(v) /\ \A k : Below(v, k) = Missing \/ Below(v, k) = w
      BY <3>1, <3>2 DEF IsTree, Below
    <3>. QED
      BY <3>2, <3>3 DEF IsLayer, OneLeaf
  <2>5. CASE shape = "wide"
    <3>. DEFINE w == Obj([o |-> Leaf(by)])
    <3>1. v = Obj([k |-> w, m |-> Leaf(by)])
      BY <2>5 DEF Tree
    <3>2. IsInner(w) /\ \A k : OneLeaf(Below(w, k))
      BY DEF IsInner, Below
    <3>. HIDE DEF w, OneLeaf
    <3>3. IsTree(v) /\ \A k : Below(v, k) = Missing \/ Below(v, k) = w \/ Below(v, k) = Leaf(by)
      BY <3>1, <3>2 DEF IsTree, Below
    <3>. QED
      BY <3>2, <3>3 DEF IsLayer, OneLeaf
  <2>. QED
    BY <2>1, <2>2, <2>3, <2>4, <2>5 DEF Shapes
<1>2. ASSUME NEW p
      PROVE  At(v, p).t = "leaf" => At(v, p) = Leaf(by)
  <2>. HIDE DEF v
  <2>1. /\ Missing.t # "leaf" /\ \A w : IsInner(w) => w.t # "leaf"
        /\ \A k : Below(Missing, k) = Missing /\ Below(Leaf(by), k) = Missing
    BY DEF IsInner, Below
  <2>2. CASE \A w : At(w, p) = Below(w, p[1])
    BY <1>1, <2>1, <2>2
  <2>3. CASE \A w : At(w, p) = Below(Below(w, p[1]), p[2])
    <3>1. OneLeaf(Below(Below(v, p[1]), p[2]))
      BY <1>1, <2>1
    <3>. QED
      BY <2>1, <2>3, <3>1
  <2>. QED
    BY <2>2, <2>3, AtSteps
<1>. QED
  BY <1>1, <1>2

\* The same of every source.
LEMMA SourceTrees ==
    ASSUME TypeOK, NEW s \in Sources
    PROVE  /\ IsLayer(s.tree)
           /\ \A p \in Paths : /\ At(s.tree, p) # Missing <=> At(s.tree, p).t \in {"leaf", "object"}
                               /\ At(s.tree, p).t = "leaf" => At(s.tree, p) = Leaf(s.by)
<1>1. \E shape \in Shapes : s.tree = Tree(shape, s.by)
  <2>1. ASSUME NEW part \in {"default", "override"}, s = BlueprintSource(part)
        PROVE  \E shape \in Shapes : s.tree = Tree(shape, s.by)
    <3>1. blue[part] \in Shapes
      BY PolicyValuesAssumption DEF TypeOK
    <3>2. s.tree = Tree(blue[part], Blueprint(part)) /\ s.by = Blueprint(part)
      BY <2>1, Zenon DEF BlueprintSource
    <3>. QED
      BY <3>1, <3>2
  <2>2. ASSUME NEW q \in Range(items), NEW part \in {"default", "override"}, s = PolicySource(q, part)
        PROVE  \E shape \in Shapes : s.tree = Tree(shape, s.by)
    <3>1. q \in Policy
      BY DEF TypeOK, Range
    <3>2. q.parts[part] \in Shapes
      BY <3>1, PolicyValuesAssumption DEF Policy
    <3>3. s.tree = Tree(q.parts[part], By(q, part)) /\ s.by = By(q, part)
      BY <2>2, Zenon DEF PolicySource, Part
    <3>. QED
      BY <3>2, <3>3
  <2>. QED
    BY <2>1, <2>2 DEF Sources
<1>2. Missing.t \notin {"leaf", "object"}
  OBVIOUS
<1>. QED
  BY <1>1, <1>2, TreeIs, AtType

-------------------------------------------------------------------------------
(* The invariant *)

\* The policies do not change during a call, and neither do the sources.
LEMMA SourcesStay ==
    ASSUME UNCHANGED <<beside, items, blue>>
    PROVE  Sources' = Sources
<1>1. \A kind : GroupsOf(kind)' = GroupsOf(kind)
  BY Zenon DEF GroupsOf
<1>2. \A q, part : Level(q, part)' = Level(q, part)
  BY <1>1, Zenon DEF Level
<1>3. \A q, part : PolicySource(q, part)' = PolicySource(q, part)
  BY <1>2, Zenon DEF PolicySource
<1>4. \A part : BlueprintSource(part)' = BlueprintSource(part)
  BY Zenon DEF BlueprintSource
<1>5. ASSUME NEW s
      PROVE  s \in Sources' <=> s \in Sources
  <2>1. items' = items
    OBVIOUS
  <2>2. s \in Sources <=>
          \/ \E part \in {"default", "override"} : s = BlueprintSource(part)
          \/ \E q \in Range(items), part \in {"default", "override"} : s = PolicySource(q, part)
    BY DEF Sources
  <2>3. s \in Sources' <=>
          \/ \E part \in {"default", "override"} : s = BlueprintSource(part)'
          \/ \E q \in Range(items'), part \in {"default", "override"} : s = PolicySource(q, part)'
    BY DEF Sources
  <2>. QED
    BY <1>3, <1>4, <2>1, <2>2, <2>3, Zenon
<1>6. \A s \in Sources' : s \in Sources
  BY <1>5
<1>7. \A s \in Sources : s \in Sources'
  BY <1>5
<1>. QED
  BY <1>6, <1>7

\* The invariant holds at the start.
LEMMA InductiveInit == Init => Inductive
<1>. SUFFICES ASSUME Init
              PROVE  Inductive
  OBVIOUS
<1>1. TypeOK
  BY DEF Init, TypeOK
<1>2. NamesDiffer
  BY DEF Init, NamesDiffer
<1>3. Progress
  BY DEF Init, Progress
<1>. QED
  BY <1>1, <1>2, <1>3 DEF Inductive

\* What a list has after an element is inserted or removed.
Inserted(t, s, i, e, S) ==
    /\ t \in Seq(S) /\ Len(t) = Len(s) + 1
    /\ \A j \in 1..(Len(s) + 1) : t[j] = IF j < i THEN s[j] ELSE IF j = i THEN e ELSE s[j - 1]
Removed(t, s, i, S) ==
    /\ t \in Seq(S) /\ Len(t) = Len(s) - 1
    /\ \A j \in 1..(Len(s) - 1) : t[j] = IF j < i THEN s[j] ELSE s[j + 1]

\* What a list has that is made of two.
Joined(t, A, C, S) ==
    /\ t \in Seq(S) /\ Len(t) = Len(A) + Len(C)
    /\ \A j \in 1..Len(A) : t[j] = A[j]
    /\ \A j \in 1..Len(C) : t[Len(A) + j] = C[j]

LEMMA JoinIs ==
    ASSUME NEW S, NEW A \in Seq(S), NEW C \in Seq(S)
    PROVE  Joined(A \o C, A, C, S)
<1>. DEFINE a == Len(A)
            c == Len(C)
<1>. a \in Nat /\ c \in Nat
  OBVIOUS
<1>. QED
  BY DEF Joined

LEMMA InsertAtIs ==
    ASSUME NEW S, NEW s \in Seq(S), NEW i \in 1..(Len(s) + 1), NEW e \in S
    PROVE  Inserted(InsertAt(s, i, e), s, i, e, S)
<1>. DEFINE n == Len(s)
            A == SubSeq(s, 1, i - 1)
            C == SubSeq(s, i, n)
            B == A \o <<e>>
            t == B \o C
<1>1. n \in Nat /\ i \in Int /\ 1 <= i /\ i <= n + 1 /\ \A j \in 1..n : s[j] \in S
  OBVIOUS
<1>2. A \in Seq(S) /\ Len(A) = i - 1 /\ \A j \in 1..(i - 1) : A[j] = s[j]
  BY <1>1
<1>3. C \in Seq(S) /\ Len(C) = n + 1 - i /\ \A j \in 1..(n + 1 - i) : C[j] = s[i + j - 1]
  BY <1>1
<1>. HIDE DEF A, C, n
<1>4. B \in Seq(S) /\ Len(B) = i /\ B[i] = e /\ \A j \in 1..(i - 1) : B[j] = A[j]
  BY <1>1, <1>2
<1>. HIDE DEF B
<1>5. /\ t \in Seq(S) /\ Len(t) = n + 1
      /\ \A j \in 1..i : t[j] = B[j]
      /\ \A j \in 1..(n + 1 - i) : t[i + j] = C[j]
  <2>. DEFINE b == Len(B)
              c == Len(C)
  <2>1. B \in Seq(S) /\ C \in Seq(S) /\ b \in Nat /\ c \in Nat /\ b = i /\ c = n + 1 - i
    BY <1>1, <1>3, <1>4
  <2>2. Joined(t, B, C, S)
    BY <2>1, JoinIs
  <2>. HIDE DEF t
  <2>3. /\ t \in Seq(S) /\ Len(t) = b + c
        /\ \A j \in 1..b : t[j] = B[j]
        /\ \A j \in 1..c : t[b + j] = C[j]
    BY <2>2, Zenon DEF Joined
  <2>. HIDE DEF b, c
  <2>4. b = i /\ c = n + 1 - i /\ b + c = n + 1
    BY <1>1, <2>1
  <2>. QED
    BY <2>3, <2>4, Zenon
<1>6. t = InsertAt(s, i, e)
  BY DEF InsertAt, A, B, C, n
<1>. HIDE DEF t
<1>7. ASSUME NEW j \in 1..(n + 1)
      PROVE  t[j] = IF j < i THEN s[j] ELSE IF j = i THEN e ELSE s[j - 1]
  <2>1. CASE j < i
    <3>1. j \in 1..i /\ j \in 1..(i - 1)
      BY <1>1, <2>1
    <3>2. t[j] = s[j]
      BY <1>2, <1>4, <1>5, <3>1, Zenon
    <3>. QED
      BY <2>1, <3>2, Zenon
  <2>2. CASE j = i
    BY <1>1, <1>4, <1>5, <2>2
  <2>3. CASE j > i
    <3>. DEFINE k == j - i
    <3>1. k \in 1..(n + 1 - i) /\ i + k = j /\ i + k - 1 = j - 1
      BY <1>1, <2>3
    <3>. HIDE DEF k
    <3>2. t[i + k] = C[k] /\ C[k] = s[i + k - 1]
      BY <1>3, <1>5, <3>1
    <3>. QED
      BY <1>1, <2>3, <3>1, <3>2
  <2>. QED
    BY <1>1, <2>1, <2>2, <2>3
<1>. QED
  BY <1>5, <1>6, <1>7 DEF Inserted, n

\* The same of a removal.
LEMMA RemoveAtIs ==
    ASSUME NEW S, NEW s \in Seq(S), NEW i \in 1..Len(s)
    PROVE  Removed(RemoveAt(s, i), s, i, S)
<1>. DEFINE n == Len(s)
            A == SubSeq(s, 1, i - 1)
            C == SubSeq(s, i + 1, n)
            t == A \o C
<1>1. n \in Nat /\ i \in Int /\ 1 <= i /\ i <= n /\ \A j \in 1..n : s[j] \in S
  OBVIOUS
<1>2. A \in Seq(S) /\ Len(A) = i - 1 /\ \A j \in 1..(i - 1) : A[j] = s[j]
  BY <1>1
<1>3. C \in Seq(S) /\ Len(C) = n - i /\ \A j \in 1..(n - i) : C[j] = s[i + j]
  BY <1>1
<1>. HIDE DEF A, C, n
<1>4. /\ t \in Seq(S) /\ Len(t) = n - 1
      /\ \A j \in 1..(i - 1) : t[j] = A[j]
      /\ \A j \in 1..(n - i) : t[i - 1 + j] = C[j]
  <2>. DEFINE a == Len(A)
              c == Len(C)
  <2>1. A \in Seq(S) /\ C \in Seq(S) /\ a \in Nat /\ c \in Nat /\ a = i - 1 /\ c = n - i
    BY <1>1, <1>2, <1>3
  <2>2. Joined(t, A, C, S)
    BY <2>1, JoinIs
  <2>. HIDE DEF t
  <2>3. /\ t \in Seq(S) /\ Len(t) = a + c
        /\ \A j \in 1..a : t[j] = A[j]
        /\ \A j \in 1..c : t[a + j] = C[j]
    BY <2>2, Zenon DEF Joined
  <2>. HIDE DEF a, c
  <2>4. a = i - 1 /\ c = n - i /\ a + c = n - 1
    BY <1>1, <2>1
  <2>. QED
    BY <2>3, <2>4, Zenon
<1>5. t = RemoveAt(s, i)
  BY DEF RemoveAt, A, C, n
<1>. HIDE DEF t
<1>6. ASSUME NEW j \in 1..(n - 1)
      PROVE  t[j] = IF j < i THEN s[j] ELSE s[j + 1]
  <2>1. CASE j < i
    <3>1. j \in 1..(i - 1)
      BY <1>1, <2>1
    <3>2. t[j] = s[j]
      BY <1>2, <1>4, <3>1, Zenon
    <3>. QED
      BY <2>1, <3>2, Zenon
  <2>2. CASE j >= i
    <3>. DEFINE k == j - i + 1
    <3>1. k \in 1..(n - i) /\ i - 1 + k = j /\ i + k = j + 1
      BY <1>1, <2>2
    <3>. HIDE DEF k
    <3>2. t[i - 1 + k] = C[k] /\ C[k] = s[i + k]
      BY <1>3, <1>4, <3>1
    <3>. QED
      BY <1>1, <2>2, <3>1, <3>2
  <2>. QED
    BY <1>1, <2>1, <2>2
<1>. QED
  BY <1>4, <1>5, <1>6 DEF Removed, n

\* A policy is inserted or removed: the others keep their places relative to each
\* other.
LEMMA EditsType ==
    ASSUME TypeOK, NamesDiffer, CreatePolicy \/ DeletePolicy
    PROVE  items' \in Seq(Policy) /\ NamesDiffer'
<1>0. items \in Seq(Policy) /\ Len(items) \in Nat /\ DOMAIN items = 1..Len(items)
  BY DEF TypeOK
<1>1. CASE CreatePolicy
  <2>1. PICK p \in Policy, i \in 1..(Len(items) + 1) :
          /\ \A q \in Range(items) : q.name # p.name
          /\ items' = InsertAt(items, i, p)
    BY <1>1 DEF CreatePolicy
  <2>2. Inserted(items', items, i, p, Policy)
    BY <1>0, <2>1, InsertAtIs
  <2>. DEFINE n == Len(items)
              t == items'
  <2>4. /\ t \in Seq(Policy) /\ DOMAIN t = 1..(n + 1)
        /\ \A j \in 1..(n + 1) : t[j] = IF j < i THEN items[j] ELSE IF j = i THEN p ELSE items[j - 1]
    BY <1>0, <2>2 DEF Inserted
  <2>3. \A j \in DOMAIN items : items[j].name # p.name
    BY <2>1 DEF Range
  <2>5. \A j, k \in 1..n : j # k => items[j].name # items[k].name
    BY <1>0 DEF NamesDiffer
  <2>. HIDE DEF n, t
  <2>6. n \in Nat /\ i \in 1..(n + 1) /\ \A j \in 1..n : items[j].name # p.name
    BY <1>0, <2>3 DEF n
  <2>7. ASSUME NEW j \in 1..(n + 1), NEW k \in 1..(n + 1), j < k
        PROVE  t[j].name # t[k].name
    <3>1. CASE k < i
      BY <2>4, <2>5, <2>6, <2>7, <3>1
    <3>2. CASE k = i
      BY <2>4, <2>5, <2>6, <2>7, <3>2
    <3>3. CASE k > i /\ j < i
      <4>1. k - 1 \in 1..n /\ j \in 1..n /\ j # k - 1 /\ t[k] = items[k - 1] /\ t[j] = items[j]
        BY <2>4, <2>6, <2>7, <3>3
      <4>. QED
        BY <2>5, <4>1
    <3>4. CASE k > i /\ j = i
      <4>1. k - 1 \in 1..n /\ t[k] = items[k - 1] /\ t[j] = p
        BY <2>4, <2>6, <2>7, <3>4
      <4>. QED
        BY <2>6, <4>1
    <3>5. CASE k > i /\ j > i
      <4>1. k - 1 \in 1..n /\ j - 1 \in 1..n /\ j - 1 # k - 1 /\ t[k] = items[k - 1] /\ t[j] = items[j - 1]
        BY <2>4, <2>6, <2>7, <3>5
      <4>. QED
        BY <2>5, <4>1
    <3>. QED
      BY <2>6, <3>1, <3>2, <3>3, <3>4, <3>5
  <2>8. \A j, k \in DOMAIN t : j # k => t[j].name # t[k].name
    <3>1. SUFFICES ASSUME NEW j \in 1..(n + 1), NEW k \in 1..(n + 1), j # k
                   PROVE  t[j].name # t[k].name
      BY <2>4
    <3>2. j < k \/ k < j
      BY <2>6, <3>1
    <3>. QED
      BY <2>7, <3>2
  <2>. QED
    BY <2>4, <2>8 DEF NamesDiffer, t
<1>2. CASE DeletePolicy
  <2>1. PICK i \in DOMAIN items : items' = RemoveAt(items, i)
    BY <1>2 DEF DeletePolicy
  <2>2. Removed(items', items, i, Policy)
    BY <1>0, <2>1, RemoveAtIs
  <2>. DEFINE n == Len(items)
              t == items'
  <2>3. /\ t \in Seq(Policy) /\ DOMAIN t = 1..(n - 1)
        /\ \A j \in 1..(n - 1) : t[j] = IF j < i THEN items[j] ELSE items[j + 1]
    BY <1>0, <2>2 DEF Removed
  <2>4. \A j, k \in 1..n : j # k => items[j].name # items[k].name
    BY <1>0 DEF NamesDiffer
  <2>5. n \in Nat /\ i \in 1..n
    BY <1>0
  <2>. HIDE DEF n, t
  <2>6. \A j \in 1..(n - 1) : \E m \in 1..n : t[j] = items[m] /\ m = IF j < i THEN j ELSE j + 1
    BY <2>3, <2>5
  <2>7. \A j, k \in DOMAIN t : j # k => t[j].name # t[k].name
    <3>1. SUFFICES ASSUME NEW j \in 1..(n - 1), NEW k \in 1..(n - 1), j # k
                   PROVE  t[j].name # t[k].name
      BY <2>3
    <3>2. PICK a \in 1..n : t[j] = items[a] /\ a = IF j < i THEN j ELSE j + 1
      BY <2>6
    <3>3. PICK b \in 1..n : t[k] = items[b] /\ b = IF k < i THEN k ELSE k + 1
      BY <2>6
    <3>4. a # b
      BY <2>5, <3>1, <3>2, <3>3
    <3>. QED
      BY <2>4, <3>2, <3>3, <3>4
  <2>. QED
    BY <2>3, <2>7 DEF NamesDiffer, t
<1>. QED
  BY <1>1, <1>2

\* Every step keeps it.
LEMMA InductiveNext == Inductive /\ [Next]_vars => Inductive'
<1>. SUFFICES ASSUME Inductive, [Next]_vars
              PROVE  Inductive'
  OBVIOUS
<1>0. TypeOK /\ NamesDiffer /\ Progress
  BY DEF Inductive
<1>1. CASE CreatePolicy \/ DeletePolicy
  <2>1. stage = "idle" /\ UNCHANGED <<beside, blue, stage, todo, values>>
    BY <1>1 DEF CreatePolicy, DeletePolicy
  <2>2. TypeOK'
    BY <1>0, <1>1, <2>1, EditsType DEF TypeOK
  <2>3. Progress'
    BY <1>0, <2>1 DEF Progress
  <2>. QED
    BY <1>0, <1>1, <2>2, <2>3, EditsType DEF Inductive
<1>2. ASSUME UNCHANGED <<beside, items, blue>>, stage' \in {"idle", "merge", "done"}, Progress'
      PROVE  Inductive'
  BY <1>0, <1>2 DEF Inductive, TypeOK, NamesDiffer
<1>3. CASE Begin
  <2>1. /\ stage = "idle" /\ stage' = "merge" /\ todo' = Layers
        /\ UNCHANGED <<beside, items, blue, values>>
    BY <1>3 DEF Begin
  <2>2. PICK L \in Seq({s.tree : s \in Sources}) : L = Layers /\ Layering(L)
    BY <1>0, LayersAreLayering
  <2>3. BlueprintSource("default") \in Sources
    BY DEF Sources
  <2>4. L # <<>>
    <3>1. DOMAIN L # {}
      BY <2>2, <2>3 DEF Layering
    <3>. QED
      BY <3>1
  <2>5. values = Obj(<<>>)
    BY <1>0, <2>1 DEF Progress
  <2>6. Merged(values, L, 0)
    BY <2>5, MergedNone
  <2>7. SubSeq(L, 0 + 1, Len(L)) = L /\ 0 \in 0..Len(L)
    BY <2>2
  <2>8. Sources' = Sources
    BY <2>1, SourcesStay
  <2>9. todo' = L /\ values' = values
    BY <2>1, <2>2
  <2>10. Progress'
    <3>1. L \in Seq({s.tree : s \in Sources'})
      BY <2>2, <2>8
    <3>2. Layering(L)'
      BY <2>2, <2>8 DEF Layering
    <3>3. \E n \in 0..Len(L) : todo' = SubSeq(L, n + 1, Len(L)) /\ Merged(values', L, n)
      BY <2>6, <2>7, <2>9
    <3>4. (stage' = "done") <=> (todo' = <<>>)
      BY <2>1, <2>4, <2>9
    <3>5. stage' # "idle"
      BY <2>1
    <3>. QED
      BY <3>1, <3>2, <3>3, <3>4, <3>5, Zenon DEF Progress
  <2>. QED
    BY <1>2, <2>1, <2>10
<1>4. CASE mergeValues
  <2>1. /\ stage = "merge" /\ todo # <<>> /\ UNCHANGED <<beside, items, blue>>
        /\ stage' = IF todo' = <<>> THEN "done" ELSE "merge"
    BY <1>4 DEF mergeValues
  <2>2. PICK L \in Seq({s.tree : s \in Sources}) :
          /\ Layering(L)
          /\ \E n \in 0..Len(L) : todo = SubSeq(L, n + 1, Len(L)) /\ Merged(values, L, n)
    BY <1>0, <2>1 DEF Progress
  <2>3. PICK n \in 0..Len(L) : todo = SubSeq(L, n + 1, Len(L)) /\ Merged(values, L, n)
    BY <2>2
  <2>4. /\ n \in Nat /\ n + 1 \in 1..Len(L) /\ n + 1 \in 0..Len(L)
        /\ Head(todo) = L[n + 1] /\ Tail(todo) = SubSeq(L, (n + 1) + 1, Len(L))
    <3>1. n \in Nat /\ Len(L) \in Nat /\ n < Len(L)
      BY <2>1, <2>2, <2>3
    <3>2. n + 1 \in 1..Len(L) /\ Len(L) \in (n + 1)..Len(L) /\ n + 1 \in 0..Len(L)
      BY <3>1
    <3>. QED
      BY <2>2, <2>3, <3>1, <3>2, HeadTailOfSubSeq
  <2>5. \E s \in Sources : L[n + 1] = s.tree
    BY <2>2, <2>4
  <2>6. IsLayer(L[n + 1])
    BY <1>0, <2>5, SourceTrees
  <2>7. Sources' = Sources
    BY <2>1, SourcesStay
  <2>8. L \in Seq({s.tree : s \in Sources'})
    BY <2>2, <2>7
  <2>9. Layering(L)'
    BY <2>2, <2>7 DEF Layering
  <2>10. stage' # "idle" /\ ((stage' = "done") <=> (todo' = <<>>))
    BY <2>1
  <2>11. CASE L[n + 1].t = "leaf"
    <3>1. values' = Error /\ todo' = <<>>
      BY <1>4, <2>4, <2>11 DEF mergeValues
    <3>2. Invalid'
      BY <2>5, <2>7, <2>11 DEF Invalid
    <3>3. Progress'
      BY <2>8, <2>9, <2>10, <3>1, <3>2, Zenon DEF Progress
    <3>. QED
      BY <1>2, <2>1, <3>3
  <2>12. CASE L[n + 1].t # "leaf"
    <3>1. /\ values' = IF L[n + 1] = Nil THEN values ELSE Merge(values, L[n + 1])
          /\ todo' = SubSeq(L, (n + 1) + 1, Len(L))
      BY <1>4, <2>4, <2>12, Zenon DEF mergeValues
    <3>2. Merged(values', L, n + 1)
      BY <2>3, <2>4, <2>6, <2>12, <3>1, MergedNext
    <3>3. \E m \in 0..Len(L) : todo' = SubSeq(L, m + 1, Len(L)) /\ Merged(values', L, m)
      BY <2>4, <3>1, <3>2
    <3>4. Progress'
      BY <2>8, <2>9, <2>10, <3>3, Zenon DEF Progress
    <3>. QED
      BY <1>2, <2>1, <3>4
  <2>. QED
    BY <2>11, <2>12
<1>5. CASE Return
  <2>1. /\ stage' = "idle" /\ values' = Obj(<<>>) /\ UNCHANGED <<beside, items, blue>>
    BY <1>5 DEF Return
  <2>. QED
    BY <1>2, <2>1 DEF Progress
<1>6. CASE UNCHANGED vars
  <2>1. UNCHANGED <<beside, items, blue, stage, todo, values>>
    BY <1>6 DEF vars
  <2>2. Sources' = Sources
    BY <2>1, SourcesStay
  <2>3. Progress'
    BY <1>0, <2>1, <2>2 DEF Progress, Layering, Invalid
  <2>. QED
    BY <1>0, <1>2, <2>1, <2>3 DEF TypeOK
<1>. QED
  BY <1>1, <1>3, <1>4, <1>5, <1>6 DEF Next


-------------------------------------------------------------------------------
(* The two properties *)

\* ValuesAreFixed at a path, for a result v.
FixedAt(v, p) ==
    LET objects == {s \in Setting(p) : At(s.tree, p).t = "object"}
        result  == At(v, p)
    IN  CASE objects # {}    -> result.t = "object"
          [] Setting(p) = {} -> result = Missing
          [] OTHER -> \E s \in Setting(p) :
               result = Leaf(s.by) /\ \A u \in Setting(p) \ {s} : Wins(s, u)

\* What the last layer that sets a path has there is what the winner has there.
LEMMA LayersDecide ==
    ASSUME TypeOK, NEW L, Layering(L), NEW n \in Nat, DOMAIN L = 1..n,
           NEW v, NEW p \in Paths, MergedAt(v, L, n, p)
    PROVE  FixedAt(v, p)
<1>1. PICK src \in [DOMAIN L -> Sources] :
        /\ \A i \in DOMAIN L : L[i] = src[i].tree
        /\ \A s \in Sources : \E i \in DOMAIN L :
             src[i] = s /\ \A j \in DOMAIN L : i < j => Wins(src[j], s)
  BY DEF Layering
<1>. DEFINE set     == Setting(p)
            objects == {s \in set : At(s.tree, p).t = "object"}
            S       == Setters(L, n, p)
<1>2. \A i \in 1..n : src[i] \in Sources /\ L[i] = src[i].tree
  BY <1>1
<1>3. \A s \in Sources : /\ s \in set <=> At(s.tree, p) # Missing
                         /\ At(s.tree, p).t = "leaf" => At(s.tree, p) = Leaf(s.by)
  BY SourceTrees DEF Setting
<1>4. \A i \in 1..n : i \in S <=> src[i] \in set
  BY <1>2, <1>3 DEF Setters
<1>5. \A s \in set : \E i \in S : src[i] = s /\ \A j \in S : i < j => Wins(src[j], s)
  BY <1>1, <1>4 DEF Setters, Setting
<1>6. HasObject(L, n, p) <=> objects # {}
  <2>1. ASSUME HasObject(L, n, p)
        PROVE  objects # {}
    <3>1. PICK i \in S : At(L[i], p).t = "object"
      BY <2>1 DEF HasObject
    <3>2. src[i] \in objects
      BY <1>2, <1>4, <3>1 DEF Setters
    <3>. QED
      BY <3>2
  <2>2. ASSUME NEW s \in objects
        PROVE  HasObject(L, n, p)
    <3>1. PICK i \in S : src[i] = s
      BY <1>5
    <3>2. L[i] = s.tree
      BY <1>2, <3>1 DEF Setters
    <3>. QED
      BY <3>1, <3>2 DEF HasObject
  <2>. QED
    BY <2>1, <2>2
<1>7. CASE objects # {}
  <2>1. At(v, p).t = "object"
    BY <1>6, <1>7 DEF MergedAt
  <2>. QED
    BY <1>7, <2>1, Zenon DEF FixedAt
<1>8. CASE set = {}
  <2>1. S = {}
    BY <1>4, <1>8 DEF Setters
  <2>2. objects = {} /\ At(v, p) = Missing
    BY <1>8, <2>1 DEF MergedAt
  <2>. QED
    BY <1>8, <2>2, Zenon DEF FixedAt
<1>9. CASE objects = {} /\ set # {}
  <2>1. S # {} /\ ~HasObject(L, n, p)
    BY <1>5, <1>6, <1>9
  <2>2. PICK m \in S : (\A i \in S : i <= m) /\ At(v, p) = At(L[m], p)
    BY <2>1 DEF MergedAt
  <2>3. m \in 1..n /\ \A i \in S : i \in 1..n
    BY DEF Setters
  <2>4. src[m] \in set /\ At(v, p) = Leaf(src[m].by)
    BY <1>2, <1>3, <1>4, <1>9, <2>2, <2>3 DEF Setting
  <2>5. ASSUME NEW u \in set \ {src[m]}
        PROVE  Wins(src[m], u)
    <3>1. PICK i \in S : src[i] = u /\ \A j \in S : i < j => Wins(src[j], u)
      BY <1>5
    <3>2. i < m
      <4>1. i # m
        BY <3>1
      <4>. QED
        BY <2>2, <2>3, <4>1
    <3>. QED
      BY <3>1, <3>2
  <2>6. \E s \in set : At(v, p) = Leaf(s.by) /\ \A u \in set \ {s} : Wins(s, u)
    BY <2>4, <2>5
  <2>. QED
    BY <1>9, <2>6, Zenon DEF FixedAt
<1>. QED
  BY <1>7, <1>8, <1>9

LEMMA InductiveFixes == Inductive => ValuesAreFixed
<1>. SUFFICES ASSUME Inductive, stage = "done"
              PROVE  IF Invalid THEN values = Error ELSE \A p \in Paths : FixedAt(values, p)
  BY Zenon DEF ValuesAreFixed, FixedAt
<1>1. TypeOK /\ Progress
  BY DEF Inductive
<1>2. PICK L \in Seq({s.tree : s \in Sources}) :
        /\ Layering(L)
        /\ \/ \E n \in 0..Len(L) : todo = SubSeq(L, n + 1, Len(L)) /\ Merged(values, L, n)
           \/ todo = <<>> /\ values = Error /\ Invalid
        /\ todo = <<>>
  BY <1>1 DEF Progress
<1>3. CASE values = Error /\ Invalid
  BY <1>3, Zenon
<1>4. ASSUME NEW n \in 0..Len(L), todo = SubSeq(L, n + 1, Len(L)), Merged(values, L, n)
      PROVE  ~Invalid /\ \A p \in Paths : FixedAt(values, p)
  <2>1. n = Len(L) /\ n \in Nat /\ DOMAIN L = 1..n
    <3>. DEFINE l == Len(L)
    <3>1. l \in Nat /\ n \in Nat /\ n <= l /\ DOMAIN L = 1..l
      BY <1>2
    <3>2. Len(SubSeq(L, n + 1, l)) = IF n + 1 <= l THEN l - n ELSE 0
      BY <1>2, <3>1
    <3>3. Len(SubSeq(L, n + 1, l)) = 0
      <4>1. SubSeq(L, n + 1, l) = <<>>
        BY <1>2, <1>4, Zenon
      <4>2. Len(<<>>) = 0
        OBVIOUS
      <4>. QED
        BY <4>1, <4>2, Zenon
    <3>. HIDE DEF l
    <3>4. n = l
      BY <3>1, <3>2, <3>3
    <3>. QED
      BY <3>1, <3>4 DEF l
  <2>2. /\ \A i \in 1..n : L[i].t # "leaf"
        /\ \A p \in Paths : MergedAt(values, L, n, p)
    BY <1>4 DEF Merged
  <2>3. \A s \in Sources : \E i \in 1..n : L[i] = s.tree
    BY <1>2, <2>1 DEF Layering
  <2>4. ~Invalid
    BY <2>2, <2>3 DEF Invalid
  <2>5. \A p \in Paths : FixedAt(values, p)
    BY <1>1, <1>2, <2>1, <2>2, LayersDecide
  <2>. QED
    BY <2>4, <2>5
<1>. QED
  BY <1>2, <1>3, <1>4, Zenon

\* The policies alone fix the values lookupValues returns: for any number of
\* policies and any timestamps, ties of timestamps included, and whatever the order
\* in which the informer lists them.
THEOREM ValuesAreDetermined == Spec => []ValuesAreFixed
<1>1. Spec => []Inductive
  BY InductiveInit, InductiveNext, PTL DEF Spec
<1>. QED
  BY <1>1, InductiveFixes, PTL

\* The level and the part of a source.
LEMMA SourceLevels ==
    ASSUME TypeOK, NEW s \in Sources
    PROVE  s.level \in Nat /\ s.by.part \in {"default", "override"}
<1>1. ASSUME NEW part \in {"default", "override"}, s = BlueprintSource(part)
      PROVE  s.level \in Nat /\ s.by.part \in {"default", "override"}
  <2>1. s.level = 0 /\ s.by.part = part
    BY <1>1, SourceFields
  <2>. QED
    BY <2>1
<1>2. ASSUME NEW q \in Range(items), NEW part \in {"default", "override"},
             s = PolicySource(q, part)
      PROVE  s.level \in Nat /\ s.by.part \in {"default", "override"}
  <2>1. q \in Policy
    BY DEF TypeOK, Range
  <2>2. Level(q, "default") \in 1..5 /\ Level(q, "override") \in 1..5
    BY <2>1, LevelBounds
  <2>3. s.level = Level(q, part) /\ s.by.part = part
    BY <1>2, SourceFields
  <2>. QED
    BY <2>2, <2>3
<1>3. \/ \E part \in {"default", "override"} : s = BlueprintSource(part)
      \/ \E q \in Range(items), part \in {"default", "override"} : s = PolicySource(q, part)
  BY DEF Sources
<1>. QED
  BY <1>1, <1>2, <1>3

\* What wins in the code's order is not beaten in the documented one.
LEMMA WinnerIsUnbeaten ==
    ASSUME TypeOK, NEW s \in Sources, NEW u \in Sources, u = s \/ Wins(s, u)
    PROVE  ~Beats(u, s)
<1>1. /\ s.level \in Nat /\ u.level \in Nat
      /\ s.by.part \in {"default", "override"} /\ u.by.part \in {"default", "override"}
  BY SourceLevels
<1>2. CASE u = s
  BY <1>1, <1>2 DEF Beats
<1>3. CASE Wins(s, u)
  BY <1>1, <1>3 DEF Beats, Wins, LessSpecific
<1>. QED
  BY <1>2, <1>3

LEMMA FixedFollows == Inductive /\ ValuesAreFixed => ValuesFollowHierarchy
<1>. SUFFICES ASSUME TypeOK, ValuesAreFixed, stage = "done", ~Invalid, NEW p \in Paths
              PROVE  /\ Setting(p) = {} => At(values, p) = Missing
                     /\ Setting(p) # {} /\ ~TypeConflict(p) =>
                          \/ /\ \A s \in Setting(p) : At(s.tree, p).t = "object"
                             /\ At(values, p).t = "object"
                          \/ \E s \in Setting(p) :
                               At(values, p) = Leaf(s.by) /\ \A u \in Setting(p) : ~Beats(u, s)
  BY Zenon DEF ValuesFollowHierarchy, Inductive
<1>. DEFINE objects == {s \in Setting(p) : At(s.tree, p).t = "object"}
<1>1. FixedAt(values, p)
  BY Zenon DEF ValuesAreFixed, FixedAt
<1>2. CASE Setting(p) = {}
  <2>1. objects = {}
    BY <1>2
  <2>2. At(values, p) = Missing
    BY <1>1, <1>2, <2>1, Zenon DEF FixedAt
  <2>. QED
    BY <1>2, <2>2
<1>3. CASE objects # {}
  <2>1. At(values, p).t = "object"
    BY <1>1, <1>3, Zenon DEF FixedAt
  <2>2. ASSUME ~TypeConflict(p), NEW s \in Setting(p)
        PROVE  At(s.tree, p).t = "object"
    <3>1. PICK t \in objects : TRUE
      BY <1>3
    <3>2. t \in Sources /\ s \in Sources /\ At(t.tree, p).t = "object"
      BY <3>1 DEF Setting
    <3>3. At(s.tree, p).t # "leaf"
      BY <2>2, <3>2, Zenon DEF TypeConflict
    <3>. QED
      BY <3>3 DEF Setting
  <2>. QED
    BY <1>3, <2>1, <2>2
<1>4. CASE Setting(p) # {} /\ objects = {}
  <2>1. PICK s \in Setting(p) :
          At(values, p) = Leaf(s.by) /\ \A u \in Setting(p) \ {s} : Wins(s, u)
    BY <1>1, <1>4, Zenon DEF FixedAt
  <2>2. ASSUME NEW u \in Setting(p)
        PROVE  ~Beats(u, s)
    <3>1. s \in Sources /\ u \in Sources
      BY DEF Setting
    <3>2. u = s \/ Wins(s, u)
      BY <2>1
    <3>. QED
      BY <3>1, <3>2, WinnerIsUnbeaten
  <2>. QED
    BY <1>4, <2>1, <2>2
<1>. QED
  BY <1>2, <1>3, <1>4

\* The values lookupValues returns follow the documented hierarchy, except in the
\* two cases ValuesFollowHierarchy leaves out: type conflicts and one level.
THEOREM HierarchyIsFollowed == Spec => []ValuesFollowHierarchy
<1>1. Spec => []Inductive
  BY InductiveInit, InductiveNext, PTL DEF Spec
<1>. QED
  BY <1>1, InductiveFixes, FixedFollows, PTL

LEMMA StepIsLocal ==
    ASSUME Inductive, [Next]_vars, stage = "merge", values' # Error, NEW p \in Paths
    PROVE  /\ At(values', p) # At(values, p) => At(Head(todo), p) # Missing
           /\ At(values, p) # Missing => At(values', p) # Missing
<1>1. TypeOK /\ Progress
  BY DEF Inductive
<1>2. CASE mergeValues
  <2>. DEFINE b == Head(todo)
  <2>1. todo # <<>>
    BY <1>2 DEF mergeValues
  <2>0. PICK L \in Seq({s.tree : s \in Sources}) :
           \E n \in 0..Len(L) : todo = SubSeq(L, n + 1, Len(L)) /\ Merged(values, L, n)
    BY <1>1, <2>1 DEF Progress
  <2>2. PICK n \in 0..Len(L) : todo = SubSeq(L, n + 1, Len(L)) /\ Merged(values, L, n)
    BY <2>0
  <2>3. n + 1 \in 1..Len(L) /\ b = L[n + 1]
    BY <2>1, <2>2
  <2>4. \E s \in Sources : b = s.tree
    BY <2>2, <2>3
  <2>5. IsLayer(b)
    BY <1>1, <2>4, SourceTrees
  <2>6. b.t # "leaf" /\ values' = IF b = Nil THEN values ELSE Merge(values, b)
    BY <1>2, Zenon DEF mergeValues
  <2>7. IsTree(values) /\ (b = Nil \/ IsTree(b))
    BY <2>2, <2>5, <2>6 DEF Merged, IsLayer
  <2>. HIDE DEF b
  <2>8. CASE b = Nil
    <3>1. values' = values
      BY <2>6, <2>8
    <3>. QED
      BY <3>1
  <2>9. CASE b # Nil
    <3>1. values' = Merge(values, b)
      BY <2>6, <2>9
    <3>2. /\ At(b, p) = Missing => At(values', p) = At(values, p)
          /\ At(values, p).t = "object" => At(values', p).t = "object"
          /\ At(b, p) # Missing /\ At(values, p).t # "object" => At(values', p) = At(b, p)
      BY <2>7, <2>9, <3>1, MergeAt
    <3>. QED
      BY <3>2 DEF b
  <2>. QED
    BY <2>8, <2>9
<1>3. CASE UNCHANGED vars
  <2>1. values' = values
    BY <1>3 DEF vars
  <2>. QED
    BY <2>1
<1>. QED
  BY <1>2, <1>3 DEF Next, CreatePolicy, DeletePolicy, Begin, Return

\* A layer that mergeValues merges sets what it says and nothing else, and merge never
\* drops what an earlier layer set, whatever the parts hold.
THEOREM MergeStaysLocal == Spec => MergeIsLocal
<1>1. ASSUME Inductive, [Next]_vars
      PROVE  [stage = "merge" /\ values' # Error => \A p \in Paths :
                /\ At(values', p) # At(values, p) => At(Head(todo), p) # Missing
                /\ At(values, p) # Missing => At(values', p) # Missing]_vars
  BY <1>1, StepIsLocal
<1>2. Spec => []Inductive
  BY InductiveInit, InductiveNext, PTL DEF Spec
<1>. QED
  BY <1>1, <1>2, PTL DEF Spec, MergeIsLocal
===============================================================================
