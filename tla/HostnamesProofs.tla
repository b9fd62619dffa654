---------------------------- MODULE HostnamesProofs ----------------------------
(***************************************************************************)
(* What the intersection of hostnames keeps, for any set of domains,       *)
(* listeners, routes and parentRefs.  Both facts hold in every state and   *)
(* step, whatever the types: no invariant is needed.                       *)
(***************************************************************************)
EXTENDS Hostnames, TLAPS

\* A name lost by removing covered hostnames is the domain of a wildcard.
LEMMA IsectKeeps ==
    ASSUME NEW hs, NEW d \in Served(hs), d \notin Served(Isect(hs))
    PROVE  d \in Apexes(hs)
<1>1. PICK h \in hs : Match(h, d)
  BY DEF Served
<1>2. d \in Domains
  BY DEF Served
<1>3. \A g \in Isect(hs) : ~Match(g, d)
  BY <1>2 DEF Served
<1>4. ~h.wild /\ Covered(h.domain, hs) /\ h.domain = d
  BY <1>1, <1>3 DEF Isect, Match
<1>5. PICK w \in hs : w.wild /\ (Under(d, w.domain) \/ d = w.domain)
  BY <1>4 DEF Covered
<1>6. ~Under(d, w.domain)
  BY <1>3, <1>5 DEF Isect, Match
<1>. QED
  BY <1>5, <1>6 DEF Apexes

\* A certificate made from the intersection that combineHostnames computes serves
\* what the union serves, apart from domains named with and without wildcard.
THEOREM IntersectionLosesOnlyApexes == Spec => []OnlyApexesLost
<1>1. OnlyApexesLost
  <2>1. Served(Intersection) \subseteq Served(Union)
    BY DEF Served, Intersection, Isect
  <2>2. Served(Union) \ Served(Intersection) \subseteq Apexes(Union)
    BY IsectKeeps DEF Intersection
  <2>. QED
    BY <2>1, <2>2 DEF OnlyApexesLost
<1>. QED
  BY <1>1, PTL

\* Two sets of hostnames that differ only in exact hostnames under a wildcard
\* they share leave the same intersection.
LEMMA SameIsect ==
    ASSUME NEW hs, NEW ks, NEW ls, ls \subseteq hs, ls \subseteq ks,
           \A h \in (hs \ ks) \cup (ks \ hs) :
              ~h.wild /\ \E w \in ls : w.wild /\ Under(h.domain, w.domain)
    PROVE  Isect(hs) = Isect(ks)
<1>1. \A w : w.wild => (w \in hs <=> w \in ks)
  OBVIOUS
<1>2. \A d : Covered(d, hs) <=> Covered(d, ks)
  BY <1>1 DEF Covered
<1>3. \A h \in (hs \ ks) \cup (ks \ hs) : Covered(h.domain, hs)
  BY DEF Covered
<1>. QED
  BY <1>1, <1>2, <1>3 DEF Isect

\* Routes whose hostnames a wildcard listener covers come and go without a change
\* of the intersection, hence of the child resources rendered from it.
THEOREM CoveredRoutesAreFree == Spec => CoveredRoutesChangeNothing
<1>1. ASSUME listeners' = listeners,
             \A h \in (Union \ Union') \cup (Union' \ Union) :
               ~h.wild /\ \E w \in ListenerHostnames : w.wild /\ Under(h.domain, w.domain)
      PROVE  Intersection' = Intersection
  <2>1. ListenerHostnames' = ListenerHostnames
    BY <1>1 DEF ListenerHostnames
  <2>2. ListenerHostnames \subseteq Union /\ ListenerHostnames \subseteq Union'
    BY <2>1 DEF Union
  <2>3. Isect(Union) = Isect(Union')
    BY <1>1, <2>2, SameIsect
  <2>4. Intersection' = Isect(Union')
    BY DEF Intersection, Isect, Covered, Under
  <2>. QED
    BY <2>3, <2>4 DEF Intersection
<1>. QED
  BY <1>1, PTL DEF CoveredRoutesChangeNothing
===============================================================================
