---------------------------- MODULE VerdictProofs ----------------------------
(***************************************************************************)
(* What the operators of Classify guarantee, for any results of any number *)
(* of servers, and whatever the filtering and hairpin probes found.        *)
(***************************************************************************)
EXTENDS Classify, FiniteSetTheorems, WellFoundedInduction, TLAPS

\* Results of servers that are numbered.
Numbered(rs) == DOMAIN rs \in SUBSET Nat /\ IsFiniteSet(DOMAIN rs)

-----------------------------------------------------------------------------
(* Groups *)

LEMMA FirstIsIn ==
  ASSUME NEW g \in SUBSET Nat, g # {}
  PROVE  First(g) \in g
<1>1. PICK m \in g : \A y \in g : ~(<<y, m>> \in OpToRel(<, Nat))
  BY NatLessThanWellFounded, WFMin
<1>2. ASSUME NEW y \in g, y < m PROVE FALSE
  <2>1. <<y, m>> \in Nat \X Nat /\ <<y, m>>[1] < <<y, m>>[2]
    BY <1>2
  <2>2. <<y, m>> \in OpToRel(<, Nat)
    BY <2>1 DEF OpToRel
  <2>3. QED
    BY <1>1, <2>2
<1>3. \A y \in g : m <= y
  BY <1>2
<1>4. QED
  BY <1>3 DEF First

LEMMA GroupIsSuccesses ==
  ASSUME NEW rs, NEW is4 \in BOOLEAN
  PROVE  Group(rs, is4) \subseteq Successes(rs) /\ Successes(rs) \subseteq DOMAIN rs
  BY DEF Group, Successes

LEMMA GroupOfSuccess ==
  ASSUME NEW rs, NEW i \in Successes(rs)
  PROVE  \E is4 \in BOOLEAN : i \in Group(rs, is4)
<1> WITNESS (rs[i].mapped \in IPv4) \in BOOLEAN
<1> QED
  BY DEF Group

\* Agreement is of at least two server IPs (distinctTargetIPs).
LEMMA Distinct ==
  ASSUME NEW rs, NEW g, ~(DistinctTargetIPs(rs, g) < 2)
  PROVE  \E i, j \in g : /\ None \notin {rs[i].target, rs[j].target}
                         /\ rs[i].target # rs[j].target
<1> DEFINE S == {rs[i].target : i \in g} \ {None}
<1> SUFFICES ASSUME \A a, b \in S : a = b PROVE FALSE
  OBVIOUS
<1>1. S = {} \/ \E a : S = {a}
  OBVIOUS
<1>2. Cardinality(S) = 0 \/ Cardinality(S) = 1
  BY <1>1, FS_EmptySet, FS_Singleton
<1>3. QED
  BY <1>2 DEF DistinctTargetIPs

LEMMA GroupAgrees ==
  ASSUME NEW rs, Numbered(rs), NEW is4 \in BOOLEAN,
         GroupType(rs, Group(rs, is4)) # "ADM", NEW i \in Group(rs, is4),
         NEW j \in Group(rs, is4)
  PROVE  rs[i].mapped = rs[j].mapped
<1> DEFINE g == Group(rs, is4)
<1>1. CASE Cardinality(g) = 1
  <2>1. IsFiniteSet(g)
    BY GroupIsSuccesses, FS_Subset DEF Numbered
  <2>2. \E x : g = {x}
    BY <1>1, <2>1, FS_Singleton
  <2>3. QED
    BY <2>2
<1>2. CASE Cardinality(g) # 1
  BY <1>2 DEF GroupType, AllSame
<1>3. QED
  BY <1>1, <1>2

LEMMA TypesAreFinite ==
  ASSUME NEW types \in SUBSET Types
  PROVE  IsFiniteSet(types \ {"Unknown"})
<1>1. IsFiniteSet({"EIM"} \cup {"ADM"} \cup {"Blocked"})
  BY FS_Singleton, FS_Union
<1>2. types \ {"Unknown"} \in SUBSET ({"EIM"} \cup {"ADM"} \cup {"Blocked"})
  BY DEF Types
<1>3. QED
  BY <1>1, <1>2, FS_Subset

\* One confident type decides, if no other family is confident of another.
LEMMA Combined ==
  ASSUME NEW types \in SUBSET Types, NEW t, t # "Unknown", CombineGroups(types) = t
  PROVE  types \ {"Unknown"} = {t}
<1> DEFINE confident == types \ {"Unknown"}
<1>1. Cardinality(confident) = 1
  BY DEF CombineGroups
<1>2. PICK x : confident = {x}
  BY <1>1, TypesAreFinite, FS_Singleton
<1>3. (CHOOSE c \in confident : TRUE) \in confident
  BY <1>2
<1>4. t \in confident
  BY <1>1, <1>3 DEF CombineGroups
<1>5. QED
  BY <1>2, <1>4

LEMMA GroupTypesType == \A rs : GroupTypes(rs) \in SUBSET Types
  BY DEF GroupTypes, GroupType, Types

-----------------------------------------------------------------------------
(* The verdict *)

\* What Verdict takes over from classifyMapping, and what it decides.
LEMMA VerdictFields ==
  ASSUME NEW rs, NEW f, NEW h
  PROVE  LET c == ClassifyMapping(rs)
             v == Verdict(rs, f, h)
         IN  /\ v.type = c.type /\ v.cgnat = c.cgnat /\ v.endpoint = c.endpoint
             /\ v.filtering = Behavior(f) /\ v.hairpinning = h
             /\ v.forecast = IF v.cgnat THEN "unknown"
                             ELSE IF v.type \in {"Blocked", "ADM"} THEN "unlikely"
                             ELSE IF v.type = "Unknown" THEN "unknown"
                             ELSE IF v.filtering = "endpoint-independent" THEN "likely"
                             ELSE "possible"
             /\ v.warnings = ApplyFiltering(c, f).warnings
                    \cup IF h = "untested" THEN {"hairpin_untested"} ELSE {}
<1> DEFINE c == ClassifyMapping(rs)
           a == ApplyFiltering(c, f)
           b == ApplyHairpinning(a, h)
           v == Verdict(rs, f, h)
           fields == {"type", "endpoint", "cgnat", "filtering", "hairpinning", "forecast",
                      "warnings"}
<1>1. c = [x \in fields |-> c[x]]
  BY DEF ClassifyMapping
<1> HIDE DEF c
<1>2. /\ a = [x \in fields |-> a[x]] /\ a.filtering = Behavior(f)
      /\ a.type = c.type /\ a.cgnat = c.cgnat /\ a.endpoint = c.endpoint
  BY <1>1 DEF ApplyFiltering
<1> HIDE DEF a
<1>3. /\ b = [x \in fields |-> b[x]] /\ b.filtering = Behavior(f) /\ b.hairpinning = h
      /\ b.type = c.type /\ b.cgnat = c.cgnat /\ b.endpoint = c.endpoint
      /\ b.warnings = a.warnings \cup IF h = "untested" THEN {"hairpin_untested"} ELSE {}
  BY <1>2 DEF ApplyHairpinning
<1> HIDE DEF b
<1>4. v = [b EXCEPT !.forecast = DecideForecast(b)]
  BY DEF Verdict, a, b, c
<1> HIDE DEF v
<1>5. /\ v.filtering = b.filtering /\ v.hairpinning = b.hairpinning /\ v.type = b.type
      /\ v.cgnat = b.cgnat /\ v.endpoint = b.endpoint /\ v.warnings = b.warnings
      /\ v.forecast = DecideForecast(b)
  BY <1>3, <1>4
<1>6. QED
  BY <1>2, <1>3, <1>5 DEF DecideForecast, a, c, v

LEMMA MappingFields ==
  ASSUME NEW rs
  PROVE  LET c == ClassifyMapping(rs) IN
         /\ c.type = IF Successes(rs) = {} THEN "Blocked" ELSE CombineGroups(GroupTypes(rs))
         /\ c.cgnat <=>
              \E g \in {Group(rs, TRUE), Group(rs, FALSE)} \ {{}} : GroupCGNAT(rs, g)
  BY DEF ClassifyMapping

\* Nothing but the successes and their places decides.
LEMMA SuccessesDecide ==
  ASSUME NEW rs, NEW qs, Numbered(qs), Successes(rs) = Successes(qs),
         \A i \in Successes(qs) : rs[i] = qs[i]
  PROVE  ClassifyMapping(rs) = ClassifyMapping(qs)
<1>1. \A is4 \in BOOLEAN : Group(rs, is4) = Group(qs, is4)
  BY DEF Group
<1> DEFINE groups == {Group(qs, TRUE), Group(qs, FALSE)} \ {{}}
<1>2. ASSUME NEW g \in groups
      PROVE  /\ GroupType(rs, g) = GroupType(qs, g)
             /\ GroupCGNAT(rs, g) = GroupCGNAT(qs, g)
             /\ GroupWarnings(rs, g) = GroupWarnings(qs, g)
  <2>1. g \subseteq Successes(qs) /\ g # {} /\ g \in SUBSET Nat
    BY GroupIsSuccesses DEF Numbered
  <2>2. AllSame(rs, g) = AllSame(qs, g)
    BY <2>1 DEF AllSame
  <2>3. {rs[i].target : i \in g} = {qs[i].target : i \in g}
    BY <2>1
  <2>4. DistinctTargetIPs(rs, g) = DistinctTargetIPs(qs, g)
    BY <2>3 DEF DistinctTargetIPs
  <2>5. GroupType(rs, g) = GroupType(qs, g)
    BY <2>2, <2>4 DEF GroupType
  <2>6. rs[First(g)] = qs[First(g)]
    BY <2>1, FirstIsIn
  <2>7. GroupCGNAT(rs, g) = GroupCGNAT(qs, g)
    BY <2>6 DEF GroupCGNAT
  <2>8. QED
    BY <2>2, <2>4, <2>5, <2>7 DEF GroupWarnings
<1>3. {Group(rs, TRUE), Group(rs, FALSE)} \ {{}} = groups
  BY <1>1
<1> HIDE DEF groups
<1>4. GroupTypes(rs) = GroupTypes(qs)
  BY <1>2, <1>3 DEF GroupTypes, groups
<1>5. \A type : PropagatedWarnings(rs, type) = PropagatedWarnings(qs, type)
  <2>1. {GroupWarnings(rs, g) : g \in groups} = {GroupWarnings(qs, g) : g \in groups}
    BY <1>2
  <2>2. QED
    BY <1>3, <2>1 DEF PropagatedWarnings, groups
<1>6. FamilyWarnings(rs) = FamilyWarnings(qs)
  BY <1>1 DEF FamilyWarnings
<1>7. (\E g \in groups : GroupCGNAT(rs, g)) <=> (\E g \in groups : GroupCGNAT(qs, g))
  BY <1>2
<1>8. Successes(qs) # {} => rs[First(Successes(qs))] = qs[First(Successes(qs))]
  <2>1. Successes(qs) \in SUBSET Nat
    BY GroupIsSuccesses DEF Numbered
  <2>2. QED
    BY <2>1, FirstIsIn
<1>9. QED
  BY <1>3, <1>4, <1>5, <1>6, <1>7, <1>8 DEF ClassifyMapping, groups

LEMMA CombinedType == \A types \in SUBSET Types : CombineGroups(types) \in {"EIM", "ADM", "Blocked", "Unknown"}
<1> SUFFICES ASSUME NEW types \in SUBSET Types, CombineGroups(types) # "Unknown"
             PROVE  CombineGroups(types) \in Types
  BY DEF Types
<1>1. types \ {"Unknown"} = {CombineGroups(types)}
  BY Combined
<1>2. QED
  BY <1>1

LEMMA GroupTypesMember ==
  ASSUME NEW rs, NEW is4 \in BOOLEAN, Group(rs, is4) # {}
  PROVE  GroupType(rs, Group(rs, is4)) \in GroupTypes(rs)
  BY DEF GroupTypes

\* Exit code 0 needs an endpoint-independent type and no carrier NAT.
LEMMA PassNeeds ==
  ASSUME NEW rs, NEW f, NEW h, ExitCode(Verdict(rs, f, h)) = 0
  PROVE  GroupTypes(rs) \ {"Unknown"} = {"EIM"} /\ ~ClassifyMapping(rs).cgnat
<1> DEFINE v == Verdict(rs, f, h)
           c == ClassifyMapping(rs)
           t == CombineGroups(GroupTypes(rs))
<1>1. v.type # "Blocked" /\ v.forecast \in {"likely", "possible"}
  BY DEF ExitCode
<1>2. v.type = c.type /\ v.cgnat = c.cgnat
  BY VerdictFields
<1>3. ~v.cgnat /\ v.type \notin {"Blocked", "ADM", "Unknown"}
  BY <1>1, VerdictFields
<1>4. c.type = IF Successes(rs) = {} THEN "Blocked" ELSE t
  BY MappingFields
<1>5. t = c.type /\ t \notin {"Blocked", "ADM", "Unknown"}
  BY <1>2, <1>3, <1>4
<1>6. t = "EIM"
  BY <1>5, GroupTypesType, CombinedType
<1>7. QED
  BY <1>2, <1>3, <1>6, GroupTypesType, Combined

\* Where a family agrees, the first endpoint stands for all of it.
LEMMA AgreementShowsCGNAT ==
  ASSUME NEW rs, Numbered(rs), "ADM" \notin GroupTypes(rs)
  PROVE  ClassifyMapping(rs).cgnat <=> \E i \in Successes(rs) : rs[i].mapped \in SharedSpace
<1>1. ASSUME NEW is4 \in BOOLEAN, NEW i \in Group(rs, is4)
      PROVE  GroupCGNAT(rs, Group(rs, is4)) <=> rs[i].mapped \in SharedSpace
  <2>1. Group(rs, is4) \in SUBSET Nat
    BY GroupIsSuccesses DEF Numbered
  <2>2. First(Group(rs, is4)) \in Group(rs, is4)
    BY <2>1, FirstIsIn
  <2>3. GroupType(rs, Group(rs, is4)) # "ADM"
    BY GroupTypesMember
  <2>4. rs[First(Group(rs, is4))].mapped = rs[i].mapped
    BY <2>2, <2>3, GroupAgrees
  <2>5. QED
    BY <2>4 DEF GroupCGNAT
<1>2. ClassifyMapping(rs).cgnat
        <=> \E is4 \in BOOLEAN : Group(rs, is4) # {} /\ GroupCGNAT(rs, Group(rs, is4))
  BY MappingFields
<1>3. QED
  BY <1>1, <1>2, GroupIsSuccesses, GroupOfSuccess

\* Exit code 0 rests on evidence.
LEMMA PassEvidence ==
  ASSUME NEW rs, NEW f, NEW h, Numbered(rs), ExitCode(Verdict(rs, f, h)) = 0
  PROVE  /\ \E is4 \in BOOLEAN : \E i, j \in Group(rs, is4) :
              /\ rs[i].mapped = rs[j].mapped
              /\ None \notin {rs[i].target, rs[j].target}
              /\ rs[i].target # rs[j].target
         /\ \A is4 \in BOOLEAN : \A i, j \in Group(rs, is4) : rs[i].mapped = rs[j].mapped
         /\ \A i \in Successes(rs) : rs[i].mapped \notin SharedSpace
<1>1. GroupTypes(rs) \ {"Unknown"} = {"EIM"} /\ ~ClassifyMapping(rs).cgnat
  BY PassNeeds
<1>2. ASSUME NEW is4 \in BOOLEAN, NEW i \in Group(rs, is4), NEW j \in Group(rs, is4)
      PROVE  rs[i].mapped = rs[j].mapped
  <2>1. GroupType(rs, Group(rs, is4)) \in GroupTypes(rs)
    BY GroupTypesMember
  <2>2. QED
    BY <1>1, <2>1, GroupAgrees
<1>3. PICK is4 \in BOOLEAN : GroupType(rs, Group(rs, is4)) = "EIM"
  BY <1>1 DEF GroupTypes
<1>4. ~(DistinctTargetIPs(rs, Group(rs, is4)) < 2)
  BY <1>3 DEF GroupType
<1>5. PICK i, j \in Group(rs, is4) : /\ None \notin {rs[i].target, rs[j].target}
                                     /\ rs[i].target # rs[j].target
  BY <1>4, Distinct
<1>6. \A k \in Successes(rs) : rs[k].mapped \notin SharedSpace
  BY <1>1, AgreementShowsCGNAT
<1>7. QED
  BY <1>2, <1>5, <1>6

LEMMA DistinctSuffice ==
  ASSUME NEW rs, Numbered(rs), NEW g \in SUBSET DOMAIN rs, NEW i \in g, NEW j \in g,
         None \notin {rs[i].target, rs[j].target}, rs[i].target # rs[j].target
  PROVE  Cardinality(g) # 1 /\ ~(DistinctTargetIPs(rs, g) < 2)
<1> DEFINE T == {rs[k].target : k \in g}
           S == T \ {None}
           two == {rs[i].target} \cup {rs[j].target}
<1>1. IsFiniteSet(g)
  BY FS_Subset DEF Numbered
<1>2. IsFiniteSet(T)
  <2> DEFINE at == [k \in g |-> rs[k].target]
  <2>1. at \in Surjection(g, T)
    BY DEF Surjection
  <2>2. QED
    BY <1>1, <2>1, FS_Surjection
<1>3. IsFiniteSet(S) /\ Cardinality(S) \in Nat
  <2>1. S \in SUBSET T
    OBVIOUS
  <2> HIDE DEF T, S
  <2>2. IsFiniteSet(S)
    BY <1>2, <2>1, FS_Subset
  <2>3. QED
    BY <2>2, FS_CardinalityType
<1>4. Cardinality(two) = 2
  <2>1. IsFiniteSet({rs[i].target}) /\ Cardinality({rs[i].target}) = 1
    BY FS_Singleton
  <2>2. rs[j].target \notin {rs[i].target}
    OBVIOUS
  <2>3. QED
    BY <2>1, <2>2, FS_AddElement
<1>5. two \in SUBSET S
  OBVIOUS
<1>6. Cardinality(two) <= Cardinality(S)
  BY <1>3, <1>5, FS_Subset
<1>7. Cardinality(g) # 1
  BY <1>1, FS_Singleton
<1>8. QED
  BY <1>3, <1>4, <1>6, <1>7 DEF DistinctTargetIPs

LEMMA TypeWithoutConflict ==
  ASSUME NEW rs, NEW g, AllSame(rs, g)
  PROVE  GroupType(rs, g) \in {"EIM", "Unknown"}
  BY DEF GroupType

\* A confident type is the one all confident families have.
LEMMA TypeIsUnanimous ==
  ASSUME NEW rs, NEW t \in {"EIM", "ADM"}
  PROVE  ClassifyMapping(rs).type = t <=> GroupTypes(rs) \ {"Unknown"} = {t}
<1>1. ASSUME ClassifyMapping(rs).type = t PROVE GroupTypes(rs) \ {"Unknown"} = {t}
  <2>1. CombineGroups(GroupTypes(rs)) = t
    BY <1>1, MappingFields
  <2>2. QED
    BY <2>1, GroupTypesType, Combined
<1>2. ASSUME GroupTypes(rs) \ {"Unknown"} = {t} PROVE ClassifyMapping(rs).type = t
  <2>1. CombineGroups(GroupTypes(rs)) = t
    BY <1>2, FS_Singleton DEF CombineGroups
  <2>2. Successes(rs) # {}
    BY <1>2, GroupIsSuccesses DEF GroupTypes
  <2>3. QED
    BY <2>1, <2>2, MappingFields
<1>3. QED
  BY <1>1, <1>2

\* Where no family disagrees and one is confident, the mapping is endpoint-independent.
LEMMA AgreementIsEIM ==
  ASSUME NEW rs, \A b \in BOOLEAN : AllSame(rs, Group(rs, b)),
         NEW is4 \in BOOLEAN, Group(rs, is4) # {}, GroupType(rs, Group(rs, is4)) = "EIM"
  PROVE  GroupTypes(rs) \ {"Unknown"} = {"EIM"} /\ ClassifyMapping(rs).type = "EIM"
<1>1. GroupTypes(rs) \ {"Unknown"} = {"EIM"}
  <2>1. "EIM" \in GroupTypes(rs)
    BY GroupTypesMember
  <2>2. GroupTypes(rs) \subseteq {"EIM", "Unknown"}
    BY TypeWithoutConflict DEF GroupTypes
  <2>3. QED
    BY <2>1, <2>2
<1>2. QED
  BY <1>1, TypeIsUnanimous

\* And that evidence is all that exit code 0 needs.
LEMMA EvidencePasses ==
  ASSUME NEW rs, NEW f, NEW h, Numbered(rs),
         NEW is4 \in BOOLEAN, NEW i \in Group(rs, is4), NEW j \in Group(rs, is4),
         None \notin {rs[i].target, rs[j].target}, rs[i].target # rs[j].target,
         \A b \in BOOLEAN : \A k, l \in Group(rs, b) : rs[k].mapped = rs[l].mapped,
         \A k \in Successes(rs) : rs[k].mapped \notin SharedSpace
  PROVE  ExitCode(Verdict(rs, f, h)) = 0
<1> DEFINE v == Verdict(rs, f, h)
           g == Group(rs, is4)
<1>1. \A b \in BOOLEAN : AllSame(rs, Group(rs, b))
  BY DEF AllSame
<1>2. GroupType(rs, g) = "EIM"
  <2>1. g \in SUBSET DOMAIN rs
    BY GroupIsSuccesses
  <2>2. Cardinality(g) # 1 /\ ~(DistinctTargetIPs(rs, g) < 2)
    BY <2>1, DistinctSuffice
  <2>3. QED
    BY <1>1, <2>2 DEF GroupType
<1>3. GroupTypes(rs) \ {"Unknown"} = {"EIM"} /\ ClassifyMapping(rs).type = "EIM"
  BY <1>1, <1>2, AgreementIsEIM
<1>4. ~ClassifyMapping(rs).cgnat
  BY <1>3, AgreementShowsCGNAT
<1>5. v.type = "EIM" /\ ~v.cgnat
  BY <1>3, <1>4, VerdictFields
<1>6. v.forecast \in {"likely", "possible"}
  BY <1>5, VerdictFields
<1>7. QED
  BY <1>5, <1>6 DEF ExitCode
-----------------------------------------------------------------------------
(* The order of the servers *)

\* The results qs are those of rs, each taken from place p; b takes them back.
Reordered(rs, qs, p, b) ==
  /\ DOMAIN qs = DOMAIN rs
  /\ p \in [DOMAIN rs -> DOMAIN rs] /\ b \in [DOMAIN rs -> DOMAIN rs]
  /\ \A k \in DOMAIN rs : p[b[k]] = k /\ b[p[k]] = k /\ qs[k] = rs[p[k]]

LEMMA ReorderedBack ==
  ASSUME NEW rs, NEW qs, NEW p, NEW b, Reordered(rs, qs, p, b)
  PROVE  Reordered(qs, rs, b, p)
<1>1. ASSUME NEW k \in DOMAIN rs PROVE rs[k] = qs[b[k]]
  BY DEF Reordered
<1>2. QED
  BY <1>1 DEF Reordered

\* A finite order that repeats no place leaves none out.
LEMMA OrderHasInverse ==
  ASSUME NEW D, IsFiniteSet(D), NEW p \in [D -> D], \A i, j \in D : p[i] = p[j] => i = j
  PROVE  \E b \in [D -> D] : \A k \in D : p[b[k]] = k /\ b[p[k]] = k
<1>1. p \in Injection(D, D)
  BY DEF Injection, IsInjective
<1>2. p \in Surjection(D, D)
  BY <1>1, FS_Injection
<1>3. \A k \in D : \E i \in D : p[i] = k
  BY <1>2 DEF Surjection
<1> DEFINE b == [k \in D |-> CHOOSE i \in D : p[i] = k]
<1>4. \A k \in D : b[k] \in D /\ p[b[k]] = k
  BY <1>3
<1>5. \A k \in D : b[p[k]] = k
  BY <1>4
<1>6. b \in [D -> D]
  BY <1>4
<1> HIDE DEF b
<1>7. QED
  BY <1>4, <1>5, <1>6

LEMMA GroupMoves ==
  ASSUME NEW rs, NEW qs, NEW p, NEW b, Reordered(rs, qs, p, b), NEW is4 \in BOOLEAN,
         NEW k \in Group(qs, is4)
  PROVE  p[k] \in Group(rs, is4) /\ rs[p[k]] = qs[k] /\ b[p[k]] = k
  BY DEF Group, Successes, Reordered

LEMMA SameGroupType ==
  ASSUME NEW rs, NEW qs, NEW p, NEW b, Reordered(rs, qs, p, b), Numbered(rs),
         NEW is4 \in BOOLEAN
  PROVE  /\ Group(qs, is4) = {} <=> Group(rs, is4) = {}
         /\ GroupType(qs, Group(qs, is4)) = GroupType(rs, Group(rs, is4))
<1> DEFINE g == Group(rs, is4)
           h == Group(qs, is4)
<1>1. \A k \in h : p[k] \in g /\ rs[p[k]] = qs[k] /\ b[p[k]] = k
  BY GroupMoves
<1>2. \A k \in g : b[k] \in h /\ qs[b[k]] = rs[k] /\ p[b[k]] = k
  BY ReorderedBack, GroupMoves
<1>3. IsFiniteSet(g) /\ IsFiniteSet(h)
  BY GroupIsSuccesses, FS_Subset DEF Numbered, Reordered
<1> HIDE DEF g, h
<1>4. (\E x : g = {x}) <=> (\E x : h = {x})
  <2>1. ASSUME NEW x, g = {x} PROVE h = {b[x]}
    BY <1>1, <1>2, <2>1
  <2>2. ASSUME NEW x, h = {x} PROVE g = {p[x]}
    BY <1>1, <1>2, <2>2
  <2>3. QED
    BY <2>1, <2>2
<1>5. (Cardinality(g) = 1) <=> (Cardinality(h) = 1)
  BY <1>3, <1>4, FS_Singleton
<1>6. AllSame(rs, g) <=> AllSame(qs, h)
  BY <1>1, <1>2 DEF AllSame
<1>7. {rs[i].target : i \in g} = {qs[i].target : i \in h}
  BY <1>1, <1>2
<1>8. DistinctTargetIPs(rs, g) = DistinctTargetIPs(qs, h)
  BY <1>7 DEF DistinctTargetIPs
<1>9. GroupType(qs, h) = GroupType(rs, g)
  BY <1>5, <1>6, <1>8 DEF GroupType
<1>10. h = {} <=> g = {}
  BY <1>1, <1>2
<1>11. QED
  BY <1>9, <1>10 DEF g, h

\* The order of the servers, any order, decides neither the type nor the exit code.
LEMMA OrderDecidesNothing ==
  ASSUME NEW rs, NEW qs, NEW p, NEW b, Reordered(rs, qs, p, b), Numbered(rs), NEW f, NEW h
  PROVE  /\ Verdict(qs, f, h).type = Verdict(rs, f, h).type
         /\ ExitCode(Verdict(qs, f, h)) = ExitCode(Verdict(rs, f, h))
<1> DEFINE v == Verdict(rs, f, h)
           w == Verdict(qs, f, h)
<1>1. GroupTypes(qs) = GroupTypes(rs)
  BY SameGroupType DEF GroupTypes
<1>2. Successes(qs) = {} <=> Successes(rs) = {}
  BY SameGroupType, GroupIsSuccesses, GroupOfSuccess
<1>3. v.type = ClassifyMapping(rs).type /\ v.cgnat = ClassifyMapping(rs).cgnat
  BY VerdictFields
<1>4. w.type = ClassifyMapping(qs).type /\ w.cgnat = ClassifyMapping(qs).cgnat
  BY VerdictFields
<1>5. w.type = v.type
  BY <1>1, <1>2, <1>3, <1>4, MappingFields
<1>6. CASE "ADM" \notin GroupTypes(rs)
  <2>1. Numbered(qs)
    BY DEF Numbered, Reordered
  <2>2. (\E i \in Successes(rs) : rs[i].mapped \in SharedSpace)
          <=> (\E i \in Successes(qs) : qs[i].mapped \in SharedSpace)
    BY ReorderedBack, GroupMoves, GroupIsSuccesses, GroupOfSuccess
  <2>3. w.cgnat <=> v.cgnat
    BY <1>1, <1>3, <1>4, <1>6, <2>1, <2>2, AgreementShowsCGNAT
  <2>4. w.forecast = v.forecast
    BY <1>5, <2>3, VerdictFields
  <2>5. QED
    BY <1>5, <2>4 DEF ExitCode
<1>7. CASE "ADM" \in GroupTypes(rs)
  <2>1. CombineGroups(GroupTypes(rs)) # "EIM"
    BY <1>7, GroupTypesType, Combined
  <2>2. v.type \in {"Blocked", "ADM", "Unknown"}
    BY <1>3, <2>1, MappingFields, GroupTypesType, CombinedType
  <2>3. {v.forecast, w.forecast} \cap {"likely", "possible"} = {}
    BY <1>5, <2>2, VerdictFields
  <2>4. QED
    BY <1>5, <2>3 DEF ExitCode
<1>8. QED
  BY <1>5, <1>6, <1>7

-----------------------------------------------------------------------------
(* The warnings *)

LEMMA MappingWarnings ==
  ASSUME NEW rs
  PROVE  LET c == ClassifyMapping(rs) IN
         /\ c.warnings = {"filtering_behavior_not_tested"} \cup
              IF Successes(rs) = {} THEN {"all_probes_failed"}
              ELSE FamilyWarnings(rs) \cup PropagatedWarnings(rs, c.type)
         /\ "filtering_behavior_not_tested" \in c.warnings
         /\ "filtering_skipped_no_change_request" \notin c.warnings
         /\ "hairpin_untested" \notin c.warnings
<1> DEFINE c == ClassifyMapping(rs)
<1>1. c.warnings = {"filtering_behavior_not_tested"} \cup
        IF Successes(rs) = {} THEN {"all_probes_failed"}
        ELSE FamilyWarnings(rs) \cup PropagatedWarnings(rs, c.type)
  BY DEF ClassifyMapping
<1> HIDE DEF c
<1> DEFINE later == {"filtering_skipped_no_change_request", "hairpin_untested"}
<1>2. \A g : GroupWarnings(rs, g) \cap later = {}
  BY DEF GroupWarnings
<1>3. PropagatedWarnings(rs, c.type) \cap later = {}
  BY <1>2 DEF PropagatedWarnings
<1>4. FamilyWarnings(rs) \cap later = {}
  BY DEF FamilyWarnings
<1>5. QED
  BY <1>1, <1>3, <1>4 DEF c

\* A verdict keeps what classifyMapping warned of, but for the generic reason.
LEMMA VerdictWarnings ==
  ASSUME NEW rs, NEW f, NEW h
  PROVE  LET generic == "filtering_behavior_not_tested"
             skipped == "filtering_skipped_no_change_request"
             c == ClassifyMapping(rs)
             v == Verdict(rs, f, h)
         IN  v.warnings = (c.warnings \ {generic})
               \cup (IF f.err = "notSupported" THEN {skipped}
                     ELSE IF Behavior(f) = "untested" THEN {generic} ELSE {})
               \cup (IF h = "untested" THEN {"hairpin_untested"} ELSE {})
<1> DEFINE generic == "filtering_behavior_not_tested"
           skipped == "filtering_skipped_no_change_request"
           c == ClassifyMapping(rs)
           a == ApplyFiltering(c, f)
<1>1. c = [x \in DOMAIN c |-> c[x]] /\ "warnings" \in DOMAIN c /\ "filtering" \in DOMAIN c
  BY DEF ClassifyMapping
<1>2. generic \in c.warnings
  BY MappingWarnings
<1> HIDE DEF c
<1>3. a.warnings = IF f.err = "notSupported" THEN (c.warnings \ {generic}) \cup {skipped}
                   ELSE IF Behavior(f) = "untested" THEN c.warnings
                   ELSE c.warnings \ {generic}
  BY <1>1 DEF ApplyFiltering
<1> HIDE DEF a
<1>4. Verdict(rs, f, h).warnings
        = a.warnings \cup IF h = "untested" THEN {"hairpin_untested"} ELSE {}
  BY VerdictFields DEF a, c
<1>5. QED
  BY <1>2, <1>3, <1>4 DEF c

\* adm_or_stricter goes with the type it explains.
LEMMA ADMIsWarned ==
  ASSUME NEW rs
  PROVE  "adm_or_stricter" \in ClassifyMapping(rs).warnings
           <=> ClassifyMapping(rs).type = "ADM"
<1> DEFINE c == ClassifyMapping(rs)
<1>1. ASSUME c.type = "ADM" PROVE "adm_or_stricter" \in c.warnings
  <2>1. Successes(rs) # {} /\ CombineGroups(GroupTypes(rs)) = "ADM"
    BY <1>1, MappingFields
  <2>2. "ADM" \in GroupTypes(rs)
    BY <2>1, GroupTypesType, Combined
  <2>3. PICK g \in {Group(rs, TRUE), Group(rs, FALSE)} \ {{}} : GroupType(rs, g) = "ADM"
    BY <2>2 DEF GroupTypes
  <2>4. "adm_or_stricter" \in GroupWarnings(rs, g)
    BY <2>3 DEF GroupType, GroupWarnings
  <2>5. "adm_or_stricter" \in PropagatedWarnings(rs, c.type)
    BY <1>1, <2>4 DEF PropagatedWarnings
  <2>6. QED
    BY <2>1, <2>5, MappingWarnings
<1>2. ASSUME c.type # "ADM" PROVE "adm_or_stricter" \notin c.warnings
  <2>1. "adm_or_stricter" \notin PropagatedWarnings(rs, c.type)
    BY <1>2 DEF PropagatedWarnings
  <2>2. "adm_or_stricter" \notin FamilyWarnings(rs)
    BY DEF FamilyWarnings
  <2>3. QED
    BY <2>1, <2>2, MappingWarnings
<1>3. QED
  BY <1>1, <1>2

\* What the group warnings are for is told in the verdict.
LEMMA CGNATIsWarned ==
  ASSUME NEW rs, ClassifyMapping(rs).cgnat
  PROVE  "cgnat_detected" \in ClassifyMapping(rs).warnings
<1>1. PICK g \in {Group(rs, TRUE), Group(rs, FALSE)} \ {{}} : GroupCGNAT(rs, g)
  BY MappingFields
<1>2. "cgnat_detected" \in PropagatedWarnings(rs, ClassifyMapping(rs).type)
  <2>1. "cgnat_detected" \in GroupWarnings(rs, g)
    BY <1>1 DEF GroupWarnings
  <2>2. QED
    BY <2>1 DEF PropagatedWarnings
<1>3. Successes(rs) # {}
  BY <1>1, GroupIsSuccesses
<1>4. QED
  BY <1>2, <1>3, MappingWarnings

\* An Unknown type: a family without enough probes, or two that contradict each other.
LEMMA UnknownIsWarned ==
  ASSUME NEW rs, ClassifyMapping(rs).type = "Unknown"
  PROVE  ClassifyMapping(rs).warnings \cap
           {"insufficient_probes", "insufficient_server_diversity",
            "mixed_address_family_probes"} # {}
<1> DEFINE types == GroupTypes(rs)
           w == ClassifyMapping(rs).warnings
<1>1. Successes(rs) # {} /\ CombineGroups(types) = "Unknown"
  BY MappingFields
<1>2. w = {"filtering_behavior_not_tested"} \cup FamilyWarnings(rs)
              \cup PropagatedWarnings(rs, ClassifyMapping(rs).type)
  BY <1>1, MappingWarnings
<1>3. CASE "Unknown" \in types
  <2>1. PICK g \in {Group(rs, TRUE), Group(rs, FALSE)} \ {{}} : GroupType(rs, g) = "Unknown"
    BY <1>3 DEF GroupTypes
  <2>2. GroupWarnings(rs, g) \cap {"insufficient_probes", "insufficient_server_diversity"} # {}
    BY <2>1 DEF GroupType, GroupWarnings
  <2>3. GroupWarnings(rs, g) \ {"adm_or_stricter"}
          \subseteq PropagatedWarnings(rs, ClassifyMapping(rs).type)
    BY DEF PropagatedWarnings
  <2>4. QED
    BY <1>2, <2>2, <2>3
<1>4. CASE "Unknown" \notin types
  <2>1. Group(rs, TRUE) # {} /\ Group(rs, FALSE) # {}
    <3>1. SUFFICES ASSUME NEW is4 \in BOOLEAN, Group(rs, is4) = {}
                   PROVE  FALSE
      OBVIOUS
    <3>2. Group(rs, ~is4) # {}
      BY <1>1, <3>1, GroupOfSuccess
    <3>3. {Group(rs, TRUE), Group(rs, FALSE)} \ {{}} = {Group(rs, ~is4)}
      BY <3>1, <3>2
    <3>4. types = {GroupType(rs, Group(rs, ~is4))}
      BY <3>3 DEF GroupTypes
    <3>5. types \ {"Unknown"} = {GroupType(rs, Group(rs, ~is4))}
      BY <1>4, <3>4
    <3>6. Cardinality(types \ {"Unknown"}) = 1
      BY <3>5, FS_Singleton
    <3>7. CombineGroups(types) \in types \ {"Unknown"}
      BY <3>5, <3>6 DEF CombineGroups
    <3>8. QED
      BY <1>1, <3>7
  <2>2. "mixed_address_family_probes" \in FamilyWarnings(rs)
    BY <2>1 DEF FamilyWarnings
  <2>3. QED
    BY <1>2, <2>2
<1>5. QED
  BY <1>3, <1>4
=============================================================================
