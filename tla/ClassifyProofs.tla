--------------------------- MODULE ClassifyProofs ---------------------------
(***************************************************************************)
(* Proofs about ClassifyCases, for every number of servers, every set of   *)
(* endpoints and whatever the filtering probe found.                       *)
(***************************************************************************)
EXTENDS ClassifyCases, VerdictProofs

TypeOK == results \in Seq(Result) /\ filtering \in FilteringResult

LEMMA TypeInit == Init => TypeOK
  BY DEF Init, TypeOK

LEMMA TypeNext == TypeOK /\ [Next]_vars => TypeOK'
  BY DEF TypeOK, Next, OneMoreResult, vars

LEMMA TypeInductive == Spec => []TypeOK
  BY TypeInit, TypeNext, PTL DEF Spec

LEMMA SequencesAreNumbered ==
  ASSUME NEW rs \in Seq(Result)
  PROVE  Numbered(rs)
<1>1. DOMAIN rs = 1 .. Len(rs) /\ Len(rs) \in Nat
  OBVIOUS
<1>2. QED
  BY <1>1, FS_Interval DEF Numbered

\* Peers are the members of a group.
LEMMA PeersAreOfAGroup ==
  ASSUME NEW i, NEW j
  PROVE  Peers(i, j) <=> \E is4 \in BOOLEAN : {i, j} \subseteq Group(results, is4)
  BY DEF Peers

-----------------------------------------------------------------------------

LEMMA PassIsWitnessedState == TypeOK => PassIsWitnessed
<1> SUFFICES ASSUME TypeOK PROVE PassIsWitnessed
  OBVIOUS
<1> DEFINE witness == \E i, j \in Successes(results) :
                        /\ Peers(i, j) /\ Mapped(i) = Mapped(j)
                        /\ None \notin {results[i].target, results[j].target}
                        /\ results[i].target # results[j].target
           agree == \A i, j \in Successes(results) : Peers(i, j) => Mapped(i) = Mapped(j)
           direct == \A i \in Successes(results) : Mapped(i) \notin SharedSpace
<1>1. Numbered(results)
  BY SequencesAreNumbered DEF TypeOK
<1>2. Exit(results) = ExitCode(Verdict(results, filtering, "untested"))
  BY DEF Exit, The
<1>3. ASSUME Exit(results) = 0 PROVE witness /\ agree /\ direct
  <2>1. PICK is4 \in BOOLEAN : \E i, j \in Group(results, is4) :
           /\ results[i].mapped = results[j].mapped
           /\ None \notin {results[i].target, results[j].target}
           /\ results[i].target # results[j].target
    BY <1>1, <1>2, <1>3, PassEvidence
  <2>2. witness
    BY <2>1, GroupIsSuccesses, PeersAreOfAGroup DEF Mapped
  <2>3. agree /\ direct
    BY <1>1, <1>2, <1>3, PassEvidence, PeersAreOfAGroup DEF Mapped
  <2>4. QED
    BY <2>2, <2>3
<1>4. ASSUME witness, agree, direct PROVE Exit(results) = 0
  <2>1. PICK i, j \in Successes(results) :
           /\ Peers(i, j)
           /\ None \notin {results[i].target, results[j].target}
           /\ results[i].target # results[j].target
    BY <1>4
  <2>2. PICK is4 \in BOOLEAN : i \in Group(results, is4) /\ j \in Group(results, is4)
    BY <2>1, PeersAreOfAGroup
  <2>3. \A b \in BOOLEAN : \A k, l \in Group(results, b) : results[k].mapped = results[l].mapped
    BY <1>4, GroupIsSuccesses, PeersAreOfAGroup DEF Mapped
  <2>4. QED
    BY <1>1, <1>2, <1>4, <2>1, <2>2, <2>3, EvidencePasses DEF Mapped
<1>5. QED
  BY <1>3, <1>4 DEF PassIsWitnessed

\* Exit code 0 and the evidence for it go together, whatever the servers and however
\* many (ClassifyCases.PassIsWitnessed; classifyGroup, combineGroups, exitCode).
THEOREM PassIsWitnessedHolds == Spec => []PassIsWitnessed
  BY TypeInductive, PassIsWitnessedState, PTL

-----------------------------------------------------------------------------

\* A further server leaves the results there are where they are.
LEMMA Grown ==
  ASSUME NEW rs \in Seq(Result), NEW r \in Result, NEW i \in DOMAIN rs
  PROVE  i \in DOMAIN Append(rs, r) /\ Append(rs, r)[i] = rs[i]
  OBVIOUS

LEMMA FailureStep ==
  ASSUME TypeOK, Next, results'[Len(results')].mapped = None
  PROVE  The(results') = The(results)
<1>1. PICK r \in Result : results' = Append(results, r)
  BY DEF Next, OneMoreResult
<1>2. \A i \in DOMAIN results' : i \in DOMAIN results \/ i = Len(results')
  BY <1>1 DEF TypeOK
<1>3. \A i \in DOMAIN results : i \in DOMAIN results' /\ results'[i] = results[i]
  BY <1>1, Grown DEF TypeOK
<1>4. Successes(results') = Successes(results)
  BY <1>2, <1>3 DEF Successes
<1>5. \A i \in Successes(results) : results'[i] = results[i]
  BY <1>3, GroupIsSuccesses
<1>6. ClassifyMapping(results') = ClassifyMapping(results)
  BY <1>4, <1>5, SequencesAreNumbered, SuccessesDecide DEF TypeOK
<1>7. QED
  BY <1>6 DEF The, Verdict

\* A server that did not answer changes nothing (ClassifyCases.FailureAddsNothing;
\* classifyMapping).
THEOREM FailureAddsNothingHolds == Spec => FailureAddsNothing
<1>1. TypeOK /\ [Next]_vars =>
        [results'[Len(results')].mapped = None => The(results') = The(results)]_vars
  BY FailureStep
<1>2. QED
  BY <1>1, TypeInductive, PTL DEF Spec, FailureAddsNothing

-----------------------------------------------------------------------------

LEMMA UntestedState == UntestedIsNotStronger
<1> DEFINE untested == [err |-> "nil", t2 |-> FALSE, t3 |-> FALSE]
           u == Verdict(results, untested, "untested")
           v == The(results)
           rank == [unlikely |-> 0, unknown |-> 1, possible |-> 2, likely |-> 3]
<1>1. u.type = v.type /\ u.cgnat = v.cgnat
  BY VerdictFields DEF The
<1>2. u.filtering # "endpoint-independent"
  BY VerdictFields DEF Behavior
<1>3. u.forecast = IF u.cgnat THEN "unknown"
                   ELSE IF u.type \in {"Blocked", "ADM"} THEN "unlikely"
                   ELSE IF u.type = "Unknown" THEN "unknown"
                   ELSE "possible"
  BY <1>2, VerdictFields
<1>4. v.forecast = IF v.cgnat THEN "unknown"
                   ELSE IF v.type \in {"Blocked", "ADM"} THEN "unlikely"
                   ELSE IF v.type = "Unknown" THEN "unknown"
                   ELSE IF v.filtering = "endpoint-independent" THEN "likely"
                   ELSE "possible"
  BY VerdictFields DEF The
<1> HIDE DEF u, v
<1>5. rank[u.forecast] <= rank[v.forecast]
  BY <1>1, <1>3, <1>4
<1>6. QED
  BY <1>5 DEF UntestedIsNotStronger, u, v

\* Measuring less never makes the forecast better
\* (ClassifyCases.UntestedIsNotStronger; decideForecast).
THEOREM UntestedHolds == Spec => []UntestedIsNotStronger
  BY UntestedState, PTL
-----------------------------------------------------------------------------

LEMMA FilteringIsStatedState == TypeOK => FilteringIsStated
<1> SUFFICES ASSUME TypeOK PROVE FilteringIsStated
  OBVIOUS
<1> DEFINE v == The(results)
           c == ClassifyMapping(results)
           generic == "filtering_behavior_not_tested"
           skipped == "filtering_skipped_no_change_request"
           reasons == v.warnings \cap {generic, skipped}
<1>1. v.filtering = Behavior(filtering)
  BY VerdictFields DEF The
<1>2. skipped \notin c.warnings
  BY MappingWarnings
<1>3. reasons = IF filtering.err = "notSupported" THEN {skipped}
                ELSE IF Behavior(filtering) = "untested" THEN {generic} ELSE {}
  BY <1>2, VerdictWarnings DEF The
<1>4. filtering.err = "notSupported" => Behavior(filtering) = "untested"
  BY DEF Behavior
<1> HIDE DEF v
<1>5. Cardinality(reasons) = IF v.filtering = "untested" THEN 1 ELSE 0
  BY <1>1, <1>3, <1>4, FS_EmptySet, FS_Singleton
<1>6. QED
  BY <1>5 DEF FilteringIsStated, v

\* The verdict has a filtering behavior or says, once, why it has none
\* (ClassifyCases.FilteringIsStated; applyFiltering).
THEOREM FilteringIsStatedHolds == Spec => []FilteringIsStated
  BY TypeInductive, FilteringIsStatedState, PTL

-----------------------------------------------------------------------------

LEMMA ExitIsExplainedState == ExitIsExplained
<1> DEFINE v == The(results)
           c == ClassifyMapping(results)
           why == {"all_probes_failed", "adm_or_stricter", "cgnat_detected",
                   "insufficient_probes", "insufficient_server_diversity",
                   "mixed_address_family_probes"}
<1>1. v.warnings \cap why = c.warnings \cap why
  BY VerdictWarnings DEF The
<1>2. v.type = c.type /\ v.cgnat = c.cgnat
  BY VerdictFields DEF The
<1>3. ASSUME Exit(results) # 0 PROVE c.warnings \cap why # {}
  <2>1. v.type = "Blocked" \/ v.forecast \notin {"likely", "possible"}
    BY <1>3 DEF Exit, ExitCode
  <2>2. v.cgnat \/ v.type \in {"Blocked", "ADM", "Unknown"}
    BY <2>1, VerdictFields DEF The
  <2>3. CASE c.cgnat
    BY <2>3, CGNATIsWarned
  <2>4. CASE c.type = "ADM"
    BY <2>4, ADMIsWarned
  <2>5. CASE c.type = "Unknown"
    BY <2>5, UnknownIsWarned
  <2>6. CASE c.type = "Blocked"
    <3>1. Successes(results) = {}
      <4>1. SUFFICES ASSUME Successes(results) # {} PROVE "Blocked" \in GroupTypes(results)
        BY DEF GroupTypes, GroupType
      <4>2. CombineGroups(GroupTypes(results)) = "Blocked"
        BY <2>6, <4>1, MappingFields
      <4>3. QED
        BY <4>2, GroupTypesType, Combined
    <3>2. QED
      BY <3>1, MappingWarnings
  <2>7. QED
    BY <1>2, <2>2, <2>3, <2>4, <2>5, <2>6
<1>4. "adm_or_stricter" \in v.warnings <=> c.type = "ADM"
  BY <1>1, ADMIsWarned
<1>5. QED
  BY <1>1, <1>2, <1>3, <1>4 DEF ExitIsExplained

\* A nonzero exit code carries a warning that explains it, and adm_or_stricter goes
\* with its type (ClassifyCases.ExitIsExplained; classifyMapping, exitCode).
THEOREM ExitIsExplainedHolds == Spec => []ExitIsExplained
  BY ExitIsExplainedState, PTL
-----------------------------------------------------------------------------

LEMMA OrderState == TypeOK => OrderIsIrrelevant
<1> SUFFICES ASSUME TypeOK, NEW p \in Orders(DOMAIN results)
             PROVE  LET reordered == [k \in DOMAIN results |-> results[p[k]]]
                    IN  /\ The(reordered).type = The(results).type
                        /\ Exit(reordered) = Exit(results)
  BY DEF OrderIsIrrelevant
<1> DEFINE D == DOMAIN results
           reordered == [k \in D |-> results[p[k]]]
<1>1. Numbered(results)
  BY SequencesAreNumbered DEF TypeOK
<1>2. p \in [D -> D] /\ \A i, j \in D : p[i] = p[j] => i = j
  BY DEF Orders
<1>3. PICK b \in [D -> D] : \A k \in D : p[b[k]] = k /\ b[p[k]] = k
  BY <1>1, <1>2, OrderHasInverse DEF Numbered
<1>4. Reordered(results, reordered, p, b)
  BY <1>2, <1>3 DEF Reordered
<1>5. QED
  BY <1>1, <1>4, OrderDecidesNothing DEF The, Exit

\* No reordering of the servers, of any number of them, changes the type or the exit code
\* (ClassifyCases.OrderIsIrrelevant; combineGroups, applyCGNAT).
THEOREM OrderIsIrrelevantHolds == Spec => []OrderIsIrrelevant
  BY TypeInductive, OrderState, PTL
=============================================================================
