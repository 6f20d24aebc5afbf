---------------------------- MODULE ClassifyCases ---------------------------
(***************************************************************************)
(* Classify over every list of results up to a length: a step puts one     *)
(* more result on the list, and the properties compare the verdict with    *)
(* the results it is made of and with the verdicts of their like.          *)
(***************************************************************************)
EXTENDS Classify

CONSTANT MaxServers     \* the bound on the number of servers

VARIABLES
    results,    \* the first argument of Classify, one result per server
    filtering   \* the second

vars == <<results, filtering>>

Init == results = <<>> /\ filtering \in FilteringResult

OneMoreResult ==
    /\ Len(results) < MaxServers
    /\ \E r \in Result : results' = Append(results, r)
    /\ UNCHANGED filtering

Next == OneMoreResult
Spec == Init /\ [][Next]_vars

The(rs) == Verdict(rs, filtering, "untested")
Exit(rs) == ExitCode(The(rs))
Mapped(i) == results[i].mapped

\* Two successes of one family.
Peers(i, j) == {i, j} \subseteq Group(results, TRUE) \/ {i, j} \subseteq Group(results, FALSE)

\* The orders in which the places of a list can be taken.
Orders(places) ==
    {p \in [places -> places] : \A i, j \in places : p[i] = p[j] => i = j}

-----------------------------------------------------------------------------

\* Exit code 0 says exactly what it should: two server IPs of one family saw the same
\* endpoint, no two servers of a family disagree, and no server saw an endpoint behind
\* a carrier NAT.  Filtering and the number of servers that failed do not come into it
\* (classifyGroup, combineGroups, decideForecast, exitCode).
PassIsWitnessed ==
    Exit(results) = 0 <=>
        /\ \E i, j \in Successes(results) :
             /\ Peers(i, j) /\ Mapped(i) = Mapped(j)
             /\ None \notin {results[i].target, results[j].target}
             /\ results[i].target # results[j].target
        /\ \A i, j \in Successes(results) : Peers(i, j) => Mapped(i) = Mapped(j)
        /\ \A i \in Successes(results) : Mapped(i) \notin SharedSpace

\* Neither the type nor the exit code depends on the order of the servers, though
\* the endpoint, and with it CGNAT, is read from the first success.
OrderIsIrrelevant ==
    \A p \in Orders(DOMAIN results) :
        LET reordered == [k \in DOMAIN results |-> results[p[k]]] IN
        /\ The(reordered).type = The(results).type
        /\ Exit(reordered) = Exit(results)

\* Measuring less never makes the forecast better: without filtering data it is at
\* most what any measured behavior gives (decideForecast: "Untested filtering must
\* not read stronger than measured strict filtering").
UntestedIsNotStronger ==
    LET untested == [err |-> "nil", t2 |-> FALSE, t3 |-> FALSE]
        rank == [unlikely |-> 0, unknown |-> 1, possible |-> 2, likely |-> 3]
    IN  rank[Verdict(results, untested, "untested").forecast] <= rank[The(results).forecast]

\* A nonzero exit always carries a warning that explains it, and adm_or_stricter is
\* given exactly with the type it explains (classifyMapping's propagation rule).
ExitIsExplained ==
    LET v == The(results) IN
    /\ Exit(results) # 0 =>
        v.warnings \cap {"all_probes_failed", "adm_or_stricter", "cgnat_detected",
                         "insufficient_probes", "insufficient_server_diversity",
                         "mixed_address_family_probes"} # {}
    /\ "adm_or_stricter" \in v.warnings <=> v.type = "ADM"

\* The verdict has a filtering behavior or says, once, why it has none
\* (applyFiltering).
FilteringIsStated ==
    LET v == The(results)
        reasons == v.warnings \cap {"filtering_behavior_not_tested",
                                    "filtering_skipped_no_change_request"}
    IN  Cardinality(reasons) = IF v.filtering = "untested" THEN 1 ELSE 0

\* A server that did not answer changes nothing of the verdict: loss is absence of
\* information (classifyMapping).
FailureAddsNothing ==
    [][results'[Len(results')].mapped = None => The(results') = The(results)]_vars

-----------------------------------------------------------------------------
(* What a document or a comment says and the code does not do. *)

\* docs/design.md, line 110: a mapped IP in 100.64.0.0/10 gives the warning
\* cgnat_detected and the forecast unknown (applyCGNAT).
CGNATIsReported ==
    (\E i \in Successes(results) : Mapped(i) \in SharedSpace) =>
        /\ "cgnat_detected" \in The(results).warnings
        /\ The(results).forecast = "unknown"

\* The comment of decideForecast, line 411: mapping EIM with EIF or untested
\* filtering gives likely.
UntestedIsLikely ==
    LET v == The(results) IN
    v.type = "EIM" /\ ~v.cgnat /\ v.filtering \in {"endpoint-independent", "untested"}
        => v.forecast = "likely"
=============================================================================
