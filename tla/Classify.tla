------------------------------ MODULE Classify ------------------------------
(***************************************************************************)
(* internal/classify: from probe results, and from what the filtering and  *)
(* hairpin probes found, to a verdict; and the exit code internal/cli      *)
(* makes of it.                                                            *)
(*                                                                         *)
(* A result is a pair of the mapped endpoint and the IP of the target;     *)
(* mapped = None stands for an error and for an invalid endpoint, which    *)
(* the code treats alike.  Warnings are a set: their order is layout.  The *)
(* legacy name is left out, it goes with the type.                         *)
(***************************************************************************)
EXTENDS Naturals, Sequences, FiniteSets

CONSTANTS
    Endpoints,      \* mapped endpoints
    IPv4,           \* those for which Addr().Is4() holds
    SharedSpace,    \* those in cgnatPrefix, 100.64.0.0/10
    TargetIPs,      \* the addresses of the servers
    None            \* no endpoint, no target

ASSUME EndpointAssumption == IPv4 \subseteq Endpoints /\ SharedSpace \subseteq IPv4
ASSUME NoneAssumption == None \notin Endpoints \cup TargetIPs

Result == [mapped : Endpoints \cup {None}, target : TargetIPs \cup {None}]
Types == {"Unknown", "EIM", "ADM", "Blocked"}

\* *probe.FilteringResult: nil, ErrFilteringNotSupported, another error, or the
\* two tests.
FilteringResult ==
    [err : {"nil", "notSupported", "other"}, t2 : {FALSE}, t3 : {FALSE}]
    \cup [err : {"none"}, t2 : BOOLEAN, t3 : BOOLEAN]

\* *probe.HairpinningResult: nil or no Detected, or the value of Detected.
HairpinningResult == {"untested", "true", "false"}

Behaviors == {"untested", "endpoint-independent", "address-dependent",
              "address-and-port-dependent"}

-----------------------------------------------------------------------------
(* classifyMapping: groups, their verdicts, the combined one *)

\* Mutant: a result without a mapped endpoint counts as a success.
SuccessesBug(rs) == DOMAIN rs

Successes(rs) == {i \in DOMAIN rs : rs[i].mapped # None}

\* The successes of one family, by the family of the mapped endpoint.
Group(rs, is4) == {i \in Successes(rs) : (rs[i].mapped \in IPv4) = is4}

First(g) == CHOOSE i \in g : \A j \in g : i <= j

\* Mutant: each endpoint is compared with the one that precedes it in results,
\* not with the first of the group.
AllSameBug(rs, g) == \A i \in g : i - 1 \in DOMAIN rs => rs[i].mapped = rs[i - 1].mapped

AllSame(rs, g) == \A i, j \in g : rs[i].mapped = rs[j].mapped

DistinctTargetIPs(rs, g) == Cardinality({rs[i].target : i \in g} \ {None})

\* Mutant: any agreement counts, also that of one server IP.
GroupTypeBug(rs, g) ==
    IF Cardinality(g) = 1 THEN "Unknown"
    ELSE IF ~AllSame(rs, g) THEN "ADM"
    ELSE "EIM"

GroupType(rs, g) ==
    IF Cardinality(g) = 1 THEN "Unknown"
    ELSE IF ~AllSame(rs, g) THEN "ADM"
    ELSE IF DistinctTargetIPs(rs, g) < 2 THEN "Unknown"
    ELSE "EIM"

\* applyCGNAT looks at PublicEndpoint, the first mapped endpoint of the group.
GroupCGNAT(rs, g) == rs[First(g)].mapped \in SharedSpace

GroupWarnings(rs, g) ==
    (IF Cardinality(g) = 1 THEN {"insufficient_probes"}
     ELSE IF ~AllSame(rs, g) THEN {"adm_or_stricter"}
     ELSE IF DistinctTargetIPs(rs, g) < 2 THEN {"insufficient_server_diversity"}
     ELSE {})
    \cup (IF GroupCGNAT(rs, g) THEN {"cgnat_detected"} ELSE {})

\* The types of the families that had a success.
GroupTypes(rs) ==
    {GroupType(rs, g) : g \in {Group(rs, TRUE), Group(rs, FALSE)} \ {{}}}

\* Mutant: one family with an endpoint-independent mapping decides for both.
CombineGroupsBug(types) ==
    IF "EIM" \in types THEN "EIM" ELSE CHOOSE t \in types : TRUE

\* Unknown is absence of information: the confident types decide, if they agree.
CombineGroups(types) ==
    LET confident == types \ {"Unknown"} IN
    IF Cardinality(confident) = 1 THEN CHOOSE t \in confident : TRUE ELSE "Unknown"

\* Mutant: adm_or_stricter outlives the type it explains.
PropagatedWarningsBug(rs, type) ==
    UNION {GroupWarnings(rs, g) : g \in {Group(rs, TRUE), Group(rs, FALSE)} \ {{}}}

\* What the groups warn of, adm_or_stricter only if the combined type is ADM.
PropagatedWarnings(rs, type) ==
    (UNION {GroupWarnings(rs, g) : g \in {Group(rs, TRUE), Group(rs, FALSE)} \ {{}}})
    \ (IF type = "ADM" THEN {} ELSE {"adm_or_stricter"})

FamilyWarnings(rs) ==
    IF Group(rs, TRUE) = {} THEN {"ipv4_untested"}
    ELSE IF Group(rs, FALSE) = {} THEN {}
    ELSE {"mixed_address_family_probes"}

ClassifyMapping(rs) ==
    LET blocked == Successes(rs) = {}
        type == IF blocked THEN "Blocked" ELSE CombineGroups(GroupTypes(rs))
    IN  [type |-> type,
         endpoint |-> IF blocked THEN None ELSE rs[First(Successes(rs))].mapped,
         cgnat |-> \E g \in {Group(rs, TRUE), Group(rs, FALSE)} \ {{}} : GroupCGNAT(rs, g),
         filtering |-> "untested",
         hairpinning |-> "untested",
         forecast |-> "",
         warnings |-> {"filtering_behavior_not_tested"} \cup
            IF blocked THEN {"all_probes_failed"}
            ELSE FamilyWarnings(rs) \cup PropagatedWarnings(rs, type)]

-----------------------------------------------------------------------------
(* Folding in filtering and hairpinning, forecast, exit code *)

\* Mutant: Test 3 is taken for Test 2.
BehaviorBug(f) ==
    IF f.err # "none" \/ (f.t2 /\ ~f.t3) THEN "untested"
    ELSE IF f.t3 THEN "endpoint-independent"
    ELSE "address-and-port-dependent"

\* Test 2 received and Test 3 not is no behavior of RFC 5780.
Behavior(f) ==
    IF f.err # "none" \/ (f.t2 /\ ~f.t3) THEN "untested"
    ELSE IF f.t2 THEN "endpoint-independent"
    ELSE IF f.t3 THEN "address-dependent"
    ELSE "address-and-port-dependent"

\* Mutant: a server that cannot be tested gets both warnings.
ApplyFilteringBug(v, f) ==
    LET generic == "filtering_behavior_not_tested" IN
    [v EXCEPT !.filtering = Behavior(f),
              !.warnings =
                IF f.err = "notSupported"
                THEN @ \cup {"filtering_skipped_no_change_request"}
                ELSE IF Behavior(f) = "untested" THEN @ ELSE @ \ {generic}]

ApplyFiltering(v, f) ==
    LET generic == "filtering_behavior_not_tested" IN
    [v EXCEPT !.filtering = Behavior(f),
              !.warnings =
                IF f.err = "notSupported"
                THEN (@ \ {generic}) \cup {"filtering_skipped_no_change_request"}
                ELSE IF Behavior(f) = "untested" THEN @ ELSE @ \ {generic}]

ApplyHairpinning(v, h) ==
    [v EXCEPT !.hairpinning = h,
              !.warnings = @ \cup IF h = "untested" THEN {"hairpin_untested"} ELSE {}]

\* Mutant: the precedence the comment above decideForecast still gives.
DecideForecastBug(v) ==
    IF v.cgnat THEN "unknown"
    ELSE IF v.type \in {"Blocked", "ADM"} THEN "unlikely"
    ELSE IF v.type = "Unknown" THEN "unknown"
    ELSE IF v.filtering \in {"endpoint-independent", "untested"} THEN "likely"
    ELSE "possible"

DecideForecast(v) ==
    IF v.cgnat THEN "unknown"
    ELSE IF v.type \in {"Blocked", "ADM"} THEN "unlikely"
    ELSE IF v.type = "Unknown" THEN "unknown"
    ELSE IF v.filtering = "endpoint-independent" THEN "likely"
    ELSE "possible"

Verdict(rs, f, h) ==
    LET v == ApplyHairpinning(ApplyFiltering(ClassifyMapping(rs), f), h) IN
    [v EXCEPT !.forecast = DecideForecast(v)]

ExitCode(v) ==
    IF v.type = "Blocked" THEN 2
    ELSE IF v.forecast \in {"likely", "possible"} THEN 0
    ELSE 1
=============================================================================
