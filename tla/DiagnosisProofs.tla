-------------------------- MODULE DiagnosisProofs ---------------------------
(***************************************************************************)
(* Proofs about Diagnosis, for every list of servers, every NAT and        *)
(* whatever each probe reports within its contract.                        *)
(***************************************************************************)
EXTENDS Diagnosis, VerdictProofs

\* A success is the mapping of the one socket of the family of its target.
Probed ==
  /\ endpoint \in [Families -> Conns \cup {"failed", None}]
  /\ DOMAIN result = Servers
  /\ \A s \in Servers : result[s].kind = "ok" =>
       LET a == result[s].target IN
       /\ a \in Reach[s] /\ endpoint[Family[a]] \in Conns
       /\ result[s].mapped = <<endpoint[Family[a]], a>>

\* What runs in which phase.
Ordered ==
  /\ phase \in {"parse", "mapping", "choose", "filtering", "collect", "render", "done"}
  /\ phase = "parse" => hairpins = None /\ hairpin = None
  /\ phase \in {"parse", "mapping", "choose"} => filtering = None
  /\ phase = "filtering" => against \in Servers
  /\ phase \in {"choose", "filtering", "collect", "render"} => returned
  /\ phase = "render" => hairpin # None
  /\ phase = "done" /\ hairpins # None => hairpin # None /\ returned
  /\ phase # "done" => output = <<>>

\* The other two probes keep their contracts.
Answered ==
  /\ filtering # None => filtering \in Filters!Outcomes(filter) /\ against \in Servers
  /\ hairpin # None => hairpin \in Hairpins!Outcomes(hairpins)

\* The report and the exit code are of one verdict, and it is final.
Ended ==
  /\ output # <<>> =>
       /\ phase = "done" /\ hairpin # None
       /\ exit = ExitCode(TheVerdict)
       /\ \E json \in BOOLEAN : output = <<Render(TheVerdict, against, Results, json)>>
  /\ phase = "done" /\ output = <<>> => exit = 2 \/ args.parse = "help" \/ args.version

IndInv == nat \in NATs /\ Probed /\ Ordered /\ Answered /\ Ended

LEMMA IndInvInit == Init => IndInv
  BY DEF Init, IndInv, Probed, Ordered, Answered, Ended, Probes!Init, Probes!NoResult

-----------------------------------------------------------------------------

LEMMA ProbedNext ==
  ASSUME Probed, Probe
  PROVE  Probed'
<1>1. Probes!BindOrReport
  BY DEF Probe
<1>2. \A f \in Families : endpoint[f] # None => endpoint'[f] = endpoint[f]
  BY <1>1 DEF Probes!BindOrReport, Probes!Bind, Probed
<1>3. endpoint' \in [Families -> Conns \cup {"failed", None}]
  BY <1>1 DEF Probes!BindOrReport, Probes!Bind, Probed
<1>4. ASSUME NEW s \in Servers, NEW a \in Reach[s], endpoint[Family[a]] \in Conns
      PROVE  endpoint'[Family[a]] = endpoint[Family[a]]
  BY <1>2, <1>4, AddressAssumption, MarkerAssumption
<1>5. ASSUME NEW s \in Servers, NEW r \in Probes!Outcomes(s), r.kind = "ok"
      PROVE  /\ r.target \in Reach[s] /\ endpoint[Family[r.target]] \in Conns
             /\ r.mapped = <<endpoint[Family[r.target]], r.target>>
  BY <1>5 DEF Probes!Outcomes
<1>6. \A s \in Servers : result'[s] = result[s] \/ result'[s] \in Probes!Outcomes(s)
  BY <1>1 DEF Probes!BindOrReport, Probes!Report, Probed
<1>7. DOMAIN result' = Servers
  BY <1>1 DEF Probes!BindOrReport, Probes!Report, Probed
<1>8. ASSUME NEW s \in Servers, result'[s].kind = "ok"
      PROVE  LET a == result'[s].target IN
             /\ a \in Reach[s] /\ endpoint'[Family[a]] \in Conns
             /\ result'[s].mapped = <<endpoint'[Family[a]], a>>
  BY <1>4, <1>5, <1>6, <1>8 DEF Probed
<1>9. QED
  BY <1>3, <1>7, <1>8 DEF Probed

\* Outside of the mapping phase the results stay.
LEMMA ProbedStays == Probed /\ UNCHANGED <<endpoint, result>> => Probed'
  BY DEF Probed

\* Once there is a report nothing happens any more.
LEMMA ReportIsLast == Ordered /\ Ended /\ Next => output = <<>>
<1> SUFFICES ASSUME Ordered, Ended, Next, output # <<>> PROVE FALSE
  OBVIOUS
<1>1. phase = "done" /\ hairpin # None
  BY DEF Ended
<1>2. QED
  BY <1>1
     DEF Next, Main, BadUsage, HelpOrVersion, Launch, NoFiltering, StartFiltering, Collect,
         RenderFails, Rendered, Probe, ProbeAllReturns, FilteringReturns, HairpinReturns,
         Hairpins!Return

LEMMA CandidatesAreServers ==
  ASSUME Candidates # {}
  PROVE  First(Candidates) \in Servers
<1>1. Candidates \in SUBSET Nat /\ Candidates \subseteq Servers
  BY ServersAssumption DEF Candidates
<1>2. QED
  BY <1>1, FirstIsIn

LEMMA IndInvNext == IndInv /\ [Next]_vars => IndInv'
<1> SUFFICES ASSUME IndInv, [Next]_vars PROVE IndInv'
  OBVIOUS
<1> USE DEF IndInv
<1>1. CASE UNCHANGED vars
  BY <1>1
     DEF vars, probing, filtered, hairpinned, ended, Probed, Ordered, Answered, Ended,
         TheVerdict, Results, Mapped, TargetIP, FilteringOutcome, HairpinOutcome
<1> SUFFICES ASSUME Next PROVE IndInv'
  BY <1>1
<1>2. output = <<>>
  BY ReportIsLast
<1>3. CASE BadUsage \/ HelpOrVersion
  <2>1. /\ phase = "parse" /\ phase' = "done" /\ output' = <<>>
        /\ exit' = 2 \/ args'.parse = "help" \/ args'.version
        /\ UNCHANGED <<nat, probing, filtered, hairpinned>>
    BY <1>2, <1>3 DEF BadUsage, HelpOrVersion, Ends
  <2>2. QED
    BY <2>1 DEF probing, filtered, hairpinned, Probed, Ordered, Answered, Ended
<1>4. CASE Launch
  BY <1>2, <1>4 DEF Launch, probing, filtered, ended, Probed, Ordered, Answered, Ended
<1>5. CASE Probe
  <2>1. Probed'
    BY <1>5, ProbedNext
  <2>2. phase = "mapping" /\ UNCHANGED <<nat, args, phase, filtered, hairpinned, ended>>
    BY <1>5 DEF Probe
  <2>3. QED
    BY <1>2, <2>1, <2>2 DEF filtered, hairpinned, ended, Ordered, Answered, Ended
<1>6. CASE ProbeAllReturns
  BY <1>2, <1>6
     DEF ProbeAllReturns, Probes!Return, filtered, hairpinned, ended, Probed, Ordered,
         Answered, Ended
<1>7. CASE NoFiltering \/ Collect
  BY <1>2, <1>7
     DEF NoFiltering, Collect, probing, filtered, hairpinned, ended, Probed, Ordered,
         Answered, Ended
<1>8. CASE StartFiltering
  <2>1. against' \in Servers
    BY <1>8, CandidatesAreServers DEF StartFiltering
  <2>2. QED
    BY <1>2, <1>8, <2>1
       DEF StartFiltering, probing, hairpinned, ended, Probed, Ordered, Answered, Ended
<1>9. CASE FilteringReturns
  <2>1. filtering' \in Filters!Outcomes(filter) /\ UNCHANGED filter
    BY <1>9 DEF FilteringReturns, Filters!Return
  <2>2. QED
    BY <1>2, <1>9, <2>1
       DEF FilteringReturns, Filters!Outcomes, probing, hairpinned, ended, Probed, Ordered,
           Answered, Ended
<1>10. CASE HairpinReturns
  <2>1. /\ hairpins # None /\ hairpin = None
        /\ hairpin' \in Hairpins!Outcomes(hairpins) /\ UNCHANGED hairpins
    BY <1>10 DEF HairpinReturns, Hairpins!Return
  <2>2. hairpin' # None
    BY <2>1, MarkerAssumption DEF Hairpins!Outcomes, HairpinningResult
  <2>3. QED
    BY <1>2, <1>10, <2>1, <2>2
       DEF HairpinReturns, Hairpins!Outcomes, probing, filtered, ended, Probed, Ordered,
           Answered, Ended
<1>11. CASE RenderFails
  BY <1>2, <1>11
     DEF RenderFails, Ends, probing, filtered, hairpinned, Probed, Ordered, Answered, Ended
<1>12. CASE Rendered
  <2>1. /\ phase = "render" /\ phase' = "done" /\ exit' = ExitCode(TheVerdict)
        /\ \E json \in BOOLEAN : output' = <<Render(TheVerdict, against, Results, json)>>
        /\ UNCHANGED <<nat, args, probing, filtered, hairpinned>>
    BY <1>12 DEF Rendered, Ends
  <2>2. TheVerdict' = TheVerdict /\ Results' = Results /\ UNCHANGED against
    BY <2>1
       DEF probing, filtered, hairpinned, TheVerdict, Results, Mapped, TargetIP, FilteringOutcome,
           HairpinOutcome
  <2>3. Ended'
    BY <2>1, <2>2 DEF Ended, Ordered, hairpinned
  <2>4. QED
    BY <2>1, <2>3 DEF probing, filtered, hairpinned, Probed, Ordered, Answered
<1>13. QED
  BY <1>3, <1>4, <1>5, <1>6, <1>7, <1>8, <1>9, <1>10, <1>11, <1>12 DEF Next, Main

LEMMA Inductive == Spec => []IndInv
  BY IndInvInit, IndInvNext, PTL DEF Spec

\* No probe outlives the command (Diagnosis.NothingLeftRunning; runWith).
THEOREM NothingLeftHolds == Spec => []NothingLeftRunning
<1>1. IndInv => NothingLeftRunning
  BY DEF IndInv, Ordered, NothingLeftRunning
<1>2. QED
  BY <1>1, Inductive, PTL
-----------------------------------------------------------------------------

\* Either report has the type and the forecast.
LEMMA Reported ==
  ASSUME NEW v, NEW a, NEW rs, NEW json \in BOOLEAN
  PROVE  /\ Render(v, a, rs, json).nat_type = v.type
         /\ Render(v, a, rs, json).direct_p2p = v.forecast
  BY DEF Render, RenderJSON, RenderHuman

LEMMA ExitMatches ==
  ASSUME NEW rs, NEW f, NEW h
  PROVE  LET v == Verdict(rs, f, h) IN
         /\ ExitCode(v) = 2 <=> v.type = "Blocked"
         /\ ExitCode(v) = 0 => v.forecast \in {"likely", "possible"}
         /\ ExitCode(v) = 1 => v.forecast \in {"unlikely", "unknown"}
<1> DEFINE v == Verdict(rs, f, h)
<1>1. v.forecast \in {"likely", "possible", "unlikely", "unknown"}
  BY VerdictFields
<1>2. QED
  BY <1>1 DEF ExitCode

\* The exit code and the report agree (Diagnosis.ExitMatchesReport; runWith, exitCode).
THEOREM ExitMatchesHolds == Spec => []ExitMatchesReport
<1>1. ASSUME IndInv, output # <<>>
      PROVE  /\ exit = 2 <=> output[1].nat_type = "Blocked"
             /\ exit = 0 => output[1].direct_p2p \in {"likely", "possible"}
             /\ exit = 1 => output[1].direct_p2p \in {"unlikely", "unknown"}
  <2>1. PICK json \in BOOLEAN : output = <<Render(TheVerdict, against, Results, json)>>
    BY <1>1 DEF IndInv, Ended
  <2>2. exit = ExitCode(TheVerdict)
    BY <1>1 DEF IndInv, Ended
  <2>3. output[1].nat_type = TheVerdict.type /\ output[1].direct_p2p = TheVerdict.forecast
    BY <2>1, Reported
  <2>4. QED
    BY <2>2, <2>3, ExitMatches DEF TheVerdict
<1>2. IndInv => ExitMatchesReport
  BY <1>1 DEF IndInv, Ended, ExitMatchesReport
<1>3. QED
  BY <1>2, Inductive, PTL

-----------------------------------------------------------------------------

LEMMA OutcomeTypes ==
  ASSUME IndInv
  PROVE  /\ HairpinOutcome \in HairpinningResult
         /\ HairpinOutcome = "true" => hairpins
         /\ Behavior(FilteringOutcome) \in Behaviors
         /\ Behavior(FilteringOutcome) # "untested" => against \in Servers
         /\ Behavior(FilteringOutcome) = "endpoint-independent" => filter = "EIF"
         /\ Behavior(FilteringOutcome) = "address-dependent" => filter # "APDF"
<1>1. HairpinOutcome \in HairpinningResult /\ (HairpinOutcome = "true" => hairpins)
  BY DEF IndInv, Answered, HairpinOutcome, HairpinningResult, Hairpins!Outcomes
<1>2. Behavior(FilteringOutcome) \in Behaviors
  BY DEF Behavior, Behaviors
<1>3. CASE filtering = None
  BY <1>1, <1>2, <1>3 DEF Behavior, FilteringOutcome
<1>4. CASE filtering # None
  <2>1. FilteringOutcome \in Filters!Outcomes(filter) /\ against \in Servers
    BY <1>4 DEF IndInv, Answered, FilteringOutcome
  <2>2. QED
    BY <1>1, <1>2, <2>1 DEF Behavior, Filters!Outcomes
<1>5. QED
  BY <1>3, <1>4

\* Both formats tell the same facts (Diagnosis.FormatsAgree; renderJSON, renderHuman).
THEOREM FormatsAgreeHolds == Spec => []FormatsAgree
<1> DEFINE v == TheVerdict
           j == Render(v, against, Results, TRUE)
           h == Render(v, against, Results, FALSE)
<1>1. \A fact \in {"direct_p2p", "nat_type", "public_endpoint", "probes", "warnings",
                   "hairpinning"} : j[fact] = h[fact]
  BY DEF Render, RenderJSON, RenderHuman
<1>2. /\ j.behavior = v.filtering /\ j.warnings = v.warnings
      /\ j.tested_against = IF v.filtering # "untested" THEN against ELSE None
      /\ h.filtering = IF v.filtering # "untested" THEN <<v.filtering, against>> ELSE None
      /\ j.hairpinning = IF v.hairpinning = "untested" THEN None ELSE v.hairpinning
  BY DEF Render, RenderJSON, RenderHuman, Nullable
<1>3. /\ v.filtering = Behavior(FilteringOutcome) /\ v.hairpinning = HairpinOutcome
      /\ "hairpin_untested" \in v.warnings <=> v.hairpinning = "untested"
  BY VerdictFields, VerdictWarnings, MappingWarnings DEF TheVerdict
<1> HIDE DEF v, j, h
<1>4. ASSUME IndInv PROVE FormatsAgree
  <2>1. v.filtering # "untested" => against # None /\ <<v.filtering, against>> # None
    BY <1>3, <1>4, OutcomeTypes, MarkerAssumption
  <2>2. v.hairpinning # None
    BY <1>3, <1>4, OutcomeTypes, MarkerAssumption
  <2>3. QED
    BY <1>1, <1>2, <1>3, <2>1, <2>2 DEF FormatsAgree, v, j, h
<1>5. QED
  BY <1>4, Inductive, PTL
-----------------------------------------------------------------------------
(* The verdict and the NATs *)

LEMMA ResultsAreNumbered == Numbered(Results)
  BY ServersAssumption DEF Results, Numbered

\* A success is what the NAT of its target's family shows of the family's socket.
LEMMA SuccessIsSeen ==
  ASSUME IndInv, NEW s \in Servers, result[s].kind = "ok"
  PROVE  LET a == result[s].target IN
         /\ a \in Addrs /\ Family[a] \in Families /\ endpoint[Family[a]] \in Conns
         /\ Results[s].target = IP[a] /\ IP[a] # None
         /\ Results[s].mapped = See(nat[Family[a]], endpoint[Family[a]], a)
         /\ s \in Successes(Results)
<1> DEFINE a == result[s].target
           c == endpoint[Family[a]]
<1>1. a \in Addrs /\ c \in Conns /\ result[s].mapped = <<c, a>>
  BY AddressAssumption DEF IndInv, Probed
<1>2. Family[a] \in Families /\ IP[a] \in TargetIPs
  BY <1>1, AddressAssumption
<1>3. a # None /\ IP[a] # None
  BY <1>1, <1>2, MarkerAssumption, NoneAssumption
<1>4. Results[s].mapped = See(nat[Family[a]], c, a) /\ Results[s].target = IP[a]
  BY <1>1, <1>3 DEF Results, Mapped, TargetIP
<1>5. See(nat[Family[a]], c, a) \in Endpoints
  BY <1>1, SeeAssumption DEF IndInv
<1>6. Results[s].mapped # None
  BY <1>4, <1>5, NoneAssumption
<1>7. s \in Successes(Results)
  BY <1>6 DEF Successes, Results
<1>8. QED
  BY <1>1, <1>2, <1>3, <1>4, <1>7

LEMMA SuccessIsMeasured ==
  ASSUME NEW s \in Successes(Results)
  PROVE  s \in Servers /\ result[s].kind = "ok"
  BY DEF Successes, Results, Mapped

\* The groups of the verdict are the families, and agree as their NATs do.
LEMMA GroupsAreFamilies ==
  ASSUME IndInv, NEW i \in Successes(Results), NEW j \in Successes(Results)
  PROVE  LET a == result[i].target
             b == result[j].target
         IN
         /\ (\E is4 \in BOOLEAN : {i, j} \subseteq Group(Results, is4))
              <=> Family[a] = Family[b]
         /\ Family[a] = Family[b] =>
              (Results[i].mapped = Results[j].mapped <=> SameMapping(nat[Family[a]], a, b))
<1> DEFINE a == result[i].target
           b == result[j].target
           c == endpoint[Family[a]]
           d == endpoint[Family[b]]
           x == See(nat[Family[a]], c, a)
           y == See(nat[Family[b]], d, b)
<1>1. /\ a \in Addrs /\ b \in Addrs /\ c \in Conns /\ d \in Conns
      /\ Results[i].mapped = x /\ Results[j].mapped = y
  BY SuccessIsMeasured, SuccessIsSeen
<1>2. /\ (x \in IPv4 <=> y \in IPv4) <=> Family[a] = Family[b]
      /\ c = d /\ Family[a] = Family[b] => (x = y <=> SameMapping(nat[Family[a]], a, b))
  BY <1>1, SeeAssumption DEF IndInv
<1>3. (\E is4 \in BOOLEAN : {i, j} \subseteq Group(Results, is4))
        <=> (Results[i].mapped \in IPv4 <=> Results[j].mapped \in IPv4)
  <2>1. ASSUME NEW is4 \in BOOLEAN, {i, j} \subseteq Group(Results, is4)
        PROVE  Results[i].mapped \in IPv4 <=> Results[j].mapped \in IPv4
    BY <2>1 DEF Group
  <2>2. ASSUME Results[i].mapped \in IPv4 <=> Results[j].mapped \in IPv4
        PROVE  \E is4 \in BOOLEAN : {i, j} \subseteq Group(Results, is4)
    <3> WITNESS (Results[i].mapped \in IPv4) \in BOOLEAN
    <3> QED
      BY <2>2 DEF Group
  <2>3. QED
    BY <2>1, <2>2
<1>4. QED
  BY <1>1, <1>2, <1>3

\* Two servers of a group with different IPs, or which the NAT tells apart: they tell
\* what it does.
LEMMA GroupTells ==
  ASSUME IndInv, NEW is4 \in BOOLEAN, NEW i \in Group(Results, is4),
         NEW j \in Group(Results, is4),
         \/ Results[i].target # Results[j].target
         \/ Results[i].mapped # Results[j].mapped
  PROVE  LET f == Family[result[i].target] IN
         /\ f \in Families /\ Told(f)
         /\ Results[i].mapped = Results[j].mapped <=> Independent(f)
<1> DEFINE a == result[i].target
           b == result[j].target
           f == Family[a]
<1>1. i \in Successes(Results) /\ j \in Successes(Results)
  BY GroupIsSuccesses
<1>2. /\ i \in Servers /\ j \in Servers /\ result[i].kind = "ok" /\ result[j].kind = "ok"
      /\ Results[i].target = IP[a] /\ Results[j].target = IP[b] /\ f \in Families
  BY <1>1, SuccessIsMeasured, SuccessIsSeen
<1>3. /\ f = Family[b]
      /\ Results[i].mapped = Results[j].mapped <=> SameMapping(nat[f], a, b)
  BY <1>1, GroupsAreFamilies
<1>4. i \in Measured(f) /\ j \in Measured(f)
  BY <1>2, <1>3 DEF Measured
<1>5. Told(f)
  BY <1>2, <1>3, <1>4 DEF Told
<1>6. SameMapping(nat[f], a, b) <=> Independent(f)
  BY <1>2, <1>3 DEF SameMapping, Independent
<1>7. QED
  BY <1>2, <1>3, <1>5, <1>6

\* And where a family is told, it is by such a pair.
LEMMA ToldByGroup ==
  ASSUME IndInv, NEW f \in Families, Told(f)
  PROVE  \E is4 \in BOOLEAN : \E i, j \in Group(Results, is4) :
           /\ \/ Results[i].target # Results[j].target
              \/ Results[i].mapped # Results[j].mapped
           /\ f = Family[result[i].target]
           /\ None \notin {Results[i].target, Results[j].target}
<1>1. PICK i \in Measured(f), j \in Measured(f) :
         LET a == result[i].target
             b == result[j].target
         IN  IP[a] # IP[b] \/ ~SameMapping(nat[f], a, b)
  BY DEF Told
<1> DEFINE a == result[i].target
           b == result[j].target
<1>2. IP[a] # IP[b] \/ ~SameMapping(nat[f], a, b)
  BY <1>1
<1>3. /\ i \in Servers /\ j \in Servers /\ result[i].kind = "ok" /\ result[j].kind = "ok"
      /\ f = Family[a] /\ f = Family[b]
  BY DEF Measured
<1>4. /\ i \in Successes(Results) /\ Results[i].target = IP[a] /\ IP[a] # None
      /\ j \in Successes(Results) /\ Results[j].target = IP[b] /\ IP[b] # None
  BY <1>3, SuccessIsSeen
<1>5. PICK is4 \in BOOLEAN : {i, j} \subseteq Group(Results, is4)
  <2>1. (\E is4 \in BOOLEAN : {i, j} \subseteq Group(Results, is4)) <=> Family[a] = Family[b]
    BY <1>4, GroupsAreFamilies, Zenon
  <2>2. QED
    BY <1>3, <2>1
<1>6. Results[i].mapped = Results[j].mapped <=> SameMapping(nat[f], a, b)
  <2>1. Results[i].mapped = Results[j].mapped <=> SameMapping(nat[Family[a]], a, b)
    BY <1>3, <1>4, GroupsAreFamilies
  <2>2. QED
    BY <1>3, <2>1
<1>7. i \in Group(Results, is4) /\ j \in Group(Results, is4)
  BY <1>5
<1> HIDE DEF a, b
<1>8. \/ Results[i].target # Results[j].target
      \/ Results[i].mapped # Results[j].mapped
  BY <1>2, <1>4, <1>6
<1>9. None \notin {Results[i].target, Results[j].target}
  BY <1>4
<1>10. f = Family[result[i].target]
  BY <1>3 DEF a
<1>11. QED
  <2> USE <1>7
  <2> WITNESS is4 \in BOOLEAN
  <2> WITNESS i \in Group(Results, is4), j \in Group(Results, is4)
  <2> QED
    BY <1>8, <1>9, <1>10

\* Exit code 0 tells what the NATs are.
LEMMA PassTells ==
  ASSUME IndInv, ExitCode(TheVerdict) = 0
  PROVE  /\ \E f \in Families : Told(f)
         /\ \A f \in Families : Told(f) => Independent(f)
         /\ \A s \in Servers : Mapped(s) \notin SharedSpace
<1>1. ExitCode(Verdict(Results, FilteringOutcome, HairpinOutcome)) = 0
  BY DEF TheVerdict
<1>2. /\ \A is4 \in BOOLEAN : \A i, j \in Group(Results, is4) :
           Results[i].mapped = Results[j].mapped
      /\ \A i \in Successes(Results) : Results[i].mapped \notin SharedSpace
  BY <1>1, PassEvidence, ResultsAreNumbered
<1>3. ASSUME NEW s \in Servers PROVE Mapped(s) \notin SharedSpace
  <2>1. Mapped(s) # None => s \in Successes(Results)
    BY DEF Successes, Results
  <2>2. None \notin SharedSpace
    BY EndpointAssumption, NoneAssumption
  <2>3. QED
    BY <1>2, <2>1, <2>2 DEF Results
<1>4. ASSUME NEW f \in Families, Told(f) PROVE Independent(f)
  <2>1. PICK is4 \in BOOLEAN : \E i, j \in Group(Results, is4) :
           /\ Results[i].target # Results[j].target \/ Results[i].mapped # Results[j].mapped
           /\ f = Family[result[i].target]
    BY <1>4, ToldByGroup
  <2>2. PICK i \in Group(Results, is4), j \in Group(Results, is4) :
           /\ Results[i].target # Results[j].target \/ Results[i].mapped # Results[j].mapped
           /\ f = Family[result[i].target]
    BY <2>1
  <2>3. QED
    BY <1>2, <2>2, GroupTells
<1>5. \E f \in Families : Told(f)
  <2>1. PICK is4 \in BOOLEAN : \E i, j \in Group(Results, is4) :
          Results[i].target # Results[j].target
    BY <1>1, PassEvidence, ResultsAreNumbered
  <2>2. PICK i \in Group(Results, is4), j \in Group(Results, is4) :
          Results[i].target # Results[j].target
    BY <2>1
  <2>3. QED
    BY <2>2, GroupTells
<1>6. QED
  BY <1>3, <1>4, <1>5

\* And no other NATs, and no other results, give another exit code.
LEMMA PassIsTold ==
  ASSUME IndInv, \E f \in Families : Told(f),
         \A f \in Families : Told(f) => Independent(f),
         \A s \in Servers : Mapped(s) \notin SharedSpace
  PROVE  ExitCode(TheVerdict) = 0
<1>1. ASSUME NEW is4 \in BOOLEAN, NEW i \in Group(Results, is4), NEW j \in Group(Results, is4)
      PROVE  Results[i].mapped = Results[j].mapped
  <2>1. SUFFICES ASSUME Results[i].mapped # Results[j].mapped PROVE FALSE
    OBVIOUS
  <2>2. QED
    BY <2>1, GroupTells
<1>2. PICK is4 \in BOOLEAN : \E i, j \in Group(Results, is4) :
         /\ Results[i].target # Results[j].target \/ Results[i].mapped # Results[j].mapped
         /\ None \notin {Results[i].target, Results[j].target}
  BY ToldByGroup
<1>3. PICK i \in Group(Results, is4), j \in Group(Results, is4) :
         /\ Results[i].target # Results[j].target
         /\ None \notin {Results[i].target, Results[j].target}
  BY <1>1, <1>2
<1>4. \A k \in Successes(Results) : Results[k].mapped \notin SharedSpace
  BY SuccessIsMeasured DEF Results
<1>5. ExitCode(Verdict(Results, FilteringOutcome, HairpinOutcome)) = 0
  BY <1>1, <1>3, <1>4, ResultsAreNumbered, EvidencePasses
<1>6. QED
  BY <1>5 DEF TheVerdict

LEMMA PassMeansIndependentState == IndInv => PassMeansIndependent
<1> SUFFICES ASSUME IndInv, output # <<>>
             PROVE  exit = 0 <=>
                      /\ \E f \in Families : Told(f)
                      /\ \A f \in Families : Told(f) => Independent(f)
                      /\ \A s \in Servers : Mapped(s) \notin SharedSpace
  BY DEF PassMeansIndependent
<1>1. exit = ExitCode(TheVerdict)
  BY DEF IndInv, Ended
<1>2. QED
  BY <1>1, PassTells, PassIsTold

\* Exit code 0 means NATs that map independently of the peer, and they give it
\* (Diagnosis.PassMeansIndependent; runWith, Classify, exitCode).
THEOREM PassMeansIndependentHolds == Spec => []PassMeansIndependent
  BY Inductive, PassMeansIndependentState, PTL

-----------------------------------------------------------------------------

\* The confident types are what the NATs of the told families do.
LEMMA TypesAreTheNATs ==
  ASSUME IndInv, NEW t \in {"EIM", "ADM"}
  PROVE  t \in GroupTypes(Results)
           <=> \E f \in Families : Told(f) /\ (Independent(f) <=> t = "EIM")
<1>1. ASSUME t \in GroupTypes(Results)
      PROVE  \E f \in Families : Told(f) /\ (Independent(f) <=> t = "EIM")
  <2>1. PICK is4 \in BOOLEAN : GroupType(Results, Group(Results, is4)) = t
    BY <1>1 DEF GroupTypes
  <2>2. CASE t = "EIM"
    <3>1. ~(DistinctTargetIPs(Results, Group(Results, is4)) < 2)
      BY <2>1, <2>2 DEF GroupType
    <3>2. PICK i, j \in Group(Results, is4) : Results[i].target # Results[j].target
      BY <3>1, Distinct
    <3>3. Results[i].mapped = Results[j].mapped
      BY <2>1, <2>2, GroupAgrees, ResultsAreNumbered
    <3>4. QED
      BY <2>2, <3>2, <3>3, GroupTells
  <2>3. CASE t = "ADM"
    <3>1. PICK i, j \in Group(Results, is4) : Results[i].mapped # Results[j].mapped
      BY <2>1, <2>3 DEF GroupType, AllSame
    <3>2. QED
      BY <2>3, <3>1, GroupTells
  <2>4. QED
    BY <2>2, <2>3
<1>2. ASSUME NEW f \in Families, Told(f), Independent(f) <=> t = "EIM"
      PROVE  t \in GroupTypes(Results)
  <2>1. PICK is4 \in BOOLEAN : \E i, j \in Group(Results, is4) :
           /\ Results[i].target # Results[j].target \/ Results[i].mapped # Results[j].mapped
           /\ f = Family[result[i].target]
           /\ None \notin {Results[i].target, Results[j].target}
    BY <1>2, ToldByGroup
  <2> DEFINE g == Group(Results, is4)
  <2>2. PICK i \in g, j \in g :
           /\ Results[i].target # Results[j].target \/ Results[i].mapped # Results[j].mapped
           /\ f = Family[result[i].target]
           /\ None \notin {Results[i].target, Results[j].target}
    BY <2>1
  <2>3. Results[i].mapped = Results[j].mapped <=> Independent(f)
    BY <2>2, GroupTells
  <2>4. CASE t = "ADM"
    <3>1. Results[i].mapped # Results[j].mapped
      BY <1>2, <2>3, <2>4
    <3>2. GroupType(Results, g) = "ADM"
      BY <3>1, GroupAgrees, ResultsAreNumbered
    <3>3. QED
      BY <2>4, <3>2, GroupTypesMember
  <2>5. CASE t = "EIM"
    <3>1. Independent(f) /\ Results[i].target # Results[j].target
      BY <1>2, <2>2, <2>3, <2>5
    <3>2. g \in SUBSET DOMAIN Results
      BY GroupIsSuccesses
    <3>3. Cardinality(g) # 1 /\ ~(DistinctTargetIPs(Results, g) < 2)
      BY <2>2, <3>1, <3>2, DistinctSuffice, ResultsAreNumbered
    <3>4. ASSUME NEW k \in g, NEW l \in g PROVE Results[k].mapped = Results[l].mapped
      <4>1. /\ i \in Successes(Results) /\ k \in Successes(Results)
            /\ l \in Successes(Results)
        BY GroupIsSuccesses
      <4>2. Family[result[k].target] = f /\ Family[result[l].target] = f
        BY <2>2, <4>1, GroupsAreFamilies
      <4>3. SameMapping(nat[f], result[k].target, result[l].target)
        BY <3>1 DEF SameMapping, Independent
      <4>4. QED
        BY <4>1, <4>2, <4>3, GroupsAreFamilies
    <3>5. GroupType(Results, g) = "EIM"
      BY <3>3, <3>4 DEF GroupType, AllSame
    <3>6. QED
      BY <2>5, <3>5, GroupTypesMember
  <2>6. QED
    BY <2>4, <2>5
<1>3. QED
  BY <1>1, <1>2

LEMMA ClaimsHoldState == IndInv => ClaimsHold
<1> SUFFICES ASSUME IndInv PROVE ClaimsHold
  OBVIOUS
<1> DEFINE v == TheVerdict
           told == {f \in Families : Told(f)}
<1>1. v.type = ClassifyMapping(Results).type
  BY VerdictFields DEF TheVerdict
<1>2. GroupTypes(Results) \subseteq {"EIM", "ADM", "Unknown"}
  BY DEF GroupTypes, GroupType
<1>3. /\ "EIM" \in GroupTypes(Results) <=> \E f \in told : Independent(f)
      /\ "ADM" \in GroupTypes(Results) <=> \E f \in told : ~Independent(f)
  BY TypesAreTheNATs
<1>4. /\ v.type = "EIM" <=> GroupTypes(Results) \ {"Unknown"} = {"EIM"}
      /\ v.type = "ADM" <=> GroupTypes(Results) \ {"Unknown"} = {"ADM"}
  BY <1>1, TypeIsUnanimous
<1>5. /\ v.type = "EIM" <=> told # {} /\ \A f \in told : Independent(f)
      /\ v.type = "ADM" <=> told # {} /\ \A f \in told : ~Independent(f)
  BY <1>2, <1>3, <1>4
<1>6. /\ v.filtering = "endpoint-independent" => filter = "EIF"
      /\ v.filtering = "address-dependent" => filter # "APDF"
      /\ v.hairpinning = "true" => hairpins
      /\ v.forecast = "likely" => v.filtering = "endpoint-independent"
  BY VerdictFields, OutcomeTypes DEF TheVerdict
<1> HIDE DEF v, told
<1>7. QED
  BY <1>5, <1>6 DEF ClaimsHold, v, told

\* The report claims no more than the NATs do (Diagnosis.ClaimsHold; runWith).
THEOREM NATsAreAsClaimed == Spec => []ClaimsHold
  BY Inductive, ClaimsHoldState, PTL
=============================================================================
