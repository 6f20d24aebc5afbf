------------------------------ MODULE Diagnosis ------------------------------
(***************************************************************************)
(* One run of the command: runWith of internal/cli/cli.go, from the flags  *)
(* to the exit code.  The three probes are the contracts ProbeAll,         *)
(* ProbeFiltering and ProbeHairpinning, on variables of this module; the   *)
(* verdict is Classify, the output Report.  The NATs are there, one per    *)
(* family, and the properties compare what is reported with them.          *)
(***************************************************************************)
EXTENDS Report

CONSTANTS
    Servers,        \* --server, in order: numbers
    Families,
    Addrs,          \* the endpoints of servers, each an IP and a port
    Family, IP,     \* of each of them
    Reach,          \* Reach[s]: those that the name of s may resolve to
    Advertise,      \* the servers whose answers have OTHER-ADDRESS
    Conns,          \* local sockets
    Pools,          \* which public addresses a NAT may have
    NATs,           \* per family: what the NAT does, see NATKinds
    See(_, _, _)    \* See(kind, c, a): the endpoint that a NAT of that kind shows a

ASSUME ServersAssumption ==
    /\ Servers \in SUBSET Nat /\ IsFiniteSet(Servers) /\ Servers # {}
    /\ Advertise \subseteq Servers
ASSUME AddressAssumption ==
    /\ Family \in [Addrs -> Families]
    /\ IP \in [Addrs -> TargetIPs]
    /\ \A a, b \in Addrs : IP[a] = IP[b] => Family[a] = Family[b]
    /\ Reach \in [Servers -> SUBSET Addrs]

\* A mapping is independent of the peer, or depends on its address, or on its port too
\* (RFC 4787); a carrier's NAT may have addresses of the shared space.
NATKinds == [maps : {"independent", "address", "addressAndPort"}, pool : Pools]
ASSUME NATAssumption == NATs \subseteq [Families -> NATKinds]

\* Whether a NAT shows two endpoints of servers the same mapping of a socket.
SameMapping(kind, a, b) ==
    \/ kind.maps = "independent"
    \/ kind.maps = "address" /\ IP[a] = IP[b]
    \/ a = b

\* NATs keep the family, and a mapping is the socket's own for as much of the peer as
\* it depends on.
ASSUME SeeAssumption ==
    \A n \in NATs, c, d \in Conns, a, b \in Addrs :
        LET x == See(n[Family[a]], c, a)
            y == See(n[Family[b]], d, b)
        IN  /\ x \in Endpoints
            /\ (x \in IPv4 <=> y \in IPv4) <=> Family[a] = Family[b]
            /\ c = d /\ Family[a] = Family[b] =>
                   (x = y <=> SameMapping(n[Family[a]], a, b))

\* The marker is nothing else.
ASSUME MarkerAssumption ==
    /\ None \notin Conns \cup {"failed"} /\ None \notin Servers /\ None \notin Addrs
    /\ None \notin HairpinningResult /\ None \notin Behaviors \X Servers

VARIABLES
    nat,        \* external
    args,       \* what the flags say
    phase,      \* where runWith is
    endpoint, result, returned,     \* of ProbeAll
    against,    \* the server ProbeFiltering was called for, or None
    filter, filtering,              \* of ProbeFiltering; filter is None before the call
    hairpins, hairpin,              \* of ProbeHairpinning, likewise
    output,     \* what Render wrote: <<>> or <<report>>
    exit        \* the exit code, or None

probing == <<endpoint, result, returned>>
filtered == <<against, filter, filtering>>
hairpinned == <<hairpins, hairpin>>
ended == <<output, exit>>
vars == <<nat, args, phase, probing, filtered, hairpinned, ended>>

\* Which error a probe met is only worded.
Probes == INSTANCE ProbeAll WITH
    Mapping <- LAMBDA c, a : <<c, a>>,
    NotSent <- {"notSent"},
    Unanswered <- {"unanswered"}
Filters == INSTANCE ProbeFiltering WITH result <- filtering
Hairpins == INSTANCE ProbeHairpinning WITH result <- hairpin

\* What flag.Parse makes of the arguments, the sign of --timeout, and --version.
Args == [parse : {"ok", "help", "error"}, positive : BOOLEAN, version : BOOLEAN]

Init ==
    /\ nat \in NATs
    /\ args \in Args
    /\ phase = "parse"
    /\ Probes!Init
    /\ against = None /\ filter = None /\ filtering = None
    /\ hairpins = None /\ hairpin = None
    /\ output = <<>> /\ exit = None

-----------------------------------------------------------------------------
(* What the probes hand to Classify *)

\* The endpoint that server s reported: the socket and the target, as the NAT of the
\* target's family maps them.
Mapped(s) ==
    IF result[s].kind # "ok" THEN None
    ELSE LET c == result[s].mapped[1]
             a == result[s].mapped[2]
         IN  See(nat[Family[a]], c, a)

\* r.Target.Addr(): entries that differ in the port only have one target IP.
TargetIP(s) == IF result[s].target = None THEN None ELSE IP[result[s].target]

Results == [s \in Servers |-> [mapped |-> Mapped(s), target |-> TargetIP(s)]]

\* No *FilteringResult where no server could be asked.
FilteringOutcome ==
    IF filtering = None THEN [err |-> "nil", t2 |-> FALSE, t3 |-> FALSE] ELSE filtering

\* Nor a *HairpinningResult where none was received.
HairpinOutcome == IF hairpin = None THEN "untested" ELSE hairpin

TheVerdict == Verdict(Results, FilteringOutcome, HairpinOutcome)

\* Servers with an answer that had OTHER-ADDRESS.
Candidates == {s \in Advertise : result[s].kind = "ok"}

-----------------------------------------------------------------------------
(* parseFlags *)

Ends(code) == phase' = "done" /\ exit' = code

\* --timeout is checked before --version is looked at.
BadUsage ==
    /\ phase = "parse"
    /\ args.parse = "error" \/ (args.parse = "ok" /\ ~args.positive)
    /\ Ends(2)
    /\ UNCHANGED <<nat, args, probing, filtered, hairpinned, output>>

HelpOrVersion ==
    /\ phase = "parse"
    /\ args.parse = "help" \/ (args.parse = "ok" /\ args.positive /\ args.version)
    /\ Ends(0)
    /\ UNCHANGED <<nat, args, probing, filtered, hairpinned, output>>

-----------------------------------------------------------------------------
(* runWith *)

\* The hairpin probe starts, in a goroutine, and ProbeAll.
Launch ==
    /\ phase = "parse"
    /\ args.parse = "ok" /\ args.positive /\ ~args.version
    /\ hairpins' \in BOOLEAN
    /\ phase' = "mapping"
    /\ UNCHANGED <<nat, args, probing, filtered, hairpin, ended>>

Probe ==
    /\ phase = "mapping"
    /\ Probes!BindOrReport
    /\ UNCHANGED <<nat, args, phase, filtered, hairpinned, ended>>

ProbeAllReturns ==
    /\ phase = "mapping"
    /\ Probes!Return
    /\ phase' = "choose"
    /\ UNCHANGED <<nat, args, endpoint, result, filtered, hairpinned, ended>>

NoFiltering ==
    /\ phase = "choose" /\ Candidates = {}
    /\ phase' = "collect"
    /\ UNCHANGED <<nat, args, probing, filtered, hairpinned, ended>>

\* Of the first candidate; its name is resolved again, and what the NAT before the
\* address that comes first lets in is not known to be what it is elsewhere.
StartFiltering ==
    /\ phase = "choose" /\ Candidates # {}
    /\ against' = First(Candidates)
    /\ filter' \in Filters!Filters
    /\ phase' = "filtering"
    /\ UNCHANGED <<nat, args, probing, filtering, hairpinned, ended>>

FilteringReturns ==
    /\ phase = "filtering"
    /\ Filters!Return
    /\ phase' = "collect"
    /\ UNCHANGED <<nat, args, probing, against, hairpinned, ended>>

HairpinReturns ==
    /\ hairpins # None
    /\ Hairpins!Return
    /\ UNCHANGED <<nat, args, phase, probing, filtered, ended>>

\* Mutant: a hairpin probe that has not finished is not waited for.
CollectBug ==
    /\ phase = "collect"
    /\ phase' = "render"
    /\ UNCHANGED <<nat, args, probing, filtered, hairpinned, ended>>

\* Mutant: the result of a filtering probe is waited for that never started.
CollectBothBug ==
    /\ phase = "collect" /\ hairpin # None /\ filtering # None
    /\ phase' = "render"
    /\ UNCHANGED <<nat, args, probing, filtered, hairpinned, ended>>

\* The result of the hairpin probe is received from its channel.
Collect ==
    /\ phase = "collect" /\ hairpin # None
    /\ phase' = "render"
    /\ UNCHANGED <<nat, args, probing, filtered, hairpinned, ended>>

\* Mutant: the exit code does not tell that there is no report.
RenderFailsBug ==
    /\ phase = "render"
    /\ Ends(ExitCode(TheVerdict))
    /\ UNCHANGED <<nat, args, probing, filtered, hairpinned, output>>

\* The writer fails.
RenderFails ==
    /\ phase = "render"
    /\ Ends(2)
    /\ UNCHANGED <<nat, args, probing, filtered, hairpinned, output>>

\* With --json or without.
Rendered ==
    /\ phase = "render"
    /\ \E json \in BOOLEAN : output' = <<Render(TheVerdict, against, Results, json)>>
    /\ Ends(ExitCode(TheVerdict))
    /\ UNCHANGED <<nat, args, probing, filtered, hairpinned>>

-----------------------------------------------------------------------------

Main ==
    \/ BadUsage \/ HelpOrVersion \/ Launch \/ NoFiltering \/ StartFiltering
    \/ Collect \/ RenderFails \/ Rendered

Next ==
    Main \/ Probe \/ ProbeAllReturns \/ FilteringReturns \/ HairpinReturns

Spec == Init /\ [][Next]_vars

\* Main runs, and the probes return: MappingRun, Filtering and Hairpin show that
\* each of them does.
FairSpec ==
    /\ Spec
    /\ WF_vars(Main) /\ WF_vars(FilteringReturns) /\ WF_vars(HairpinReturns)
    /\ \A s \in Servers : WF_vars(Probe /\ Probes!Report(s))
    /\ WF_vars(ProbeAllReturns)

-----------------------------------------------------------------------------
(* Properties *)

\* The servers of one family that answered.
Measured(f) == {s \in Servers : result[s].kind = "ok" /\ Family[result[s].target] = f}

\* They tell the family's mapping: by two IPs, which show a NAT of any kind for what it
\* is, or by two ports of one IP, which show only a NAT that looks at the port.
Told(f) ==
    \E s, t \in Measured(f) :
        LET a == result[s].target
            b == result[t].target
        IN  IP[a] # IP[b] \/ ~SameMapping(nat[f], a, b)

Independent(f) == nat[f].maps = "independent"

\* Exit code 0 of a measurement says what the NATs are, no more and no less, whatever
\* failed on the way: one family at least was measured enough to tell, in every such
\* family the NAT maps independently of the peer, and no server saw a shared address
\* (runWith, exitCode).
PassMeansIndependent ==
    output # <<>> =>
        (exit = 0 <=> /\ \E f \in Families : Told(f)
                      /\ \A f \in Families : Told(f) => Independent(f)
                      /\ \A s \in Servers : Mapped(s) \notin SharedSpace)

\* No claim of the report is more than the NATs that the probes met do, and its type is
\* theirs: EIM or ADM exactly if every family measured enough to tell is that (runWith
\* as a whole: what Classify makes of results that may be late, lost or refused).
ClaimsHold ==
    output # <<>> =>
        LET v == TheVerdict
            told == {f \in Families : Told(f)}
        IN
        /\ v.type = "EIM" <=> told # {} /\ \A f \in told : Independent(f)
        /\ v.type = "ADM" <=> told # {} /\ \A f \in told : ~Independent(f)
        /\ v.filtering = "endpoint-independent" => filter = "EIF"
        /\ v.filtering = "address-dependent" => filter # "APDF"
        /\ v.forecast = "likely" => filter = "EIF"
        /\ v.hairpinning = "true" => hairpins

\* A script that reads the exit code and one that reads the report agree, and no
\* report means exit code 2, or that none was asked for (runWith, exitCode;
\* examples/ci-guard.sh reads both).
ExitMatchesReport ==
    phase = "done" =>
        /\ output # <<>> =>
            /\ exit = 2 <=> output[1].nat_type = "Blocked"
            /\ exit = 0 => output[1].direct_p2p \in {"likely", "possible"}
            /\ exit = 1 => output[1].direct_p2p \in {"unlikely", "unknown"}
        /\ output = <<>> => exit = 2 \/ args.parse = "help" \/ args.version

\* Both formats tell the same facts, and the facts go together: a tested behavior
\* with its server, a hairpinning of null with its warning (renderJSON, renderHuman;
\* docs/design.md, "JSON schema delta").
FormatsAgree ==
    output # <<>> =>
        LET j == Render(TheVerdict, against, Results, TRUE)
            h == Render(TheVerdict, against, Results, FALSE)
        IN  /\ \A fact \in {"direct_p2p", "nat_type", "public_endpoint", "probes",
                            "warnings", "hairpinning"} : j[fact] = h[fact]
            /\ j.behavior = "untested" <=> h.filtering = None
            /\ h.filtering # None => h.filtering = <<j.behavior, j.tested_against>>
            /\ j.tested_against = None <=> j.behavior = "untested"
            /\ j.hairpinning = None <=> "hairpin_untested" \in j.warnings

\* When the command ends no probe it started is still running (hairpinCh, ProbeAll).
NothingLeftRunning ==
    phase = "done" /\ hairpins # None => hairpin # None /\ returned

\* The command ends (runWith).
Termination == <>(phase = "done")
=============================================================================
