---------------------------- MODULE MCMappingRun ----------------------------
(***************************************************************************)
(* Small hosts, names and networks for MappingRun.  Server s2 has an IPv6  *)
(* and an IPv4 address, in either order.                                   *)
(***************************************************************************)
EXTENDS MappingRun, TLC

CONSTANTS
    s1, s2, s3,     \* servers
    k1, k2,         \* local sockets
    a4, b4, b6      \* a4 of s1, b6 and b4 of s2

MCFamilies == {"udp4", "udp6"}
MCFamily == (a4 :> "udp4") @@ (b4 :> "udp4") @@ (b6 :> "udp6")
MCAddrs == {a4, b4, b6}
MCConns == {k1, k2}
Sockets == Permutations(MCConns)

\* An endpoint-dependent NAT keeps every mapping apart.
MCMapping(c, a) == <<c, a>>

OwnSource == [a \in MCAddrs |-> a]

\* Any host: each family bound or not, IPv6 routed or not.
AnyBinding == (SUBSET MCFamilies) \ {{}}
AnyRoute == {MCAddrs, {a4, b4}}

------------------------------- (* faults *) --------------------------------
\* Two probes, packets that are not theirs, error answers, failing resolution.
FaultServers == {s1, s2}
FaultResolutions == (s1 :> {<<a4>>}) @@ (s2 :> {<<>>, <<b6, b4>>, <<b4, b6>>})
FaultAnswers == (a4 :> {"success"}) @@ (b4 :> {"success", "error"}) @@ (b6 :> {"success"})

\* b4 answers s1's request, successfully or not, and a4 sends something that
\* does not decode.  What b4 claims is nobody's mapping: None.
FaultNoise ==
    { [src |-> b4, tx |-> <<s1, a4>>, kind |-> "success", mapped |-> None],
      [src |-> b4, tx |-> <<s1, a4>>, kind |-> "error", mapped |-> None],
      [src |-> a4, tx |-> <<s1, a4>>, kind |-> "garbage", mapped |-> None] }

-------------------------------- (* returns *) ------------------------------
\* A malformed entry, and two targets that differ only by IPv6 zone: their
\* replies carry the same source.
ReturnServers == {s1, s2, s3}
ReturnResolutions == (s1 :> {<<a4>>}) @@ (s2 :> {<<b6, b4>>}) @@ (s3 :> {<<>>})
ZoneSource == (a4 :> a4) @@ (b4 :> a4) @@ (b6 :> b6)
ReturnAnswers == (a4 :> {"success"}) @@ (b4 :> {"success"}) @@ (b6 :> {})
AllRoutes == {MCAddrs, {a4}}

--------------------------------- (* loss *) --------------------------------
\* The schedule of the code, one target that answers and one that never does.
LossServers == {s1, s2}
LossResolutions == (s1 :> {<<a4>>}) @@ (s2 :> {<<b4>>})
LossAnswers == (a4 :> {"success"}) @@ (b4 :> {}) @@ (b6 :> {})
BothBound == {MCFamilies}
Routed == {MCAddrs}
=============================================================================
