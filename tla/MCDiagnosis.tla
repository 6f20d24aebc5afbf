----------------------------- MODULE MCDiagnosis -----------------------------
(***************************************************************************)
(* Four servers for Diagnosis: two of IPv6, one of them dual-stack, and    *)
(* two IPv4 entries that are two ports of one IP.                          *)
(***************************************************************************)
EXTENDS Diagnosis, TLC

CONSTANTS
    v4, v6,
    i4, j4, i6, j6,         \* IPs
    a4, x4, b4, a6, b6,     \* a4 and x4 are ports of i4
    k

MCServers == 1 .. 4
MCFamily == (a4 :> v4) @@ (x4 :> v4) @@ (b4 :> v4) @@ (a6 :> v6) @@ (b6 :> v6)
MCIP == (a4 :> i4) @@ (x4 :> i4) @@ (b4 :> j4) @@ (a6 :> i6) @@ (b6 :> j6)
MCReach == << {a6}, {b6, b4}, {a4}, {x4} >>

\* A mixed pool has a shared address for i4 only.
MCPools == {"public", "shared", "mixed"}

\* An endpoint: family, socket, what the NAT looks at of the target, and whether it is
\* of the shared space.
MCSee(n, c, a) ==
    << MCFamily[a], c,
       IF n.maps = "independent" THEN "any" ELSE IF n.maps = "address" THEN MCIP[a] ELSE a,
       n.pool = "shared" \/ (n.pool = "mixed" /\ MCIP[a] = i4) >>

MCEndpoints ==
    {v4, v6} \X {k} \X {"any", i4, j4, i6, j6, a4, x4, b4, a6, b6} \X BOOLEAN
MCIPv4 == {e \in MCEndpoints : e[1] = v4}
MCShared == {e \in MCIPv4 : e[4]}

\* Every pair of mappings; a carrier's NAT and a mixed pool are in IPv4, with an
\* independent mapping in IPv6.
MCNATs ==
    {n \in [{v4, v6} -> NATKinds] :
        /\ n[v6].pool = "public"
        /\ n[v4].pool # "public" => n[v6].maps = "independent"
        /\ n[v4].pool = "mixed" => n[v4].maps # "independent"}
=============================================================================
