----------------------------- MODULE MCClassify -----------------------------
(***************************************************************************)
(* Endpoints for ClassifyCases: one or two per family, one of them in the  *)
(* shared address space, and two server IPs.                               *)
(***************************************************************************)
EXTENDS ClassifyCases, TLC

CONSTANTS p4, c4, p6, q6, t1, t2

MCEndpoints == {p4, c4, p6, q6}
MCTargetIPs == {t1, t2}

\* The two IPv6 endpoints are alike, and so are the two server IPs.
Alike == Permutations({p6, q6}) \cup Permutations(MCTargetIPs)
=============================================================================
