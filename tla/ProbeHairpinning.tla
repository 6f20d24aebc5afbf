-------------------------- MODULE ProbeHairpinning --------------------------
(***************************************************************************)
(* What ProbeHairpinning promises its caller, with no socket, nonce or     *)
(* clock: one tri-state result, and "true" only where a packet to the      *)
(* host's own mapped endpoint comes back.                                  *)
(***************************************************************************)
CONSTANT None

VARIABLES
    hairpins,   \* external: the NAT sends it back, and its filter lets it in
    result      \* what the call returned, or None

vars == <<hairpins, result>>

\* res.Detected: nil, &false, &true.  A lost nonce reads as "false".
Outcomes(h) == {"untested", "false"} \cup (IF h THEN {"true"} ELSE {})

Init == hairpins \in BOOLEAN /\ result = None

Return ==
    /\ result = None
    /\ result' \in Outcomes(hairpins)
    /\ UNCHANGED hairpins

Spec == Init /\ [][Return]_vars
=============================================================================
