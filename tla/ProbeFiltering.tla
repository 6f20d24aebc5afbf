--------------------------- MODULE ProbeFiltering ---------------------------
(***************************************************************************)
(* What ProbeFiltering promises its caller, with no socket, packet or      *)
(* clock: one result, and none that makes the NAT look more open than it   *)
(* is.  It may look stricter: the absence of a packet is what it measures. *)
(***************************************************************************)
CONSTANT None

VARIABLES
    filter,     \* external: what the NAT on the path lets in
    result      \* what the call returned, or None

vars == <<filter, result>>

Filters == {"EIF", "ADF", "APDF"}

\* The results that no fault of server or network can turn into a claim of more.
Outcomes(f) ==
    [err : {"notSupported", "other"}, t2 : {FALSE}, t3 : {FALSE}]
    \cup [err : {"none"}, t2 : {FALSE} \cup {f = "EIF"}, t3 : {FALSE} \cup {f # "APDF"}]

Init == filter \in Filters /\ result = None

Return ==
    /\ result = None
    /\ result' \in Outcomes(filter)
    /\ UNCHANGED filter

Spec == Init /\ [][Return]_vars
=============================================================================
