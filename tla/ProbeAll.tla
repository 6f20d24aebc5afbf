------------------------------ MODULE ProbeAll ------------------------------
(***************************************************************************)
(* What ProbeAll promises its caller, with no goroutine, lock or packet:   *)
(* one local endpoint per family for the whole call, one result per        *)
(* server, and a return once every server has its own.                     *)
(***************************************************************************)
CONSTANTS
    Servers, Families, Addrs, Family, Conns, Mapping(_, _), None,
    Reach,          \* Reach[s]: the addresses the name of s may resolve to
    NotSent,        \* the error kinds of a probe that never sent,
    Unanswered      \* and those of one that did

VARIABLES
    endpoint,       \* per family: the local socket, "failed", or None so far
    result,         \* results[i]
    returned        \* ProbeAll has returned

vars == <<endpoint, result, returned>>

NoResult == [kind |-> "none", target |-> None, mapped |-> None]

\* A target is reported exactly when a request left for it, and a success is the
\* mapping of the family's one endpoint.
Outcomes(s) ==
    LET bound == {a \in Reach[s] : endpoint[Family[a]] \in Conns} IN
    [kind : NotSent, target : {None}, mapped : {None}]
    \cup [kind : Unanswered, target : bound, mapped : {None}]
    \cup {[kind |-> "ok", target |-> a, mapped |-> Mapping(endpoint[Family[a]], a)]
            : a \in bound}

Init ==
    /\ endpoint = [f \in Families |-> None]
    /\ result = [s \in Servers |-> NoResult]
    /\ returned = FALSE

\* The first probe that needs a family decides its endpoint for all.
Bind(f) ==
    /\ endpoint[f] = None
    /\ \E c \in Conns \cup {"failed"} : endpoint' = [endpoint EXCEPT ![f] = c]

Report(s) ==
    /\ result[s] = NoResult
    /\ \E r \in Outcomes(s) : result' = [result EXCEPT ![s] = r]

Return ==
    /\ ~returned
    /\ \A s \in Servers : result[s] # NoResult
    /\ returned' = TRUE

\* One step may do both: the bind that fails can be what ends a probe.
BindOrReport ==
    /\ UNCHANGED returned
    /\ UNCHANGED endpoint \/ \E f \in Families : Bind(f)
    /\ UNCHANGED result \/ \E s \in Servers : Report(s)

Next == BindOrReport \/ (Return /\ UNCHANGED <<endpoint, result>>)

Spec == Init /\ [][Next]_vars
=============================================================================
