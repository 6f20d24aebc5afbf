------------------------------- MODULE Report -------------------------------
(***************************************************************************)
(* internal/report: what each format tells of a verdict v, of the server   *)
(* filtering was tested against, and of the results.  A report is a record *)
(* of its facts, None where the line or field is left out; wording,        *)
(* layout, round-trip times and the order of warnings are not modelled.    *)
(***************************************************************************)
EXTENDS Classify

\* *bool: a JSON value that has a null next to its true and false.
Nullable(h) == IF h = "untested" THEN None ELSE h

\* One entry per server: the mapped endpoint, or an error, in either format.
ProbeEntries(rs) == [i \in DOMAIN rs |-> rs[i].mapped]

\* Mutant: a bool with omitempty, as the other optional fields have.
RenderJSONBug(v, against, rs) ==
    [direct_p2p |-> v.forecast, nat_type |-> v.type, public_endpoint |-> v.endpoint,
     probes |-> ProbeEntries(rs), warnings |-> v.warnings,
     behavior |-> v.filtering,
     tested_against |-> IF v.filtering # "untested" THEN against ELSE None,
     hairpinning |-> IF v.hairpinning = "true" THEN "true" ELSE None]

\* renderJSON: behavior is always there.
RenderJSON(v, against, rs) ==
    [direct_p2p |-> v.forecast, nat_type |-> v.type, public_endpoint |-> v.endpoint,
     probes |-> ProbeEntries(rs), warnings |-> v.warnings,
     behavior |-> v.filtering,
     tested_against |-> IF v.filtering # "untested" THEN against ELSE None,
     hairpinning |-> Nullable(v.hairpinning)]

\* renderHuman: an untested behavior has no line, its warning has.
RenderHuman(v, against, rs) ==
    [direct_p2p |-> v.forecast, nat_type |-> v.type, public_endpoint |-> v.endpoint,
     probes |-> ProbeEntries(rs), warnings |-> v.warnings,
     filtering |-> IF v.filtering # "untested" THEN <<v.filtering, against>> ELSE None,
     hairpinning |-> Nullable(v.hairpinning)]

\* Render
Render(v, against, rs, json) ==
    IF json THEN RenderJSON(v, against, rs) ELSE RenderHuman(v, against, rs)
=============================================================================
