---------------------------- MODULE MCFiltering -----------------------------
(***************************************************************************)
(* Servers and NATs for Filtering: a four-corner server, and the ways in   *)
(* which a server can fall short of one.                                   *)
(***************************************************************************)
EXTENDS Filtering

CONSTANTS
    i1, i2, i3,     \* the target's IP, the advertised other, one not advertised
    lo,             \* 127.0.0.1
    p1, p2          \* ports

MCEndpoints == {i1, i2, i3, lo} \X {p1, p2}

At(ip, port) == <<ip, port>>

\* The four corners: the diagonal is advertised, each change moves along one side.
FourCorner ==
    [target |-> At(i1, p1), other |-> At(i2, p2),
     source |-> [c \in Changes |-> At(IF c[1] THEN i2 ELSE i1, IF c[2] THEN p2 ELSE p1)],
     reply |-> [c \in Changes |-> "success"], filter |-> "EIF"]

Both == <<TRUE, TRUE>>
Port == <<FALSE, TRUE>>

\* Replies to CHANGE-IP come from an address nobody advertised.
Provider == [FourCorner EXCEPT !.source[Both] = At(i3, p2)]

NoOther == [FourCorner EXCEPT !.other = None]
Mute == [FourCorner EXCEPT !.reply[Both] = "nothing", !.reply[Port] = "nothing"]

\* CHANGE-REQUEST is ignored, by Test 3 only too, or half honored.
Ignores == [FourCorner EXCEPT !.source = [c \in Changes |-> At(i1, p1)]]
IgnoresThird == [FourCorner EXCEPT !.source[Port] = At(i1, p1)]
PortOnly == [FourCorner EXCEPT !.source[Both] = At(i1, p2)]

\* The IP changes where only the port was asked to.
ChangesBoth == [FourCorner EXCEPT !.source[Port] = At(i2, p2)]

\* An error reply, from the target or from the other corner.
Rejects == [Ignores EXCEPT !.reply[Both] = "error", !.reply[Port] = "error"]
RejectsAfar == [FourCorner EXCEPT !.reply[Both] = "error"]

\* One IP, two ports: the responders of the tests, with no NAT before them.
OnLoopback ==
    [FourCorner EXCEPT !.target = At(lo, p1), !.other = At(lo, p2),
        !.source = [c \in Changes |-> At(lo, IF TRUE \in {c[1], c[2]} THEN p2 ELSE p1)]]

MCPaths ==
    {OnLoopback} \cup
    {[s EXCEPT !.filter = f] : f \in Filters,
        s \in {FourCorner, Provider, NoOther, Mute, Ignores, IgnoresThird, PortOnly,
               ChangesBoth, Rejects, RejectsAfar}}

HonestPaths == {[FourCorner EXCEPT !.filter = f] : f \in Filters}
=============================================================================
