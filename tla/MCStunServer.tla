---------------------------- MODULE MCStunServer ----------------------------
(***************************************************************************)
(* Peers of a responder: two UDP endpoints, one of them seen through a     *)
(* dual-stack socket, and a source that is no UDP endpoint.                *)
(***************************************************************************)
EXTENDS StunServer, TLC

CONSTANTS e4, m4, e6, other

MCSources == {e4, m4, e6}
MCUnmap == (e4 :> e4) @@ (m4 :> e4) @@ (e6 :> e6)

Packet(kind, tx, from) == [kind |-> kind, tx |-> tx, from |-> from]

MCPackets ==
    { Packet("request", 1, m4), Packet("request", 2, e6), Packet("request", 3, None),
      Packet("other", 1, e6), Packet("garbage", 0, e4) }
=============================================================================
