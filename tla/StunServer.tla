----------------------------- MODULE StunServer -----------------------------
(***************************************************************************)
(* internal/stunserver: Handle, the answer to one packet, and Serve, the   *)
(* loop over a socket with the goroutine that turns cancellation into a    *)
(* read deadline in the past.                                              *)
(***************************************************************************)
EXTENDS Naturals

CONSTANTS
    Packets,        \* what peers send: records of the fields below
    Unmap,          \* Unmap[s] is source s without its IPv4-in-IPv6 form
    Sources,        \* the endpoints packets come from
    Other,          \* opts.Other, or None
    None

\* A packet decodes to a Binding request, to another message, or not at all, and
\* comes from a UDP endpoint, or from None.
PacketRecords ==
    [kind : {"request", "other", "garbage"}, tx : Nat, from : Sources \cup {None}]

ASSUME PacketAssumption == Packets \subseteq PacketRecords
ASSUME UnmapAssumption == Unmap \in [Sources -> Sources] /\ None \notin Sources

VARIABLES
    pc,         \* where Serve is: "read", "failed" with a read error, "returned"
    inbox,      \* the packets in the socket
    arrived,    \* the packets that ever were
    replies,    \* what was written
    ctxDone,    \* ctx is cancelled
    open,       \* the socket is
    past,       \* its read deadline is in the past
    bridge      \* the goroutine of Serve: "waiting" or "exited"

vars == <<pc, inbox, arrived, replies, ctxDone, open, past, bridge>>

Init ==
    /\ pc = "read"
    /\ inbox = {} /\ arrived = {} /\ replies = {}
    /\ ctxDone = FALSE
    /\ open = TRUE
    /\ past = FALSE
    /\ bridge = "waiting"

\* Mutant: any message that decodes is answered.
HandleBug(p) ==
    IF p.kind # "garbage"
    THEN {[to |-> p.from, tx |-> p.tx, mapped |-> Unmap[p.from], other |-> Other]}
    ELSE {}

\* At most one reply: the source of a Binding request, back to itself.
Handle(p) ==
    IF p.kind = "request"
    THEN {[to |-> p.from, tx |-> p.tx, mapped |-> Unmap[p.from], other |-> Other]}
    ELSE {}

-----------------------------------------------------------------------------
(* Serve *)

\* A packet is answered, or not: WriteTo may fail.
ServePacket(p) ==
    /\ pc = "read" /\ p \in inbox /\ open /\ ~past
    /\ inbox' = inbox \ {p}
    /\ \/ p.from # None /\ replies' = replies \cup Handle(p)
       \/ UNCHANGED replies
    /\ UNCHANGED <<pc, arrived, ctxDone, open, past, bridge>>

ReadFails ==
    /\ pc = "read"
    /\ pc' = "failed"
    /\ UNCHANGED <<inbox, arrived, replies, ctxDone, open, past, bridge>>

\* Mutant: any read error ends the loop.
ReturnsAlwaysBug == TRUE

\* Mutant: only the end of the socket is looked for.
ReturnsBug == ~open

\* What a read error is taken for: the end of ctx or of the socket, or nothing.
Returns == ctxDone \/ ~open

Continue ==
    /\ pc = "failed" /\ ~Returns
    /\ pc' = "read"
    /\ UNCHANGED <<inbox, arrived, replies, ctxDone, open, past, bridge>>

Return ==
    /\ pc = "failed" /\ Returns
    /\ pc' = "returned"
    /\ UNCHANGED <<inbox, arrived, replies, ctxDone, open, past, bridge>>

BridgeFires ==
    /\ bridge = "waiting" /\ ctxDone
    /\ past' = TRUE
    /\ bridge' = "exited"
    /\ UNCHANGED <<pc, inbox, arrived, replies, ctxDone, open>>

\* done is closed when Serve returns.
BridgeEnds ==
    /\ bridge = "waiting" /\ pc = "returned"
    /\ bridge' = "exited"
    /\ UNCHANGED <<pc, inbox, arrived, replies, ctxDone, open, past>>

-----------------------------------------------------------------------------
(* External: peers, and whoever started Serve *)

Arrive(p) ==
    /\ p \notin arrived
    /\ arrived' = arrived \cup {p}
    /\ inbox' = inbox \cup {p}
    /\ UNCHANGED <<pc, replies, ctxDone, open, past, bridge>>

Cancel ==
    /\ ctxDone' = TRUE
    /\ UNCHANGED <<pc, inbox, arrived, replies, open, past, bridge>>

CloseSocket ==
    /\ open' = FALSE
    /\ UNCHANGED <<pc, inbox, arrived, replies, ctxDone, past, bridge>>

-----------------------------------------------------------------------------

\* The reads that return at once: a packet, or a socket that is done for.
Serve == (\E p \in Packets : ServePacket(p)) \/ (ReadFails /\ (past \/ ~open))
After == Continue \/ Return
Bridge == BridgeFires \/ BridgeEnds

Next ==
    \/ \E p \in Packets : ServePacket(p) \/ Arrive(p)
    \/ ReadFails \/ After \/ Bridge \/ Cancel \/ CloseSocket

\* Both goroutines run.  A read may also fail for no reason, any number of times, but
\* not so often that a packet which stays in the socket is never read.
FairSpec ==
    /\ Init /\ [][Next]_vars
    /\ SF_vars(Serve) /\ WF_vars(After) /\ WF_vars(Bridge)

-----------------------------------------------------------------------------
(* Properties *)

\* Two responders that reach each other do not answer each other's answers: every
\* reply goes to the source of a request with its transaction, and tells that source
\* (Handle).
AnswersRequests ==
    \A r \in replies : \E p \in arrived :
        p.kind = "request" /\ p.from = r.to /\ p.tx = r.tx /\ r.mapped = Unmap[p.from]

\* While nobody cancels or closes, no packet and no error ends the service: what
\* arrives is taken from the socket (Serve: "swallowed; the loop continues").
KeepsServing ==
    \A p \in Packets : p \in inbox ~> (p \notin inbox \/ ctxDone \/ ~open)

\* After cancellation or close, with a read in flight and however many packets still
\* come, Serve returns and leaves no goroutine behind (Serve, done).
Stops == (ctxDone \/ ~open) ~> (pc = "returned" /\ bridge = "exited")
=============================================================================
