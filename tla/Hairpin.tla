------------------------------- MODULE Hairpin -------------------------------
(***************************************************************************)
(* One ProbeHairpinning call of internal/probe/hairpin.go: two sockets,    *)
(* each with a goroutine that learns its mapped endpoint, a nonce from A   *)
(* to B's, a goroutine that bridges the end of ctx to the sockets'         *)
(* deadlines, and a wait for the nonce on B.                               *)
(*                                                                         *)
(* Any call on a socket may fail at any moment, which covers every write   *)
(* deadline; the read deadlines are modelled.  Time is a count-down.       *)
(***************************************************************************)
EXTENDS Integers

CONSTANTS
    Timeout,        \* the timeout argument
    Cap,            \* 500ms in the code
    CtxTimes,       \* the times ctx may have left at the call
    Never,          \* a ctx without a deadline
    None            \* no result

Sockets == {"A", "B"}

ASSUME TimeAssumption ==
    /\ Timeout \in Nat \ {0} /\ Cap \in Nat \ {0}
    /\ CtxTimes \subseteq Nat \cup {Never} /\ Never \notin Nat
ASSUME NoneAssumption == None \notin {"untested", "false", "true"}

VARIABLES
    hairpins,   \* external: a packet from A to B's mapped endpoint can reach B
    pc,         \* where probeHairpinning is
    job,        \* job[c]: where sendBindingAndWait on socket c is, or its outcome
    end,        \* end[c]: time left of it, and for B of realHairpinRecv after it
    cut,        \* cut[c]: the read deadline of c is the bridge's, in the past
    bridge,     \* where the goroutine that waits for ctx is
    ctxLeft,    \* time to the deadline of ctx
    ctxDone,    \* ctx is done: expired or cancelled
    wire,       \* wire[c]: what became of c's request and its answer
    tag,        \* what became of the nonce
    broke,      \* a read failed, not for its deadline, while listening
    spent,      \* time since the sockets were bound
    listened,   \* time since the nonce was sent
    result      \* what was returned, or None

vars == <<hairpins, pc, job, end, cut, bridge, ctxLeft, ctxDone, wire, tag, broke,
          spent, listened, result>>

clock == <<ctxLeft, ctxDone, spent, listened>>

Half == Timeout \div 2

\* perProbe
PerProbe == IF Half = 0 \/ Half > Cap THEN Cap ELSE Half

\* spent saturates beyond every bound stated of it.
MaxSpent == Timeout + PerProbe + 1

Init ==
    /\ hairpins \in BOOLEAN
    /\ pc = "start"
    /\ job = [c \in Sockets |-> "idle"]
    /\ end = [c \in Sockets |-> 0]
    /\ cut = [c \in Sockets |-> FALSE]
    /\ bridge = "off"
    /\ ctxLeft \in CtxTimes /\ ctxDone = FALSE
    /\ wire = [c \in Sockets |-> "unsent"]
    /\ tag = "unsent"
    /\ broke = FALSE
    /\ spent = 0 /\ listened = 0
    /\ result = None

\* Mutant: a return that leaves the result unset.
DoneBug(r) == pc' = "done" /\ UNCHANGED result

Done(r) == pc' = "done" /\ result' = r

-----------------------------------------------------------------------------
(* sendBindingAndWait, in the goroutine of socket c *)

Active(c) == job[c] \in {"send", "loop", "read"}

JobGoes(c, to) ==
    /\ job' = [job EXCEPT ![c] = to]
    /\ UNCHANGED <<hairpins, pc, bridge, tag, broke, result, clock>>

JobSend(c) ==
    /\ job[c] = "send"
    /\ end' = [end EXCEPT ![c] = PerProbe]
    /\ wire' = [wire EXCEPT ![c] = "sent"]
    /\ JobGoes(c, "loop")
    /\ UNCHANGED cut

\* SetReadDeadline(end), whatever the bridge has set.
JobListen(c) ==
    /\ job[c] = "loop" /\ end[c] > 0
    /\ cut' = [cut EXCEPT ![c] = FALSE]
    /\ JobGoes(c, "read")
    /\ UNCHANGED <<end, wire>>

Answered(c) ==
    /\ job[c] = "read" /\ wire[c] = "arrived"
    /\ JobGoes(c, "ok")
    /\ UNCHANGED <<end, cut, wire>>

\* A packet with another transaction, or none.
Discard(c) ==
    /\ job[c] = "read"
    /\ JobGoes(c, "loop")
    /\ UNCHANGED <<end, cut, wire>>

TimedOut(c) == end[c] = 0 \/ cut[c]

JobTimeout(c) ==
    /\ \/ job[c] = "loop" /\ end[c] = 0
       \/ job[c] = "read" /\ TimedOut(c)
    /\ JobGoes(c, "failed")
    /\ UNCHANGED <<end, cut, wire>>

\* Any call on the socket fails, or the answer is an error.
JobFails(c) ==
    /\ Active(c)
    /\ JobGoes(c, "failed")
    /\ UNCHANGED <<end, cut, wire>>

-----------------------------------------------------------------------------
(* probeHairpinning *)

\* An invalid server, a name that does not resolve, a socket that does not bind.
CannotStart ==
    /\ pc = "start"
    /\ Done("untested")
    /\ UNCHANGED <<hairpins, job, end, cut, bridge, wire, tag, broke, clock>>

Start ==
    /\ pc = "start"
    /\ pc' = "probe"
    /\ bridge' = "waiting"
    /\ job' = [c \in Sockets |-> "send"]
    /\ UNCHANGED <<hairpins, end, cut, wire, tag, broke, result, clock>>

\* Mutant: a failure on A is returned before B is heard of.
CollectedBug == job["A"] = "failed" \/ \A c \in Sockets : ~Active(c)

\* Both channels have been received from.
Collected == \A c \in Sockets : ~Active(c)

Collect ==
    /\ pc = "probe" /\ Collected
    /\ IF \A c \in Sockets : job[c] = "ok"
       THEN pc' = "send" /\ UNCHANGED result
       ELSE Done("untested")
    /\ UNCHANGED <<hairpins, job, end, cut, bridge, wire, tag, broke, clock>>

\* The nonce cannot be drawn or sent.
SendFails ==
    /\ pc = "send"
    /\ Done("untested")
    /\ UNCHANGED <<hairpins, job, end, cut, bridge, wire, tag, broke, clock>>

\* realHairpinRecv listens no longer than ctx lasts.
Window ==
    IF ctxLeft = Never THEN Timeout
    ELSE IF ctxLeft < Timeout THEN ctxLeft ELSE Timeout

SendTag ==
    /\ pc = "send"
    /\ tag' = "sent"
    /\ end' = [end EXCEPT !["B"] = Window]
    /\ pc' = "loop"
    /\ UNCHANGED <<hairpins, job, cut, bridge, wire, broke, result, clock>>

\* Mutant: the window is counted from each packet.
ListenBug ==
    /\ pc = "loop" /\ end["B"] > 0
    /\ end' = [end EXCEPT !["B"] = Timeout]
    /\ pc' = "read"
    /\ UNCHANGED <<hairpins, job, cut, bridge, wire, tag, broke, result, clock>>

\* SetReadDeadline(end), whatever the bridge has set.
Listen ==
    /\ pc = "loop" /\ end["B"] > 0
    /\ cut' = [cut EXCEPT !["B"] = FALSE]
    /\ pc' = "read"
    /\ UNCHANGED <<hairpins, job, end, bridge, wire, tag, broke, result, clock>>

ListenFails ==
    /\ pc = "loop" /\ end["B"] > 0
    /\ Done("untested")
    /\ UNCHANGED <<hairpins, job, end, cut, bridge, wire, tag, broke, clock>>

Elapsed ==
    /\ \/ pc = "loop" /\ end["B"] = 0
       \/ pc = "read" /\ TimedOut("B")
    /\ Done("false")
    /\ UNCHANGED <<hairpins, job, end, cut, bridge, wire, tag, broke, clock>>

\* "treat as timeout, no hairpin"
ReadBreaks ==
    /\ pc = "read"
    /\ broke' = TRUE
    /\ Done("false")
    /\ UNCHANGED <<hairpins, job, end, cut, bridge, wire, tag, clock>>

\* Mutant: the first packet is taken for the nonce.
MatchesBug(p) == TRUE

\* A packet on B: the nonce, or another one, such as a repeated STUN answer.
Matches(p) == p = "tag"

\* Mutant: a packet that is not the nonce ends the wait.
ReadPacketBug(p) ==
    /\ pc = "read"
    /\ p = "tag" => tag = "arrived"
    /\ Done(IF Matches(p) THEN "true" ELSE "false")
    /\ UNCHANGED <<hairpins, job, end, cut, bridge, wire, tag, broke, clock>>

ReadPacket(p) ==
    /\ pc = "read"
    /\ p = "tag" => tag = "arrived"
    /\ IF Matches(p) THEN Done("true") ELSE pc' = "loop" /\ UNCHANGED result
    /\ UNCHANGED <<hairpins, job, end, cut, bridge, wire, tag, broke, clock>>

-----------------------------------------------------------------------------
(* The bridge: SetDeadline in the past on A, then on B *)

BridgeGoes(to) ==
    /\ bridge' = to
    /\ UNCHANGED <<hairpins, pc, job, end, wire, tag, broke, result, clock>>

CutA ==
    /\ bridge = "waiting" /\ ctxDone
    /\ cut' = [cut EXCEPT !["A"] = TRUE]
    /\ BridgeGoes("half")

CutB ==
    /\ bridge = "half"
    /\ cut' = [cut EXCEPT !["B"] = TRUE]
    /\ BridgeGoes("exited")

\* Mutant: done is never closed.
BridgeEndsBug == FALSE

\* done is closed when the call returns.
BridgeEnds ==
    /\ bridge = "waiting" /\ pc = "done"
    /\ UNCHANGED cut
    /\ BridgeGoes("exited")

-----------------------------------------------------------------------------
(* External: the network, the NAT, the caller, the clock *)

Transmit(newWire, newTag) ==
    /\ wire' = newWire /\ tag' = newTag
    /\ UNCHANGED <<hairpins, pc, job, end, cut, bridge, broke, result, clock>>

Answer(c) == wire[c] = "sent" /\ Transmit([wire EXCEPT ![c] = "arrived"], tag)
Lose(c) == wire[c] = "sent" /\ Transmit([wire EXCEPT ![c] = "lost"], tag)
TagReturns == tag = "sent" /\ hairpins /\ Transmit(wire, "arrived")
LoseTag == tag = "sent" /\ Transmit(wire, "lost")

EndCtx ==
    /\ ~ctxDone /\ pc # "done"
    /\ ctxDone' = TRUE
    /\ UNCHANGED <<hairpins, pc, job, end, cut, bridge, ctxLeft, wire, tag, broke,
                   spent, listened, result>>

Cancel == EndCtx
Expire == ctxLeft = 0 /\ EndCtx

\* Nothing is due: no read deadline, no call to make, no news of ctx.
Waiting(c) == end[c] > 0 /\ ~cut[c]

NothingDue ==
    /\ \A c \in Sockets :
           /\ job[c] # "send"
           /\ job[c] = "loop" => end[c] > 0
           /\ job[c] = "read" => Waiting(c)
    /\ \/ pc = "probe" /\ \E c \in Sockets : Active(c)
       \/ pc = "loop" /\ end["B"] > 0
       \/ pc = "read" /\ Waiting("B")
    /\ ctxDone => bridge = "exited"
    /\ ctxLeft = 0 => ctxDone

Down(n) == IF n = 0 THEN 0 ELSE n - 1

Tick ==
    /\ NothingDue
    /\ end' = [c \in Sockets |-> Down(end[c])]
    /\ ctxLeft' = IF ctxLeft = Never THEN Never ELSE Down(ctxLeft)
    /\ spent' = IF spent < MaxSpent THEN spent + 1 ELSE spent
    /\ listened' = IF pc # "probe" /\ listened < MaxSpent THEN listened + 1 ELSE listened
    /\ UNCHANGED <<hairpins, pc, job, cut, bridge, ctxDone, wire, tag, broke, result>>

Terminated == pc = "done" /\ UNCHANGED vars

-----------------------------------------------------------------------------

\* Steps that wait for nothing.
Job(c) == JobSend(c) \/ JobListen(c) \/ JobTimeout(c)
Main == CannotStart \/ Start \/ Collect \/ SendTag \/ Listen \/ Elapsed
Bridge == CutA \/ CutB \/ BridgeEnds

Next ==
    \/ \E c \in Sockets :
           Job(c) \/ Answered(c) \/ Discard(c) \/ JobFails(c) \/ Answer(c) \/ Lose(c)
    \/ Main \/ SendFails \/ ListenFails \/ ReadBreaks
    \/ \E p \in {"tag", "other"} : ReadPacket(p)
    \/ Bridge \/ TagReturns \/ LoseTag \/ Cancel \/ Expire \/ Tick \/ Terminated

Spec == Init /\ [][Next]_vars

\* Each goroutine runs and time passes; nothing is assumed of server, NAT, network
\* or caller.
FairSpec ==
    /\ Spec
    /\ \A c \in Sockets : WF_vars(Job(c))
    /\ WF_vars(Main) /\ WF_vars(Bridge) /\ WF_vars(Expire) /\ WF_vars(Tick)

-----------------------------------------------------------------------------
(* Properties *)

\* Every variable keeps its type, and the call has a result exactly when it is done.
TypeOK ==
    /\ hairpins \in BOOLEAN
    /\ pc \in {"start", "probe", "send", "loop", "read", "done"}
    /\ job \in [Sockets -> {"idle", "send", "loop", "read", "ok", "failed"}]
    /\ end \in [Sockets -> Nat]
    /\ cut \in [Sockets -> BOOLEAN]
    /\ bridge \in {"off", "waiting", "half", "exited"}
    /\ ctxLeft \in Nat \cup {Never} /\ ctxDone \in BOOLEAN
    /\ wire \in [Sockets -> {"unsent", "sent", "arrived", "lost"}]
    /\ tag \in {"unsent", "sent", "arrived", "lost"}
    /\ broke \in BOOLEAN
    /\ spent \in 0 .. MaxSpent /\ listened \in 0 .. MaxSpent
    /\ result \in {None, "untested", "false", "true"}
    /\ pc = "done" <=> result # None

\* No other packet on B, in whatever order with the nonce, makes a hairpin: "true"
\* needs the nonce back, and either verdict a nonce sent to the endpoint that a
\* server reported for B (probeHairpinning, realHairpinRecv).
Witnessed ==
    /\ result = "true" => hairpins /\ tag = "arrived"
    /\ result \in {"true", "false"} =>
           tag # "unsent" /\ \A c \in Sockets : job[c] = "ok" /\ wire[c] = "arrived"

\* Packets that are not the nonce do not shorten the wait: "false" comes after all of
\* it, if no read fails and ctx has time (realHairpinRecv).
FullWindow ==
    result = "false" /\ ~broke /\ ~ctxDone /\ ctxLeft # 0 => listened = Timeout

\* When the call returns, and closes the sockets, no probe is still at one of them,
\* whichever failed first (aRes, bRes).
NoStragglers == pc = "done" => \A c \in Sockets : ~Active(c)

\* hairpin.go, line 45: "Total <= 1.5 x timeout in the worst case", however the flow
\* of packets and the end of ctx fall.
Bounded == 2 * spent <= 3 * Timeout

\* The call returns and its bridge exits, with ctx alive, expired or cancelled
\* at any point (done, "the goroutine exits cleanly").
Returns == <>(pc = "done" /\ bridge \in {"off", "exited"})

-----------------------------------------------------------------------------

Contract == INSTANCE ProbeHairpinning

\* The call keeps what ProbeHairpinning.tla promises: one result, in one step, and
\* none that the NAT of the path rules out (ProbeHairpinning).
KeepsContract == Contract!Spec

-----------------------------------------------------------------------------
(* What a comment or a test says and the code does not do. *)

Reading == pc = "read" \/ \E c \in Sockets : job[c] = "read"

\* hairpin.go, line 98, and the test of it: once ctx is done, reads do not block.
PromptAfterCancel == [][spent' > spent /\ Reading => ~ctxDone]_vars
=============================================================================
