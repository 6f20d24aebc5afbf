-------------------------- MODULE StunServerProofs --------------------------
(***************************************************************************)
(* Proofs about StunServer, for every set of peers and packets.            *)
(***************************************************************************)
EXTENDS StunServer, TLAPS

\* What is read has arrived, and what was written answers what has arrived.
Answering == inbox \subseteq arrived /\ arrived \subseteq Packets /\ AnswersRequests

LEMMA AnsweringInit == Init => Answering
  BY DEF Init, Answering, AnswersRequests

LEMMA HandleAnswers ==
  ASSUME NEW p \in Packets, NEW r \in Handle(p)
  PROVE  p.kind = "request" /\ p.from = r.to /\ p.tx = r.tx /\ r.mapped = Unmap[p.from]
<1>1. CASE p.kind = "request"
  <2>1. r = [to |-> p.from, tx |-> p.tx, mapped |-> Unmap[p.from], other |-> Other]
    BY <1>1 DEF Handle
  <2>2. QED
    BY <1>1, <2>1
<1>2. QED
  BY <1>1 DEF Handle

LEMMA AnsweringNext == Answering /\ [Next]_vars => Answering'
<1> SUFFICES ASSUME Answering, [Next]_vars PROVE Answering'
  OBVIOUS
<1>1. ASSUME NEW p \in Packets, ServePacket(p) PROVE Answering'
  <2>1. p \in arrived /\ inbox' \subseteq arrived /\ UNCHANGED arrived
    BY <1>1 DEF ServePacket, Answering
  <2>2. replies' \subseteq replies \cup Handle(p)
    BY <1>1 DEF ServePacket
  <2>3. QED
    BY <2>1, <2>2, HandleAnswers DEF Answering, AnswersRequests
<1>2. ASSUME NEW p \in Packets, Arrive(p) PROVE Answering'
  BY <1>2 DEF Arrive, Answering, AnswersRequests
<1>3. CASE ReadFails \/ After \/ Bridge
  BY <1>3
     DEF ReadFails, After, Continue, Return, Bridge, BridgeFires, BridgeEnds, Answering,
         AnswersRequests
<1>4. CASE Cancel \/ CloseSocket
  BY <1>4 DEF Cancel, CloseSocket, Answering, AnswersRequests
<1>5. CASE UNCHANGED vars
  BY <1>5 DEF vars, Answering, AnswersRequests
<1>6. QED
  BY <1>1, <1>2, <1>3, <1>4, <1>5 DEF Next

\* Nothing but a request is answered, whoever sends what (StunServer.AnswersRequests).
THEOREM AnswersHold == FairSpec => []AnswersRequests
<1>1. Answering => AnswersRequests
  BY DEF Answering
<1>2. QED
  BY <1>1, AnsweringInit, AnsweringNext, PTL DEF FairSpec

-----------------------------------------------------------------------------

\* The loop is alive and its socket readable: the deadline is not in the past.
Serving == pc # "returned" /\ ~past /\ bridge = "waiting"

\* The part of KeepsServing and Stops that needs no fairness.
ServesUntilTold == Serving \/ ctxDone \/ ~open

\* Nobody but the end of ctx moves the deadline, and what has ended stays so.
Alive == (past => ctxDone) /\ ServesUntilTold

LEMMA AliveNext == Alive /\ [Next]_vars => Alive'
<1> SUFFICES ASSUME Alive, [Next]_vars PROVE Alive'
  OBVIOUS
<1>1. CASE ReadFails \/ \E p \in Packets : ServePacket(p) \/ Arrive(p)
  <2>1. /\ pc' = pc \/ pc' = "failed"
        /\ UNCHANGED <<ctxDone, open, past, bridge>>
    BY <1>1 DEF ReadFails, ServePacket, Arrive
  <2>2. QED
    BY <2>1 DEF Alive, ServesUntilTold, Serving
<1>2. CASE Continue
  BY <1>2 DEF Continue, Alive, ServesUntilTold, Serving
<1>3. CASE Return
  BY <1>3 DEF Return, Returns, Alive, ServesUntilTold
<1>4. CASE BridgeFires
  BY <1>4 DEF BridgeFires, Alive, ServesUntilTold
<1>5. CASE BridgeEnds
  <2>1. pc = "returned" /\ UNCHANGED <<ctxDone, open, past>>
    BY <1>5 DEF BridgeEnds
  <2>2. ctxDone \/ ~open
    BY <2>1 DEF Alive, ServesUntilTold, Serving
  <2>3. QED
    BY <2>1, <2>2 DEF Alive, ServesUntilTold
<1>6. CASE Cancel \/ CloseSocket \/ UNCHANGED vars
  BY <1>6 DEF Cancel, CloseSocket, vars, Alive, ServesUntilTold, Serving
<1>7. QED
  BY <1>1, <1>2, <1>3, <1>4, <1>5, <1>6 DEF Next, After, Bridge

\* Whatever arrives and however reads fail, the loop runs, with its goroutine and a
\* deadline that lets it read, until ctx is done or the socket closed (Serve).
THEOREM ServesUntilToldHolds == FairSpec => []ServesUntilTold
<1>1. Init => Alive
  BY DEF Init, Alive, ServesUntilTold, Serving
<1>2. Alive => ServesUntilTold
  BY DEF Alive
<1>3. QED
  BY <1>1, <1>2, AliveNext, PTL DEF FairSpec
=============================================================================
