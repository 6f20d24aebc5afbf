--------------------------- MODULE MappingRunProofs -------------------------
(***************************************************************************)
(* Proofs about MappingRun, for every set of servers, addresses and        *)
(* packets, every NAT, every resolver and every schedule.                  *)
(***************************************************************************)
EXTENDS MappingRun, TLAPS

-----------------------------------------------------------------------------
(* Type correctness *)

LEMMA TypeInit == Init => TypeOK
<1> SUFFICES ASSUME Init PROVE TypeOK
  OBVIOUS
<1>1. ProbeTypes
  BY GapsAssumption DEF Init, ProbeTypes, Sends
<1>2. ResultTypes
  BY DEF Init, ResultTypes, Results, NoResult
<1>3. RunTypes
  BY DEF Init, RunTypes
<1>4. TransactionTypes
  BY DEF Init, TransactionTypes
<1>5. ReaderTypes
  BY DEF Init, ReaderTypes
<1>6. QED
  BY <1>1, <1>2, <1>3, <1>4, <1>5 DEF TypeOK

\* A goroutine that ends keeps the types of what it wrote.
LEMMA ReportTypes ==
    ASSUME ProbeTypes, ResultTypes, NEW s \in Servers, NEW r \in Results,
           Report(s, r), UNCHANGED <<ips, next, conn, gap>>
    PROVE  ProbeTypes' /\ ResultTypes'
  BY DEF Report, ProbeTypes, ResultTypes

\* ... and so does one that goes on to the next address.
LEMMA NextAddrTypes ==
    ASSUME ProbeTypes, ResultTypes, NEW s \in Servers, NEW kind \in Failures,
           NextAddr(s, kind), pc[s] \notin {"start", "done"},
           UNCHANGED <<ips, conn, gap>>
    PROVE  ProbeTypes' /\ ResultTypes'
<1>1. Failure(kind) \in Results
  BY DEF Failure, Results
<1>2. CASE next[s] < Len(ips[s])
  <2>1. Len(ips[s]) \in Nat /\ next[s] \in Nat
    BY DEF ProbeTypes
  <2>2. next[s] + 1 \in 1 .. Len(ips[s])
    BY <1>2, <2>1
  <2>3. /\ next' = [next EXCEPT ![s] = next[s] + 1]
        /\ pc' = [pc EXCEPT ![s] = "socket"]
        /\ result' = result
    BY <1>2 DEF NextAddr
  <2>4. QED
    BY <2>1, <2>2, <2>3 DEF ProbeTypes, ResultTypes
<1>3. CASE ~(next[s] < Len(ips[s]))
  BY <1>1, <1>3, ReportTypes DEF NextAddr
<1>4. QED
  BY <1>2, <1>3

\* The current target is a resolved address.
LEMMA TargetType ==
    ASSUME ProbeTypes, NEW s \in Servers, pc[s] \notin {"start", "done"}
    PROVE  Target(s) \in Addrs /\ Transaction(s) \in Tx
  BY DEF ProbeTypes, Target, Transaction, Tx

LEMMA TypeNext == TypeOK /\ [Next]_vars => TypeOK'
<1> SUFFICES ASSUME TypeOK, [Next]_vars PROVE TypeOK'
  OBVIOUS
<1> USE DEF TypeOK, ProbeTypes, ResultTypes, RunTypes, TransactionTypes, ReaderTypes
<1>1. ASSUME NEW s \in Servers, RejectServer(s) PROVE TypeOK'
  BY <1>1 DEF RejectServer, Report, Failure, Failures, NotSent, Unanswered, Results,
             sockVars, readVars
<1>2. ASSUME NEW s \in Servers, ResolveFails(s) PROVE TypeOK'
  BY <1>2 DEF ResolveFails, Report, Failure, Failures, NotSent, Unanswered, Results,
             sockVars, readVars
<1>3. ASSUME NEW s \in Servers, Resolve(s) PROVE TypeOK'
  BY <1>3, ResolutionAssumption DEF Resolve, sockVars, readVars
<1>4. ASSUME NEW s \in Servers, UseSocket(s) PROVE TypeOK'
  BY <1>4 DEF UseSocket, sockVars, readVars
<1>5. ASSUME NEW s \in Servers, SocketFailed(s) PROVE TypeOK'
  <2>1. NextAddr(s, "listen") /\ pc[s] = "socket" /\ UNCHANGED <<ips, conn, gap>>
    BY <1>5 DEF SocketFailed
  <2>2. ProbeTypes' /\ ResultTypes'
    BY <2>1, NextAddrTypes DEF Failures, NotSent, Unanswered
  <2>3. RunTypes' /\ TransactionTypes' /\ ReaderTypes'
    BY <1>5 DEF SocketFailed, sockVars, readVars
  <2>4. QED
    BY <2>2, <2>3
<1>6. ASSUME NEW s \in Servers, ListenFails(s) PROVE TypeOK'
  <2>1. NextAddr(s, "listen") /\ pc[s] = "socket" /\ UNCHANGED <<ips, conn, gap>>
    BY <1>6 DEF ListenFails
  <2>2. ProbeTypes' /\ ResultTypes'
    BY <2>1, NextAddrTypes DEF Failures, NotSent, Unanswered
  <2>3. RunTypes' /\ TransactionTypes' /\ ReaderTypes'
    BY <1>6 DEF ListenFails, readVars
  <2>4. QED
    BY <2>2, <2>3
<1>7. ASSUME NEW s \in Servers, Listen(s) PROVE TypeOK'
  <2> HIDE DEF TypeOK, ProbeTypes, ResultTypes, RunTypes, TransactionTypes, ReaderTypes
  <2>1. PICK c \in Conns : conn' = [conn EXCEPT ![s] = c]
    BY <1>7 DEF Listen
  <2>2. /\ pc[s] = "socket"
        /\ pc' = [pc EXCEPT ![s] = "insert"]
        /\ UNCHANGED <<ips, next, gap, result>>
    BY <1>7 DEF Listen
  <2>3. ProbeTypes' /\ ResultTypes'
    BY <2>1, <2>2 DEF TypeOK, ProbeTypes, ResultTypes
  <2>4. RunTypes'
    BY <1>7 DEF Listen, TypeOK, RunTypes
  <2>5. TransactionTypes' /\ ReaderTypes'
    BY <1>7 DEF Listen, TypeOK, TransactionTypes, ReaderTypes
  <2>6. QED
    BY <2>3, <2>4, <2>5 DEF TypeOK
<1>8. ASSUME NEW s \in Servers, InsertPending(s) PROVE TypeOK'
  BY <1>8 DEF InsertPending, Transaction, Target, Tx, sockVars, readVars
<1>9. ASSUME NEW s \in Servers, Write(s) PROVE TypeOK'
  BY <1>9, GapsAssumption DEF Write, InFlight, Transaction, Target, Tx, Sends, sockVars, readVars
<1>10. ASSUME NEW s \in Servers, WriteFails(s) PROVE TypeOK'
  BY <1>10 DEF WriteFails, sockVars, readVars
<1>11. ASSUME NEW s \in Servers, DropPending(s) PROVE TypeOK'
  <2>1. NextAddr(s, "write") /\ pc[s] = "undo" /\ UNCHANGED <<ips, conn, gap>>
    BY <1>11 DEF DropPending
  <2>2. ProbeTypes' /\ ResultTypes'
    BY <2>1, NextAddrTypes DEF Failures, NotSent, Unanswered
  <2>3. RunTypes' /\ TransactionTypes' /\ ReaderTypes'
    BY <1>11 DEF DropPending, sockVars, readVars
  <2>4. QED
    BY <2>2, <2>3
<1>12. ASSUME NEW s \in Servers, TakeReply(s) PROVE TypeOK'
  <2> DEFINE t == Transaction(s)
             r == [kind |-> Outcome(reply[t].kind),
                   target |-> t[2], mapped |-> reply[t].mapped]
  <2>1. t \in Tx /\ t[2] \in Addrs
    BY <1>12, TargetType DEF TakeReply, Tx
  <2>2. reply[t] \in Replies
    BY <1>12, <2>1 DEF TakeReply
  <2>3. r \in Results
    BY <2>1, <2>2 DEF Results, Replies, Failures, NotSent, Unanswered, Outcome
  <2>4. ProbeTypes' /\ ResultTypes'
    BY <1>12, <2>3, ReportTypes DEF TakeReply
  <2>5. RunTypes' /\ TransactionTypes' /\ ReaderTypes'
    BY <1>12, <2>1 DEF TakeReply, sockVars, readVars
  <2>6. QED
    BY <2>4, <2>5
<1>13. ASSUME NEW s \in Servers, GiveUp(s) PROVE TypeOK'
  <2>1. Target(s) \in Addrs
    BY <1>13, TargetType DEF GiveUp
  <2>2. [Failure("noResponse") EXCEPT !.target = Target(s)] \in Results
    BY <2>1 DEF Results, Failure, Failures, NotSent, Unanswered
  <2>3. ProbeTypes' /\ ResultTypes'
    BY <1>13, <2>2, ReportTypes DEF GiveUp
  <2>4. RunTypes' /\ TransactionTypes' /\ ReaderTypes'
    BY <1>13 DEF GiveUp, sockVars, readVars
  <2>5. QED
    BY <2>3, <2>4
<1>14. ASSUME NEW s \in Servers, Retransmit(s) PROVE TypeOK'
  <2>1. Transaction(s) \in Tx
    BY <1>14, TargetType DEF Retransmit
  <2>2. gap[s] + 1 \in Sends
    BY <1>14, GapsAssumption DEF Retransmit, Sends
  <2>3. ProbeTypes' /\ ResultTypes'
    BY <1>14, <2>2 DEF Retransmit
  <2>4. gap'[s] \in Sends
    BY <1>14, <2>2 DEF Retransmit
  <2>5. TransactionTypes'
    BY <1>14, <2>1, <2>4 DEF Retransmit, InFlight
  <2>6. RunTypes' /\ ReaderTypes'
    BY <1>14 DEF Retransmit, sockVars, readVars
  <2>7. QED
    BY <2>3, <2>5, <2>6
<1>15. ASSUME NEW c \in Conns, ReadAnswer(c) PROVE TypeOK'
  <2>1. PICK t \in Tx, n \in Sends :
          /\ wire[t][n] \in {"success", "error"} /\ conn[t[1]] = c
          /\ Receive(c, [src |-> Source[t[2]], tx |-> t, kind |-> wire[t][n],
                         mapped |-> IF wire[t][n] = "success"
                                    THEN Mapping(c, t[2]) ELSE None])
          /\ wire' \in {wire, [wire EXCEPT ![t][n] = "read"]}
    BY <1>15 DEF ReadAnswer
  <2> DEFINE p == [src |-> Source[t[2]], tx |-> t, kind |-> wire[t][n],
                   mapped |-> IF wire[t][n] = "success" THEN Mapping(c, t[2]) ELSE None]
  <2>2. p \in Packets
    BY <2>1 DEF Packets, Kinds, Endpoints, Tx
  <2>3. ReaderTypes'
    BY <2>1, <2>2 DEF Receive
  <2>4. TransactionTypes'
    <3>1. CASE wire' = wire
      BY <1>15, <3>1 DEF ReadAnswer
    <3>2. CASE wire' = [wire EXCEPT ![t][n] = "read"]
      BY <1>15, <2>1, <3>2 DEF ReadAnswer
    <3>3. QED
      BY <2>1, <3>1, <3>2
  <2>5. ProbeTypes' /\ ResultTypes' /\ RunTypes'
    BY <1>15 DEF ReadAnswer, probeVars, sockVars
  <2>6. QED
    BY <2>3, <2>4, <2>5
<1>16. ASSUME NEW c \in Conns, ReadNoise(c) PROVE TypeOK'
  BY <1>16, NoiseAssumption DEF ReadNoise, Receive, probeVars, sockVars
<1>17. ASSUME NEW c \in Conns, ReadError(c) PROVE TypeOK'
  BY <1>17 DEF ReadError, probeVars, sockVars
<1>18. ASSUME NEW c \in Conns, Resume(c) PROVE TypeOK'
  BY <1>18 DEF Resume, probeVars, sockVars
<1>19. ASSUME NEW c \in Conns, ReaderExits(c) PROVE TypeOK'
  BY <1>19 DEF ReaderExits, probeVars, sockVars
<1>20. ASSUME NEW c \in Conns, DropPacket(c) PROVE TypeOK'
  BY <1>20 DEF DropPacket, probeVars, sockVars
<1>21. ASSUME NEW c \in Conns, MatchPacket(c) PROVE TypeOK'
  BY <1>21 DEF MatchPacket, Accepts, Delivered, probeVars
<1>22. ASSUME NEW c \in Conns, HandOff(c) PROVE TypeOK'
  BY <1>22 DEF HandOff, Replies, Packets, Kinds, probeVars
<1>23. ASSUME NEW c \in Conns, CloseConn(c) PROVE TypeOK'
  BY <1>23 DEF CloseConn, probeVars, readVars
<1>24. ASSUME NEW t \in Tx, NEW n \in Sends, Answer(t, n) PROVE TypeOK'
  BY <1>24, AnswersAssumption DEF Answer, InFlight, Tx, probeVars, sockVars, readVars
<1>25. ASSUME NEW t \in Tx, NEW n \in Sends, Lose(t, n) PROVE TypeOK'
  BY <1>25 DEF Lose, InFlight, probeVars, sockVars, readVars
<1>26. CASE StartClose
  BY <1>26 DEF StartClose, probeVars, readVars
<1>27. CASE Unlock
  BY <1>27 DEF Unlock, probeVars, readVars
<1>28. CASE Return
  BY <1>28 DEF Return, probeVars, sockVars, readVars
<1>29. CASE Expire
  BY <1>29 DEF Expire, probeVars, sockVars, readVars
<1>30. CASE UNCHANGED vars
  BY <1>30 DEF vars
<1>31. QED
  BY <1>1, <1>2, <1>3, <1>4, <1>5, <1>6, <1>7, <1>8, <1>9, <1>10, <1>11, <1>12,
     <1>13, <1>14, <1>15, <1>16, <1>17, <1>18, <1>19, <1>20, <1>21, <1>22, <1>23,
     <1>24, <1>25, <1>26, <1>27, <1>28, <1>29, <1>30
     DEF Next, Probe, LockStep, FreeStep, Reader, Deliver, Close, Network, Terminated

\* Every variable of the mapping run keeps its type, and no goroutine indexes the
\* resolved addresses out of range (probeAddrs).
THEOREM TypeCorrect == Spec => []TypeOK
<1>1. Init => TypeOK
  BY TypeInit
<1>2. TypeOK /\ [Next]_vars => TypeOK'
  BY TypeNext
<1>3. QED
  BY <1>1, <1>2, PTL DEF Spec

-----------------------------------------------------------------------------
(* Every packet, reply and result is the answer of its own target *)

\* What no step takes back: the socket of a family, a request, a result.
Later ==
    /\ \A f \in Families : sockets[f] \in Conns => sockets'[f] = sockets[f]
    /\ \A s \in Servers : pc[s] = "done" => pc'[s] = "done"
    /\ \A s \in Servers : Sent(s) => Sent(s)' /\ conn'[s] = conn[s]

LEMMA NextIsLater == TypeOK /\ [Next]_vars => Later
<1> SUFFICES ASSUME TypeOK, [Next]_vars PROVE Later
  OBVIOUS
<1>0. /\ pc \in [Servers -> {"start", "socket", "insert", "write", "undo", "await", "done"}]
      /\ conn \in [Servers -> Conns \cup {None}]
      /\ sockets \in [Families -> Conns \cup {None, "failed"}]
  BY DEF TypeOK, ProbeTypes, RunTypes
<1> USE <1>0, NoneAssumption, ConnsAssumption DEF Later, Sent
<1>1. ASSUME NEW s \in Servers, RejectServer(s) PROVE Later
  BY <1>1 DEF RejectServer, Report, sockVars
<1>2. ASSUME NEW s \in Servers, ResolveFails(s) PROVE Later
  BY <1>2 DEF ResolveFails, Report, sockVars
<1>3. ASSUME NEW s \in Servers, Resolve(s) PROVE Later
  BY <1>3 DEF Resolve, sockVars
<1>4. ASSUME NEW s \in Servers, UseSocket(s) PROVE Later
  BY <1>4 DEF UseSocket, sockVars
<1>5. ASSUME NEW s \in Servers, SocketFailed(s) PROVE Later
  BY <1>5 DEF SocketFailed, NextAddr, Report, sockVars
<1>6. ASSUME NEW s \in Servers, ListenFails(s) PROVE Later
  BY <1>6 DEF ListenFails, NextAddr, Report, Cached
<1>7. ASSUME NEW s \in Servers, Listen(s) PROVE Later
  BY <1>7 DEF Listen, Cached
<1>8. ASSUME NEW s \in Servers, InsertPending(s) PROVE Later
  BY <1>8 DEF InsertPending, sockVars
<1>9. ASSUME NEW s \in Servers, Write(s) PROVE Later
  BY <1>9 DEF Write, sockVars
<1>10. ASSUME NEW s \in Servers, WriteFails(s) PROVE Later
  BY <1>10 DEF WriteFails, sockVars
<1>11. ASSUME NEW s \in Servers, DropPending(s) PROVE Later
  BY <1>11 DEF DropPending, NextAddr, Report, sockVars
<1>12. ASSUME NEW s \in Servers, TakeReply(s) PROVE Later
  BY <1>12 DEF TakeReply, Report, sockVars
<1>13. ASSUME NEW s \in Servers, GiveUp(s) PROVE Later
  BY <1>13 DEF GiveUp, Report, sockVars
<1>14. ASSUME NEW s \in Servers, Retransmit(s) PROVE Later
  BY <1>14 DEF Retransmit, sockVars
<1>15. ASSUME NEW c \in Conns, Reader(c) PROVE Later
  BY <1>15 DEF Reader, Deliver, ReadAnswer, ReadNoise, ReadError, Resume, ReaderExits, DropPacket, MatchPacket, HandOff, probeVars, sockVars
<1>16. CASE Close
  BY <1>16 DEF Close, StartClose, Unlock, Return, CloseConn, probeVars, sockVars
<1>17. CASE Network
  BY <1>17 DEF Network, Answer, Lose, probeVars, sockVars
<1>18. CASE Expire
  BY <1>18 DEF Expire, probeVars, sockVars
<1>19. CASE UNCHANGED vars
  BY <1>19 DEF vars
<1>20. QED
  BY <1>1, <1>2, <1>3, <1>4, <1>5, <1>6, <1>7, <1>8, <1>9, <1>10, <1>11, <1>12, <1>13, <1>14, <1>15, <1>16, <1>17, <1>18, <1>19
     DEF Next, Probe, LockStep, FreeStep, Terminated

LEMMA GenuineLater ==
    ASSUME Later, NEW t \in Tx, NEW kind, NEW mapped, Genuine(t, kind, mapped)
    PROVE  Genuine(t, kind, mapped)'
  BY FamilyAssumption DEF Later, Genuine, Tx

LEMMA SharedSocketFrame ==
    ASSUME TypeOK, Later, SharedSocket, UNCHANGED <<pc, ips, next, conn>>
    PROVE  SharedSocket'
<1> SUFFICES ASSUME NEW s \in Servers, pc[s] \in {"insert", "write", "undo", "await"}
             PROVE  conn[s] \in Conns /\ sockets'[Family[Target(s)]] = conn[s]
  BY DEF SharedSocket, Target
<1>1. Family[Target(s)] \in Families
  BY TargetType, FamilyAssumption DEF TypeOK
<1>2. QED
  BY <1>1 DEF SharedSocket, Later

LEMMA WireFrame ==
    ASSUME TypeOK, Later, GenuineWire, UNCHANGED wire
    PROVE  GenuineWire'
  BY FamilyAssumption DEF Later, GenuineWire, Tx

\* A reader that holds a packet after the step held it before.
LEMMA PacketStep ==
    ASSUME TypeOK, Later, GenuinePacket,
           \A c \in Conns : rpc'[c] \in {"deliver", "handoff"} =>
             UNCHANGED <<rpc[c], rpkt[c]>>
    PROVE  GenuinePacket'
<1> SUFFICES ASSUME NEW c \in Conns,
                    \/ rpc'[c] = "handoff"
                    \/ /\ rpc'[c] = "deliver"
                       /\ rpkt'[c].src = Source[rpkt'[c].tx[2]] /\ rpkt'[c].kind # "garbage"
             PROVE  Genuine(rpkt[c].tx, rpkt[c].kind, rpkt[c].mapped)'
  BY DEF GenuinePacket
<1>1. rpc'[c] = rpc[c] /\ rpkt'[c] = rpkt[c]
  OBVIOUS
<1>2. rpkt[c].tx \in Tx
  BY <1>1 DEF TypeOK, ReaderTypes, Packets
<1>3. Genuine(rpkt[c].tx, rpkt[c].kind, rpkt[c].mapped)
  BY <1>1 DEF GenuinePacket
<1>4. QED
  BY <1>1, <1>2, <1>3, GenuineLater

LEMMA PacketFrame ==
    ASSUME TypeOK, Later, GenuinePacket, UNCHANGED <<rpc, rpkt>>
    PROVE  GenuinePacket'
  BY PacketStep

LEMMA ReplyFrame ==
    ASSUME TypeOK, Later, GenuineReply, UNCHANGED reply
    PROVE  GenuineReply'
  BY GenuineLater DEF GenuineReply

LEMMA ResultFrame ==
    ASSUME TypeOK, Later, GenuineResult, UNCHANGED result
    PROVE  GenuineResult'
  BY FamilyAssumption DEF GenuineResult, Backed, Later, Sent

\* A step of the goroutine of s leaves the other goroutines' transactions alone.
LEMMA SharedSocketStep ==
    ASSUME TypeOK, Later, SharedSocket, NEW s \in Servers,
           \A r \in Servers \ {s} :
             UNCHANGED <<pc[r], ips[r], next[r], conn[r]>>,
           pc'[s] \in {"insert", "write", "undo", "await"} =>
             conn'[s] \in Conns /\ sockets'[Family[Target(s)']] = conn'[s]
    PROVE  SharedSocket'
<1> SUFFICES ASSUME NEW r \in Servers, r # s,
                    pc'[r] \in {"insert", "write", "undo", "await"}
             PROVE  conn'[r] \in Conns /\ sockets'[Family[Target(r)']] = conn'[r]
  BY DEF SharedSocket
<1>1. pc[r] = pc'[r] /\ conn[r] = conn'[r] /\ Target(r)' = Target(r)
  BY DEF Target
<1>2. Family[Target(r)] \in Families
  BY <1>1, TargetType, FamilyAssumption DEF TypeOK
<1>3. conn[r] \in Conns /\ sockets[Family[Target(r)]] = conn[r]
  BY <1>1 DEF SharedSocket
<1>4. QED
  BY <1>1, <1>2, <1>3 DEF Later

\* A goroutine that reports no answer adds no claim.
LEMMA FailureStep ==
    ASSUME TypeOK, Later, GenuineResult, NEW s \in Servers, NEW r,
           r.kind \notin {"ok", "badReply"}, result' = [result EXCEPT ![s] = r]
    PROVE  GenuineResult'
  BY FamilyAssumption DEF GenuineResult, Backed, Later, Sent, TypeOK, ResultTypes

LEMMA EvidenceInit == Init => Evidence
<1> SUFFICES ASSUME Init PROVE Evidence
  OBVIOUS
<1>1. SharedSocket
  BY DEF Init, SharedSocket
<1>2. GenuineWire
  BY DEF Init, GenuineWire
<1>3. GenuinePacket
  BY DEF Init, GenuinePacket
<1>4. GenuineReply
  BY DEF Init, GenuineReply
<1>5. GenuineResult
  BY DEF Init, GenuineResult, NoResult
<1>6. QED
  BY <1>1, <1>2, <1>3, <1>4, <1>5 DEF Evidence

LEMMA EvidenceNext == TypeOK /\ Evidence /\ [Next]_vars => Evidence'
<1> SUFFICES ASSUME TypeOK, Evidence, [Next]_vars PROVE Evidence'
  OBVIOUS
<1> USE DEF Evidence
<1>0. Later
  BY NextIsLater
<1>a. pc \in [Servers -> {"start", "socket", "insert", "write", "undo", "await", "done"}]
  BY DEF TypeOK, ProbeTypes
<1>b. ASSUME NEW s \in Servers, NEW r, Report(s, r), r.kind \notin {"ok", "badReply"},
             UNCHANGED <<ips, next, conn, reply, rpc, rpkt, wire>>
      PROVE  Evidence'
  <2>1. SharedSocket'
    BY <1>0, <1>a, <1>b, SharedSocketStep DEF Report
  <2>2. GenuineResult'
    BY <1>0, <1>b, FailureStep DEF Report
  <2>3. QED
    BY <1>0, <1>b, <2>1, <2>2, WireFrame, PacketFrame, ReplyFrame
<1>c. ASSUME NEW s \in Servers, NextAddr(s, "listen") \/ NextAddr(s, "write"),
             UNCHANGED <<ips, conn, reply, rpc, rpkt, wire>>
      PROVE  Evidence'
  <2>1. CASE next[s] < Len(ips[s])
    <3>1. /\ pc' = [pc EXCEPT ![s] = "socket"]
          /\ \A r \in Servers \ {s} : next'[r] = next[r]
          /\ UNCHANGED result
      BY <1>c, <2>1 DEF NextAddr, TypeOK, ProbeTypes
    <3>2. SharedSocket'
      BY <1>0, <1>a, <1>c, <3>1, SharedSocketStep
    <3>3. QED
      BY <1>0, <1>c, <3>1, <3>2, WireFrame, PacketFrame, ReplyFrame, ResultFrame
  <2>2. CASE ~(next[s] < Len(ips[s]))
    BY <1>b, <1>c, <2>2 DEF NextAddr, Failure
  <2>3. QED
    BY <2>1, <2>2
<1>1. ASSUME NEW s \in Servers, RejectServer(s) PROVE Evidence'
  BY <1>1, <1>b DEF RejectServer, Failure, readVars
<1>2. ASSUME NEW s \in Servers, ResolveFails(s) PROVE Evidence'
  BY <1>2, <1>b DEF ResolveFails, Failure, readVars
<1>3. ASSUME NEW s \in Servers, Resolve(s) PROVE Evidence'
  <2>1. SharedSocket'
    BY <1>0, <1>a, <1>3, SharedSocketStep DEF Resolve, TypeOK, ProbeTypes
  <2>2. QED
    BY <1>0, <1>3, <2>1, WireFrame, PacketFrame, ReplyFrame, ResultFrame DEF Resolve, readVars
<1>4. ASSUME NEW s \in Servers, UseSocket(s) PROVE Evidence'
  <2>1. SharedSocket'
    BY <1>0, <1>a, <1>4, SharedSocketStep
       DEF UseSocket, Cached, Target, sockVars, TypeOK, ProbeTypes
  <2>2. QED
    BY <1>0, <1>4, <2>1, WireFrame, PacketFrame, ReplyFrame, ResultFrame DEF UseSocket, readVars
<1>5. ASSUME NEW s \in Servers, SocketFailed(s) PROVE Evidence'
  BY <1>5, <1>c DEF SocketFailed, readVars
<1>6. ASSUME NEW s \in Servers, ListenFails(s) PROVE Evidence'
  BY <1>6, <1>c DEF ListenFails, readVars
<1>7. ASSUME NEW s \in Servers, Listen(s) PROVE Evidence'
  <2>1. PICK c \in Conns :
          /\ rpc[c] = "off"
          /\ sockets' = [sockets EXCEPT ![Family[Target(s)]] = c]
          /\ rpc' = [rpc EXCEPT ![c] = "read"]
          /\ conn' = [conn EXCEPT ![s] = c]
    BY <1>7 DEF Listen
  <2>2. pc[s] = "socket" /\ UNCHANGED <<ips, next, result, reply, rpkt, wire>>
    BY <1>7 DEF Listen
  <2>3. pc' = [pc EXCEPT ![s] = "insert"]
    BY <1>7 DEF Listen
  <2>4. Target(s)' = Target(s) /\ Family[Target(s)] \in Families
    BY <2>2, TargetType, FamilyAssumption DEF TypeOK, Target
  <2>5. conn'[s] = c /\ sockets'[Family[Target(s)']] = c
    BY <2>1, <2>4 DEF TypeOK, ProbeTypes, RunTypes
  <2>6. \A r \in Servers \ {s} : UNCHANGED <<pc[r], ips[r], next[r], conn[r]>>
    BY <2>1, <2>2, <2>3, <1>a DEF TypeOK, ProbeTypes
  <2>7. SharedSocket'
    BY <1>0, <2>5, <2>6, SharedSocketStep
  <2>8. GenuinePacket'
    BY <1>0, <2>1, <2>2, PacketStep DEF TypeOK, ReaderTypes
  <2>9. QED
    BY <1>0, <2>2, <2>7, <2>8, WireFrame, ReplyFrame, ResultFrame
<1>8. ASSUME NEW s \in Servers, InsertPending(s) PROVE Evidence'
  <2>1. SharedSocket'
    BY <1>0, <1>a, <1>8, SharedSocketStep
       DEF InsertPending, Target, SharedSocket, sockVars, TypeOK, ProbeTypes
  <2>2. QED
    BY <1>0, <1>8, <2>1, WireFrame, PacketFrame, ReplyFrame, ResultFrame DEF InsertPending, readVars
<1>9. ASSUME NEW s \in Servers, Write(s) PROVE Evidence'
  <2>1. /\ pc[s] = "write" /\ pc' = [pc EXCEPT ![s] = "await"]
        /\ wire' = [wire EXCEPT ![Transaction(s)][0] = "sent"]
        /\ UNCHANGED <<ips, next, conn, result, sockets, reply, rpc, rpkt>>
    BY <1>9 DEF Write, sockVars, readVars
  <2>2. conn[s] \in Conns /\ sockets[Family[Target(s)]] = conn[s]
    BY <2>1 DEF SharedSocket
  <2>3. SharedSocket'
    BY <1>0, <1>a, <2>1, <2>2, SharedSocketStep DEF Target
  <2>4. GenuineWire'
    <3> SUFFICES ASSUME NEW t \in Tx, NEW n \in Sends, wire'[t][n] # "unsent"
                 PROVE  /\ Sent(t[1])'
                        /\ conn[t[1]] \in Conns
                        /\ sockets[Family[t[2]]] = conn[t[1]]
                        /\ wire'[t][n] \in {"success", "error"} =>
                             wire'[t][n] \in Answers[t[2]]
      BY <2>1 DEF GenuineWire
    <3>1. CASE t = Transaction(s) /\ n = 0
      <4>1. t[1] = s /\ t[2] = Target(s)
        BY <3>1 DEF Transaction
      <4>2. wire'[t][n] = "sent"
        BY <2>1, <3>1 DEF TypeOK, TransactionTypes
      <4>3. QED
        BY <1>a, <2>1, <2>2, <4>1, <4>2 DEF Sent
    <3>2. CASE ~(t = Transaction(s) /\ n = 0)
      <4>1. wire'[t][n] = wire[t][n]
        BY <2>1, <3>2 DEF TypeOK, TransactionTypes
      <4>2. QED
        BY <1>0, <4>1 DEF GenuineWire, Later, Tx
    <3>3. QED
      BY <3>1, <3>2
  <2>5. QED
    BY <1>0, <2>1, <2>3, <2>4, PacketFrame, ReplyFrame, ResultFrame
<1>10. ASSUME NEW s \in Servers, WriteFails(s) PROVE Evidence'
  <2>1. SharedSocket'
    BY <1>0, <1>a, <1>10, SharedSocketStep
       DEF WriteFails, Target, SharedSocket, sockVars, TypeOK, ProbeTypes
  <2>2. QED
    BY <1>0, <1>10, <2>1, WireFrame, PacketFrame, ReplyFrame, ResultFrame DEF WriteFails, readVars
<1>11. ASSUME NEW s \in Servers, DropPending(s) PROVE Evidence'
  BY <1>11, <1>c DEF DropPending, readVars
<1>12. ASSUME NEW s \in Servers, TakeReply(s) PROVE Evidence'
  <2> DEFINE t == Transaction(s)
             r == [kind |-> Outcome(reply[t].kind),
                   target |-> t[2], mapped |-> reply[t].mapped]
  <2>1. /\ pc[s] = "await" /\ pc' = [pc EXCEPT ![s] = "done"]
        /\ reply[t] # None /\ reply' = [reply EXCEPT ![t] = None]
        /\ result' = [result EXCEPT ![s] = r]
        /\ UNCHANGED <<ips, next, conn, sockets, rpc, rpkt, wire>>
    BY <1>12 DEF TakeReply, Report, sockVars, readVars
  <2>2. t \in Tx /\ t[1] = s /\ t[2] = Target(s) /\ Target(s) \in Addrs
    BY <2>1, TargetType DEF Transaction, TypeOK
  <2>3. conn[s] \in Conns /\ sockets[Family[t[2]]] = conn[s]
    BY <2>1, <2>2 DEF SharedSocket
  <2>4. SharedSocket'
    BY <1>0, <1>a, <2>1, SharedSocketStep
  <2>5. GenuineReply'
    <3> SUFFICES ASSUME NEW u \in Tx, reply'[u] # None
                 PROVE  Genuine(u, reply[u].kind, reply[u].mapped)'
      BY DEF GenuineReply
    <3>1. reply'[u] = reply[u] /\ Genuine(u, reply[u].kind, reply[u].mapped)
      BY <2>1, <2>2 DEF TypeOK, TransactionTypes, GenuineReply
    <3>2. QED
      BY <1>0, <3>1, GenuineLater
  <2>6. reply[t] \in Replies /\ Genuine(t, reply[t].kind, reply[t].mapped)
    BY <2>1, <2>2 DEF TypeOK, TransactionTypes, GenuineReply
  <2>7. GenuineResult'
    <3> SUFFICES ASSUME NEW u \in Servers, result'[u].kind \in {"ok", "badReply"}
                 PROVE  Backed(u, result[u])'
      BY DEF GenuineResult
    <3>1. CASE u = s
      <4>1. result'[u] = r /\ pc'[u] = "done"
        BY <1>a, <2>1, <3>1 DEF TypeOK, ResultTypes
      <4>2. CASE reply[t].kind = "success"
        BY <2>1, <2>2, <2>3, <2>6, <3>1, <4>1, <4>2 DEF Genuine, Backed, Outcome
      <4>3. CASE reply[t].kind = "error"
        BY <2>1, <2>2, <2>3, <2>6, <3>1, <4>1, <4>3 DEF Genuine, Backed, Outcome
      <4>4. QED
        BY <2>6, <4>2, <4>3 DEF Replies
    <3>2. CASE u # s
      <4>1. result'[u] = result[u] /\ pc'[u] = pc[u]
        BY <1>a, <2>1, <3>2 DEF TypeOK, ResultTypes
      <4>2. QED
        BY <2>1, <4>1 DEF GenuineResult, Backed
    <3>3. QED
      BY <3>1, <3>2
  <2>8. QED
    BY <1>0, <2>1, <2>4, <2>5, <2>7, WireFrame, PacketFrame
<1>13. ASSUME NEW s \in Servers, GiveUp(s) PROVE Evidence'
  BY <1>13, <1>b DEF GiveUp, Failure, readVars
<1>14. ASSUME NEW s \in Servers, Retransmit(s) PROVE Evidence'
  <2>1. /\ pc[s] = "await"
        /\ wire' = [wire EXCEPT ![Transaction(s)][gap'[s]] = "sent"]
        /\ UNCHANGED <<pc, ips, next, conn, result, sockets, reply, rpc, rpkt>>
    BY <1>14 DEF Retransmit, sockVars, readVars
  <2>2. conn[s] \in Conns /\ sockets[Family[Target(s)]] = conn[s]
    BY <2>1 DEF SharedSocket
  <2>3. GenuineWire'
    <3> SUFFICES ASSUME NEW t \in Tx, NEW n \in Sends, wire'[t][n] # "unsent"
                 PROVE  /\ Sent(t[1])
                        /\ conn[t[1]] \in Conns
                        /\ sockets[Family[t[2]]] = conn[t[1]]
                        /\ wire'[t][n] \in {"success", "error"} =>
                             wire'[t][n] \in Answers[t[2]]
      BY <2>1 DEF GenuineWire, Sent
    <3>1. CASE t = Transaction(s) /\ n = gap'[s]
      <4>1. t[1] = s /\ t[2] = Target(s)
        BY <3>1 DEF Transaction
      <4>2. wire'[t][n] = "sent"
        BY <2>1, <3>1 DEF TypeOK, TransactionTypes
      <4>3. QED
        BY <2>1, <2>2, <4>1, <4>2 DEF Sent
    <3>2. CASE ~(t = Transaction(s) /\ n = gap'[s])
      <4>1. wire'[t][n] = wire[t][n]
        BY <2>1, <3>2 DEF TypeOK, TransactionTypes
      <4>2. QED
        BY <4>1 DEF GenuineWire
    <3>3. QED
      BY <3>1, <3>2
  <2>4. QED
    BY <1>0, <2>1, <2>3, SharedSocketFrame, PacketFrame, ReplyFrame, ResultFrame
<1>15. ASSUME NEW c \in Conns, ReadAnswer(c) PROVE Evidence'
  <2>1. PICK t \in Tx, n \in Sends :
          /\ wire[t][n] \in {"success", "error"} /\ conn[t[1]] = c
          /\ Receive(c, [src |-> Source[t[2]], tx |-> t, kind |-> wire[t][n],
                         mapped |-> IF wire[t][n] = "success"
                                    THEN Mapping(c, t[2]) ELSE None])
          /\ wire' \in {wire, [wire EXCEPT ![t][n] = "read"]}
    BY <1>15 DEF ReadAnswer
  <2> DEFINE p == [src |-> Source[t[2]], tx |-> t, kind |-> wire[t][n],
                   mapped |-> IF wire[t][n] = "success" THEN Mapping(c, t[2]) ELSE None]
  <2>2. UNCHANGED <<pc, ips, next, conn, result, sockets, reply>>
    BY <1>15 DEF ReadAnswer, probeVars, sockVars
  <2>3. /\ rpc' = [rpc EXCEPT ![c] = "deliver"]
        /\ rpkt' = [rpkt EXCEPT ![c] = p]
    BY <2>1 DEF Receive
  <2>4. Genuine(t, p.kind, p.mapped)
    BY <2>1 DEF GenuineWire, Genuine
  <2>5. GenuinePacket'
    <3> SUFFICES ASSUME NEW d \in Conns,
                        \/ rpc'[d] = "handoff"
                        \/ /\ rpc'[d] = "deliver"
                           /\ rpkt'[d].src = Source[rpkt'[d].tx[2]]
                           /\ rpkt'[d].kind # "garbage"
                 PROVE  Genuine(rpkt[d].tx, rpkt[d].kind, rpkt[d].mapped)'
      BY DEF GenuinePacket
    <3>1. CASE d = c
      <4>1. rpkt'[d] = p
        BY <2>3, <3>1 DEF TypeOK, ReaderTypes
      <4>2. QED
        BY <2>2, <2>4, <4>1 DEF Genuine, Sent
    <3>2. CASE d # c
      <4>1. rpc'[d] = rpc[d] /\ rpkt'[d] = rpkt[d]
        BY <2>3, <3>2 DEF TypeOK, ReaderTypes
      <4>2. QED
        BY <2>2, <4>1 DEF GenuinePacket, Genuine, Sent
    <3>3. QED
      BY <3>1, <3>2
  <2>6. GenuineWire'
    <3>1. CASE wire' = wire
      BY <1>0, <3>1, WireFrame
    <3>2. CASE wire' = [wire EXCEPT ![t][n] = "read"]
      <4>1. \A u \in Tx, m \in Sends :
              wire'[u][m] # "unsent" =>
                wire[u][m] # "unsent" /\ wire'[u][m] \in {wire[u][m], "read"}
        BY <2>1, <3>2 DEF TypeOK, TransactionTypes
      <4>2. QED
        BY <2>2, <4>1 DEF GenuineWire, Sent
    <3>3. QED
      BY <2>1, <3>1, <3>2
  <2>7. QED
    BY <1>0, <2>2, <2>5, <2>6, SharedSocketFrame, ReplyFrame, ResultFrame
<1>16. ASSUME NEW c \in Conns, ReadNoise(c) PROVE Evidence'
  <2>1. PICK p \in Noise : Receive(c, p)
    BY <1>16 DEF ReadNoise
  <2>2. UNCHANGED <<pc, ips, next, conn, result, sockets, reply, wire>>
    BY <1>16 DEF ReadNoise, probeVars, sockVars
  <2>3. GenuinePacket'
    <3> SUFFICES ASSUME NEW d \in Conns,
                        \/ rpc'[d] = "handoff"
                        \/ /\ rpc'[d] = "deliver"
                           /\ rpkt'[d].src = Source[rpkt'[d].tx[2]]
                           /\ rpkt'[d].kind # "garbage"
                 PROVE  Genuine(rpkt[d].tx, rpkt[d].kind, rpkt[d].mapped)'
      BY DEF GenuinePacket
    <3>1. d # c
      BY <2>1, NoiseAssumption DEF Receive, TypeOK, ReaderTypes
    <3>2. rpc'[d] = rpc[d] /\ rpkt'[d] = rpkt[d]
      BY <2>1, <3>1 DEF Receive, TypeOK, ReaderTypes
    <3>3. QED
      BY <2>2, <3>2 DEF GenuinePacket, Genuine, Sent
  <2>4. QED
    BY <1>0, <2>2, <2>3, SharedSocketFrame, WireFrame, ReplyFrame, ResultFrame
<1>17. ASSUME NEW c \in Conns, ReadError(c) PROVE Evidence'
  <2>1. GenuinePacket'
    BY <1>0, <1>17, PacketStep DEF ReadError, TypeOK, ReaderTypes
  <2>2. QED
    BY <1>0, <1>17, <2>1, SharedSocketFrame, WireFrame, ReplyFrame, ResultFrame DEF ReadError, probeVars
<1>18. ASSUME NEW c \in Conns, Resume(c) PROVE Evidence'
  <2>1. GenuinePacket'
    BY <1>0, <1>18, PacketStep DEF Resume, TypeOK, ReaderTypes
  <2>2. QED
    BY <1>0, <1>18, <2>1, SharedSocketFrame, WireFrame, ReplyFrame, ResultFrame DEF Resume, probeVars
<1>19. ASSUME NEW c \in Conns, ReaderExits(c) PROVE Evidence'
  <2>1. GenuinePacket'
    BY <1>0, <1>19, PacketStep DEF ReaderExits, TypeOK, ReaderTypes
  <2>2. QED
    BY <1>0, <1>19, <2>1, SharedSocketFrame, WireFrame, ReplyFrame, ResultFrame DEF ReaderExits, probeVars
<1>20. ASSUME NEW c \in Conns, DropPacket(c) PROVE Evidence'
  <2>1. GenuinePacket'
    BY <1>0, <1>20, PacketStep DEF DropPacket, TypeOK, ReaderTypes
  <2>2. QED
    BY <1>0, <1>20, <2>1, SharedSocketFrame, WireFrame, ReplyFrame, ResultFrame DEF DropPacket, probeVars
<1>21. ASSUME NEW c \in Conns, MatchPacket(c) PROVE Evidence'
  <2>1. /\ rpc[c] = "deliver" /\ Accepts(rpkt[c])
        /\ rpc' = [rpc EXCEPT ![c] = "handoff"]
        /\ UNCHANGED <<pc, ips, next, conn, result, sockets, reply, wire, rpkt>>
    BY <1>21 DEF MatchPacket, probeVars
  <2>2. Genuine(rpkt[c].tx, rpkt[c].kind, rpkt[c].mapped)
    BY <2>1 DEF GenuinePacket, Accepts
  <2>3. GenuinePacket'
    <3> SUFFICES ASSUME NEW d \in Conns,
                        \/ rpc'[d] = "handoff"
                        \/ /\ rpc'[d] = "deliver"
                           /\ rpkt[d].src = Source[rpkt[d].tx[2]]
                           /\ rpkt[d].kind # "garbage"
                 PROVE  Genuine(rpkt[d].tx, rpkt[d].kind, rpkt[d].mapped)
      BY <2>1 DEF GenuinePacket, Genuine, Sent
    <3>1. d = c \/ rpc'[d] = rpc[d]
      BY <2>1 DEF TypeOK, ReaderTypes
    <3>2. QED
      BY <2>2, <3>1 DEF GenuinePacket
  <2>4. QED
    BY <1>0, <2>1, <2>3, SharedSocketFrame, WireFrame, ReplyFrame, ResultFrame
<1>22. ASSUME NEW c \in Conns, HandOff(c) PROVE Evidence'
  <2> DEFINE p == rpkt[c]
  <2>1. /\ rpc[c] = "handoff" /\ rpc' = [rpc EXCEPT ![c] = "read"]
        /\ rpkt' = [rpkt EXCEPT ![c] = None]
        /\ reply' = [reply EXCEPT ![p.tx] = [kind |-> p.kind, mapped |-> p.mapped]]
        /\ UNCHANGED <<pc, ips, next, conn, result, sockets, wire>>
    BY <1>22 DEF HandOff, probeVars
  <2>2. GenuinePacket'
    BY <1>0, <2>1, PacketStep DEF TypeOK, ReaderTypes
  <2>3. p.tx \in Tx /\ Genuine(p.tx, p.kind, p.mapped)
    BY <2>1 DEF GenuinePacket, TypeOK, ReaderTypes, Packets
  <2>4. GenuineReply'
    <3> SUFFICES ASSUME NEW u \in Tx, reply'[u] # None
                 PROVE  Genuine(u, reply[u].kind, reply[u].mapped)'
      BY DEF GenuineReply
    <3>1. CASE u = p.tx
      <4>1. reply'[u] = [kind |-> p.kind, mapped |-> p.mapped]
        BY <2>1, <3>1 DEF TypeOK, TransactionTypes
      <4>2. reply'[u].kind = p.kind /\ reply'[u].mapped = p.mapped
        BY <4>1
      <4>3. QED
        BY <2>1, <2>3, <3>1, <4>2 DEF Genuine, Sent
    <3>2. CASE u # p.tx
      <4>1. reply'[u] = reply[u]
        BY <2>1, <2>3, <3>2 DEF TypeOK, TransactionTypes
      <4>2. QED
        BY <2>1, <4>1 DEF GenuineReply, Genuine, Sent
    <3>3. QED
      BY <3>1, <3>2
  <2>5. QED
    BY <1>0, <2>1, <2>2, <2>4, SharedSocketFrame, WireFrame, ResultFrame
<1>23. ASSUME NEW t \in Tx, NEW n \in Sends, Answer(t, n) PROVE Evidence'
  <2>1. PICK k \in Answers[t[2]] : wire' = [wire EXCEPT ![t][n] = k]
    BY <1>23 DEF Answer
  <2>2. /\ wire[t][n] = "sent"
        /\ UNCHANGED <<pc, ips, next, conn, result, sockets, reply, rpc, rpkt>>
    BY <1>23 DEF Answer, probeVars, sockVars, readVars
  <2>3. GenuineWire'
    <3>1. \A u \in Tx, m \in Sends :
            wire'[u][m] # "unsent" =>
              wire[u][m] # "unsent" /\ wire'[u][m] \in {wire[u][m]} \cup Answers[u[2]]
      BY <2>1, <2>2 DEF TypeOK, TransactionTypes
    <3>2. QED
      BY <2>2, <3>1 DEF GenuineWire, Sent
  <2>4. QED
    BY <1>0, <2>2, <2>3, SharedSocketFrame, PacketFrame, ReplyFrame, ResultFrame
<1>24. ASSUME NEW t \in Tx, NEW n \in Sends, Lose(t, n) PROVE Evidence'
  <2>1. /\ wire[t][n] # "unsent" /\ wire' = [wire EXCEPT ![t][n] = "lost"]
        /\ UNCHANGED <<pc, ips, next, conn, result, sockets, reply, rpc, rpkt>>
    BY <1>24 DEF Lose, InFlight, probeVars, sockVars, readVars
  <2>2. GenuineWire'
    <3>1. \A u \in Tx, m \in Sends :
            wire'[u][m] # "unsent" =>
              wire[u][m] # "unsent" /\ wire'[u][m] \in {wire[u][m], "lost"}
      BY <2>1 DEF TypeOK, TransactionTypes
    <3>2. QED
      BY <2>1, <3>1 DEF GenuineWire, Sent
  <2>3. QED
    BY <1>0, <2>1, <2>2, SharedSocketFrame, PacketFrame, ReplyFrame, ResultFrame
<1>25. CASE Close \/ Expire \/ UNCHANGED vars
  <2>1. UNCHANGED <<pc, ips, next, conn, result, reply, rpc, rpkt, wire>>
    BY <1>25 DEF Close, StartClose, CloseConn, Unlock, Return, Expire, probeVars,
                 readVars, vars
  <2>2. QED
    BY <1>0, <2>1, SharedSocketFrame, WireFrame, PacketFrame, ReplyFrame, ResultFrame
<1>26. QED
  BY <1>1, <1>2, <1>3, <1>4, <1>5, <1>6, <1>7, <1>8, <1>9,
     <1>10, <1>11, <1>12, <1>13, <1>14, <1>15, <1>16, <1>17,
     <1>18, <1>19, <1>20, <1>21, <1>22, <1>23, <1>24, <1>25
     DEF Next, Probe, LockStep, FreeStep, Reader, Deliver, Network, Terminated

LEMMA EvidenceHolds == Spec => []Evidence
<1>1. Init => Evidence
  BY EvidenceInit
<1>2. TypeOK /\ Evidence /\ [Next]_vars => Evidence'
  BY EvidenceNext
<1>3. QED
  BY <1>1, <1>2, TypeCorrect, PTL DEF Spec

\* What a probe reports of its target is what that target answered, mapped by the
\* NAT for the socket the probe used (deliver, probeAddrs).
THEOREM AttributionHolds == Spec => []Attribution
<1>1. Evidence => Attribution
  BY DEF Evidence, GenuineResult, Backed, Attribution
<1>2. QED
  BY <1>1, EvidenceHolds, PTL

\* The successes of a family were all measured from one local endpoint, which is
\* what makes their mapped endpoints comparable (socket, classifyMapping).
THEOREM ComparableHolds == Spec => []Comparable
<1>1. TypeOK /\ Evidence => Comparable
  <2> SUFFICES ASSUME TypeOK, Evidence, NEW f \in Families
               PROVE  \E c \in Conns : \A s \in Servers :
                        result[s].kind = "ok" /\ Family[result[s].target] = f
                          => result[s].mapped = Mapping(c, result[s].target)
    BY DEF Comparable
  <2>1. \A s \in Servers : result[s].kind = "ok" /\ Family[result[s].target] = f =>
          sockets[f] \in Conns /\ result[s].mapped = Mapping(sockets[f], result[s].target)
    BY DEF Evidence, GenuineResult, Backed
  <2>2. QED
    BY <2>1, ConnsAssumption
<1>2. QED
  BY <1>1, TypeCorrect, EvidenceHolds, PTL
=============================================================================
