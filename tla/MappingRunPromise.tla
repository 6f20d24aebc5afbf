-------------------------- MODULE MappingRunPromise -------------------------
(***************************************************************************)
(* More proofs about MappingRun: a reader never blocks with the mutex      *)
(* held, every run keeps the contract ProbeAll, a socket in use is served, *)
(* only what was sent is pending, a probe measures the first address that  *)
(* can be reached, and the retransmissions outlast the loss they are for.  *)
(***************************************************************************)
EXTENDS MappingRunProofs, FiniteSetTheorems

-----------------------------------------------------------------------------
(* mu, the pending table and the buffered reply *)

LEMMA LockInit == Init => LockHeld /\ MatchedOnce
  BY ConnsAssumption DEF Init, LockHeld, MatchedOnce

\* Steps that neither take nor leave mu, add no transaction, deliver no reply and
\* start or end no hand-over.
LEMMA LockFrame ==
    ASSUME TypeOK, LockHeld, MatchedOnce,
           UNCHANGED <<mu, main>>,
           pending' \subseteq pending,
           \A t \in Tx : reply'[t] \in {reply[t], None},
           \A c \in Conns : /\ rpc'[c] = "handoff" <=> rpc[c] = "handoff"
                            /\ rpc[c] = "handoff" => rpkt'[c] = rpkt[c]
    PROVE  LockHeld' /\ MatchedOnce'
<1>1. LockHeld'
  BY DEF LockHeld
<1>2. \A t \in pending' : reply'[t] = None
  BY DEF MatchedOnce, TypeOK, TransactionTypes
<1>3. ASSUME NEW c \in Conns, rpc'[c] = "handoff"
      PROVE  rpkt'[c].tx \notin pending' /\ reply'[rpkt'[c].tx] = None
  <2>1. rpc[c] = "handoff" /\ rpkt'[c] = rpkt[c]
    BY <1>3
  <2>2. rpkt[c].tx \in Tx
    BY <2>1 DEF TypeOK, ReaderTypes, Packets
  <2>3. QED
    BY <2>1, <2>2 DEF MatchedOnce
<1>4. QED
  BY <1>1, <1>2, <1>3 DEF MatchedOnce

\* A goroutine that has not sent its request has no reply and no packet on its way.
LEMMA NothingBeforeSend ==
    ASSUME TypeOK, Evidence, NEW t \in Tx, ~Sent(t[1])
    PROVE  /\ reply[t] = None
           /\ \A c \in Conns : rpc[c] = "handoff" => rpkt[c].tx # t
  BY DEF Evidence, GenuineReply, GenuinePacket, Genuine

LEMMA LockNext ==
    TypeOK /\ Evidence /\ LockHeld /\ MatchedOnce /\ [Next]_vars
      => LockHeld' /\ MatchedOnce'
<1> SUFFICES ASSUME TypeOK, Evidence, LockHeld, MatchedOnce, [Next]_vars
             PROVE  LockHeld' /\ MatchedOnce'
  OBVIOUS
<1>0. rpc \in [Conns -> {"off", "read", "pause", "deliver", "handoff", "exited"}]
  BY DEF TypeOK, ReaderTypes
<1>1. ASSUME NEW s \in Servers,
             \/ RejectServer(s) \/ ResolveFails(s) \/ Resolve(s) \/ UseSocket(s)
             \/ SocketFailed(s) \/ ListenFails(s) \/ Write(s) \/ WriteFails(s)
             \/ DropPending(s) \/ GiveUp(s) \/ Retransmit(s)
      PROVE  LockHeld' /\ MatchedOnce'
  <2>1. UNCHANGED <<mu, main, reply, rpc, rpkt>> /\ pending' \subseteq pending
    BY <1>1 DEF RejectServer, ResolveFails, Resolve, UseSocket, SocketFailed,
                ListenFails, Write, WriteFails, DropPending, GiveUp, Retransmit,
                sockVars, readVars
  <2>2. QED
    BY <2>1, LockFrame
<1>2. ASSUME NEW s \in Servers, Listen(s) PROVE LockHeld' /\ MatchedOnce'
  <2>1. PICK c \in Conns : rpc[c] = "off" /\ rpc' = [rpc EXCEPT ![c] = "read"]
    BY <1>2 DEF Listen
  <2>2. \A d \in Conns : rpc'[d] = "handoff" <=> rpc[d] = "handoff"
    BY <1>0, <2>1
  <2>3. UNCHANGED <<mu, main, pending, reply, rpkt>>
    BY <1>2 DEF Listen
  <2>4. QED
    BY <2>2, <2>3, LockFrame
<1>3. ASSUME NEW s \in Servers, InsertPending(s) PROVE LockHeld' /\ MatchedOnce'
  <2>1. /\ pending' = pending \cup {Transaction(s)}
        /\ UNCHANGED <<mu, main, reply, rpc, rpkt>>
    BY <1>3 DEF InsertPending, sockVars, readVars
  <2>2. Transaction(s) \in Tx /\ ~Sent(Transaction(s)[1])
    BY <1>3, TargetType DEF InsertPending, TypeOK, Transaction, Sent
  <2>3. /\ reply[Transaction(s)] = None
        /\ \A c \in Conns : rpc[c] = "handoff" => rpkt[c].tx # Transaction(s)
    BY <2>2, NothingBeforeSend
  <2>4. QED
    BY <2>1, <2>3 DEF LockHeld, MatchedOnce
<1>4. ASSUME NEW s \in Servers, TakeReply(s) PROVE LockHeld' /\ MatchedOnce'
  <2>1. /\ reply' = [reply EXCEPT ![Transaction(s)] = None]
        /\ UNCHANGED <<mu, main, pending, rpc, rpkt>>
    BY <1>4 DEF TakeReply, sockVars, readVars
  <2>2. \A t \in Tx : reply'[t] \in {reply[t], None}
    BY <2>1 DEF TypeOK, TransactionTypes
  <2>3. QED
    BY <2>1, <2>2, LockFrame
<1>5. ASSUME NEW c \in Conns,
             \/ ReadAnswer(c) \/ ReadNoise(c) \/ ReadError(c) \/ Resume(c)
             \/ ReaderExits(c) \/ DropPacket(c)
      PROVE  LockHeld' /\ MatchedOnce'
  <2>1. UNCHANGED <<mu, main, pending, reply>>
    BY <1>5 DEF ReadAnswer, ReadNoise, ReadError, Resume, ReaderExits, DropPacket,
                sockVars
  <2>2. \A d \in Conns : /\ rpc'[d] = "handoff" <=> rpc[d] = "handoff"
                         /\ rpc[d] = "handoff" => rpkt'[d] = rpkt[d]
    <3>1. rpc[c] # "handoff" /\ \E at \in {"deliver", "pause", "read", "exited"} :
            rpc' = [rpc EXCEPT ![c] = at]
      BY <1>5 DEF ReadAnswer, ReadNoise, ReadError, Resume, ReaderExits, DropPacket,
                  Receive
    <3>2. \/ rpkt' = rpkt
          \/ \E p : rpkt' = [rpkt EXCEPT ![c] = p]
      BY <1>5 DEF ReadAnswer, ReadNoise, ReadError, Resume, ReaderExits, DropPacket,
                  Receive
    <3>3. QED
      BY <1>0, <3>1, <3>2 DEF TypeOK, ReaderTypes
  <2>3. QED
    BY <2>1, <2>2, LockFrame
<1>6. ASSUME NEW c \in Conns, MatchPacket(c) PROVE LockHeld' /\ MatchedOnce'
  <2> DEFINE t == rpkt[c].tx
  <2>1. /\ mu = "free" /\ mu' = c /\ t \in pending
        /\ pending' = pending \ {t}
        /\ rpc' = [rpc EXCEPT ![c] = "handoff"]
        /\ UNCHANGED <<main, reply, rpkt>>
    BY <1>6 DEF MatchPacket, Accepts, Delivered
  <2>2. \A d \in Conns : rpc[d] # "handoff"
    BY <2>1, ConnsAssumption DEF LockHeld
  <2>3. main # "closing"
    BY <2>1 DEF LockHeld
  <2>4. \A d \in Conns : rpc'[d] = "handoff" <=> d = c
    BY <1>0, <2>1, <2>2
  <2>5. reply[t] = None
    BY <2>1 DEF MatchedOnce
  <2>6. LockHeld'
    BY <2>1, <2>3, <2>4, ConnsAssumption DEF LockHeld
  <2>7. MatchedOnce'
    BY <2>1, <2>4, <2>5 DEF MatchedOnce
  <2>8. QED
    BY <2>6, <2>7
<1>7. ASSUME NEW c \in Conns, HandOff(c) PROVE LockHeld' /\ MatchedOnce'
  <2> DEFINE p == rpkt[c]
  <2>1. /\ rpc[c] = "handoff" /\ mu = c
        /\ reply' = [reply EXCEPT ![p.tx] = [kind |-> p.kind, mapped |-> p.mapped]]
        /\ rpc' = [rpc EXCEPT ![c] = "read"]
        /\ mu' = "free"
        /\ UNCHANGED <<main, pending>>
    BY <1>7 DEF HandOff, LockHeld
  <2>2. \A d \in Conns : rpc'[d] # "handoff"
    BY <1>0, <2>1 DEF LockHeld
  <2>3. main # "closing"
    BY <2>1, ConnsAssumption DEF LockHeld
  <2>4. p.tx \notin pending
    BY <2>1 DEF MatchedOnce
  <2>5. \A t \in pending : reply'[t] = reply[t]
    BY <2>1, <2>4 DEF TypeOK, TransactionTypes
  <2>6. LockHeld'
    BY <2>1, <2>2, <2>3, ConnsAssumption DEF LockHeld
  <2>7. MatchedOnce'
    BY <2>1, <2>2, <2>5 DEF MatchedOnce
  <2>8. QED
    BY <2>6, <2>7
<1>8. CASE StartClose
  <2>1. \A d \in Conns : rpc[d] # "handoff"
    BY <1>8, ConnsAssumption DEF StartClose, LockHeld
  <2>2. /\ mu' = "close" /\ main' = "closing"
        /\ UNCHANGED <<pending, reply, rpc, rpkt>>
    BY <1>8 DEF StartClose, readVars
  <2>3. QED
    BY <2>1, <2>2, ConnsAssumption DEF LockHeld, MatchedOnce
<1>9. CASE Unlock
  <2>1. \A d \in Conns : rpc[d] # "handoff"
    BY <1>9, ConnsAssumption DEF Unlock, LockHeld
  <2>2. /\ main' = "readers" /\ mu' = "free"
        /\ UNCHANGED <<pending, reply, rpc, rpkt>>
    BY <1>9 DEF Unlock, readVars
  <2>3. QED
    BY <2>1, <2>2, ConnsAssumption DEF LockHeld, MatchedOnce
<1>10. CASE Return
  <2>1. /\ main = "readers" /\ main' = "returned"
        /\ UNCHANGED <<mu, pending, reply, rpc, rpkt>>
    BY <1>10 DEF Return, sockVars, readVars
  <2>2. QED
    BY <2>1 DEF LockHeld, MatchedOnce
<1>11. CASE (\E c \in Conns : CloseConn(c)) \/ Network \/ Expire \/ UNCHANGED vars
  <2>1. UNCHANGED <<mu, main, pending, reply, rpc, rpkt>>
    BY <1>11 DEF CloseConn, Network, Answer, Lose, Expire, vars, sockVars, readVars
  <2>2. QED
    BY <2>1, LockFrame
<1>12. QED
  BY <1>1, <1>2, <1>3, <1>4, <1>5, <1>6, <1>7, <1>8, <1>9, <1>10, <1>11
     DEF Next, Probe, LockStep, FreeStep, Reader, Deliver, Close, Terminated

LEMMA LockHolds == Spec => [](LockHeld /\ MatchedOnce)
<1>1. Init => LockHeld /\ MatchedOnce
  BY LockInit
<1>2. TypeOK /\ Evidence /\ LockHeld /\ MatchedOnce /\ [Next]_vars
        => LockHeld' /\ MatchedOnce'
  BY LockNext
<1>3. QED
  BY <1>1, <1>2, TypeCorrect, EvidenceHolds, PTL DEF Spec

\* The reader holds mu while it sends on tx.reply, and the buffer is empty then, and
\* close lets go of mu before it waits, so neither keeps the others waiting
\* (MappingRun.HolderGoesOn; deliver, transaction.reply, close).
THEOREM HolderHolds == Spec => []HolderGoesOn
<1>1. TypeOK /\ LockHeld /\ MatchedOnce => HolderGoesOn
  BY DEF TypeOK, RunTypes, LockHeld, MatchedOnce, HolderGoesOn
<1>2. QED
  BY <1>1, TypeCorrect, LockHolds, PTL

-----------------------------------------------------------------------------
(* Every result is reported once, and ProbeAll returns after all of them *)

LEMMA ReportedInit == Init => Reported
  BY DEF Init, Reported

\* A step of one goroutine that has not ended: it goes on, or reports a result.
LEMMA ReportedStep ==
    ASSUME TypeOK, Reported, NEW s \in Servers, pc[s] # "done", UNCHANGED main,
           \/ /\ pc[s] # "start" /\ UNCHANGED <<ips, result>>
              /\ \E at \in {"socket", "insert", "write", "undo", "await"} :
                   pc' = [pc EXCEPT ![s] = at]
           \/ /\ UNCHANGED ips
              /\ \E r \in Results : r.kind # "none" /\ Report(s, r)
    PROVE  Reported'
<1>0. /\ pc \in [Servers -> {"start", "socket", "insert", "write", "undo", "await", "done"}]
      /\ result \in [Servers -> Results]
  BY DEF TypeOK, ProbeTypes, ResultTypes
<1>1. main' = "wait"
  BY DEF Reported
<1>2. \A u \in Servers : u # s => pc'[u] = pc[u] /\ result'[u] = result[u]
  BY <1>0 DEF Report
<1>3. ips' = ips
  OBVIOUS
<1>4. pc'[s] = "done" <=> result'[s] # NoResult
  BY <1>0 DEF Report, Reported, NoResult
<1>5. pc'[s] \notin {"start", "done"} => pc[s] # "start"
  BY <1>0 DEF Report
<1>6. QED
  BY <1>1, <1>2, <1>3, <1>4, <1>5 DEF Reported

\* NextAddr is one of the two, and its report sent nothing.
LEMMA NextAddrReports ==
    ASSUME NEW s \in Servers, NEW kind \in {"listen", "write"}, NextAddr(s, kind)
    PROVE  \/ pc' = [pc EXCEPT ![s] = "socket"] /\ UNCHANGED result
           \/ Report(s, Failure(kind))
  BY DEF NextAddr

LEMMA ReportedFrame ==
    ASSUME Reported, UNCHANGED <<pc, ips, result>>,
           main' # "wait" => main # "wait" \/ \A s \in Servers : pc[s] = "done"
    PROVE  Reported'
  BY DEF Reported

LEMMA FailureType ==
    \A kind \in Failures : /\ Failure(kind) \in Results
                           /\ Failure(kind).kind = kind
  BY DEF Failure, Failures, NotSent, Unanswered, Results

\* The result of a reply, and that of none.
LEMMA AnsweredType ==
    ASSUME TypeOK, NEW s \in Servers, pc[s] = "await"
    PROVE  /\ [Failure("noResponse") EXCEPT !.target = Target(s)]
                = [kind |-> "noResponse", target |-> Target(s), mapped |-> None]
           /\ [kind |-> "noResponse", target |-> Target(s), mapped |-> None] \in Results
           /\ LET p == reply[Transaction(s)] IN p # None =>
                /\ p \in Replies
                /\ [kind |-> Outcome(p.kind), target |-> Transaction(s)[2],
                    mapped |-> p.mapped] \in Results
<1>1. Target(s) \in Addrs /\ Transaction(s) \in Tx /\ Transaction(s)[2] = Target(s)
  BY TargetType DEF TypeOK, Transaction
<1>2. reply[Transaction(s)] \in Replies \cup {None}
  BY <1>1 DEF TypeOK, TransactionTypes
<1>3. QED
  BY <1>1, <1>2 DEF Failure, Failures, NotSent, Unanswered, Results, Replies, Outcome

LEMMA ReportedNext == TypeOK /\ Reported /\ [Next]_vars => Reported'
<1> SUFFICES ASSUME TypeOK, Reported, [Next]_vars PROVE Reported'
  OBVIOUS
<1>1. ASSUME NEW s \in Servers, RejectServer(s) \/ ResolveFails(s) PROVE Reported'
  <2>1. \E kind \in {"invalid", "resolve"} : Report(s, Failure(kind))
    BY <1>1 DEF RejectServer, ResolveFails
  <2>2. \E r \in Results : r.kind # "none" /\ Report(s, r)
    BY <2>1, FailureType DEF Failures, NotSent, Unanswered
  <2>3. pc[s] # "done" /\ UNCHANGED <<main, ips>>
    BY <1>1 DEF RejectServer, ResolveFails
  <2>4. QED
    BY <2>2, <2>3, ReportedStep
<1>2. ASSUME NEW s \in Servers, Resolve(s) PROVE Reported'
  <2>1. /\ pc[s] = "start" /\ pc' = [pc EXCEPT ![s] = "socket"]
        /\ UNCHANGED <<result, main>>
    BY <1>2 DEF Resolve
  <2>2. PICK found \in Resolutions[s] : ips' = [ips EXCEPT ![s] = found]
    BY <1>2 DEF Resolve
  <2>3. \A u \in Servers : u # s => pc'[u] = pc[u] /\ ips'[u] = ips[u]
    BY <2>1, <2>2 DEF TypeOK, ProbeTypes
  <2>4. pc'[s] = "socket" /\ ips'[s] = found
    BY <2>1, <2>2 DEF TypeOK, ProbeTypes
  <2>5. QED
    BY <2>1, <2>2, <2>3, <2>4 DEF Reported
<1>3. ASSUME NEW s \in Servers,
             SocketFailed(s) \/ ListenFails(s) \/ DropPending(s)
      PROVE  Reported'
  <2>1. /\ pc[s] \in {"socket", "undo"} /\ UNCHANGED <<main, ips>>
        /\ \E kind \in {"listen", "write"} : NextAddr(s, kind)
    BY <1>3 DEF SocketFailed, ListenFails, DropPending
  <2>2. \/ pc' = [pc EXCEPT ![s] = "socket"] /\ UNCHANGED result
        \/ \E kind \in {"listen", "write"} : Report(s, Failure(kind))
    BY <2>1, NextAddrReports
  <2>3. \/ pc' = [pc EXCEPT ![s] = "socket"] /\ UNCHANGED result
        \/ \E r \in Results : r.kind # "none" /\ Report(s, r)
    BY <2>2, FailureType DEF Failures, NotSent, Unanswered
  <2>4. QED
    BY <2>1, <2>3, ReportedStep
<1>4. ASSUME NEW s \in Servers,
             \/ UseSocket(s) \/ Listen(s) \/ InsertPending(s) \/ Write(s)
             \/ WriteFails(s)
      PROVE  Reported'
  <2>1. /\ pc[s] \in {"socket", "insert", "write"}
        /\ UNCHANGED <<main, ips, result>>
        /\ \E at \in {"insert", "write", "await", "undo"} :
             pc' = [pc EXCEPT ![s] = at]
    BY <1>4 DEF UseSocket, Listen, InsertPending, Write, WriteFails
  <2>2. QED
    BY <2>1, ReportedStep
<1>5. ASSUME NEW s \in Servers, TakeReply(s) PROVE Reported'
  <2> DEFINE p == reply[Transaction(s)]
             r == [kind |-> Outcome(p.kind), target |-> Transaction(s)[2],
                   mapped |-> p.mapped]
  <2>1. /\ pc[s] = "await" /\ p # None /\ Report(s, r)
        /\ UNCHANGED <<main, ips>>
    BY <1>5 DEF TakeReply
  <2>2. r \in Results /\ r.kind # "none"
    BY <2>1, AnsweredType DEF Outcome
  <2>3. QED
    BY <2>1, <2>2, ReportedStep
<1>6. ASSUME NEW s \in Servers, GiveUp(s) PROVE Reported'
  <2> DEFINE r == [kind |-> "noResponse", target |-> Target(s), mapped |-> None]
  <2>1. /\ pc[s] = "await" /\ UNCHANGED <<main, ips>>
        /\ Report(s, [Failure("noResponse") EXCEPT !.target = Target(s)])
    BY <1>6 DEF GiveUp
  <2>2. r \in Results /\ r.kind # "none" /\ Report(s, r)
    BY <2>1, AnsweredType
  <2>3. QED
    BY <2>1, <2>2, ReportedStep
<1>7. ASSUME NEW s \in Servers, Retransmit(s) PROVE Reported'
  BY <1>7, ReportedFrame DEF Retransmit
<1>8. CASE StartClose
  BY <1>8, ReportedFrame DEF StartClose, probeVars
<1>9. CASE Unlock \/ Return \/ \E c \in Conns : CloseConn(c)
  <2>1. UNCHANGED <<pc, ips, result>> /\ main # "wait"
    BY <1>9 DEF Unlock, Return, CloseConn, probeVars
  <2>2. QED
    BY <2>1, ReportedFrame
<1>10. ASSUME NEW c \in Conns, Reader(c) PROVE Reported'
  <2>1. UNCHANGED <<pc, ips, result, main>>
    BY <1>10 DEF Reader, Deliver, ReadAnswer, ReadNoise, ReadError, Resume,
                 ReaderExits, DropPacket, MatchPacket, HandOff, probeVars
  <2>2. QED
    BY <2>1, ReportedFrame
<1>11. CASE Network \/ Expire \/ UNCHANGED vars
  <2>1. UNCHANGED <<pc, ips, result, main>>
    BY <1>11 DEF Network, Answer, Lose, Expire, vars, probeVars
  <2>2. QED
    BY <2>1, ReportedFrame
<1>12. QED
  BY <1>1, <1>2, <1>3, <1>4, <1>5, <1>6, <1>7, <1>8, <1>9, <1>10, <1>11
     DEF Next, Probe, LockStep, FreeStep, Close, Terminated

LEMMA ReportedHolds == Spec => []Reported
<1>1. Init => Reported
  BY ReportedInit
<1>2. TypeOK /\ Reported /\ [Next]_vars => Reported'
  BY ReportedNext
<1>3. QED
  BY <1>1, <1>2, TypeCorrect, PTL DEF Spec

-----------------------------------------------------------------------------
(* The run implements ProbeAll *)

\* The refinement mapping of MappingRun's Promise, by name.
Reach == [s \in Servers |-> UNION {{r[i] : i \in DOMAIN r} : r \in Resolutions[s]}]

LEMMA PromiseInit == Init => Promise!Init
  BY DEF Init, Promise!Init, NoResult, Promise!NoResult

\* A goroutine that has not ended may report any outcome the contract allows.
LEMMA PromiseReport ==
    ASSUME TypeOK, Reported, NEW s \in Servers, pc[s] # "done",
           NEW r \in Promise!Outcomes(s), Report(s, r)
    PROVE  Promise!Report(s)
<1>1. result[s] = Promise!NoResult
  BY DEF Reported, NoResult, Promise!NoResult
<1>2. QED
  BY <1>1 DEF Report, Promise!Report

LEMMA PromiseFailure ==
    ASSUME NEW s \in Servers, NEW kind \in {"invalid", "resolve", "listen", "write"}
    PROVE  Failure(kind) \in Promise!Outcomes(s)
  BY DEF Failure, Promise!Outcomes, NotSent

\* An address a goroutine is at is one its name may resolve to.
LEMMA TargetReached ==
    ASSUME TypeOK, Reported, NEW s \in Servers, pc[s] \notin {"start", "done"}
    PROVE  Target(s) \in Reach[s]
<1>1. ips[s] \in Resolutions[s] /\ next[s] \in DOMAIN ips[s]
  BY DEF Reported, TypeOK, ProbeTypes
<1>2. QED
  BY <1>1 DEF Target, Reach

LEMMA PromiseNextAddr ==
    ASSUME TypeOK, Reported, NEW s \in Servers, pc[s] # "done",
           NEW kind \in {"listen", "write"}, NextAddr(s, kind)
    PROVE  UNCHANGED result \/ Promise!Report(s)
<1>1. CASE UNCHANGED result
  BY <1>1
<1>2. CASE Report(s, Failure(kind))
  BY <1>2, PromiseFailure, PromiseReport
<1>3. QED
  BY <1>1, <1>2, NextAddrReports

LEMMA PromiseStep ==
    TypeOK /\ Evidence /\ Reported /\ [Next]_vars => [Promise!Next]_(Promise!vars)
<1> SUFFICES ASSUME TypeOK, Evidence, Reported, [Next]_vars
             PROVE  Promise!Next \/ UNCHANGED <<sockets, result, main = "returned">>
  BY DEF Promise!vars
<1>1. ASSUME NEW s \in Servers, RejectServer(s) \/ ResolveFails(s)
      PROVE  Promise!Next
  <2>1. PICK kind \in {"invalid", "resolve"} : Report(s, Failure(kind))
    BY <1>1 DEF RejectServer, ResolveFails
  <2>2. pc[s] # "done" /\ UNCHANGED <<sockets, main>>
    BY <1>1 DEF RejectServer, ResolveFails, sockVars
  <2>3. Promise!Report(s)
    BY <2>1, <2>2, PromiseFailure, PromiseReport
  <2>4. QED
    BY <2>2, <2>3 DEF Promise!Next, Promise!BindOrReport
<1>2. ASSUME NEW s \in Servers, SocketFailed(s) \/ DropPending(s)
      PROVE  Promise!Next
  <2>1. /\ pc[s] # "done" /\ UNCHANGED <<sockets, main>>
        /\ \E kind \in {"listen", "write"} : NextAddr(s, kind)
    BY <1>2 DEF SocketFailed, DropPending, sockVars
  <2>2. UNCHANGED result \/ Promise!Report(s)
    BY <2>1, PromiseNextAddr
  <2>3. QED
    BY <2>1, <2>2 DEF Promise!Next, Promise!BindOrReport
<1>3. ASSUME NEW s \in Servers, ListenFails(s) PROVE Promise!Next
  <2> DEFINE f == Family[Target(s)]
  <2>1. /\ pc[s] = "socket" /\ UNCHANGED main /\ sockets[f] = None
        /\ sockets' = [sockets EXCEPT ![f] = "failed"]
        /\ NextAddr(s, "listen")
    BY <1>3 DEF ListenFails, Cached
  <2>2. f \in Families
    BY <2>1, TargetType, FamilyAssumption DEF TypeOK
  <2>3. Promise!Bind(f)
    BY <2>1, <2>2 DEF Promise!Bind
  <2>4. UNCHANGED result \/ Promise!Report(s)
    BY <2>1, PromiseNextAddr
  <2>5. QED
    BY <2>1, <2>2, <2>3, <2>4 DEF Promise!Next, Promise!BindOrReport
<1>4. ASSUME NEW s \in Servers, Listen(s) PROVE Promise!Next
  <2> DEFINE f == Family[Target(s)]
  <2>1. /\ pc[s] = "socket" /\ UNCHANGED <<main, result>> /\ sockets[f] = None
        /\ \E c \in Conns : sockets' = [sockets EXCEPT ![f] = c]
    BY <1>4 DEF Listen, Cached
  <2>2. f \in Families
    BY <2>1, TargetType, FamilyAssumption DEF TypeOK
  <2>3. Promise!Bind(f)
    BY <2>1, <2>2 DEF Promise!Bind
  <2>4. QED
    BY <2>1, <2>2, <2>3 DEF Promise!Next, Promise!BindOrReport
<1>5. ASSUME NEW s \in Servers, TakeReply(s) PROVE Promise!Next
  <2> DEFINE t == Transaction(s)
             p == reply[t]
             r == [kind |-> Outcome(p.kind), target |-> t[2], mapped |-> p.mapped]
  <2>1. /\ pc[s] = "await" /\ p # None /\ Report(s, r)
        /\ UNCHANGED <<main, sockets>>
    BY <1>5 DEF TakeReply, sockVars
  <2>2. t[2] = Target(s) /\ t \in Tx /\ Target(s) \in Reach[s]
    BY <2>1, TargetType, TargetReached DEF Transaction, TypeOK
  <2>3. Genuine(t, p.kind, p.mapped) /\ p.kind \in {"success", "error"}
    BY <2>1, <2>2, AnsweredType DEF Evidence, GenuineReply, Replies
  <2>4. r \in Promise!Outcomes(s)
    <3>1. CASE p.kind = "success"
      <4>1. r = [kind |-> "ok", target |-> Target(s),
                 mapped |-> Mapping(sockets[Family[Target(s)]], Target(s))]
        BY <2>2, <2>3, <3>1 DEF Genuine, Outcome
      <4>2. QED
        BY <2>2, <2>3, <4>1 DEF Genuine, Promise!Outcomes, Reach
    <3>2. CASE p.kind = "error"
      <4>1. r = [kind |-> "badReply", target |-> Target(s), mapped |-> None]
        BY <2>2, <2>3, <3>2 DEF Genuine, Outcome
      <4>2. QED
        BY <2>2, <2>3, <4>1
           DEF Genuine, Promise!Outcomes, Unanswered, Reach
    <3>3. QED
      BY <2>3, <3>1, <3>2
  <2>5. Promise!Report(s)
    BY <2>1, <2>4, PromiseReport
  <2>6. QED
    BY <2>1, <2>5 DEF Promise!Next, Promise!BindOrReport
<1>6. ASSUME NEW s \in Servers, GiveUp(s) PROVE Promise!Next
  <2> DEFINE r == [kind |-> "noResponse", target |-> Target(s), mapped |-> None]
  <2>1. pc[s] = "await" /\ UNCHANGED <<main, sockets>>
    BY <1>6 DEF GiveUp, sockVars
  <2>2. Report(s, r)
    BY <1>6, <2>1, AnsweredType DEF GiveUp
  <2>3. /\ Target(s) \in Reach[s]
        /\ sockets[Family[Target(s)]] \in Conns
    BY <2>1, TargetReached DEF Evidence, SharedSocket
  <2>4. r \in Promise!Outcomes(s)
    BY <2>3 DEF Promise!Outcomes, Unanswered, Reach
  <2>5. Promise!Report(s)
    BY <2>1, <2>2, <2>4, PromiseReport
  <2>6. QED
    BY <2>1, <2>5 DEF Promise!Next, Promise!BindOrReport
<1>7. CASE Return
  <2>1. \A s \in Servers : result[s] # Promise!NoResult
    BY <1>7 DEF Return, Reported, NoResult, Promise!NoResult
  <2>2. UNCHANGED <<sockets, result>> /\ main = "readers" /\ main' = "returned"
    BY <1>7 DEF Return, probeVars, sockVars
  <2>3. QED
    BY <2>1, <2>2 DEF Promise!Next, Promise!Return
<1>8. ASSUME NEW s \in Servers,
             \/ Resolve(s) \/ UseSocket(s) \/ InsertPending(s) \/ Write(s)
             \/ WriteFails(s) \/ Retransmit(s)
      PROVE  UNCHANGED <<sockets, result, main = "returned">>
  BY <1>8 DEF Resolve, UseSocket, InsertPending, Write, WriteFails, Retransmit,
              sockVars
<1>9. ASSUME NEW c \in Conns, Reader(c)
      PROVE  UNCHANGED <<sockets, result, main = "returned">>
  BY <1>9 DEF Reader, Deliver, ReadAnswer, ReadNoise, ReadError, Resume,
              ReaderExits, DropPacket, MatchPacket, HandOff, probeVars, sockVars
<1>10. CASE StartClose \/ Unlock \/ \E c \in Conns : CloseConn(c)
  BY <1>10 DEF StartClose, Unlock, CloseConn, probeVars
<1>11. CASE Network \/ Expire \/ UNCHANGED vars
  BY <1>11 DEF Network, Answer, Lose, Expire, vars, probeVars, sockVars
<1>12. QED
  BY <1>1, <1>2, <1>3, <1>4, <1>5, <1>6, <1>7, <1>8, <1>9, <1>10, <1>11
     DEF Next, Probe, LockStep, FreeStep, Close, Terminated

\* Sockets, results and the return of ProbeAll follow the contract of ProbeAll.tla
\* in every run (ProbeAll, mappingRun).
THEOREM Refines == Spec => KeepsPromise
<1>1. Init => Promise!Init
  BY PromiseInit
<1>2. TypeOK /\ Evidence /\ Reported /\ [Next]_vars => [Promise!Next]_(Promise!vars)
  BY PromiseStep
<1>3. QED
  BY <1>1, <1>2, TypeCorrect, EvidenceHolds, ReportedHolds, PTL
     DEF Spec, KeepsPromise, Promise!Spec

-----------------------------------------------------------------------------
(* A socket in use is served *)

\* The sockets in the table are open, with a live reader, until close.
Served ==
    main = "wait" => \A f \in Families : sockets[f] \in Conns =>
        sockets[f] \in open /\ rpc[sockets[f]] \notin {"off", "exited"}

LEMMA ServedInit == Init => Served
  BY NoneAssumption DEF Init, Served

\* Steps that bind and close nothing, and end no reader of an open socket.
LEMMA ServedFrame ==
    ASSUME TypeOK, Served, main' = "wait" => main = "wait",
           \A f \in Families : sockets'[f] \in Conns => sockets'[f] = sockets[f],
           open \subseteq open',
           \A c \in open : rpc[c] \notin {"off", "exited"} => rpc'[c] \notin {"off", "exited"}
    PROVE  Served'
  BY DEF Served

LEMMA ServedNext == TypeOK /\ Served /\ [Next]_vars => Served'
<1> SUFFICES ASSUME TypeOK, Served, [Next]_vars PROVE Served'
  OBVIOUS
<1>0. /\ rpc \in [Conns -> {"off", "read", "pause", "deliver", "handoff", "exited"}]
      /\ sockets \in [Families -> Conns \cup {None, "failed"}] /\ open \subseteq Conns
  BY DEF TypeOK, RunTypes, ReaderTypes
<1>1. ASSUME NEW s \in Servers,
             \/ RejectServer(s) \/ ResolveFails(s) \/ Resolve(s) \/ UseSocket(s)
             \/ SocketFailed(s) \/ InsertPending(s) \/ Write(s) \/ WriteFails(s)
             \/ DropPending(s) \/ TakeReply(s) \/ GiveUp(s) \/ Retransmit(s)
      PROVE  Served'
  <2>1. UNCHANGED <<main, sockets, open, rpc>>
    BY <1>1
       DEF RejectServer, ResolveFails, Resolve, UseSocket, SocketFailed, InsertPending,
           Write, WriteFails, DropPending, TakeReply, GiveUp, Retransmit, sockVars, readVars
  <2>2. QED
    BY <2>1, ServedFrame
<1>2. ASSUME NEW s \in Servers, ListenFails(s) PROVE Served'
  <2>1. /\ sockets' = [sockets EXCEPT ![Family[Target(s)]] = "failed"]
        /\ UNCHANGED <<main, open, rpc>>
    BY <1>2 DEF ListenFails, readVars
  <2>2. \A f \in Families : sockets'[f] \in Conns => sockets'[f] = sockets[f]
    BY <1>0, <2>1, ConnsAssumption
  <2>3. QED
    BY <2>1, <2>2, ServedFrame
<1>3. ASSUME NEW s \in Servers, Listen(s) PROVE Served'
  <2>1. PICK c \in Conns :
          /\ sockets' = [sockets EXCEPT ![Family[Target(s)]] = c]
          /\ open' = open \cup {c} /\ rpc' = [rpc EXCEPT ![c] = "read"]
          /\ UNCHANGED main
    BY <1>3 DEF Listen
  <2>2. ASSUME NEW f \in Families, sockets'[f] \in Conns, main = "wait"
        PROVE  sockets'[f] \in open' /\ rpc'[sockets'[f]] \notin {"off", "exited"}
    <3>1. sockets'[f] = c \/ sockets'[f] = sockets[f]
      BY <1>0, <2>1
    <3>2. CASE sockets'[f] = c
      BY <1>0, <2>1, <3>2
    <3>3. CASE sockets'[f] = sockets[f]
      <4>1. sockets[f] \in open /\ rpc[sockets[f]] \notin {"off", "exited"}
        BY <2>2, <3>3 DEF Served
      <4>2. QED
        BY <1>0, <2>1, <3>3, <4>1
    <3>4. QED
      BY <3>1, <3>2, <3>3
  <2>3. QED
    BY <2>1, <2>2 DEF Served
<1>4. ASSUME NEW c \in Conns, Reader(c) PROVE Served'
  <2>1. \A d \in open : rpc[d] \notin {"off", "exited"} => rpc'[d] \notin {"off", "exited"}
    BY <1>0, <1>4
       DEF Reader, Deliver, ReadAnswer, ReadNoise, Receive, ReadError, Resume, ReaderExits,
           DropPacket, MatchPacket, HandOff
  <2>2. UNCHANGED <<main, sockets, open>>
    BY <1>4
       DEF Reader, Deliver, ReadAnswer, ReadNoise, ReadError, Resume, ReaderExits,
           DropPacket, MatchPacket, HandOff, sockVars
  <2>3. QED
    BY <2>1, <2>2, ServedFrame
<1>5. CASE Close
  BY <1>5 DEF Close, StartClose, CloseConn, Unlock, Return, Served
<1>6. CASE Network \/ Expire \/ UNCHANGED vars
  <2>1. UNCHANGED <<main, sockets, open, rpc>>
    BY <1>6 DEF Network, Answer, Lose, Expire, vars, sockVars, readVars
  <2>2. QED
    BY <2>1, ServedFrame
<1>7. QED
  BY <1>1, <1>2, <1>3, <1>4, <1>5, <1>6 DEF Next, Probe, LockStep, FreeStep, Terminated

\* A socket in use is the one of its family, and close comes after the last use.
LEMMA UsedIsServed == TypeOK /\ Evidence /\ Reported /\ Served => SocketServed
<1> SUFFICES ASSUME TypeOK, Evidence, Reported, Served, NEW s \in Servers,
                    pc[s] \in {"insert", "write", "undo", "await"}
             PROVE  conn[s] \in open /\ rpc[conn[s]] \notin {"off", "exited"}
  BY DEF SocketServed
<1>1. main = "wait"
  BY DEF Reported
<1>2. Family[Target(s)] \in Families
  BY TargetType, FamilyAssumption DEF TypeOK
<1>3. conn[s] \in Conns /\ sockets[Family[Target(s)]] = conn[s]
  BY DEF Evidence, SharedSocket
<1>4. QED
  BY <1>1, <1>2, <1>3 DEF Served

\* No socket is closed, and no reader ends, under a probe that needs it
\* (MappingRun.SocketServed; close, read).
THEOREM SocketServedHolds == Spec => []SocketServed
<1>1. Spec => []Served
  BY ServedInit, ServedNext, TypeCorrect, PTL DEF Spec
<1>2. QED
  BY <1>1, UsedIsServed, TypeCorrect, EvidenceHolds, ReportedHolds, PTL

-----------------------------------------------------------------------------
(* What is pending was sent, or is about to be *)

LEMMA PendingInit == Init => PendingWasSent
  BY DEF Init, PendingWasSent

\* Steps that add no transaction and leave every goroutine that is sending.
LEMMA PendingFrame ==
    ASSUME TypeOK, PendingWasSent, pending' \subseteq pending,
           \A t \in Tx : wire[t][0] # "unsent" => wire'[t][0] # "unsent",
           \A s \in Servers : pc[s] \in {"write", "undo"} =>
             pc'[s] \in {"write", "undo"} /\ UNCHANGED <<ips[s], next[s]>>
    PROVE  PendingWasSent'
<1> SUFFICES ASSUME NEW t \in pending'
             PROVE  \/ wire'[t][0] # "unsent"
                    \/ pc'[t[1]] \in {"write", "undo"} /\ Transaction(t[1])' = t
  BY DEF PendingWasSent
<1>1. t \in Tx /\ t[1] \in Servers
  BY DEF TypeOK, TransactionTypes, Tx
<1>2. CASE wire[t][0] # "unsent"
  BY <1>1, <1>2
<1>3. CASE pc[t[1]] \in {"write", "undo"} /\ Transaction(t[1]) = t
  BY <1>1, <1>3 DEF Transaction, Target
<1>4. QED
  BY <1>2, <1>3 DEF PendingWasSent

\* What a goroutine that leaves the sending states needs to have done.
LEMMA PendingLeave ==
    ASSUME TypeOK, PendingWasSent, NEW s \in Servers, pending' \subseteq pending,
           Transaction(s) \in pending' => wire'[Transaction(s)][0] # "unsent",
           \A t \in Tx : wire[t][0] # "unsent" => wire'[t][0] # "unsent",
           \A r \in Servers \ {s} : UNCHANGED <<pc[r], ips[r], next[r]>>
    PROVE  PendingWasSent'
<1> SUFFICES ASSUME NEW t \in pending'
             PROVE  \/ wire'[t][0] # "unsent"
                    \/ pc'[t[1]] \in {"write", "undo"} /\ Transaction(t[1])' = t
  BY DEF PendingWasSent
<1>1. t \in Tx /\ t[1] \in Servers
  BY DEF TypeOK, TransactionTypes, Tx
<1>2. CASE wire[t][0] # "unsent"
  BY <1>1, <1>2
<1>3. CASE pc[t[1]] \in {"write", "undo"} /\ Transaction(t[1]) = t
  <2>1. CASE t[1] = s
    BY <1>3, <2>1
  <2>2. CASE t[1] # s
    BY <1>1, <1>3, <2>2 DEF Transaction, Target
  <2>3. QED
    BY <2>1, <2>2
<1>4. QED
  BY <1>2, <1>3 DEF PendingWasSent

\* A packet that went out never becomes unsent again, whatever is written over it.
LEMMA WireOverwrite ==
    ASSUME wire \in [Tx -> [Sends -> InFlight \cup {"unsent", "read", "lost"}]],
           NEW t \in Tx, NEW n \in Sends, NEW k, k # "unsent",
           wire' = [wire EXCEPT ![t][n] = k]
    PROVE  \A u \in Tx : wire[u][0] # "unsent" => wire'[u][0] # "unsent"
<1> SUFFICES ASSUME NEW u \in Tx, wire[u][0] # "unsent" PROVE wire'[u][0] # "unsent"
  OBVIOUS
<1>0. 0 \in Sends
  BY GapsAssumption DEF Sends
<1>1. CASE u = t
  <2>1. wire'[t] = [wire[t] EXCEPT ![n] = k]
    OBVIOUS
  <2>2. QED
    BY <1>0, <1>1, <2>1
<1>2. CASE u # t
  BY <1>2
<1>3. QED
  BY <1>1, <1>2

LEMMA PendingNext == TypeOK /\ PendingWasSent /\ [Next]_vars => PendingWasSent'
<1> SUFFICES ASSUME TypeOK, PendingWasSent, [Next]_vars PROVE PendingWasSent'
  OBVIOUS
<1>0. /\ pc \in [Servers -> {"start", "socket", "insert", "write", "undo", "await", "done"}]
      /\ ips \in [Servers -> Seq(Addrs)] /\ next \in [Servers -> Nat]
      /\ wire \in [Tx -> [Sends -> InFlight \cup {"unsent", "read", "lost"}]]
      /\ 0 \in Sends
  BY GapsAssumption DEF TypeOK, ProbeTypes, TransactionTypes, Sends
<1>1. ASSUME NEW s \in Servers,
             \/ RejectServer(s) \/ ResolveFails(s) \/ Resolve(s) \/ UseSocket(s)
             \/ SocketFailed(s) \/ ListenFails(s) \/ Listen(s) \/ WriteFails(s)
             \/ TakeReply(s) \/ GiveUp(s)
      PROVE  PendingWasSent'
  <2>1. UNCHANGED <<pending, wire>>
    BY <1>1
       DEF RejectServer, ResolveFails, Resolve, UseSocket, SocketFailed, ListenFails,
           Listen, WriteFails, TakeReply, GiveUp
  <2>2. \A r \in Servers : pc[r] \in {"write", "undo"} =>
          pc'[r] \in {"write", "undo"} /\ UNCHANGED <<ips[r], next[r]>>
    BY <1>0, <1>1
       DEF RejectServer, ResolveFails, Resolve, UseSocket, SocketFailed, ListenFails,
           Listen, WriteFails, TakeReply, GiveUp, NextAddr, Report
  <2>3. QED
    BY <2>1, <2>2, PendingFrame
<1>2. ASSUME NEW s \in Servers, InsertPending(s) PROVE PendingWasSent'
  <2>1. /\ pending' = pending \cup {Transaction(s)} /\ pc[s] = "insert"
        /\ pc' = [pc EXCEPT ![s] = "write"] /\ UNCHANGED <<ips, next, wire>>
    BY <1>2 DEF InsertPending
  <2>2. Transaction(s)[1] = s /\ pc'[s] = "write"
    BY <1>0, <2>1 DEF Transaction
  <2>3. \A r : Transaction(r)' = Transaction(r)
    BY <2>1 DEF Transaction, Target
  <2>4. \A t \in pending : pc[t[1]] \in {"write", "undo"} => pc'[t[1]] = pc[t[1]]
    BY <1>0, <2>1
  <2>5. QED
    BY <2>1, <2>2, <2>3, <2>4 DEF PendingWasSent
<1>3. ASSUME NEW s \in Servers, Write(s) PROVE PendingWasSent'
  <2>1. Transaction(s) \in Tx
    BY <1>3, TargetType DEF Write, TypeOK
  <2>2. /\ wire' = [wire EXCEPT ![Transaction(s)][0] = "sent"]
        /\ pc' = [pc EXCEPT ![s] = "await"] /\ UNCHANGED <<ips, next, pending>>
    BY <1>3 DEF Write
  <2>3. wire'[Transaction(s)][0] = "sent"
    BY <1>0, <2>1, <2>2
  <2>4. \A t \in Tx : wire[t][0] # "unsent" => wire'[t][0] # "unsent"
    BY <1>0, <2>1, <2>2
  <2>5. QED
    BY <1>0, <2>2, <2>3, <2>4, PendingLeave
<1>4. ASSUME NEW s \in Servers, DropPending(s) PROVE PendingWasSent'
  <2>1. pending' = pending \ {Transaction(s)} /\ UNCHANGED <<ips, wire>> /\ NextAddr(s, "write")
    BY <1>4 DEF DropPending
  <2>2. \A r \in Servers \ {s} : UNCHANGED <<pc[r], ips[r], next[r]>>
    BY <1>0, <2>1 DEF NextAddr, Report
  <2>3. QED
    BY <2>1, <2>2, PendingLeave
<1>5. ASSUME NEW s \in Servers, Retransmit(s) PROVE PendingWasSent'
  <2>1. Transaction(s) \in Tx /\ gap[s] \in Sends /\ gap' = [gap EXCEPT ![s] = @ + 1]
    BY <1>5, TargetType DEF Retransmit, TypeOK, ProbeTypes
  <2>2. wire' = [wire EXCEPT ![Transaction(s)][gap'[s]] = "sent"]
    BY <1>5 DEF Retransmit
  <2>3. \A t \in Tx : wire[t][0] # "unsent" => wire'[t][0] # "unsent"
    BY <1>0, <2>1, <2>2
  <2>4. UNCHANGED <<pc, ips, next, pending>>
    BY <1>5 DEF Retransmit
  <2>5. QED
    BY <2>3, <2>4, PendingFrame
<1>6. ASSUME NEW c \in Conns, Reader(c) PROVE PendingWasSent'
  <2>1. \A t \in Tx : wire[t][0] # "unsent" => wire'[t][0] # "unsent"
    <3>1. CASE ReadAnswer(c)
      <4>1. PICK t \in Tx, n \in Sends : wire' \in {wire, [wire EXCEPT ![t][n] = "read"]}
        BY <3>1 DEF ReadAnswer
      <4>2. CASE wire' = wire
        BY <4>2
      <4>3. CASE wire' = [wire EXCEPT ![t][n] = "read"]
        BY <1>0, <4>3, WireOverwrite
      <4>4. QED
        BY <4>1, <4>2, <4>3
    <3>2. CASE ~ReadAnswer(c)
      <4>1. UNCHANGED wire
        BY <1>6, <3>2
           DEF Reader, Deliver, ReadNoise, ReadError, Resume, ReaderExits, DropPacket,
               MatchPacket, HandOff
      <4>2. QED
        BY <4>1
    <3>3. QED
      BY <3>1, <3>2
  <2>2. UNCHANGED <<pc, ips, next>> /\ pending' \subseteq pending
    BY <1>6
       DEF Reader, Deliver, ReadAnswer, ReadNoise, ReadError, Resume, ReaderExits,
           DropPacket, MatchPacket, Delivered, HandOff, probeVars
  <2>3. QED
    BY <2>1, <2>2, PendingFrame
<1>7. CASE Network
  <2>1. \A t \in Tx : wire[t][0] # "unsent" => wire'[t][0] # "unsent"
    <3>1. CASE \E t \in Tx, n \in Sends : Answer(t, n)
      <4>1. PICK t \in Tx, n \in Sends : Answer(t, n)
        BY <3>1
      <4>2. PICK k \in Answers[t[2]] : wire' = [wire EXCEPT ![t][n] = k]
        BY <4>1 DEF Answer
      <4>3. k # "unsent"
        BY AnswersAssumption DEF Tx
      <4>4. QED
        BY <1>0, <4>2, <4>3, WireOverwrite
    <3>2. CASE \E t \in Tx, n \in Sends : Lose(t, n)
      <4>1. PICK t \in Tx, n \in Sends : wire' = [wire EXCEPT ![t][n] = "lost"]
        BY <3>2 DEF Lose
      <4>2. QED
        BY <1>0, <4>1, WireOverwrite
    <3>3. QED
      BY <1>7, <3>1, <3>2 DEF Network
  <2>2. UNCHANGED <<pc, ips, next, pending>>
    BY <1>7 DEF Network, Answer, Lose, probeVars
  <2>3. QED
    BY <2>1, <2>2, PendingFrame
<1>8. CASE Close \/ Expire \/ UNCHANGED vars
  <2>1. UNCHANGED <<pc, ips, next, pending, wire>>
    BY <1>8 DEF Close, StartClose, CloseConn, Unlock, Return, Expire, vars, probeVars
  <2>2. QED
    BY <2>1, PendingFrame
<1>9. QED
  BY <1>1, <1>2, <1>3, <1>4, <1>5, <1>6, <1>7, <1>8
     DEF Next, Probe, LockStep, FreeStep, Terminated

\* Packets are admitted only from endpoints a request went to, or is going to
\* (MappingRun.PendingWasSent; send, deliver).
THEOREM PendingWasSentHolds == Spec => []PendingWasSent
  BY PendingInit, PendingNext, TypeCorrect, PTL DEF Spec

-----------------------------------------------------------------------------
(* The first usable address *)

\* Families bound so far are those the host can bind; families that failed are not.
BoundRight ==
    \A f \in Families :
        /\ sockets[f] = "failed" => f \notin env.bind
        /\ sockets[f] \in Conns => f \in env.bind

Usable(a) == Family[a] \in env.bind /\ a \in env.route

\* What a probe that is done says of the addresses it resolved.
Chosen(s) ==
    LET usable == {i \in DOMAIN ips[s] : Usable(ips[s][i])} IN
    IF usable = {}
    THEN result[s].kind \in {"listen", "write"} /\ result[s].target = None
    ELSE \E i \in usable : /\ result[s].target = ips[s][i]
                           /\ \A j \in usable : i <= j

\* Everything before the address a probe is at was of no use, and its place in the
\* code says which of the two conditions the present one has been seen to meet.
Tried(s) ==
    /\ pc[s] = "start" => ips[s] = <<>>
    /\ pc[s] \notin {"start", "done"} =>
         \A j \in DOMAIN ips[s] : j < next[s] => ~Usable(ips[s][j])
    /\ pc[s] = "undo" => Target(s) \notin env.route
    /\ pc[s] = "await" => Target(s) \in env.route
    /\ pc[s] = "done" /\ ips[s] # <<>> => Chosen(s)

AllTried == BoundRight /\ \A s \in Servers : Tried(s)

LEMMA TriedInit == Init => AllTried
  BY NoneAssumption, ConnsAssumption DEF Init, AllTried, BoundRight, Tried

LEMMA TriedFrame ==
    ASSUME NEW s \in Servers, Tried(s), UNCHANGED <<env, pc[s], ips[s], next[s], result[s]>>
    PROVE  Tried(s)'
  BY DEF Tried, Chosen, Usable, Target

\* Giving up the present address, which is of no use, leads to the next one or to
\* an error that is right.
LEMMA TriedNext ==
    ASSUME TypeOK, NEW s \in Servers, pc[s] \notin {"start", "done"}, Tried(s),
           ~Usable(Target(s)), NEW kind \in {"listen", "write"}, NextAddr(s, kind),
           UNCHANGED <<env, ips>>
    PROVE  Tried(s)'
<1>0. /\ pc \in [Servers -> {"start", "socket", "insert", "write", "undo", "await", "done"}]
      /\ ips[s] \in Seq(Addrs) /\ next \in [Servers -> Nat] /\ next[s] \in 1 .. Len(ips[s])
      /\ result \in [Servers -> Results]
  BY DEF TypeOK, ProbeTypes, ResultTypes
<1>1. \A j \in DOMAIN ips[s] : j <= next[s] => ~Usable(ips[s][j])
  BY <1>0 DEF Tried, Target
<1>2. CASE next[s] < Len(ips[s])
  <2>1. next'[s] = next[s] + 1 /\ pc'[s] = "socket"
    BY <1>0, <1>2 DEF NextAddr
  <2>2. \A j \in DOMAIN ips'[s] : j < next'[s] => ~Usable(ips[s][j])'
    BY <1>0, <1>1, <2>1 DEF Usable
  <2>3. QED
    BY <2>1, <2>2 DEF Tried
<1>3. CASE ~(next[s] < Len(ips[s]))
  <2>1. result'[s] = Failure(kind) /\ pc'[s] = "done"
    BY <1>0, <1>3 DEF NextAddr, Report
  <2>2. {i \in DOMAIN ips[s] : Usable(ips[s][i])} = {}
    BY <1>0, <1>1, <1>3
  <2>3. {i \in DOMAIN ips'[s] : Usable(ips[s][i])'} = {}
    BY <2>2 DEF Usable
  <2>4. Chosen(s)'
    BY <2>1, <2>3 DEF Chosen, Failure
  <2>5. QED
    BY <2>1, <2>4 DEF Tried
<1>4. QED
  BY <1>2, <1>3

\* A probe that has sent its request reports of the address it sent it to.
LEMMA TriedReport ==
    ASSUME TypeOK, Evidence, BoundRight, NEW s \in Servers, pc[s] = "await", Tried(s),
           NEW r, r.target = Target(s), Report(s, r), UNCHANGED <<env, ips>>
    PROVE  Tried(s)'
<1>0. /\ ips[s] \in Seq(Addrs) /\ next[s] \in 1 .. Len(ips[s]) /\ next[s] \in Nat
      /\ pc \in [Servers -> {"start", "socket", "insert", "write", "undo", "await", "done"}]
      /\ result \in [Servers -> Results]
  BY DEF TypeOK, ProbeTypes, ResultTypes
<1>1. Family[Target(s)] \in env.bind
  BY TargetType, FamilyAssumption DEF TypeOK, Evidence, SharedSocket, BoundRight
<1>2. Usable(ips[s][next[s]]) /\ next[s] \in DOMAIN ips[s]
  BY <1>0, <1>1 DEF Usable, Tried, Target
<1>3. \A j \in DOMAIN ips[s] : Usable(ips[s][j]) => next[s] <= j
  BY <1>0 DEF Tried
<1>4. result'[s].target = ips[s][next[s]] /\ pc'[s] = "done"
  BY <1>0 DEF Report, Target
<1>5. \A j \in DOMAIN ips[s] : Usable(ips[s][j])' <=> Usable(ips[s][j])
  BY DEF Usable
<1>6. Chosen(s)'
  BY <1>2, <1>3, <1>4, <1>5 DEF Chosen
<1>7. QED
  BY <1>4, <1>6 DEF Tried

LEMMA TriedStep ==
    TypeOK /\ Evidence /\ AllTried /\ [Next]_vars => AllTried'
<1> SUFFICES ASSUME TypeOK, Evidence, BoundRight, \A s \in Servers : Tried(s), [Next]_vars
             PROVE  BoundRight' /\ \A s \in Servers : Tried(s)'
  BY DEF AllTried
<1>0. /\ pc \in [Servers -> {"start", "socket", "insert", "write", "undo", "await", "done"}]
      /\ ips \in [Servers -> Seq(Addrs)] /\ next \in [Servers -> Nat]
      /\ result \in [Servers -> Results]
      /\ sockets \in [Families -> Conns \cup {None, "failed"}]
      /\ \A s \in Servers : pc[s] = "start" => next[s] = 1
  BY DEF TypeOK, ProbeTypes, ResultTypes, RunTypes
<1>1. ASSUME UNCHANGED <<env, probeVars, sockets>>
      PROVE  BoundRight' /\ \A s \in Servers : Tried(s)'
  BY <1>1, TriedFrame DEF BoundRight, probeVars
<1>2. ASSUME NEW s \in Servers, UNCHANGED env, Tried(s)',
             \A r \in Servers \ {s} : UNCHANGED <<pc[r], ips[r], next[r], result[r]>>
      PROVE  \A r \in Servers : Tried(r)'
  BY <1>2, TriedFrame
<1>3. ASSUME NEW s \in Servers, RejectServer(s) \/ ResolveFails(s)
      PROVE  BoundRight' /\ \A r \in Servers : Tried(r)'
  <2>1. /\ pc[s] = "start" /\ pc' = [pc EXCEPT ![s] = "done"]
        /\ \E r : result' = [result EXCEPT ![s] = r]
        /\ UNCHANGED <<env, ips, next, sockets>>
    BY <1>3 DEF RejectServer, ResolveFails, Report, sockVars
  <2>2. Tried(s)'
    BY <1>0, <2>1 DEF Tried
  <2>3. QED
    BY <1>0, <1>2, <2>1, <2>2 DEF BoundRight
<1>4. ASSUME NEW s \in Servers, Resolve(s)
      PROVE  BoundRight' /\ \A r \in Servers : Tried(r)'
  <2>1. /\ pc[s] = "start" /\ pc' = [pc EXCEPT ![s] = "socket"]
        /\ \E found \in Resolutions[s] : ips' = [ips EXCEPT ![s] = found]
        /\ UNCHANGED <<env, next, result, sockets>>
    BY <1>4 DEF Resolve, sockVars
  <2>2. ips'[s] \in Seq(Addrs) /\ next'[s] = 1 /\ pc'[s] = "socket"
    BY <1>0, <2>1, ResolutionAssumption
  <2>3. Tried(s)'
    BY <2>2 DEF Tried
  <2>4. QED
    BY <1>0, <1>2, <2>1, <2>3 DEF BoundRight
<1>5. ASSUME NEW s \in Servers,
             \/ UseSocket(s) \/ Listen(s) \/ InsertPending(s) \/ Write(s) \/ WriteFails(s)
      PROVE  \A r \in Servers : Tried(r)'
  <2>1. /\ pc[s] \notin {"start", "done"}
        /\ pc'[s] \in {"insert", "write", "await", "undo"}
        /\ pc'[s] = "await" => Target(s) \in env.route
        /\ pc'[s] = "undo" => Target(s) \notin env.route
        /\ \A r \in Servers \ {s} : UNCHANGED pc[r]
        /\ UNCHANGED <<env, ips, next, result>>
    BY <1>0, <1>5 DEF UseSocket, Listen, InsertPending, Write, WriteFails
  <2>2. Tried(s)'
    BY <2>1 DEF Tried, Target, Usable
  <2>3. QED
    BY <1>2, <2>1, <2>2
<1>6. ASSUME NEW s \in Servers, UseSocket(s) \/ InsertPending(s) \/ Write(s) \/ WriteFails(s)
      PROVE  BoundRight'
  BY <1>6 DEF UseSocket, InsertPending, Write, WriteFails, BoundRight, sockVars
<1>7. ASSUME NEW s \in Servers, Listen(s) PROVE BoundRight'
  BY <1>0, <1>7, ConnsAssumption DEF Listen, BoundRight
<1>8. ASSUME NEW s \in Servers, SocketFailed(s)
      PROVE  BoundRight' /\ \A r \in Servers : Tried(r)'
  <2>1. /\ pc[s] = "socket" /\ sockets[Family[Target(s)]] = "failed" /\ NextAddr(s, "listen")
        /\ UNCHANGED <<env, ips, sockets>>
    BY <1>8 DEF SocketFailed, Cached, sockVars
  <2>2. ~Usable(Target(s))
    BY <2>1, TargetType, FamilyAssumption DEF TypeOK, BoundRight, Usable
  <2>3. Tried(s)'
    BY <2>1, <2>2, TriedNext
  <2>4. \A r \in Servers \ {s} : UNCHANGED <<pc[r], ips[r], next[r], result[r]>>
    BY <1>0, <2>1 DEF NextAddr, Report
  <2>5. QED
    BY <1>2, <2>1, <2>3, <2>4 DEF BoundRight
<1>9. ASSUME NEW s \in Servers, ListenFails(s)
      PROVE  BoundRight' /\ \A r \in Servers : Tried(r)'
  <2>1. /\ pc[s] = "socket" /\ Family[Target(s)] \notin env.bind /\ NextAddr(s, "listen")
        /\ sockets' = [sockets EXCEPT ![Family[Target(s)]] = "failed"]
        /\ UNCHANGED <<env, ips>>
    BY <1>9 DEF ListenFails
  <2>2. Tried(s)'
    BY <2>1, TriedNext DEF Usable
  <2>3. \A r \in Servers \ {s} : UNCHANGED <<pc[r], ips[r], next[r], result[r]>>
    BY <1>0, <2>1 DEF NextAddr, Report
  <2>4. BoundRight'
    BY <1>0, <2>1, ConnsAssumption DEF BoundRight
  <2>5. QED
    BY <1>2, <2>1, <2>2, <2>3, <2>4
<1>10. ASSUME NEW s \in Servers, DropPending(s)
       PROVE  BoundRight' /\ \A r \in Servers : Tried(r)'
  <2>1. /\ pc[s] = "undo" /\ NextAddr(s, "write") /\ UNCHANGED <<env, ips, sockets>>
    BY <1>10 DEF DropPending, sockVars
  <2>2. ~Usable(Target(s))
    BY <2>1 DEF Usable, Tried
  <2>3. Tried(s)'
    BY <2>1, <2>2, TriedNext
  <2>4. \A r \in Servers \ {s} : UNCHANGED <<pc[r], ips[r], next[r], result[r]>>
    BY <1>0, <2>1 DEF NextAddr, Report
  <2>5. QED
    BY <1>2, <2>1, <2>3, <2>4 DEF BoundRight
<1>11. ASSUME NEW s \in Servers, TakeReply(s) \/ GiveUp(s)
       PROVE  BoundRight' /\ \A r \in Servers : Tried(r)'
  <2>1. PICK r : r.target = Target(s) /\ Report(s, r)
    BY <1>11 DEF TakeReply, GiveUp, Transaction, Failure
  <2>2. pc[s] = "await" /\ UNCHANGED <<env, ips, next, sockets>>
    BY <1>11 DEF TakeReply, GiveUp, sockVars
  <2>3. Tried(s)'
    BY <2>1, <2>2, TriedReport
  <2>4. \A u \in Servers \ {s} : UNCHANGED <<pc[u], ips[u], next[u], result[u]>>
    BY <1>0, <2>1, <2>2 DEF Report
  <2>5. QED
    BY <1>2, <2>2, <2>3, <2>4 DEF BoundRight
<1>12. ASSUME NEW s \in Servers, Retransmit(s)
       PROVE  BoundRight' /\ \A r \in Servers : Tried(r)'
  BY <1>12, TriedFrame DEF Retransmit, BoundRight, sockVars
<1>13. ASSUME NEW c \in Conns, Reader(c) PROVE BoundRight' /\ \A r \in Servers : Tried(r)'
  <2>1. UNCHANGED <<env, probeVars, sockets>>
    BY <1>13
       DEF Reader, Deliver, ReadAnswer, ReadNoise, ReadError, Resume, ReaderExits,
           DropPacket, MatchPacket, HandOff, sockVars
  <2>2. QED
    BY <1>1, <2>1
<1>14. CASE Close \/ Network \/ Expire \/ UNCHANGED vars
  <2>1. UNCHANGED <<env, probeVars, sockets>>
    BY <1>14
       DEF Close, StartClose, CloseConn, Unlock, Return, Network, Answer, Lose, Expire,
           vars, probeVars, sockVars
  <2>2. QED
    BY <1>1, <2>1
<1>15. QED
  BY <1>3, <1>4, <1>5, <1>6, <1>7, <1>8, <1>9, <1>10, <1>11, <1>12, <1>13, <1>14
     DEF Next, Probe, LockStep, FreeStep, Terminated

\* Every probe measures the first address of its host that can be bound and routed
\* to, and fails before sending only when there is none
\* (MappingRun.FirstUsableAddress; probeAddrs, familySocket).
THEOREM FirstUsableHolds == Spec => []FirstUsableAddress
<1>1. AllTried => FirstUsableAddress
  BY DEF AllTried, FirstUsableAddress, Tried, Chosen, Usable
<1>2. QED
  BY <1>1, TriedInit, TriedStep, TypeCorrect, EvidenceHolds, PTL DEF Spec

-----------------------------------------------------------------------------
(* Loss that is tolerated *)

Lost(t) == {n \in Sends : wire[t][n] = "lost"}

\* The network loses so much of a transaction and no more.
LossBounded == \A t \in Tx : IsFiniteSet(Lost(t)) /\ Cardinality(Lost(t)) <= MaxLost

\* Socket c has received an answer to t and is about to match it.
Arriving(t, c) ==
    /\ rpc[c] = "deliver"
    /\ rpkt[c].tx = t /\ rpkt[c].src = Source[t[2]] /\ rpkt[c].kind # "garbage"

\* Socket c has matched an answer to t.
Matched(t, c) == rpc[c] = "handoff" /\ rpkt[c].tx = t

\* A goroutine that waits has made the sends that gap counts; its transaction is
\* pending until it is matched; and an answer that was read is on its way to it.
Followed(s) ==
    LET t == Transaction(s) IN
    /\ pc[s] \notin {"await", "done"} => gap[s] = 0
    /\ pc[s] = "write" => t \in pending
    /\ pc[s] = "await" =>
         /\ \A n \in 0 .. gap[s] : wire[t][n] # "unsent"
         /\ t \in pending \/ reply[t] # None \/ \E c \in Conns : Matched(t, c)
         /\ t \in pending /\ (\E n \in Sends : wire[t][n] = "read") =>
              \E c \in Conns : Arriving(t, c)

\* Where the schedule outlasts the loss, whoever is still waiting at the deadline, or
\* has given up since, waits for a target that does not answer.
SilentOnly ==
    /\ expired => \A s \in Servers :
         pc[s] = "done" \/ (pc[s] = "await" /\ Answers[Target(s)] = {})
    /\ \A s \in Servers : result[s].kind = "noResponse" => Answers[result[s].target] = {}

AllFollowed == LossBounded /\ \A s \in Servers : Followed(s)

LEMMA LossOverwrite ==
    ASSUME wire \in [Tx -> [Sends -> InFlight \cup {"unsent", "read", "lost"}]], LossBounded,
           NEW t \in Tx, NEW n \in Sends, NEW k, k # "lost", wire' = [wire EXCEPT ![t][n] = k]
    PROVE  LossBounded'
<1> SUFFICES ASSUME NEW u \in Tx
             PROVE  IsFiniteSet(Lost(u)') /\ Cardinality(Lost(u)') <= MaxLost
  BY DEF LossBounded
<1>1. Lost(u)' \in SUBSET Lost(u)
  BY DEF Lost
<1>2. IsFiniteSet(Lost(u)) /\ Cardinality(Lost(u)) <= MaxLost
  BY DEF LossBounded
<1>3. /\ IsFiniteSet(Lost(u)') /\ Cardinality(Lost(u)') <= Cardinality(Lost(u))
      /\ Cardinality(Lost(u)) \in Nat /\ Cardinality(Lost(u)') \in Nat
  BY <1>1, <1>2, FS_Subset, FS_CardinalityType
<1>4. QED
  BY <1>2, <1>3, GapsAssumption

LEMMA LossInit == Init => LossBounded
<1> SUFFICES ASSUME Init, NEW t \in Tx
             PROVE  IsFiniteSet(Lost(t)) /\ Cardinality(Lost(t)) <= MaxLost
  BY DEF LossBounded
<1>1. Lost(t) = {}
  BY DEF Init, Lost
<1>2. QED
  BY <1>1, FS_EmptySet, GapsAssumption

LEMMA LossNext == TypeOK /\ LossBounded /\ [Next]_vars => LossBounded'
<1> SUFFICES ASSUME TypeOK, LossBounded, [Next]_vars PROVE LossBounded'
  OBVIOUS
<1>0. /\ wire \in [Tx -> [Sends -> InFlight \cup {"unsent", "read", "lost"}]]
      /\ 0 \in Sends
  BY GapsAssumption DEF TypeOK, TransactionTypes, Sends
<1>1. ASSUME UNCHANGED wire PROVE LossBounded'
  BY <1>1 DEF LossBounded, Lost
<1>2. ASSUME NEW s \in Servers, Write(s) PROVE LossBounded'
  <2>1. Transaction(s) \in Tx /\ wire' = [wire EXCEPT ![Transaction(s)][0] = "sent"]
    BY <1>2, TargetType DEF Write, TypeOK
  <2>2. QED
    BY <1>0, <2>1, LossOverwrite
<1>3. ASSUME NEW s \in Servers, Retransmit(s) PROVE LossBounded'
  <2>1. Transaction(s) \in Tx /\ gap[s] \in Sends /\ gap' = [gap EXCEPT ![s] = @ + 1]
    BY <1>3, TargetType DEF Retransmit, TypeOK, ProbeTypes
  <2>2. gap'[s] \in Sends
    BY <1>3, <2>1, GapsAssumption DEF Retransmit, TypeOK, ProbeTypes, Sends
  <2>3. wire' = [wire EXCEPT ![Transaction(s)][gap'[s]] = "sent"]
    BY <1>3 DEF Retransmit
  <2>4. QED
    BY <1>0, <2>1, <2>2, <2>3, LossOverwrite
<1>4. ASSUME NEW c \in Conns, ReadAnswer(c) PROVE LossBounded'
  <2>1. PICK t \in Tx, n \in Sends : wire' \in {wire, [wire EXCEPT ![t][n] = "read"]}
    BY <1>4 DEF ReadAnswer
  <2>2. CASE wire' = wire
    BY <1>1, <2>2
  <2>3. CASE wire' = [wire EXCEPT ![t][n] = "read"]
    BY <1>0, <2>3, LossOverwrite
  <2>4. QED
    BY <2>1, <2>2, <2>3
<1>5. ASSUME NEW t \in Tx, NEW n \in Sends, Answer(t, n) PROVE LossBounded'
  <2>1. PICK k \in Answers[t[2]] : wire' = [wire EXCEPT ![t][n] = k]
    BY <1>5 DEF Answer
  <2>2. k # "lost"
    BY AnswersAssumption DEF Tx
  <2>3. QED
    BY <1>0, <2>1, <2>2, LossOverwrite
<1>6. ASSUME NEW t \in Tx, NEW n \in Sends, Lose(t, n) PROVE LossBounded'
  <2>1. /\ wire[t][n] # "lost" /\ Cardinality(Lost(t)) < MaxLost
        /\ wire' = [wire EXCEPT ![t][n] = "lost"]
    BY <1>6 DEF Lose, Lost, InFlight
  <2>2. Lost(t)' = Lost(t) \cup {n} /\ n \notin Lost(t)
    BY <1>0, <2>1 DEF Lost
  <2>3. IsFiniteSet(Lost(t)) /\ Cardinality(Lost(t)) \in Nat
    BY FS_CardinalityType DEF LossBounded
  <2>4. IsFiniteSet(Lost(t)') /\ Cardinality(Lost(t)') <= MaxLost
    <3>1. /\ IsFiniteSet(Lost(t) \cup {n})
          /\ Cardinality(Lost(t) \cup {n}) = Cardinality(Lost(t)) + 1
      BY <2>2, <2>3, FS_AddElement
    <3>2. Cardinality(Lost(t)) < MaxLost
      BY <2>1 DEF Lost
    <3>3. QED
      BY <2>2, <2>3, <3>1, <3>2, GapsAssumption
  <2>5. \A u \in Tx \ {t} : Lost(u)' = Lost(u)
    BY <1>0, <2>1 DEF Lost
  <2>6. QED
    BY <2>4, <2>5 DEF LossBounded
<1>7. ASSUME NEW s \in Servers, Probe(s), ~Write(s), ~Retransmit(s) PROVE LossBounded'
  BY <1>1, <1>7
     DEF Probe, LockStep, FreeStep, RejectServer, ResolveFails, Resolve, UseSocket,
         SocketFailed, ListenFails, Listen, InsertPending, WriteFails, DropPending,
         TakeReply, GiveUp
<1>8. ASSUME NEW c \in Conns, Reader(c), ~ReadAnswer(c) PROVE LossBounded'
  BY <1>1, <1>8
     DEF Reader, Deliver, ReadNoise, ReadError, Resume, ReaderExits, DropPacket,
         MatchPacket, HandOff
<1>9. CASE Close \/ Expire \/ UNCHANGED vars
  BY <1>1, <1>9 DEF Close, StartClose, CloseConn, Unlock, Return, Expire, vars
<1>10. QED
  BY <1>2, <1>3, <1>4, <1>5, <1>6, <1>7, <1>8, <1>9 DEF Next, Network, Terminated

-----------------------------------------------------------------------------

LEMMA FollowedInit == Init => \A s \in Servers : Followed(s)
  BY DEF Init, Followed

\* Steps that do nothing to s, its transactions and the readers that hold a packet.
LEMMA FollowedFrame ==
    ASSUME TypeOK, NEW s \in Servers, Followed(s),
           UNCHANGED <<pc[s], ips[s], next[s], gap[s]>>,
           \A u \in Tx : u[1] = s =>
             /\ u \in pending <=> u \in pending'
             /\ reply[u] # None => reply'[u] # None
             /\ \A n \in Sends : /\ wire[u][n] # "unsent" => wire'[u][n] # "unsent"
                                 /\ wire'[u][n] = "read" => wire[u][n] = "read",
           \A c \in Conns : rpc[c] \in {"deliver", "handoff"} => UNCHANGED <<rpc[c], rpkt[c]>>
    PROVE  Followed(s)'
<1> DEFINE t == Transaction(s)
<1>1. t' = t
  BY DEF Transaction, Target
<1>2. CASE pc[s] \in {"write", "await"}
  <2>1. t \in Tx /\ t[1] = s /\ gap[s] \in Sends
    BY <1>2, TargetType DEF TypeOK, ProbeTypes, Transaction
  <2>2. 0 .. gap[s] \subseteq Sends
    BY <2>1, GapsAssumption DEF Sends
  <2>3. \A c \in Conns : /\ Matched(t, c) => rpc'[c] = "handoff" /\ rpkt'[c].tx = t
                         /\ Arriving(t, c) => /\ rpc'[c] = "deliver" /\ rpkt'[c].tx = t
                                              /\ rpkt'[c].src = Source[t[2]]
                                              /\ rpkt'[c].kind # "garbage"
    BY DEF Matched, Arriving
  <2>4. pc'[s] = "await" => \A n \in 0 .. gap'[s] : wire'[t][n] # "unsent"
    BY <2>1, <2>2 DEF Followed
  <2>5. pc'[s] = "await" =>
          t \in pending' \/ reply'[t] # None
          \/ \E c \in Conns : rpc'[c] = "handoff" /\ rpkt'[c].tx = t
    BY <2>1, <2>3 DEF Followed
  <2>6. pc'[s] = "await" /\ t \in pending' /\ (\E n \in Sends : wire'[t][n] = "read") =>
          \E c \in Conns : /\ rpc'[c] = "deliver" /\ rpkt'[c].tx = t
                           /\ rpkt'[c].src = Source[t[2]] /\ rpkt'[c].kind # "garbage"
    BY <2>1, <2>3 DEF Followed
  <2>7. pc'[s] = "write" => t \in pending'
    BY <2>1 DEF Followed
  <2>8. pc'[s] \notin {"await", "done"} => gap'[s] = 0
    BY DEF Followed
  <2> HIDE DEF t
  <2>9. QED
    BY <1>1, <2>4, <2>5, <2>6, <2>7, <2>8 DEF Followed, Matched, Arriving, t
<1>3. CASE pc[s] \notin {"write", "await"}
  BY <1>3 DEF Followed
<1>4. QED
  BY <1>2, <1>3

\* Only the goroutine of s changes where s is.
LEMMA FollowedByOthers ==
    ASSUME TypeOK, NEW s \in Servers, \A r \in Servers : Followed(r), Followed(s)',
           \A r \in Servers \ {s} : UNCHANGED <<pc[r], ips[r], next[r], gap[r]>>,
           \A u \in Tx : u[1] # s =>
             /\ u \in pending <=> u \in pending'
             /\ UNCHANGED <<reply[u], wire[u]>>,
           \A c \in Conns : rpc[c] \in {"deliver", "handoff"} => UNCHANGED <<rpc[c], rpkt[c]>>
    PROVE  \A r \in Servers : Followed(r)'
<1> SUFFICES ASSUME NEW r \in Servers, r # s PROVE Followed(r)'
  OBVIOUS
<1>1. Followed(r) /\ UNCHANGED <<pc[r], ips[r], next[r], gap[r]>>
  OBVIOUS
<1>2. \A u \in Tx : u[1] = r =>
        /\ u \in pending <=> u \in pending'
        /\ reply[u] # None => reply'[u] # None
        /\ \A n \in Sends : /\ wire[u][n] # "unsent" => wire'[u][n] # "unsent"
                            /\ wire'[u][n] = "read" => wire[u][n] = "read"
  OBVIOUS
<1>3. QED
  BY <1>1, <1>2, FollowedFrame

LEMMA FollowedNext ==
    TypeOK /\ Evidence /\ (\A s \in Servers : Followed(s)) /\ [Next]_vars
      => \A s \in Servers : Followed(s)'
<1> SUFFICES ASSUME TypeOK, Evidence, \A s \in Servers : Followed(s), [Next]_vars
             PROVE  \A s \in Servers : Followed(s)'
  OBVIOUS
<1>0. /\ pc \in [Servers -> {"start", "socket", "insert", "write", "undo", "await", "done"}]
      /\ ips \in [Servers -> Seq(Addrs)] /\ next \in [Servers -> Nat]
      /\ gap \in [Servers -> Sends] /\ reply \in [Tx -> Replies \cup {None}]
      /\ wire \in [Tx -> [Sends -> InFlight \cup {"unsent", "read", "lost"}]]
      /\ rpc \in [Conns -> {"off", "read", "pause", "deliver", "handoff", "exited"}]
      /\ rpkt \in [Conns -> Packets \cup {None}] /\ 0 \in Sends
      /\ \A s \in Servers : pc[s] \notin {"start", "done"} =>
           Transaction(s) \in Tx /\ Transaction(s)[1] = s
  BY TargetType, GapsAssumption
     DEF TypeOK, ProbeTypes, TransactionTypes, ReaderTypes, Sends, Transaction
<1>1. ASSUME NEW s \in Servers,
             \/ RejectServer(s) \/ ResolveFails(s) \/ Resolve(s) \/ UseSocket(s)
             \/ SocketFailed(s) \/ ListenFails(s) \/ Listen(s) \/ WriteFails(s)
             \/ DropPending(s) \/ TakeReply(s) \/ GiveUp(s)
      PROVE  \A r \in Servers : Followed(r)'
  <2>1. /\ pc'[s] \notin {"write", "await"} /\ UNCHANGED <<gap, wire>>
        /\ pc'[s] = "done" \/ pc[s] \notin {"await", "done"}
        /\ \A r \in Servers \ {s} : UNCHANGED <<pc[r], ips[r], next[r]>>
    BY <1>0, <1>1
       DEF RejectServer, ResolveFails, Resolve, UseSocket, SocketFailed, ListenFails, Listen,
           WriteFails, DropPending, TakeReply, GiveUp, NextAddr, Report
  <2>2. \A u \in Tx : u[1] # s => (u \in pending <=> u \in pending') /\ reply'[u] = reply[u]
    BY <1>0, <1>1
       DEF RejectServer, ResolveFails, Resolve, UseSocket, SocketFailed, ListenFails, Listen,
           WriteFails, DropPending, TakeReply, GiveUp, Transaction
  <2>3. \A c \in Conns : rpc[c] \in {"deliver", "handoff"} => UNCHANGED <<rpc[c], rpkt[c]>>
    BY <1>0, <1>1
       DEF RejectServer, ResolveFails, Resolve, UseSocket, SocketFailed, ListenFails, Listen,
           WriteFails, DropPending, TakeReply, GiveUp, readVars
  <2>4. Followed(s)'
    BY <2>1 DEF Followed
  <2>5. QED
    BY <2>1, <2>2, <2>3, <2>4, FollowedByOthers
<1>2. ASSUME NEW s \in Servers, InsertPending(s) PROVE \A r \in Servers : Followed(r)'
  <2>1. /\ pc[s] = "insert" /\ pending' = pending \cup {Transaction(s)}
        /\ pc' = [pc EXCEPT ![s] = "write"]
        /\ UNCHANGED <<ips, next, gap, reply, wire, rpc, rpkt>>
    BY <1>2 DEF InsertPending, readVars
  <2>2. Followed(s)'
    BY <1>0, <2>1 DEF Followed, Transaction, Target
  <2>3. \A u \in Tx : u[1] # s => (u \in pending <=> u \in pending')
    BY <2>1 DEF Transaction
  <2>4. QED
    BY <1>0, <2>1, <2>2, <2>3, FollowedByOthers
<1>3. ASSUME NEW s \in Servers, Write(s) PROVE \A r \in Servers : Followed(r)'
  <2> DEFINE t == Transaction(s)
  <2>1. /\ pc[s] = "write" /\ wire' = [wire EXCEPT ![t][0] = "sent"]
        /\ pc' = [pc EXCEPT ![s] = "await"]
        /\ UNCHANGED <<ips, next, gap, pending, reply, rpc, rpkt>>
    BY <1>3 DEF Write, readVars
  <2>2. t \in Tx /\ t[1] = s /\ t' = t /\ t \in pending /\ gap[s] = 0
    BY <1>0, <2>1 DEF Followed, Transaction, Target
  <2>3. \A n \in Sends : wire[t][n] = "unsent"
    BY <2>1, <2>2 DEF Evidence, GenuineWire, Sent
  <2>4. wire'[t] = [wire[t] EXCEPT ![0] = "sent"] /\ \A u \in Tx \ {t} : wire'[u] = wire[u]
    BY <1>0, <2>1, <2>2
  <2>5. wire'[t][0] = "sent" /\ \A n \in Sends : wire'[t][n] # "read"
    BY <1>0, <2>2, <2>3, <2>4
  <2>6. pc'[s] = "await" /\ t \in pending' /\ gap'[s] = 0
    BY <1>0, <2>1, <2>2
  <2> HIDE DEF t
  <2>7. \A n \in 0 .. gap'[s] : wire'[t][n] # "unsent"
    BY <2>5, <2>6
  <2>8. Followed(s)'
    BY <2>2, <2>5, <2>6, <2>7 DEF Followed, t
  <2>9. QED
    BY <1>0, <2>1, <2>2, <2>4, <2>8, FollowedByOthers
<1>4. ASSUME NEW s \in Servers, Retransmit(s) PROVE \A r \in Servers : Followed(r)'
  <2> DEFINE t == Transaction(s)
             g == gap[s] + 1
  <2>1. /\ pc[s] = "await" /\ gap[s] < Gaps /\ gap' = [gap EXCEPT ![s] = g]
        /\ UNCHANGED <<pc, ips, next, pending, reply, rpc, rpkt>>
    BY <1>4 DEF Retransmit, readVars
  <2>2. t \in Tx /\ t[1] = s /\ t' = t /\ gap'[s] = g /\ g \in Sends /\ gap[s] \in Nat
    <3>1. gap[s] \in 0 .. Gaps
      BY <1>0 DEF Sends
    <3>2. g \in Sends /\ gap[s] \in Nat
      BY <2>1, <3>1, GapsAssumption DEF Sends
    <3>3. gap'[s] = g
      BY <1>0, <2>1
    <3>4. t' = t
      BY <2>1 DEF Transaction, Target
    <3>5. QED
      BY <1>0, <2>1, <3>2, <3>3, <3>4
  <2>3. wire' = [wire EXCEPT ![t][g] = "sent"]
    BY <1>4, <2>2 DEF Retransmit
  <2>4. wire'[t] = [wire[t] EXCEPT ![g] = "sent"] /\ \A u \in Tx \ {t} : wire'[u] = wire[u]
    BY <1>0, <2>2, <2>3
  <2>5. \A n \in Sends : /\ wire'[t][n] = IF n = g THEN "sent" ELSE wire[t][n]
    BY <1>0, <2>2, <2>4
  <2>6. 0 .. g \subseteq Sends
    BY <2>2, GapsAssumption DEF Sends
  <2>7. \A n \in 0 .. g : n = g \/ n \in 0 .. gap[s]
    BY <2>2
  <2>8. \A n \in 0 .. gap[s] : wire[t][n] # "unsent"
    BY <2>1 DEF Followed
  <2>9. \A n \in 0 .. g : wire'[t][n] # "unsent"
    BY <2>5, <2>6, <2>7, <2>8
  <2>10. t \in pending \/ reply[t] # None \/ \E c \in Conns : Matched(t, c)
    BY <2>1 DEF Followed
  <2>11. t \in pending /\ (\E n \in Sends : wire'[t][n] = "read") =>
           \E c \in Conns : Arriving(t, c)
    BY <2>1, <2>5 DEF Followed
  <2> HIDE DEF t, g
  <2>12. Followed(s)'
    BY <2>1, <2>2, <2>9, <2>10, <2>11 DEF Followed, Matched, Arriving, t
  <2>13. QED
    BY <1>0, <2>1, <2>2, <2>4, <2>12, FollowedByOthers
<1>5. ASSUME NEW c \in Conns, ReadAnswer(c) PROVE \A s \in Servers : Followed(s)'
  <2>1. PICK t \in Tx, n \in Sends :
          /\ wire[t][n] \in {"success", "error"}
          /\ Receive(c, [src |-> Source[t[2]], tx |-> t, kind |-> wire[t][n],
                         mapped |-> IF wire[t][n] = "success"
                                    THEN Mapping(c, t[2]) ELSE None])
          /\ wire' \in {wire, [wire EXCEPT ![t][n] = "read"]}
    BY <1>5 DEF ReadAnswer
  <2>2. UNCHANGED <<pc, ips, next, gap, pending, reply>>
    BY <1>5 DEF ReadAnswer, probeVars
  <2>3. /\ rpc[c] = "read" /\ rpc'[c] = "deliver"
        /\ rpkt'[c].src = Source[t[2]] /\ rpkt'[c].tx = t /\ rpkt'[c].kind # "garbage"
        /\ \A d \in Conns \ {c} : UNCHANGED <<rpc[d], rpkt[d]>>
    BY <1>0, <2>1 DEF Receive
  <2>4. \A u \in Tx \ {t} : wire'[u] = wire[u]
    BY <1>0, <2>1
  <2>5. \A m \in Sends : wire[t][m] # "unsent" => wire'[t][m] # "unsent"
    BY <1>0, <2>1
  <2>6. ASSUME NEW s \in Servers PROVE Followed(s)'
    <3>1. CASE pc[s] = "await" /\ Transaction(s) = t
      <4>1. gap[s] \in Sends /\ 0 .. gap[s] \subseteq Sends
        BY <1>0, GapsAssumption DEF Sends
      <4>2. \A m \in 0 .. gap[s] : wire'[t][m] # "unsent"
        BY <2>5, <3>1, <4>1 DEF Followed
      <4>3. Transaction(s)' = t /\ pc'[s] = "await" /\ gap'[s] = gap[s]
        BY <2>2, <3>1 DEF Transaction, Target
      <4>4. t \in pending' \/ reply'[t] # None
            \/ \E d \in Conns : rpc'[d] = "handoff" /\ rpkt'[d].tx = t
        BY <2>2, <2>3, <3>1 DEF Followed, Matched
      <4>5. QED
        BY <2>3, <4>2, <4>3, <4>4 DEF Followed, Matched, Arriving
    <3>2. CASE pc[s] = "await" /\ Transaction(s) # t
      <4>1. Transaction(s) \in Tx \ {t} /\ Transaction(s)' = Transaction(s)
        BY <1>0, <2>2, <3>2 DEF Transaction, Target
      <4>2. wire'[Transaction(s)] = wire[Transaction(s)]
        BY <2>4, <4>1
      <4>3. \A d \in Conns : rpc[d] \in {"deliver", "handoff"} => UNCHANGED <<rpc[d], rpkt[d]>>
        BY <2>3
      <4>4. QED
        BY <2>2, <3>2, <4>1, <4>2, <4>3 DEF Followed, Matched, Arriving
    <3>3. CASE pc[s] # "await"
      BY <2>2, <3>3 DEF Followed, Transaction, Target
    <3>4. QED
      BY <3>1, <3>2, <3>3
  <2>7. QED
    BY <2>6
<1>6. ASSUME NEW c \in Conns, DropPacket(c) PROVE \A s \in Servers : Followed(s)'
  <2>1. /\ rpc[c] = "deliver" /\ ~Accepts(rpkt[c])
        /\ \A d \in Conns \ {c} : UNCHANGED <<rpc[d], rpkt[d]>>
        /\ UNCHANGED <<pc, ips, next, gap, pending, reply, wire>>
    BY <1>0, <1>6 DEF DropPacket, probeVars
  <2>2. \A t \in pending : ~Arriving(t, c)
    BY <2>1 DEF Arriving, Accepts, ExpectsSource
  <2>3. \A t, d : /\ d \in Conns /\ Matched(t, d) => Matched(t, d)'
                  /\ d \in Conns /\ t \in pending /\ Arriving(t, d) => Arriving(t, d)'
    BY <2>1, <2>2 DEF Matched, Arriving
  <2>4. \A s : Transaction(s)' = Transaction(s)
    BY <2>1 DEF Transaction, Target
  <2>5. QED
    BY <2>1, <2>3, <2>4 DEF Followed
<1>7. ASSUME NEW c \in Conns, MatchPacket(c) PROVE \A s \in Servers : Followed(s)'
  <2> DEFINE m == rpkt[c].tx
  <2>1. /\ rpc[c] = "deliver" /\ Accepts(rpkt[c]) /\ pending' = pending \ {m}
        /\ rpc' = [rpc EXCEPT ![c] = "handoff"]
        /\ UNCHANGED <<pc, ips, next, gap, reply, wire, rpkt>>
    BY <1>7 DEF MatchPacket, Delivered, probeVars
  <2>2. rpc'[c] = "handoff" /\ \A d \in Conns \ {c} : rpc'[d] = rpc[d]
    BY <1>0, <2>1
  <2>3. Sent(m[1])
    BY <2>1 DEF Evidence, GenuinePacket, Genuine, Accepts
  <2>4. \A s : Transaction(s)' = Transaction(s) /\ Transaction(s)[1] = s
    BY <2>1 DEF Transaction, Target
  <2>5. ASSUME NEW s \in Servers PROVE Followed(s)'
    <3>1. pc[s] = "write" => Transaction(s) # m
      BY <2>3, <2>4 DEF Sent
    <3>0. PICK t : t = Transaction(s)
      OBVIOUS
    <3>2. t \in pending' <=> t \in pending /\ t # m
      BY <2>1
    <3>3. pc[s] = "await" =>
            /\ t \in pending \/ reply[t] # None \/ \E d \in Conns : Matched(t, d)
            /\ t \in pending /\ (\E n \in Sends : wire[t][n] = "read") =>
                 \E d \in Conns : Arriving(t, d)
      BY <3>0 DEF Followed
    <3>4. /\ t = m => Matched(t, c)'
          /\ \A d \in Conns : Matched(t, d) => Matched(t, d)'
          /\ t # m => \A d \in Conns : Arriving(t, d) => Arriving(t, d)'
      BY <2>1, <2>2 DEF Matched, Arriving
    <3> HIDE DEF m
    <3>5. pc[s] = "await" =>
            t \in pending' \/ reply[t] # None \/ \E d \in Conns : Matched(t, d)'
      BY <3>2, <3>3, <3>4
    <3>6. pc[s] = "await" /\ t \in pending' /\ (\E n \in Sends : wire[t][n] = "read") =>
            \E d \in Conns : Arriving(t, d)'
      BY <3>2, <3>3, <3>4
    <3>7. /\ pc[s] = "write" => t \in pending'
          /\ pc[s] = "await" => \A n \in 0 .. gap[s] : wire[t][n] # "unsent"
          /\ pc[s] \notin {"await", "done"} => gap[s] = 0
      BY <3>0, <3>1, <3>2 DEF Followed
    <3>8. QED
      BY <2>1, <2>4, <3>0, <3>5, <3>6, <3>7 DEF Followed
  <2>6. QED
    BY <2>5
<1>8. ASSUME NEW c \in Conns, HandOff(c) PROVE \A s \in Servers : Followed(s)'
  <2> DEFINE p == rpkt[c]
  <2>1. /\ rpc[c] = "handoff"
        /\ reply' = [reply EXCEPT ![p.tx] = [kind |-> p.kind, mapped |-> p.mapped]]
        /\ \A d \in Conns \ {c} : UNCHANGED <<rpc[d], rpkt[d]>>
        /\ UNCHANGED <<pc, ips, next, gap, pending, wire>>
    BY <1>0, <1>8 DEF HandOff, probeVars
  <2>2. p \in Packets /\ p.kind # "garbage" /\ p.tx \in Tx
    BY <2>1 DEF TypeOK, ReaderTypes, Packets
  <2>3. [kind |-> p.kind, mapped |-> p.mapped] # None
    BY <2>2, NoneAssumption DEF Packets, Kinds, Replies
  <2>4. reply'[p.tx] # None /\ \A t \in Tx : reply[t] # None => reply'[t] # None
    BY <1>0, <2>1, <2>2, <2>3
  <2>5. \A t, d : /\ d \in Conns /\ Matched(t, d) => t = p.tx \/ Matched(t, d)'
                  /\ d \in Conns /\ Arriving(t, d) => Arriving(t, d)'
    BY <2>1 DEF Matched, Arriving
  <2>6. \A s : Transaction(s)' = Transaction(s)
    BY <2>1 DEF Transaction, Target
  <2>7. ASSUME NEW s \in Servers PROVE Followed(s)'
    <3> HIDE DEF p
    <3>1. QED
      BY <1>0, <2>1, <2>4, <2>5, <2>6 DEF Followed
  <2>8. QED
    BY <2>7
<1>9. ASSUME NEW t \in Tx, NEW n \in Sends, Answer(t, n) \/ Lose(t, n)
      PROVE  \A s \in Servers : Followed(s)'
  <2>1. PICK k : k \notin {"unsent", "read"} /\ wire' = [wire EXCEPT ![t][n] = k]
    <3>1. CASE Answer(t, n)
      BY <3>1, AnswersAssumption DEF Answer, Tx
    <3>2. CASE Lose(t, n)
      BY <3>2 DEF Lose
    <3>3. QED
      BY <1>9, <3>1, <3>2
  <2>2. UNCHANGED <<pc, ips, next, gap, pending, reply, rpc, rpkt>>
    BY <1>9 DEF Answer, Lose, probeVars, readVars
  <2>3. \A u \in Tx, m \in Sends : /\ wire[u][m] # "unsent" => wire'[u][m] # "unsent"
                                   /\ wire'[u][m] = "read" => wire[u][m] = "read"
    BY <1>0, <2>1
  <2>4. QED
    BY <2>2, <2>3, FollowedFrame
<1>10. ASSUME NEW c \in Conns, ReadNoise(c) \/ ReadError(c) \/ Resume(c) \/ ReaderExits(c)
       PROVE  \A s \in Servers : Followed(s)'
  <2>1. /\ UNCHANGED <<pc, ips, next, gap, pending, reply, wire>>
        /\ \A d \in Conns : rpc[d] \in {"deliver", "handoff"} => UNCHANGED <<rpc[d], rpkt[d]>>
    BY <1>0, <1>10 DEF ReadNoise, ReadError, Resume, ReaderExits, Receive, probeVars
  <2>2. QED
    BY <2>1, FollowedFrame
<1>11. CASE Close \/ Expire \/ UNCHANGED vars
  <2>1. UNCHANGED <<pc, ips, next, gap, pending, reply, wire, rpc, rpkt>>
    BY <1>11
       DEF Close, StartClose, CloseConn, Unlock, Return, Expire, vars, probeVars, readVars
  <2>2. QED
    BY <2>1, FollowedFrame
<1>12. QED
  BY <1>1, <1>2, <1>3, <1>4, <1>5, <1>6, <1>7, <1>8, <1>9, <1>10, <1>11
     DEF Next, Probe, LockStep, FreeStep, Reader, Deliver, Network, Terminated

\* Of a goroutine that still waits at the deadline every send was lost, which is
\* more than the network loses, or the target does not answer.
LEMMA AtDeadline ==
    ASSUME TypeOK, SocketServed, LossBounded, NEW s \in Servers, Followed(s),
           Quiet, pc[s] = "await", MaxLost <= Gaps
    PROVE  Answers[Target(s)] = {}
<1> DEFINE t == Transaction(s)
<1> SUFFICES ASSUME Answers[Target(s)] # {} PROVE FALSE
  OBVIOUS
<1>1. t \in Tx /\ t[1] = s /\ t[2] = Target(s)
  BY TargetType DEF TypeOK, Transaction
<1>2. gap[s] = Gaps /\ reply[t] = None
  BY DEF Quiet
<1>3. \A c \in Conns : ~Matched(t, c) /\ ~Arriving(t, c)
  BY DEF Quiet, Matched, Arriving
<1>4. t \in pending /\ \A n \in Sends : wire[t][n] \notin {"unsent", "read"}
  BY <1>2, <1>3 DEF Followed, Sends
<1>5. rpc[conn[s]] # "exited"
  BY DEF SocketServed
<1>6. \A n \in Sends : wire[t][n] = "lost"
  <2>1. \A n \in Sends : wire[t][n] \in InFlight \cup {"unsent", "read", "lost"}
    BY <1>1 DEF TypeOK, TransactionTypes
  <2>2. \A n \in Sends : /\ wire[t][n] = "sent" => Answers[t[2]] = {}
                         /\ wire[t][n] \in {"success", "error"} => rpc[conn[t[1]]] = "exited"
    BY <1>1 DEF Quiet
  <2> HIDE DEF t
  <2>3. QED
    BY <1>1, <1>4, <1>5, <2>1, <2>2 DEF InFlight
<1>7. Lost(t) = 0 .. Gaps
  BY <1>6 DEF Lost, Sends
<1>8. Cardinality(0 .. Gaps) = Gaps + 1
  BY FS_Interval, GapsAssumption
<1>9. Cardinality(Lost(t)) <= MaxLost
  BY <1>1 DEF LossBounded
<1>10. QED
  BY <1>7, <1>8, <1>9, GapsAssumption

LEMMA SilentNext ==
    TypeOK /\ SocketServed /\ AllFollowed /\ SilentOnly /\ Patient /\ MaxLost <= Gaps
      /\ [Next]_vars => SilentOnly'
<1> SUFFICES ASSUME TypeOK, SocketServed, AllFollowed, SilentOnly, Patient,
                    MaxLost <= Gaps, [Next]_vars
             PROVE  SilentOnly'
  OBVIOUS
<1>1. CASE Expire
  <2>1. Quiet /\ UNCHANGED <<pc, ips, next, result>>
    BY <1>1 DEF Expire, probeVars
  <2>2. \A s \in Servers : pc[s] = "done" \/ (pc[s] = "await" /\ Answers[Target(s)] = {})
    BY <2>1, AtDeadline DEF AllFollowed, Quiet
  <2>3. QED
    BY <2>1, <2>2 DEF SilentOnly, Target
<1>2. ASSUME NEW s \in Servers,
             \/ RejectServer(s) \/ ResolveFails(s) \/ Resolve(s) \/ UseSocket(s)
             \/ SocketFailed(s) \/ ListenFails(s) \/ Listen(s) \/ InsertPending(s)
             \/ Write(s) \/ WriteFails(s) \/ DropPending(s)
      PROVE  SilentOnly'
  <2>1. pc[s] \notin {"await", "done"} /\ UNCHANGED expired
    BY <1>2
       DEF RejectServer, ResolveFails, Resolve, UseSocket, SocketFailed, ListenFails, Listen,
           InsertPending, Write, WriteFails, DropPending
  <2>2. \/ UNCHANGED result
        \/ \E k \in {"invalid", "resolve", "listen", "write"} :
             result' = [result EXCEPT ![s] = Failure(k)]
    BY <1>2
       DEF RejectServer, ResolveFails, Resolve, UseSocket, SocketFailed, ListenFails, Listen,
           InsertPending, Write, WriteFails, DropPending, NextAddr, Report
  <2>3. \A r \in Servers : result'[r].kind = "noResponse" => result'[r] = result[r]
    BY <2>2 DEF TypeOK, ResultTypes, Failure
  <2>4. QED
    BY <2>1, <2>3 DEF SilentOnly
<1>3. ASSUME NEW s \in Servers, TakeReply(s) \/ GiveUp(s) PROVE SilentOnly'
  <2>1. /\ pc[s] = "await" /\ pc' = [pc EXCEPT ![s] = "done"]
        /\ UNCHANGED <<ips, next, expired>>
    BY <1>3 DEF TakeReply, GiveUp, Report
  <2>2. \E r : result' = [result EXCEPT ![s] = r]
    BY <1>3 DEF TakeReply, GiveUp, Report
  <2>3. result'[s].kind = "noResponse" => Answers[result'[s].target] = {}
    <3>1. CASE TakeReply(s)
      BY <3>1 DEF TakeReply, Report, Outcome, TypeOK, ResultTypes
    <3>2. CASE GiveUp(s)
      <4>1. expired /\ result'[s].target = Target(s)
        BY <3>2 DEF GiveUp, Report, Failure, TypeOK, ResultTypes
      <4>2. QED
        BY <2>1, <4>1 DEF SilentOnly
    <3>3. QED
      BY <1>3, <3>1, <3>2
  <2>4. \A r \in Servers \ {s} : result'[r] = result[r] /\ pc'[r] = pc[r]
    BY <2>1, <2>2 DEF TypeOK, ResultTypes, ProbeTypes
  <2>5. pc'[s] = "done"
    BY <2>1 DEF TypeOK, ProbeTypes
  <2>6. QED
    BY <2>1, <2>3, <2>4, <2>5 DEF SilentOnly, Target
<1>4. ASSUME NEW s \in Servers, Retransmit(s) PROVE SilentOnly'
  BY <1>4 DEF Retransmit, SilentOnly, Target
<1>5. CASE \/ \E c \in Conns : Reader(c)
           \/ Close \/ Network \/ UNCHANGED vars
  <2>1. UNCHANGED <<pc, ips, next, result, expired>>
    BY <1>5
       DEF Reader, Deliver, ReadAnswer, ReadNoise, ReadError, Resume, ReaderExits,
           DropPacket, MatchPacket, HandOff, Close, StartClose, CloseConn, Unlock, Return,
           Network, Answer, Lose, vars, probeVars
  <2>2. QED
    BY <2>1 DEF SilentOnly, Target
<1>6. QED
  BY <1>1, <1>2, <1>3, <1>4, <1>5 DEF Next, Probe, LockStep, FreeStep, Terminated

\* What the retransmission schedule is for, whatever the answers, the losses it outlasts
\* and their order: with a deadline after the schedule, only a target that does not
\* answer is reported silent (MappingRun.LossTolerated; await, retransmitGaps).
THEOREM LossToleratedHolds == Spec => [](Patient /\ MaxLost <= Gaps => LossTolerated)
<1> DEFINE Tolerant == Patient /\ MaxLost <= Gaps => SilentOnly
<1>1. Init => AllFollowed /\ Tolerant
  <2>1. Init => SilentOnly
    BY DEF Init, SilentOnly, NoResult
  <2>2. QED
    BY <2>1, LossInit, FollowedInit DEF AllFollowed
<1>2. TypeOK /\ Evidence /\ AllFollowed /\ [Next]_vars => AllFollowed'
  BY LossNext, FollowedNext DEF AllFollowed
<1>3. TypeOK /\ SocketServed /\ AllFollowed /\ Tolerant /\ [Next]_vars => Tolerant'
  BY SilentNext
<1>4. Tolerant => (Patient /\ MaxLost <= Gaps => LossTolerated)
  BY DEF SilentOnly, LossTolerated
<1> HIDE DEF Tolerant
<1>5. QED
  BY <1>1, <1>2, <1>3, <1>4, TypeCorrect, EvidenceHolds, SocketServedHolds, PTL DEF Spec

-----------------------------------------------------------------------------
(* The steps a goroutine of ProbeAll may still take *)

\* The most steps of one address after this point, retransmissions apart.
StepsFrom(at) ==
    IF at = "socket" THEN 4 ELSE IF at = "insert" THEN 3 ELSE IF at = "write" THEN 2 ELSE 1

\* The addresses of the host that are left, the rest of this one, the gaps left.
Remaining(s) == 5 * (Len(ips[s]) - next[s]) + StepsFrom(pc[s]) + (Gaps - gap[s])

\* A goroutine waits, resolves its host, ends, or comes nearer to its end.
Advances(s) ==
    \/ UNCHANGED <<pc[s], next[s], gap[s]>>
    \/ pc[s] = "start" /\ pc'[s] \in {"socket", "done"}
    \/ /\ pc[s] \notin {"start", "done"}
       /\ \/ pc'[s] = "done"
          \/ Remaining(s)' \in Nat /\ Remaining(s)' < Remaining(s)

LEMMA OthersStay ==
  ASSUME TypeOK, NEW s \in Servers, Probe(s)
  PROVE  \A t \in Servers \ {s} : UNCHANGED <<pc[t], next[t], gap[t]>>
  BY DEF TypeOK, ProbeTypes, Probe, LockStep, FreeStep, RejectServer, ResolveFails, Resolve,
         UseSocket, SocketFailed, ListenFails, Listen, InsertPending, Write, WriteFails,
         DropPending, TakeReply, GiveUp, Retransmit, NextAddr, Report

LEMMA AddrInRange ==
  ASSUME TypeOK, NEW s \in Servers, pc[s] \notin {"start", "done"}
  PROVE  /\ Len(ips[s]) \in Nat /\ next[s] \in Nat /\ next[s] <= Len(ips[s])
         /\ gap[s] \in Nat /\ gap[s] <= Gaps /\ Gaps \in Nat
<1>1. ips[s] \in Seq(Addrs) /\ next[s] \in Nat /\ gap[s] \in Sends
  BY DEF TypeOK, ProbeTypes
<1>2. next[s] \in 1 .. Len(ips[s])
  BY DEF TypeOK, ProbeTypes
<1>3. Len(ips[s]) \in Nat
  BY <1>1
<1>4. QED
  BY <1>1, <1>2, <1>3, GapsAssumption DEF Sends

LEMMA AddrLeft ==
  ASSUME TypeOK, NEW s \in Servers, NEW kind, pc[s] \in {"socket", "undo"},
         NextAddr(s, kind), UNCHANGED <<ips, gap>>
  PROVE  Advances(s)
<1>1. /\ Len(ips[s]) \in Nat /\ next[s] \in Nat /\ next[s] <= Len(ips[s])
      /\ gap[s] \in Nat /\ gap[s] <= Gaps /\ Gaps \in Nat
  BY AddrInRange
<1>2. pc'[s] = "done" \/ (pc'[s] = "socket" /\ next'[s] = next[s] + 1 /\ next[s] < Len(ips[s]))
  BY <1>1 DEF NextAddr, Report, TypeOK, ProbeTypes
<1>3. CASE pc'[s] = "done"
  BY <1>3 DEF Advances
<1>4. CASE pc'[s] = "socket" /\ next'[s] = next[s] + 1 /\ next[s] < Len(ips[s])
  <2>1. Remaining(s)' = 5 * (Len(ips[s]) - (next[s] + 1)) + 4 + (Gaps - gap[s])
    BY <1>4 DEF Remaining, StepsFrom
  <2>2. Remaining(s) = 5 * (Len(ips[s]) - next[s]) + StepsFrom(pc[s]) + (Gaps - gap[s])
    BY DEF Remaining
  <2>3. StepsFrom(pc[s]) \in Nat /\ 1 <= StepsFrom(pc[s])
    BY DEF StepsFrom
  <2>4. Remaining(s)' \in Nat /\ Remaining(s)' < Remaining(s)
    <3> DEFINE len == Len(ips[s])
               i == next[s]
               a == StepsFrom(pc[s])
               g == gap[s]
    <3>1. /\ len \in Nat /\ i \in Nat /\ a \in Nat /\ g \in Nat /\ Gaps \in Nat
          /\ i < len /\ g <= Gaps /\ 1 <= a
      BY <1>1, <1>4, <2>3
    <3>2. /\ Remaining(s)' = 5 * (len - (i + 1)) + 4 + (Gaps - g)
          /\ Remaining(s) = 5 * (len - i) + a + (Gaps - g)
      BY <2>1, <2>2
    <3> HIDE DEF len, i, a, g
    <3>3. /\ 5 * (len - (i + 1)) + 4 + (Gaps - g) \in Nat
          /\ 5 * (len - (i + 1)) + 4 + (Gaps - g) < 5 * (len - i) + a + (Gaps - g)
      BY <3>1
    <3>4. QED
      BY <3>2, <3>3
  <2>5. QED
    BY <1>1, <1>4, <2>4 DEF Advances
<1>5. QED
  BY <1>2, <1>3, <1>4

LEMMA ProbeAdvances ==
  ASSUME TypeOK, NEW s \in Servers, Probe(s)
  PROVE  Advances(s)
<1>1. CASE RejectServer(s) \/ ResolveFails(s) \/ Resolve(s)
  BY <1>1 DEF RejectServer, ResolveFails, Resolve, Report, Advances, TypeOK, ProbeTypes
<1>2. CASE TakeReply(s) \/ GiveUp(s)
  BY <1>2 DEF TakeReply, GiveUp, Report, Advances, TypeOK, ProbeTypes
<1>3. CASE SocketFailed(s) \/ ListenFails(s) \/ DropPending(s)
  <2>1. /\ pc[s] \in {"socket", "undo"} /\ UNCHANGED <<ips, gap>>
        /\ \E kind : NextAddr(s, kind)
    BY <1>3 DEF SocketFailed, ListenFails, DropPending
  <2>2. QED
    BY <2>1, AddrLeft
<1>4. CASE \/ UseSocket(s) \/ Listen(s) \/ InsertPending(s) \/ Write(s) \/ WriteFails(s)
           \/ Retransmit(s)
  <2>1. pc[s] \notin {"start", "done"}
    BY <1>4 DEF UseSocket, Listen, InsertPending, Write, WriteFails, Retransmit
  <2>2. UNCHANGED <<ips, next>>
    BY <1>4 DEF UseSocket, Listen, InsertPending, Write, WriteFails, Retransmit
  <2>3. \/ UNCHANGED gap /\ StepsFrom(pc'[s]) < StepsFrom(pc[s])
        \/ UNCHANGED pc /\ gap'[s] = gap[s] + 1 /\ gap[s] < Gaps
    BY <1>4
       DEF StepsFrom, TypeOK, ProbeTypes, UseSocket, Listen, InsertPending, Write, WriteFails,
           Retransmit
  <2>4. StepsFrom(pc[s]) \in Nat /\ StepsFrom(pc'[s]) \in Nat
    BY DEF StepsFrom
  <2>5. Remaining(s)' = 5 * (Len(ips[s]) - next[s]) + StepsFrom(pc'[s]) + (Gaps - gap'[s])
    BY <2>2 DEF Remaining
  <2>6. Remaining(s) = 5 * (Len(ips[s]) - next[s]) + StepsFrom(pc[s]) + (Gaps - gap[s])
    BY DEF Remaining
  <2>7. Remaining(s)' \in Nat /\ Remaining(s)' < Remaining(s)
    <3>1. /\ Len(ips[s]) \in Nat /\ next[s] \in Nat /\ next[s] <= Len(ips[s])
          /\ gap[s] \in Nat /\ gap[s] <= Gaps /\ Gaps \in Nat
      BY <2>1, AddrInRange
    <3>2. \/ gap'[s] = gap[s] /\ StepsFrom(pc'[s]) < StepsFrom(pc[s])
          \/ gap'[s] = gap[s] + 1 /\ StepsFrom(pc'[s]) = StepsFrom(pc[s])
      BY <2>3
    <3>3. gap'[s] \in Nat /\ gap'[s] <= Gaps
      BY <2>3, <3>1
    <3> DEFINE len == Len(ips[s])
               i == next[s]
               a == StepsFrom(pc[s])
               b == StepsFrom(pc'[s])
               g == gap[s]
               h == gap'[s]
    <3>4. /\ len \in Nat /\ i \in Nat /\ a \in Nat /\ b \in Nat /\ g \in Nat /\ h \in Nat
          /\ Gaps \in Nat /\ i <= len /\ h <= Gaps
          /\ (g = h /\ b < a) \/ (h = g + 1 /\ b = a)
      BY <2>4, <3>1, <3>2, <3>3
    <3>5. /\ Remaining(s)' = 5 * (len - i) + b + (Gaps - h)
          /\ Remaining(s) = 5 * (len - i) + a + (Gaps - g)
      BY <2>5, <2>6
    <3> HIDE DEF len, i, a, b, g, h
    <3>6. /\ 5 * (len - i) + b + (Gaps - h) \in Nat
          /\ 5 * (len - i) + b + (Gaps - h) < 5 * (len - i) + a + (Gaps - g)
      BY <3>4
    <3>7. QED
      BY <3>5, <3>6
  <2>8. QED
    BY <2>1, <2>7 DEF Advances
<1>5. QED
  BY <1>1, <1>2, <1>3, <1>4 DEF Probe, LockStep, FreeStep

LEMMA AllAdvance == TypeOK /\ [Next]_vars => [\A s \in Servers : Advances(s)]_vars
<1> SUFFICES ASSUME TypeOK, Next PROVE \A s \in Servers : Advances(s)
  OBVIOUS
<1>1. ASSUME NEW s \in Servers, Probe(s) PROVE \A t \in Servers : Advances(t)
  <2>1. Advances(s)
    BY <1>1, ProbeAdvances
  <2>2. \A t \in Servers \ {s} : Advances(t)
    BY <1>1, OthersStay DEF Advances
  <2>3. QED
    BY <2>1, <2>2
<1>2. CASE (\E c \in Conns : Reader(c)) \/ Close \/ Network \/ Expire \/ Terminated
  <2>1. UNCHANGED <<pc, next, gap>>
    BY <1>2
       DEF Reader, Deliver, ReadAnswer, ReadNoise, ReadError, Resume, ReaderExits, Receive,
           DropPacket, MatchPacket, HandOff, Close, StartClose, CloseConn, Unlock, Return,
           Network, Answer, Lose, Expire, Terminated, probeVars, vars
  <2>2. QED
    BY <2>1 DEF Advances
<1>3. QED
  BY <1>1, <1>2 DEF Next

\* What Termination owes to the program and not to the scheduler: a goroutine takes a
\* bounded number of steps, five per address of its host and one per retransmission,
\* and never returns to an address or repeats the schedule, whatever the network sends
\* and the other goroutines do (probeAddrs, await).
THEOREM ProbesAdvance == Spec => [][\A s \in Servers : Advances(s)]_vars
<1>1. QED
  BY AllAdvance, TypeCorrect, PTL DEF Spec
=============================================================================
