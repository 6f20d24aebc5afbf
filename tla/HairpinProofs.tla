---------------------------- MODULE HairpinProofs ----------------------------
(***************************************************************************)
(* Proofs about Hairpin, for every timeout, every time ctx may have left,  *)
(* every NAT and every schedule of the goroutines.                         *)
(***************************************************************************)
EXTENDS Hairpin, TLAPS

\* The actions, in the order of the steps of every proof below.
LEMMA Steps ==
    ASSUME [Next]_vars
    PROVE  \/ \E c \in Sockets :
                  \/ JobSend(c) \/ JobListen(c) \/ JobTimeout(c) \/ Answered(c)
                  \/ Discard(c) \/ JobFails(c) \/ Answer(c) \/ Lose(c)
           \/ CannotStart \/ Start \/ Collect \/ SendTag \/ Listen \/ Elapsed
           \/ SendFails \/ ListenFails \/ ReadBreaks
           \/ \E p \in {"tag", "other"} : ReadPacket(p)
           \/ CutA \/ CutB \/ BridgeEnds \/ TagReturns \/ LoseTag \/ EndCtx \/ Tick
           \/ UNCHANGED vars
  BY DEF Next, Job, Main, Bridge, Cancel, Expire, Terminated

-----------------------------------------------------------------------------
(* Type correctness *)

LEMMA PerProbeType == PerProbe \in Nat /\ MaxSpent \in Nat
<1>1. Half \in Nat
  BY TimeAssumption DEF Half
<1>2. QED
  BY <1>1, TimeAssumption DEF PerProbe, MaxSpent

LEMMA WindowType == TypeOK => Window \in Nat
  BY TimeAssumption DEF TypeOK, Window

LEMMA TypeInit == Init => TypeOK
<1> SUFFICES ASSUME Init PROVE TypeOK
  OBVIOUS
<1>1. ctxLeft \in Nat \cup {Never}
  BY TimeAssumption DEF Init
<1>2. spent \in 0 .. MaxSpent /\ listened \in 0 .. MaxSpent
  BY PerProbeType DEF Init
<1>3. QED
  BY <1>1, <1>2, NoneAssumption DEF Init, TypeOK

LEMMA TypeNext == TypeOK /\ [Next]_vars => TypeOK'
<1> SUFFICES ASSUME TypeOK, [Next]_vars PROVE TypeOK'
  OBVIOUS
<1> USE DEF TypeOK, clock
<1>1. ASSUME NEW c \in Sockets,
             \/ JobSend(c) \/ JobListen(c) \/ JobTimeout(c) \/ Answered(c)
             \/ Discard(c) \/ JobFails(c)
      PROVE TypeOK'
  <2>1. CASE JobSend(c)
    BY <2>1, PerProbeType DEF JobSend, JobGoes
  <2>2. CASE JobListen(c)
    BY <2>2 DEF JobListen, JobGoes
  <2>3. CASE JobTimeout(c) \/ Answered(c) \/ Discard(c) \/ JobFails(c)
    <3>1. /\ job' \in [Sockets -> {"idle", "send", "loop", "read", "ok", "failed"}]
          /\ UNCHANGED <<hairpins, pc, end, cut, bridge, wire, tag, broke, result, clock>>
      BY <2>3 DEF JobTimeout, Answered, Discard, JobFails, JobGoes
    <3>2. QED
      BY <3>1
  <2>4. QED
    BY <1>1, <2>1, <2>2, <2>3
<1>2. ASSUME NEW c \in Sockets, Answer(c) \/ Lose(c) PROVE TypeOK'
  BY <1>2 DEF Answer, Lose, Transmit
<1>3. CASE CannotStart \/ Start
  BY <1>3, NoneAssumption DEF CannotStart, Start, Done
<1>4. CASE Collect \/ SendFails \/ ListenFails
  BY <1>4, NoneAssumption DEF Collect, SendFails, ListenFails, Done
<1>5. CASE SendTag \/ Listen
  BY <1>5, WindowType DEF SendTag, Listen, Sockets
<1>6. CASE Elapsed \/ ReadBreaks
  BY <1>6, NoneAssumption DEF Elapsed, ReadBreaks, Done
<1>7. ASSUME NEW p \in {"tag", "other"}, ReadPacket(p) PROVE TypeOK'
  BY <1>7, NoneAssumption DEF ReadPacket, Done
<1>8. CASE CutA \/ CutB \/ BridgeEnds
  BY <1>8 DEF CutA, CutB, BridgeEnds, BridgeGoes, Sockets
<1>9. CASE TagReturns \/ LoseTag
  BY <1>9 DEF TagReturns, LoseTag, Transmit
<1>10. CASE EndCtx
  BY <1>10 DEF EndCtx
<1>11. CASE Tick
  <2>1. \A c \in Sockets : Down(end[c]) \in Nat
    BY DEF Down
  <2>2. ctxLeft' \in Nat \cup {Never}
    BY <1>11 DEF Tick, Down
  <2>3. spent' \in 0 .. MaxSpent /\ listened' \in 0 .. MaxSpent
    BY <1>11, PerProbeType DEF Tick
  <2>4. QED
    BY <1>11, <2>1, <2>2, <2>3 DEF Tick
<1>12. CASE UNCHANGED vars
  BY <1>12 DEF vars
<1>13. QED
  BY Steps, <1>1, <1>2, <1>3, <1>4, <1>5, <1>6, <1>7, <1>8, <1>9, <1>10, <1>11, <1>12

\* TypeOK of every variable in every call (Hairpin.TypeOK).
THEOREM TypeCorrect == Spec => []TypeOK
  BY TypeInit, TypeNext, PTL DEF Spec

-----------------------------------------------------------------------------
(* What a verdict rests on *)

\* Past the STUN phase both sockets have their answer; past the send the nonce is out.
Progress ==
    /\ pc = "start" => \A c \in Sockets : job[c] = "idle"
    /\ pc \in {"send", "loop", "read"} \/ result \in {"true", "false"} =>
           \A c \in Sockets : job[c] = "ok"
    /\ pc \in {"loop", "read"} \/ result \in {"true", "false"} => tag # "unsent"
    /\ pc = "done" => \A c \in Sockets : ~Active(c)

\* What arrived was let through and stays, in the socket or in what was read from it.
Arrivals ==
    /\ \A c \in Sockets : job[c] = "ok" => wire[c] = "arrived"
    /\ tag = "arrived" => hairpins
    /\ result = "true" => tag = "arrived"

Evidence == Progress /\ Arrivals

LEMMA EvidenceInit == Init => Evidence
  BY NoneAssumption DEF Init, Evidence, Progress, Arrivals

LEMMA EvidenceNext == TypeOK /\ Evidence /\ [Next]_vars => Evidence'
<1> SUFFICES ASSUME TypeOK, Evidence, [Next]_vars PROVE Evidence'
  OBVIOUS
<1> USE NoneAssumption DEF TypeOK, Evidence, Progress, Arrivals, Active, clock
<1>1. ASSUME NEW c \in Sockets,
             \/ JobSend(c) \/ JobListen(c) \/ JobTimeout(c) \/ Answered(c)
             \/ Discard(c) \/ JobFails(c)
      PROVE Evidence'
  BY <1>1 DEF JobSend, JobListen, JobTimeout, Answered, Discard, JobFails, JobGoes
<1>2. ASSUME NEW c \in Sockets, Answer(c) \/ Lose(c) PROVE Evidence'
  BY <1>2 DEF Answer, Lose, Transmit
<1>3. CASE CannotStart \/ Start
  BY <1>3 DEF CannotStart, Start, Done
<1>4. CASE Collect \/ SendFails \/ ListenFails
  BY <1>4 DEF Collect, Collected, SendFails, ListenFails, Done
<1>5. CASE SendTag \/ Listen
  BY <1>5 DEF SendTag, Listen
<1>6. CASE Elapsed \/ ReadBreaks
  BY <1>6 DEF Elapsed, ReadBreaks, Done
<1>7. ASSUME NEW p \in {"tag", "other"}, ReadPacket(p) PROVE Evidence'
  BY <1>7 DEF ReadPacket, Matches, Done
<1>8. CASE CutA \/ CutB \/ BridgeEnds
  BY <1>8 DEF CutA, CutB, BridgeEnds, BridgeGoes
<1>9. CASE TagReturns \/ LoseTag
  BY <1>9 DEF TagReturns, LoseTag, Transmit
<1>10. CASE EndCtx
  BY <1>10 DEF EndCtx
<1>11. CASE Tick
  BY <1>11 DEF Tick
<1>12. CASE UNCHANGED vars
  BY <1>12 DEF vars
<1>13. QED
  BY Steps, <1>1, <1>2, <1>3, <1>4, <1>5, <1>6, <1>7, <1>8, <1>9, <1>10, <1>11, <1>12

LEMMA EvidenceHolds == Spec => []Evidence
  BY TypeCorrect, EvidenceInit, EvidenceNext, PTL DEF Spec

\* A verdict rests on two answered probes and a nonce that was sent, and "true" on its
\* return (Hairpin.Witnessed).
THEOREM WitnessedHolds == Spec => []Witnessed
<1>1. Evidence => Witnessed
  BY DEF Evidence, Progress, Arrivals, Witnessed
<1>2. QED
  BY <1>1, EvidenceHolds, PTL

\* The sockets are closed when no probe is at them (Hairpin.NoStragglers).
THEOREM NoStragglersHolds == Spec => []NoStragglers
<1>1. Evidence => NoStragglers
  BY DEF Evidence, Progress, NoStragglers
<1>2. QED
  BY <1>1, EvidenceHolds, PTL

-----------------------------------------------------------------------------
(* The contract *)

LEMMA ContractInit == Init => Contract!Init
  BY DEF Init, Contract!Init

LEMMA ContractStep ==
    TypeOK /\ Evidence /\ [Next]_vars => [Contract!Return]_(Contract!vars)
<1> SUFFICES ASSUME TypeOK, Evidence, [Next]_vars,
                    ~(UNCHANGED <<hairpins, result>>)
             PROVE  Contract!Return
  BY DEF Contract!vars
<1> USE NoneAssumption DEF TypeOK, Contract!Return, Contract!Outcomes, clock
<1>1. CASE CannotStart \/ Collect \/ SendFails \/ ListenFails
  BY <1>1 DEF CannotStart, Collect, SendFails, ListenFails, Done
<1>2. CASE Elapsed \/ ReadBreaks
  BY <1>2 DEF Elapsed, ReadBreaks, Done
<1>3. ASSUME NEW p \in {"tag", "other"}, ReadPacket(p) PROVE Contract!Return
  BY <1>3 DEF ReadPacket, Matches, Done, Evidence, Arrivals
<1>4. ASSUME NEW c \in Sockets,
             \/ JobSend(c) \/ JobListen(c) \/ JobTimeout(c) \/ Answered(c)
             \/ Discard(c) \/ JobFails(c) \/ Answer(c) \/ Lose(c)
      PROVE FALSE
  BY <1>4 DEF JobSend, JobListen, JobTimeout, Answered, Discard, JobFails, JobGoes,
              Answer, Lose, Transmit
<1>5. ASSUME \/ Start \/ SendTag \/ Listen \/ CutA \/ CutB \/ BridgeEnds
             \/ TagReturns \/ LoseTag \/ EndCtx \/ Tick \/ UNCHANGED vars
      PROVE FALSE
  BY <1>5 DEF Start, SendTag, Listen, CutA, CutB, BridgeEnds, BridgeGoes, TagReturns,
              LoseTag, Transmit, EndCtx, Tick, vars
<1>6. QED
  BY Steps, <1>1, <1>2, <1>3, <1>4, <1>5

\* A call keeps the contract that the command line is modelled with
\* (Hairpin.KeepsContract).
THEOREM Refines == Spec => KeepsContract
  BY TypeCorrect, EvidenceHolds, ContractInit, ContractStep, PTL
     DEF Spec, KeepsContract, Contract!Spec

-----------------------------------------------------------------------------
(* The time a call takes *)

\* No time passes before both requests are out, and then no more than what is left of
\* the window of whoever waits.
Budget ==
    /\ pc = "start" => spent = 0
    /\ \A c \in Sockets : job[c] = "send" => spent = 0
    /\ pc = "probe" => \A c \in Sockets : job[c] \in {"loop", "read"} =>
           spent + end[c] <= PerProbe
    /\ pc \in {"probe", "send"} => spent <= PerProbe
    /\ pc \in {"loop", "read"} => spent + end["B"] <= PerProbe + Timeout
    /\ pc = "done" => spent <= PerProbe + Timeout

LEMMA WindowBound == TypeOK => Window <= Timeout
  BY TimeAssumption DEF TypeOK, Window

LEMMA BudgetInit == Init => Budget
  BY PerProbeType, TimeAssumption DEF Init, Budget

LEMMA BudgetNext == TypeOK /\ Evidence /\ Budget /\ [Next]_vars => Budget'
<1> SUFFICES ASSUME TypeOK, Evidence, Budget, [Next]_vars PROVE Budget'
  OBVIOUS
<1> USE PerProbeType, TimeAssumption DEF TypeOK, Budget, clock
<1>1. ASSUME NEW c \in Sockets,
             \/ JobSend(c) \/ JobListen(c) \/ JobTimeout(c) \/ Answered(c)
             \/ Discard(c) \/ JobFails(c)
      PROVE Budget'
  <2>1. pc = "probe"
    BY <1>1 DEF JobSend, JobListen, JobTimeout, Answered, Discard, JobFails, Active,
                Evidence, Progress
  <2>2. QED
    BY <1>1, <2>1
       DEF JobSend, JobListen, JobTimeout, Answered, Discard, JobFails, JobGoes, Active
<1>2. ASSUME NEW c \in Sockets, Answer(c) \/ Lose(c) PROVE Budget'
  BY <1>2 DEF Answer, Lose, Transmit
<1>3. CASE CannotStart \/ Start
  BY <1>3 DEF CannotStart, Start, Done, Evidence, Progress
<1>4. CASE Collect \/ SendFails \/ ListenFails
  BY <1>4 DEF Collect, SendFails, ListenFails, Done, Sockets
<1>5. CASE SendTag \/ Listen
  BY <1>5, WindowBound, WindowType DEF SendTag, Listen, Sockets, Evidence, Progress
<1>6. CASE Elapsed \/ ReadBreaks
  BY <1>6 DEF Elapsed, ReadBreaks, Done, Sockets
<1>7. ASSUME NEW p \in {"tag", "other"}, ReadPacket(p) PROVE Budget'
  BY <1>7 DEF ReadPacket, Done, Sockets
<1>8. CASE CutA \/ CutB \/ BridgeEnds
  BY <1>8 DEF CutA, CutB, BridgeEnds, BridgeGoes
<1>9. CASE TagReturns \/ LoseTag
  BY <1>9 DEF TagReturns, LoseTag, Transmit
<1>10. CASE EndCtx
  BY <1>10 DEF EndCtx
<1>11. CASE Tick
  <2>1. /\ spent' <= spent + 1
        /\ \A c \in Sockets : end[c] > 0 => end'[c] = end[c] - 1
        /\ UNCHANGED <<pc, job>>
    BY <1>11 DEF Tick, Down
  <2>2. \A c \in Sockets :
            /\ job[c] # "send"
            /\ job[c] \in {"loop", "read"} => end[c] > 0
    BY <1>11 DEF Tick, NothingDue, Waiting
  <2>3. \/ pc = "probe" /\ \E c \in Sockets : job[c] \in {"loop", "read"}
        \/ pc \in {"loop", "read"} /\ end["B"] > 0
    BY <1>11, <2>2 DEF Tick, NothingDue, Waiting, Active
  <2>4. "B" \in Sockets
    BY DEF Sockets
  <2>5. spent' \in Nat /\ \A c \in Sockets : end'[c] \in Nat
    BY <1>11, TypeNext DEF Sockets
  <2>6. CASE pc = "probe"
    BY <2>1, <2>2, <2>3, <2>5, <2>6
  <2>7. CASE pc \in {"loop", "read"}
    BY <2>1, <2>2, <2>3, <2>4, <2>5, <2>7
  <2>8. QED
    BY <2>3, <2>6, <2>7
<1>12. CASE UNCHANGED vars
  BY <1>12 DEF vars
<1>13. QED
  BY Steps, <1>1, <1>2, <1>3, <1>4, <1>5, <1>6, <1>7, <1>8, <1>9, <1>10, <1>11, <1>12

LEMMA BudgetHolds == Spec => []Budget
<1>1. QED
  BY TypeCorrect, EvidenceHolds, BudgetInit, BudgetNext, PTL DEF Spec

\* A timeout of 1 has no half, and each probe is then given the default.
LEMMA BudgetBound ==
  ASSUME Timeout >= 2, TypeOK, Budget
  PROVE  Bounded
<1>1. Half \in Nat /\ Half # 0 /\ 2 * Half <= Timeout
  BY TimeAssumption DEF Half
<1>2. 2 * PerProbe <= Timeout
  BY <1>1, TimeAssumption DEF PerProbe
<1>3. spent \in Nat /\ end["B"] \in Nat
  BY PerProbeType DEF TypeOK, Sockets
<1>4. spent <= PerProbe + Timeout
  BY <1>3, PerProbeType, TimeAssumption DEF TypeOK, Budget
<1>5. QED
  BY <1>2, <1>3, <1>4, PerProbeType, TimeAssumption DEF Bounded

\* The documented bound, for every timeout that half of is not zero (Hairpin.Bounded).
THEOREM BoundedHolds == Spec => [](Timeout >= 2 => Bounded)
<1>1. TypeOK /\ Budget => (Timeout >= 2 => Bounded)
  BY BudgetBound
<1>2. QED
  BY <1>1, TypeCorrect, BudgetHolds, PTL

-----------------------------------------------------------------------------
(* The wait for the nonce *)

\* The window is used up or shortened by ctx, and nothing but ctx cuts a read.
Waited ==
    /\ pc \in {"start", "probe", "send"} => listened = 0
    /\ pc \in {"loop", "read"} =>
           listened + end["B"] = Timeout \/ (ctxLeft # Never /\ ctxLeft <= end["B"])
    /\ bridge = "half" \/ (\E c \in Sockets : cut[c]) => ctxDone
    /\ FullWindow

LEMMA WaitedInit == Init => Waited
  BY NoneAssumption DEF Init, Waited, FullWindow

LEMMA WaitedNext == TypeOK /\ Evidence /\ Waited /\ [Next]_vars => Waited'
<1> SUFFICES ASSUME TypeOK, Evidence, Waited, [Next]_vars PROVE Waited'
  OBVIOUS
<1> USE NoneAssumption, TimeAssumption DEF TypeOK, Waited, FullWindow, clock
<1>1. ASSUME NEW c \in Sockets,
             \/ JobSend(c) \/ JobListen(c) \/ JobTimeout(c) \/ Answered(c)
             \/ Discard(c) \/ JobFails(c)
      PROVE Waited'
  <2>1. pc = "probe"
    BY <1>1 DEF JobSend, JobListen, JobTimeout, Answered, Discard, JobFails, Active,
                Evidence, Progress
  <2>2. QED
    BY <1>1, <2>1
       DEF JobSend, JobListen, JobTimeout, Answered, Discard, JobFails, JobGoes
<1>2. ASSUME NEW c \in Sockets, Answer(c) \/ Lose(c) PROVE Waited'
  BY <1>2 DEF Answer, Lose, Transmit
<1>3. CASE CannotStart \/ Start
  BY <1>3 DEF CannotStart, Start, Done
<1>4. CASE Collect \/ SendFails \/ ListenFails
  BY <1>4 DEF Collect, SendFails, ListenFails, Done
<1>5. CASE SendTag \/ Listen
  <2>1. CASE SendTag
    <3>1. Window = Timeout \/ (ctxLeft # Never /\ Window = ctxLeft)
      BY DEF Window
    <3>2. end'["B"] = Window /\ listened = 0 /\ pc' = "loop" /\ UNCHANGED <<ctxLeft, listened>>
      BY <2>1 DEF SendTag, Sockets
    <3>3. QED
      BY <2>1, <3>1, <3>2, WindowType DEF SendTag
  <2>2. CASE Listen
    BY <2>2 DEF Listen
  <2>3. QED
    BY <1>5, <2>1, <2>2
<1>6. CASE Elapsed \/ ReadBreaks
  BY <1>6 DEF Elapsed, TimedOut, ReadBreaks, Done, Sockets
<1>7. ASSUME NEW p \in {"tag", "other"}, ReadPacket(p) PROVE Waited'
  BY <1>7 DEF ReadPacket, Done
<1>8. CASE CutA \/ CutB \/ BridgeEnds
  BY <1>8 DEF CutA, CutB, BridgeEnds, BridgeGoes
<1>9. CASE TagReturns \/ LoseTag
  BY <1>9 DEF TagReturns, LoseTag, Transmit
<1>10. CASE EndCtx
  BY <1>10 DEF EndCtx
<1>11. CASE Tick
  <2>1. pc = "probe" \/ (pc \in {"loop", "read"} /\ end["B"] > 0)
    BY <1>11 DEF Tick, NothingDue, Waiting
  <2>2. /\ end'["B"] = Down(end["B"]) /\ UNCHANGED <<pc, cut, bridge, ctxDone, result, broke>>
        /\ ctxLeft' = IF ctxLeft = Never THEN Never ELSE Down(ctxLeft)
        /\ listened' = IF pc # "probe" /\ listened < MaxSpent THEN listened + 1 ELSE listened
    BY <1>11 DEF Tick, Sockets
  <2>3. end["B"] \in Nat /\ listened \in Nat
    BY PerProbeType DEF Sockets
  <2>4. CASE pc = "probe"
    BY <2>2, <2>4
  <2>5. CASE pc \in {"loop", "read"} /\ listened + end["B"] = Timeout
    <3>1. listened < MaxSpent
      BY <2>1, <2>3, <2>5, PerProbeType DEF MaxSpent
    <3>2. listened' + end'["B"] = Timeout
      BY <2>1, <2>2, <2>3, <2>5, <3>1 DEF Down
    <3>3. QED
      BY <2>2, <2>5, <3>2
  <2>6. CASE pc \in {"loop", "read"} /\ ctxLeft # Never /\ ctxLeft <= end["B"]
    <3>1. ctxLeft' # Never /\ ctxLeft' <= end'["B"]
      BY <2>1, <2>2, <2>3, <2>6 DEF Down
    <3>2. QED
      BY <2>2, <2>6, <3>1
  <2>7. QED
    BY <2>1, <2>4, <2>5, <2>6
<1>12. CASE UNCHANGED vars
  BY <1>12 DEF vars
<1>13. QED
  BY Steps, <1>1, <1>2, <1>3, <1>4, <1>5, <1>6, <1>7, <1>8, <1>9, <1>10, <1>11, <1>12

\* "false" comes after the whole wait, if no read failed and ctx had time
\* (Hairpin.FullWindow).
THEOREM FullWindowHolds == Spec => []FullWindow
<1>1. Waited => FullWindow
  BY DEF Waited
<1>2. QED
  BY <1>1, TypeCorrect, EvidenceHolds, WaitedInit, WaitedNext, PTL DEF Spec
=============================================================================
