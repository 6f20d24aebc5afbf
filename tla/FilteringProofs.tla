--------------------------- MODULE FilteringProofs ---------------------------
(***************************************************************************)
(* Proofs about Filtering, for every server, every NAT before it, every    *)
(* timeout and every loss, delay or repetition of packets.                 *)
(***************************************************************************)
EXTENDS Filtering, TLAPS

-----------------------------------------------------------------------------
(* Helpers *)

LEMMA Bits ==
  /\ IsSet(6, 4) = TRUE  /\ IsSet(6, 2) = TRUE
  /\ IsSet(4, 4) = TRUE  /\ IsSet(4, 2) = FALSE
  /\ IsSet(2, 4) = FALSE /\ IsSet(2, 2) = TRUE
  /\ IsSet(0, 4) = FALSE /\ IsSet(0, 2) = FALSE
<1>1. 6 \div 4 = 1 /\ 6 \div 2 = 3 /\ 4 \div 4 = 1 /\ 4 \div 2 = 2
  OBVIOUS
<1>2. 2 \div 4 = 0 /\ 2 \div 2 = 1 /\ 0 \div 4 = 0 /\ 0 \div 2 = 0
  OBVIOUS
<1>3. 0 % 2 = 0 /\ 1 % 2 = 1 /\ 2 % 2 = 0 /\ 3 % 2 = 1
  OBVIOUS
<1>4. QED
  BY <1>1, <1>2, <1>3 DEF IsSet

\* A server that parses what was built sees what was asked for.
LEMMA ParseBuild ==
  ASSUME NEW ip \in BOOLEAN, NEW port \in BOOLEAN
  PROVE  ParseChangeRequest([binding |-> TRUE, change |-> {BuildChangeRequest(<<ip, port>>)}])
           = [ok |-> TRUE, flags |-> <<ip, port>>]
<1>1. BuildChangeRequest(<<ip, port>>) =
        IF ip THEN IF port THEN 6 ELSE 4 ELSE IF port THEN 2 ELSE 0
  BY DEF BuildChangeRequest, Flag, ChangeIP, ChangePort
<1>2. /\ IsSet(BuildChangeRequest(<<ip, port>>), 4) = ip
      /\ IsSet(BuildChangeRequest(<<ip, port>>), 2) = port
  BY <1>1, Bits
<1> DEFINE value == BuildChangeRequest(<<ip, port>>)
<1> HIDE DEF value
<1>3. (CHOOSE x \in {value} : TRUE) = value /\ {value} # {}
  OBVIOUS
<1>4. QED
  BY <1>2, <1>3 DEF ParseChangeRequest, ChangeIP, ChangePort, value

LEMMA OneAttribute ==
  ASSUME NEW i, NEW ip \in BOOLEAN, NEW port \in BOOLEAN, Asks[i] = {<<ip, port>>}
  PROVE  Asked(i) = <<ip, port>>
<1> DEFINE c == <<ip, port>>
           parsed == ParseChangeRequest(Request(i))
<1>1. {BuildChangeRequest(x) : x \in Asks[i]} = {BuildChangeRequest(x) : x \in {c}}
  OBVIOUS
<1>2. {BuildChangeRequest(x) : x \in {c}} = {BuildChangeRequest(c)}
  OBVIOUS
<1>3. Request(i) = [binding |-> TRUE, change |-> {BuildChangeRequest(c)}]
  BY <1>1, <1>2 DEF Request
<1>4. parsed = ParseChangeRequest([binding |-> TRUE, change |-> {BuildChangeRequest(c)}])
  BY <1>3
<1>5. parsed = [ok |-> TRUE, flags |-> c]
  BY <1>4, ParseBuild
<1> HIDE DEF c, parsed
<1>6. parsed.flags = c
  BY <1>5
<1>7. QED
  BY <1>6 DEF Asked, c, parsed

LEMMA AskedIsAsks ==
  /\ Asked(1) = <<FALSE, FALSE>> /\ Asked(2) = <<TRUE, TRUE>> /\ Asked(3) = <<FALSE, TRUE>>
  /\ \A i \in Tests : Asked(i) \in Changes
<1>1. Asks[1] = {} /\ Asks[2] = {<<TRUE, TRUE>>} /\ Asks[3] = {<<FALSE, TRUE>>}
  BY DEF Asks
<1>2. Asked(1) = <<FALSE, FALSE>>
  BY <1>1 DEF Asked, Request, ParseChangeRequest
<1>3. Asked(2) = <<TRUE, TRUE>>
  BY <1>1, OneAttribute
<1>4. Asked(3) = <<FALSE, TRUE>>
  BY <1>1, OneAttribute
<1>5. \A ip, port \in BOOLEAN : <<ip, port>> \in Changes
  BY DEF Changes
<1>6. \A i \in Tests : i = 1 \/ i = 2 \/ i = 3
  BY DEF Tests
<1>7. QED
  BY <1>2, <1>3, <1>4, <1>5, <1>6

LEMMA PathType ==
  ASSUME path \in Paths
  PROVE  /\ path.target \in Endpoints /\ path.other \in Endpoints \cup {None}
         /\ path.filter \in Filters
         /\ \A i \in Tests : Source(i) \in Endpoints /\ Reply(i) \in Outcomes
<1>1. /\ path.target \in Endpoints /\ path.other \in Endpoints \cup {None}
      /\ path.filter \in Filters /\ path.source \in [Changes -> Endpoints]
  BY PathAssumption DEF PathRecords
<1>2. \A i \in Tests : Source(i) \in Endpoints
  BY <1>1, AskedIsAsks DEF Source
<1>3. QED
  BY <1>1, <1>2 DEF Reply, Outcomes

LEMMA PerTestType == PerTest \in Nat \ {0} /\ MaxSpent \in Nat
<1>1. Timeout \div 2 \in Nat
  BY TimeAssumption
<1>2. QED
  BY <1>1, TimeAssumption DEF PerTest, MaxSpent

LEMMA FailsType ==
  ASSUME NEW k \in {"pending", "silence", "readError", "localError", "badReply"}
  PROVE  Fails(k) \in Outcomes /\ Fails(k).kind = k
  BY DEF Fails, Outcomes

LEMMA JudgeType == \A o2, o3 : Judge(o2, o3) \in Results
<1>1. \A o : Received(o) \in BOOLEAN
  BY DEF Received
<1>2. Failed("notSupported") \in Results
  BY DEF Failed, Results
<1>3. QED
  BY <1>1, <1>2 DEF Judge, Results

-----------------------------------------------------------------------------
(* The steps *)

\* Packets may have been read.
Taken ==
    /\ wire' \in [Tests -> {"unsent", "sent", "arrived", "filtered", "lost", "read"}]
    /\ \A i \in Tests : wire'[i] # wire[i] => wire[i] = "arrived" /\ wire'[i] = "read"

\* A step that ends a test with the outcome o, and why it is that one.
Ending(o) ==
    /\ pc \in {"send", "loop", "read"}
    /\ EndTest(o)
    /\ o.kind # "pending"
    /\ o.kind = "reply" => o = Reply(test) /\ wire[test] = "arrived"
    /\ o.kind = "badReply" => Kind(test) # "success"
    /\ Taken
    /\ UNCHANGED <<path, left, spent>>

\* A step that goes on with a test.
Goes ==
    /\ pc \in {"loop", "read"} /\ pc' \in {"loop", "read"}
    /\ Taken
    /\ UNCHANGED <<path, test, left, spent, outcome, result>>

LEMMA DeliverTakes ==
  ASSUME TypeOK, NEW i \in Tests, Deliver(i)
  PROVE  Taken /\ pc = "read" /\ wire[i] = "arrived"
  BY DEF TypeOK, Deliver, Taken

LEMMA UnchangedTakes == TypeOK /\ UNCHANGED wire => Taken
  BY DEF TypeOK, Taken

LEMMA Endings ==
  ASSUME TypeOK,
         \/ SendFails \/ Elapsed \/ ListenFails \/ ReadTimeout \/ ReadError
         \/ \E i \in Tests : ReadAnswer(i)
  PROVE  \E o \in Outcomes : Ending(o)
<1>1. ASSUME NEW k \in {"silence", "readError", "localError"},
             EndTest(Fails(k)), pc \in {"send", "loop", "read"},
             UNCHANGED <<path, left, spent, wire>>
      PROVE  \E o \in Outcomes : Ending(o)
  <2>1. Fails(k) \in Outcomes /\ Fails(k).kind = k
    BY FailsType
  <2>2. Ending(Fails(k))
    BY <1>1, <2>1, UnchangedTakes DEF Ending
  <2>3. QED
    BY <2>1, <2>2
<1>2. CASE SendFails \/ ListenFails
  BY <1>1, <1>2 DEF SendFails, ListenFails
<1>3. CASE Elapsed \/ ReadTimeout
  BY <1>1, <1>3 DEF Elapsed, ReadTimeout
<1>4. CASE ReadError
  BY <1>1, <1>4 DEF ReadError
<1>5. ASSUME NEW i \in Tests, ReadAnswer(i) PROVE \E o \in Outcomes : Ending(o)
  <2>1. i = test /\ UNCHANGED <<path, left, spent>>
    BY <1>5 DEF ReadAnswer, Matches
  <2>2. Taken /\ pc = "read" /\ wire[test] = "arrived"
    BY <1>5, <2>1, DeliverTakes DEF ReadAnswer
  <2>3. CASE Kind(i) = "success"
    <3>1. EndTest(Reply(test))
      BY <1>5, <2>1, <2>3 DEF ReadAnswer
    <3>2. Reply(test) \in Outcomes /\ Reply(test).kind = "reply"
      BY <1>5, <2>1, PathType DEF TypeOK, Reply
    <3>3. Ending(Reply(test))
      BY <2>1, <2>2, <3>1, <3>2 DEF Ending
    <3>4. QED
      BY <3>2, <3>3
  <2>4. CASE Kind(i) # "success"
    <3>1. EndTest(Fails("badReply"))
      BY <1>5, <2>4 DEF ReadAnswer
    <3>2. Fails("badReply") \in Outcomes /\ Fails("badReply").kind = "badReply"
      BY FailsType
    <3>3. Ending(Fails("badReply"))
      BY <2>1, <2>2, <2>4, <3>1, <3>2 DEF Ending
    <3>4. QED
      BY <3>2, <3>3
  <2>5. QED
    BY <2>3, <2>4
<1>6. QED
  BY <1>2, <1>3, <1>4, <1>5

LEMMA Steps ==
  ASSUME TypeOK, [Next]_vars
  PROVE  \/ CannotStart \/ Start \/ Send \/ Goes \/ Tick \/ UNCHANGED vars
         \/ \E o \in Outcomes : Ending(o)
         \/ \E i \in Tests : Answer(i) \/ Lose(i)
<1>1. CASE Program \/ Read
  <2>1. CASE Listen \/ ReadGarbage
    BY <2>1, UnchangedTakes DEF Listen, ReadGarbage, Goes
  <2>2. ASSUME NEW i \in Tests, ReadStale(i) PROVE Goes
    BY <2>2, DeliverTakes DEF ReadStale, Goes
  <2>3. QED
    BY <1>1, <2>1, <2>2, Endings DEF Program, Read
<1>2. QED
  BY <1>1 DEF Next, Network, Terminated

\* What follows a test (the CASE of EndTest).
LEMMA EndTestCases ==
  ASSUME NEW o, test \in Tests, EndTest(o)
  PROVE  /\ outcome' = [outcome EXCEPT ![test] = o]
         /\ \/ test = 1 /\ ~Received(o) /\ Done(Failed("other"))
            \/ test = 1 /\ path.other = None /\ Done(Failed("notSupported"))
            \/ test = 1 /\ Received(o) /\ path.other # None /\ NextTest
            \/ test = 2 /\ NextTest
            \/ test = 3 /\ Done(Judge(outcome[2], o))
<1>1. test = 1 \/ test = 2 \/ test = 3
  BY DEF Tests
<1>2. CASE test = 1
  BY <1>2 DEF EndTest
<1>3. CASE test = 2
  BY <1>3 DEF EndTest
<1>4. CASE test = 3
  BY <1>4 DEF EndTest
<1>5. QED
  BY <1>1, <1>2, <1>3, <1>4

-----------------------------------------------------------------------------
(* Type correctness *)

LEMMA FailedType == \A err \in {"notSupported", "other"} : Failed(err) \in Results
  BY DEF Failed, Results

LEMMA DoneType == \A r \in Results : r # None
  BY NoneAssumption

LEMMA TypeInit == Init => TypeOK
<1> SUFFICES ASSUME Init PROVE TypeOK
  OBVIOUS
<1>1. Pending \in Outcomes
  BY DEF Pending, Outcomes
<1>2. left \in 0 .. PerTest /\ spent \in 0 .. MaxSpent
  BY PerTestType DEF Init
<1>3. QED
  BY <1>1, <1>2 DEF Init, TypeOK, Tests

LEMMA TypeNext == TypeOK /\ [Next]_vars => TypeOK'
<1> SUFFICES ASSUME TypeOK, [Next]_vars PROVE TypeOK'
  OBVIOUS
<1> USE DEF TypeOK
<1>1. CASE CannotStart
  BY <1>1, FailedType, DoneType DEF CannotStart, Done
<1>2. CASE Start
  BY <1>2 DEF Start
<1>3. CASE Send
  BY <1>3, PerTestType DEF Send
<1>4. CASE Goes
  BY <1>4 DEF Goes, Taken
<1>5. ASSUME NEW o \in Outcomes, Ending(o) PROVE TypeOK'
  <2>1. outcome' \in [Tests -> Outcomes]
    BY <1>5, EndTestCases DEF Ending
  <2>2. pc' \in {"send", "done"} /\ test' \in Tests
    BY <1>5, EndTestCases DEF Ending, Done, NextTest, Tests
  <2>3. result' \in Results \cup {None} /\ (pc' = "done" <=> result' # None)
    BY <1>5, EndTestCases, FailedType, JudgeType, DoneType DEF Ending, Done, NextTest
  <2>4. QED
    BY <1>5, <2>1, <2>2, <2>3 DEF Ending, Taken
<1>6. ASSUME NEW i \in Tests, Answer(i) \/ Lose(i) PROVE TypeOK'
  BY <1>6 DEF Answer, Lose
<1>7. CASE Tick
  BY <1>7, PerTestType DEF Tick
<1>8. CASE UNCHANGED vars
  BY <1>8 DEF vars
<1>9. QED
  BY Steps, <1>1, <1>2, <1>3, <1>4, <1>5, <1>6, <1>7, <1>8

\* Every variable keeps its type (Filtering.TypeOK).
THEOREM TypeCorrect == Spec => []TypeOK
<1>1. QED
  BY TypeInit, TypeNext, PTL DEF Spec

-----------------------------------------------------------------------------
(* What the network did is what was read *)

\* Only what the NAT lets in arrives, and only what it does not is filtered.
Filtered ==
    \A i \in Tests :
        /\ wire[i] \in {"arrived", "read"} => LetsIn(Source(i))
        /\ wire[i] = "filtered" => ~LetsIn(Source(i))

\* A test of which a reply is reported got the server's reply to it.
Heard(i) ==
    /\ Received(outcome[i]) => outcome[i] = Reply(i) /\ LetsIn(Source(i))
    /\ outcome[i].kind = "badReply" => Kind(i) # "success"

\* Until the end: the tests so far have an outcome, and Test 1 was answered.
Underway ==
    pc # "done" =>
        /\ pc = "start" => test = 1
        /\ \A i \in Tests : i >= test => outcome[i] = Pending
        /\ test # 1 => Received(outcome[1]) /\ path.other # None

\* At the end: what is returned is what the outcomes say.
Judged ==
    pc = "done" =>
        \/ /\ ~Received(outcome[1]) \/ path.other = None
           /\ result \in {Failed("other"), Failed("notSupported")}
        \/ result = Judge(outcome[2], outcome[3])

Evidence == Filtered /\ (\A i \in Tests : Heard(i)) /\ Underway /\ Judged

LEMMA EvidenceInit == Init => Evidence
  BY DEF Init, Evidence, Filtered, Heard, Underway, Judged, Received, Pending, Tests

LEMMA FilteredKept ==
  ASSUME Filtered, Taken, UNCHANGED path
  PROVE  Filtered'
  BY DEF Filtered, Taken, LetsIn, Source

\* A step that changes no outcome, no result and no path.
LEMMA OutcomesKept ==
  ASSUME Evidence, UNCHANGED <<path, test, outcome, result>>,
         pc # "done", pc' \notin {"start", "done"}
  PROVE  (\A i \in Tests : Heard(i))' /\ Underway' /\ Judged'
  BY DEF Evidence, Heard, Underway, Judged, LetsIn, Source, Reply, Kind

LEMMA EvidenceNext == TypeOK /\ Evidence /\ [Next]_vars => Evidence'
<1> SUFFICES ASSUME TypeOK, Evidence, [Next]_vars PROVE Evidence'
  OBVIOUS
<1>1. CASE CannotStart
  <2>1. ~Received(outcome[1]) /\ UNCHANGED <<path, outcome, wire>>
    BY <1>1 DEF CannotStart, Evidence, Underway, TypeOK, Tests, Pending, Received
  <2>2. result' = Failed("other") /\ pc' = "done"
    BY <1>1 DEF CannotStart, Done
  <2>3. QED
    BY <2>1, <2>2 DEF Evidence, Filtered, Heard, Underway, Judged, LetsIn, Source, Reply, Kind
<1>2. CASE Start
  <2>1. Filtered'
    BY <1>2, UnchangedTakes, FilteredKept DEF Start, Evidence
  <2>2. QED
    BY <1>2, <2>1, OutcomesKept DEF Start, Evidence
<1>3. CASE Send
  <2>1. UNCHANGED path /\ \A i \in Tests : wire'[i] \in {wire[i], "sent"}
    BY <1>3 DEF Send, TypeOK
  <2>2. Filtered'
    BY <2>1 DEF Evidence, Filtered, LetsIn, Source
  <2>3. QED
    BY <1>3, <2>2, OutcomesKept DEF Send, Evidence
<1>4. CASE Goes
  <2>1. Filtered'
    BY <1>4, FilteredKept DEF Goes, Evidence
  <2>2. QED
    BY <1>4, <2>1, OutcomesKept DEF Goes, Evidence
<1>5. ASSUME NEW o \in Outcomes, Ending(o) PROVE Evidence'
  <2>1. Filtered' /\ UNCHANGED path /\ pc # "done" /\ test \in Tests
    BY <1>5, FilteredKept DEF Ending, Evidence, TypeOK
  <2>2. /\ outcome' = [outcome EXCEPT ![test] = o]
        /\ \/ test = 1 /\ ~Received(o) /\ Done(Failed("other"))
           \/ test = 1 /\ path.other = None /\ Done(Failed("notSupported"))
           \/ test = 1 /\ Received(o) /\ path.other # None /\ NextTest
           \/ test = 2 /\ NextTest
           \/ test = 3 /\ Done(Judge(outcome[2], o))
    BY <1>5, <2>1, EndTestCases DEF Ending
  <2>3. outcome'[test] = o /\ \A i \in Tests : i # test => outcome'[i] = outcome[i]
    BY <2>1, <2>2 DEF TypeOK
  <2>4. /\ Received(o) => o = Reply(test) /\ LetsIn(Source(test))
        /\ o.kind = "badReply" => Kind(test) # "success"
    BY <1>5, <2>1 DEF Ending, Received, Evidence, Filtered
  <2>5. ASSUME NEW i \in Tests PROVE Heard(i)'
    BY <2>1, <2>3, <2>4 DEF Heard, Evidence, Received, LetsIn, Source, Reply, Kind
  <2>6. Underway'
    <3>1. CASE NextTest
      <4>1. test \in {1, 2} /\ test' = test + 1
        BY <2>2, <3>1 DEF NextTest, Done
      <4>2. \A i \in Tests : i >= test' => i # test /\ i >= test
        BY <4>1 DEF Tests
      <4>3. \A i \in Tests : i >= test' => outcome'[i] = Pending
        BY <2>1, <2>3, <4>2 DEF Evidence, Underway
      <4>4. Received(outcome'[1]) /\ path.other # None
        <5>1. 1 \in Tests
          BY DEF Tests
        <5>2. CASE test = 1
          BY <2>2, <2>3, <3>1, <5>1, <5>2 DEF NextTest, Done
        <5>3. CASE test = 2
          BY <2>1, <2>3, <5>1, <5>3 DEF Evidence, Underway
        <5>4. QED
          BY <4>1, <5>2, <5>3
      <4>5. QED
        BY <2>1, <3>1, <4>3, <4>4 DEF Underway, Received, NextTest
    <3>2. CASE pc' = "done"
      BY <3>2 DEF Underway
    <3>3. QED
      BY <2>2, <3>1, <3>2 DEF Done
  <2>7. Judged'
    <3>1. CASE NextTest
      BY <3>1 DEF NextTest, Judged
    <3>2. CASE test = 1 /\ pc' = "done"
      BY <2>1, <2>2, <2>3, <3>2 DEF Judged, Done, NextTest, Received
    <3>3. CASE test = 3
      <4>1. outcome'[2] = outcome[2] /\ outcome'[3] = o
        BY <2>3, <3>3 DEF Tests
      <4>2. result' = Judge(outcome'[2], outcome'[3])
        BY <2>2, <3>3, <4>1 DEF Done
      <4>3. Judge(outcome'[2], outcome'[3]) = Judge(outcome[2], outcome[3])'
        BY <2>1 DEF Judge, Ignored, Received, Silent, Failed
      <4>4. QED
        BY <4>2, <4>3 DEF Judged
    <3>4. QED
      BY <2>2, <3>1, <3>2, <3>3 DEF Done
  <2>8. QED
    BY <2>1, <2>5, <2>6, <2>7 DEF Evidence
<1>6. ASSUME NEW i \in Tests, Answer(i) \/ Lose(i) PROVE Evidence'
  <2>1. Filtered'
    BY <1>6 DEF Answer, Lose, Evidence, Filtered, LetsIn, Source, TypeOK
  <2>2. UNCHANGED <<path, pc, test, outcome, result>>
    BY <1>6 DEF Answer, Lose
  <2>3. QED
    BY <2>1, <2>2
       DEF Evidence, Heard, Underway, Judged, LetsIn, Source, Reply, Kind, Judge, Ignored,
           Received
<1>7. CASE Tick
  <2>1. Filtered'
    BY <1>7, UnchangedTakes, FilteredKept DEF Tick, Evidence
  <2>2. QED
    BY <1>7, <2>1, OutcomesKept DEF Tick, Evidence
<1>8. CASE UNCHANGED vars
  BY <1>8
     DEF vars, Evidence, Filtered, Heard, Underway, Judged, LetsIn, Source, Reply, Kind,
         Judge, Ignored, Received
<1>9. QED
  BY Steps, <1>1, <1>2, <1>3, <1>4, <1>5, <1>6, <1>7, <1>8

LEMMA EvidenceHolds == Spec => []Evidence
<1>1. QED
  BY TypeCorrect, EvidenceInit, EvidenceNext, PTL DEF Spec

-----------------------------------------------------------------------------
(* No more open than the NAT is *)

LEMMA ReplyIsRead ==
  ASSUME Evidence, NEW i \in Tests, Received(outcome[i])
  PROVE  outcome[i].source = Source(i) /\ LetsIn(Source(i))
<1>1. outcome[i] = Reply(i) /\ LetsIn(Source(i))
  BY DEF Evidence, Heard
<1>2. QED
  BY <1>1 DEF Reply

\* A reply to Test 2 that is not ignored: the IP was changed, or there is no NAT.
LEMMA ReplyToTest2 ==
  ASSUME path \in Paths, NEW o, Received(o), o.source = Source(2), LetsIn(Source(2)),
         \/ o.source[1] # path.target[1]
         \/ path.target[1] \in Loopback
  PROVE  path.filter = "EIF"
<1>1. path.filter \in Filters
  BY PathType
<1>2. CASE path.target[1] \in Loopback
  BY <1>2, LoopbackAssumption
<1>3. CASE o.source[1] # path.target[1]
  BY <1>1, <1>3 DEF LetsIn, Filters
<1>4. QED
  BY <1>2, <1>3

LEMMA JudgeSound ==
  ASSUME TypeOK, Evidence
  PROVE  LET r == Judge(outcome[2], outcome[3])
         IN  (r.t2 => path.filter = "EIF") /\ (r.t3 => path.filter # "APDF")
<1> DEFINE r == Judge(outcome[2], outcome[3])
<1>1. path \in Paths /\ 2 \in Tests /\ 3 \in Tests
  BY DEF TypeOK, Tests
<1>2. CASE r = Failed("notSupported")
  BY <1>2 DEF Failed
<1>3. CASE /\ ~Ignored(outcome[2], outcome[3])
           /\ r = [err |-> "none", t2 |-> Received(outcome[2]), t3 |-> Received(outcome[3])]
  <2>1. r.t2 = Received(outcome[2]) /\ r.t3 = Received(outcome[3])
    BY <1>3
  <2>2. ASSUME Received(outcome[2]) PROVE path.filter = "EIF"
    <3>1. outcome[2].source = Source(2) /\ LetsIn(Source(2))
      BY <1>1, <2>2, ReplyIsRead
    <3>2. outcome[2].source[1] # path.target[1] \/ path.target[1] \in Loopback
      BY <1>3, <2>2 DEF Ignored
    <3>3. QED
      BY <1>1, <2>2, <3>1, <3>2, ReplyToTest2
  <2>3. ASSUME Received(outcome[3]) PROVE path.filter # "APDF"
    <3>1. outcome[3].source = Source(3) /\ LetsIn(Source(3))
      BY <1>1, <2>3, ReplyIsRead
    <3>2. Source(3) # path.target
      BY <1>3, <2>3, <3>1 DEF Ignored
    <3>3. QED
      BY <3>1, <3>2 DEF LetsIn
  <2>4. QED
    BY <2>1, <2>2, <2>3
<1>4. QED
  BY <1>2, <1>3 DEF Judge

LEMMA ResultSound ==
  ASSUME TypeOK, Evidence, result # None
  PROVE  (result.t2 => path.filter = "EIF") /\ (result.t3 => path.filter # "APDF")
<1>1. pc = "done"
  BY DEF TypeOK
<1>2. CASE result \in {Failed("other"), Failed("notSupported")}
  BY <1>2 DEF Failed
<1>3. CASE result = Judge(outcome[2], outcome[3])
  BY <1>3, JudgeSound
<1>4. QED
  BY <1>1, <1>2, <1>3 DEF Evidence, Judged

\* Neither server nor network makes the NAT look more open (Filtering.NeverMoreOpen).
THEOREM NeverMoreOpenHolds == Spec => []NeverMoreOpen
<1>1. TypeOK /\ Evidence => NeverMoreOpen
  BY ResultSound DEF NeverMoreOpen
<1>2. QED
  BY <1>1, TypeCorrect, EvidenceHolds, PTL

-----------------------------------------------------------------------------
(* The contract *)

Allowed == result # None => result \in Contract!Outcomes(path.filter)

LEMMA OutcomeAllowed == TypeOK /\ Evidence => Allowed
<1> SUFFICES ASSUME TypeOK, Evidence, result # None
             PROVE  result \in Contract!Outcomes(path.filter)
  BY DEF Allowed
<1>1. result \in Results
  BY DEF TypeOK
<1>2. (result.t2 => path.filter = "EIF") /\ (result.t3 => path.filter # "APDF")
  BY ResultSound
<1>3. CASE result.err # "none"
  BY <1>1, <1>3 DEF Results, Contract!Outcomes
<1>4. CASE result.err = "none"
  <2> DEFINE S2 == {FALSE} \cup {path.filter = "EIF"}
             S3 == {FALSE} \cup {path.filter # "APDF"}
  <2>1. /\ result = [err |-> "none", t2 |-> result.t2, t3 |-> result.t3]
        /\ result.t2 \in BOOLEAN /\ result.t3 \in BOOLEAN
    BY <1>1, <1>4 DEF Results
  <2>2. result.t2 \in S2 /\ result.t3 \in S3
    BY <1>2, <2>1
  <2>3. [err : {"none"}, t2 : S2, t3 : S3] \subseteq Contract!Outcomes(path.filter)
    BY DEF Contract!Outcomes
  <2> HIDE DEF S2, S3
  <2>4. result \in [err : {"none"}, t2 : S2, t3 : S3]
    BY <2>1, <2>2
  <2>5. QED
    BY <2>3, <2>4
<1>5. QED
  BY <1>3, <1>4

LEMMA ContractInit == Init => Contract!Init
  BY PathType DEF Init, Contract!Init, Contract!Filters, Filters

LEMMA ContractStep ==
  TypeOK /\ Allowed' /\ [Next]_vars => [Contract!Return]_(Contract!vars)
<1> SUFFICES ASSUME TypeOK, Allowed', [Next]_vars
             PROVE  [Contract!Return]_(Contract!vars)
  OBVIOUS
<1>1. UNCHANGED path
  BY Steps DEF CannotStart, Start, Send, Goes, Tick, Ending, Answer, Lose, vars
<1>2. pc = "done" => UNCHANGED result
  BY Steps DEF CannotStart, Start, Send, Goes, Tick, Ending, Answer, Lose, vars
<1>3. CASE result' = result
  BY <1>1, <1>3 DEF Contract!vars
<1>4. CASE result' # result
  <2>1. result = None
    BY <1>2, <1>4 DEF TypeOK
  <2>2. result' \in Contract!Outcomes(path.filter)
    BY <1>1, <1>4, <2>1 DEF Allowed
  <2>3. QED
    BY <1>1, <2>1, <2>2 DEF Contract!Return
<1>5. QED
  BY <1>3, <1>4

\* Every run is one of the contract's (ProbeFiltering.tla).
THEOREM Refines == Spec => KeepsContract
<1>1. QED
  BY TypeCorrect, EvidenceHolds, OutcomeAllowed, ContractInit, ContractStep, PTL
     DEF Spec, KeepsContract, Contract!Spec

-----------------------------------------------------------------------------
(* Exactly what the NAT is, where nothing disturbs the tests *)

LEMMA ExactStep == TypeOK /\ Evidence => Exact
<1> SUFFICES ASSUME TypeOK, Evidence, pc = "done", Honors, \A i \in Tests : Undisturbed(i)
             PROVE  result = Behavior
  BY DEF Exact
<1>1. path \in Paths /\ 1 \in Tests /\ 2 \in Tests /\ 3 \in Tests
  BY DEF TypeOK, Tests
<1>2. path.filter \in Filters /\ path.other # None /\ \A i \in Tests : Kind(i) = "success"
  BY <1>1, PathType DEF Honors
<1>3. /\ Source(1) = path.target
      /\ Source(3) # path.target /\ Source(3)[1] = path.target[1]
      /\ \/ Source(2)[1] # path.target[1]
         \/ path.target[1] \in Loopback /\ Source(2) = path.other
  BY AskedIsAsks DEF Honors, Source
<1>4. \A i \in Tests : outcome[i].kind \in {"reply", "silence"}
  BY <1>2 DEF Undisturbed, Evidence, Heard
<1>5. \A i \in Tests : Received(outcome[i]) <=> LetsIn(Source(i))
  BY <1>4 DEF Undisturbed, Evidence, Heard, Filtered, Received
<1>6. LetsIn(Source(1))
  BY <1>2, <1>3 DEF LetsIn, Filters
<1>7. result = Judge(outcome[2], outcome[3])
  BY <1>1, <1>2, <1>5, <1>6 DEF Evidence, Judged
<1>8. ~Ignored(outcome[2], outcome[3])
  <2>1. Received(outcome[2]) => outcome[2].source = Source(2)
    BY <1>1, ReplyIsRead
  <2>2. Received(outcome[3]) => outcome[3].source = Source(3)
    BY <1>1, ReplyIsRead
  <2>3. QED
    BY <1>3, <2>1, <2>2 DEF Ignored
<1>9. \A o \in {outcome[2], outcome[3]} : Received(o) \/ Silent(o)
  BY <1>1, <1>4 DEF Received, Silent
<1>10. result = [err |-> "none", t2 |-> Received(outcome[2]), t3 |-> Received(outcome[3])]
  BY <1>7, <1>8, <1>9 DEF Judge
<1>11. LetsIn(Source(2)) <=> path.filter = "EIF"
  <2>1. CASE Source(2)[1] # path.target[1]
    BY <1>2, <2>1 DEF LetsIn, Filters
  <2>2. CASE path.target[1] \in Loopback
    BY <1>1, <2>2, LoopbackAssumption DEF LetsIn
  <2>3. QED
    BY <1>3, <2>1, <2>2
<1>12. LetsIn(Source(3)) <=> path.filter # "APDF"
  BY <1>2, <1>3 DEF LetsIn, Filters
<1>13. /\ Received(outcome[2]) = (path.filter = "EIF")
       /\ Received(outcome[3]) = (path.filter # "APDF")
  BY <1>1, <1>5, <1>11, <1>12 DEF Received
<1>14. QED
  BY <1>10, <1>13 DEF Behavior

\* A server that honors CHANGE-REQUEST has the NAT's filtering measured
\* (Filtering.Exact).
THEOREM ExactHolds == Spec => []Exact
<1>1. QED
  BY ExactStep, TypeCorrect, EvidenceHolds, PTL

-----------------------------------------------------------------------------
(* The NAT as it is, or nothing, of every server *)

\* An undisturbed test that is not refused was answered exactly if the NAT let the
\* answer in.
LEMMA AnsweredOrFiltered ==
  ASSUME TypeOK, Evidence, NEW i \in Tests, Undisturbed(i),
         Received(outcome[i]) \/ Silent(outcome[i])
  PROVE  Received(outcome[i]) <=> LetsIn(Source(i))
  BY DEF Undisturbed, Evidence, Heard, Filtered, Received, Silent

LEMMA RightStep == TypeOK /\ Evidence => RightOrRefused
<1> SUFFICES ASSUME TypeOK, Evidence, result # None, result.err = "none",
                    \A i \in Tests : Undisturbed(i)
             PROVE  /\ result.t2 = Behavior.t2
                    /\ Source(3)[1] = path.target[1] => result.t3 = Behavior.t3
  BY DEF RightOrRefused
<1>1. pc = "done" /\ 2 \in Tests /\ 3 \in Tests /\ path.filter \in Filters
  BY PathType DEF TypeOK, Tests
<1>2. result = Judge(outcome[2], outcome[3])
  BY <1>1 DEF Evidence, Judged, Failed
<1>3. /\ \A o \in {outcome[2], outcome[3]} : Received(o) \/ Silent(o)
      /\ result.t2 = Received(outcome[2]) /\ result.t3 = Received(outcome[3])
  BY <1>2 DEF Judge, Failed
<1>4. /\ Received(outcome[2]) <=> LetsIn(Source(2))
      /\ Received(outcome[3]) <=> LetsIn(Source(3))
  BY <1>1, <1>3, AnsweredOrFiltered
<1>5. (result.t2 => path.filter = "EIF") /\ (result.t3 => path.filter # "APDF")
  BY ResultSound
<1>6. path.filter = "EIF" => LetsIn(Source(2))
  BY DEF LetsIn
<1>7. Source(3)[1] = path.target[1] /\ path.filter # "APDF" => LetsIn(Source(3))
  BY <1>1 DEF LetsIn, Filters
<1>8. QED
  BY <1>3, <1>4, <1>5, <1>6, <1>7 DEF Behavior, Received

\* What a server that falls short of CHANGE-REQUEST makes of the NAT is the NAT's own
\* filtering or nothing, for every such server (Filtering.RightOrRefused).
THEOREM RightOrRefusedHolds == Spec => []RightOrRefused
<1>1. QED
  BY RightStep, TypeCorrect, EvidenceHolds, PTL

-----------------------------------------------------------------------------
(* The time a call takes *)

\* The tests before test, and with it.
Before == IF test = 1 THEN 0 ELSE IF test = 2 THEN PerTest ELSE 2 * PerTest

\* What was spent and what is left of this test make no more than its end.
Budget ==
    /\ pc \in {"start", "send"} => spent <= Before
    /\ pc \in {"loop", "read"} => spent + left <= Before + PerTest
    /\ pc = "done" => spent <= Before + PerTest

LEMMA BudgetInit == Init => Budget
  BY PerTestType DEF Init, Budget, Before

LEMMA BudgetNext == TypeOK /\ Budget /\ [Next]_vars => Budget'
<1> SUFFICES ASSUME TypeOK, Budget, [Next]_vars PROVE Budget'
  OBVIOUS
<1>1. /\ test = 1 \/ test = 2 \/ test = 3
      /\ left \in Nat /\ spent \in Nat /\ PerTest \in Nat
  BY PerTestType DEF TypeOK, Tests
<1>2. CASE CannotStart
  BY <1>1, <1>2 DEF CannotStart, Done, Budget, Before
<1>3. CASE Start
  BY <1>3 DEF Start, Budget, Before
<1>4. CASE Send
  BY <1>1, <1>4 DEF Send, Budget, Before
<1>5. CASE Goes
  BY <1>5 DEF Goes, Budget, Before
<1>6. ASSUME NEW o \in Outcomes, Ending(o) PROVE Budget'
  <2>1. UNCHANGED spent /\ spent <= Before + PerTest
    BY <1>1, <1>6 DEF Ending, Budget, Before
  <2>2. \/ pc' = "done" /\ test' = test
        \/ test \in {1, 2} /\ pc' = "send" /\ test' = test + 1
    BY <1>6, EndTestCases DEF Ending, TypeOK, Done, NextTest
  <2>3. CASE pc' = "done" /\ test' = test
    BY <2>1, <2>3 DEF Budget, Before
  <2>4. CASE test \in {1, 2} /\ pc' = "send" /\ test' = test + 1
    BY <1>1, <2>1, <2>4 DEF Budget, Before
  <2>5. QED
    BY <2>2, <2>3, <2>4
<1>7. ASSUME NEW i \in Tests, Answer(i) \/ Lose(i) PROVE Budget'
  BY <1>7 DEF Answer, Lose, Budget, Before
<1>8. CASE Tick
  BY <1>1, <1>8 DEF Tick, Budget, Before
<1>9. CASE UNCHANGED vars
  BY <1>9 DEF vars, Budget, Before
<1>10. QED
  BY Steps, <1>2, <1>3, <1>4, <1>5, <1>6, <1>7, <1>8, <1>9

\* Three times the time per test bounds the call, whatever arrives (Filtering.Bounded).
THEOREM BoundedHolds == Spec => []Bounded
<1>1. TypeOK /\ Budget => Bounded
  BY PerTestType DEF TypeOK, Tests, Budget, Before, Bounded
<1>2. QED
  BY <1>1, TypeCorrect, BudgetInit, BudgetNext, PTL DEF Spec
=============================================================================
