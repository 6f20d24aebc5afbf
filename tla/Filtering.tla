------------------------------ MODULE Filtering ------------------------------
(***************************************************************************)
(* One ProbeFiltering call of internal/probe/filtering.go: three Binding   *)
(* requests, one after the other, over one unconnected socket.  Tests 2    *)
(* and 3 ask the server to answer from another address, and the answer or  *)
(* its absence tells what the NAT lets in.                                 *)
(*                                                                         *)
(* A transaction is named by its test: every request draws a fresh 96-bit  *)
(* ID, and packets that guess it are left out.  Time is a count-down to    *)
(* the end of the test; a step of the program itself takes none.           *)
(***************************************************************************)
EXTENDS ChangeRequest

CONSTANTS
    Endpoints,      \* pairs of an IP and a port
    Loopback,       \* the IPs for which IsLoopback() holds
    Paths,          \* the servers, and the NATs before them, that may be there
    Timeout,        \* the timeout argument
    Fallback,       \* the time per test if that leaves none, 500ms in the code
    None            \* no endpoint, no result

Tests == 1 .. 3
Filters == {"EIF", "ADF", "APDF"}

\* What each test asks of the server: Test 1 nothing, it has no CHANGE-REQUEST.
Asks == << {}, {<<TRUE, TRUE>>}, {<<FALSE, TRUE>>} >>

Request(i) == [binding |-> TRUE, change |-> {BuildChangeRequest(c) : c \in Asks[i]}]

\* The changes that a server which parses the request of test i sees.
Asked(i) == ParseChangeRequest(Request(i)).flags

\* A path: the first address of the name, the OTHER-ADDRESS it advertises, what it
\* answers to each CHANGE-REQUEST and from where, and the NAT's filtering.
PathRecords ==
    [target : Endpoints, other : Endpoints \cup {None},
     source : [Changes -> Endpoints],
     reply : [Changes -> {"success", "error", "nothing"}],
     filter : Filters]

\* What ProbeFiltering returns: err, and FilteringResult where it is nil.
Results ==
    [err : {"notSupported", "other"}, t2 : {FALSE}, t3 : {FALSE}]
    \cup [err : {"none"}, t2 : BOOLEAN, t3 : BOOLEAN]

ASSUME PathAssumption == Paths \subseteq PathRecords
ASSUME NoneAssumption == None \notin Endpoints \cup Results
ASSUME TimeAssumption == Timeout \in Nat /\ Fallback \in Nat \ {0}

\* No NAT is between a host and itself.
ASSUME LoopbackAssumption ==
    \A p \in Paths : p.target[1] \in Loopback => p.filter = "EIF"

VARIABLES
    path,       \* external: what this call meets
    pc,         \* where ProbeFiltering is
    test,       \* the test it is at
    left,       \* time.Until(end) of that test
    spent,      \* time since the first send
    outcome,    \* outcome[i]: what sendBindingAndWait returned for test i
    wire,       \* what became of request i and its answer
    result      \* what was returned, or None

vars == <<path, pc, test, left, spent, outcome, wire, result>>

PerTest == IF Timeout \div 2 > 0 THEN Timeout \div 2 ELSE Fallback

\* spent saturates beyond every bound stated of it.
MaxSpent == 3 * PerTest + 1

Pending == [kind |-> "pending", source |-> None]
Fails(kind) == [kind |-> kind, source |-> None]
Source(i) == path.source[Asked(i)]
Kind(i) == path.reply[Asked(i)]
Reply(i) == [kind |-> "reply", source |-> Source(i)]

Failed(err) == [err |-> err, t2 |-> FALSE, t3 |-> FALSE]

Init ==
    /\ path \in Paths
    /\ pc = "start"
    /\ test = 1
    /\ left = 0
    /\ spent = 0
    /\ outcome = [i \in Tests |-> Pending]
    /\ wire = [i \in Tests |-> "unsent"]
    /\ result = None

-----------------------------------------------------------------------------
(* The verdict *)

Received(o) == o.kind = "reply"
Silent(o) == o.kind \in {"silence", "readError"}

\* Mutant: any source will do for Test 2.
IgnoredBug(o2, o3) == Received(o3) /\ o3.source = path.target

\* Mutant: the source of a Test 3 reply is not looked at.
IgnoredThirdBug(o2, o3) ==
    /\ Received(o2)
    /\ o2.source[1] = path.target[1]
    /\ path.target[1] \notin Loopback \/ o2.source # path.other

\* changeRequestIgnored: a reply that lacks the change asked for.  A loopback
\* responder may simulate the change of IP from OTHER-ADDRESS.
Ignored(o2, o3) ==
    \/ Received(o3) /\ o3.source = path.target
    \/ /\ Received(o2)
       /\ o2.source[1] = path.target[1]
       /\ path.target[1] \notin Loopback \/ o2.source # path.other

\* Mutant: an error reply to Test 2 or 3 counts as silence.
JudgeBug(o2, o3) ==
    IF Ignored(o2, o3) THEN Failed("notSupported")
    ELSE [err |-> "none", t2 |-> Received(o2), t3 |-> Received(o3)]

\* What is returned after Test 3.
Judge(o2, o3) ==
    IF \/ \E o \in {o2, o3} : ~Received(o) /\ ~Silent(o)
       \/ Ignored(o2, o3)
    THEN Failed("notSupported")
    ELSE [err |-> "none", t2 |-> Received(o2), t3 |-> Received(o3)]

\* Mutant: a return that leaves the result unset.
DoneBug(r) == pc' = "done" /\ UNCHANGED <<test, result>>

Done(r) == pc' = "done" /\ result' = r /\ UNCHANGED test

NextTest == pc' = "send" /\ test' = test + 1 /\ UNCHANGED result

\* sendBindingAndWait returns o, and the sequence goes on.
EndTest(o) ==
    /\ outcome' = [outcome EXCEPT ![test] = o]
    /\ CASE test = 1 /\ ~Received(o) -> Done(Failed("other"))
         [] test = 1 /\ Received(o) /\ path.other = None -> Done(Failed("notSupported"))
         [] test = 1 /\ Received(o) /\ path.other # None -> NextTest
         [] test = 2 -> NextTest
         [] test = 3 -> Done(Judge(outcome[2], o))

-----------------------------------------------------------------------------
(* ProbeFiltering and sendBindingAndWait *)

\* An invalid server, a name that does not resolve, a socket that does not bind.
CannotStart ==
    /\ pc = "start"
    /\ Done(Failed("other"))
    /\ UNCHANGED <<path, left, spent, outcome, wire>>

Start ==
    /\ pc = "start"
    /\ pc' = "send"
    /\ UNCHANGED <<path, test, left, spent, outcome, wire, result>>

Send ==
    /\ pc = "send"
    /\ left' = PerTest
    /\ wire' = [wire EXCEPT ![test] = "sent"]
    /\ pc' = "loop"
    /\ UNCHANGED <<path, test, spent, outcome, result>>

SendFails ==
    /\ pc = "send"
    /\ EndTest(Fails("localError"))
    /\ UNCHANGED <<path, left, spent, wire>>

\* The loop finds its time used up.
Elapsed ==
    /\ pc = "loop" /\ left = 0
    /\ EndTest(Fails("silence"))
    /\ UNCHANGED <<path, left, spent, wire>>

\* Mutant: the deadline is counted from each read.
ListenBug ==
    /\ pc = "loop" /\ left > 0
    /\ left' = PerTest
    /\ pc' = "read"
    /\ UNCHANGED <<path, test, spent, outcome, wire, result>>

Listen ==
    /\ pc = "loop" /\ left > 0
    /\ pc' = "read"
    /\ UNCHANGED <<path, test, left, spent, outcome, wire, result>>

\* SetReadDeadline fails.
ListenFails ==
    /\ pc = "loop" /\ left > 0
    /\ EndTest(Fails("localError"))
    /\ UNCHANGED <<path, left, spent, wire>>

ReadTimeout ==
    /\ pc = "read" /\ left = 0
    /\ EndTest(Fails("silence"))
    /\ UNCHANGED <<path, left, spent, wire>>

\* Any other read error ends the test in the same way.
ReadError ==
    /\ pc = "read"
    /\ EndTest(Fails("readError"))
    /\ UNCHANGED <<path, left, spent, wire>>

\* Mutant: the first packet that decodes is taken.
MatchesBug(i) == TRUE

\* The packet answers the transaction of this test.
Matches(i) == i = test

\* The network may deliver an answer again.
Deliver(i) ==
    /\ pc = "read" /\ wire[i] = "arrived"
    /\ wire' \in {wire, [wire EXCEPT ![i] = "read"]}

ReadAnswer(i) ==
    /\ Deliver(i) /\ Matches(i)
    /\ EndTest(IF Kind(i) = "success" THEN Reply(i) ELSE Fails("badReply"))
    /\ UNCHANGED <<path, left, spent>>

\* A late or repeated answer to an earlier test is discarded.
ReadStale(i) ==
    /\ Deliver(i) /\ ~Matches(i)
    /\ pc' = "loop"
    /\ UNCHANGED <<path, test, left, spent, outcome, result>>

\* So is what does not decode or answers no request of this call.
ReadGarbage ==
    /\ pc = "read"
    /\ pc' = "loop"
    /\ UNCHANGED <<path, test, left, spent, outcome, wire, result>>

-----------------------------------------------------------------------------
(* External: the network, the server, the NAT, the clock *)

\* The socket has sent to the target only, and the NAT judges by that.
LetsIn(source) ==
    CASE path.filter = "EIF" -> TRUE
      [] path.filter = "ADF" -> source[1] = path.target[1]
      [] path.filter = "APDF" -> source = path.target

Answer(i) ==
    /\ wire[i] = "sent" /\ Kind(i) # "nothing"
    /\ wire' = [wire EXCEPT ![i] = IF LetsIn(Source(i)) THEN "arrived" ELSE "filtered"]
    /\ UNCHANGED <<path, pc, test, left, spent, outcome, result>>

Lose(i) ==
    /\ wire[i] \in {"sent", "arrived"}
    /\ wire' = [wire EXCEPT ![i] = "lost"]
    /\ UNCHANGED <<path, pc, test, left, spent, outcome, result>>

Tick ==
    /\ pc \in {"loop", "read"} /\ left > 0
    /\ left' = left - 1
    /\ spent' = IF spent < MaxSpent THEN spent + 1 ELSE spent
    /\ UNCHANGED <<path, pc, test, outcome, wire, result>>

Terminated == pc = "done" /\ UNCHANGED vars

-----------------------------------------------------------------------------

\* Steps the call takes without waiting for anyone.
Program ==
    \/ CannotStart \/ Start \/ Send \/ SendFails \/ Elapsed
    \/ Listen \/ ListenFails \/ ReadTimeout

Read == ReadError \/ ReadGarbage \/ \E i \in Tests : ReadAnswer(i) \/ ReadStale(i)
Network == \E i \in Tests : Answer(i) \/ Lose(i)

Next == Program \/ Read \/ Network \/ Tick \/ Terminated

Spec == Init /\ [][Next]_vars

\* The goroutine runs and time passes; nothing is assumed of server or network.
FairSpec == Spec /\ WF_vars(Program) /\ WF_vars(Tick)

-----------------------------------------------------------------------------
(* Properties *)

Outcomes ==
    [kind : {"pending", "silence", "readError", "localError", "badReply"}, source : {None}]
    \cup [kind : {"reply"}, source : Endpoints]

\* Every variable keeps its type, and the call has a result exactly when it is done.
TypeOK ==
    /\ path \in Paths
    /\ pc \in {"start", "send", "loop", "read", "done"}
    /\ test \in Tests
    /\ left \in 0 .. PerTest
    /\ spent \in 0 .. MaxSpent
    /\ outcome \in [Tests -> Outcomes]
    /\ wire \in [Tests -> {"unsent", "sent", "arrived", "filtered", "lost", "read"}]
    /\ result \in Results \cup {None}
    /\ pc = "done" <=> result # None

\* No server, however it answers CHANGE-REQUEST, and no loss, delay or error makes
\* the NAT look more open than it is: Test 2 counts only if the NAT lets in any
\* host, Test 3 only if it lets in another port of the target
\* (changeRequestIgnored).
NeverMoreOpen ==
    result # None =>
        /\ result.t2 => path.filter = "EIF"
        /\ result.t3 => path.filter # "APDF"

\* A server that does what CHANGE-REQUEST asks for, on any topology.
Honors ==
    LET target == path.target
        answer(ip, port) == path.source[<<ip, port>>]
    IN  /\ \A i \in Tests : Kind(i) = "success"
        /\ path.other # None
        /\ answer(FALSE, FALSE) = target
        /\ answer(FALSE, TRUE) # target /\ answer(FALSE, TRUE)[1] = target[1]
        /\ \/ answer(TRUE, TRUE)[1] # target[1]
           \/ target[1] \in Loopback /\ answer(TRUE, TRUE) = path.other

\* The outcome of test i is what the network did: the answer, or the NAT's silence.
Undisturbed(i) ==
    \/ outcome[i].kind \in {"reply", "badReply"}
    \/ outcome[i].kind = "silence" /\ wire[i] = "filtered"

\* What the NAT's filtering should read as.
Behavior == [err |-> "none", t2 |-> path.filter = "EIF", t3 |-> path.filter # "APDF"]

\* Where no packet is lost or late and no call on the socket fails, repeated and
\* foreign packets change nothing: a server that honors CHANGE-REQUEST gets the NAT's
\* own filtering measured, so no answer counts for another test (sendBindingAndWait).
Exact ==
    pc = "done" /\ Honors /\ (\A i \in Tests : Undisturbed(i)) => result = Behavior

\* And of any server, one that ignores, half honors or rejects CHANGE-REQUEST too, the
\* call reports that NAT or nothing: neither a reply nor its absence is taken for what it
\* is not.  Only what Test 3 says takes a server that keeps its IP where no change of it
\* was asked for: an answer to it from elsewhere is dropped as by a stricter NAT
\* (ProbeFiltering, changeRequestIgnored).
RightOrRefused ==
    result # None /\ result.err = "none" /\ (\A i \in Tests : Undisturbed(i)) =>
        /\ result.t2 = Behavior.t2
        /\ Source(3)[1] = path.target[1] => result.t3 = Behavior.t3

\* Packets that keep arriving do not prolong the call: three times the time per
\* test bounds it (end in sendBindingAndWait).
Bounded == spent <= 3 * PerTest

\* The call returns, for any server, network and flow of packets.
Termination == <>(pc = "done")

-----------------------------------------------------------------------------

Contract == INSTANCE ProbeFiltering WITH filter <- path.filter

\* The call keeps what ProbeFiltering.tla promises: one result, in one step, that
\* the NAT of the path allows (ProbeFiltering).
KeepsContract == Contract!Spec

-----------------------------------------------------------------------------
(* What a document says and the code does not do. *)

\* internal/cli/cli.go, line 212: filtering adds up to the 1.5s that runWith passes
\* as timeout.
WithinTimeout == spent <= Timeout
=============================================================================
