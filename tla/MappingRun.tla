----------------------------- MODULE MappingRun -----------------------------
(***************************************************************************)
(* One ProbeAll call of internal/probe/stun.go: a goroutine per server, a  *)
(* reader goroutine per socket, the mutex mu, the table of pending         *)
(* transactions, and the caller that waits and then closes everything.     *)
(*                                                                         *)
(* A transaction is named <<s, a>>, the server and the address the request *)
(* goes to: every send draws a fresh 96-bit ID, and no two of one run are  *)
(* assumed to collide.  The payload of a packet is its mapped endpoint.    *)
(***************************************************************************)
EXTENDS Naturals, Sequences, FiniteSets

CONSTANTS
    Servers,        \* the entries of the servers slice, in any order
    Malformed,      \* the servers whose host is empty or port out of range
    Literals,       \* the servers given by address: resolveHost asks no one
    Families,       \* the networks pickNetwork returns: "udp4", "udp6"
    Addrs,          \* the target addresses resolution may return
    Family,         \* Family[a] is the network that reaches a
    Source,         \* Source[a] is a as replies report it (comparableEndpoint)
    Resolutions,    \* Resolutions[s]: the answers of the resolver; <<>> is an
                    \* error or an empty answer
    Answers,        \* Answers[a] \subseteq {"success", "error"}: what the server
                    \* behind a replies; {} is a silent or closed port
    Noise,          \* packets that answer no request of this run
    Conns,          \* the local sockets the kernel may hand out
    Mapping(_, _),  \* Mapping(c, a): the public endpoint the NAT gives to
                    \* traffic from socket c to address a
    Bindings,       \* the sets of families this host may be able to bind
    Routes,         \* the sets of addresses this host may have a route to
    Gaps,           \* len(retransmitGaps), 3 in the code
    MaxLost,        \* how many packets of one transaction the network loses
    Patient,        \* TRUE: ctx outlasts every retransmission and its answer
    None            \* no socket, no address, no reply

Tx == Servers \X Addrs
Sends == 0 .. Gaps
Kinds == {"success", "error", "garbage"}
Endpoints == {Mapping(c, a) : c \in Conns, a \in Addrs}

\* The errors of a probe that never sent, and of one that did.
NotSent == {"invalid", "resolve", "listen", "write"}
Unanswered == {"noResponse", "badReply"}
Failures == NotSent \cup Unanswered

\* What a reader gets from ReadFrom: the normalised source, the transaction ID,
\* whether it decodes to a success, another message or not at all, the mapping.
Packets == [src : {Source[a] : a \in Addrs}, tx : Tx, kind : Kinds,
            mapped : Endpoints \cup {None}]

\* What a reader hands to a probe.
Replies == [kind : {"success", "error"}, mapped : Endpoints \cup {None}]

ASSUME FamilyAssumption == Family \in [Addrs -> Families]
ASSUME NoneAssumption == None \notin Conns \cup Addrs \cup Replies
ASSUME ConnsAssumption ==
    /\ Conns # {}
    /\ None # "failed"
    /\ {"failed", "free", "close"} \cap Conns = {}
ASSUME ResolutionAssumption ==
    \A s \in Servers : Resolutions[s] \subseteq Seq(Addrs)
ASSUME AnswersAssumption ==
    \A a \in Addrs : Answers[a] \subseteq {"success", "error"}
ASSUME GapsAssumption == Gaps \in Nat /\ MaxLost \in Nat

\* Noise never is the answer of a target: it comes from another endpoint than
\* the one its transaction ID was sent to, or it does not decode.
ASSUME NoiseAssumption ==
    /\ Noise \subseteq Packets
    /\ \A p \in Noise : p.src # Source[p.tx[2]] \/ p.kind = "garbage"

VARIABLES
    env,        \* what this host can bind and route, fixed during the run
    pc,         \* pc[s]: where the goroutine of server s is
    ips,        \* ips[s]: the addresses resolution returned
    next,       \* next[s]: the index into ips[s] that probeAddrs is at
    conn,       \* conn[s]: tx.conn of the current transaction
    gap,        \* gap[s]: retransmissions made so far by await
    result,     \* results[i]
    sockets,    \* r.sockets: per family None, "failed" or a socket
    open,       \* the sockets not closed yet
    mu,         \* the holder of r.mu: "free", "close" or the reader's socket
    pending,    \* r.pending
    reply,      \* reply[tx]: the content of the buffered channel, or None
    rpc,        \* rpc[c]: where the reader of socket c is
    rpkt,       \* rpkt[c]: the packet it is delivering
    wire,       \* wire[tx][n]: what became of the n-th send of tx
    expired,    \* ctx is done
    main        \* where ProbeAll is

probeVars == <<pc, ips, next, conn, gap, result>>
sockVars == <<sockets, open, mu>>
readVars == <<rpc, rpkt>>
vars == <<env, pc, ips, next, conn, gap, result, sockets, open, mu, pending,
          reply, rpc, rpkt, wire, expired, main>>

NoResult == [kind |-> "none", target |-> None, mapped |-> None]
Failure(kind) == [kind |-> kind, target |-> None, mapped |-> None]
Target(s) == ips[s][next[s]]
Transaction(s) == <<s, Target(s)>>

Init ==
    /\ env \in [bind : Bindings, route : Routes]
    /\ pc = [s \in Servers |-> "start"]
    /\ ips = [s \in Servers |-> <<>>]
    /\ next = [s \in Servers |-> 1]
    /\ conn = [s \in Servers |-> None]
    /\ gap = [s \in Servers |-> 0]
    /\ result = [s \in Servers |-> NoResult]
    /\ sockets = [f \in Families |-> None]
    /\ open = {}
    /\ mu = "free"
    /\ pending = {}
    /\ reply = [t \in Tx |-> None]
    /\ rpc = [c \in Conns |-> "off"]
    /\ rpkt = [c \in Conns |-> None]
    /\ wire = [t \in Tx |-> [n \in Sends |-> "unsent"]]
    /\ expired = FALSE
    /\ main = "wait"

-----------------------------------------------------------------------------
(* probe: validation and resolution *)

Report(s, r) ==
    /\ result' = [result EXCEPT ![s] = r]
    /\ pc' = [pc EXCEPT ![s] = "done"]

RejectServer(s) ==
    /\ pc[s] = "start" /\ s \in Malformed
    /\ Report(s, Failure("invalid"))
    /\ UNCHANGED <<env, ips, next, conn, gap, sockVars, pending, reply, readVars,
                   wire, expired, main>>

ResolveFails(s) ==
    /\ pc[s] = "start" /\ s \notin Malformed
    /\ \/ <<>> \in Resolutions[s]
       \/ expired /\ s \notin Literals
    /\ Report(s, Failure("resolve"))
    /\ UNCHANGED <<env, ips, next, conn, gap, sockVars, pending, reply, readVars,
                   wire, expired, main>>

Resolve(s) ==
    /\ pc[s] = "start" /\ s \notin Malformed
    /\ \E found \in Resolutions[s] \ {<<>>} : ips' = [ips EXCEPT ![s] = found]
    /\ pc' = [pc EXCEPT ![s] = "socket"]
    /\ UNCHANGED <<env, next, conn, gap, result, sockVars, pending, reply,
                   readVars, wire, expired, main>>

-----------------------------------------------------------------------------
(* send: the socket of the family, the pending entry, the first write *)

\* probeAddrs after an address that did not take the send: the next one, or the
\* last error when there is none.
NextAddr(s, kind) ==
    IF next[s] < Len(ips[s])
    THEN /\ next' = [next EXCEPT ![s] = @ + 1]
         /\ pc' = [pc EXCEPT ![s] = "socket"]
         /\ UNCHANGED result
    ELSE Report(s, Failure(kind)) /\ UNCHANGED next

\* Mutant: every send binds a socket of its own.
UncachedBug(f) == None

\* The entry of r.sockets that socket() looks up.
Cached(f) == sockets[f]

UseSocket(s) ==
    /\ pc[s] = "socket" /\ mu = "free"
    /\ LET c == Cached(Family[Target(s)]) IN
       /\ c \in Conns
       /\ conn' = [conn EXCEPT ![s] = c]
    /\ pc' = [pc EXCEPT ![s] = "insert"]
    /\ UNCHANGED <<env, ips, next, gap, result, sockVars, pending, reply,
                   readVars, wire, expired, main>>

\* Mutant: one family that cannot be bound fails the whole server.
SocketFailedBug(s) ==
    /\ pc[s] = "socket" /\ mu = "free"
    /\ Cached(Family[Target(s)]) = "failed"
    /\ Report(s, Failure("listen"))
    /\ UNCHANGED <<env, ips, next, conn, gap, sockVars, pending, reply, readVars,
                   wire, expired, main>>

SocketFailed(s) ==
    /\ pc[s] = "socket" /\ mu = "free"
    /\ Cached(Family[Target(s)]) = "failed"
    /\ NextAddr(s, "listen")
    /\ UNCHANGED <<env, ips, conn, gap, sockVars, pending, reply, readVars, wire,
                   expired, main>>

ListenFails(s) ==
    /\ pc[s] = "socket" /\ mu = "free"
    /\ LET f == Family[Target(s)] IN
       /\ Cached(f) = None
       /\ f \notin env.bind
       /\ sockets' = [sockets EXCEPT ![f] = "failed"]
    /\ NextAddr(s, "listen")
    /\ UNCHANGED <<env, ips, conn, gap, open, mu, pending, reply, readVars, wire,
                   expired, main>>

Listen(s) ==
    /\ pc[s] = "socket" /\ mu = "free"
    /\ LET f == Family[Target(s)] IN
       /\ Cached(f) = None
       /\ f \in env.bind
       /\ \E c \in Conns :
            /\ rpc[c] = "off"
            /\ sockets' = [sockets EXCEPT ![f] = c]
            /\ open' = open \cup {c}
            /\ rpc' = [rpc EXCEPT ![c] = "read"]
            /\ conn' = [conn EXCEPT ![s] = c]
    /\ pc' = [pc EXCEPT ![s] = "insert"]
    /\ UNCHANGED <<env, ips, next, gap, result, mu, pending, reply, rpkt, wire,
                   expired, main>>

InsertPending(s) ==
    /\ pc[s] = "insert" /\ mu = "free"
    /\ pending' = pending \cup {Transaction(s)}
    /\ pc' = [pc EXCEPT ![s] = "write"]
    /\ UNCHANGED <<env, ips, next, conn, gap, result, sockVars, reply, readVars,
                   wire, expired, main>>

Write(s) ==
    /\ pc[s] = "write"
    /\ Target(s) \in env.route
    /\ wire' = [wire EXCEPT ![Transaction(s)][0] = "sent"]
    /\ pc' = [pc EXCEPT ![s] = "await"]
    /\ UNCHANGED <<env, ips, next, conn, gap, result, sockVars, pending, reply,
                   readVars, expired, main>>

WriteFails(s) ==
    /\ pc[s] = "write"
    /\ Target(s) \notin env.route
    /\ pc' = [pc EXCEPT ![s] = "undo"]
    /\ UNCHANGED <<env, ips, next, conn, gap, result, sockVars, pending, reply,
                   readVars, wire, expired, main>>

\* Mutant: a failed write leaves its transaction pending.
DropPendingBug(s) ==
    /\ pc[s] = "undo" /\ mu = "free"
    /\ NextAddr(s, "write")
    /\ UNCHANGED <<env, ips, conn, gap, sockVars, pending, reply, readVars, wire,
                   expired, main>>

DropPending(s) ==
    /\ pc[s] = "undo" /\ mu = "free"
    /\ pending' = pending \ {Transaction(s)}
    /\ NextAddr(s, "write")
    /\ UNCHANGED <<env, ips, conn, gap, sockVars, reply, readVars, wire, expired,
                   main>>

-----------------------------------------------------------------------------
(* await: the reply, the deadline, or another send of the same request *)

Outcome(kind) == IF kind = "success" THEN "ok" ELSE "badReply"

TakeReply(s) ==
    /\ pc[s] = "await"
    /\ LET t == Transaction(s) IN
       /\ reply[t] # None
       /\ Report(s, [kind |-> Outcome(reply[t].kind),
                     target |-> t[2], mapped |-> reply[t].mapped])
       /\ reply' = [reply EXCEPT ![t] = None]
    /\ UNCHANGED <<env, ips, next, conn, gap, sockVars, pending, readVars, wire,
                   expired, main>>

GiveUp(s) ==
    /\ pc[s] = "await" /\ expired
    /\ Report(s, [Failure("noResponse") EXCEPT !.target = Target(s)])
    /\ UNCHANGED <<env, ips, next, conn, gap, sockVars, pending, reply, readVars,
                   wire, expired, main>>

\* Mutant: the loop over retransmitGaps stops one send early.
RetransmitBug(s) ==
    /\ pc[s] = "await" /\ gap[s] < Gaps
    /\ gap' = [gap EXCEPT ![s] = @ + 1]
    /\ wire' = IF gap'[s] = Gaps THEN wire
               ELSE [wire EXCEPT ![Transaction(s)][gap'[s]] = "sent"]
    /\ UNCHANGED <<env, pc, ips, next, conn, result, sockVars, pending, reply,
                   readVars, expired, main>>

Retransmit(s) ==
    /\ pc[s] = "await" /\ gap[s] < Gaps
    /\ gap' = [gap EXCEPT ![s] = @ + 1]
    /\ wire' = [wire EXCEPT ![Transaction(s)][gap'[s]] = "sent"]
    /\ UNCHANGED <<env, pc, ips, next, conn, result, sockVars, pending, reply,
                   readVars, expired, main>>

-----------------------------------------------------------------------------
(* read and deliver: the reader of one socket *)

Receive(c, p) ==
    /\ rpc[c] = "read" /\ c \in open
    /\ rpc' = [rpc EXCEPT ![c] = "deliver"]
    /\ rpkt' = [rpkt EXCEPT ![c] = p]

\* An answer reaches the socket its request left from; the network may deliver
\* it again.
ReadAnswer(c) ==
    /\ \E t \in Tx, n \in Sends :
        /\ wire[t][n] \in {"success", "error"} /\ conn[t[1]] = c
        /\ Receive(c, [src |-> Source[t[2]], tx |-> t, kind |-> wire[t][n],
                       mapped |-> IF wire[t][n] = "success"
                                  THEN Mapping(c, t[2]) ELSE None])
        /\ wire' \in {wire, [wire EXCEPT ![t][n] = "read"]}
    /\ UNCHANGED <<env, probeVars, sockVars, pending, reply, expired, main>>

ReadNoise(c) ==
    /\ \E p \in Noise : Receive(c, p)
    /\ UNCHANGED <<env, probeVars, sockVars, pending, reply, wire, expired, main>>

\* Mutant: the reader returns on any read error.
ReadErrorBug(c) ==
    /\ rpc[c] = "read" /\ c \in open
    /\ rpc' = [rpc EXCEPT ![c] = "exited"]
    /\ UNCHANGED <<env, probeVars, sockVars, pending, reply, rpkt, wire, expired,
                   main>>

\* A read error other than ErrClosed: pause, then read again.
ReadError(c) ==
    /\ rpc[c] = "read" /\ c \in open
    /\ rpc' = [rpc EXCEPT ![c] = "pause"]
    /\ UNCHANGED <<env, probeVars, sockVars, pending, reply, rpkt, wire, expired,
                   main>>

Resume(c) ==
    /\ rpc[c] = "pause"
    /\ rpc' = [rpc EXCEPT ![c] = "read"]
    /\ UNCHANGED <<env, probeVars, sockVars, pending, reply, rpkt, wire, expired,
                   main>>

ReaderExits(c) ==
    /\ rpc[c] = "read" /\ c \notin open
    /\ rpc' = [rpc EXCEPT ![c] = "exited"]
    /\ UNCHANGED <<env, probeVars, sockVars, pending, reply, rpkt, wire, expired,
                   main>>

ExpectsSource(src) == \E t \in pending : Source[t[2]] = src

\* Mutant: the source only has to be one the run expects, not this transaction's.
AcceptsBug(p) ==
    /\ ExpectsSource(p.src)
    /\ p.kind # "garbage"
    /\ p.tx \in pending

\* Mutant: what does not decode still fails its transaction.
AcceptsUndecodedBug(p) ==
    /\ ExpectsSource(p.src)
    /\ p.tx \in pending
    /\ Source[p.tx[2]] = p.src

\* The checks of deliver, in its order.
Accepts(p) ==
    /\ ExpectsSource(p.src)
    /\ p.kind # "garbage"
    /\ p.tx \in pending
    /\ Source[p.tx[2]] = p.src

\* Mutant: a delivered transaction stays pending.
DeliveredBug(t) == pending

\* r.pending after a match.
Delivered(t) == pending \ {t}

DropPacket(c) ==
    /\ rpc[c] = "deliver" /\ mu = "free"
    /\ ~Accepts(rpkt[c])
    /\ rpc' = [rpc EXCEPT ![c] = "read"]
    /\ rpkt' = [rpkt EXCEPT ![c] = None]
    /\ UNCHANGED <<env, probeVars, sockVars, pending, reply, wire, expired, main>>

\* deliver up to the send on tx.reply, which it makes with mu held.
MatchPacket(c) ==
    /\ rpc[c] = "deliver" /\ mu = "free"
    /\ Accepts(rpkt[c])
    /\ mu' = c
    /\ pending' = Delivered(rpkt[c].tx)
    /\ rpc' = [rpc EXCEPT ![c] = "handoff"]
    /\ UNCHANGED <<env, probeVars, sockets, open, reply, rpkt, wire, expired, main>>

\* Mutant: the transaction is looked up by the source of the packet, not by its ID.
HandOffBug(c) ==
    /\ rpc[c] = "handoff"
    /\ LET p == rpkt[c] IN
       \E t \in pending \cup {p.tx} :
           /\ Source[t[2]] = p.src
           /\ reply[t] = None
           /\ reply' = [reply EXCEPT ![t] = [kind |-> p.kind, mapped |-> p.mapped]]
    /\ mu' = "free"
    /\ rpc' = [rpc EXCEPT ![c] = "read"]
    /\ rpkt' = [rpkt EXCEPT ![c] = None]
    /\ UNCHANGED <<env, probeVars, sockets, open, pending, wire, expired, main>>

\* The channel has room for one reply.
HandOff(c) ==
    /\ rpc[c] = "handoff"
    /\ LET p == rpkt[c] IN
       /\ reply[p.tx] = None
       /\ reply' = [reply EXCEPT ![p.tx] = [kind |-> p.kind, mapped |-> p.mapped]]
    /\ mu' = "free"
    /\ rpc' = [rpc EXCEPT ![c] = "read"]
    /\ rpkt' = [rpkt EXCEPT ![c] = None]
    /\ UNCHANGED <<env, probeVars, sockets, open, pending, wire, expired, main>>

-----------------------------------------------------------------------------
(* ProbeAll's caller side: wg.Wait and the deferred close *)

\* Mutant: close does not wait for the probes.
StartCloseBug ==
    /\ main = "wait" /\ mu = "free"
    /\ mu' = "close"
    /\ main' = "closing"
    /\ UNCHANGED <<env, probeVars, sockets, open, pending, reply, readVars, wire,
                   expired>>

StartClose ==
    /\ main = "wait" /\ mu = "free"
    /\ \A s \in Servers : pc[s] = "done"
    /\ mu' = "close"
    /\ main' = "closing"
    /\ UNCHANGED <<env, probeVars, sockets, open, pending, reply, readVars, wire,
                   expired>>

CloseConn(c) ==
    /\ main = "closing" /\ c \in open
    /\ open' = open \ {c}
    /\ UNCHANGED <<env, probeVars, sockets, mu, pending, reply, readVars, wire,
                   expired, main>>

\* Mutant: readers.Wait runs with mu still held, as a deferred unlock would.
UnlockBug ==
    /\ main = "closing" /\ open = {}
    /\ main' = "readers"
    /\ UNCHANGED <<env, probeVars, sockets, open, mu, pending, reply, readVars,
                   wire, expired>>

Unlock ==
    /\ main = "closing" /\ open = {}
    /\ mu' = "free"
    /\ main' = "readers"
    /\ UNCHANGED <<env, probeVars, sockets, open, pending, reply, readVars, wire,
                   expired>>

ReadersDone == \A c \in Conns : rpc[c] \in {"off", "exited"}

Return ==
    /\ main = "readers" /\ ReadersDone
    /\ main' = "returned"
    /\ UNCHANGED <<env, probeVars, sockVars, pending, reply, readVars, wire,
                   expired>>

-----------------------------------------------------------------------------
(* External: the network, the servers, the clock *)

Answer(t, n) ==
    /\ wire[t][n] = "sent"
    /\ \E k \in Answers[t[2]] : wire' = [wire EXCEPT ![t][n] = k]
    /\ UNCHANGED <<env, probeVars, sockVars, pending, reply, readVars, expired,
                   main>>

InFlight == {"sent", "success", "error"}

Lose(t, n) ==
    /\ wire[t][n] \in InFlight
    /\ Cardinality({m \in Sends : wire[t][m] = "lost"}) < MaxLost
    /\ wire' = [wire EXCEPT ![t][n] = "lost"]
    /\ UNCHANGED <<env, probeVars, sockVars, pending, reply, readVars, expired,
                   main>>

\* Long after the last send: nothing in flight that anyone will still read.
Quiet ==
    /\ \A s \in Servers :
        \/ pc[s] = "done"
        \/ pc[s] = "await" /\ reply[Transaction(s)] = None
                           /\ gap[s] = Gaps
    /\ \A c \in Conns : rpc[c] \in {"off", "read", "exited"}
    /\ \A t \in Tx, n \in Sends :
        /\ wire[t][n] = "sent" => Answers[t[2]] = {}
        /\ wire[t][n] \in {"success", "error"} => rpc[conn[t[1]]] = "exited"

Expire ==
    /\ ~expired
    /\ Patient => Quiet
    /\ expired' = TRUE
    /\ UNCHANGED <<env, probeVars, sockVars, pending, reply, readVars, wire, main>>

Terminated == main = "returned" /\ UNCHANGED vars

-----------------------------------------------------------------------------

\* Steps of the goroutine of s that wait for mu.
LockStep(s) ==
    \/ UseSocket(s) \/ SocketFailed(s) \/ ListenFails(s) \/ Listen(s)
    \/ InsertPending(s) \/ DropPending(s)

FreeStep(s) ==
    \/ RejectServer(s) \/ ResolveFails(s) \/ Resolve(s)
    \/ Write(s) \/ WriteFails(s)
    \/ TakeReply(s) \/ GiveUp(s) \/ Retransmit(s)

Probe(s) == LockStep(s) \/ FreeStep(s)

Deliver(c) == DropPacket(c) \/ MatchPacket(c)

Reader(c) ==
    \/ ReadAnswer(c) \/ ReadNoise(c) \/ ReadError(c) \/ Resume(c)
    \/ ReaderExits(c) \/ Deliver(c) \/ HandOff(c)

Close == StartClose \/ Unlock \/ Return \/ \E c \in Conns : CloseConn(c)

Network == \E t \in Tx, n \in Sends : Answer(t, n) \/ Lose(t, n)

Next ==
    \/ \E s \in Servers : Probe(s)
    \/ \E c \in Conns : Reader(c)
    \/ Close \/ Network \/ Expire \/ Terminated

Spec == Init /\ [][Next]_vars

\* The scheduler runs every goroutine that can step, and sync.Mutex hands the
\* lock to a waiter of more than 1ms, so no waiter starves.  Nothing is assumed
\* of the network, and of the clock only that the deadline of ctx comes.
Fairness ==
    /\ \A s \in Servers : SF_vars(LockStep(s)) /\ WF_vars(FreeStep(s))
    /\ \A c \in Conns : /\ SF_vars(Deliver(c)) /\ WF_vars(HandOff(c))
                        /\ WF_vars(Resume(c)) /\ WF_vars(ReaderExits(c))
    /\ SF_vars(Close)
    /\ WF_vars(Expire)

FairSpec == Spec /\ Fairness

-----------------------------------------------------------------------------
(* Properties *)

Results == [kind : {"none", "ok"} \cup Failures, target : Addrs \cup {None},
            mapped : Endpoints \cup {None}]

ProbeTypes ==
    /\ pc \in [Servers -> {"start", "socket", "insert", "write", "undo", "await", "done"}]
    /\ ips \in [Servers -> Seq(Addrs)]
    /\ next \in [Servers -> Nat]
    /\ \A s \in Servers : pc[s] \notin {"start", "done"} => next[s] \in 1 .. Len(ips[s])
    /\ \A s \in Servers : pc[s] = "start" => next[s] = 1
    /\ conn \in [Servers -> Conns \cup {None}]
    /\ gap \in [Servers -> Sends]

ResultTypes == result \in [Servers -> Results]

RunTypes ==
    /\ env \in [bind : Bindings, route : Routes]
    /\ sockets \in [Families -> Conns \cup {None, "failed"}]
    /\ open \subseteq Conns
    /\ mu \in Conns \cup {"free", "close"}
    /\ expired \in BOOLEAN
    /\ main \in {"wait", "closing", "readers", "returned"}

TransactionTypes ==
    /\ pending \subseteq Tx
    /\ reply \in [Tx -> Replies \cup {None}]
    /\ wire \in [Tx -> [Sends -> InFlight \cup {"unsent", "read", "lost"}]]

ReaderTypes ==
    /\ rpc \in [Conns -> {"off", "read", "pause", "deliver", "handoff", "exited"}]
    /\ rpkt \in [Conns -> Packets \cup {None}]
    /\ \A c \in Conns : rpc[c] \in {"deliver", "handoff"} => rpkt[c] \in Packets
    /\ \A c \in Conns : rpc[c] = "handoff" => rpkt[c].kind # "garbage"

\* Every variable keeps its type: a goroutine past resolution is at an address it
\* resolved, and a reader that delivers has a packet.
TypeOK == ProbeTypes /\ ResultTypes /\ RunTypes /\ TransactionTypes /\ ReaderTypes

\* What a probe reports of a target is what that target answered: a success
\* carries the endpoint the NAT maps this probe's own socket to for that target,
\* whatever other packets reach the socket, and only the target's own error
\* answer fails the probe (deliver, probeAddrs).
Attribution ==
    \A s \in Servers : LET r == result[s] IN
        /\ r.kind = "ok" => /\ "success" \in Answers[r.target]
                            /\ r.mapped = Mapping(conn[s], r.target)
        /\ r.kind = "badReply" => "error" \in Answers[r.target]

\* All successes of one family were measured from one local endpoint, so that
\* their mappings may be compared: the premise of classifyMapping (ProbeAll).
Comparable ==
    \A f \in Families : \E c \in Conns : \A s \in Servers :
        LET r == result[s] IN
        r.kind = "ok" /\ Family[r.target] = f => r.mapped = Mapping(c, r.target)

\* Whoever holds mu can go on: a reader that sends on tx.reply finds room there ("the
\* reader must not block on it", transaction.reply), and close waits for the readers
\* only after it has let go of mu (deliver, close).
HolderGoesOn ==
    mu # "free" =>
        \/ mu \in Conns /\ rpc[mu] = "handoff" /\ reply[rpkt[mu].tx] = None
        \/ mu = "close" /\ main = "closing"

\* A probe measures the first address of its host that this machine can bind and
\* route to, and fails before sending only when there is none: neither the
\* failed socket of one family nor another probe changes that (probeAddrs,
\* familySocket).
FirstUsableAddress ==
    \A s \in Servers : pc[s] = "done" /\ ips[s] # <<>> =>
        LET usable == {i \in DOMAIN ips[s] : /\ Family[ips[s][i]] \in env.bind
                                             /\ ips[s][i] \in env.route}
            r == result[s]
        IN  IF usable = {}
            THEN r.kind \in {"listen", "write"} /\ r.target = None
            ELSE \E i \in usable : /\ r.target = ips[s][i]
                                   /\ \A j \in usable : i <= j

\* A socket that a probe is using is open and has a live reader (close, read).
SocketServed ==
    \A s \in Servers : pc[s] \in {"insert", "write", "undo", "await"} =>
        conn[s] \in open /\ rpc[conn[s]] \notin {"off", "exited"}

\* deliver admits packets only from endpoints a request went to, or is going to:
\* an address that refused the write leaves nothing pending (send).
PendingWasSent ==
    \A t \in pending :
        \/ wire[t][0] # "unsent"
        \/ pc[t[1]] \in {"write", "undo"} /\ Transaction(t[1]) = t

\* With a context that outlasts the schedule and a network that loses fewer
\* packets of a transaction than the request is sent times, a target that
\* answers is never reported as silent (retransmitGaps).
LossTolerated ==
    \A s \in Servers :
        result[s].kind = "noResponse" => Answers[result[s].target] = {}

\* ProbeAll returns: every probe ends by the deadline, and close, which waits for
\* the readers, does not wait on itself (ProbeAll, close).
Termination == <>(main = "returned")

-----------------------------------------------------------------------------
(* The inductive invariant behind the proofs *)

\* Goroutines that have sent their request.
Sent(s) == pc[s] \in {"await", "done"}

\* An answer of the target of t, as seen from the socket of its family.
Genuine(t, kind, mapped) ==
    /\ Sent(t[1])
    /\ kind \in Answers[t[2]]
    /\ sockets[Family[t[2]]] \in Conns
    /\ mapped = IF kind = "success" THEN Mapping(sockets[Family[t[2]]], t[2]) ELSE None

\* The socket of a transaction is the one the table holds for its family.
SharedSocket ==
    \A s \in Servers : pc[s] \in {"insert", "write", "undo", "await"} =>
        conn[s] \in Conns /\ sockets[Family[Target(s)]] = conn[s]

\* What travels was sent by its transaction, from that socket.
GenuineWire ==
    \A t \in Tx, n \in Sends : wire[t][n] # "unsent" =>
        /\ Sent(t[1])
        /\ conn[t[1]] \in Conns
        /\ sockets[Family[t[2]]] = conn[t[1]]
        /\ wire[t][n] \in {"success", "error"} => wire[t][n] \in Answers[t[2]]

\* A packet that passes, or may pass, the checks of deliver is an answer.
GenuinePacket ==
    \A c \in Conns : LET p == rpkt[c] IN
        \/ rpc[c] = "handoff"
        \/ rpc[c] = "deliver" /\ p.src = Source[p.tx[2]] /\ p.kind # "garbage"
        => Genuine(p.tx, p.kind, p.mapped)

GenuineReply ==
    \A t \in Tx : reply[t] # None => Genuine(t, reply[t].kind, reply[t].mapped)

\* The result r of s is what its target answered on the socket s used.
Backed(s, r) ==
    /\ pc[s] = "done"
    /\ r.target \in Addrs
    /\ conn[s] \in Conns
    /\ sockets[Family[r.target]] = conn[s]
    /\ r.kind = "ok" => /\ "success" \in Answers[r.target]
                        /\ r.mapped = Mapping(conn[s], r.target)
    /\ r.kind = "badReply" => "error" \in Answers[r.target] /\ r.mapped = None

GenuineResult ==
    \A s \in Servers :
        result[s].kind \in {"ok", "badReply"} => Backed(s, result[s])

Evidence ==
    /\ SharedSocket /\ GenuineWire /\ GenuinePacket /\ GenuineReply
    /\ GenuineResult

\* mu is held by the one reader that hands a reply over, or by close.
LockHeld ==
    /\ \A c \in Conns : rpc[c] = "handoff" <=> mu = c
    /\ main = "closing" <=> mu = "close"

\* A matched transaction is no longer pending, so nothing can match it again.
MatchedOnce ==
    /\ \A t \in pending : reply[t] = None
    /\ \A c \in Conns : rpc[c] = "handoff" =>
        rpkt[c].tx \notin pending /\ reply[rpkt[c].tx] = None

\* Where results come from, and that the caller waits for all of them.
Reported ==
    /\ \A s \in Servers : pc[s] = "done" <=> result[s] # NoResult
    /\ \A s \in Servers : pc[s] \notin {"start", "done"} => ips[s] \in Resolutions[s]
    /\ main # "wait" => \A s \in Servers : pc[s] = "done"

IndInv == Evidence /\ LockHeld /\ MatchedOnce /\ Reported

-----------------------------------------------------------------------------

\* The run keeps what ProbeAll promises: the table of sockets is the choice of
\* one endpoint per family, and results appear one by one and never change.
Promise == INSTANCE ProbeAll WITH
    Reach <- [s \in Servers |-> UNION {{r[i] : i \in DOMAIN r} : r \in Resolutions[s]}],
    endpoint <- sockets,
    returned <- main = "returned"

\* ProbeAll's contract holds of every step of the run (ProbeAll).
KeepsPromise == Promise!Spec
=============================================================================
