# natcheck in TLA+

natcheck tells a developer what kind of NAT a host is behind. It sends STUN
Binding requests to a few servers from shared local sockets, compares the public
endpoints they report, optionally tests filtering (RFC 5780 §4.4) and hairpinning
(§4.3), and ends in a verdict and an exit code that CI scripts rely on. This
directory models that program, checks the models with TLC, and proves with TLAPS
what a small instance cannot show.

## The system

| Part | Source | State | Operations |
|---|---|---|---|
| mapping run | `internal/probe/stun.go` | sockets per family, pending transactions, a mutex, one goroutine per server, one reader per socket | `ProbeAll`, `probe`, `probeAddrs`, `send`, `socket`, `await`, `read`, `deliver`, `close` |
| filtering probe | `internal/probe/filtering.go` | one socket, three tests in sequence | `ProbeFiltering`, `sendBindingAndWait`, `changeRequestIgnored` |
| hairpin probe | `internal/probe/hairpin.go` | two sockets, a goroutine that bridges cancellation to their deadlines | `ProbeHairpinning`, `realHairpinSend`, `realHairpinRecv` |
| classification | `internal/classify/classify.go` | none | `Classify`, `classifyMapping`, `classifyGroup`, `combineGroups`, `applyFiltering`, `applyHairpinning`, `decideForecast` |
| command line | `internal/cli/cli.go` | options, contexts and budgets | `Run`, `runWith`, `parseFlags`, `exitCode` |
| report | `internal/report/*.go` | none | `Render` |
| STUN responder | `internal/stunserver/server.go` | none | `Handle`, `Serve`, `BuildChangeRequest`, `ParseChangeRequest` |
| entry point | `cmd/natcheck/main.go` | signal context | `main` |

**How they interact.** `runWith` starts the hairpin probe in a goroutine against
the first server, runs the mapping probes against all of them, then the filtering
probe against the first server that advertised OTHER-ADDRESS, collects the hairpin
result from a channel, and classifies. The hairpin probe shares the deadline of the
mapping run, the filtering probe only the caller's context. Inside `ProbeAll` the
server goroutines, the readers and the caller share the mutex `mu`, the socket
table and the table of pending transactions; a reader hands a reply to a probe
through a channel with room for one. Everything else is a call with a value.

**What is hard in it.** The mapping run: unconnected sockets let any host's
packets in, retransmission brings duplicates, replies race the deadline and the
retransmission timer, binds and writes fail per family, and `close` takes the lock
that its readers need. Classification: a verdict is folded from groups, and the
warnings, the forecast and the exit code must stay consistent with each other and
with the evidence. The filtering probe: the absence of a packet is a result, and
three tests share a socket. The hairpin probe: two places set the deadline of one
socket, and two goroutines may each fail while the other waits. The responder: a
loop that must outlive every error and end with its context. The command: what it
reports combines results of three probes, any of which may be late, lost or refused.

**What makes each part correct.**

- *Mapping run*: a result is the answer of its own target, measured from the one
  socket of its family; the probe is on the first usable address of its host; loss
  below the number of sends changes nothing; the reader never blocks under the
  lock; the sockets outlive the probes; `ProbeAll` returns.
- *Classification*: exit code 0 rests on agreement of two server IPs; order and
  silent servers change nothing; measuring less never reads better; what is
  reported is explained by a warning.
- *Filtering*: the NAT is never reported as more open than it is; no packet counts
  for another test; a server that honors CHANGE-REQUEST has the NAT measured; time
  is bounded.
- *Hairpinning*: `true` only if the nonce came back; `false` only after the whole
  wait, read errors and `ctx` apart; nothing is left running; time is bounded.
- *Command line*: exit code 0 and every claim of the report hold of the NATs that are
  there; code and report agree, in both formats; the command ends and leaves nothing.
- *Responder*: only requests are answered, to their source and with their
  transaction; no packet or error ends the service, its context does.

## Modules

| Module | Role |
|---|---|
| `ProbeAll` | what `ProbeAll` promises its caller: no goroutine, lock or packet |
| `MappingRun` | the run of `stun.go` itself, its properties, the inductive invariant and the refinement of `ProbeAll` |
| `ProbeFiltering` | what `ProbeFiltering` promises: one result, none of which makes the NAT look more open |
| `Filtering` | the three tests of `filtering.go` over one socket, and the refinement of `ProbeFiltering` |
| `ChangeRequest` | the CHANGE-REQUEST attribute as the responder writes and reads it |
| `ProbeHairpinning` | what `ProbeHairpinning` promises: `true` only if the NAT hairpins |
| `Hairpin` | the goroutines, the bridge and the wait of `hairpin.go`, and the refinement of `ProbeHairpinning` |
| `StunServer` | `Handle` and `Serve` of the responder |
| `Classify` | `classify.go` and `exitCode` as operators |
| `ClassifyCases` | a machine that grows the list of results, and the properties of the verdict |
| `Report` | which facts each output format tells |
| `Diagnosis` | `runWith`: the three contracts, `Classify` and `Report` composed |
| `MC...` | the constants of each for TLC |
| `MappingRunProofs`, `MappingRunPromise`, `FilteringProofs`, `HairpinProofs`, `StunServerProofs`, `ClassifyProofs`, `DiagnosisProofs` | the theorems about each |
| `VerdictProofs` | lemmas about the operators of `Classify`, which the last two cite |

The three probes are each modelled twice. The detailed module has the sockets, packets,
goroutines and time; the contract has one variable for the result and one step. The
detailed one is shown to implement the contract, by TLC on an instance and by TLAPS for
every value of the constants, and `Diagnosis` instantiates the contracts only. So what it
shows of a command holds of the command with the detailed probes in it.

Operators named `...Bug` are mutants: the change of one definition that a plausible
mistake in the code would make. They are used by no specification. Each checked
property is violated when its mutant takes the place of the definition it mutates.

### MappingRun and stun.go

| Variable | In the code |
|---|---|
| `pc`, `ips`, `next`, `conn`, `gap` | where the goroutine of a server is; the resolved addresses and the loop index of `probeAddrs`; `tx.conn`; the loop index of `await` |
| `result` | `results[i]` |
| `sockets`, `open` | `r.sockets`, with `"failed"` for a cached error; what `Close` has not been called on |
| `mu` | the holder of `r.mu` where the holder does more than one step |
| `pending`, `reply` | `r.pending`, the buffered channels |
| `rpc`, `rpkt` | where the reader of a socket is, the packet in its buffer |
| `wire` | external: what became of each send of each transaction |
| `expired`, `main` | `ctx` is done; where `ProbeAll` is |
| `env` | external: which families bind and which addresses route |

A critical section that only reads and writes tables is one action guarded by
`mu = "free"`. Two sections span actions and therefore hold `mu`: a reader from the
match of a packet to the send on the channel (`MatchPacket`, `HandOff`), because
that send could block, and `close` from its lock to its unlock (`StartClose`,
`CloseConn`, `Unlock`), because the readers run meanwhile.

| Actions | Code |
|---|---|
| `RejectServer`, `ResolveFails`, `Resolve` | `probe`, `resolveHost` |
| `UseSocket`, `SocketFailed`, `ListenFails`, `Listen` | `socket`, under `send` |
| `InsertPending`, `Write`, `WriteFails`, `DropPending` | the rest of `send`; `NextAddr` is the loop of `probeAddrs` after a failed send |
| `TakeReply`, `GiveUp`, `Retransmit` | the cases of the `select` in `await`, and the tail of `probeAddrs`; all that are ready may be taken |
| `ReadAnswer`, `ReadNoise`, `ReadError`, `Resume`, `ReaderExits` | `read` |
| `DropPacket`, `MatchPacket`, `HandOff` | `deliver` |
| `StartClose`, `CloseConn`, `Unlock`, `Return` | `wg.Wait`, the deferred `close` |
| `Answer`, `Lose`, `Expire` | external: servers, network, clock |

A transaction is the pair of a server and an address. The code draws a random 96-bit
ID per send; that two of one run are equal is left out. A packet carries its source
as `comparableEndpoint` gives it, a transaction, whether it decodes to a success, to
another message or not at all, and the mapped endpoint. `Mapping(c, a)` is the NAT;
TLC gets one that keeps every socket and address apart, so that a result taken from
the wrong socket or target shows. Noise is any packet that does not both come from
the target of its transaction and decode: an address that forges the source and
guesses the ID is outside the model.

Left out: round-trip times, OTHER-ADDRESS in the reply, error wording, and the error
of `stun.Build`. Whether a write succeeds depends on the address alone for the whole
run. A retransmission's write error is ignored by the code; the packet then counts as
lost.

### Filtering and filtering.go

| Variable | In the code |
|---|---|
| `pc`, `test` | where `ProbeFiltering` is: about to call `sendBindingAndWait` (`send`), at the top of its loop (`loop`), in `ReadFrom` (`read`); which of the tests |
| `left`, `spent` | `time.Until(end)` of the test; time since the first send |
| `outcome` | what `sendBindingAndWait` returned for each test: a reply and its source, silence, a read error (the code returns `errNoResponse` for both of these), a local error, an error reply |
| `result` | the `FilteringResult` and error returned |
| `path`, `wire` | external: the server, what it answers to each CHANGE-REQUEST and from where, the NAT; what became of each request and its answer |

| Actions | Code |
|---|---|
| `CannotStart`, `Start` | the target's validation, the resolution, `ListenPacket` |
| `Send`, `SendFails` | `sendBindingAndWait` up to its loop |
| `Elapsed`, `Listen`, `ListenFails` | the head of the loop |
| `ReadTimeout`, `ReadError`, `ReadAnswer`, `ReadStale`, `ReadGarbage` | `ReadFrom` and what is made of the packet |
| `Answer`, `Lose`, `Tick` | external: server and NAT, network, clock |

The end of a test and what follows it (`EndTest`, with `Judge` and `Ignored` for
`changeRequestIgnored`) belong to the action that ends it. What the server sees of a
request is `ParseChangeRequest(Request(i))`: a Binding request with the bits that
`BuildChangeRequest` writes, or without the attribute in Test 1, which reads as neither flag.
`ChangeRequest` also has what `ParseChangeRequest` refuses (another message, no attribute, one
of the wrong length), though these tests never send it. The NAT lets a packet in by its source alone: the socket has sent to one endpoint only.

### Hairpin and hairpin.go

| Variable | In the code |
|---|---|
| `pc` | where `probeHairpinning` is: waiting for the two goroutines (`probe`), before the nonce (`send`), in the loop of `realHairpinRecv` (`loop`, `read`) |
| `job` | where the `sendBindingAndWait` of each socket is, `ok` or `failed` what it sent on its channel |
| `end`, `cut` | the read deadline of each socket, as time left; whether the bridge has set it in the past since |
| `bridge` | the goroutine that waits for `ctx.Done()` or `done`: `half` after the first `SetDeadline` |
| `ctxLeft`, `ctxDone` | the deadline of `ctx`, as time left; its end, by deadline or by cancellation |
| `spent`, `listened`, `broke` | time since the start and since the nonce; whether a read failed (history) |
| `hairpins`, `wire`, `tag` | external: the NAT; the STUN answers and the nonce |

`JobSend`, `JobListen`, `JobTimeout`, `Answered`, `Discard` and `JobFails` are the steps of
`sendBindingAndWait` in a goroutine; `Start`, `Collect`, `SendTag`, `Listen`, `Elapsed`,
`ReadBreaks` and `ReadPacket` those of `probeHairpinning` with `realHairpinSend` and
`realHairpinRecv`; `CutA`, `CutB` and `BridgeEnds` are the bridge; `Cancel` and `Expire`
the caller; `Answer`, `Lose`, `TagReturns`, `LoseTag` and `Tick` the network and the clock.
Time passes only when no goroutine has a step to take: a step of the program takes none.
The nonce is 16 random bytes; a packet that guesses it is left out. A write deadline that
passes is a write that fails, and any call may fail at any time.

### StunServer and server.go

A message is its kind, transaction and source: `Handle` returns the set of at most one
reply. `past` is the read deadline that the goroutine of `Serve` sets when `ctx` ends;
`open` becomes false when somebody closes the socket. A read fails at any moment, without
a reason too, and `Returns` is what `Serve` makes of it. A dual-stack socket sees an IPv4
peer in its IPv4-in-IPv6 form, and `Unmap` is what the reply makes of it.

### Diagnosis and cli.go, Report and report

`phase` is where `runWith` is; `args` what `parseFlags` accepted, as far as it decides what
runs; `exit` the code; `output` is empty or holds the report. The variables of the contracts are those of
this module (`endpoint`, `result`, `returned` of `ProbeAll`; `filter`, `filtering` of
`ProbeFiltering`; `hairpins`, `hairpin` of `ProbeHairpinning`). Which error a mapping probe met
is only worded, so that `ProbeAll` has the error kinds as constants, and here one of each sort.

`nat` is external: what the NAT of each family does (`NATKinds`). Its mapping is independent
of the peer, or depends on the peer's address, or on its port too; its pool has public
addresses only, or shared ones. `Mapped` is the endpoint it shows. A measured result is
therefore made from the NAT, and the properties compare the verdict with that NAT. Targets
are endpoints, an IP and a port each. `TargetIP` is what `distinctTargetIPs` makes of one, so
that two ports of one IP are one target IP for `Classify`, and yet may show two mappings:
then the code reports `ADM`, while two ports of one IP that agree tell nothing. `Told` is
exactly this: by two IPs, or by two ports that the NAT tells apart.

`against` is the server the filtering probe is called for, the first that answered with
OTHER-ADDRESS. Its name and the hairpin probe's are resolved again, and the address that
comes first may be of the other family: `filter` and `hairpins` are those of whatever NAT
is before it.

A report is a record of facts: `RenderJSON` and `RenderHuman` say which facts each format
has and when it leaves one out. Layout, wording, round-trip times and the order of warnings
are not modelled.

### Classify and classify.go

A result is a mapped endpoint, or `None` for an error or an invalid endpoint (the code
treats them alike), and a target IP. The legacy name and `TURNRequired` follow from
type and forecast and are left out; `FilteringTestedAgainst` only copies its input.
Warnings are a set: the code's order, and `appendUnique`, are layout. The type
`AddressPortDependentMapping`, which the code never assigns, is left out with it.

## Runs

| Run | Bounds | What it shows |
|---|---|---|
| `faults` | 2 servers, 3 addresses, 2 sockets, 2 sends, any bindable families, IPv6 routed or not | `TypeOK`, `Attribution`, `Comparable`, `HolderGoesOn`, `FirstUsableAddress`, `SocketServed`, `PendingWasSent`, and the refinement `KeepsPromise`, under failed binds and writes, resolver and read errors, duplicates, late answers, error answers and foreign packets |
| `returns` | 3 servers, 2 sends, two targets with one source | `Attribution` where only the transaction ID tells two targets apart, and `Termination` |
| `loss` | 2 servers, 4 sends as in the code, 3 losses per transaction | `LossTolerated` |
| `verdicts` | up to 4 results, 4 endpoints, 2 server IPs, every filtering outcome | the six properties of the verdict |
| `filtering` | eleven kinds of server, three filtering behaviors, a time per test of 2 | `NeverMoreOpen`, `Exact`, `RightOrRefused`, `Bounded`, the refinement `KeepsContract` and `Termination`, with lost, late, repeated and foreign packets and any call failing |
| `hairpin` | a timeout of 4, a time per probe of 2, no `ctx` deadline or one of 1, 3 or 8 | `Witnessed`, `FullWindow`, `NoStragglers`, `Bounded`, the refinement `KeepsContract` and `Returns`, with cancellation at any moment |
| `responder` | 5 packets: requests from an IPv6, an IPv4-in-IPv6 and a non-UDP source, another message, garbage | `AnswersRequests`, `KeepsServing`, `Stops`, with read errors, cancellation and close at any moment |
| `command` | 4 servers of two families, two of them ports of one IP and one dual-stack, 14 combinations of NATs | `PassMeansIndependent`, `ClaimsHold`, `ExitMatchesReport`, `FormatsAgree`, `NothingLeftRunning`, `Termination` |
| `cgnat_documented` | up to 2 results | violated: see below |
| `forecast_comment` | up to 2 results | violated: see below |
| `filtering_timeout` | a server that honors CHANGE-REQUEST, each filtering behavior | violated: see below |
| `hairpin_prompt` | as `hairpin` | violated: see below |

**Why the bounds are enough.** Two servers are the least that share a socket, and
give a foreign packet another transaction to hit; three add an entry that never
sends and a pair whose replies carry one source. `s2` has an IPv6 and an IPv4 address in
either order, so that each reason to go on to the next address occurs, first and last,
and so does the bind another probe has seen fail. There
is a socket per family, and one more bind than the code makes shows in `Comparable`
at once. Two sends give duplicates, an answer to the first send after the second, and
a late answer; the order of more sends is the subject of `loss`, which has the code's
four. `faults` loses no packet: what loss can do there, an answer that is never read
also does. In `returns` a retransmission may meet the answer to the first send. The
sockets are symmetric in the safety runs, the server IPs and the IPv6 endpoints in
`verdicts`; the liveness run uses no symmetry. In
`verdicts` four results make both a pair of families with two results each and a
family with a majority, and four endpoints are one plain and one shared for IPv4 and
two for IPv6.

For `filtering`, a time per test of 2 lets a packet arrive at once, in time and too late,
and a stale one arrive in each later test. The servers are a four-corner one, one whose
replies to CHANGE-IP come from an address it did not advertise, one without OTHER-ADDRESS,
one that drops CHANGE-REQUEST, one that ignores it, one that ignores it in Test 3 only, one
that honors the port flag only, one that changes its IP where only the port was asked for,
one that rejects it from the target or from afar, and the loopback responder of the tests. For `hairpin`, the deadlines of `ctx` end in the STUN
phase, while the nonce is waited for, and after the call; the timeout is twice the time per
probe, which is the case the 1.5 in the code's comment is about, with the least number of
ticks in which a deadline can be set, be undone and be seen to be. For `command`, two
entries are ports of one IPv4 address, so that two may answer and yet not show the mapping,
or show it to depend on the port; the dual-stack one gives either family a second IP. The
NATs are every pair of mappings, with public addresses, and the carrier's pools, shared
throughout or for one peer only, in IPv4 with an independent mapping in IPv6. A hairpin probe
may end in any phase.

`command` and `verdicts` check no deadlock: a command that ended does nothing more, and a
list that is full does not grow. That a command stops nowhere else is `Termination`.

**Fairness.** `FairSpec` of `MappingRun` assumes that a goroutine that can step does so (weak
fairness), that a waiter for the mutex gets it (strong fairness of the steps that
need `mu`: Go's `sync.Mutex` hands the lock over to a waiter of more than 1 ms), and
that the deadline of `ctx` comes (`runWith` always sets one). Nothing is assumed of
servers, network, retransmissions or arriving packets. A reader that pauses after an
error resumes; one that gets errors for ever still sees the close.

`FairSpec` of `Filtering` and of `Hairpin` assumes that each goroutine takes the steps that
wait for nothing and that time passes: the read deadline is then due, whatever the server
does and however many packets arrive. The code sets that deadline before every read. In
`Hairpin` the end of `ctx` comes when its time is up, but nobody need cancel. `FairSpec` of
`StunServer` is weak for both goroutines and strong for the reads that return: packets and
spurious errors may keep the loop busy, but a packet that stays in the socket is read one
day, and so is the past deadline. `FairSpec` of `Diagnosis` assumes that `runWith` goes on
and that each probe it called returns, which is what the other runs show of them.

**Patience.** `LossTolerated` needs a deadline longer than the schedule, so the `loss`
run takes `Patient`: the context does not end while a send, an answer or a delivery is
under way (`Quiet`). The default `--timeout` of 5 s is longer than the 3.5 s of the
schedule.

## Where documentation and code differ

- `docs/design.md` promises `cgnat_detected` and forecast `unknown` for a mapped IP in
  `100.64.0.0/10`. `applyCGNAT` looks at the first endpoint of a family only: a second
  server that saw the shared address leaves neither (`cgnat_documented`). The exit code
  is nonzero either way, by `PassIsWitnessed`.
- The comment above `decideForecast` gives `likely` for untested filtering, the code
  gives `possible`, and the comment inside it says why (`forecast_comment`).
  `UntestedIsNotStronger` holds of the code and would not hold of the comment.
- The help text says that filtering adds up to 1.5 s, the timeout that `runWith` passes.
  `ProbeFiltering` gives each of three tests half of it: up to 2.25 s (`filtering_timeout`:
  Test 1 is answered, Tests 2 and 3 wait).
  `Bounded` is what does hold.
- A test of the hairpin probe says that the end of `ctx` unblocks reads at once. The bridge
  sets the deadline in the past once; `realHairpinRecv` and `sendBindingAndWait` set a new
  one before each read, and a read that begins after the bridge fired blocks until that
  (`hairpin_prompt`). The call still returns, within `Bounded`.

Seen while modelling, plain from the code and left without a run:

- `filtering.go:109` says that only silence is a filtering result and that any other failure
  means a reply got through. Every read error of Test 2 or 3 counts as silence, and a failed
  write or `SetReadDeadline` as a server without CHANGE-REQUEST. `NeverMoreOpen` is what
  holds all the same.
- `hairpin.go:22` says that `false` means an elapsed window. `realHairpinRecv` returns it for
  a read error, and for a window that `ctx` cut short. `FullWindow` names these exceptions.
- `docs/design.md:402` promises `filtering_skipped_no_change_request` where no server
  advertises OTHER-ADDRESS. No test is run then, and the generic warning stays.
- `decideForecast` joins the mapping type of all families with filtering measured against one
  server, so that `likely` can be of an IPv6 mapping and an IPv4 filter, while
  `classify.go:193` says that each family observes its own NAT. `ClaimsHold` is stated of
  the two facts apart.
- `changeRequestIgnored` looks at a reply that came, and silence after Test 3 is taken for the
  NAT's. A server that changes its IP where only the port was asked for makes an
  address-dependent filter drop that reply and look stricter, address-and-port-dependent.
  `RightOrRefused` names this case; it errs on the side that `NeverMoreOpen` allows.

## Proofs

| Theorem | Module | Statement |
|---|---|---|
| `TypeCorrect` | `MappingRunProofs` | `Spec => []TypeOK` |
| `AttributionHolds` | `MappingRunProofs` | `Spec => []Attribution` |
| `ComparableHolds` | `MappingRunProofs` | `Spec => []Comparable` |
| `HolderHolds` | `MappingRunPromise` | `Spec => []HolderGoesOn` |
| `FirstUsableHolds` | `MappingRunPromise` | `Spec => []FirstUsableAddress` |
| `SocketServedHolds` | `MappingRunPromise` | `Spec => []SocketServed` |
| `PendingWasSentHolds` | `MappingRunPromise` | `Spec => []PendingWasSent` |
| `Refines` | `MappingRunPromise` | `Spec => KeepsPromise` |
| `ProbesAdvance` | `MappingRunPromise` | `Spec => [][\A s \in Servers : Advances(s)]_vars` |
| `LossToleratedHolds` | `MappingRunPromise` | `Spec => [](Patient /\ MaxLost <= Gaps => LossTolerated)` |
| `TypeCorrect` | `FilteringProofs` | `Spec => []TypeOK` |
| `NeverMoreOpenHolds` | `FilteringProofs` | `Spec => []NeverMoreOpen` |
| `ExactHolds` | `FilteringProofs` | `Spec => []Exact` |
| `RightOrRefusedHolds` | `FilteringProofs` | `Spec => []RightOrRefused` |
| `BoundedHolds` | `FilteringProofs` | `Spec => []Bounded` |
| `Refines` | `FilteringProofs` | `Spec => KeepsContract` |
| `TypeCorrect` | `HairpinProofs` | `Spec => []TypeOK` |
| `WitnessedHolds` | `HairpinProofs` | `Spec => []Witnessed` |
| `FullWindowHolds` | `HairpinProofs` | `Spec => []FullWindow` |
| `NoStragglersHolds` | `HairpinProofs` | `Spec => []NoStragglers` |
| `BoundedHolds` | `HairpinProofs` | `Spec => [](Timeout >= 2 => Bounded)` |
| `Refines` | `HairpinProofs` | `Spec => KeepsContract` |
| `AnswersHold` | `StunServerProofs` | `FairSpec => []AnswersRequests` |
| `ServesUntilToldHolds` | `StunServerProofs` | `FairSpec => []ServesUntilTold` |
| `PassIsWitnessedHolds` | `ClassifyProofs` | `Spec => []PassIsWitnessed` |
| `OrderIsIrrelevantHolds` | `ClassifyProofs` | `Spec => []OrderIsIrrelevant` |
| `UntestedHolds` | `ClassifyProofs` | `Spec => []UntestedIsNotStronger` |
| `FilteringIsStatedHolds` | `ClassifyProofs` | `Spec => []FilteringIsStated` |
| `ExitIsExplainedHolds` | `ClassifyProofs` | `Spec => []ExitIsExplained` |
| `FailureAddsNothingHolds` | `ClassifyProofs` | `Spec => FailureAddsNothing` |
| `PassMeansIndependentHolds` | `DiagnosisProofs` | `Spec => []PassMeansIndependent` |
| `NATsAreAsClaimed` | `DiagnosisProofs` | `Spec => []ClaimsHold` |
| `ExitMatchesHolds` | `DiagnosisProofs` | `Spec => []ExitMatchesReport` |
| `FormatsAgreeHolds` | `DiagnosisProofs` | `Spec => []FormatsAgree` |
| `NothingLeftHolds` | `DiagnosisProofs` | `Spec => []NothingLeftRunning` |

None uses fairness.

### MappingRun

The theorems are for every set of servers, addresses, families, resolver answers and foreign
packets, every NAT, every number of sends and losses.

**Assumptions**, all named in `MappingRun` and evaluated by TLC on every run: an address has
one family; resolution yields addresses of the model; servers answer with a success or an
error; the markers `None`, `"failed"`, `"free"` and `"close"` are no sockets, and `None` is
no address and no reply; the sends and the losses are counted in `Nat`; and
`NoiseAssumption`, the one of substance: a foreign packet does not both come from the target
of its transaction and decode.

**Argument.** None of the safety properties is inductive: a result says nothing of the
packet it came from. `Evidence` follows an answer through every place it can be: sent
from the socket of its family (`SharedSocket`, `GenuineWire`), held by a reader
(`GenuinePacket`, of packets that pass or may pass the checks of `deliver`), in the
channel (`GenuineReply`), in the result (`GenuineResult`). What keeps it true later is
that no step takes anything back: a bound family stays bound, a goroutine that sent
stays so, on the same socket. That is lemma `NextIsLater`, and a frame lemma for each
part of `Evidence` then leaves one or two parts to prove per action. `Comparable` follows
because `GenuineResult` speaks of `sockets[f]`, which is one socket for all.

`HolderGoesOn` is the absence of a deadlock on the mutex. `LockHeld` says who holds it: the
one reader that hands over, or `close` until its unlock, and nobody else. That the reader
finds room needs that a match removes the transaction from `pending` and that no one puts
it back (`MatchedOnce`): `InsertPending` is by a goroutine that has not sent, and by
`Evidence` such a goroutine has no packet and no reply. `Refines` uses `Evidence` for the
content of a result and `Reported` for when it appears: once per server, and before `close`.

`SocketServed` needs `Served`: what the table holds is open with a live reader for as long
as `ProbeAll` waits; a probe that has not ended keeps it waiting. `PendingWasSent` is
inductive as it stands, because a packet that went out never becomes unsent again
(`WireOverwrite`) and only the goroutine that inserted a transaction leaves its `write`.
`FirstUsableAddress` speaks of the end of a loop whose steps fail for two reasons: `Tried`
says that every address before the present one was of no use, and `BoundRight` that the
table of sockets is right about what can be bound. That a probe past `socket` has a family
that was bound is then `SharedSocket`, which is part of `Evidence`.

`LossTolerated` is an argument by counting, and the one theorem with a hypothesis on the
constants: `Patient`, and no more losses of a transaction than there are retransmissions,
which leaves one send that got through. `Followed` says where the transaction of a waiting
goroutine is: as many sends have left as `gap` counts; it is pending until a reader matches
it; once matched, the reply is in the channel or in that reader's hands; and once an answer
was read, while it is still pending, a reader is about to match it. At the deadline
(`AtDeadline`) the schedule is over and nothing is under way, so every send was lost or
stays unanswered; `LossBounded` leaves one that was not lost, and by `SocketServed` its
answer, had there been one, would have been read. So the target does not answer
(`SilentOnly`), now and at any later `GiveUp`.

`ProbesAdvance` is the part of `Termination` that is the program's own. `Remaining` counts the
addresses a goroutine has left, the steps left of the present one and the gaps left, and
every step of the goroutine makes it smaller (`AddrLeft`, `ProbeAdvances`). What is left to
fairness is that a step which is possible is taken, and that the deadline comes.

### Filtering

For every server, NAT, timeout and default. The assumptions are that a path is one (its
endpoints are endpoints, its NAT has one of the three behaviors), that `None` is no endpoint
and no result, that there is no NAT between a host and itself (`LoopbackAssumption`, which
the exception of `changeRequestIgnored` rests on), and that the default time per test is not
zero.

A result says nothing of the packets it came from, so that `NeverMoreOpen` is not inductive.
`Evidence` adds what arrived (`Filtered`: what the NAT lets in, and only that), what each
test read (`Heard`: its own server's answer, which the NAT let in), and what follows from the
tests (`Underway`, `Judged`: the result is `Judge` of the outcomes, or Test 1 failed). From
it `NeverMoreOpen` is a matter of sources: a reply to Test 2 that is not ignored comes from
another IP, which only an endpoint-independent filter lets in, or over loopback; one to Test
3 from another port. `ParseBuild` shows that the server sees the flags that were asked for,
and `Exact` then evaluates the NAT at the three sources. `RightOrRefused` is of servers that
do not honor them: where nothing disturbed a test, its reply arrived exactly if the NAT lets
the source of the reply in (`AnsweredOrFiltered`), so that `Judge` can err only in what it
takes that source for. `Budget` counts the time of the
tests so far and what is left of this one.

### Hairpin

For every timeout, cap, set of `ctx` deadlines, and NAT. `Evidence` says what each phase has
behind it (`Progress`: both probes done, the nonce sent) and that only what was sent arrives
and only a NAT that hairpins returns the nonce (`Arrivals`). `Budget` bounds what is spent
plus what is left of the window in each phase; its only hard step is `Tick`, where some
window that is not used up must shrink. The bound of 1.5 times the timeout is proved for a
timeout of at least 2: half of 1 is zero, and the code then gives each probe its cap of 500
ms (its units are nanoseconds). For `FullWindow`, `Waited` says that the time listened and
what is left of the window make up the timeout, unless `ctx` ends no later than the window,
and that no deadline is cut before `ctx` is done.

### StunServer

For every set of peers and packets: what is read has arrived, and what is written answers it.
`ServesUntilTold` is what the liveness properties rest on and needs no fairness: until `ctx`
is done or the socket closed, the loop has not returned and its socket can be read. It holds
because the read deadline is in the past only once `ctx` is done (`Alive`).

### Classify

For any number of results, any endpoints and targets, and anything the filtering probe
found; `PassIsWitnessed` is an equivalence, so that exit code 0 is neither given without the
evidence nor withheld where the evidence is there. The assumptions are that shared and IPv4
endpoints are endpoints and that `None` is neither endpoint nor target. The lemmas of
`VerdictProofs` take the fold apart. If the verdict passes, one family is confident of `EIM`
and no other of anything else (`Combined`); a group of that type has two targets
(`Distinct`), and its endpoints agree (`GroupAgrees`). Because they agree, the first
endpoint of a family, the only one that `applyCGNAT` looks at, stands for all
(`AgreementShowsCGNAT`): that is why code 0 excludes a carrier's NAT although
`cgnat_detected` may be missing. In the other direction, two targets are enough for a group
to be told (`DistinctSuffice`), a group that agrees is `EIM` (`AgreementIsEIM`), and groups
that do not contradict each other combine to a pass (`EvidencePasses`). `OrderIsIrrelevant`
is of every permutation, and a relabelling: it carries each group to a group of the same
type (`GroupMoves`, `SameGroupType`), and the first endpoint matters only where the group
agrees; the inverse of a permutation (`OrderHasInverse`) gives the other half of each
equality. `FailureAddsNothing` compares the groups before and after a server is added. The specification is that of `ClassifyCases`, without the bound on its
length.

### Diagnosis

For any finite set of servers, any addresses and NATs, and whatever the three probes do
within their contracts. `AddressAssumption` says that an IP has one family. `SeeAssumption` is
what a NAT is: it keeps the family, and shows two peers the same mapping of one socket exactly
if it does not look at what they differ in (`SameMapping`). It leaves out a NAT that looks at
the peer and picks the same endpoint by coincidence, of which no probe can know. Nothing is
assumed of which addresses are shared. `MarkerAssumption` keeps `None` apart from values.

`IndInv` says what the probes have found (`Probed`, `Answered`), what has been started and
has ended in each phase (`Ordered`), and that the report and the code are of one verdict
(`Ended`). `NothingLeftRunning`, `ExitMatchesReport` and `FormatsAgree` follow from the last
two and from what `Render` tells. For `PassMeansIndependent` and `ClaimsHold`, the groups
of `Classify` are families (`GroupsAreFamilies`), and two servers of a group that differ in
the target IP or in the endpoint they saw show what the NAT does (`GroupTells`); where a
family is told, it is by such a pair (`ToldByGroup`). The evidence of a verdict, from the
lemmas about `Classify`, is thereby evidence about a NAT. Both are exact: what the probes can
tell of the NATs (`Told`) decides the type and the exit code in either direction
(`TypesAreTheNATs`, `PassTells`, `PassIsTold`).

### What is only model-checked

Every safety property of the passing runs, and each of the three refinements, is proved.
What TLC alone shows is liveness: `Termination` of the mapping run (but for
`ProbesAdvance`), the filtering probe and the command, `Returns` of the hairpin probe,
`KeepsServing` and `Stops` of the responder; and that the models of the probes and the
mapping run do not deadlock, which is about `ENABLED`.

## Plan

Done: the three probes with their contracts, the responder, classification, report and
command, and the theorems above. Left: the responder at the other end of `Filtering`, as
one of its paths.

## Not modelled

- The entry point passes its arguments on; scripts, examples, docs and the site are not the
  program. What `ci-guard.sh` reads is the subject of `ExitMatchesReport`.
- The syntax of flags and `host:port`, the usage text and the verbose log: of `parseFlags`
  what it accepts is an input.
- Layout and wording of the reports, round-trip times, and the order of warnings, which golden
  files pin.
- Bytes of STUN messages, but for CHANGE-REQUEST: a message decodes or does not, and the
  decoder is a library.
- NAT64: an IPv6 socket that sees an IPv4 mapped endpoint is grouped with IPv4. The NATs of
  the models keep the family, and no document promises anything of it.

## Running

    tlc -config MCMappingRun_faults.cfg MCMappingRun.tla
    tlapm MappingRunProofs.tla

A run takes up to two minutes on two cores, a module of proofs less than one.
