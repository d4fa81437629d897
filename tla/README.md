# A TLA+ verification of aimee-module-sandbox

The repository holds one module process of the aimee daemon (Go), the bus library it is
served through (Go) and two adapters that live in the daemon (C). This directory models
the parts that carry state and concurrency, checks them with TLC on small instances, and
proves the safety properties of the runtime, the caller together with the runtime, the ring, the
store, the attach life cycle, the proxy transport, the proxy policy and the apt parser with TLAPS for every instance.
Paths below are relative to the repository root.

## The system and its parts

| Component | State it keeps | Operations | Model |
|---|---|---|---|
| Module runtime (`server-go/bus/module_runtime.go`) | assembly table, job table, channel `done`, one goroutine and cancel flag per job | `RunModuleProcess` (validate, connect), the loop of `runModuleClient`, `runHandler`, `replyModuleResult` | `ModuleRuntime`, the first part in `BusAttach` |
| Module caller (`server-go/bus/module_caller.go`) | correlation counter, the call under way | `Call`, `send`, `awaitReply` | `BusCall` |
| Shared-memory ring (`server-go/bus/ring.go`) | head and tail words, slots | produce and consume, begin and commit | `SpscRing` |
| Bus client (`server-go/bus/client.go`) | rings, `pendingRead`, attached epoch | `emit`, `Poll`, `AttachAs`, `Detach` | `emit` and `Poll` in `SpscRing`, their errors in `ModuleRuntime` and `BusCall`; the rest in `BusAttach` |
| Regions, connect, keep-alive (`region.go`, `client_connect.go`) | mapped control page, heartbeat goroutine | validate, connect with retry, heartbeat | `BusAttach` |
| Wire frame and message envelope (`wire.go`, `module_protocol.go`) | none | validate, encode, decode | the rules the runtime depends on, in `ModuleRuntime` |
| Learned-toolchain store (`server-go/modules/sandbox/sandbox.go`) | the JSON sidecar, a mutex | `Load`, `Record` | `LearnedStore`, `LearnedSet` |
| Stage handlers (`server-go/modules/sandbox/module.go`) | none | observe, load, two proxy policies | `LearnedStore` (observe, load), `SandboxStages` (dispatch, proxy stages) |
| apt command parser (`sandbox.go`) | none | `ParseApt` | `AptParser` |
| Proxy policy (`proxy_policy.go`) | none | classify, allowlist, address ranges, head rewriting | `ProxyPolicy`; how the transport uses its answers in `PkgProxy` |
| Package proxy transport (`src/modules/sandbox/sandbox_pkg_proxy.c`) | one connection, its upstream, byte counters | `sandbox_pkg_proxy_serve`, dial, pump | `PkgProxy` |
| Learned adapter (`sandbox_learned.c`), entry point (`runtime/main.go`) | none | marshal two calls; wire a configuration | not modelled |

How they interact: a caller in the daemon puts request fragments on its ring; the host
(not in this repository) carries them to the ring of the module; the loop of the runtime
assembles them and starts a goroutine per request; the goroutine runs a stage handler,
which may use the store, and sends its result through `done`; the loop answers with reply
fragments, which the host carries back. The proxy transport is such a caller: it asks two
stages before it dials and pumps.

What is hard here, and was the reason for each property:

- handlers finish in any order while duplicates, cancels and fragments of other requests
  arrive, and both tables have a limit;
- the outbound ring fills up in the middle of a reply, while ctx, the epoch and the
  heartbeat still have to be served;
- a caller gives up (deadline, ctx, full ring) at any point and makes its next call while
  the answer to the last one is on its way;
- two handlers are in the store at once, any file operation fails, the process dies
  between any two of them;
- the index words of a ring wrap, and a view into a slot is held between two polls;
- joining the bus takes a dozen system calls, any of which fails, against a host that may be gone,
  stale, silent or laid out differently; and a goroutine started then outlives the client;
- a parser and a header filter must give the same result whatever comes in whatever order;
- a tunnel has two peers that send, stall, half-close and close independently.

`PROJECT.json` lists the main ones as hazards, each at the line where it bites.

## The modules and the code

**ModuleRuntime.** `pc` is the place of the loop: `drain` (the inner receive loop), `check`
(ctx and epoch), `poll`, `reply` and `wait` (the two halves of the retry loop of
`replyModuleResult`), `drainJobs` (shutdown), `stopped`. `assemblies` and `jobs` are the two
maps, `done` the channel, `work` the `moduleWork` objects with the phase of their goroutine
(running, about to send, sent). A step of the loop ends where the loop next reads what
another thread writes, so a whole dispatch is one action, as the tables are the loop's own.
The inbound ring may offer any frame of `Inbound` at every poll, so nothing depends on what
the host delivers. Handlers return anything of `HandlerResults`, an unknown status included.
`TraceID` is compared and echoed like the deadline and is left out; the reading of the clock
is taken to succeed; a frame with the header always fits a slot.

**BusCall** extends `ModuleRuntime` with one caller making calls 1, 2, ... over finite queues
(`toModule`, `toCaller`). `send` puts one fragment per step and returns on the first error;
`awaitReply` is one action per outcome of its loop; `CancelCall` is the best-effort cancel.
The handler echoes what it was handed (`handed`), so that the answer of a call can be compared
with its request. The host carries frames in order and loses none (external); it may answer
with a control frame. Frames that are no result are not produced by this runtime and so their
skipping is left out.

**SpscRing / BoundedFifo.** `head` and `tail` wrap at `W`; filling a slot takes three steps,
during which it holds `Torn`; `Poll` releases the last view, begins, decodes. It is shown to
implement `BoundedFifo`, a bounded queue. The memory is sequentially consistent: the code
uses Go's atomics for both words. `Init` attaches to a ring at any indices `AttachRing` accepts.

**LearnedStore / LearnedSet.** One goroutine per request (`pc[t]`), the mutex `mu`, the sidecar
`file` and the temporary files `temps`; the steps of `Record` are its file operations, each of
which may fail. `Crash` ends the process anywhere; only the files survive. What `read` makes of
a file (missing, oversized, unreadable, garbage, `null`) is `ReadOutcomes`. The size of the document
is counted in names. It is shown to implement `LearnedSet`: one write adds valid names to one
project, or starts over with one project. A power loss that keeps a rename and loses the data
written before it (the code does not sync) is not modelled.

**PkgProxy.** One call of `serve`: the request policy, the dial over the candidates with an
address-policy call each, the greeting, the pump. `got` keeps everything a peer was handed;
its `Payload` is what remains behind the one thing `serve` itself may have said to the client.
Asking about an address is one step whose answer is one of `AddressAnswers`: whether the address
could be written out, the payload allocated and a reply got, and what the reply has under `blocked` (true, false, or no boolean).
`proxy_address_blocked` decides on it, and `cleared` holds the address the last answer let through. All checks
of a request-policy reply that fail are one answer; time runs while the pump does.

**BusAttach.** One process, a module (`RunModuleProcess`, `connectModule`) or a caller (`ConnectClient`
with the goroutine of `keepAlive`), from its configuration to `Detach`. `sock`, `fds` and `mapped`
are what it holds; `pc` names the next system call. A region that cannot be mapped is cleaned up by the branch of
`AttachAs` for that region (`Unmaps`). The host is a record of what it wrote into the
reply and the regions; the checks of `AttachControl`, `AttachQueuePair` and `AttachRing` are arithmetic
on it, with the mapped length from `qpairBytes`; `HostLayout` is the shape of such a record. The loop of the runtime, which has its own module,
is one step here: ctx, epoch, heartbeat, `Poll`. Time is counted while somebody is attached: a goroutine
that is due runs within `Delay`, the host reaps after `Stale`, and `TimingAssumption` says that an interval
and a delay fit in it (the code: "well inside the host's 30s stale window"). `CLOCK_MONOTONIC` is taken
to work. An ended `ctx` and a due ticker are both ready in the select of `keepAlive`, and either may be taken.

**AptParser.** `ParseApt` as a machine that reads the words of a command one by one; `mode` is the place
in its two nested loops. What a word looks like (a flag, an assignment, a path, which package name it
carries) is given by constants. The reference `Reference` looks at the whole command instead: segments
between operators, their command word, its arguments without options and their values.

**ProxyPolicy.** A request line is its method, the form of its target, host, port and version;
`classifyProxyRequestLine` and `handleProxyRequest` decide on it. A host is its labels, in lower case, and whether it
was written in brackets, which `copyProxyHost` takes off. Host names are ASCII (the copy rune by rune of other text is not
modelled) and shorter than 256 bytes; an allowlist entry `*.` with nothing behind it is skipped. Header lines come one by one into
`headers` and `nominated`, and `Forwarded` is the second loop of `rewriteProxyHead`. An address is its 4
or 16 bytes, and the ranges of `ipv4Blocked` are compared byte by byte under their masks.

**SandboxStages** composes the two under the stage `NewHandler` dispatches on.

MC modules give the constants their values: `MCModuleRuntime`, `MCBusCall`, `MCSpscRing`,
`MCLearnedStore`, `MCPkgProxy`, `MCBusAttach`, `MCSandboxStages`. A definition commented `Mutant:` is a plausible mistake in the
definition below it; replacing that definition by it violates the property PROJECT.json names.

## The runs

| Run | What it shows | Bounds |
|---|---|---|
| `runtime_limits` | Tables bounded and disjoint; table, works and channel match; room in `done`; fragments of a reply adjacent; only ctx and the epoch end the loop; the orderly shutdown waits for all | 3 correlations for 2 places, 3 work objects, ring of 1, bodies up to 2 chunks and a limit they exceed; every kind of refused frame |
| `runtime_live` | Accepted requests are answered, a stop is obeyed, the heartbeat advances also while a full ring holds up a reply | 2 correlations for 1 place, a deadline the clock passes |
| `bus_call` | A successful call returns the answer to its own whole request, also right behind a call that was given up and whose answer is still on its way; every call returns; requests sent whole leave nothing in the module's tables if the host keeps making room | 2 calls of 2 fragments, the first with a deadline; 1 place, which an abandoned request keeps; rings of 2, 1 and 1, so that an answer never fits at once and a request only into an empty ring; clock from 1 to 3 |
| `ring` | First-in first-out across the wrap, indices never overtake, the handed-out view is not overwritten, every frame is eventually taken | 2 slots, wrap at 8, attached anywhere |
| `store` | What was reported as recorded is in the file and returned by `Load`, through concurrent handlers, failures and crashes; a write appends new valid names, within the limit, to one project and leaves the others alone; a temporary file stays behind only through a crash or a failing call; refinement of `LearnedSet`; every request is answered, so no path keeps the mutex | 2 handlers, 2 projects, 2 valid names and 1 invalid, `LearnMax` 2, five requests, one of which brings an invalid name before a valid one, four initial files |
| `proxy` | Nothing is dialled that the policy did not clear, whatever becomes of the question (an unknown family, no payload, no reply, an answer other than `false`); bytes pass in order and complete; end of stream only after the data; the cap; nothing leaks; `serve` returns if the client reads | 2 addresses, 2 candidates, 2 units each way, buffer and sockets of 2, cap 1 |
| `attach` | However attach ends, nothing stays open or half mapped; a rightly laid out host is accepted and an accepted ring lies inside the mapping; nobody but `keepAlive` touches an unmapped page; an attached client keeps its slot while ctx lasts; connecting ends | 13 hosts (two good geometries, one for each check), 3 configurations, interval 3, delay 2, stale after 6 |
| `stages` | `ParseApt` finds what a command asks for, and never a word that no apt and install in the same command stand before; a forwarded head is exactly its end-to-end fields; the address policy blocks exactly the documented spans in every encoding | all commands of up to 6 words over 9 words, all heads of up to 4 lines over 8 lines and 16 request lines, 9,180 IPv4 addresses at the boundaries in 5 spellings |

Two properties name the cases the code does otherwise, so that anything beyond them is a violation:

- `OnlyKeepAliveOutlives`: `keepAlive` is not told of `Detach`. If a caller detaches while its ctx lasts
  (or the ticker is taken in the round in which ctx ends), the next heartbeat is written to the
  unmapped page. A caller that ends ctx first and waits an interval is safe.
- `FindsWhatIsAsked`: after a subcommand other than `install` the parser goes on inside the same command, so
  in `apt remove apt install foo` the second `apt` counts as a command word (`Resumes`). It also excepts a
  command with more than one flag behind `sudo` (`SecondSudoFlag`): the reference skips all of them, as the comment in the code
  says, and the code skips one. That second case is a disagreement of its own, shown by `stages_sudo`.

Four runs show a disagreement between the code and what the repository says of it, each
described under "findings" in `PROJECT.json`:

- `bus_partial`: a full ring in the middle of a request ends `Call` without retry or cancel, and the
  beginning of the request stays in the module's assembly table;
- `store_null`: a sidecar holding `null` makes `Record` assign to a nil map and panic;
- `store_oversize`: `Record` lets the store grow past the size at which it is read as empty, and the
  next write drops every other project. A `Stat` or `ReadFile` that fails for a moment has the same effect;
- `stages_sudo`: of `sudo`'s own flags only the first is skipped, so `sudo -y -y apt install foo` teaches nothing.

One disagreement needs no run: the four refusals of the proxy transport pass the hand-counted length 46 for literals of
47 bytes (`HeadBytes`; lines 276, 283, 291 and 303 of `sandbox_pkg_proxy.c`), so their last line feed is never written, which is what the comment at
lines 310-312 there warns of.

Why the bounds are enough: every limit of the code (places of the tables, slots, body limit,
`LearnMax`, byte cap) is set so that the instance reaches it and goes one beyond, with at least two
competitors for it; sizes above that repeat the same comparisons. The clock passes every deadline and has
an instant before it. In `bus_call` it starts at 1 and the deadline is one tick ahead, so a call begun in time can be
served as well as expire; a deadline past the last instant but one counts as that instant (`Until`). The run
reaches a first call that is given up followed by a second that succeeds, the late answer of the first arriving while the second is served, and a second
that meets the full table. Symmetry is used in
`runtime_limits` only, which checks no liveness.

## Fairness

- `ModuleRuntime`: weak fairness of the loop and of each handler goroutine (Go schedules them, and
  handlers terminate); strong fairness of the ctx case of the retry select, because Go picks at random
  among ready cases. Nothing is assumed of the host; `JobIsAnswered` has as its premise that the
  ring has room again and again.
- `BusCall`: the same, the caller keeps polling, the host keeps carrying replies and time passes.
  Control frames, ctx and epoch changes need never happen. `NothingLeftBehind` has the premise of
  `JobIsAnswered`: a caller empties its ring in `awaitReply` only, so one that gave up and makes no
  further call leaves it full, and the runtime then waits in the retry of the rest of its answer. Whether
  the host drops such frames is not in this repository.
- `SpscRing`: the consumer keeps polling, as the loops at both ends do while they run.
- `LearnedStore`: each goroutine runs; strong fairness of acquiring the mutex, as `sync.Mutex` hands over
  to a starving waiter.
- `BusAttach`: the process takes its next step; the host need not answer, ctx need not end, the caller need
  not detach. `ConnectReturns` therefore excepts a process that waits in `Recvmsg` for ever.
- `PkgProxy`: the worker runs and time passes. `poll` need not fail, and the peers owe nothing;
  `ServeReturns` has as its premise a client that reads or closes, because `client_fd` has no send
  timeout in this code.

## What is proved

Seven components and the composition of two of them have proofs, each in a module of its own and for every value of the constants. Each rests on one
inductive invariant `Inv`; one lemma per part of it shows that a step keeps the part, with a case for
every action that touches it, and the theorems follow from `Inv`. The only assumptions are the named
ones of the component's module, and TLC evaluates them in the runs.

**ModuleRuntimeProof** (`RuntimeAssumption`: finite sets, positive limits, at least as many work
addresses as places, frames and results of the right shape): `TypeOK`, `JobsAreTheWork`,
`AssemblingXorRunning`, `OnlyCtxOrEpochStops`, `DoneHasRoom`, `DrainLeavesNoHandler` and
`FragmentsContiguous`. `JobsAreTheWork` (each work in use is the job of its own correlation, the channel
holds each finished one once) is inductive only with the types and with the fact that a work in use has a
correlation; `OnlyCtxOrEpochStops` needs that every reply under way encodes (`Encodes`: stage and
correlation are not 0), because that is the one other error the reply path could return; the shutdown
needs the relation between `pc`, `exit` and the job table (`ExitShape`). `DoneHasRoom` follows
by counting: the works on the channel and the one about to send have different correlations, all
of them keys of the job table, which has at most `moduleMaxInFlight`; the map from positions
to correlations is an injection, so the channel is not full. `FragmentsContiguous` is inductive beside `Inv`:
while the last fragment emitted has successors, the loop is still in `replyModuleResult`, so nothing
else can be emitted between them.

**BusCallProof** (`CallAssumption`: the calls are numbered, their kind has a stage, bodies keep to the limit, the rings have
room for a frame): `OkIsWhole`, and that the runtime keeps `JobsAreTheWork`, `AssemblingXorRunning` and `OnlyCtxOrEpochStops`
whatever the caller sends and abandons (`CallersDoNotHarm`). The
steps of the composition are steps of the runtime with the frame fixed, so the lemmas of `ModuleRuntimeProof`, which are
stated for a handler that may return anything and a ring that may offer any frame (`AnyNext`), serve here as they are. Its invariant
`CallInv` follows two streams of fragments: `Requests`, what is on its way to the module and the
fragment the caller sends next, and `Replies`, what is on its way back and the fragment the runtime writes next.
Every fragment has a place in the body of its call; neighbours fit (`SentAfter`, `EchoAfter`), and the first fits what the
receiver has. For the runtime (`Reached`) that is the assembly up to exactly there, or nothing at the start, or
a request it can no longer accept: it is refused because the table is full of requests given up midway, whose places do not become free as
nobody cancels them. For the caller (`Aligned`) it is the body read so far, if the fragment belongs to the
call under way. A work echoes a request that was sent whole (`WorkEchoes`), and a call has at most one answer: none
is on its way while the request is (`New`, `Unanswered`). After a restart of the host nothing is claimed about replies, as no call
can then succeed.

**SpscRingProof** (`RingAssumption`: at least two slots, the words wrap at a multiple of their number):
`TypeOK`, `NeverOvertakes`, `ViewIsStable`, and `RingIsFifo`, that the ring implements the safety part of
`BoundedFifo`. `Inv` adds that every slot between the indices holds a whole frame (`QueuedWhole`) and that
the slot a producer or consumer is at is its own (`EndsHaveTheirSlot`). Three facts about wrapping words carry it: taking a word modulo the number of
slots is not disturbed by the wrap (`WrapKeepsSlot`), the distance of head and tail grows and shrinks by one
(`Distance`), and words less than the number of slots apart name different slots (`SlotsDistinct`).
That is where the multiple is needed: with any other wrap the slot of the word after the last
would be wrong.

**LearnedStoreProof** (`StoreAssumption`): `TypeOK`, `ReportedIsPersisted`, `LoadReturnsReported`, `GrowsSoundly`,
`OnlyFailureLeavesTemps`, and `RefinesLearnedSet`. `Inv` adds that at most one goroutine is inside the mutex
(`OneInside`), that a goroutine between creating and renaming has a temporary file of its own, complete from `Close` on
(`OwnTemp`), and the central fact `CopyGrown`: what the holder is about to write is the
file as it is now with its own names merged, since nobody wrote in between. It is
this fact that gives `GrowsSoundly`: a write appends to one project's list names that are valid, new and
within the limit, and leaves every other list as it was, or does so from nothing if the read before it failed. And it is
this fact that a store without the mutex, or one that read before locking, would lose.

**BusAttachProof** (`TimingAssumption`: an interval and a delay fit in the stale window; `HostAssumption`: the
shape of what a host can write): `TypeOK` (proved only, no run repeats it), `NothingHeld`, `OnlyKeepAliveOutlives`, `ReapedOnlyAfterCtx` and
`LayoutsAgree`. `Inv` says for every `pc` what is mapped (`MappedByPc`), that only a connected
caller has a keep-alive (`KeepAliveOwner`), how old the heartbeat can be at each place of the goroutine (`HeartbeatAge`),
that the slot is held while it is young (`SlotHeld`), and that an attached process has been through the checks
of the regions (`Checked`).

**PkgProxyProof** (`ProxyAssumption`): `TypeOK`, `FailsClosed`, `PassesInOrder`, `EofAfterData`, `CapHolds` and
`NothingLeaks`. The part that does the work is `InOrder`: every unit of a stream is in one place, already
handed to the other peer, in the hand of the pump, or still in the socket, and these three in this order
are the stream. `Accounts` ties the byte counters to it, `GreetedFirst` says that the pump starts
behind the greeting, `RequestShape` what has been asked of the policy at each place.

**SandboxStagesProof** and **ProxyAddressProof** (`PolicyAssumption`: hosts are sequences of labels, addresses of 4 or 16
bytes; `ParserAssumption`: operators do not start with `-`, options with a value do): `LearnsOnlyInstalls` for every command,
`ForwardsEndToEnd` for heads of any length, and `BlocksTheSpans` for every address, where the run
looks at the boundaries. For the parser, `ModeKnows` says what each place in the loops implies about the words already read: which apt
and which install stand before, that no operator came since, and whether the next word is a value (options with a value and their
values take turns, `ValueTaken`, `ValueWanted`). `HeadRead` says that the lines kept are well formed, that `nominated` is
what they nominate, and that they are the lines before the empty one unless the head was refused; the first loop is then done and the
second sees every nomination. For an IPv4 address, masks and spans are both reduced to one
condition on the bytes (`Covered`). For IPv6 the lexicographic order is taken apart: an address between two bounds with a common
prefix has that prefix (`Sandwich`), then only the rest counts (`Shift`), and bytes filled up with 0 and 255
are free (`FillLow`, `FillHigh`); so each encoding comes down to the four bytes of its IPv4 address.

## What is only model-checked

- Liveness and the fairness part of `RefinesBoundedFifo`: `JobIsAnswered`, `StopsWhenTold`, `HeartbeatKeepsUp`,
  `CallReturns`, `NothingLeftBehind`, `EveryRequestReturns`, `ServeReturns`, `ConnectReturns`. The prover has
  no reasoning about `ENABLED`.
- `FindsWhatIsAsked`: the reference and the machine are both defined along the command, and that they
  agree on every command is an induction over it. Proved is the half that matters for what is learned,
  `LearnsOnlyInstalls`; that nothing asked for is missed stays with TLC.

## What is not modelled

- The host (another repository): how it pairs rings, keeps clients apart and restarts. It appears as
  environment actions marked external. In particular the case of two callers whose fragments meet
  a full assembly table depends on how the host separates their correlations.
- `tokenize`, `packageValid`, `isEnvAssign` and the scanning of request lines and header names: tests of
  characters, abstracted to what they find.
- The encodings of the wire frame and the message envelope: fields at fixed offsets; `CheckPlacement` has no
  caller. JSON and log texts.
- Two module processes on one sidecar: whether they overlap is decided by the supervisor, which is elsewhere.
- What the host alone decides: an inline budget that leaves no room for the frame header (`AttachControl`
  compares it with the slot size only), and a payload reference near 2^64 (`Poll` adds without the
  overflow test of `CheckPlacement`).
- `sandbox_learned.c` and `runtime/main.go` keep no state.
- `runtime/main.go` refers to `handler.Handle`, while the handler package offers `NewHandler`; the
  model starts at `RunModuleProcess` and is not affected.

## Plan

1. Done: all models, and the proofs of `ModuleRuntime`, `BusCall`, `SpscRing`, `LearnedStore`, `BusAttach`, `PkgProxy`,
   `ProxyPolicy` and `AptParser`.
2. Left: that `ParseApt` misses nothing it is asked for, which stays with TLC as the prover has no induction over
   the command.
