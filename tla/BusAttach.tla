------------------------------ MODULE BusAttach ------------------------------
(***************************************************************************)
(* Joining and leaving a daemon's bus (server-go/bus): connectModule and   *)
(* RunModuleProcess for a serving module, ConnectClient and keepAlive for  *)
(* a caller, and under both AttachAs and Detach of client.go with the      *)
(* region checks of region.go and ring.go.                                 *)
(*                                                                         *)
(* The host is external: it listens or not, answers the attach request or  *)
(* not, lays out the three regions and reaps a slot whose heartbeat stays  *)
(* the same for too long.  Sizes are bytes; the words a region starts with *)
(* (magic, versions) are right or wrong.                                   *)
(***************************************************************************)
EXTENDS Integers, FiniteSets, Sequences

CONSTANTS
  Hosts,     \* what hosts may write into the reply and the regions
  Configs,   \* the configurations a process may be started with
  Interval,  \* clientHeartbeatInterval
  Delay,     \* how late a goroutine may be scheduled
  Stale      \* how long the host waits before it reaps a slot (external)

\* "Well inside the host's 30s stale window".
ASSUME TimingAssumption ==
  /\ Interval \in Nat \ {0} /\ Delay \in Nat /\ Stale \in Nat
  /\ Interval + Delay <= Stale

\* The header of a ring and what a host writes; words of a fixed value are right or wrong.
RingHeader == [magicOK: BOOLEAN, slot: Nat, cap: Nat, mask: Nat, slotsOff: Nat,
               head: Nat, tail: Nat]
HostLayout == [ctlOK: BOOLEAN, ctlSlot: Nat, inline: Nat, arena: Nat, slot: Nat, cap: Nat,
               qpOK: BOOLEAN, inOff: Nat, outOff: Nat, inbound: RingHeader,
               outbound: RingHeader]

ASSUME HostAssumption == \A h \in Hosts : h \in HostLayout

Region == {"control", "arena", "qp"}
Errors == {"none", "nil", "config", "os", "ctx", "protocol", "denied", "region"}
Labels == {"start", "socket", "connect", "wait", "send", "recv", "map", "check",
           "attached", "leave", "detached", "returned"}

VARIABLES
  kind,      \* "module": RunModuleProcess, "caller": ConnectClient
  config,    \* its configuration
  host,      \* the layout the host uses
  listener,  \* the socket path: "missing", "stale" (nobody listens) or "listening"
  epoch,     \* the epoch differs from attachedEpoch
  ctxDone,
  pc,
  sock,      \* the socket is open
  fds,       \* received descriptors that are open
  mapped,    \* regions that are mapped
  err,       \* what the call returned
  keep,      \* the goroutine of keepAlive
  since,     \* time since the last tick of its ticker
  age,       \* time since the host saw the heartbeat advance
  admitted,  \* the host has a slot for this client
  bad        \* history: who touched a region that was not mapped

envVars  == <<config, kind, host, listener, epoch, ctxDone>>
heldVars == <<sock, fds, mapped>>
timeVars == <<keep, since, age, admitted, bad>>
vars == <<envVars, pc, heldVars, err, timeVars>>

Init ==
  /\ kind \in {"module", "caller"} /\ config \in Configs /\ host \in Hosts
  /\ listener \in {"missing", "stale", "listening"}
  /\ epoch = FALSE /\ ctxDone = FALSE
  /\ pc = "start" /\ err = "none"
  /\ sock = FALSE /\ fds = {} /\ mapped = {}
  /\ keep = "off" /\ since = 0 /\ age = 0 /\ admitted = FALSE /\ bad = {}

(***************************************************************************)
(* Layout of the regions.                                                  *)
(***************************************************************************)
ringHdrBytes == 192
qpBytes == 96
Word == 2^16    \* stands for the 2^64 at which ring indices wrap

\* The powers of two from 2 on, capv&(capv-1) being 0, up to TLC's largest integer.
Capacities == {2^k : k \in 1..30}

RingBytes(slot, cap) == ringHdrBytes + slot * cap

align64(n) == ((n + 63) \div 64) * 64

\* Mutant: the second ring follows the first without alignment.
qpairBytesPacked(slot, cap) == align64(qpBytes) + RingBytes(slot, cap) + RingBytes(slot, cap)

qpairBytes(slot, cap) ==
  align64(align64(qpBytes) + RingBytes(slot, cap)) + RingBytes(slot, cap)

\* The slot size is in the control region (ctlSlot) and in the reply (slot).
AttachControl(h) == h.ctlOK /\ h.ctlSlot # 0 /\ h.inline <= h.ctlSlot /\ h.arena # 0

\* r is the ring's header, len the number of bytes mapped from it on.
AttachRing(r, len) ==
  /\ len >= ringHdrBytes /\ r.magicOK
  /\ r.cap >= 2 /\ r.cap \in Capacities
  /\ r.slot # 0 /\ r.mask = r.cap - 1 /\ r.slotsOff = ringHdrBytes
  /\ len >= r.slotsOff + r.slot * r.cap
  /\ (r.head - r.tail) % Word <= r.cap

AttachQueuePair(h) ==
  LET len == qpairBytes(h.slot, h.cap) IN
  /\ len >= qpBytes /\ h.qpOK
  /\ h.inOff < len /\ h.outOff < len /\ h.inOff # h.outOff
  /\ AttachRing(h.inbound, len - h.inOff)
  /\ AttachRing(h.outbound, len - h.outOff)

(***************************************************************************)
(* Connecting.                                                             *)
(***************************************************************************)
\* Every kind has one stage and neither is 0.
StagesValid(stages) ==
  /\ stages # <<>>
  /\ \A i \in DOMAIN stages : stages[i].kind # 0 /\ stages[i].stage # 0
  /\ \A i, j \in DOMAIN stages : stages[i].kind = stages[j].kind => i = j

ConfigValid ==
  /\ config.socketPath
  /\ kind = "module" => config.identity /\ StagesValid(config.stages)

\* RunModuleProcess hides whatever error came with the end of ctx.
Returned(e) == IF kind = "module" /\ ctxDone THEN "nil" ELSE e

Return(e) == pc' = "returned" /\ err' = e

Validate ==
  /\ pc = "start"
  /\ IF ConfigValid THEN pc' = "socket" /\ UNCHANGED err ELSE Return("config")
  /\ UNCHANGED <<envVars, heldVars, timeVars>>

Socket ==
  /\ pc = "socket"
  /\ \/ sock' = TRUE /\ pc' = "connect" /\ UNCHANGED err
     \/ Return(Returned("os")) /\ UNCHANGED sock
  /\ UNCHANGED <<envVars, fds, mapped, timeVars>>

Connect ==
  /\ pc = "connect" /\ listener = "listening"
  /\ pc' = "send"
  /\ UNCHANGED <<envVars, heldVars, err, timeVars>>

\* Mutant: a plain sleep in place of the select.
RefusedSleeps ==
  /\ pc = "connect" /\ listener = "stale"
  /\ sock' = FALSE /\ pc' = "socket"
  /\ UNCHANGED <<envVars, fds, mapped, err, timeVars>>

\* ECONNREFUSED: the select looks at ctx before the timer can have fired.
Refused ==
  /\ pc = "connect" /\ listener = "stale"
  /\ sock' = FALSE
  /\ IF ctxDone THEN Return(Returned("ctx")) ELSE pc' = "wait" /\ UNCHANGED err
  /\ UNCHANGED <<envVars, fds, mapped, timeVars>>

\* Any other error of connect.
ConnectFails ==
  /\ pc = "connect" /\ listener # "stale"
  /\ sock' = FALSE
  /\ Return(Returned("os"))
  /\ UNCHANGED <<envVars, fds, mapped, timeVars>>

Wait ==
  /\ pc = "wait"
  /\ \/ pc' = "socket" /\ UNCHANGED err
     \/ ctxDone /\ Return(Returned("ctx"))
  /\ UNCHANGED <<envVars, heldVars, timeVars>>

(***************************************************************************)
(* AttachAs; its caller closes the socket when it returns.                 *)
(***************************************************************************)
\* Mutant: the goroutine is started whatever AttachAs returned.
KeepAliveAlways(e) == kind = "caller"

\* Mutant: a caller heartbeats only when it calls.
KeepAliveNever(e) == FALSE

StartsKeepAlive(e) == kind = "caller" /\ e = "nil"

\* AttachAs returns, and connectModule or ConnectClient after it.
AttachReturns(e) ==
  /\ sock' = FALSE
  /\ IF e = "nil" THEN pc' = "attached" /\ UNCHANGED err ELSE Return(Returned(e))
  /\ keep' = IF StartsKeepAlive(e) THEN "select" ELSE "off"
  /\ UNCHANGED <<since, age, bad>>

Send ==
  /\ pc = "send"
  /\ \/ pc' = "recv" /\ UNCHANGED <<sock, err, timeVars>>
     \/ AttachReturns("os") /\ UNCHANGED admitted
  /\ UNCHANGED <<envVars, fds, mapped>>

\* Recvmsg fails, or the reply is refused; the descriptors that came with it are closed.
ReplyRefused ==
  /\ pc = "recv"
  /\ \E e \in {"os", "protocol", "denied"} : AttachReturns(e)
  /\ UNCHANGED <<envVars, fds, mapped, admitted>>

\* Recvmsg returns a well-formed reply with status OK.
ReplyOK(got) ==
  /\ pc = "recv"
  /\ IF got = Region
     THEN /\ fds' = got /\ pc' = "map" /\ admitted' = TRUE /\ age' = 0
          /\ UNCHANGED <<sock, err, keep, since, bad>>
     ELSE AttachReturns("protocol") /\ UNCHANGED <<fds, admitted>>
  /\ UNCHANGED <<envVars, mapped>>

\* control, arena and queue pair, in this order.
NextRegion ==
  CASE mapped = {} -> "control"
    [] mapped = {"control"} -> "arena"
    [] OTHER -> "qp"

Map ==
  /\ pc = "map"
  /\ mapped' = mapped \cup {NextRegion}
  /\ IF mapped' = Region THEN fds' = {} /\ pc' = "check" ELSE UNCHANGED <<fds, pc>>
  /\ UNCHANGED <<envVars, sock, err, timeVars>>

\* Mutant: the failure of the queue pair's mapping unmaps only the arena.
UnmapsOneOnly(region) ==
  CASE region = "control" -> {} [] region = "arena" -> {"control"} [] OTHER -> {"arena"}

\* What the branch for a failing mapping of the region unmaps.
Unmaps(region) ==
  CASE region = "control" -> {} [] region = "arena" -> {"control"} [] OTHER -> {"control", "arena"}

MapFails ==
  /\ pc = "map"
  /\ mapped' = mapped \ Unmaps(NextRegion) /\ fds' = {}
  /\ AttachReturns("os")
  /\ UNCHANGED <<envVars, admitted>>

Detach == mapped' = {}

CheckRegions ==
  /\ pc = "check"
  /\ IF AttachControl(host) /\ AttachQueuePair(host)
     THEN AttachReturns("nil") /\ UNCHANGED mapped
     ELSE AttachReturns("region") /\ Detach
  /\ UNCHANGED <<envVars, fds, admitted>>

(***************************************************************************)
(* Attached.                                                               *)
(***************************************************************************)
Touch(who, regions) == bad' = IF regions \subseteq mapped THEN bad ELSE bad \cup {who}

\* One pass of runModuleClient: ctx, epoch, heartbeat, Poll.
LoopPass ==
  /\ pc = "attached" /\ kind = "module"
  /\ IF ctxDone
     THEN pc' = "leave" /\ UNCHANGED <<age, bad>>
     ELSE /\ Touch("loop", {"control", "qp"})
          /\ IF epoch THEN pc' = "leave" /\ UNCHANGED age ELSE age' = 0 /\ UNCHANGED pc
  /\ UNCHANGED <<envVars, heldVars, err, keep, since, admitted>>

\* The deferred Detach.
Leave ==
  /\ pc = "leave"
  /\ Detach /\ Return("nil")
  /\ UNCHANGED <<envVars, sock, fds, timeVars>>

\* A caller uses its client (Request, Cancel, Poll), and at some time detaches it.
Use ==
  /\ pc = "attached" /\ kind = "caller"
  /\ Touch("caller", {"control", "qp"})
  /\ UNCHANGED <<envVars, pc, heldVars, err, keep, since, age, admitted>>

CallerDetach ==
  /\ pc = "attached" /\ kind = "caller"
  /\ Detach /\ pc' = "detached"
  /\ UNCHANGED <<envVars, sock, fds, err, timeVars>>

\* The select of keepAlive takes the ticker, whether ctx has ended or not.
Tick ==
  /\ keep = "select" /\ since >= Interval
  /\ keep' = "beat" /\ since' = since - Interval
  /\ UNCHANGED <<envVars, pc, heldVars, err, age, admitted, bad>>

Beat ==
  /\ keep = "beat"
  /\ Touch("keepAlive", {"qp"})
  /\ age' = IF "qp" \in mapped THEN 0 ELSE age
  /\ keep' = "select"
  /\ UNCHANGED <<envVars, pc, heldVars, err, since, admitted>>

KeepAliveEnds ==
  /\ keep = "select" /\ ctxDone
  /\ keep' = "ended"
  /\ UNCHANGED <<envVars, pc, heldVars, err, since, age, admitted, bad>>

(***************************************************************************)
(* Surroundings.                                                           *)
(***************************************************************************)
\* The daemon goes away, leaves its socket behind, or listens again.
ListenerChanges ==
  /\ pc \in {"socket", "connect", "wait"}
  /\ \E l \in {"missing", "stale", "listening"} \ {listener} : listener' = l
  /\ UNCHANGED <<kind, config, host, epoch, ctxDone, pc, heldVars, err, timeVars>>

HostRestarts ==
  /\ ~epoch /\ pc = "attached"
  /\ epoch' = TRUE
  /\ UNCHANGED <<kind, config, host, listener, ctxDone, pc, heldVars, err, timeVars>>

CtxEnds ==
  /\ ~ctxDone
  /\ ctxDone' = TRUE
  /\ UNCHANGED <<kind, config, host, listener, epoch, pc, heldVars, err, timeVars>>

\* A goroutine that is due runs within Delay.
TimePasses ==
  /\ pc \in {"attached", "detached"} \/ keep \in {"select", "beat"}
  /\ keep = "select" => since < Interval + Delay
  /\ keep = "beat" => since < Delay
  /\ kind = "module" => age < Delay
  /\ since' = IF keep \in {"select", "beat"} THEN since + 1 ELSE since
  /\ age' = IF age > Stale THEN age ELSE age + 1
  /\ UNCHANGED <<envVars, pc, heldVars, err, keep, admitted, bad>>

\* The host drops a slot that has not shown a heartbeat for longer than Stale.
Reap ==
  /\ admitted /\ age > Stale
  /\ admitted' = FALSE
  /\ UNCHANGED <<envVars, pc, heldVars, err, keep, since, age, bad>>

Process ==
  \/ Validate \/ Socket \/ Connect \/ Refused \/ ConnectFails \/ Wait
  \/ Send \/ Map \/ MapFails \/ CheckRegions \/ LoopPass \/ Leave

Answer == ReplyRefused \/ \E got \in SUBSET Region : ReplyOK(got)

Next ==
  \/ Process \/ Answer
  \/ Use \/ CallerDetach \/ Tick \/ Beat \/ KeepAliveEnds
  \/ ListenerChanges \/ HostRestarts \/ CtxEnds \/ TimePasses \/ Reap

Spec == Init /\ [][Next]_vars

\* The process keeps running; the host need not answer.
FairSpec == Spec /\ WF_vars(Process)

(***************************************************************************)
(* Properties.                                                             *)
(***************************************************************************)
TypeOK ==
  /\ kind \in {"module", "caller"} /\ config \in Configs /\ host \in Hosts
  /\ listener \in {"missing", "stale", "listening"}
  /\ epoch \in BOOLEAN /\ ctxDone \in BOOLEAN
  /\ pc \in Labels /\ err \in Errors
  /\ sock \in BOOLEAN /\ fds \in SUBSET Region /\ mapped \in SUBSET Region
  /\ keep \in {"off", "select", "beat", "ended"}
  /\ since \in 0..(Interval + Delay) /\ age \in 0..(Stale + 1)
  /\ admitted \in BOOLEAN /\ bad \in SUBSET {"loop", "caller", "keepAlive"}

\* However AttachAs is left, the socket and the received descriptors are closed, and the
\* regions are mapped all three or not at all; a call that failed or ended keeps none.
NothingHeld ==
  /\ pc \notin {"connect", "send", "recv", "map", "check"} => ~sock
  /\ pc # "map" => fds = {}
  /\ pc = "attached" => mapped = Region
  /\ pc \in {"socket", "wait", "returned", "detached"} => mapped = {}

\* The layout bus_qpair_bytes stands for: the rings follow the header, each at the next
\* multiple of 64, and are sized by what the reply says.
WellLaid(h) ==
  LET ring == RingBytes(h.slot, h.cap)
      next(n, off) == off % 64 = 0 /\ off >= n /\ off < n + 64
      right(r) == /\ r.magicOK /\ r.slot = h.slot /\ r.cap = h.cap /\ r.mask = h.cap - 1
                  /\ r.slotsOff = ringHdrBytes /\ (r.head - r.tail) % Word <= h.cap
  IN /\ AttachControl(h) /\ h.ctlSlot = h.slot /\ h.qpOK /\ h.cap >= 2 /\ h.cap \in Capacities
     /\ next(qpBytes, h.inOff) /\ next(h.inOff + ring, h.outOff)
     /\ right(h.inbound) /\ right(h.outbound)

\* A host that lays out its regions as agreed is never refused for them, and of any other
\* host's rings an accepted one has every slot inside the mapped bytes: what qpairBytes
\* computes from the reply and what AttachQueuePair reads in the region fit each other.
LayoutsAgree ==
  /\ err = "region" => ~WellLaid(host)
  /\ pc = "attached" =>
       \A p \in {<<host.inOff, host.inbound>>, <<host.outOff, host.outbound>>} :
         \A i \in 0..(p[2].cap - 1) :
           p[1] + p[2].slotsOff + (i + 1) * p[2].slot <= qpairBytes(host.slot, host.cap)

\* Nobody touches a region that is not mapped, with one exception the code has: keepAlive
\* is not told of Detach, so its next heartbeat after a caller's Detach goes to the page
\* that was unmapped.  A failed attach and a module process never get there.
OnlyKeepAliveOutlives == bad # {} => bad = {"keepAlive"} /\ pc = "detached"

\* A client that is attached keeps its slot for as long as ctx lasts, idle or not.
ReapedOnlyAfterCtx == admitted \/ pc # "attached" \/ ctxDone

\* The call has returned or, while ctx lasts, the module serves.
Settled == pc = "returned" \/ (pc \in {"attached", "detached"} /\ (kind = "caller" \/ ~ctxDone))

\* Once the path is no longer a stale socket, or ctx ends, connecting comes to an end, and a
\* module told to stop returns; only a host that accepts and never answers prevents it, for
\* Recvmsg knows neither ctx nor a timeout.
ConnectReturns ==
  (<>[](listener # "stale") \/ []<>ctxDone) => ([]<>Settled \/ <>[](pc = "recv"))

=============================================================================
