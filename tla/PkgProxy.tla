------------------------------ MODULE PkgProxy ------------------------------
(***************************************************************************)
(* One connection of the package proxy: sandbox_pkg_proxy_serve in         *)
(* src/modules/sandbox/sandbox_pkg_proxy.c with the policy calls, the dial *)
(* and the byte pump below it, between a client and an upstream that send, *)
(* read, half-close and close when they please.                            *)
(*                                                                         *)
(* A unit stands for a run of bytes.  The sockets keep their order and     *)
(* have a finite buffer; what a peer has been handed is kept in full, so   *)
(* that it can be compared with what the other side sent.  Logging is left *)
(* out, and with it the reason proxy_dial reports.                         *)
(***************************************************************************)
EXTENDS Integers, Sequences, FiniteSets

CONSTANTS
  Addr,      \* addresses the resolver may return
  MaxCand,   \* bound of the model: candidates of one resolution
  MaxSend,   \* bound of the model: units a peer sends
  SockCap,   \* units a socket buffers for a peer that does not read
  BufSize,   \* the pump's buffer, in units
  MaxBytes,  \* PROXY_PUMP_MAX_BYTES, in units
  Deadline,  \* PROXY_PUMP_DEADLINE_SEC, in ticks
  NoAddr     \* no connected upstream

Side == {"client", "up"}
Kind == {"invalid", "api", "connect", "absolute"}
Tag  == Side \cup {"502", "400", "200", "head"}
Unit == [tag: Tag, n: Nat]

\* What the request policy answers, after the checks on each field of the reply; a call that
\* fails, a malformed reply and a failing strdup are the one answer "unusable".
Replies == [usable: BOOLEAN, kind: Kind, allowed: BOOLEAN, forward: BOOLEAN]

\* What becomes of the question about one address: whether inet_ntop could write it, for a
\* family that is known, whether the payload was allocated and a reply came, and what the
\* reply has under "blocked"; "other" is no such item or one that is not a boolean.
AddressAnswers ==
  [text: BOOLEAN, payload: BOOLEAN, reply: BOOLEAN, blocked: {"true", "false", "other"}]

ASSUME ProxyAssumption ==
  /\ NoAddr \notin Addr
  /\ MaxCand \in Nat \ {0} /\ MaxSend \in Nat
  /\ SockCap \in Nat \ {0} /\ BufSize \in Nat \ {0}
  /\ MaxBytes \in Nat /\ Deadline \in Nat \ {0}

VARIABLES
  caller,   \* how serve was called: over the UNIX socket or not, or without a head
  pc,       \* where serve is
  kind,     \* the kind of request the policy found
  refusal,  \* the status of the refusal under way
  held,     \* forward_head is allocated
  cands,    \* resolver results not yet tried
  cleared,  \* history: the address the last answer of the address policy clears, if any
  up,       \* the address of the connected upstream
  ready,    \* the sides poll reported
  side,     \* the side the pump looks at
  hand,     \* what it has read and not yet written
  size,     \* length of what it last read
  total,    \* units pumped
  count,    \* a2b and b2a
  elapsed,  \* ticks since the pump started
  ended,    \* why the pump returned
  inq,      \* per side: sent by it and not yet read
  got,      \* per side: everything handed to it
  seen,     \* per side: how much of that it has read
  sent,     \* per side: units it has sent
  peer      \* per side: what it still does

reqVars  == <<caller, kind, refusal, held, cands, cleared, up>>
pumpVars == <<ready, side, hand, size, total, count, elapsed, ended>>
sockVars == <<inq, got, seen, sent, peer>>
vars == <<caller, pc, kind, refusal, held, cands, cleared, up, ready, side, hand, size,
          total, count, elapsed, ended, inq, got, seen, sent, peer>>

Init ==
  /\ caller \in {"uds", "tcp", "nohead"}
  /\ pc = "start" /\ kind = "invalid" /\ refusal = "502" /\ held = FALSE
  /\ cands = <<>> /\ cleared = {} /\ up = NoAddr
  /\ ready = {} /\ side = "client" /\ hand = <<>> /\ size = 0
  /\ total = 0 /\ count = [s \in Side |-> 0] /\ elapsed = 0 /\ ended = "no"
  /\ inq = [s \in Side |-> <<>>] /\ got = [s \in Side |-> <<>>]
  /\ seen = [s \in Side |-> 0] /\ sent = [s \in Side |-> 0]
  /\ peer = [s \in Side |-> IF s = "client" THEN "open" ELSE "none"]

Other(s) == IF s = "client" THEN "up" ELSE "client"
Room(s)  == SockCap - (Len(got[s]) - seen[s])

\* The count serve passes for each literal: for a refusal, of 47 bytes, it is one short.
HeadBytes == [t \in {"502", "400", "200"} |-> IF t = "200" THEN 39 ELSE 46]

(***************************************************************************)
(* The request policy.                                                     *)
(***************************************************************************)
\* serve refuses every caller that is not on the UNIX socket, and a missing head.
Refuse ==
  /\ pc = "start" /\ caller # "uds"
  /\ pc' = "done"
  /\ UNCHANGED <<reqVars, pumpVars, sockVars>>

Accepted(r) == r.usable /\ ~(r.kind = "absolute" /\ r.allowed /\ ~r.forward)

\* The refusal a reply leads to, "no" for a request that goes on.
Verdict(r) ==
  IF ~Accepted(r) THEN "502"
  ELSE IF r.kind \in {"invalid", "api"} THEN "400"
  ELSE IF ~r.allowed THEN "502"
  ELSE "no"

AskPolicy(r) ==
  /\ pc = "start" /\ caller = "uds"
  /\ IF Verdict(r) = "no"
     THEN pc' = "resolve" /\ kind' = r.kind /\ held' = r.forward /\ UNCHANGED refusal
     ELSE pc' = "deny" /\ refusal' = Verdict(r) /\ UNCHANGED <<kind, held>>
  /\ UNCHANGED <<caller, cands, cleared, up, pumpVars, sockVars>>

\* write_all of a refusal; what becomes of it is ignored.
Deny ==
  /\ pc = "deny" /\ (Room("client") > 0 \/ peer["client"] = "closed")
  /\ got' = IF peer["client"] = "closed" THEN got
            ELSE [got EXCEPT !["client"] =
                    Append(@, [tag |-> refusal, n |-> HeadBytes[refusal]])]
  /\ pc' = "done"
  /\ UNCHANGED <<reqVars, pumpVars, inq, seen, sent, peer>>

(***************************************************************************)
(* proxy_dial.                                                             *)
(***************************************************************************)
\* Mutant: the head is kept when the dial fails.
DialFailedKeepsHead ==
  /\ pc' = "deny" /\ refusal' = "502"
  /\ UNCHANGED <<caller, kind, held, cleared, up, pumpVars, sockVars>>

DialFailed ==
  /\ pc' = "deny" /\ refusal' = "502" /\ held' = FALSE
  /\ UNCHANGED <<caller, kind, cleared, up, pumpVars, sockVars>>

ResolveFails == pc = "resolve" /\ DialFailed /\ UNCHANGED cands

Resolve ==
  /\ pc = "resolve"
  /\ \E n \in 1 .. MaxCand : cands' \in [1 .. n -> Addr]
  /\ pc' = "candidate"
  /\ UNCHANGED <<caller, kind, refusal, held, cleared, up, pumpVars, sockVars>>

\* Mutant: a reply without the boolean does not block.
proxy_address_blockedIfTrue(r) == ~r.text \/ ~r.payload \/ ~r.reply \/ r.blocked = "true"

proxy_address_blocked(r) ==
  ~r.text \/ ~r.payload \/ ~r.reply \/ r.blocked \notin {"true", "false"} \/ r.blocked = "true"

\* The policy was asked, and it answered that the address is not blocked.
SaysNotBlocked(r) == r.text /\ r.payload /\ r.reply /\ r.blocked = "false"

\* The loop asks about the exact candidate it goes on to connect, or takes the next one.
AskAddress(r) ==
  /\ pc = "candidate" /\ cands # <<>>
  /\ cleared' = IF SaysNotBlocked(r) THEN {Head(cands)} ELSE {}
  /\ IF proxy_address_blocked(r) THEN cands' = Tail(cands) /\ UNCHANGED pc
     ELSE pc' = "connect" /\ UNCHANGED cands
  /\ UNCHANGED <<caller, kind, refusal, held, up, pumpVars, sockVars>>

NoCandidate == pc = "candidate" /\ cands = <<>> /\ DialFailed /\ UNCHANGED cands

\* socket or connect fails; connect is bounded by SO_SNDTIMEO.
ConnectFails ==
  /\ pc = "connect"
  /\ cands' = Tail(cands) /\ pc' = "candidate"
  /\ UNCHANGED <<caller, kind, refusal, held, cleared, up, pumpVars, sockVars>>

Connect ==
  /\ pc = "connect"
  /\ up' = Head(cands) /\ pc' = "greet"
  /\ peer' = [peer EXCEPT !["up"] = "open"]
  /\ UNCHANGED <<caller, kind, refusal, held, cands, cleared, pumpVars, inq, got, seen, sent>>

(***************************************************************************)
(* Before the pump: the client is told of the tunnel, or the upstream gets *)
(* the rewritten head.                                                     *)
(***************************************************************************)
Greeted  == IF kind = "connect" THEN "client" ELSE "up"
Greeting == IF kind = "connect" THEN [tag |-> "200", n |-> HeadBytes["200"]]
            ELSE [tag |-> "head", n |-> 1]

Greet ==
  /\ pc = "greet" /\ peer[Greeted] # "closed" /\ Room(Greeted) > 0
  /\ got' = [got EXCEPT ![Greeted] = Append(@, Greeting)]
  /\ pc' = "top"
  /\ UNCHANGED <<reqVars, pumpVars, inq, seen, sent, peer>>

\* A write fails on a closed peer and, on the upstream, when SO_SNDTIMEO passes.
WriteMayFail(s) == peer[s] = "closed" \/ (s = "up" /\ Room(s) = 0)

GreetFails ==
  /\ pc = "greet" /\ WriteMayFail(Greeted)
  /\ pc' = "close"
  /\ UNCHANGED <<reqVars, pumpVars, sockVars>>

(***************************************************************************)
(* proxy_pump.                                                             *)
(***************************************************************************)
PumpReturns(why) == pc' = "close" /\ ended' = why

\* Mutant: the deadline is looked at only when there is something to read.
PumpDeadlineWhenBusy ==
  /\ pc = "top" /\ elapsed >= Deadline
  /\ \E s \in Side : inq[s] # <<>> \/ peer[s] \in {"half", "closed"}
  /\ PumpReturns("deadline")
  /\ UNCHANGED <<reqVars, ready, side, hand, size, total, count, elapsed, sockVars>>

PumpDeadline ==
  /\ pc = "top" /\ elapsed >= Deadline
  /\ PumpReturns("deadline")
  /\ UNCHANGED <<reqVars, ready, side, hand, size, total, count, elapsed, sockVars>>

Readable(s) == inq[s] # <<>> \/ peer[s] \in {"half", "closed"}

\* poll returns the sides that have something; it waits while there is none, and the 30 s
\* it waits at most only bring it back to the deadline.
PollReady ==
  /\ pc = "top" /\ elapsed < Deadline
  /\ ready' = {s \in Side : Readable(s)} /\ ready' # {}
  /\ side' = "client" /\ pc' = "side"
  /\ UNCHANGED <<reqVars, hand, size, total, count, elapsed, ended, sockVars>>

\* poll fails; a signal is enough.
PollFails ==
  /\ pc = "top" /\ elapsed < Deadline
  /\ PumpReturns("poll")
  /\ UNCHANGED <<reqVars, ready, side, hand, size, total, count, elapsed, sockVars>>

\* Mutant: the loop over pf looks at one entry too many.
NextSideOffByOne ==
  IF side = "client" THEN side' = "up" /\ pc' = "side" ELSE side' = "none" /\ pc' = "side"

\* The next side, or the top of the loop.
NextSide == IF side = "client" THEN side' = "up" /\ pc' = "side" ELSE pc' = "top" /\ UNCHANGED side

SkipSide ==
  /\ pc = "side" /\ side \notin ready
  /\ NextSide
  /\ UNCHANGED <<reqVars, ready, hand, size, total, count, elapsed, ended, sockVars>>

ReadSide ==
  /\ pc = "side" /\ side \in ready /\ inq[side] # <<>>
  /\ \E n \in 1 .. BufSize :
       /\ n <= Len(inq[side])
       /\ hand' = SubSeq(inq[side], 1, n) /\ size' = n
       /\ inq' = [inq EXCEPT ![side] = SubSeq(@, n + 1, Len(@))]
  /\ pc' = "write"
  /\ UNCHANGED <<reqVars, ready, side, total, count, elapsed, ended, got, seen, sent, peer>>

\* Mutant: a hang-up ends the tunnel although there is data left.
ReadHangup ==
  /\ pc = "side" /\ side \in ready /\ peer[side] \in {"half", "closed"}
  /\ PumpReturns("eof")
  /\ UNCHANGED <<reqVars, ready, side, hand, size, total, count, elapsed, sockVars>>

ReadEof ==
  /\ pc = "side" /\ side \in ready /\ inq[side] = <<>>
  /\ PumpReturns("eof")
  /\ UNCHANGED <<reqVars, ready, side, hand, size, total, count, elapsed, sockVars>>

\* A reset peer.
ReadFails ==
  /\ pc = "side" /\ side \in ready /\ peer[side] = "closed"
  /\ PumpReturns("read")
  /\ UNCHANGED <<reqVars, ready, side, hand, size, total, count, elapsed, sockVars>>

\* Mutant: a short write counts as a whole one.
WriteOnce ==
  /\ pc = "write" /\ hand # <<>> /\ peer[Other(side)] # "closed"
  /\ \E n \in 1 .. BufSize :
       /\ n <= Len(hand) /\ n <= Room(Other(side))
       /\ got' = [got EXCEPT ![Other(side)] = @ \o SubSeq(hand, 1, n)]
  /\ hand' = <<>>
  /\ UNCHANGED <<reqVars, pc, ready, side, size, total, count, elapsed, ended, inq, seen,
                 sent, peer>>

\* One round of write_all.
WriteSome ==
  /\ pc = "write" /\ hand # <<>> /\ peer[Other(side)] # "closed"
  /\ \E n \in 1 .. BufSize :
       /\ n <= Len(hand) /\ n <= Room(Other(side))
       /\ got' = [got EXCEPT ![Other(side)] = @ \o SubSeq(hand, 1, n)]
       /\ hand' = SubSeq(hand, n + 1, Len(hand))
  /\ UNCHANGED <<reqVars, pc, ready, side, size, total, count, elapsed, ended, inq, seen,
                 sent, peer>>

WriteFails ==
  /\ pc = "write" /\ hand # <<>> /\ WriteMayFail(Other(side))
  /\ hand' = <<>>
  /\ PumpReturns("write")
  /\ UNCHANGED <<reqVars, ready, side, size, total, count, elapsed, sockVars>>

\* Mutant: the cap is tested before the units just written are added.
AccountLate ==
  /\ pc = "write" /\ hand = <<>>
  /\ total' = total + size
  /\ IF total > MaxBytes
     THEN PumpReturns("cap") /\ UNCHANGED <<side, count>>
     ELSE /\ count' = [count EXCEPT ![side] = @ + size]
          /\ NextSide /\ UNCHANGED ended
  /\ UNCHANGED <<reqVars, ready, hand, size, elapsed, sockVars>>

\* The cap is tested before the direction's own counter is advanced.
Account ==
  /\ pc = "write" /\ hand = <<>>
  /\ total' = total + size
  /\ IF total' > MaxBytes
     THEN PumpReturns("cap") /\ UNCHANGED <<side, count>>
     ELSE /\ count' = [count EXCEPT ![side] = @ + size]
          /\ NextSide /\ UNCHANGED ended
  /\ UNCHANGED <<reqVars, ready, hand, size, elapsed, sockVars>>

Close ==
  /\ pc = "close"
  /\ held' = FALSE /\ up' = NoAddr
  /\ pc' = "done"
  /\ UNCHANGED <<caller, kind, refusal, cands, cleared, pumpVars, sockVars>>

(***************************************************************************)
(* The peers and the clock.                                                *)
(***************************************************************************)
PeerSends(s) ==
  /\ pc # "done" /\ peer[s] = "open" /\ sent[s] < MaxSend /\ Len(inq[s]) < SockCap
  /\ sent' = [sent EXCEPT ![s] = @ + 1]
  /\ inq' = [inq EXCEPT ![s] = Append(@, [tag |-> s, n |-> sent[s] + 1])]
  /\ UNCHANGED <<pc, reqVars, pumpVars, got, seen, peer>>

PeerReads(s) ==
  /\ pc # "done" /\ peer[s] \in {"open", "half"} /\ seen[s] < Len(got[s])
  /\ seen' = [seen EXCEPT ![s] = @ + 1]
  /\ UNCHANGED <<pc, reqVars, pumpVars, inq, got, sent, peer>>

\* The peer ends its own direction, or both.
PeerCloses(s) ==
  /\ pc # "done" /\ peer[s] \in {"open", "half"}
  /\ \E how \in {"half", "closed"} \ {peer[s]} : peer' = [peer EXCEPT ![s] = how]
  /\ UNCHANGED <<pc, reqVars, pumpVars, inq, got, seen, sent>>

Pumping == pc \in {"top", "side", "write"}

Tick ==
  /\ Pumping /\ elapsed < Deadline
  /\ elapsed' = elapsed + 1
  /\ UNCHANGED <<pc, reqVars, ready, side, hand, size, total, count, ended, sockVars>>

Terminated == pc = "done" /\ UNCHANGED vars

\* What serve does unless poll fails under it.
Serve ==
  \/ Refuse \/ (\E r \in Replies : AskPolicy(r)) \/ Deny
  \/ ResolveFails \/ Resolve \/ (\E r \in AddressAnswers : AskAddress(r)) \/ NoCandidate
  \/ ConnectFails \/ Connect
  \/ Greet \/ GreetFails
  \/ PumpDeadline \/ PollReady \/ SkipSide \/ ReadSide \/ ReadEof \/ ReadFails
  \/ WriteSome \/ WriteFails \/ Account \/ Close

Next ==
  \/ Serve \/ PollFails
  \/ \E s \in Side : PeerSends(s) \/ PeerReads(s) \/ PeerCloses(s)
  \/ Tick
  \/ Terminated

Spec == Init /\ [][Next]_vars

\* The worker keeps running and time passes; the peers owe nothing, and poll need not fail.
FairSpec == Spec /\ WF_vars(Serve) /\ WF_vars(Tick)

(***************************************************************************)
(* Properties.                                                             *)
(***************************************************************************)
\* The pump stays within pf and within its buffer, and no socket takes more than it holds.
TypeOK ==
  /\ caller \in {"uds", "tcp", "nohead"}
  /\ pc \in {"start", "deny", "resolve", "candidate", "connect", "greet", "top", "side",
             "write", "close", "done"}
  /\ kind \in Kind /\ refusal \in {"502", "400"} /\ held \in BOOLEAN
  /\ cands \in Seq(Addr) /\ cleared \subseteq Addr /\ up \in Addr \cup {NoAddr}
  /\ ready \subseteq Side /\ side \in Side /\ hand \in Seq(Unit)
  /\ size \in 0 .. BufSize /\ total \in Nat /\ count \in [Side -> Nat]
  /\ elapsed \in 0 .. Deadline
  /\ ended \in {"no", "deadline", "poll", "eof", "read", "write", "cap"}
  /\ inq \in [Side -> Seq(Unit)] /\ got \in [Side -> Seq(Unit)]
  /\ seen \in [Side -> Nat] /\ sent \in [Side -> Nat]
  /\ peer \in [Side -> {"none", "open", "half", "closed"}]
  /\ \A s \in Side : Room(s) \in 0 .. SockCap

\* What serve itself says to a side comes first, if it comes; the rest is payload.
Said(s)    == IF got[s] # <<>> /\ got[s][1].tag \notin Side THEN 1 ELSE 0
Payload(s) == SubSeq(got[s], Said(s) + 1, Len(got[s]))

\* An upstream is dialled only at the address of which the policy has just said that it is not
\* blocked: a question that could not be put, a call that failed and a malformed reply let no
\* candidate pass, whatever was said of another.  It is dialled only for a request that came
\* over the UNIX socket; a plain HTTP upstream gets the rewritten head before
\* anything of the client, a tunnel client its 200 before anything of the upstream, and serve
\* says nothing to either later on.
FailsClosed ==
  /\ up # NoAddr => caller = "uds" /\ up \in cleared
  /\ got["up"] # <<>> => caller = "uds" /\ cleared # {} /\ kind \in {"connect", "absolute"}
  /\ caller # "uds" => got["client"] = <<>>
  /\ kind = "absolute" /\ got["up"] # <<>> => got["up"][1].tag = "head"
  /\ kind = "absolute" /\ pc \in {"greet", "top", "side", "write"} => held
  /\ kind = "connect" /\ Payload("client") # <<>> => got["client"][1].tag = "200"
  /\ \A s \in Side : \A i \in DOMAIN got[s] : i > 1 => got[s][i].tag = Other(s)

\* Through short reads, short writes and full buffers, what a side is handed is a prefix of
\* what the other side sent, and what the pump has in hand comes next.
PassesInOrder ==
  \A s \in Side :
    LET through == Payload(Other(s)) \o (IF side = s THEN hand ELSE <<>>) \o
                   (IF ended = "write" /\ side = s THEN <<>> ELSE inq[s])
    IN  /\ \A i \in DOMAIN through : through[i] = [tag |-> s, n |-> i]
        /\ ended # "write" => Len(through) = sent[s]

\* When the pump sees the end of one side's stream, everything that side sent has been
\* written to the other: an upstream that answers and closes at once loses nothing.
EofAfterData == ended = "eof" => Len(Payload(Other(side))) = sent[side]

\* At most one buffer more than PROXY_PUMP_MAX_BYTES passes the pump, and the two counters
\* it reports account for all of it but the buffer it stopped in.
CapHolds ==
  LET passed == Len(Payload("client")) + Len(Payload("up")) IN
    /\ passed <= MaxBytes + BufSize
    /\ count["client"] + count["up"] <= passed
    /\ passed <= count["client"] + count["up"] + BufSize

\* serve returns with the upstream closed and forward_head freed, on every path.
NothingLeaks == pc = "done" => up = NoAddr /\ ~held

\* If the client keeps reading, serve returns: an idle tunnel at its deadline, a stuck
\* upstream by the send timeout.
ServeReturns == []<>(Room("client") > 0 \/ peer["client"] = "closed") => <>(pc = "done")

=============================================================================
