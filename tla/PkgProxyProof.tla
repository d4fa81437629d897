---------------------------- MODULE PkgProxyProof ----------------------------
(***************************************************************************)
(* Proofs about PkgProxy for every set of addresses, every buffer, cap,    *)
(* deadline and amount of data.  The inductive invariant is Inv.           *)
(***************************************************************************)
EXTENDS PkgProxy, SequenceTheorems, TLAPS

Before == {"start", "deny", "resolve", "candidate", "connect", "greet"}
Tunnel == {"top", "side", "write"}

\* Units of payload handed to a side, and units of a side that are in the pump's hand.
Given(s)  == Len(got[s]) - Said(s)
InHand(s) == IF side = s THEN Len(hand) ELSE 0

\* The pump gave up on what it had read from s and could not write.
Dropped(s) == ended = "write" /\ side = s

\* Where serve is decides what the request has led to so far.
RequestShape ==
  /\ caller # "uds" => pc \in {"start", "done"} /\ cleared = {} /\ kind = "invalid"
                       /\ got["client"] = <<>>
  /\ pc = "start" => kind = "invalid" /\ held = FALSE
  /\ pc \in {"deny", "done"} => held = FALSE
  /\ pc \in {"resolve", "candidate", "connect", "greet"} \cup Tunnel
       => kind \in {"connect", "absolute"} /\ (kind = "absolute" => held = TRUE)
  /\ up # NoAddr => up \in cleared /\ caller = "uds"
  /\ pc \in {"greet", "close"} \cup Tunnel => up # NoAddr /\ kind \in {"connect", "absolute"}
  /\ pc \notin {"greet", "close"} \cup Tunnel => up = NoAddr
  /\ pc = "connect" => cands # <<>> /\ Head(cands) \in cleared

\* Serve speaks before the pump starts, to the side the request asks for.
GreetedFirst ==
  /\ pc \in Before => got["client"] = <<>> /\ got["up"] = <<>>
  /\ pc \in Tunnel => got[Greeted] # <<>> /\ got[Greeted][1].tag = Greeting.tag
  /\ kind = "connect" /\ Given("client") # 0 => got["client"][1].tag = "200"
  /\ kind = "absolute" /\ got["up"] # <<>> => got["up"][1].tag = "head"
  /\ got["up"] # <<>> => caller = "uds" /\ cleared # {} /\ kind \in {"connect", "absolute"}

\* Nothing is in hand, and the pump has not ended, unless it is where it says it is.
PumpShape ==
  /\ pc # "write" => hand = <<>>
  /\ ended # "no" => pc \in {"close", "done"}
  /\ pc = "side" => \A s \in ready : s = side \/ s = "up" => Readable(s)
  /\ pc = "write" /\ side = "client" /\ "up" \in ready => Readable("up")
  /\ ended = "eof" => peer[side] \in {"half", "closed"} /\ inq[side] = <<>>

\* Every unit is in one place, in order: handed over, in hand, or still in the socket.
InOrder ==
  /\ \A s \in Side : \A i \in 1 .. Len(got[s]) :
       i > Said(s) => got[s][i] = [tag |-> Other(s), n |-> i - Said(s)]
  /\ \A i \in 1 .. Len(hand) : hand[i] = [tag |-> side, n |-> Given(Other(side)) + i]
  /\ \A s \in Side : ~Dropped(s) =>
       /\ \A i \in 1 .. Len(inq[s]) :
            inq[s][i] = [tag |-> s, n |-> Given(Other(s)) + InHand(s) + i]
       /\ Given(Other(s)) + InHand(s) + Len(inq[s]) = sent[s]

\* The pump's counters against what really passed.
Passed  == Given("client") + Given("up")
Counted == count["client"] + count["up"]

Accounts ==
  /\ pc \in Before => total = 0 /\ Counted = 0
  /\ pc \in {"top", "side"} => total = Counted /\ Passed = Counted
  /\ pc = "write" => total = Counted /\ Passed + Len(hand) = Counted + size
  /\ Counted <= MaxBytes /\ Counted <= Passed /\ Passed <= Counted + BufSize

Inv ==
  /\ TypeOK
  /\ RequestShape
  /\ GreetedFirst
  /\ PumpShape
  /\ InOrder
  /\ Accounts

(***************************************************************************)
(* Sequences.                                                              *)
(***************************************************************************)
\* A short read or write splits what there is in two.
LEMMA Split ==
  ASSUME NEW S, NEW q \in Seq(S), NEW n \in 1 .. Len(q)
  PROVE  /\ SubSeq(q, 1, n) \in Seq(S) /\ Len(SubSeq(q, 1, n)) = n
         /\ \A i \in 1 .. n : SubSeq(q, 1, n)[i] = q[i]
         /\ SubSeq(q, n + 1, Len(q)) \in Seq(S) /\ Len(SubSeq(q, n + 1, Len(q))) = Len(q) - n
         /\ \A i \in 1 .. Len(q) - n : SubSeq(q, n + 1, Len(q))[i] = q[n + i]
  OBVIOUS

\* What is written is appended to what the peer was handed.
LEMMA Joined ==
  ASSUME NEW S, NEW q \in Seq(S), NEW r \in Seq(S)
  PROVE  /\ q \o r \in Seq(S) /\ Len(q \o r) = Len(q) + Len(r)
         /\ \A i \in 1 .. Len(q) : (q \o r)[i] = q[i]
         /\ \A i \in 1 .. Len(r) : (q \o r)[Len(q) + i] = r[i]
  OBVIOUS

\* There are two sides, and the pump writes to the one it did not read from.
LEMMA OtherSide ==
  /\ \A s \in Side : Other(s) \in Side /\ Other(s) # s /\ Other(Other(s)) = s
  /\ \A s, t \in Side : s # t => t = Other(s)
  BY DEF Other, Side

(***************************************************************************)
(* Types, in three groups.                                                 *)
(***************************************************************************)
Labels == {"start", "deny", "resolve", "candidate", "connect", "greet", "top", "side", "write",
           "close", "done"}

ReqType ==
  /\ caller \in {"uds", "tcp", "nohead"} /\ pc \in Labels
  /\ kind \in Kind /\ refusal \in {"502", "400"} /\ held \in BOOLEAN
  /\ cands \in Seq(Addr) /\ cleared \subseteq Addr /\ up \in Addr \cup {NoAddr}

PumpType ==
  /\ ready \subseteq Side /\ side \in Side /\ hand \in Seq(Unit)
  /\ size \in 0 .. BufSize /\ total \in Nat /\ count \in [Side -> Nat]
  /\ elapsed \in 0 .. Deadline
  /\ ended \in {"no", "deadline", "poll", "eof", "read", "write", "cap"}

SockType ==
  /\ inq \in [Side -> Seq(Unit)] /\ got \in [Side -> Seq(Unit)]
  /\ seen \in [Side -> Nat] /\ sent \in [Side -> Nat]
  /\ peer \in [Side -> {"none", "open", "half", "closed"}]
  /\ \A s \in Side : Room(s) \in 0 .. SockCap

\* TypeOK is the three groups together: the request's, the pump's and the sockets' variables.
LEMMA TypeGroups == TypeOK <=> ReqType /\ PumpType /\ SockType
  BY DEF TypeOK, ReqType, PumpType, SockType, Labels

\* The constants are numbers.
LEMMA Numbers ==
  /\ SockCap \in Nat /\ SockCap > 0 /\ BufSize \in Nat /\ BufSize > 0 /\ MaxBytes \in Nat
  /\ Deadline \in Nat /\ Deadline > 0 /\ MaxSend \in Nat
  BY ProxyAssumption

\* The steps of the pump and of the peers leave the request alone.
LEMMA RequestLeftAlone ==
  ASSUME Greet \/ GreetFails \/ PumpDeadline \/ PollReady \/ PollFails \/ SkipSide \/ ReadSide
         \/ ReadEof \/ ReadFails \/ WriteSome \/ WriteFails \/ Account \/ Deny \/ Refuse \/ Tick
         \/ \E s \in Side : PeerSends(s) \/ PeerReads(s) \/ PeerCloses(s)
  PROVE  UNCHANGED reqVars
  BY DEF Greet, GreetFails, PumpDeadline, PollReady, PollFails, SkipSide, ReadSide, ReadEof,
         ReadFails, WriteSome, WriteFails, Account, Deny, Refuse, Tick, PeerSends, PeerReads,
         PeerCloses

\* Every step keeps the request's variables in their types: the label serve goes to exists, and
\* Head and Tail are taken of a list of candidates that is not empty.
LEMMA ReqTypeStep ==
  ASSUME ReqType, RequestShape, [Next]_vars
  PROVE  ReqType'
<1>1. ASSUME NEW r \in Replies, AskPolicy(r) PROVE ReqType'
  <2>1. r.kind \in Kind /\ r.forward \in BOOLEAN
    BY DEF Replies
  <2>2. UNCHANGED <<caller, cands, cleared, up>>
    BY <1>1 DEF AskPolicy
  <2>3. pc' \in Labels /\ kind' \in Kind /\ refusal' \in {"502", "400"}
    BY <1>1, <2>1 DEF AskPolicy, Verdict, Labels, ReqType
  <2>4. held' \in BOOLEAN
    BY <1>1, <2>1 DEF AskPolicy, ReqType
  <2> QED
    BY <2>2, <2>3, <2>4 DEF ReqType
<1>2. CASE ResolveFails \/ NoCandidate
  <2>1. /\ pc' \in Labels /\ refusal' \in {"502", "400"} /\ held' = FALSE
        /\ UNCHANGED <<caller, kind, cleared, up, cands>>
    BY <1>2 DEF ResolveFails, NoCandidate, DialFailed, Labels
  <2> QED
    BY <2>1 DEF ReqType
<1>3. CASE Resolve
  <2>1. cands' \in Seq(Addr)
    BY <1>3, ProxyAssumption DEF Resolve
  <2> QED
    BY <1>3, <2>1 DEF Resolve, ReqType, Labels
<1>4. ASSUME NEW r \in AddressAnswers, AskAddress(r) PROVE ReqType'
  <2>1. cands \in Seq(Addr) /\ cands # <<>> /\ Head(cands) \in Addr /\ Tail(cands) \in Seq(Addr)
    BY <1>4 DEF AskAddress, ReqType
  <2>2. cands' \in Seq(Addr) /\ cleared' \subseteq Addr /\ pc' \in Labels
    BY <1>4, <2>1 DEF AskAddress, ReqType, Labels
  <2> QED
    BY <1>4, <2>2 DEF AskAddress, ReqType
<1>6. CASE ConnectFails
  <2>1. cands # <<>>
    BY <1>6 DEF ConnectFails, RequestShape
  <2> QED
    BY <1>6, <2>1 DEF ConnectFails, ReqType, Labels
<1>7. CASE Connect
  <2>1. Head(cands) \in Addr
    BY <1>7 DEF Connect, RequestShape, ReqType
  <2> QED
    BY <1>7, <2>1 DEF Connect, ReqType, Labels
<1>8. CASE Close
  BY <1>8 DEF Close, ReqType, Labels
<1>9. CASE UNCHANGED vars
  BY <1>9 DEF vars, ReqType
<1>10. CASE Greet \/ GreetFails \/ PumpDeadline \/ PollReady \/ PollFails \/ SkipSide \/ ReadSide
            \/ ReadEof \/ ReadFails \/ WriteSome \/ WriteFails \/ Account \/ Deny \/ Refuse \/ Tick
            \/ \E s \in Side : PeerSends(s) \/ PeerReads(s) \/ PeerCloses(s)
  <2>1. UNCHANGED reqVars
    BY <1>10, RequestLeftAlone
  <2>2. pc' \in Labels
    BY <1>10 DEF Greet, GreetFails, PumpDeadline, PollReady, PollFails, SkipSide, ReadSide, ReadEof,
         ReadFails, WriteSome, WriteFails, Account, Deny, Refuse, Tick, PeerSends, PeerReads,
         PeerCloses, NextSide, PumpReturns, Labels, ReqType
  <2> QED
    BY <2>1, <2>2 DEF reqVars, ReqType
<1> QED
  BY <1>1, <1>2, <1>3, <1>4, <1>6, <1>7, <1>8, <1>9, <1>10 DEF Next, Serve, Terminated

\* The request and the peers leave the pump's variables alone.
LEMMA PumpLeftAlone ==
  ASSUME Refuse \/ (\E r \in Replies : AskPolicy(r)) \/ Deny \/ ResolveFails \/ Resolve
         \/ (\E r \in AddressAnswers : AskAddress(r))
         \/ NoCandidate \/ ConnectFails \/ Connect \/ Greet \/ GreetFails \/ Close
         \/ (\E s \in Side : PeerSends(s) \/ PeerReads(s) \/ PeerCloses(s)) \/ Terminated
         \/ UNCHANGED vars
  PROVE  UNCHANGED pumpVars
<1>1. CASE Refuse \/ (\E r \in Replies : AskPolicy(r)) \/ Deny \/ ResolveFails \/ NoCandidate
  BY <1>1 DEF Refuse, AskPolicy, Deny, ResolveFails, NoCandidate, DialFailed
<1>2. CASE Resolve \/ (\E r \in AddressAnswers : AskAddress(r)) \/ ConnectFails \/ Connect
  BY <1>2 DEF Resolve, AskAddress, ConnectFails, Connect
<1>3. CASE Greet \/ GreetFails \/ Close
  BY <1>3 DEF Greet, GreetFails, Close
<1>4. CASE \E s \in Side : PeerSends(s) \/ PeerReads(s) \/ PeerCloses(s)
  BY <1>4 DEF PeerSends, PeerReads, PeerCloses
<1>5. CASE Terminated \/ UNCHANGED vars
  BY <1>5 DEF Terminated, vars, pumpVars
<1> QED
  BY <1>1, <1>2, <1>3, <1>4, <1>5

\* Every step keeps the pump within pf and within its buffer.
LEMMA PumpTypeStep ==
  ASSUME PumpType, SockType, [Next]_vars
  PROVE  PumpType'
<1>0. BufSize \in Nat /\ BufSize > 0 /\ Deadline \in Nat
  BY Numbers
<1>1. CASE PumpDeadline \/ PollFails \/ ReadEof \/ ReadFails
  BY <1>1 DEF PumpDeadline, PollFails, ReadEof, ReadFails, PumpReturns, PumpType
<1>2. CASE PollReady
  BY <1>2 DEF PollReady, PumpType, Side
<1>3. CASE SkipSide
  BY <1>3 DEF SkipSide, NextSide, PumpType, Side
<1>4. CASE ReadSide
  <2>1. PICK n \in 1 .. BufSize :
          n <= Len(inq[side]) /\ hand' = SubSeq(inq[side], 1, n) /\ size' = n
    BY <1>4 DEF ReadSide
  <2>2. inq[side] \in Seq(Unit) /\ n \in 1 .. Len(inq[side])
    BY <2>1 DEF PumpType, SockType
  <2>3. hand' \in Seq(Unit)
    BY <2>1, <2>2, Split
  <2>4. size' \in 0 .. BufSize
    BY <1>0, <2>1
  <2> QED
    BY <1>4, <2>3, <2>4 DEF ReadSide, PumpType
<1>5. CASE WriteSome
  <2>1. PICK n \in 1 .. BufSize : n <= Len(hand) /\ hand' = SubSeq(hand, n + 1, Len(hand))
    BY <1>5 DEF WriteSome
  <2>2. hand' \in Seq(Unit)
    BY <2>1, Split DEF PumpType
  <2> QED
    BY <1>5, <2>2 DEF WriteSome, PumpType
<1>6. CASE WriteFails
  BY <1>6 DEF WriteFails, PumpReturns, PumpType
<1>7. CASE Account
  <2>1. size \in Nat /\ total' \in Nat
    BY <1>0, <1>7 DEF Account, PumpType
  <2>2. count' \in [Side -> Nat]
    BY <1>7, <2>1 DEF Account, PumpType
  <2>3. side' \in Side /\ ended' \in {"no", "deadline", "poll", "eof", "read", "write", "cap"}
    BY <1>7 DEF Account, NextSide, PumpReturns, PumpType, Side
  <2> QED
    BY <1>7, <2>1, <2>2, <2>3 DEF Account, PumpType
<1>8. CASE Tick
  <2>1. elapsed' \in 0 .. Deadline
    BY <1>0, <1>8 DEF Tick, PumpType
  <2> QED
    BY <1>8, <2>1 DEF Tick, PumpType
<1>9. CASE UNCHANGED pumpVars
  BY <1>9 DEF pumpVars, PumpType
<1> QED
  BY <1>1, <1>2, <1>3, <1>4, <1>5, <1>6, <1>7, <1>8, <1>9, PumpLeftAlone DEF Next, Serve

\* What serve does between its writes leaves the sockets alone.
LEMMA SocketsLeftAlone ==
  ASSUME Refuse \/ (\E r \in Replies : AskPolicy(r)) \/ ResolveFails \/ Resolve
         \/ (\E r \in AddressAnswers : AskAddress(r))
         \/ NoCandidate \/ ConnectFails \/ GreetFails \/ PumpDeadline \/ PollReady
         \/ PollFails \/ SkipSide \/ ReadEof \/ ReadFails \/ WriteFails \/ Account \/ Close \/ Tick
         \/ Terminated \/ UNCHANGED vars
  PROVE  UNCHANGED sockVars
<1>1. CASE Refuse \/ (\E r \in Replies : AskPolicy(r)) \/ ResolveFails \/ NoCandidate
  BY <1>1 DEF Refuse, AskPolicy, ResolveFails, NoCandidate, DialFailed
<1>2. CASE Resolve \/ (\E r \in AddressAnswers : AskAddress(r)) \/ ConnectFails \/ GreetFails
  BY <1>2 DEF Resolve, AskAddress, ConnectFails, GreetFails
<1>3. CASE PumpDeadline \/ PollReady \/ PollFails \/ SkipSide \/ ReadEof \/ ReadFails
  BY <1>3 DEF PumpDeadline, PollReady, PollFails, SkipSide, ReadEof, ReadFails
<1>4. CASE WriteFails \/ Account \/ Close \/ Tick
  BY <1>4 DEF WriteFails, Account, Close, Tick
<1>5. CASE Terminated \/ UNCHANGED vars
  BY <1>5 DEF Terminated, vars, sockVars
<1> QED
  BY <1>1, <1>2, <1>3, <1>4, <1>5


\* One unit more for a side that has room for it.
LEMMA OneMore ==
  ASSUME SockType, NEW s \in Side, Room(s) > 0, NEW u \in Unit,
         got' = [got EXCEPT ![s] = Append(@, u)], UNCHANGED <<inq, seen, sent, peer>>
  PROVE  SockType'
<1>0. SockCap \in Nat
  BY Numbers
<1>1. got[s] \in Seq(Unit) /\ got' \in [Side -> Seq(Unit)]
  BY DEF SockType
<1>2. got'[s] = Append(got[s], u) /\ Len(got'[s]) = Len(got[s]) + 1 /\ Len(got[s]) \in Nat
  BY <1>1 DEF SockType
<1>3. Room(s)' \in 0 .. SockCap
  BY <1>0, <1>2 DEF Room, SockType
<1>4. \A t \in Side : t # s => Room(t)' = Room(t)
  BY DEF Room, SockType
<1> QED
  BY <1>1, <1>3, <1>4 DEF SockType

\* Every step keeps the sockets within their buffers.
LEMMA SockTypeStep ==
  ASSUME ReqType, PumpType, SockType, RequestShape, [Next]_vars
  PROVE  SockType'
<1>0. SockCap \in Nat /\ BufSize \in Nat
  BY Numbers
<1>1. CASE UNCHANGED sockVars
  BY <1>1 DEF sockVars, SockType, Room
<1>2. CASE Deny
  <2>1. CASE peer["client"] = "closed"
    BY <1>1, <1>2, <2>1 DEF Deny, sockVars
  <2>2. CASE peer["client"] # "closed"
    <3>1. [tag |-> refusal, n |-> HeadBytes[refusal]] \in Unit
      BY DEF ReqType, Unit, Tag, HeadBytes
    <3>2. "client" \in Side
      BY DEF Side
    <3> QED
      BY <1>2, <2>2, <3>1, <3>2, OneMore DEF Deny
  <2> QED
    BY <2>1, <2>2
<1>3. CASE Connect
  <2>1. peer' \in [Side -> {"none", "open", "half", "closed"}]
    BY <1>3 DEF Connect, SockType
  <2> QED
    BY <1>3, <2>1 DEF Connect, SockType, Room
<1>4. CASE Greet
  <2>1. Greeting \in Unit /\ Greeted \in Side
    BY DEF Greeting, Greeted, Unit, Tag, Side, HeadBytes
  <2> QED
    BY <1>4, <2>1, OneMore DEF Greet
<1>5. CASE ReadSide
  <2>1. PICK n \in 1 .. BufSize :
          n <= Len(inq[side]) /\ inq' = [inq EXCEPT ![side] = SubSeq(@, n + 1, Len(@))]
    BY <1>5 DEF ReadSide
  <2>2. inq[side] \in Seq(Unit) /\ n \in 1 .. Len(inq[side])
    BY <1>0, <2>1 DEF PumpType, SockType
  <2>3. SubSeq(inq[side], n + 1, Len(inq[side])) \in Seq(Unit)
    BY <2>2, Split
  <2>4. inq' \in [Side -> Seq(Unit)]
    BY <2>1, <2>3 DEF SockType
  <2> QED
    BY <1>5, <2>4 DEF ReadSide, SockType, Room
<1>6. CASE WriteSome
  <2>0. Other(side) \in Side
    BY OtherSide DEF PumpType
  <2>1. PICK n \in 1 .. BufSize :
          /\ n <= Len(hand) /\ n <= Room(Other(side))
          /\ got' = [got EXCEPT ![Other(side)] = @ \o SubSeq(hand, 1, n)]
    BY <1>6 DEF WriteSome
  <2>2. /\ SubSeq(hand, 1, n) \in Seq(Unit) /\ Len(SubSeq(hand, 1, n)) = n
        /\ n \in Nat /\ n > 0
    BY <1>0, <2>1, Split DEF PumpType
  <2>3. got[Other(side)] \in Seq(Unit)
    BY <2>0 DEF SockType
  <2>4. /\ got[Other(side)] \o SubSeq(hand, 1, n) \in Seq(Unit)
        /\ Len(got[Other(side)] \o SubSeq(hand, 1, n)) = Len(got[Other(side)]) + n
    BY <2>2, <2>3, Joined
  <2>5. got' \in [Side -> Seq(Unit)] /\ Len(got'[Other(side)]) = Len(got[Other(side)]) + n
    BY <2>0, <2>1, <2>4 DEF SockType
  <2>6. Len(got[Other(side)]) \in Nat /\ seen[Other(side)] \in Nat /\ seen' = seen
    BY <1>6, <2>0, <2>3 DEF WriteSome, SockType
  <2>7. Room(Other(side))' \in 0 .. SockCap
    <3>1. Room(Other(side)) \in 0 .. SockCap
      BY <2>0 DEF SockType
    <3>2. Room(Other(side)) = SockCap - (Len(got[Other(side)]) - seen[Other(side)])
      BY DEF Room
    <3>3. Room(Other(side))' = SockCap - (Len(got[Other(side)]) + n - seen[Other(side)])
      BY <1>6, <2>5, <2>6 DEF Room, WriteSome, Other
    <3> HIDE DEF Room
    <3> QED
      BY <1>0, <2>1, <2>2, <2>6, <3>1, <3>2, <3>3
  <2>8. \A t \in Side : t # Other(side) => Room(t)' = Room(t)
    BY <2>0, <2>1, <2>6 DEF Room, SockType
  <2> QED
    BY <1>6, <2>5, <2>7, <2>8 DEF WriteSome, SockType
<1>7. ASSUME NEW s \in Side, PeerSends(s) PROVE SockType'
  <2>1. [tag |-> s, n |-> sent[s] + 1] \in Unit
    BY DEF SockType, Unit, Tag
  <2>2. inq' \in [Side -> Seq(Unit)] /\ sent' \in [Side -> Nat]
    BY <1>7, <2>1 DEF PeerSends, SockType
  <2> QED
    BY <1>7, <2>2 DEF PeerSends, SockType, Room
<1>8. ASSUME NEW s \in Side, PeerReads(s) PROVE SockType'
  <2>1. /\ seen' \in [Side -> Nat] /\ seen'[s] = seen[s] + 1
        /\ \A t \in Side : t # s => seen'[t] = seen[t]
    BY <1>8 DEF PeerReads, SockType
  <2>2. got[s] \in Seq(Unit) /\ Len(got[s]) \in Nat /\ seen[s] \in Nat /\ seen[s] < Len(got[s])
    BY <1>8 DEF PeerReads, SockType
  <2>3. Room(s)' \in 0 .. SockCap
    BY <1>0, <1>8, <2>1, <2>2 DEF PeerReads, SockType, Room
  <2>4. \A t \in Side : t # s => Room(t)' = Room(t)
    BY <1>8, <2>1 DEF PeerReads, Room
  <2> QED
    BY <1>8, <2>1, <2>3, <2>4 DEF PeerReads, SockType
<1>9. ASSUME NEW s \in Side, PeerCloses(s) PROVE SockType'
  <2>1. peer' \in [Side -> {"none", "open", "half", "closed"}]
    BY <1>9 DEF PeerCloses, SockType
  <2> QED
    BY <1>9, <2>1 DEF PeerCloses, SockType, Room
<1> QED
  BY <1>1, <1>2, <1>3, <1>4, <1>5, <1>6, <1>7, <1>8, <1>9, SocketsLeftAlone DEF Next, Serve


(***************************************************************************)
(* The initial state.                                                      *)
(***************************************************************************)
\* The invariant holds when serve is called.
LEMMA InitInv == Init => Inv
<1> SUFFICES ASSUME Init PROVE Inv
  OBVIOUS
<1>0. SockCap \in Nat /\ BufSize \in Nat /\ Deadline \in Nat /\ MaxBytes \in Nat
  BY Numbers
<1>1. /\ got["client"] = <<>> /\ got["up"] = <<>> /\ hand = <<>> /\ ended = "no"
      /\ \A s \in Side : got[s] = <<>> /\ inq[s] = <<>> /\ sent[s] = 0 /\ seen[s] = 0
      /\ count["client"] = 0 /\ count["up"] = 0
  BY DEF Init, Side
<1>2. ReqType
  <2>1. cands \in Seq(Addr) /\ cleared \subseteq Addr /\ up \in Addr \cup {NoAddr}
    BY DEF Init
  <2>2. held \in BOOLEAN
    BY DEF Init
  <2> QED
    BY <2>1, <2>2 DEF Init, ReqType, Labels, Kind
<1>3. PumpType
  BY <1>0 DEF Init, PumpType, Side
<1>4. SockType
  <2>1. \A s \in Side : Room(s) \in 0 .. SockCap
    BY <1>0, <1>1 DEF Room
  <2> QED
    BY <2>1 DEF Init, SockType
<1>5. RequestShape
  BY <1>1 DEF Init, RequestShape, Tunnel
<1>6. Given("client") = 0 /\ Given("up") = 0 /\ \A s \in Side : Said(s) = 0 /\ Given(s) = 0
  BY <1>1 DEF Given, Said
<1>7. GreetedFirst
  BY <1>1, <1>6 DEF Init, GreetedFirst, Tunnel
<1>8. PumpShape
  BY <1>1 DEF Init, PumpShape
<1>9. InOrder
  BY <1>1, <1>6, OtherSide DEF Init, InOrder, InHand
<1>10. Accounts
  BY <1>0, <1>1, <1>6 DEF Init, Accounts, Passed, Counted
<1> QED
  BY <1>2, <1>3, <1>4, <1>5, <1>7, <1>8, <1>9, <1>10, TypeGroups DEF Inv

(***************************************************************************)
(* The request.                                                            *)
(***************************************************************************)
\* A step of the pump.
Pumps == \/ PumpDeadline \/ PollReady \/ PollFails \/ SkipSide \/ ReadSide \/ ReadEof \/ ReadFails
         \/ WriteSome \/ WriteFails \/ Account

\* A step of the world: a peer, or the clock.
World == \/ \E s \in Side : PeerSends(s) \/ PeerReads(s) \/ PeerCloses(s)
         \/ Tick

\* The pump runs in a tunnel and leaves it only to close; the world does not move serve.
LEMMA PumpMoves ==
  /\ Pumps => pc \in Tunnel /\ pc' \in Tunnel \cup {"close"} /\ UNCHANGED reqVars
  /\ World => pc' = pc /\ got' = got /\ UNCHANGED reqVars
<1>1. ASSUME Pumps PROVE pc \in Tunnel /\ pc' \in Tunnel \cup {"close"} /\ UNCHANGED reqVars
  <2>1. pc \in Tunnel /\ pc' \in Tunnel \cup {"close"}
    BY <1>1 DEF Pumps, PumpDeadline, PollReady, PollFails, SkipSide, ReadSide, ReadEof, ReadFails,
         WriteSome, WriteFails, Account, NextSide, PumpReturns, Tunnel
  <2> QED
    BY <1>1, <2>1, RequestLeftAlone DEF Pumps
<1>2. ASSUME World PROVE pc' = pc /\ got' = got /\ UNCHANGED reqVars
  <2>1. pc' = pc /\ got' = got
    BY <1>2 DEF World, PeerSends, PeerReads, PeerCloses, Tick, sockVars
  <2> QED
    BY <1>2, <2>1, RequestLeftAlone DEF World
<1> QED
  BY <1>1, <1>2

\* Where serve is goes on deciding what the request has led to.
LEMMA RequestStep ==
  ASSUME ReqType, RequestShape, [Next]_vars
  PROVE  RequestShape'
<1>1. CASE Refuse
  BY <1>1 DEF Refuse, RequestShape, Tunnel, reqVars, sockVars
<1>2. ASSUME NEW r \in Replies, AskPolicy(r) PROVE RequestShape'
  <2>1. CASE Verdict(r) = "no"
    <3>1. r.kind \in Kind /\ r.forward \in BOOLEAN
      BY DEF Replies
    <3>2. r.kind \in {"connect", "absolute"}
      BY <2>1, <3>1 DEF Verdict, Kind
    <3>3. r.kind = "absolute" => r.forward = TRUE
      BY <2>1, <3>1, <3>2 DEF Verdict, Accepted
    <3>4. /\ pc = "start" /\ caller = "uds" /\ caller' = caller /\ pc' = "resolve"
          /\ kind' = r.kind /\ held' = r.forward /\ UNCHANGED <<cands, cleared, up>>
      BY <1>2, <2>1 DEF AskPolicy
    <3> QED
      BY <3>2, <3>3, <3>4 DEF RequestShape, Tunnel
  <2>2. CASE Verdict(r) # "no"
    <3>1. /\ pc = "start" /\ caller = "uds" /\ caller' = caller /\ pc' = "deny"
          /\ UNCHANGED <<kind, held, cands, cleared, up>>
      BY <1>2, <2>2 DEF AskPolicy
    <3> QED
      BY <3>1 DEF RequestShape, Tunnel
  <2> QED
    BY <2>1, <2>2
<1>3. CASE Deny
  BY <1>3 DEF Deny, RequestShape, Tunnel, reqVars
<1>4. CASE ResolveFails \/ NoCandidate
  <2>1. pc \in {"resolve", "candidate"} /\ pc' = "deny" /\ held' = FALSE
        /\ UNCHANGED <<caller, kind, cleared, up, cands, got>>
    BY <1>4 DEF ResolveFails, NoCandidate, DialFailed, sockVars
  <2> QED
    BY <2>1 DEF RequestShape, Tunnel
<1>5. CASE Resolve
  BY <1>5 DEF Resolve, RequestShape, Tunnel
<1>6. ASSUME NEW r \in AddressAnswers, AskAddress(r) PROVE RequestShape'
  <2>1. pc = "candidate" /\ cands # <<>> /\ UNCHANGED <<caller, kind, held, up, got>>
    BY <1>6 DEF AskAddress, sockVars
  <2>2. caller = "uds" /\ up = NoAddr
    BY <2>1 DEF RequestShape, Tunnel
  <2>3. CASE proxy_address_blocked(r)
    <3>1. pc' = "candidate"
      BY <1>6, <2>1, <2>3 DEF AskAddress
    <3> QED
      BY <2>1, <2>2, <3>1 DEF RequestShape, Tunnel
  <2>4. CASE ~proxy_address_blocked(r)
    <3>1. SaysNotBlocked(r)
      BY <2>4 DEF proxy_address_blocked, SaysNotBlocked
    <3>2. pc' = "connect" /\ cands' = cands /\ cleared' = {Head(cands)}
      BY <1>6, <2>4, <3>1 DEF AskAddress
    <3> QED
      BY <2>1, <2>2, <3>2 DEF RequestShape, Tunnel
  <2> QED
    BY <2>3, <2>4
<1>8. CASE ConnectFails
  BY <1>8 DEF ConnectFails, RequestShape, Tunnel
<1>9. CASE Connect
  <2>1. /\ pc = "connect" /\ pc' = "greet" /\ up' = Head(cands) /\ Head(cands) \in cleared
        /\ UNCHANGED <<caller, kind, held, cands, cleared, got>>
    BY <1>9 DEF Connect, RequestShape
  <2>2. Head(cands) # NoAddr /\ caller = "uds"
    BY <2>1, ProxyAssumption DEF ReqType, RequestShape
  <2> QED
    BY <2>1, <2>2 DEF RequestShape, Tunnel
<1>10. CASE Greet
  BY <1>10 DEF Greet, RequestShape, Tunnel, reqVars
<1>11. CASE GreetFails
  BY <1>11 DEF GreetFails, RequestShape, Tunnel, reqVars
<1>12. CASE Pumps
  <2>1. pc \in Tunnel /\ pc' \in Tunnel \cup {"close"} /\ UNCHANGED reqVars
    BY <1>12, PumpMoves
  <2> QED
    BY <2>1 DEF RequestShape, Tunnel, reqVars
<1>13. CASE Close
  BY <1>13 DEF Close, RequestShape, Tunnel, sockVars
<1>14. CASE World
  BY <1>14, PumpMoves DEF RequestShape, Tunnel, reqVars
<1>15. CASE Terminated \/ UNCHANGED vars
  BY <1>15 DEF RequestShape, Terminated, vars, Tunnel
<1> QED
  BY <1>1, <1>2, <1>3, <1>4, <1>5, <1>6, <1>8, <1>9, <1>10, <1>11, <1>12, <1>13, <1>14, <1>15
  DEF Next, Serve, Pumps, World


(***************************************************************************)
(* What a side is handed.                                                  *)
(***************************************************************************)
\* Serve says at most one thing to a side; the rest is payload.
LEMMA SaidOnce ==
  ASSUME SockType, NEW s \in Side
  PROVE  /\ got[s] \in Seq(Unit) /\ Len(got[s]) \in Nat
         /\ Said(s) \in 0 .. 1 /\ Said(s) <= Len(got[s])
         /\ Given(s) \in Nat /\ Len(got[s]) = Said(s) + Given(s)
         /\ got[s] = <<>> => Said(s) = 0 /\ Given(s) = 0
<1>1. got[s] \in Seq(Unit) /\ Len(got[s]) \in Nat
  BY DEF SockType
<1>2. Said(s) \in 0 .. 1 /\ Said(s) <= Len(got[s])
  BY <1>1 DEF Said
<1>3. got[s] = <<>> => Said(s) = 0 /\ Given(s) = 0
  BY DEF Said, Given
<1> QED
  BY <1>1, <1>2, <1>3 DEF Given

\* A side whose units do not change keeps what is counted of them.
LEMMA SaidSame ==
  ASSUME NEW s, got'[s] = got[s]
  PROVE  Said(s)' = Said(s) /\ Given(s)' = Given(s)
  BY DEF Said, Given

\* Serve speaks to a side that has been handed nothing.
LEMMA Spoken ==
  ASSUME SockType, NEW s \in Side, got[s] = <<>>, NEW u \in Unit, u.tag \notin Side,
         got' = [got EXCEPT ![s] = Append(@, u)]
  PROVE  /\ got'[s] # <<>> /\ got'[s][1] = u /\ Len(got'[s]) = 1
         /\ Said(s)' = 1
         /\ \A t \in Side : Given(t)' = Given(t)
         /\ \A t \in Side : t # s => got'[t] = got[t] /\ Said(t)' = Said(t)
<1>1. got'[s] = <<u>>
  BY DEF SockType
<1>2. Said(s)' = 1
  BY <1>1 DEF Said
<1>3. Given(s) = 0 /\ Given(s)' = 0
  BY <1>1, <1>2 DEF Given, Said
<1>4. \A t \in Side : t # s => got'[t] = got[t] /\ Said(t)' = Said(t) /\ Given(t)' = Given(t)
  BY SaidSame DEF SockType
<1> QED
  BY <1>1, <1>2, <1>3, <1>4

\* One round of write_all, of n units, to side o.
Writes(o, n) ==
  /\ pc = "write" /\ pc' = "write" /\ o = Other(side)
  /\ n \in Nat /\ n > 0 /\ n <= Len(hand)
  /\ got' = [got EXCEPT ![o] = @ \o SubSeq(hand, 1, n)]
  /\ hand' = SubSeq(hand, n + 1, Len(hand))
  /\ UNCHANGED <<reqVars, ready, side, size, total, count, elapsed, ended, inq, seen, sent, peer>>

\* WriteSome is such a round, to the other side.
LEMMA WriteIsSome ==
  ASSUME WriteSome, PumpType
  PROVE  \E o \in Side : \E n \in 1 .. BufSize : Writes(o, n)
<1>1. Other(side) \in Side
  BY OtherSide DEF PumpType
<1>2. PICK n \in 1 .. BufSize :
        /\ n <= Len(hand)
        /\ got' = [got EXCEPT ![Other(side)] = @ \o SubSeq(hand, 1, n)]
        /\ hand' = SubSeq(hand, n + 1, Len(hand))
  BY DEF WriteSome
<1>3. n \in Nat /\ n > 0
  BY Numbers
<1>4. /\ pc = "write" /\ pc' = "write"
      /\ UNCHANGED <<reqVars, ready, side, size, total, count, elapsed, ended, inq, seen, sent,
                     peer>>
  BY DEF WriteSome
<1>5. Writes(Other(side), n)
  BY <1>2, <1>3, <1>4 DEF Writes
<1> QED
  BY <1>1, <1>5

\* What a round of write_all moves.
LEMMA Written ==
  ASSUME PumpType, SockType, InOrder, NEW o \in Side, NEW n, Writes(o, n)
  PROVE  /\ o # side /\ Other(o) = side /\ Other(side) = o /\ side' = side
         /\ Len(hand') = Len(hand) - n /\ Len(hand) \in Nat /\ n \in 1 .. Len(hand)
         /\ \A i \in 1 .. Len(hand) - n : hand'[i] = hand[n + i]
         /\ Len(got'[o]) = Len(got[o]) + n
         /\ \A i \in 1 .. Len(got[o]) : got'[o][i] = got[o][i]
         /\ \A i \in 1 .. n : got'[o][Len(got[o]) + i] = hand[i]
         /\ Said(o)' = Said(o) /\ Given(o)' = Given(o) + n
         /\ \A t \in Side : t # o => got'[t] = got[t] /\ Said(t)' = Said(t) /\ Given(t)' = Given(t)
<1>1. o # side /\ Other(o) = side /\ side \in Side /\ Other(side) = o /\ side' = side
  BY OtherSide DEF PumpType, Writes
<1>2. n \in 1 .. Len(hand) /\ hand \in Seq(Unit) /\ Len(hand) \in Nat /\ n \in Nat
  BY DEF Writes, PumpType
<1>3. /\ SubSeq(hand, 1, n) \in Seq(Unit) /\ Len(SubSeq(hand, 1, n)) = n
      /\ \A i \in 1 .. n : SubSeq(hand, 1, n)[i] = hand[i]
      /\ Len(hand') = Len(hand) - n
      /\ \A i \in 1 .. Len(hand) - n : hand'[i] = hand[n + i]
  BY <1>2, Split DEF Writes
<1>4. /\ got[o] \in Seq(Unit) /\ got'[o] = got[o] \o SubSeq(hand, 1, n)
      /\ \A t \in Side : t # o => got'[t] = got[t]
  BY <1>1 DEF Writes, SockType
<1>5. /\ Len(got'[o]) = Len(got[o]) + n
      /\ \A i \in 1 .. Len(got[o]) : got'[o][i] = got[o][i]
      /\ \A i \in 1 .. n : got'[o][Len(got[o]) + i] = hand[i]
  <2> DEFINE w == SubSeq(hand, 1, n)
  <2>1. w \in Seq(Unit) /\ Len(w) = n /\ got'[o] = got[o] \o w /\ \A i \in 1 .. n : w[i] = hand[i]
    BY <1>3, <1>4
  <2> HIDE DEF w
  <2>2. /\ Len(got[o] \o w) = Len(got[o]) + Len(w)
        /\ \A i \in 1 .. Len(got[o]) : (got[o] \o w)[i] = got[o][i]
        /\ \A i \in 1 .. Len(w) : (got[o] \o w)[Len(got[o]) + i] = w[i]
    <3>1. got[o] \in Seq(Unit) /\ w \in Seq(Unit)
      BY <1>4, <2>1
    <3> QED
      BY ONLY <3>1, Joined
  <2> QED
    BY <2>1, <2>2
<1>6. Said(o)' = Said(o)
  <2>1. CASE got[o] = <<>>
    <3>1. got'[o][1] = hand[1]
      BY <1>2, <1>5, <2>1
    <3>2. hand[1].tag \in Side
      <4>1. hand[1] = [tag |-> side, n |-> Given(Other(side)) + 1]
        BY <1>2 DEF InOrder
      <4> QED
        BY <1>1, <4>1
    <3> QED
      BY <2>1, <3>1, <3>2 DEF Said
  <2>2. CASE got[o] # <<>>
    <3>1. got'[o][1] = got[o][1] /\ got'[o] # <<>>
      BY <1>2, <1>4, <1>5, <2>2
    <3> QED
      BY <2>2, <3>1 DEF Said
  <2> QED
    BY <2>1, <2>2
<1>7. Given(o)' = Given(o) + n
  <2>1. Said(o) \in Nat /\ Len(got[o]) \in Nat
    BY SaidOnce
  <2>2. Given(o) = Len(got[o]) - Said(o) /\ Given(o)' = Len(got'[o]) - Said(o)'
    BY DEF Given
  <2> QED
    BY <1>2, <1>5, <1>6, <2>1, <2>2
<1>8. \A t \in Side : t # o => Said(t)' = Said(t) /\ Given(t)' = Given(t)
  BY <1>4, SaidSame
<1> QED
  BY <1>1, <1>2, <1>3, <1>4, <1>5, <1>6, <1>7, <1>8


\* What serve says is not payload.
LEMMA NotPayload ==
  /\ ReqType => [tag |-> refusal, n |-> HeadBytes[refusal]] \in Unit /\ refusal \notin Side
  /\ Greeting \in Unit /\ Greeting.tag \notin Side /\ Greeted \in Side
  BY DEF ReqType, Greeting, Greeted, Unit, Tag, Side, HeadBytes

\* What serve says itself, it says first: a plain upstream gets the head before the client's
\* bytes, the client of a tunnel its 200 before the upstream's.
LEMMA GreetedStep ==
  ASSUME ReqType, PumpType, SockType, RequestShape, GreetedFirst, InOrder, [Next]_vars
  PROVE  GreetedFirst'
<1>1. CASE pc \in Before /\ got' = got /\ kind' = kind /\ (pc' \in Before \/ pc' \in {"close", "done"})
  <2>1. got["client"] = <<>> /\ got["up"] = <<>>
    BY <1>1 DEF GreetedFirst
  <2>2. Given("client")' = 0
    BY <1>1, <2>1 DEF Given, Said
  <2> QED
    BY <1>1, <2>1, <2>2 DEF GreetedFirst, Tunnel, Before
<1>2. ASSUME NEW r \in Replies, AskPolicy(r) PROVE GreetedFirst'
  <2>1. pc = "start" /\ pc' \in {"resolve", "deny"} /\ got' = got
    BY <1>2 DEF AskPolicy, sockVars
  <2>2. got["client"] = <<>> /\ got["up"] = <<>>
    BY <2>1 DEF GreetedFirst, Before
  <2>3. Given("client")' = 0
    BY <2>1, <2>2 DEF Given, Said
  <2> QED
    BY <2>1, <2>2, <2>3 DEF GreetedFirst, Tunnel
<1>3. CASE Deny
  <2>1. got["client"] = <<>> /\ got["up"] = <<>>
    BY <1>3 DEF Deny, GreetedFirst, Before
  <2>2. Given("client")' = 0 /\ got'["up"] = <<>>
    <3>1. CASE got' = got
      BY <2>1, <3>1 DEF Given, Said
    <3>2. CASE got' = [got EXCEPT !["client"] = Append(@, [tag |-> refusal, n |-> HeadBytes[refusal]])]
      BY <2>1, <3>2, Spoken, NotPayload, SaidOnce DEF Side
    <3> QED
      BY <1>3, <3>1, <3>2 DEF Deny
  <2> QED
    BY <1>3, <2>1, <2>2 DEF Deny, GreetedFirst, Before, Tunnel
<1>4. CASE Greet
  <2>1. got["client"] = <<>> /\ got["up"] = <<>> /\ kind \in {"connect", "absolute"}
    BY <1>4 DEF Greet, GreetedFirst, Before, RequestShape
  <2>2. caller = "uds" /\ cleared # {} /\ UNCHANGED reqVars /\ pc' = "top"
    BY <1>4 DEF Greet, RequestShape
  <2>3. PICK g \in Side : g = Greeted /\ got[g] = <<>> /\ got' = [got EXCEPT ![g] = Append(@, Greeting)]
    BY <1>4, <2>1, NotPayload DEF Greet, Side
  <2>4. /\ got'[g] # <<>> /\ got'[g][1] = Greeting
        /\ \A t \in Side : Given(t)' = Given(t)
        /\ \A t \in Side : t # g => got'[t] = got[t]
    BY <2>3, NotPayload, Spoken
  <2>5. Given("client")' = 0
    BY <2>1, <2>4, SaidOnce DEF Side
  <2>6. Greeted' = Greeted /\ Greeting' = Greeting /\ kind' = kind /\ caller' = caller /\ cleared' = cleared
    BY <2>2 DEF Greeted, Greeting, reqVars
  <2>7. kind = "absolute" /\ got'["up"] # <<>> => got'["up"][1].tag = "head"
    BY <2>1, <2>3, <2>4 DEF Greeted, Greeting, Side
  <2> QED
    BY <2>1, <2>2, <2>3, <2>4, <2>5, <2>6, <2>7 DEF GreetedFirst, Before, Tunnel
<1>5. CASE WriteSome
  <2>1. PICK o \in Side, n \in 1 .. BufSize : Writes(o, n)
    BY <1>5, WriteIsSome
  <2>2. pc = "write" /\ pc' = "write" /\ UNCHANGED reqVars
    BY <2>1 DEF Writes
  <2>3. kind' = kind /\ caller' = caller /\ cleared' = cleared /\ Greeted' = Greeted /\ Greeting' = Greeting
    BY <2>2 DEF Greeted, Greeting, reqVars
  <2>4. /\ got[Greeted] # <<>> /\ got[Greeted][1].tag = Greeting.tag /\ caller = "uds" /\ cleared # {}
        /\ kind \in {"connect", "absolute"}
    BY <2>2 DEF GreetedFirst, RequestShape, Tunnel
  <2>5. \A t \in Side : got[t] # <<>> => got'[t] # <<>> /\ got'[t][1] = got[t][1]
    <3>1. ASSUME NEW t \in Side, got[t] # <<>> PROVE got'[t] # <<>> /\ got'[t][1] = got[t][1]
      <4>1. CASE t = o
        <5>1. Len(got[o]) \in Nat /\ Len(got[o]) > 0
          BY <3>1, <4>1, SaidOnce
        <5>2. Len(got'[o]) = Len(got[o]) + n /\ n \in Nat /\ got'[o][1] = got[o][1]
          BY <2>1, <5>1, Written, Numbers
        <5>3. got'[o] # <<>>
          BY <5>1, <5>2
        <5> QED
          BY <4>1, <5>2, <5>3
      <4>2. CASE t # o
        BY <2>1, <3>1, <4>2, Written
      <4> QED
        BY <4>1, <4>2
    <3> QED
      BY <3>1
  <2>6. got'[Greeted] # <<>> /\ got'[Greeted][1].tag = Greeting.tag
    BY <2>4, <2>5, NotPayload
  <2>7. kind = "connect" => got'["client"][1].tag = "200"
    BY <2>6 DEF Greeted, Greeting
  <2>8. kind = "absolute" => got'["up"][1].tag = "head"
    BY <2>6 DEF Greeted, Greeting
  <2> QED
    BY <2>2, <2>3, <2>4, <2>6, <2>7, <2>8 DEF GreetedFirst, Before, Tunnel
<1>6. CASE got' = got /\ UNCHANGED reqVars /\ pc \in Tunnel \cup {"close", "done"}
           /\ (pc' = pc \/ (pc \in Tunnel /\ pc' \in Tunnel \cup {"close"}))
  <2>1. UNCHANGED <<Greeted, Greeting, Given("client"), kind, caller, cleared>>
    BY <1>6 DEF Greeted, Greeting, Given, Said, reqVars
  <2> QED
    BY <1>6, <2>1 DEF GreetedFirst, Tunnel, Before
<1>7. CASE Refuse \/ ResolveFails \/ Resolve
           \/ (\E r \in AddressAnswers : AskAddress(r)) \/ NoCandidate \/ ConnectFails
           \/ Connect \/ GreetFails
  <2>1. pc \in Before /\ got' = got /\ kind' = kind
    BY <1>7 DEF Refuse, ResolveFails, NoCandidate, DialFailed, Resolve, AskAddress, ConnectFails,
                Connect, GreetFails, Before, sockVars, reqVars
  <2>2. pc' \in Before \/ pc' \in {"close", "done"}
    BY <1>7 DEF Refuse, ResolveFails, NoCandidate, DialFailed, Resolve, AskAddress, ConnectFails,
                Connect, GreetFails, Before
  <2> QED
    BY <1>1, <2>1, <2>2
<1>8. CASE Pumps /\ ~WriteSome
  <2>1. got' = got
    BY <1>8, SocketsLeftAlone DEF Pumps, ReadSide, sockVars
  <2> QED
    BY <1>6, <1>8, <2>1, PumpMoves
<1>9. CASE Close
  BY <1>9 DEF Close, GreetedFirst, Before, Tunnel, sockVars, Given, Said
<1>10. CASE World \/ Terminated \/ UNCHANGED vars
  <2>1. pc' = pc /\ got' = got /\ UNCHANGED reqVars
    BY <1>10, PumpMoves DEF Terminated, vars, reqVars
  <2>2. CASE pc \in Before
    <3>1. kind' = kind
      BY <2>1 DEF reqVars
    <3> QED
      BY <1>1, <2>1, <2>2, <3>1
  <2>3. CASE pc \notin Before
    BY <1>6, <2>1, <2>3 DEF ReqType, Labels, Before, Tunnel
  <2> QED
    BY <2>2, <2>3
<1> QED
  BY <1>2, <1>3, <1>4, <1>5, <1>7, <1>8, <1>9, <1>10 DEF Next, Serve, Pumps, World


(***************************************************************************)
(* The pump.                                                               *)
(***************************************************************************)
\* A side that has something to read still has it after a step of the world.
LEMMA StaysReadable ==
  ASSUME SockType, World, NEW t \in Side, Readable(t)
  PROVE  Readable(t)'
<1>1. ASSUME NEW s \in Side, PeerSends(s) PROVE Readable(t)'
  <2>1. inq' = [inq EXCEPT ![s] = Append(@, [tag |-> s, n |-> sent[s] + 1])] /\ peer' = peer
    BY <1>1 DEF PeerSends
  <2>2. inq[t] # <<>> => inq'[t] # <<>>
    <3>1. CASE t = s
      <4>1. inq'[t] = Append(inq[t], [tag |-> s, n |-> sent[s] + 1]) /\ inq[t] \in Seq(Unit)
        BY <2>1, <3>1 DEF SockType
      <4> QED
        BY ONLY <4>1
    <3>2. CASE t # s
      BY <2>1, <3>2 DEF SockType
    <3> QED
      BY <3>1, <3>2
  <2> QED
    BY <2>1, <2>2 DEF Readable
<1>2. ASSUME NEW s \in Side, PeerReads(s) PROVE Readable(t)'
  BY <1>2 DEF PeerReads, Readable
<1>3. ASSUME NEW s \in Side, PeerCloses(s) PROVE Readable(t)'
  BY <1>3 DEF PeerCloses, Readable, SockType
<1>4. CASE Tick
  BY <1>4 DEF Tick, Readable, sockVars
<1> QED
  BY <1>1, <1>2, <1>3, <1>4 DEF World

\* A side that poll reported is still readable when the pump reaches it, and what poll saw of a
\* side at its end stays so: an ended side neither sends nor reopens.
LEMMA PumpShapeStep ==
  ASSUME ReqType, PumpType, SockType, PumpShape, [Next]_vars
  PROVE  PumpShape'
<1>1. CASE PumpDeadline \/ PollFails \/ ReadFails
  <2>1. pc' = "close" /\ hand' = hand /\ ended' \in {"deadline", "poll", "read"} /\ pc \in {"top", "side"}
    BY <1>1 DEF PumpDeadline, PollFails, ReadFails, PumpReturns
  <2> QED
    BY <2>1 DEF PumpShape
<1>2. CASE ReadEof
  <2>1. Readable(side) /\ inq[side] = <<>>
    BY <1>2 DEF ReadEof, PumpShape
  <2>2. pc' = "close" /\ ended' = "eof" /\ hand' = hand /\ hand = <<>>
        /\ UNCHANGED <<side, inq, peer>>
    BY <1>2 DEF ReadEof, PumpShape, PumpReturns, sockVars
  <2> QED
    BY <2>1, <2>2 DEF PumpShape, Readable
<1>3. CASE PollReady
  <2>1. /\ pc = "top" /\ pc' = "side" /\ hand' = hand /\ ended' = ended /\ UNCHANGED <<inq, peer>>
        /\ ready' = {s \in Side : Readable(s)}
    BY <1>3 DEF PollReady, sockVars
  <2> QED
    BY <2>1 DEF PumpShape, Readable
<1>4. CASE SkipSide
  <2>1. /\ pc = "side" /\ UNCHANGED <<hand, ended, ready, inq, peer>>
        /\ pc' \in {"side", "top"} /\ (pc' = "side" => side' = "up")
    BY <1>4 DEF SkipSide, NextSide, sockVars
  <2> QED
    BY <2>1 DEF PumpShape, Readable
<1>5. CASE ReadSide
  <2>1. PICK n \in 1 .. BufSize : inq' = [inq EXCEPT ![side] = SubSeq(@, n + 1, Len(@))]
    BY <1>5 DEF ReadSide
  <2>2. pc = "side" /\ pc' = "write" /\ UNCHANGED <<side, ready, ended, peer>>
    BY <1>5 DEF ReadSide
  <2>3. side = "client" => inq'["up"] = inq["up"]
    BY <2>1 DEF SockType, Side
  <2> QED
    BY <2>2, <2>3 DEF PumpShape, Readable
<1>6. CASE WriteSome
  <2>1. pc = "write" /\ pc' = "write" /\ UNCHANGED <<side, ready, ended, inq, peer>>
    BY <1>6 DEF WriteSome
  <2> QED
    BY <2>1 DEF PumpShape, Readable
<1>7. CASE WriteFails
  BY <1>7 DEF WriteFails, PumpReturns, PumpShape
<1>8. CASE Account
  <2>1. /\ pc = "write" /\ hand = <<>> /\ hand' = hand /\ UNCHANGED <<ready, inq, peer>>
        /\ \/ pc' = "close" /\ ended' = "cap"
           \/ pc' = "top" /\ ended' = ended
           \/ pc' = "side" /\ ended' = ended /\ side = "client" /\ side' = "up"
    BY <1>8 DEF Account, PumpReturns, NextSide, sockVars
  <2> QED
    BY <2>1 DEF PumpShape, Readable
<1>9. CASE World
  <2>1. pc' = pc /\ UNCHANGED <<hand, ended, ready, side>>
    BY <1>9, PumpMoves DEF World, PeerSends, PeerReads, PeerCloses, Tick, pumpVars
  <2>2. \A s \in Side : Readable(s) => Readable(s)'
    BY <1>9, StaysReadable
  <2>3. "up" \in Side /\ side \in Side /\ ready \subseteq Side
    BY DEF PumpType, Side
  <2>4. ASSUME ended = "eof" PROVE peer'[side] \in {"half", "closed"} /\ inq'[side] = <<>>
    <3>0. peer[side] \in {"half", "closed"} /\ inq[side] = <<>>
      BY <2>4 DEF PumpShape
    <3>1. ASSUME NEW s \in Side, PeerSends(s) PROVE peer' = peer /\ inq'[side] = inq[side]
      BY <2>3, <3>0, <3>1 DEF PeerSends, SockType
    <3>2. ASSUME NEW s \in Side, PeerReads(s) PROVE peer' = peer /\ inq' = inq
      BY <3>2 DEF PeerReads
    <3>3. ASSUME NEW s \in Side, PeerCloses(s)
          PROVE  peer'[side] \in {"half", "closed"} /\ inq' = inq
      BY <2>3, <3>0, <3>3 DEF PeerCloses, SockType
    <3>4. CASE Tick
      BY <3>0, <3>4 DEF Tick, sockVars
    <3> QED
      BY <1>9, <3>0, <3>1, <3>2, <3>3, <3>4 DEF World
  <2>5. pc = "side" => \A s \in ready : s = side \/ s = "up" => Readable(s)'
    BY <2>2, <2>3 DEF PumpShape
  <2>6. pc = "write" /\ side = "client" /\ "up" \in ready => Readable("up")'
    BY <2>2, <2>3 DEF PumpShape
  <2> QED
    BY <2>1, <2>4, <2>5, <2>6 DEF PumpShape
<1>10. CASE Terminated \/ UNCHANGED vars
  BY <1>10 DEF Terminated, vars, PumpShape, Readable
<1>11. CASE Refuse \/ (\E r \in Replies : AskPolicy(r)) \/ Deny \/ ResolveFails \/ Resolve
            \/ (\E r \in AddressAnswers : AskAddress(r))
            \/ NoCandidate \/ ConnectFails \/ Connect \/ Greet \/ GreetFails
  <2>1. UNCHANGED pumpVars
    BY <1>11, PumpLeftAlone
  <2>2. pc \in Before
    BY <1>11 DEF Refuse, AskPolicy, Deny, ResolveFails, Resolve, AskAddress, NoCandidate,
                 ConnectFails, Connect, Greet, GreetFails, Before
  <2>3. pc' \notin {"side", "write"}
    BY <1>11 DEF Refuse, AskPolicy, Deny, ResolveFails, Resolve, AskAddress, NoCandidate,
                 DialFailed, ConnectFails, Connect, Greet, GreetFails
  <2> QED
    BY <2>1, <2>2, <2>3 DEF PumpShape, pumpVars, Before
<1>12. CASE Close
  BY <1>12 DEF Close, PumpShape, pumpVars, sockVars
<1> QED
  BY <1>1, <1>2, <1>3, <1>4, <1>5, <1>6, <1>7, <1>8, <1>9, <1>10, <1>11, <1>12
  DEF Next, Serve, World


(***************************************************************************)
(* The order of what passes.                                               *)
(***************************************************************************)
\* The three parts of InOrder: the units handed to s, those in hand, those s still has queued.
HandedInOrder(s) ==
  \A i \in 1 .. Len(got[s]) : i > Said(s) => got[s][i] = [tag |-> Other(s), n |-> i - Said(s)]

HandInOrder == \A i \in 1 .. Len(hand) : hand[i] = [tag |-> side, n |-> Given(Other(side)) + i]

QueueInOrder(s) ==
  ~Dropped(s) =>
    /\ \A i \in 1 .. Len(inq[s]) :
         inq[s][i] = [tag |-> s, n |-> Given(Other(s)) + InHand(s) + i]
    /\ Given(Other(s)) + InHand(s) + Len(inq[s]) = sent[s]

\* InOrder is its three parts.
LEMMA OrderParts ==
  InOrder <=> (\A s \in Side : HandedInOrder(s)) /\ HandInOrder /\ (\A s \in Side : QueueInOrder(s))
  BY DEF InOrder, HandedInOrder, HandInOrder, QueueInOrder

\* The pump gives up on a side only in WriteFails.
LEMMA DroppedOnce ==
  ASSUME PumpShape, [Next]_vars, NEW s \in Side, ~WriteFails, ~Dropped(s)'
  PROVE  ~Dropped(s)
<1>1. CASE ended = "no"
  BY <1>1 DEF Dropped
<1>2. CASE ended # "no"
  <2>1. pc \in {"close", "done"}
    BY <1>2 DEF PumpShape
  <2>2. ~Pumps
    BY <2>1, PumpMoves DEF Tunnel
  <2>3. UNCHANGED <<ended, side>>
    <3>1. CASE Tick
      BY <3>1 DEF Tick
    <3>2. CASE ~Tick
      BY <2>2, <3>2, PumpLeftAlone DEF Next, Serve, Pumps, pumpVars
    <3> QED
      BY <3>1, <3>2
  <2> QED
    BY <2>3 DEF Dropped
<1> QED
  BY <1>1, <1>2

\* A step that moves no unit: what is in hand may only change side when it is nothing.
LEMMA NothingMoves ==
  ASSUME PumpType, InOrder, UNCHANGED <<inq, got, sent, hand>>, side' = side \/ hand = <<>>,
         \A s \in Side : ~Dropped(s)' => ~Dropped(s)
  PROVE  InOrder'
<1>1. \A s \in Side : Said(s)' = Said(s) /\ Given(s)' = Given(s) /\ Given(Other(s))' = Given(Other(s))
  BY DEF Said, Given, Other
<1>2. ASSUME NEW s \in Side PROVE HandedInOrder(s)'
  <2>1. HandedInOrder(s)
    BY OrderParts
  <2> QED
    BY <1>1, <2>1 DEF HandedInOrder
<1>3. HandInOrder'
  <2>1. CASE hand = <<>>
    BY <2>1 DEF HandInOrder
  <2>2. CASE side' = side
    <3>1. Given(Other(side))' = Given(Other(side))
      BY <2>2 DEF Given, Said, Other
    <3> QED
      BY <2>2, <3>1, OrderParts DEF HandInOrder
  <2> QED
    BY <2>1, <2>2
<1>4. ASSUME NEW s \in Side PROVE QueueInOrder(s)'
  <2>1. InHand(s)' = InHand(s)
    BY DEF InHand
  <2>2. QueueInOrder(s)
    BY OrderParts
  <2> QED
    BY <1>1, <2>1, <2>2 DEF QueueInOrder
<1> QED
  BY <1>2, <1>3, <1>4 DEF InOrder, HandedInOrder, HandInOrder, QueueInOrder

\* Serve speaks to a side that has been handed nothing, while nothing is in hand.
LEMMA SpeechKeepsOrder ==
  ASSUME PumpType, SockType, InOrder, hand = <<>>, NEW s \in Side, got[s] = <<>>,
         NEW u \in Unit, u.tag \notin Side,
         got' = [got EXCEPT ![s] = Append(@, u)], UNCHANGED <<inq, sent, hand, side, ended>>
  PROVE  InOrder'
<1>1. /\ Len(got'[s]) = 1 /\ Said(s)' = 1
      /\ \A t \in Side : Given(t)' = Given(t)
      /\ \A t \in Side : t # s => got'[t] = got[t] /\ Said(t)' = Said(t)
  BY Spoken
<1>2. ASSUME NEW t \in Side PROVE HandedInOrder(t)'
  <2>1. HandedInOrder(t)
    BY OrderParts
  <2>2. CASE t = s
    BY <1>1, <2>2 DEF HandedInOrder
  <2>3. CASE t # s
    BY <1>1, <2>1, <2>3 DEF HandedInOrder
  <2> QED
    BY <2>2, <2>3
<1>3. HandInOrder'
  BY DEF HandInOrder
<1>4. ASSUME NEW t \in Side PROVE QueueInOrder(t)'
  <2>1. InHand(t)' = InHand(t) /\ Dropped(t)' = Dropped(t)
    BY DEF InHand, Dropped
  <2>2. Given(Other(t))' = Given(Other(t))
    BY <1>1, OtherSide
  <2>3. QueueInOrder(t)
    BY OrderParts
  <2> QED
    BY <2>1, <2>2, <2>3 DEF QueueInOrder
<1> QED
  BY <1>2, <1>3, <1>4 DEF InOrder, HandedInOrder, HandInOrder, QueueInOrder


\* A read takes the first units of a side into the pump's empty hand.
LEMMA ReadKeepsOrder ==
  ASSUME PumpType, SockType, PumpShape, InOrder, [Next]_vars, ReadSide
  PROVE  InOrder'
<1>0. /\ hand = <<>> /\ ~Dropped(side) /\ side \in Side
  BY DEF ReadSide, PumpShape, Dropped, PumpType
<1>1. PICK n \in 1 .. BufSize :
        /\ n <= Len(inq[side]) /\ hand' = SubSeq(inq[side], 1, n)
        /\ inq' = [inq EXCEPT ![side] = SubSeq(@, n + 1, Len(@))]
  BY DEF ReadSide
<1>2. UNCHANGED <<side, got, sent, ended>>
  BY DEF ReadSide
<1>3. inq[side] \in Seq(Unit) /\ n \in 1 .. Len(inq[side]) /\ n \in Nat /\ Len(inq[side]) \in Nat
  BY <1>0, <1>1, Numbers DEF SockType
<1>4. /\ Len(hand') = n /\ \A i \in 1 .. n : hand'[i] = inq[side][i]
  BY <1>1, <1>3, Split
<1>5. /\ Len(inq'[side]) = Len(inq[side]) - n
      /\ \A i \in 1 .. Len(inq[side]) - n : inq'[side][i] = inq[side][n + i]
  <2>1. inq'[side] = SubSeq(inq[side], n + 1, Len(inq[side]))
    BY <1>0, <1>1 DEF SockType
  <2> QED
    BY <1>3, <2>1, Split
<1>6. \A s \in Side : Given(s)' = Given(s) /\ Said(s)' = Said(s) /\ Dropped(s)' = Dropped(s)
  BY <1>2 DEF Given, Said, Dropped
<1>7. Other(side) \in Side /\ Given(Other(side)) \in Nat /\ Other(side)' = Other(side)
  BY <1>0, <1>2, OtherSide, SaidOnce DEF Other
<1>8. ASSUME NEW s \in Side PROVE HandedInOrder(s)'
  <2>1. HandedInOrder(s)
    BY OrderParts
  <2> QED
    BY <1>2, <1>6, <2>1 DEF HandedInOrder
<1>9. /\ \A i \in 1 .. Len(inq[side]) :
           inq[side][i] = [tag |-> side, n |-> Given(Other(side)) + i]
      /\ Given(Other(side)) + Len(inq[side]) = sent[side]
  <2>1. QueueInOrder(side) /\ InHand(side) = 0
    BY <1>0, OrderParts DEF InHand
  <2>2. Given(Other(side)) + InHand(side) = Given(Other(side))
    BY <1>7, <2>1
  <2> QED
    BY <1>0, <2>1, <2>2 DEF QueueInOrder
<1>10. Given(Other(side))' = Given(Other(side))
  BY <1>2 DEF Given, Said, Other
<1>11. HandInOrder'
  <2>1. \A i \in 1 .. n : hand'[i] = [tag |-> side, n |-> Given(Other(side)) + i]
    <3>1. ASSUME NEW i \in 1 .. n PROVE hand'[i] = [tag |-> side, n |-> Given(Other(side)) + i]
      <4>1. i \in 1 .. Len(inq[side])
        BY <1>3
      <4> QED
        BY <1>4, <1>9, <4>1
    <3> QED
      BY <3>1
  <2> QED
    BY <1>2, <1>4, <1>10, <2>1 DEF HandInOrder
<1>12. ASSUME NEW s \in Side PROVE QueueInOrder(s)'
  <2>1. CASE s = side
    <3>1. InHand(s)' = n /\ Given(Other(s))' = Given(Other(s)) /\ Given(Other(s)) \in Nat
      BY <1>2, <1>4, <1>7, <1>10, <2>1, OtherSide, <1>6 DEF InHand
    <3>2. \A i \in 1 .. Len(inq'[s]) : inq'[s][i] = [tag |-> s, n |-> Given(Other(s)) + n + i]
      <4>1. ASSUME NEW i \in 1 .. Len(inq'[s])
            PROVE  inq'[s][i] = [tag |-> s, n |-> Given(Other(s)) + n + i]
        <5>1. n + i \in 1 .. Len(inq[side]) /\ i \in 1 .. Len(inq[side]) - n
          BY <1>3, <1>5, <2>1
        <5>2. inq'[s][i] = [tag |-> side, n |-> Given(Other(side)) + (n + i)]
          BY <1>5, <1>9, <2>1, <5>1
        <5>3. Given(Other(side)) + (n + i) = Given(Other(side)) + n + i
          BY <1>3, <1>7, <5>1
        <5> QED
          BY <2>1, <5>2, <5>3
      <4> QED
        BY <4>1
    <3>3. Given(Other(s)) + n + Len(inq'[s]) = sent'[s]
      BY <1>2, <1>3, <1>5, <1>7, <1>9, <2>1
    <3> QED
      BY <3>1, <3>2, <3>3 DEF QueueInOrder
  <2>2. CASE s # side
    <3>1. InHand(s)' = InHand(s) /\ inq'[s] = inq[s] /\ Given(Other(s))' = Given(Other(s))
      BY <1>1, <1>2, <1>6, <2>2, OtherSide DEF InHand, SockType
    <3>2. QueueInOrder(s)
      BY OrderParts
    <3> QED
      BY <1>2, <1>6, <3>1, <3>2 DEF QueueInOrder
  <2> QED
    BY <2>1, <2>2
<1> QED
  BY <1>8, <1>11, <1>12 DEF InOrder, HandedInOrder, HandInOrder, QueueInOrder

\* A round of write_all hands over the first units in hand.
LEMMA WriteKeepsOrder ==
  ASSUME PumpType, SockType, InOrder, WriteSome
  PROVE  InOrder'
<1>1. PICK o \in Side, n \in 1 .. BufSize : Writes(o, n)
  BY WriteIsSome
<1>2. /\ o # side /\ Other(o) = side /\ Other(side) = o /\ side' = side
      /\ Len(hand') = Len(hand) - n /\ Len(hand) \in Nat /\ n \in 1 .. Len(hand)
      /\ \A i \in 1 .. Len(hand) - n : hand'[i] = hand[n + i]
  BY <1>1, Written
<1>3. /\ Len(got'[o]) = Len(got[o]) + n
      /\ \A i \in 1 .. Len(got[o]) : got'[o][i] = got[o][i]
      /\ \A i \in 1 .. n : got'[o][Len(got[o]) + i] = hand[i]
      /\ Said(o)' = Said(o) /\ Given(o)' = Given(o) + n
  BY <1>1, Written
<1>4. \A t \in Side : t # o => got'[t] = got[t] /\ Said(t)' = Said(t) /\ Given(t)' = Given(t)
  BY <1>1, Written
<1>5. UNCHANGED <<inq, sent, ended>>
  BY <1>1 DEF Writes
<1>6. /\ Len(got[o]) \in Nat /\ Said(o) \in Nat /\ Given(o) \in Nat /\ n \in Nat
      /\ Len(got[o]) = Said(o) + Given(o)
  BY <1>2, SaidOnce
<1>7. side \in Side /\ \A s \in Side : Dropped(s)' = Dropped(s)
  BY <1>2, <1>5 DEF PumpType, Dropped
<1>8. \A i \in 1 .. Len(hand) : hand[i] = [tag |-> side, n |-> Given(o) + i]
  BY <1>2, OrderParts DEF HandInOrder
<1>9. ASSUME NEW s \in Side PROVE HandedInOrder(s)'
  <2>1. HandedInOrder(s)
    BY OrderParts
  <2>2. CASE s = o
    <3>1. ASSUME NEW i \in 1 .. Len(got'[o]), i > Said(o)
          PROVE  got'[o][i] = [tag |-> side, n |-> i - Said(o)]
      <4>1. CASE i <= Len(got[o])
        <5>1. i \in 1 .. Len(got[o])
          BY <1>6, <4>1
        <5> QED
          BY <1>2, <1>3, <2>1, <2>2, <3>1, <5>1 DEF HandedInOrder
      <4>2. CASE ~(i <= Len(got[o]))
        <5>0. i \in 1 .. (Len(got[o]) + n)
          BY <1>3
        <5>1. i - Len(got[o]) \in 1 .. n /\ i = Len(got[o]) + (i - Len(got[o]))
          <6>1. Len(got[o]) \in Nat /\ n \in Nat
            BY <1>6
          <6> QED
            BY ONLY <4>2, <5>0, <6>1
        <5>2. got'[o][i] = hand[i - Len(got[o])] /\ i - Len(got[o]) \in 1 .. Len(hand)
          BY <1>2, <1>3, <5>1
        <5>3. got'[o][i] = [tag |-> side, n |-> Given(o) + (i - Len(got[o]))]
          BY <1>8, <5>2
        <5>4. Given(o) + (i - Len(got[o])) = i - Said(o)
          BY <1>6
        <5> QED
          BY <5>3, <5>4
      <4> QED
        BY <4>1, <4>2
    <3> QED
      BY <1>2, <1>3, <2>2, <3>1 DEF HandedInOrder
  <2>3. CASE s # o
    BY <1>4, <2>1, <2>3 DEF HandedInOrder
  <2> QED
    BY <2>2, <2>3
<1>10. HandInOrder'
  <2>1. Given(Other(side))' = Given(o)'
    BY <1>2, <1>1 DEF Given, Said, Other
  <2>2. ASSUME NEW i \in 1 .. Len(hand')
        PROVE  hand'[i] = [tag |-> side, n |-> Given(o) + n + i]
    <3>1. i \in 1 .. Len(hand) - n /\ n + i \in 1 .. Len(hand)
      BY <1>2
    <3>2. hand'[i] = [tag |-> side, n |-> Given(o) + (n + i)]
      BY <1>2, <1>8, <3>1
    <3>3. Given(o) + (n + i) = Given(o) + n + i
      BY <1>6, <3>1
    <3> QED
      BY <3>2, <3>3
  <2> QED
    BY <1>2, <1>3, <2>1, <2>2 DEF HandInOrder
<1>11. ASSUME NEW s \in Side PROVE QueueInOrder(s)'
  <2>1. QueueInOrder(s)
    BY OrderParts
  <2>2. Given(Other(s))' + InHand(s)' = Given(Other(s)) + InHand(s)
    <3>1. CASE s = side
      <4>1. InHand(s) = Len(hand) /\ InHand(s)' = Len(hand) - n
        BY <1>2, <3>1 DEF InHand
      <4>2. Other(s) = o
        BY <1>2, <3>1
      <4>3. Given(Other(s)) = Given(o) /\ Given(Other(s))' = Given(o) + n
        BY <1>3, <4>2
      <4> QED
        BY <1>2, <1>6, <4>1, <4>3
    <3>2. CASE s # side
      <4>1. InHand(s) = 0 /\ InHand(s)' = 0
        BY <1>2, <3>2 DEF InHand
      <4>2. Other(s) = side /\ side # o
        BY <1>2, <1>7, <3>2, OtherSide
      <4>3. Given(Other(s))' = Given(Other(s))
        BY <1>4, <4>2, OtherSide, <1>7
      <4> QED
        BY <4>1, <4>3
    <3> QED
      BY <3>1, <3>2
  <2> QED
    BY <1>5, <1>7, <2>1, <2>2 DEF QueueInOrder
<1> QED
  BY <1>9, <1>10, <1>11 DEF InOrder, HandedInOrder, HandInOrder, QueueInOrder


\* A failing write drops what is in hand: nothing more is said of the side it was read from.
LEMMA FailKeepsOrder ==
  ASSUME PumpType, InOrder, WriteFails
  PROVE  InOrder'
<1>1. UNCHANGED <<inq, got, sent, side>> /\ hand' = <<>> /\ ended' = "write"
  BY DEF WriteFails, PumpReturns, sockVars
<1>2. \A s \in Side : Said(s)' = Said(s) /\ Given(s)' = Given(s) /\ Given(Other(s))' = Given(Other(s))
  BY <1>1 DEF Said, Given, Other
<1>3. ASSUME NEW s \in Side PROVE HandedInOrder(s)'
  <2>1. HandedInOrder(s)
    BY OrderParts
  <2> QED
    BY <1>1, <1>2, <2>1 DEF HandedInOrder
<1>4. HandInOrder'
  BY <1>1 DEF HandInOrder
<1>5. ASSUME NEW s \in Side PROVE QueueInOrder(s)'
  <2>1. CASE s = side
    BY <1>1, <2>1 DEF QueueInOrder, Dropped
  <2>2. CASE s # side
    <3>1. InHand(s)' = InHand(s) /\ ~Dropped(s)
      BY <1>1, <2>2 DEF InHand, Dropped
    <3>2. QueueInOrder(s)
      BY OrderParts
    <3> QED
      BY <1>1, <1>2, <3>1, <3>2 DEF QueueInOrder
  <2> QED
    BY <2>1, <2>2
<1> QED
  BY <1>3, <1>4, <1>5 DEF InOrder, HandedInOrder, HandInOrder, QueueInOrder

\* A peer numbers what it sends.
LEMMA SendKeepsOrder ==
  ASSUME PumpType, SockType, InOrder, NEW p \in Side, PeerSends(p)
  PROVE  InOrder'
<1>1. UNCHANGED <<got, hand, side, ended>>
  BY DEF PeerSends, pumpVars
<1>2. /\ inq' = [inq EXCEPT ![p] = Append(@, [tag |-> p, n |-> sent[p] + 1])]
      /\ sent' = [sent EXCEPT ![p] = @ + 1]
  BY DEF PeerSends
<1>3. \A s \in Side : Said(s)' = Said(s) /\ Given(s)' = Given(s) /\ Given(Other(s))' = Given(Other(s))
  BY <1>1 DEF Said, Given, Other
<1>4. ASSUME NEW s \in Side PROVE HandedInOrder(s)'
  <2>1. HandedInOrder(s)
    BY OrderParts
  <2> QED
    BY <1>1, <1>3, <2>1 DEF HandedInOrder
<1>5. HandInOrder'
  <2>1. Given(Other(side))' = Given(Other(side))
    BY <1>1 DEF Given, Said, Other
  <2> QED
    BY <1>1, <2>1, OrderParts DEF HandInOrder
<1>6. ASSUME NEW s \in Side PROVE QueueInOrder(s)'
  <2>1. InHand(s)' = InHand(s) /\ Dropped(s)' = Dropped(s)
    BY <1>1 DEF InHand, Dropped
  <2>2. QueueInOrder(s)
    BY OrderParts
  <2>3. CASE s # p
    <3>1. inq'[s] = inq[s] /\ sent'[s] = sent[s]
      BY <1>2, <2>3 DEF SockType
    <3> QED
      BY <1>3, <2>1, <2>2, <3>1 DEF QueueInOrder
  <2>4. CASE s = p /\ ~Dropped(s)
    <3>1. inq[s] \in Seq(Unit) /\ sent[s] \in Nat /\ Len(inq[s]) \in Nat
      BY DEF SockType
    <3>2. /\ inq'[s] = Append(inq[s], [tag |-> s, n |-> sent[s] + 1]) /\ sent'[s] = sent[s] + 1
      BY <1>2, <2>4 DEF SockType
    <3>3. /\ Len(inq'[s]) = Len(inq[s]) + 1
          /\ \A i \in 1 .. Len(inq[s]) : inq'[s][i] = inq[s][i]
          /\ inq'[s][Len(inq[s]) + 1] = [tag |-> s, n |-> sent[s] + 1]
      BY <3>1, <3>2
    <3>4. Given(Other(s)) \in Nat /\ InHand(s) \in Nat
      BY OtherSide, SaidOnce DEF InHand, PumpType
    <3>5. /\ \A i \in 1 .. Len(inq[s]) :
               inq[s][i] = [tag |-> s, n |-> Given(Other(s)) + InHand(s) + i]
          /\ Given(Other(s)) + InHand(s) + Len(inq[s]) = sent[s]
      BY <2>2, <2>4 DEF QueueInOrder
    <3>6. sent[s] + 1 = Given(Other(s)) + InHand(s) + (Len(inq[s]) + 1)
      BY <3>1, <3>4, <3>5
    <3>7. ASSUME NEW i \in 1 .. Len(inq'[s])
          PROVE  inq'[s][i] = [tag |-> s, n |-> Given(Other(s)) + InHand(s) + i]
      <4>1. i \in 1 .. Len(inq[s]) \/ i = Len(inq[s]) + 1
        BY <3>1, <3>3
      <4> QED
        BY <3>3, <3>5, <3>6, <4>1
    <3> QED
      BY <1>3, <2>1, <3>2, <3>3, <3>6, <3>7 DEF QueueInOrder
  <2>5. CASE Dropped(s)
    BY <2>1, <2>5 DEF QueueInOrder
  <2> QED
    BY <2>3, <2>4, <2>5
<1> QED
  BY <1>4, <1>5, <1>6 DEF InOrder, HandedInOrder, HandInOrder, QueueInOrder

\* Every step keeps every unit in one place, in order.
LEMMA OrderStep ==
  ASSUME ReqType, PumpType, SockType, GreetedFirst, PumpShape, InOrder, [Next]_vars
  PROVE  InOrder'
<1>1. CASE ReadSide
  BY <1>1, ReadKeepsOrder
<1>2. CASE WriteSome
  BY <1>2, WriteKeepsOrder
<1>3. CASE WriteFails
  BY <1>3, FailKeepsOrder
<1>4. ASSUME NEW p \in Side, PeerSends(p) PROVE InOrder'
  BY <1>4, SendKeepsOrder
<1>5. CASE Deny
  <2>1. hand = <<>> /\ got["client"] = <<>> /\ "client" \in Side
    BY <1>5 DEF Deny, PumpShape, GreetedFirst, Before, Side
  <2>2. UNCHANGED <<inq, sent, hand, side, ended>>
    BY <1>5 DEF Deny, pumpVars
  <2>3. CASE got' = got
    BY <2>2, <2>3, NothingMoves DEF Dropped
  <2>4. CASE got' = [got EXCEPT !["client"] = Append(@, [tag |-> refusal, n |-> HeadBytes[refusal]])]
    BY <2>1, <2>2, <2>4, SpeechKeepsOrder, NotPayload
  <2> QED
    BY <1>5, <2>3, <2>4 DEF Deny
<1>6. CASE Greet
  <2>1. hand = <<>> /\ got["client"] = <<>> /\ got["up"] = <<>>
    BY <1>6 DEF Greet, PumpShape, GreetedFirst, Before
  <2>2. UNCHANGED <<inq, sent, hand, side, ended>>
    BY <1>6 DEF Greet, pumpVars
  <2>3. PICK g \in Side : got[g] = <<>> /\ got' = [got EXCEPT ![g] = Append(@, Greeting)]
    BY <1>6, <2>1, NotPayload DEF Greet, Side
  <2> QED
    BY <2>1, <2>2, <2>3, SpeechKeepsOrder, NotPayload
<1>7. CASE /\ ~ReadSide /\ ~WriteSome /\ ~WriteFails /\ ~Deny /\ ~Greet
           /\ \A p \in Side : ~PeerSends(p)
  <2>1. \A s \in Side : ~Dropped(s)' => ~Dropped(s)
    BY <1>7, DroppedOnce
  <2>2. UNCHANGED <<inq, got, sent>>
    <3>1. CASE Connect \/ \E p \in Side : PeerReads(p) \/ PeerCloses(p)
      BY <3>1 DEF Connect, PeerReads, PeerCloses
    <3>2. CASE ~(Connect \/ \E p \in Side : PeerReads(p) \/ PeerCloses(p))
      BY <1>7, <3>2, SocketsLeftAlone DEF Next, Serve, sockVars
    <3> QED
      BY <3>1, <3>2
  <2>3. hand' = hand /\ (side' = side \/ hand = <<>>)
    <3>1. CASE PollReady \/ SkipSide \/ Account
      BY <3>1 DEF PollReady, SkipSide, Account, PumpShape
    <3>2. CASE PumpDeadline \/ PollFails \/ ReadEof \/ ReadFails \/ Tick
      BY <3>2 DEF PumpDeadline, PollFails, ReadEof, ReadFails, Tick
    <3>3. CASE ~(PollReady \/ SkipSide \/ Account \/ PumpDeadline \/ PollFails \/ ReadEof \/ ReadFails
                 \/ Tick)
      BY <1>7, <3>3, PumpLeftAlone DEF Next, Serve, pumpVars
    <3> QED
      BY <3>1, <3>2, <3>3
  <2> QED
    BY <2>1, <2>2, <2>3, NothingMoves
<1> QED
  BY <1>1, <1>2, <1>3, <1>4, <1>5, <1>6, <1>7


(***************************************************************************)
(* The pump's counters.                                                    *)
(***************************************************************************)
\* The counters are numbers.
LEMMA CountTypes ==
  ASSUME PumpType, SockType
  PROVE  /\ Given("client") \in Nat /\ Given("up") \in Nat /\ Passed \in Nat
         /\ count["client"] \in Nat /\ count["up"] \in Nat /\ Counted \in Nat
         /\ total \in Nat /\ size \in Nat /\ size <= BufSize /\ Len(hand) \in Nat
<1>1. "client" \in Side /\ "up" \in Side
  BY DEF Side
<1>2. Given("client") \in Nat /\ Given("up") \in Nat
  BY <1>1, SaidOnce
<1>3. count["client"] \in Nat /\ count["up"] \in Nat
  BY <1>1 DEF PumpType
<1>4. total \in Nat /\ size \in Nat /\ size <= BufSize /\ Len(hand) \in Nat
  BY Numbers DEF PumpType
<1> QED
  BY <1>2, <1>3, <1>4 DEF Passed, Counted

\* Every step keeps the counters true to what passed.
LEMMA AccountsStep ==
  ASSUME ReqType, PumpType, SockType, GreetedFirst, PumpShape, InOrder, Accounts, [Next]_vars
  PROVE  Accounts'
<1>0. /\ Passed \in Nat /\ Counted \in Nat /\ total \in Nat /\ size \in Nat /\ size <= BufSize
      /\ BufSize \in Nat /\ MaxBytes \in Nat /\ Len(hand) \in Nat
  BY CountTypes, Numbers
<1>a. got' = got => Passed' = Passed
  BY DEF Passed, Given, Said
<1>b. count' = count => Counted' = Counted
  BY DEF Counted
<1>1. CASE UNCHANGED <<got, count, total>> /\ pc \in Before /\ pc' \in Before \cup {"close", "done"}
  <2>1. Passed' = Passed /\ Counted' = Counted /\ total' = total
    BY <1>1, <1>a, <1>b
  <2> QED
    BY <1>1, <2>1 DEF Accounts, Before
<1>2. CASE UNCHANGED <<got, count>> /\ pc' \in {"close", "done"}
  <2>1. Passed' = Passed /\ Counted' = Counted
    BY <1>2, <1>a, <1>b
  <2> QED
    BY <1>2, <2>1 DEF Accounts, Before
<1>3. CASE Deny
  <2>1. got["client"] = <<>>
    BY <1>3 DEF Deny, GreetedFirst, Before
  <2>2. Passed' = Passed
    <3>1. CASE got' = got
      BY <1>a, <3>1
    <3>2. CASE got' = [got EXCEPT !["client"] = Append(@, [tag |-> refusal, n |-> HeadBytes[refusal]])]
      <4>1. \A t \in Side : Given(t)' = Given(t)
        BY <2>1, <3>2, Spoken, NotPayload DEF Side
      <4> QED
        BY <4>1 DEF Passed, Side
    <3> QED
      BY <1>3, <3>1, <3>2 DEF Deny
  <2>3. pc' = "done" /\ count' = count
    BY <1>3 DEF Deny, pumpVars
  <2> QED
    BY <1>b, <2>2, <2>3 DEF Accounts, Before
<1>4. CASE Greet
  <2>1. got["client"] = <<>> /\ got["up"] = <<>> /\ pc \in Before
    BY <1>4 DEF Greet, GreetedFirst, Before
  <2>2. PICK g \in Side : got[g] = <<>> /\ got' = [got EXCEPT ![g] = Append(@, Greeting)]
    BY <1>4, <2>1, NotPayload DEF Greet, Side
  <2>3. \A t \in Side : Given(t)' = Given(t)
    BY <2>2, NotPayload, Spoken
  <2>4. Passed' = Passed
    BY <2>3 DEF Passed, Side
  <2>5. pc' = "top" /\ count' = count /\ total' = total
    BY <1>4 DEF Greet, pumpVars
  <2>6. Passed = 0
    BY <2>1 DEF Passed, Given, Said
  <2> QED
    BY <1>0, <1>b, <2>1, <2>4, <2>5, <2>6 DEF Accounts, Before
<1>5. CASE UNCHANGED <<got, count, total>> /\ pc \in {"top", "side"} /\ pc' \in {"top", "side", "close"}
  <2>1. Passed' = Passed /\ Counted' = Counted /\ total' = total
    BY <1>5, <1>a, <1>b
  <2> QED
    BY <1>5, <2>1 DEF Accounts, Before
<1>6. CASE ReadSide
  <2>1. PICK n \in 1 .. BufSize : n <= Len(inq[side]) /\ hand' = SubSeq(inq[side], 1, n) /\ size' = n
    BY <1>6 DEF ReadSide
  <2>2. inq[side] \in Seq(Unit) /\ n \in 1 .. Len(inq[side])
    BY <1>0, <2>1 DEF PumpType, SockType
  <2>3. Len(hand') = n /\ size' = n
    BY <2>1, <2>2, Split
  <2>4. pc = "side" /\ pc' = "write" /\ UNCHANGED <<got, count, total>>
    BY <1>6 DEF ReadSide
  <2>5. Passed' = Passed /\ Counted' = Counted /\ total' = total
    BY <1>a, <1>b, <2>4
  <2>6. total = Counted /\ Passed = Counted /\ Counted <= MaxBytes
    BY <2>4 DEF Accounts
  <2> QED
    BY <1>0, <2>3, <2>4, <2>5, <2>6 DEF Accounts, Before
<1>7. CASE WriteSome
  <2>1. PICK o \in Side, n \in 1 .. BufSize : Writes(o, n)
    BY <1>7, WriteIsSome
  <2>2. /\ Len(hand') = Len(hand) - n /\ n \in 1 .. Len(hand) /\ Given(o)' = Given(o) + n
        /\ \A t \in Side : t # o => Given(t)' = Given(t)
    BY <2>1, Written
  <2>3. Passed' = Passed + n /\ n \in Nat
    <3>0. n \in Nat
      BY <1>0, <2>2
    <3>1. CASE o = "client"
      <4>1. Given("client")' = Given("client") + n /\ Given("up")' = Given("up")
        BY <2>2, <3>1 DEF Side
      <4> QED
        BY <3>0, <4>1, CountTypes DEF Passed
    <3>2. CASE o = "up"
      <4>1. Given("up")' = Given("up") + n /\ Given("client")' = Given("client")
        BY <2>2, <3>2 DEF Side
      <4> QED
        BY <3>0, <4>1, CountTypes DEF Passed
    <3> QED
      BY <3>1, <3>2 DEF Side
  <2>4. pc = "write" /\ pc' = "write" /\ UNCHANGED <<count, total, size>>
    BY <2>1 DEF Writes
  <2>5. Counted' = Counted
    BY <1>b, <2>4
  <2>6. /\ total = Counted /\ Passed + Len(hand) = Counted + size
        /\ Counted <= MaxBytes /\ Counted <= Passed
    BY <2>4 DEF Accounts
  <2>7. /\ Passed' + Len(hand') = Counted + size
        /\ Counted <= Passed' /\ Passed' <= Counted + BufSize
    BY <1>0, <2>2, <2>3, <2>6
  <2> QED
    BY <2>4, <2>5, <2>6, <2>7 DEF Accounts, Before
<1>8. CASE Account
  <2>1. /\ pc = "write" /\ hand = <<>> /\ total' = total + size /\ got' = got
        /\ side \in Side
    BY <1>8 DEF Account, sockVars, PumpType
  <2>2. total = Counted /\ Passed = Counted + size /\ Counted <= MaxBytes
    BY <1>0, <2>1 DEF Accounts
  <2>3. CASE total' > MaxBytes
    <3>1. pc' = "close" /\ count' = count
      BY <1>8, <2>3 DEF Account, PumpReturns
    <3> QED
      BY <1>2, <2>1, <3>1
  <2>4. CASE ~(total' > MaxBytes)
    <3>1. count' = [count EXCEPT ![side] = @ + size] /\ pc' \in {"top", "side"}
      BY <1>8, <2>4 DEF Account, NextSide
    <3>2. Counted' = Counted + size
      <4>1. CASE side = "client"
        <5>1. count'["client"] = count["client"] + size /\ count'["up"] = count["up"]
          BY <3>1, <4>1 DEF PumpType, Side
        <5> QED
          BY <1>0, <5>1, CountTypes DEF Counted
      <4>2. CASE side = "up"
        <5>1. count'["up"] = count["up"] + size /\ count'["client"] = count["client"]
          BY <3>1, <4>2 DEF PumpType, Side
        <5> QED
          BY <1>0, <5>1, CountTypes DEF Counted
      <4> QED
        BY <2>1, <4>1, <4>2 DEF Side
    <3>3. Passed' = Passed
      BY <1>a, <2>1
    <3> QED
      BY <1>0, <2>1, <2>2, <2>4, <3>1, <3>2, <3>3 DEF Accounts, Before
  <2> QED
    BY <2>3, <2>4
<1>9. CASE World \/ Terminated \/ UNCHANGED vars
  <2>1. pc' = pc /\ got' = got
    BY <1>9, PumpMoves DEF Terminated, vars
  <2>2. UNCHANGED <<count, total, hand, size>>
    <3>1. CASE Tick
      BY <3>1 DEF Tick
    <3>2. CASE ~Tick
      BY <1>9, <3>2, PumpLeftAlone DEF World, pumpVars
    <3> QED
      BY <3>1, <3>2
  <2>3. Passed' = Passed /\ Counted' = Counted
    BY <1>a, <1>b, <2>1, <2>2
  <2> QED
    BY <2>1, <2>2, <2>3 DEF Accounts, Before
<1>10. CASE Refuse \/ (\E r \in Replies : AskPolicy(r)) \/ ResolveFails \/ Resolve
            \/ (\E r \in AddressAnswers : AskAddress(r))
            \/ NoCandidate \/ ConnectFails \/ Connect \/ GreetFails
  <2>1. UNCHANGED pumpVars
    BY <1>10, PumpLeftAlone
  <2>2. got' = got
    BY <1>10, SocketsLeftAlone DEF Connect, sockVars
  <2>3. pc \in Before
    BY <1>10 DEF Refuse, AskPolicy, ResolveFails, Resolve, AskAddress, NoCandidate,
                 ConnectFails, Connect, GreetFails, Before
  <2>4. pc' \in Before \cup {"close", "done"}
    BY <1>10 DEF Refuse, AskPolicy, ResolveFails, Resolve, AskAddress, NoCandidate,
                 DialFailed, ConnectFails, Connect, GreetFails, Before
  <2> QED
    BY <1>1, <2>1, <2>2, <2>3, <2>4 DEF pumpVars
<1>11. CASE PumpDeadline \/ PollReady \/ PollFails \/ SkipSide \/ ReadEof \/ ReadFails
  <2>1. UNCHANGED <<count, total>> /\ pc \in {"top", "side"} /\ pc' \in {"top", "side", "close"}
    BY <1>11 DEF PumpDeadline, PollReady, PollFails, SkipSide, ReadEof, ReadFails, NextSide, PumpReturns
  <2>2. got' = got
    BY <1>11, SocketsLeftAlone DEF sockVars
  <2> QED
    BY <1>5, <2>1, <2>2
<1>12. CASE WriteFails \/ Close
  <2>1. UNCHANGED <<got, count>> /\ pc' \in {"close", "done"}
    BY <1>12 DEF WriteFails, Close, PumpReturns, sockVars, pumpVars
  <2> QED
    BY <1>2, <2>1
<1> QED
  BY <1>3, <1>4, <1>6, <1>7, <1>8, <1>9, <1>10, <1>11, <1>12 DEF Next, Serve, World


(***************************************************************************)
(* The invariant holds, and what follows from it.                          *)
(***************************************************************************)
\* Every step keeps the invariant.
LEMMA InvStep == Inv /\ [Next]_vars => Inv'
<1> SUFFICES ASSUME Inv, [Next]_vars PROVE Inv'
  OBVIOUS
<1>1. /\ ReqType /\ PumpType /\ SockType /\ RequestShape /\ GreetedFirst /\ PumpShape /\ InOrder
      /\ Accounts
  BY TypeGroups DEF Inv
<1>2. ReqType' /\ PumpType' /\ SockType'
  BY <1>1, ReqTypeStep, PumpTypeStep, SockTypeStep
<1>3. TypeOK'
  BY <1>2 DEF TypeOK, ReqType, PumpType, SockType, Labels
<1>4. RequestShape' /\ GreetedFirst' /\ PumpShape'
  BY <1>1, RequestStep, GreetedStep, PumpShapeStep
<1>5. InOrder' /\ Accounts'
  BY <1>1, OrderStep, AccountsStep
<1> QED
  BY <1>3, <1>4, <1>5 DEF Inv

\* The invariant holds in every reachable state.
LEMMA InvAlways == Spec => []Inv
  BY InitInv, InvStep, PTL DEF Spec

\* Types: the pump never looks beyond pf and never holds more than its buffer, and no socket is
\* given more than it can take, whatever the sizes are.
THEOREM TypeCorrect == Spec => []TypeOK
  BY InvAlways, PTL DEF Inv

\* On every path on which sandbox_pkg_proxy_serve returns, the upstream socket is closed and
\* forward_head freed.
THEOREM NothingLeaksAlways == Spec => []NothingLeaks
<1>1. Inv => NothingLeaks
  <2> SUFFICES ASSUME Inv, pc = "done" PROVE up = NoAddr /\ ~held
    BY DEF NothingLeaks
  <2>1. held = FALSE /\ up = NoAddr
    BY DEF Inv, RequestShape, Tunnel
  <2> QED
    BY <2>1
<1> QED
  BY <1>1, InvAlways, PTL

\* A side's payload, unit by unit.
LEMMA PayloadUnits ==
  ASSUME Inv, NEW s \in Side
  PROVE  /\ Payload(s) \in Seq(Unit) /\ Len(Payload(s)) = Given(s)
         /\ \A i \in 1 .. Len(Payload(s)) : Payload(s)[i] = [tag |-> Other(s), n |-> i]
<1>0. SockType /\ HandedInOrder(s)
  BY TypeGroups, OrderParts DEF Inv
<1>1. /\ got[s] \in Seq(Unit) /\ Len(got[s]) \in Nat /\ Said(s) \in 0 .. 1 /\ Said(s) <= Len(got[s])
      /\ Given(s) \in Nat /\ Len(got[s]) = Said(s) + Given(s)
  BY <1>0, SaidOnce
<1>2. \A q \in Seq(Unit), k \in 0 .. 1 : k <= Len(q) =>
        /\ SubSeq(q, k + 1, Len(q)) \in Seq(Unit) /\ Len(SubSeq(q, k + 1, Len(q))) = Len(q) - k
        /\ \A i \in 1 .. Len(q) - k : SubSeq(q, k + 1, Len(q))[i] = q[k + i]
  OBVIOUS
<1>3. /\ Payload(s) \in Seq(Unit) /\ Len(Payload(s)) = Len(got[s]) - Said(s)
      /\ \A i \in 1 .. Len(got[s]) - Said(s) : Payload(s)[i] = got[s][Said(s) + i]
  BY <1>1, <1>2 DEF Payload
<1>4. Len(got[s]) - Said(s) = Given(s)
  BY <1>1
<1>5. ASSUME NEW i \in 1 .. Given(s) PROVE got[s][Said(s) + i] = [tag |-> Other(s), n |-> i]
  <2>1. Said(s) + i \in 1 .. Len(got[s]) /\ Said(s) + i > Said(s)
    BY <1>1
  <2> QED
    <3> DEFINE k == Said(s) + i
    <3>0. k \in 1 .. Len(got[s]) /\ k > Said(s)
      BY <2>1
    <3> HIDE DEF k
    <3>1. got[s][k] = [tag |-> Other(s), n |-> k - Said(s)]
      BY <1>0, <3>0 DEF HandedInOrder
    <3>2. k - Said(s) = i
      <4>1. Said(s) \in Nat /\ i \in Nat
        BY <1>1
      <4> QED
        BY <4>1 DEF k
    <3>3. got[s][k] = [tag |-> Other(s), n |-> i]
      BY <3>1, <3>2
    <3> QED
      BY <3>3 DEF k
<1> QED
  BY <1>3, <1>4, <1>5

\* A request that is refused, and a caller that is not on the UNIX socket, reach no upstream; an
\* upstream is one the address policy cleared; what serve itself says comes before any payload
\* and is never said again.
THEOREM FailsClosedAlways == Spec => []FailsClosed
<1>1. Inv => FailsClosed
  <2> SUFFICES ASSUME Inv PROVE FailsClosed
    OBVIOUS
  <2>0. SockType
    BY TypeGroups DEF Inv
  <2>1. /\ up # NoAddr => caller = "uds" /\ up \in cleared
        /\ got["up"] # <<>> => caller = "uds" /\ cleared # {} /\ kind \in {"connect", "absolute"}
        /\ caller # "uds" => got["client"] = <<>>
        /\ kind = "absolute" /\ got["up"] # <<>> => got["up"][1].tag = "head"
    BY DEF Inv, RequestShape, GreetedFirst
  <2>2. kind = "absolute" /\ pc \in {"greet", "top", "side", "write"} => held
    <3>1. kind = "absolute" /\ pc \in {"greet", "top", "side", "write"} => held = TRUE
      BY DEF Inv, RequestShape, Tunnel
    <3> QED
      BY <3>1
  <2>3. kind = "connect" /\ Payload("client") # <<>> => got["client"][1].tag = "200"
    <3>1. Payload("client") # <<>> => Given("client") # 0
      BY PayloadUnits DEF Side
    <3> QED
      BY <3>1 DEF Inv, GreetedFirst
  <2>4. ASSUME NEW s \in Side, NEW i \in DOMAIN got[s], i > 1 PROVE got[s][i].tag = Other(s)
    <3>1. got[s] \in Seq(Unit) /\ Said(s) \in 0 .. 1
      BY <2>0, SaidOnce
    <3>2. i \in 1 .. Len(got[s]) /\ i > Said(s)
      BY <2>4, <3>1
    <3>3. got[s][i] = [tag |-> Other(s), n |-> i - Said(s)]
      BY <3>2 DEF Inv, InOrder
    <3> QED
      BY <3>3
  <2> QED
    BY <2>1, <2>2, <2>3, <2>4 DEF FailsClosed
<1> QED
  BY <1>1, InvAlways, PTL

\* When the pump sees the end of a stream, everything of that stream has been written.
THEOREM EofAfterDataAlways == Spec => []EofAfterData
<1>1. Inv => EofAfterData
  <2> SUFFICES ASSUME Inv, ended = "eof" PROVE Len(Payload(Other(side))) = sent[side]
    BY DEF EofAfterData
  <2>0. PumpType /\ SockType /\ QueueInOrder(side) /\ side \in Side
    BY TypeGroups, OrderParts DEF Inv, PumpType
  <2>1. hand = <<>> /\ inq[side] = <<>> /\ ~Dropped(side)
    BY DEF Inv, PumpShape, Dropped
  <2>2. Given(Other(side)) + InHand(side) + Len(inq[side]) = sent[side]
    BY <2>0, <2>1 DEF QueueInOrder
  <2>3. InHand(side) = 0 /\ Len(inq[side]) = 0 /\ Given(Other(side)) \in Nat
    BY <2>0, <2>1, OtherSide, SaidOnce DEF InHand
  <2>4. Len(Payload(Other(side))) = Given(Other(side))
    BY <2>0, OtherSide, PayloadUnits
  <2> QED
    BY <2>2, <2>3, <2>4
<1> QED
  BY <1>1, InvAlways, PTL

\* At most one buffer more than PROXY_PUMP_MAX_BYTES passes, and the reported counters account
\* for all of it but that buffer.
THEOREM CapHoldsAlways == Spec => []CapHolds
<1>1. Inv => CapHolds
  <2> SUFFICES ASSUME Inv PROVE CapHolds
    OBVIOUS
  <2>1. /\ Passed \in Nat /\ Counted \in Nat /\ BufSize \in Nat /\ MaxBytes \in Nat
    BY TypeGroups, CountTypes, Numbers DEF Inv
  <2>2. Counted <= MaxBytes /\ Counted <= Passed /\ Passed <= Counted + BufSize
    BY DEF Inv, Accounts
  <2>3. Len(Payload("client")) = Given("client") /\ Len(Payload("up")) = Given("up")
    BY PayloadUnits DEF Side
  <2>4. Passed <= MaxBytes + BufSize
    BY <2>1, <2>2
  <2> QED
    BY <2>2, <2>3, <2>4 DEF CapHolds, Passed, Counted
<1> QED
  BY <1>1, InvAlways, PTL

\* The units of a sequence carry a side's tag and consecutive numbers after a.
Numbered(q, t, a) == q \in Seq(Unit) /\ \A i \in 1 .. Len(q) : q[i] = [tag |-> t, n |-> a + i]

\* Numbered sequences that meet make one.
LEMMA NumberedJoin ==
  ASSUME NEW t, NEW a \in Nat, NEW q, NEW r, Numbered(q, t, a), Numbered(r, t, a + Len(q))
  PROVE  Numbered(q \o r, t, a) /\ Len(q \o r) = Len(q) + Len(r)
<1>1. q \in Seq(Unit) /\ r \in Seq(Unit) /\ Len(q) \in Nat /\ Len(r) \in Nat
  BY DEF Numbered
<1>2. /\ q \o r \in Seq(Unit) /\ Len(q \o r) = Len(q) + Len(r)
      /\ \A i \in 1 .. Len(q) : (q \o r)[i] = q[i]
      /\ \A i \in 1 .. Len(r) : (q \o r)[Len(q) + i] = r[i]
  BY ONLY <1>1, Joined
<1>3. ASSUME NEW i \in 1 .. Len(q \o r) PROVE (q \o r)[i] = [tag |-> t, n |-> a + i]
  <2>1. CASE i \in 1 .. Len(q)
    BY <1>2, <2>1 DEF Numbered
  <2>2. CASE i \notin 1 .. Len(q)
    <3>1. i - Len(q) \in 1 .. Len(r) /\ i = Len(q) + (i - Len(q)) /\ i \in Nat
      BY <1>1, <1>2, <2>2
    <3>2. (q \o r)[i] = [tag |-> t, n |-> a + Len(q) + (i - Len(q))]
      BY <1>2, <3>1 DEF Numbered
    <3>3. a + Len(q) + (i - Len(q)) = a + i
      BY <1>1, <3>1
    <3> QED
      BY <3>2, <3>3
  <2> QED
    BY <2>1, <2>2
<1> QED
  BY <1>2, <1>3 DEF Numbered

\* Through short reads, short writes and full buffers, what one side is handed is what the other
\* sent, in order, with what is in hand next and what is queued after it; nothing is lost unless
\* a write failed.
THEOREM PassesInOrderAlways == Spec => []PassesInOrder
<1>1. Inv => PassesInOrder
  <2> SUFFICES ASSUME Inv, NEW s \in Side
               PROVE  LET through == Payload(Other(s)) \o (IF side = s THEN hand ELSE <<>>) \o
                                     (IF ended = "write" /\ side = s THEN <<>> ELSE inq[s])
                      IN  /\ \A i \in DOMAIN through : through[i] = [tag |-> s, n |-> i]
                          /\ ended # "write" => Len(through) = sent[s]
    BY DEF PassesInOrder
  <2> DEFINE p == Payload(Other(s))
             h == IF side = s THEN hand ELSE <<>>
             q == IF ended = "write" /\ side = s THEN <<>> ELSE inq[s]
  <2>0. PumpType /\ SockType /\ HandInOrder /\ QueueInOrder(s) /\ Other(s) \in Side
    BY TypeGroups, OrderParts, OtherSide DEF Inv
  <2>1. Numbered(p, s, 0) /\ Len(p) = Given(Other(s)) /\ Len(p) \in Nat
    <3>1. /\ p \in Seq(Unit) /\ Len(p) = Given(Other(s))
          /\ \A i \in 1 .. Len(p) : p[i] = [tag |-> Other(Other(s)), n |-> i]
      BY <2>0, PayloadUnits
    <3>2. Other(Other(s)) = s
      BY OtherSide
    <3>3. \A i \in 1 .. Len(p) : 0 + i = i
      BY <3>1
    <3> QED
      BY <3>1, <3>2, <3>3 DEF Numbered
  <2>2. Numbered(h, s, Len(p)) /\ Len(h) = InHand(s) /\ Len(h) \in Nat
    <3>1. CASE side = s
      BY <2>0, <2>1, <3>1 DEF Numbered, HandInOrder, InHand, PumpType
    <3>2. CASE side # s
      BY <3>2 DEF Numbered, InHand
    <3> QED
      BY <3>1, <3>2
  <2>3. /\ Numbered(q, s, Len(p) + Len(h))
        /\ ended # "write" => Len(p) + Len(h) + Len(q) = sent[s]
    <3>1. CASE Dropped(s)
      BY <3>1 DEF Numbered, Dropped
    <3>2. CASE ~Dropped(s)
      BY <2>0, <2>1, <2>2, <3>2 DEF Numbered, QueueInOrder, Dropped, SockType
    <3> QED
      BY <3>1, <3>2
  <2> HIDE DEF p, h, q
  <2>4. Numbered(p \o h, s, 0) /\ Len(p \o h) = Len(p) + Len(h)
    <3>1. 0 + Len(p) = Len(p)
      BY <2>1
    <3> QED
      BY <2>1, <2>2, <3>1, NumberedJoin
  <2>5. Numbered(p \o h \o q, s, 0) /\ Len(p \o h \o q) = Len(p) + Len(h) + Len(q)
    <3> DEFINE ph == p \o h
    <3>1. Numbered(ph, s, 0) /\ Len(ph) = Len(p) + Len(h) /\ 0 + Len(ph) = Len(p) + Len(h)
      BY <2>1, <2>2, <2>4
    <3> HIDE DEF ph
    <3>2. Numbered(q, s, 0 + Len(ph))
      BY <2>3, <3>1
    <3>3. Numbered(ph \o q, s, 0) /\ Len(ph \o q) = Len(ph) + Len(q)
      BY <3>1, <3>2, NumberedJoin
    <3> QED
      BY <3>1, <3>3 DEF ph
  <2>6. \A i \in DOMAIN (p \o h \o q) : (p \o h \o q)[i] = [tag |-> s, n |-> i]
    BY <2>5 DEF Numbered
  <2>7. ended # "write" => Len(p \o h \o q) = sent[s]
    BY <2>3, <2>5
  <2> QED
    BY <2>6, <2>7 DEF p, h, q
<1> QED
  BY <1>1, InvAlways, PTL

=============================================================================
