------------------------------ MODULE SpscRing ------------------------------
(***************************************************************************)
(* A single-producer single-consumer ring in shared memory (server-go/bus/ *)
(* ring.go) between the two ends that use it: emit, which fills a slot and *)
(* commits it, and Poll, which hands out a view into the slot and commits  *)
(* the read at the next call (server-go/bus/client.go).  One end is this   *)
(* module and the other the host, which follows the same protocol.         *)
(*                                                                         *)
(* head and tail are unsigned words that wrap at W (2^64 in the code, any  *)
(* multiple of the capacity here); a slot is written in more than one      *)
(* step, and holds Torn in between.                                        *)
(***************************************************************************)
EXTENDS Naturals, Sequences

CONSTANTS
  Cap,       \* slots of the ring
  W,         \* where the index words wrap
  Frames,    \* encoded frames that decode
  Bad,       \* slot contents that Decode refuses
  Torn       \* a slot that is being written

Value == Frames \cup {Bad}

ASSUME RingAssumption ==
  /\ Cap \in Nat \ {0, 1}
  /\ W \in Nat /\ W > Cap /\ W % Cap = 0
  /\ Torn \notin Value /\ Bad \notin Frames

VARIABLES
  head,        \* the producer's index word
  tail,        \* the consumer's index word
  slots,       \* the slots
  producer,    \* where emit is
  consumer,    \* where Poll is
  pendingRead, \* the last Poll returned a view that is still held
  event        \* the frame that Poll decoded

vars == <<head, tail, slots, producer, consumer, pendingRead, event>>

Plus(i, n)  == (i + n) % W
Minus(i, j) == (i + W - j) % W
Slot(i)     == i % Cap

\* The last check of AttachRing.
Attachable(h, t) == Minus(h, t) <= Cap

\* A ring is attached wherever its indices have got to, with what it holds.
Init ==
  /\ head \in 0 .. W - 1 /\ tail \in 0 .. W - 1 /\ Attachable(head, tail)
  /\ slots \in [0 .. Cap - 1 -> Value]
  /\ producer = "idle" /\ consumer = "idle"
  /\ pendingRead = FALSE /\ event = Bad

(***************************************************************************)
(* emit.                                                                   *)
(***************************************************************************)
\* Mutant: the full ring is noticed one slot late.
IsFullLate == Minus(head, tail) > Cap

IsFull == Minus(head, tail) >= Cap

ProduceBegin ==
  /\ producer = "idle" /\ ~IsFull
  /\ producer' = "begun"
  /\ UNCHANGED <<head, tail, slots, consumer, pendingRead, event>>

\* ProduceBegin returned nil and emit returns ErrWouldBlock.
WouldBlock == producer = "idle" /\ IsFull /\ UNCHANGED vars

\* Encode has written the header, the payload is still to be copied.
EncodeHeader ==
  /\ producer = "begun"
  /\ slots' = [slots EXCEPT ![Slot(head)] = Torn]
  /\ producer' = "encoded"
  /\ UNCHANGED <<head, tail, consumer, pendingRead, event>>

CopyPayload(v) ==
  /\ producer = "encoded"
  /\ slots' = [slots EXCEPT ![Slot(head)] = v]
  /\ producer' = "filled"
  /\ UNCHANGED <<head, tail, consumer, pendingRead, event>>

\* Mutant: the index word does not wrap.
ProduceCommitNoWrap ==
  /\ producer = "filled"
  /\ head' = head + 1
  /\ producer' = "idle"
  /\ UNCHANGED <<tail, slots, consumer, pendingRead, event>>

ProduceCommit ==
  /\ producer = "filled"
  /\ head' = Plus(head, 1)
  /\ producer' = "idle"
  /\ UNCHANGED <<tail, slots, consumer, pendingRead, event>>

(***************************************************************************)
(* Poll.                                                                   *)
(***************************************************************************)
\* The view of the previous Poll is given back.
ReleaseView ==
  /\ consumer = "idle"
  /\ tail' = IF pendingRead THEN Plus(tail, 1) ELSE tail
  /\ pendingRead' = FALSE
  /\ consumer' = "begin"
  /\ UNCHANGED <<head, slots, producer, event>>

ConsumeEmpty ==
  /\ consumer = "begin" /\ head = tail
  /\ consumer' = "idle"
  /\ UNCHANGED <<head, tail, slots, producer, pendingRead, event>>

\* Mutant: the empty ring is not noticed.
ConsumeAnyway ==
  /\ consumer = "begin"
  /\ consumer' = "decode"
  /\ UNCHANGED <<head, tail, slots, producer, pendingRead, event>>

ConsumeBegin ==
  /\ consumer = "begin" /\ head # tail
  /\ consumer' = "decode"
  /\ UNCHANGED <<head, tail, slots, producer, pendingRead, event>>

\* Mutant: Poll gives the slot back before its caller has looked at the view.
DecodeReleases ==
  /\ consumer = "decode" /\ slots[Slot(tail)] # Bad
  /\ tail' = Plus(tail, 1)
  /\ event' = slots[Slot(tail)]
  /\ pendingRead' = TRUE
  /\ consumer' = "idle"
  /\ UNCHANGED <<head, slots, producer>>

Decode ==
  /\ consumer = "decode" /\ slots[Slot(tail)] # Bad
  /\ event' = slots[Slot(tail)]
  /\ pendingRead' = TRUE
  /\ consumer' = "idle"
  /\ UNCHANGED <<head, tail, slots, producer>>

\* A frame that does not decode is consumed on the spot.
DecodeFails ==
  /\ consumer = "decode" /\ slots[Slot(tail)] = Bad
  /\ tail' = Plus(tail, 1)
  /\ consumer' = "idle"
  /\ UNCHANGED <<head, slots, producer, pendingRead, event>>

Produce == ProduceBegin \/ WouldBlock \/ EncodeHeader \/ ProduceCommit
           \/ \E v \in Value : CopyPayload(v)
Poll    == ReleaseView \/ ConsumeEmpty \/ ConsumeBegin \/ Decode \/ DecodeFails
Next    == Produce \/ Poll

Spec == Init /\ [][Next]_vars

\* The loop of the module, and the one of the host, polls for as long as it runs.
FairSpec == Spec /\ WF_vars(Poll)

(***************************************************************************)
(* Properties.                                                             *)
(***************************************************************************)
\* The index words stay below the wrap.
TypeOK ==
  /\ head \in 0 .. W - 1 /\ tail \in 0 .. W - 1
  /\ slots \in [0 .. Cap - 1 -> Value \cup {Torn}]
  /\ producer \in {"idle", "begun", "encoded", "filled"}
  /\ consumer \in {"idle", "begin", "decode"}
  /\ pendingRead \in BOOLEAN
  /\ event \in Value \cup {Torn}

\* What AttachRing checks once stays true: the indices never run past each other, wherever
\* the words wrap.
NeverOvertakes == Attachable(head, tail)

\* The view Poll handed out keeps its bytes until the next Poll, although the producer goes
\* on, and it was whole when Poll decoded it.
ViewIsStable == pendingRead => event # Torn /\ slots[Slot(tail)] = event

\* The slots between the indices, oldest first.
Queued == [i \in 1 .. Minus(head, tail) |-> slots[Slot(Plus(tail, i - 1))]]

\* The ring implements a bounded queue that loses, repeats and reorders nothing.
Fifo == INSTANCE BoundedFifo WITH queue <- Queued
RefinesBoundedFifo == Fifo!Spec

=============================================================================
