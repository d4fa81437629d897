---------------------------- MODULE SpscRingProof ----------------------------
(***************************************************************************)
(* Proofs about SpscRing for every capacity, every word size that is a     *)
(* multiple of it and every content of the ring at attach.  First the      *)
(* arithmetic of the index words, then the inductive invariant Inv, then   *)
(* the theorems and the refinement of BoundedFifo.                         *)
(***************************************************************************)
EXTENDS SpscRing, SequenceTheorems, TLAPS

\* Division with remainder.
LEMMA DivMod ==
  ASSUME NEW a \in Nat, NEW b \in Nat \ {0}
  PROVE  /\ a \div b \in Nat /\ a % b \in 0..(b - 1)
         /\ a = b * (a \div b) + (a % b)
  OBVIOUS

\* The remainder is determined by being small enough.
LEMMA ModUnique ==
  ASSUME NEW a \in Nat, NEW b \in Nat \ {0}, NEW q \in Nat, NEW r \in 0..(b - 1), a = b * q + r
  PROVE  a % b = r
<1> DEFINE p == a \div b
           s == a % b
<1>1. p \in Nat /\ s \in 0..(b - 1) /\ a = b * p + s
  BY DivMod
<1> HIDE DEF p, s
<1>2. CASE q < p
  <2>1. PICK k \in Nat \ {0} : p = q + k
    <3>1. p - q \in Nat \ {0} /\ p = q + (p - q)
      BY <1>1, <1>2
    <3> QED
      BY <3>1
  <2>2. b * p = b * q + b * k
    BY <2>1
  <2>3. b * k >= b
    BY <2>1
  <2>4. b * q \in Nat /\ b * k \in Nat
    BY <2>1
  <2> QED
    BY <1>1, <2>2, <2>3, <2>4
<1>3. CASE p < q
  <2>1. PICK k \in Nat \ {0} : q = p + k
    <3>1. q - p \in Nat \ {0} /\ q = p + (q - p)
      BY <1>1, <1>3
    <3> QED
      BY <3>1
  <2>2. b * q = b * p + b * k
    BY <1>1, <2>1
  <2>3. b * k >= b
    BY <2>1
  <2>4. b * p \in Nat /\ b * k \in Nat
    BY <1>1, <2>1
  <2> QED
    BY <1>1, <2>2, <2>3, <2>4
<1>4. CASE p = q
  <2>1. b * q \in Nat
    OBVIOUS
  <2> QED
    BY <1>1, <1>4, <2>1 DEF s
<1> QED
  BY <1>1, <1>2, <1>3, <1>4

\* The index word wraps at a multiple of the capacity, so wrapping does not move the slot.
LEMMA WrapKeepsSlot ==
  ASSUME NEW x \in Nat
  PROVE  (x % W) % Cap = x % Cap
<1> DEFINE m == W \div Cap
           q == x \div W
           r == x % W
           c == r \div Cap
           s == r % Cap
<1>1. Cap \in Nat \ {0} /\ W \in Nat \ {0} /\ W % Cap = 0
  BY RingAssumption
<1>2. m \in Nat /\ W = Cap * m
  BY <1>1, DivMod
<1>3. q \in Nat /\ r \in Nat /\ x = W * q + r
  BY <1>1, DivMod
<1>4. c \in Nat /\ s \in 0..(Cap - 1) /\ r = Cap * c + s
  BY <1>1, <1>3, DivMod
<1> HIDE DEF m, q, r, c, s
<1>5. W * q = Cap * (m * q)
  BY <1>1, <1>2, <1>3
<1>6. Cap * (m * q) + Cap * c = Cap * (m * q + c) /\ m * q \in Nat
  BY <1>1, <1>2, <1>3, <1>4
<1>7. x = Cap * (m * q + c) + s
  <2>1. Cap * (m * q) \in Nat /\ Cap * c \in Nat
    BY <1>1, <1>4, <1>6
  <2> QED
    BY <1>3, <1>4, <1>5, <1>6, <2>1
<1>8. m * q + c \in Nat
  BY <1>4, <1>6
<1>9. x % Cap = s
  BY <1>1, <1>4, <1>7, <1>8, ModUnique
<1> QED
  BY <1>9 DEF s, r

\* Indices less than the capacity apart have different slots.
LEMMA ModDistinct ==
  ASSUME NEW x \in Nat, NEW y \in Nat, x < y, y - x < Cap
  PROVE  x % Cap # y % Cap
<1> SUFFICES ASSUME x % Cap = y % Cap PROVE FALSE
  OBVIOUS
<1> DEFINE p == x \div Cap
           q == y \div Cap
           r == x % Cap
<1>1. Cap \in Nat \ {0}
  BY RingAssumption
<1>2. p \in Nat /\ q \in Nat /\ r \in 0..(Cap - 1) /\ x = Cap * p + r /\ y = Cap * q + r
  BY <1>1, DivMod
<1> HIDE DEF p, q, r
<1>3. Cap * p \in Nat /\ Cap * q \in Nat
  BY <1>1, <1>2
<1>4. y - x = Cap * q - Cap * p
  BY <1>1, <1>2, <1>3
<1>5. CASE q <= p
  <2>1. Cap * q <= Cap * p
    BY <1>1, <1>2, <1>5
  <2> QED
    BY <1>3, <1>4, <2>1
<1>6. CASE q > p
  <2>1. q >= p + 1 /\ Cap * (p + 1) = Cap * p + Cap
    BY <1>1, <1>2, <1>6
  <2>2. Cap * q >= Cap * (p + 1)
    BY <1>1, <1>2, <2>1
  <2> QED
    BY <1>1, <1>3, <1>4, <2>1, <2>2
<1> QED
  BY <1>2, <1>5, <1>6

\* The values of an index word.
Index == 0 .. W - 1

\* The index arithmetic of ring.go, case by case: no intermediate result is lost to the wrap.
LEMMA MinusCases ==
  ASSUME NEW h \in Index, NEW t \in Index
  PROVE  /\ h >= t => Minus(h, t) = h - t
         /\ h < t => Minus(h, t) = h + W - t
         /\ Minus(h, t) \in Index
<1>1. W \in Nat \ {0} /\ h \in Nat /\ t \in Nat /\ h < W /\ t < W
  BY RingAssumption DEF Index
<1>2. CASE h >= t
  <2>1. h + W - t = W * 1 + (h - t) /\ h - t \in 0..(W - 1) /\ h + W - t \in Nat
    BY <1>1, <1>2
  <2>2. (h + W - t) % W = h - t
    BY <1>1, <2>1, ModUnique
  <2> QED
    BY <1>1, <1>2, <2>1, <2>2 DEF Minus, Index
<1>3. CASE h < t
  <2>1. h + W - t = W * 0 + (h + W - t) /\ h + W - t \in 0..(W - 1) /\ h + W - t \in Nat
    BY <1>1, <1>3
  <2>2. (h + W - t) % W = h + W - t
    BY <1>1, <2>1, ModUnique
  <2> QED
    BY <1>1, <1>3, <2>1, <2>2 DEF Minus, Index
<1> QED
  BY <1>1, <1>2, <1>3

\* The same for the sum of an index and a step.
LEMMA PlusCases ==
  ASSUME NEW i \in Index, NEW n \in Index
  PROVE  /\ i + n < W => Plus(i, n) = i + n
         /\ i + n >= W => Plus(i, n) = i + n - W
         /\ Plus(i, n) \in Index
<1>1. W \in Nat \ {0} /\ i \in Nat /\ n \in Nat /\ i < W /\ n < W
  BY RingAssumption DEF Index
<1>2. CASE i + n < W
  <2>1. i + n = W * 0 + (i + n) /\ i + n \in 0..(W - 1)
    BY <1>1, <1>2
  <2>2. (i + n) % W = i + n
    BY <1>1, <2>1, ModUnique
  <2> QED
    BY <1>1, <1>2, <2>1, <2>2 DEF Plus, Index
<1>3. CASE i + n >= W
  <2>1. i + n = W * 1 + (i + n - W) /\ i + n - W \in 0..(W - 1)
    BY <1>1, <1>3
  <2>2. (i + n) % W = i + n - W
    BY <1>1, <2>1, ModUnique
  <2> QED
    BY <1>1, <1>3, <2>1, <2>2 DEF Plus, Index
<1> QED
  BY <1>1, <1>2, <1>3

\* The slot of an index is one of the ring's.
LEMMA SlotType ==
  ASSUME NEW i \in Nat
  PROVE  Slot(i) \in 0 .. Cap - 1
  BY RingAssumption, DivMod DEF Slot

\* What a commit of either end does to the distance of the indices.
LEMMA Distance ==
  ASSUME NEW h \in Index, NEW t \in Index
  PROVE  /\ Plus(t, Minus(h, t)) = h
         /\ Minus(h, t) = 0 <=> h = t
         /\ Minus(h, t) < W - 1 => Minus(Plus(h, 1), t) = Minus(h, t) + 1
         /\ h # t => Minus(h, Plus(t, 1)) = Minus(h, t) - 1
         /\ Plus(h, 1) \in Index /\ Plus(t, 1) \in Index
<1>1. W \in Nat /\ W > 1 /\ h \in Nat /\ t \in Nat /\ h < W /\ t < W /\ 1 \in Index
  BY RingAssumption DEF Index
<1>2. /\ h >= t => Minus(h, t) = h - t
      /\ h < t => Minus(h, t) = h + W - t
      /\ Minus(h, t) \in Index
  BY MinusCases
<1>3. Plus(t, Minus(h, t)) = h
  <2>1. /\ t + Minus(h, t) < W => Plus(t, Minus(h, t)) = t + Minus(h, t)
        /\ t + Minus(h, t) >= W => Plus(t, Minus(h, t)) = t + Minus(h, t) - W
    BY <1>2, PlusCases
  <2> QED
    BY <1>1, <1>2, <2>1
<1>4. Minus(h, t) = 0 <=> h = t
  BY <1>1, <1>2
<1>5. /\ h + 1 < W => Plus(h, 1) = h + 1
      /\ h + 1 >= W => Plus(h, 1) = 0
      /\ Plus(h, 1) \in Index
  BY <1>1, PlusCases
<1>6. /\ t + 1 < W => Plus(t, 1) = t + 1
      /\ t + 1 >= W => Plus(t, 1) = 0
      /\ Plus(t, 1) \in Index
  BY <1>1, PlusCases
<1>7. Minus(h, t) < W - 1 => Minus(Plus(h, 1), t) = Minus(h, t) + 1
  <2>1. /\ Plus(h, 1) >= t => Minus(Plus(h, 1), t) = Plus(h, 1) - t
        /\ Plus(h, 1) < t => Minus(Plus(h, 1), t) = Plus(h, 1) + W - t
    BY <1>5, MinusCases
  <2> QED
    BY <1>1, <1>2, <1>5, <2>1
<1>8. h # t => Minus(h, Plus(t, 1)) = Minus(h, t) - 1
  <2>1. /\ h >= Plus(t, 1) => Minus(h, Plus(t, 1)) = h - Plus(t, 1)
        /\ h < Plus(t, 1) => Minus(h, Plus(t, 1)) = h + W - Plus(t, 1)
    BY <1>6, MinusCases
  <2> QED
    BY <1>1, <1>2, <1>6, <2>1
<1> QED
  BY <1>3, <1>4, <1>5, <1>6, <1>7, <1>8

\* Stepping once and then i times is stepping i + 1 times.
LEMMA PlusPlus ==
  ASSUME NEW t \in Index, NEW i \in Nat, i + 1 < W
  PROVE  Plus(Plus(t, 1), i) = Plus(t, i + 1)
<1>1. W \in Nat /\ t \in Nat /\ t < W /\ 1 \in Index /\ i \in Index /\ i + 1 \in Index
  BY RingAssumption DEF Index
<1>2. /\ t + 1 < W => Plus(t, 1) = t + 1
      /\ t + 1 >= W => Plus(t, 1) = t + 1 - W
      /\ Plus(t, 1) \in Index
  BY <1>1, PlusCases
<1>3. /\ Plus(t, 1) + i < W => Plus(Plus(t, 1), i) = Plus(t, 1) + i
      /\ Plus(t, 1) + i >= W => Plus(Plus(t, 1), i) = Plus(t, 1) + i - W
  BY <1>1, <1>2, PlusCases
<1>4. /\ t + (i + 1) < W => Plus(t, i + 1) = t + (i + 1)
      /\ t + (i + 1) >= W => Plus(t, i + 1) = t + (i + 1) - W
  BY <1>1, PlusCases
<1> QED
  BY <1>1, <1>2, <1>3, <1>4

\* Steps less than the capacity apart lead to different slots, across the wrap too.
LEMMA SlotsDistinct ==
  ASSUME NEW t \in Index, NEW i \in Nat, NEW j \in Nat, i < j, j < Cap
  PROVE  Slot(Plus(t, i)) # Slot(Plus(t, j))
<1>1. Cap \in Nat /\ t \in Nat
  BY RingAssumption DEF Index
<1>2. t + i \in Nat /\ t + j \in Nat /\ t + i < t + j /\ (t + j) - (t + i) < Cap
  BY <1>1
<1>3. ((t + i) % W) % Cap = (t + i) % Cap /\ ((t + j) % W) % Cap = (t + j) % Cap
  BY <1>2, WrapKeepsSlot
<1>4. Slot(Plus(t, i)) = (t + i) % Cap /\ Slot(Plus(t, j)) = (t + j) % Cap
  BY <1>3, Zenon DEF Slot, Plus
<1> QED
  BY <1>2, <1>4, ModDistinct, Zenon

(***************************************************************************)
(* The inductive invariant.                                                *)
(***************************************************************************)
\* The slot i steps behind the consumer's index, and the number of frames queued.
At(i) == Slot(Plus(tail, i))
Held  == Minus(head, tail)

\* Every frame between the indices is whole, and so is the one about to be committed.
QueuedWhole ==
  /\ \A i \in 0 .. Held - 1 : slots[At(i)] \in Value
  /\ producer = "filled" => slots[Slot(head)] \in Value

\* The producer between ProduceBegin and ProduceCommit has a free slot; the consumer between
\* ConsumeBegin and the commit of the read has a frame.
EndsHaveTheirSlot ==
  /\ producer # "idle" => Held < Cap
  /\ consumer = "decode" => head # tail
  /\ pendingRead => consumer = "idle" /\ head # tail

Inv ==
  /\ TypeOK
  /\ NeverOvertakes
  /\ QueuedWhole
  /\ EndsHaveTheirSlot
  /\ ViewIsStable

\* What the indices are in a state of the ring.
LEMMA Indices ==
  ASSUME TypeOK, NeverOvertakes
  PROVE  /\ head \in Index /\ tail \in Index /\ Held \in Nat /\ Held <= Cap
         /\ Cap \in Nat /\ Cap > 1 /\ W \in Nat /\ W > Cap
         /\ At(Held) = Slot(head) /\ At(0) = Slot(tail)
         /\ Slot(head) \in 0 .. Cap - 1 /\ Slot(tail) \in 0 .. Cap - 1
         /\ Held = 0 <=> head = tail
<1>1. head \in Index /\ tail \in Index /\ head \in Nat /\ tail \in Nat
  BY RingAssumption DEF TypeOK, Index
<1>2. Cap \in Nat /\ Cap > 1 /\ W \in Nat /\ W > Cap /\ 0 \in Index
  BY RingAssumption DEF Index
<1>3. Held \in Nat /\ Held <= Cap
  BY <1>1, <1>2, MinusCases DEF NeverOvertakes, Attachable, Held, Index
<1>4. At(Held) = Slot(head) /\ (Held = 0 <=> head = tail)
  BY <1>1, Distance DEF At, Held
<1>5. Plus(tail, 0) = tail
  BY <1>1, <1>2, PlusCases DEF Index
<1>6. Slot(head) \in 0 .. Cap - 1 /\ Slot(tail) \in 0 .. Cap - 1
  BY <1>1, SlotType
<1> QED
  BY <1>1, <1>2, <1>3, <1>4, <1>5, <1>6 DEF At

\* While there is room, the slot the producer fills is none of those the consumer reads.
LEMMA ProducerApart ==
  ASSUME TypeOK, NeverOvertakes, Held < Cap, NEW i \in 0 .. Held - 1
  PROVE  At(i) # Slot(head)
<1>1. tail \in Index /\ Held \in Nat /\ At(Held) = Slot(head) /\ Cap \in Nat
  BY Indices
<1>2. i \in Nat /\ i < Held
  BY <1>1
<1> QED
  BY <1>1, <1>2, SlotsDistinct DEF At

\* The starting states satisfy the invariant.
LEMMA InitInv == Init => Inv
<1> SUFFICES ASSUME Init PROVE Inv
  OBVIOUS
<1>1. TypeOK
  <2>1. head \in 0 .. W - 1 /\ tail \in 0 .. W - 1 /\ pendingRead \in BOOLEAN
    BY DEF Init
  <2>2. slots \in [0 .. Cap - 1 -> Value \cup {Torn}]
    BY DEF Init
  <2>3. /\ producer \in {"idle", "begun", "encoded", "filled"}
        /\ consumer \in {"idle", "begin", "decode"} /\ event \in Value \cup {Torn}
    BY DEF Init, Value
  <2> QED
    BY <2>1, <2>2, <2>3 DEF TypeOK
<1>2. NeverOvertakes
  BY DEF Init, NeverOvertakes
<1>3. QueuedWhole
  <2>1. ASSUME NEW i \in 0 .. Held - 1 PROVE slots[At(i)] \in Value
    <3>1. At(i) \in 0 .. Cap - 1
      <4>1. Held \in Nat /\ Held <= Cap /\ tail \in Index /\ Cap \in Nat /\ W \in Nat /\ W > Cap
        BY <1>1, <1>2, Indices
      <4>2. i \in Index
        BY <4>1 DEF Index
      <4>3. Plus(tail, i) \in Nat
        BY <4>1, <4>2, PlusCases DEF Index
      <4> QED
        BY <4>3, SlotType DEF At
    <3> QED
      BY <3>1 DEF Init
  <2> QED
    BY <2>1 DEF Init, QueuedWhole
<1>4. EndsHaveTheirSlot /\ ViewIsStable
  BY DEF Init, EndsHaveTheirSlot, ViewIsStable
<1> QED
  BY <1>1, <1>2, <1>3, <1>4 DEF Inv

\* The consumer gives back its oldest slot: the rest of the queue stays as it is.
LEMMA TailMoves ==
  ASSUME Inv, head # tail, tail' = Plus(tail, 1), UNCHANGED <<head, slots>>
  PROVE  /\ tail' \in 0 .. W - 1 /\ Held' = Held - 1 /\ Held' \in Nat /\ NeverOvertakes'
         /\ \A i \in 0 .. Held' - 1 : At(i)' = At(i + 1) /\ slots'[At(i)'] \in Value
<1>1. /\ head \in Index /\ tail \in Index /\ Held \in Nat /\ Held <= Cap /\ Held # 0
      /\ Cap \in Nat /\ W \in Nat /\ W > Cap
  BY Indices DEF Inv
<1>2. tail' \in Index /\ Held' = Held - 1
  BY <1>1, Distance DEF Held
<1>3. Held' \in Nat /\ Held' <= Cap
  BY <1>1, <1>2
<1>4. NeverOvertakes'
  BY <1>3 DEF NeverOvertakes, Attachable, Held
<1>5. ASSUME NEW i \in 0 .. Held' - 1 PROVE At(i)' = At(i + 1) /\ slots'[At(i)'] \in Value
  <2>1. i \in Nat /\ i + 1 < W /\ i + 1 \in 0 .. Held - 1
    BY <1>1, <1>2
  <2>2. Plus(Plus(tail, 1), i) = Plus(tail, i + 1)
    BY <1>1, <2>1, PlusPlus
  <2>3. At(i)' = At(i + 1)
    BY <2>2 DEF At
  <2>4. slots[At(i + 1)] \in Value
    BY <2>1 DEF Inv, QueuedWhole
  <2> QED
    BY <2>3, <2>4
<1> QED
  BY <1>2, <1>3, <1>4, <1>5 DEF Index

\* Inv is inductive: each step of either end keeps it.
LEMMA InvStep ==
  ASSUME Inv, [Next]_vars
  PROVE  Inv'
<1>0. TypeOK /\ NeverOvertakes /\ QueuedWhole /\ EndsHaveTheirSlot /\ ViewIsStable
  BY DEF Inv
<1>a. /\ head \in Index /\ tail \in Index /\ Held \in Nat /\ Held <= Cap
      /\ Cap \in Nat /\ Cap > 1 /\ W \in Nat /\ W > Cap
      /\ At(Held) = Slot(head) /\ At(0) = Slot(tail)
      /\ Slot(head) \in 0 .. Cap - 1 /\ Slot(tail) \in 0 .. Cap - 1
      /\ Held = 0 <=> head = tail
  BY <1>0, Indices
<1>b. ASSUME UNCHANGED <<head, tail>>
      PROVE  Held' = Held /\ NeverOvertakes' /\ \A i : At(i)' = At(i)
  BY <1>0, <1>b DEF Held, NeverOvertakes, Attachable, At
<1>1. CASE ProduceBegin
  <2>1. UNCHANGED <<head, tail, slots, consumer, pendingRead, event>> /\ producer' = "begun"
        /\ Held < Cap
    BY <1>1, <1>a DEF ProduceBegin, IsFull, Held
  <2>2. TypeOK' /\ ViewIsStable'
    BY <1>0, <2>1 DEF TypeOK, ViewIsStable
  <2>3. QueuedWhole' /\ EndsHaveTheirSlot'
    BY <1>0, <1>b, <2>1 DEF QueuedWhole, EndsHaveTheirSlot
  <2> QED
    BY <1>b, <2>1, <2>2, <2>3 DEF Inv
<1>c. ASSUME NEW v \in Value \cup {Torn}, slots' = [slots EXCEPT ![Slot(head)] = v],
             UNCHANGED <<head, tail, consumer, pendingRead, event>>, producer # "idle",
             producer' \in {"begun", "encoded", "filled"}, producer' = "filled" => v \in Value
      PROVE  Inv'
  <2>1. Held < Cap /\ Held' = Held /\ \A i : At(i)' = At(i)
    BY <1>0, <1>b, <1>c DEF EndsHaveTheirSlot
  <2>2. TypeOK'
    <3>1. slots' \in [0 .. Cap - 1 -> Value \cup {Torn}]
      BY <1>0, <1>a, <1>c DEF TypeOK
    <3> QED
      BY <1>0, <1>c, <3>1 DEF TypeOK
  <2>3. ASSUME NEW i \in 0 .. Held - 1 PROVE slots'[At(i)] = slots[At(i)]
    <3>1. At(i) # Slot(head)
      BY <1>0, <2>1, ProducerApart
    <3> QED
      BY <1>0, <1>c, <3>1 DEF TypeOK
  <2>4. slots'[Slot(head)] = v
    BY <1>0, <1>a, <1>c DEF TypeOK
  <2>5. QueuedWhole'
    BY <1>0, <1>c, <2>1, <2>3, <2>4 DEF QueuedWhole
  <2>6. EndsHaveTheirSlot'
    BY <1>0, <1>c, <2>1 DEF EndsHaveTheirSlot
  <2>7. pendingRead => slots'[Slot(tail)] = slots[Slot(tail)]
    <3>1. pendingRead => 0 \in 0 .. Held - 1
      BY <1>0, <1>a DEF EndsHaveTheirSlot
    <3> QED
      BY <1>a, <2>3, <3>1
  <2>8. ViewIsStable'
    BY <1>0, <1>c, <2>7 DEF ViewIsStable
  <2> QED
    BY <1>b, <1>c, <2>2, <2>5, <2>6, <2>8 DEF Inv
<1>2. CASE EncodeHeader
  BY <1>2, <1>c DEF EncodeHeader
<1>3. ASSUME NEW v \in Value, CopyPayload(v) PROVE Inv'
  BY <1>3, <1>c DEF CopyPayload
<1>4. CASE ProduceCommit
  <2>1. /\ UNCHANGED <<tail, slots, consumer, pendingRead, event>> /\ producer' = "idle"
        /\ head' = Plus(head, 1) /\ Held < Cap /\ slots[Slot(head)] \in Value
    BY <1>0, <1>4 DEF ProduceCommit, EndsHaveTheirSlot, QueuedWhole
  <2>2. head' \in Index /\ Held' = Held + 1
    <3>1. Held < W - 1
      BY <1>a, <2>1
    <3> QED
      BY <1>a, <2>1, <3>1, Distance DEF Held
  <2>3. TypeOK' /\ ViewIsStable'
    BY <1>0, <2>1, <2>2 DEF TypeOK, ViewIsStable, Index
  <2>4. NeverOvertakes'
    <3>1. Held' <= Cap
      BY <1>a, <2>1, <2>2
    <3> QED
      BY <3>1 DEF NeverOvertakes, Attachable, Held
  <2>5. ASSUME NEW i \in 0 .. Held' - 1 PROVE slots'[At(i)'] \in Value
    <3>1. At(i)' = At(i) /\ slots' = slots
      BY <2>1 DEF At
    <3>2. i \in 0 .. Held - 1 \/ i = Held
      BY <1>a, <2>2
    <3> QED
      BY <1>0, <1>a, <2>1, <3>1, <3>2 DEF QueuedWhole
  <2>6. head' # tail'
    <3>1. Held' # 0
      BY <1>a, <2>2
    <3> QED
      BY <1>a, <2>1, <2>2, <3>1, Distance DEF Held
  <2> QED
    BY <1>0, <2>1, <2>3, <2>4, <2>5, <2>6 DEF Inv, QueuedWhole, EndsHaveTheirSlot
<1>d. ASSUME head # tail, tail' = Plus(tail, 1), UNCHANGED <<head, slots, producer, event>>,
             pendingRead' = FALSE, consumer' \in {"idle", "begin"}
      PROVE  Inv'
  <2>1. /\ tail' \in 0 .. W - 1 /\ Held' = Held - 1 /\ Held' \in Nat /\ NeverOvertakes'
        /\ \A i \in 0 .. Held' - 1 : slots'[At(i)'] \in Value
    BY <1>d, TailMoves
  <2>2. TypeOK'
    <3>1. pendingRead' \in BOOLEAN
      BY <1>d
    <3> QED
      BY <1>0, <1>d, <2>1, <3>1 DEF TypeOK
  <2>3. QueuedWhole'
    BY <1>0, <1>d, <2>1 DEF QueuedWhole
  <2>4. EndsHaveTheirSlot'
    <3>1. Held < Cap => Held' < Cap
      BY <1>a, <2>1
    <3> QED
      BY <1>0, <1>d, <3>1 DEF EndsHaveTheirSlot
  <2> QED
    BY <1>d, <2>1, <2>2, <2>3, <2>4 DEF Inv, ViewIsStable
<1>e. ASSUME UNCHANGED <<head, tail, slots, producer>>,
             consumer' \in {"idle", "begin", "decode"}, pendingRead' = FALSE, event' = event,
             consumer' = "decode" => head # tail
      PROVE  Inv'
  <2>1. TypeOK'
    <3>1. pendingRead' \in BOOLEAN
      BY <1>e
    <3> QED
      BY <1>0, <1>e, <3>1 DEF TypeOK
  <2>2. QueuedWhole' /\ EndsHaveTheirSlot' /\ ViewIsStable'
    BY <1>0, <1>b, <1>e DEF QueuedWhole, EndsHaveTheirSlot, ViewIsStable
  <2> QED
    BY <1>b, <1>e, <2>1, <2>2 DEF Inv
<1>f. pendingRead \in BOOLEAN /\ (consumer # "idle" => pendingRead = FALSE)
  <2>1. pendingRead \in BOOLEAN
    BY <1>0 DEF TypeOK
  <2> QED
    BY <1>0, <2>1 DEF EndsHaveTheirSlot
<1>5. CASE ReleaseView
  <2>1. CASE pendingRead
    BY <1>0, <1>5, <1>d, <2>1 DEF ReleaseView, EndsHaveTheirSlot
  <2>2. CASE ~pendingRead
    BY <1>5, <1>e, <2>2 DEF ReleaseView
  <2> QED
    BY <2>1, <2>2
<1>6. CASE ConsumeEmpty \/ ConsumeBegin
  BY <1>6, <1>e, <1>f DEF ConsumeEmpty, ConsumeBegin
<1>7. CASE Decode
  <2>1. /\ UNCHANGED <<head, tail, slots, producer>> /\ consumer' = "idle" /\ pendingRead' = TRUE
        /\ event' = slots[Slot(tail)] /\ head # tail
    BY <1>0, <1>7 DEF Decode, EndsHaveTheirSlot
  <2>2. slots[Slot(tail)] \in Value
    <3>1. 0 \in 0 .. Held - 1
      BY <1>a, <2>1
    <3> QED
      BY <1>0, <1>a, <3>1 DEF QueuedWhole
  <2>3. TypeOK'
    <3>1. pendingRead' \in BOOLEAN
      BY <2>1
    <3> QED
      BY <1>0, <2>1, <2>2, <3>1 DEF TypeOK
  <2>4. QueuedWhole' /\ EndsHaveTheirSlot'
    BY <1>0, <1>b, <2>1 DEF QueuedWhole, EndsHaveTheirSlot
  <2>5. ViewIsStable'
    BY <2>1, <2>2, RingAssumption DEF ViewIsStable
  <2> QED
    BY <1>b, <2>1, <2>3, <2>4, <2>5 DEF Inv
<1>8. CASE DecodeFails
  <2>1. head # tail /\ pendingRead' = FALSE
    BY <1>0, <1>8, <1>f DEF DecodeFails, EndsHaveTheirSlot
  <2> QED
    BY <1>8, <1>d, <2>1 DEF DecodeFails
<1>9. CASE UNCHANGED vars
  <2>1. TypeOK' /\ ViewIsStable'
    BY <1>0, <1>9 DEF vars, TypeOK, ViewIsStable
  <2>2. QueuedWhole' /\ EndsHaveTheirSlot'
    BY <1>0, <1>9, <1>b DEF vars, QueuedWhole, EndsHaveTheirSlot
  <2> QED
    BY <1>9, <1>b, <2>1, <2>2 DEF vars, Inv
<1> QED
  BY <1>1, <1>2, <1>3, <1>4, <1>5, <1>6, <1>7, <1>8, <1>9 DEF Next, Produce, Poll, WouldBlock

\* Inv holds in every reachable state.
LEMMA InvAlways == Spec => []Inv
  BY InitInv, InvStep, PTL DEF Spec

\* The index words never leave their range; nothing else in the ring is ever out of type.
THEOREM TypeCorrect == Spec => []TypeOK
<1>1. Inv => TypeOK
  BY DEF Inv
<1> QED
  BY InvAlways, <1>1, PTL

\* What AttachRing checks once holds for good: head - tail, computed in words that wrap, never
\* exceeds the capacity.
THEOREM NeverOvertakesAlways == Spec => []NeverOvertakes
<1>1. Inv => NeverOvertakes
  BY DEF Inv
<1> QED
  BY InvAlways, <1>1, PTL

\* The view Poll hands out is whole and keeps its bytes until the next Poll, whatever emit does
\* at the other end.
THEOREM ViewIsStableAlways == Spec => []ViewIsStable
<1>1. Inv => ViewIsStable
  BY DEF Inv
<1> QED
  BY InvAlways, <1>1, PTL

\* What Queued is: as many frames as the indices are apart, in the order of their slots.
QueuedShape ==
  /\ Queued \in [1 .. Held -> Value] /\ Queued \in Seq(Value) /\ Len(Queued) = Held
  /\ Held \in 0 .. Cap
  /\ \A i \in 1 .. Held : Queued[i] = slots[At(i - 1)]

\* The queue between the indices is a sequence of whole frames.
LEMMA QueuedType == Inv => QueuedShape
<1> SUFFICES ASSUME Inv PROVE QueuedShape
  OBVIOUS
<1>1. Held \in Nat /\ Held <= Cap /\ Cap \in Nat
  BY Indices DEF Inv
<1>2. Queued = [i \in 1 .. Held |-> slots[At(i - 1)]]
  BY DEF Queued, Held, At
<1>3. ASSUME NEW i \in 1 .. Held PROVE slots[At(i - 1)] \in Value
  <2>1. i - 1 \in 0 .. Held - 1
    BY <1>1
  <2> QED
    BY <2>1 DEF Inv, QueuedWhole
<1>4. Queued \in [1 .. Held -> Value]
  BY <1>2, <1>3
<1>5. Queued \in Seq(Value) /\ Len(Queued) = Held
  BY <1>1, <1>4
<1>6. \A i \in 1 .. Held : Queued[i] = slots[At(i - 1)]
  BY <1>2
<1> QED
  BY <1>1, <1>4, <1>5, <1>6 DEF QueuedShape

\* Giving back the oldest slot takes the oldest frame, and no other.
LEMMA TailTakes ==
  ASSUME Inv, Inv', head # tail, tail' = Plus(tail, 1), UNCHANGED <<head, slots>>
  PROVE  Fifo!Take
<1>1. /\ Held' = Held - 1 /\ Held \in Nat /\ Held # 0
      /\ \A i \in 0 .. Held' - 1 : At(i)' = At(i + 1)
  BY TailMoves, Indices DEF Inv
<1>2. /\ Queued \in Seq(Value) /\ Len(Queued) = Held
      /\ \A i \in 1 .. Held : Queued[i] = slots[At(i - 1)]
  BY QueuedType DEF QueuedShape
<1>3. /\ Queued' \in Seq(Value) /\ Len(Queued') = Held'
      /\ \A i \in 1 .. Held' : Queued'[i] = slots'[At(i - 1)']
  <2>1. QueuedShape'
    BY QueuedType, PTL
  <2> QED
    BY <2>1 DEF QueuedShape
<1>4. Queued # <<>>
  BY <1>1, <1>2
<1>5. Tail(Queued) \in Seq(Value) /\ Len(Tail(Queued)) = Held - 1
      /\ \A i \in 1 .. Held - 1 : Tail(Queued)[i] = Queued[i + 1]
  BY <1>1, <1>2, <1>4, HeadTailProperties
<1>6. ASSUME NEW i \in 1 .. Held' PROVE Queued'[i] = Tail(Queued)[i]
  <2>1. i \in Nat /\ i - 1 \in 0 .. Held' - 1 /\ i + 1 \in 1 .. Held /\ i \in 1 .. Held - 1
        /\ (i - 1) + 1 = i /\ (i + 1) - 1 = i
    BY <1>1
  <2>2. At(i - 1)' = At(i)
    BY <1>1, <2>1
  <2>3. Queued'[i] = slots[At(i)]
    BY <1>3, <2>2
  <2>4. Queued[i + 1] = slots[At(i)]
    BY <1>2, <2>1
  <2> QED
    BY <1>5, <2>1, <2>3, <2>4
<1>7. Queued' = Tail(Queued)
  BY <1>1, <1>3, <1>5, <1>6, SeqEqual
<1> QED
  BY <1>4, <1>7 DEF Fifo!Take

\* A commit of the producer appends what the slot holds.
LEMMA HeadPuts ==
  ASSUME Inv, Inv', ProduceCommit
  PROVE  \E v \in Value : Fifo!Put(v)
<1> DEFINE v == slots[Slot(head)]
<1>1. /\ Held \in Nat /\ Held < Cap /\ v \in Value /\ At(Held) = Slot(head)
      /\ UNCHANGED <<tail, slots>> /\ head' = Plus(head, 1)
  BY Indices DEF Inv, ProduceCommit, EndsHaveTheirSlot, QueuedWhole
<1>2. Held' = Held + 1
  <2>1. head \in Index /\ tail \in Index /\ Held < W - 1
    BY <1>1, Indices DEF Inv
  <2> QED
    BY <1>1, <2>1, Distance DEF Held
<1>3. /\ Queued \in Seq(Value) /\ Len(Queued) = Held
      /\ \A i \in 1 .. Held : Queued[i] = slots[At(i - 1)]
  BY QueuedType DEF QueuedShape
<1>4. /\ Queued' \in Seq(Value) /\ Len(Queued') = Held'
      /\ \A i \in 1 .. Held' : Queued'[i] = slots'[At(i - 1)']
  <2>1. QueuedShape'
    BY QueuedType, PTL
  <2> QED
    BY <2>1 DEF QueuedShape
<1>5. \A i : At(i)' = At(i)
  BY <1>1 DEF At
<1>6. /\ Append(Queued, v) \in Seq(Value) /\ Len(Append(Queued, v)) = Held + 1
      /\ \A i \in 1 .. Held : Append(Queued, v)[i] = Queued[i]
      /\ Append(Queued, v)[Held + 1] = v
  BY <1>1, <1>3, AppendProperties
<1>7. ASSUME NEW i \in 1 .. Held' PROVE Queued'[i] = Append(Queued, v)[i]
  <2>1. Queued'[i] = slots[At(i - 1)]
    BY <1>1, <1>4, <1>5
  <2>2. CASE i \in 1 .. Held
    BY <1>3, <1>6, <2>1, <2>2
  <2>3. CASE i = Held + 1
    <3>1. i - 1 = Held
      BY <1>1, <2>3
    <3> QED
      BY <1>1, <1>6, <2>1, <2>3, <3>1
  <2>4. i \in 1 .. (Held + 1)
    BY <1>2
  <2>5. i \in 1 .. Held \/ i = Held + 1
    BY <1>1, <2>4
  <2> QED
    BY <2>2, <2>3, <2>5
<1>8. Queued' = Append(Queued, v)
  BY <1>2, <1>4, <1>6, <1>7, SeqEqual
<1> QED
  BY <1>1, <1>3, <1>8 DEF Fifo!Put

\* The ring implements the bounded queue (the safety part of RefinesBoundedFifo): frames come out
\* in the order they were committed, none twice, none missing and none half written, for every
\* capacity and wherever the index words wrap.
THEOREM RingIsFifo == Spec => Fifo!Safety
<1>1. Init => Fifo!Init
  <2> SUFFICES ASSUME Init PROVE Fifo!Init
    OBVIOUS
  <2>1. Queued \in [1 .. Held -> Value] /\ Held \in 0 .. Cap
    BY InitInv, QueuedType DEF QueuedShape
  <2> QED
    BY <2>1 DEF Fifo!Init
<1>2. ASSUME Inv, Inv', [Next]_vars PROVE [Fifo!Next]_Queued
  <2>1. CASE ProduceCommit
    BY <1>2, <2>1, HeadPuts DEF Fifo!Next
  <2>2. CASE tail' = Plus(tail, 1) /\ head # tail /\ UNCHANGED <<head, slots>>
    BY <1>2, <2>2, TailTakes DEF Fifo!Next
  <2>3. CASE UNCHANGED <<head, tail, slots>>
    BY <2>3 DEF Queued
  <2>4. ASSUME NEW v, slots' = [slots EXCEPT ![Slot(head)] = v], UNCHANGED <<head, tail>>,
               producer # "idle"
        PROVE  Queued' = Queued
    <3>1. TypeOK /\ NeverOvertakes /\ Held < Cap
      BY <1>2, <2>4 DEF Inv, EndsHaveTheirSlot
    <3>2. ASSUME NEW i \in 1 .. Held PROVE slots'[At(i - 1)] = slots[At(i - 1)]
      <4>1. i - 1 \in 0 .. Held - 1
        BY <3>1, Indices
      <4>2. At(i - 1) # Slot(head)
        BY <3>1, <4>1, ProducerApart
      <4> QED
        BY <2>4, <3>1, <4>2 DEF TypeOK
    <3>3. Queued = [i \in 1 .. Held |-> slots[At(i - 1)]]
      BY DEF Queued, Held, At
    <3>4. Queued' = [i \in 1 .. Held |-> slots'[At(i - 1)]]
      BY <2>4 DEF Queued, Held, At
    <3> QED
      BY <3>2, <3>3, <3>4
  <2>5. CASE EncodeHeader \/ \E v \in Value : CopyPayload(v)
    BY <2>4, <2>5 DEF EncodeHeader, CopyPayload
  <2>6. CASE ReleaseView \/ DecodeFails
    BY <1>2, <2>2, <2>3, <2>6 DEF ReleaseView, DecodeFails, Inv, EndsHaveTheirSlot
  <2>7. CASE ProduceBegin \/ WouldBlock \/ ConsumeEmpty \/ ConsumeBegin \/ Decode
    BY <2>3, <2>7 DEF ProduceBegin, WouldBlock, ConsumeEmpty, ConsumeBegin, Decode, vars
  <2>8. CASE UNCHANGED vars
    BY <2>3, <2>8 DEF vars
  <2> QED
    BY <1>2, <2>1, <2>5, <2>6, <2>7, <2>8 DEF Next, Produce, Poll
<1>3. Inv /\ [Next]_vars => [Fifo!Next]_Queued
  BY <1>2, InvStep
<1> QED
  BY InvAlways, <1>1, <1>3, PTL DEF Spec, Fifo!Safety

=============================================================================
