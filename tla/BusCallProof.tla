---------------------------- MODULE BusCallProof ----------------------------
(***************************************************************************)
(* An answer that Call returns is whole, for every request, every limit    *)
(* and every size of the rings.                                            *)
(*                                                                         *)
(* The invariant follows the two streams of fragments.  Requests is what   *)
(* is on its way to the runtime and, behind it, the fragment the caller    *)
(* sends next; Replies is what is on its way back and, behind it, the      *)
(* fragment the runtime writes next.  Every fragment of a stream belongs   *)
(* to a start, the number of chunks in front of it; neighbours fit         *)
(* (SentAfter, EchoAfter), and the first one fits what the receiving end   *)
(* has: the assembly of the runtime (Reached), the body awaitReply has so  *)
(* far (Aligned).  What a step does to a stream is to append to it, to     *)
(* take its first or to drop its last element.                             *)
(***************************************************************************)
EXTENDS BusCall, ModuleRuntimeProof

(***************************************************************************)
(* Sequences.                                                              *)
(***************************************************************************)
\* What a sequence without its first element holds.
LEMMA TailOf ==
  ASSUME NEW T, NEW q \in Seq(T), q # <<>>
  PROVE  /\ Tail(q) \in Seq(T) /\ Len(Tail(q)) = Len(q) - 1 /\ Len(q) \in Nat \ {0}
         /\ \A i \in 1 .. Len(q) - 1 : Tail(q)[i] = q[i + 1] /\ i + 1 \in 1 .. Len(q)
         /\ Head(q) = q[1] /\ q[1] \in T
  OBVIOUS

\* What a sequence with one more element holds.
LEMMA AppendOf ==
  ASSUME NEW T, NEW q \in Seq(T), NEW x \in T
  PROVE  /\ Append(q, x) \in Seq(T) /\ Len(Append(q, x)) = Len(q) + 1 /\ Len(q) \in Nat
         /\ \A i \in 1 .. Len(q) : Append(q, x)[i] = q[i] /\ i \in 1 .. Len(q) + 1
         /\ Append(q, x)[Len(q) + 1] = x /\ Append(q, x) # <<>>
         /\ \A i \in 1 .. Len(q) + 1 : i \in 1 .. Len(q) \/ i = Len(q) + 1
<1>1. Append(q, x) \in Seq(T) /\ Len(Append(q, x)) = Len(q) + 1 /\ Len(q) \in Nat
  OBVIOUS
<1>2. \A i \in 1 .. Len(q) : Append(q, x)[i] = q[i] /\ i \in 1 .. Len(q) + 1
  OBVIOUS
<1>3. Append(q, x)[Len(q) + 1] = x
  OBVIOUS
<1>4. Append(q, x) # <<>>
  BY <1>1
<1>5. \A i \in 1 .. Len(q) + 1 : i \in 1 .. Len(q) \/ i = Len(q) + 1
  BY <1>1
<1> QED
  BY <1>1, <1>2, <1>3, <1>4, <1>5

\* Two sequences with the same elements are the same.
LEMMA SameElements ==
  ASSUME NEW T, NEW p \in Seq(T), NEW q \in Seq(T), Len(p) = Len(q),
         \A i \in 1 .. Len(p) : p[i] = q[i]
  PROVE  p = q
  OBVIOUS

\* What a concatenation holds.
LEMMA JoinOf ==
  ASSUME NEW T, NEW p \in Seq(T), NEW q \in Seq(T)
  PROVE  /\ p \o q \in Seq(T) /\ Len(p \o q) = Len(p) + Len(q) /\ Len(p) \in Nat /\ Len(q) \in Nat
         /\ \A i \in 1 .. Len(p) : (p \o q)[i] = p[i]
         /\ \A i \in Len(p) + 1 .. Len(p) + Len(q) : (p \o q)[i] = q[i - Len(p)]
  OBVIOUS

\* The first element of the second queue moves to the end of the first.
LEMMA Carry ==
  ASSUME NEW T, NEW p \in Seq(T), NEW q \in Seq(T), q # <<>>
  PROVE  Append(p, Head(q)) \o Tail(q) = p \o q
  OBVIOUS

\* The first element of a concatenation is that of its first part.
LEMMA TailOfJoin ==
  ASSUME NEW T, NEW p \in Seq(T), NEW q \in Seq(T), p # <<>>
  PROVE  Tail(p) \o q = Tail(p \o q) /\ p \o q # <<>> /\ (p \o q)[1] = Head(p)
  OBVIOUS

\* An element appended to the second part is appended to the concatenation.
LEMMA AppendToJoin ==
  ASSUME NEW T, NEW p \in Seq(T), NEW q \in Seq(T), NEW x \in T
  PROVE  p \o Append(q, x) = Append(p \o q, x)
  OBVIOUS

\* An append does not reach the first element.
LEMMA TailOfAppend ==
  ASSUME NEW T, NEW q \in Seq(T), NEW x \in T, q # <<>>
  PROVE  Tail(Append(q, x)) = Append(Tail(q), x) /\ Head(Append(q, x)) = Head(q)
  OBVIOUS

(***************************************************************************)
(* The fragments of a body: the one that starts after s chunks ends after  *)
(* End(c, s) of them.                                                      *)
(***************************************************************************)
End(c, s) == Smaller(s + ChunkCapacity, Len(Body[c]))
Piece(c, s) == SubSeq(Body[c], s + 1, End(c, s))

\* A body is a sequence of at most MaxBody chunks.
LEMMA BodyType ==
  ASSUME NEW c \in Corr
  PROVE  Body[c] \in Seq(Chunks) /\ Len(Body[c]) \in Nat /\ Len(Body[c]) <= MaxBody
  BY CallAssumption

\* Two neighbouring parts of a sequence make one part.
LEMMA PartsJoin ==
  ASSUME NEW T, NEW b \in Seq(T), NEW s \in Nat, NEW e \in Nat, s <= e, e <= Len(b)
  PROVE  /\ SubSeq(b, 1, s) \o SubSeq(b, s + 1, e) = SubSeq(b, 1, e)
         /\ SubSeq(b, 1, 0) = <<>> /\ SubSeq(b, 1, Len(b)) = b
         /\ SubSeq(b, 1, s) \in Seq(T) /\ Len(SubSeq(b, 1, s)) = s
         /\ SubSeq(b, s + 1, e) \in Seq(T) /\ Len(SubSeq(b, s + 1, e)) = e - s
<1>1. /\ SubSeq(b, 1, s) \in Seq(T) /\ Len(SubSeq(b, 1, s)) = s
      /\ SubSeq(b, s + 1, e) \in Seq(T) /\ Len(SubSeq(b, s + 1, e)) = e - s
  OBVIOUS
<1>2. SubSeq(b, 1, 0) = <<>> /\ SubSeq(b, 1, Len(b)) = b
  OBVIOUS
<1>3. SubSeq(b, 1, s) \o SubSeq(b, s + 1, e) = SubSeq(b, 1, e)
  OBVIOUS
<1> QED
  BY <1>1, <1>2, <1>3

\* A part of the end of a sequence is a part of the sequence.
LEMMA PartOfRest ==
  ASSUME NEW T, NEW b \in Seq(T), NEW s \in Nat, s <= Len(b), NEW p \in Nat, p <= Len(b) - s
  PROVE  LET r == SubSeq(b, s + 1, Len(b)) IN
           /\ r \in Seq(T) /\ Len(r) = Len(b) - s
           /\ SubSeq(r, 1, p) = SubSeq(b, s + 1, s + p)
           /\ SubSeq(r, p + 1, Len(r)) = SubSeq(b, (s + p) + 1, Len(b))
<1> DEFINE r == SubSeq(b, s + 1, Len(b))
<1>1. r \in Seq(T) /\ Len(r) = Len(b) - s
  OBVIOUS
<1>2. \A i \in 1 .. Len(b) - s : r[i] = b[s + i]
  OBVIOUS
<1> HIDE DEF r
<1>3. SubSeq(r, 1, p) = SubSeq(b, s + 1, s + p)
  BY <1>1, <1>2
<1>4. SubSeq(r, p + 1, Len(r)) = SubSeq(b, (s + p) + 1, Len(b))
  BY <1>1, <1>2
<1> QED
  BY <1>1, <1>3, <1>4 DEF r

\* Where a fragment ends, and what it makes of the fragments in front of it.
LEMMA PieceFacts ==
  ASSUME NEW c \in Corr, NEW s \in Nat, s <= Len(Body[c])
  PROVE  /\ End(c, s) \in Nat /\ s <= End(c, s) /\ End(c, s) <= Len(Body[c])
         /\ End(c, s) < Len(Body[c]) => End(c, s) > 0
         /\ Piece(c, s) \in Seq(Chunks) /\ Len(Piece(c, s)) = End(c, s) - s
         /\ SubSeq(Body[c], 1, s) \in Seq(Chunks) /\ Len(SubSeq(Body[c], 1, s)) = s
         /\ SubSeq(Body[c], 1, s) \o Piece(c, s) = SubSeq(Body[c], 1, End(c, s))
         /\ SubSeq(Body[c], 1, 0) = <<>>
         /\ SubSeq(Body[c], 1, Len(Body[c])) = Body[c]
<1>1. Body[c] \in Seq(Chunks) /\ Len(Body[c]) \in Nat
  BY BodyType
<1>2. /\ End(c, s) \in Nat /\ s <= End(c, s) /\ End(c, s) <= Len(Body[c])
      /\ End(c, s) < Len(Body[c]) => End(c, s) > 0
  BY <1>1, RuntimeAssumption DEF End, Smaller
<1> QED
  BY ONLY <1>1, <1>2, PartsJoin, s \in Nat DEF Piece

(***************************************************************************)
(* The stream of requests.                                                 *)
(***************************************************************************)
\* The frames on their way to the runtime, and behind them the one `send' is about to write.
Requests == IF callPc = "send" THEN Append(toModule, Part(correlation, offset)) ELSE toModule

\* A frame of a call; a request holds the fragment that starts after s chunks.
Sent(f, s) ==
  /\ f.corr \in Corr /\ f.kind = CallKind /\ f.pattern \in {"request", "cancel"}
  /\ f.pattern = "request" =>
       /\ s <= Len(Body[f.corr])
       /\ f.msg # Malformed
       /\ f.msg.op = "invoke" /\ f.msg.stage = Stages[CallKind] /\ f.msg.body = Piece(f.corr, s)
       /\ f.more <=> End(f.corr, s) < Len(Body[f.corr])

\* g stands right behind f: the calls come in order, and so do the fragments of a call.
SentAfter(f, s, g, u) ==
  /\ f.corr <= g.corr
  /\ g.pattern = "request" =>
       IF g.corr = f.corr
       THEN /\ f.pattern = "request" /\ f.more /\ u = End(f.corr, s)
            /\ g.msg.deadline = f.msg.deadline
       ELSE u = 0

SentChain(q, s) ==
  /\ Len(s) = Len(q)
  /\ \A i \in 1 .. Len(q) : Sent(q[i], s[i])
  /\ \A i \in 1 .. Len(q) - 1 : SentAfter(q[i], s[i], q[i + 1], s[i + 1])

\* The runtime takes the first frame.
LEMMA SentTail ==
  ASSUME NEW T, NEW q \in Seq(T), NEW s \in Seq(Nat), SentChain(q, s), q # <<>>,
         NEW p, NEW t, p = Tail(q), t = Tail(s)
  PROVE  /\ p \in Seq(T) /\ t \in Seq(Nat) /\ SentChain(p, t)
         /\ Sent(q[1], s[1]) /\ s[1] \in Nat
         /\ p # <<>> => SentAfter(q[1], s[1], p[1], t[1]) /\ Sent(p[1], t[1]) /\ t[1] \in Nat
<1>0. Len(s) = Len(q) /\ s # <<>>
  BY DEF SentChain
<1>1. /\ p \in Seq(T) /\ Len(p) = Len(q) - 1 /\ Len(q) \in Nat \ {0}
      /\ \A i \in 1 .. Len(q) - 1 : p[i] = q[i + 1] /\ i + 1 \in 1 .. Len(q)
  BY ONLY TailOf, q \in Seq(T), q # <<>>, p = Tail(q)
<1>2. /\ t \in Seq(Nat) /\ Len(t) = Len(q) - 1 /\ s[1] \in Nat
      /\ \A i \in 1 .. Len(q) - 1 : t[i] = s[i + 1]
  BY ONLY TailOf, s \in Seq(Nat), t = Tail(s), <1>0
<1>3. ASSUME NEW i \in 1 .. Len(p) PROVE Sent(p[i], t[i])
  BY <1>1, <1>2 DEF SentChain
<1>4. ASSUME NEW i \in 1 .. Len(p) - 1 PROVE SentAfter(p[i], t[i], p[i + 1], t[i + 1])
  <2>1. /\ i \in 1 .. Len(q) - 1 /\ i + 1 \in 1 .. Len(q) - 1
    BY <1>1
  <2>2. SentAfter(q[i + 1], s[i + 1], q[(i + 1) + 1], s[(i + 1) + 1])
    BY <2>1 DEF SentChain
  <2> QED
    BY ONLY <1>1, <1>2, <2>1, <2>2
<1>5. ASSUME p # <<>>
      PROVE  SentAfter(q[1], s[1], p[1], t[1]) /\ Sent(p[1], t[1]) /\ t[1] \in Nat
  <2>1. 1 \in 1 .. Len(q) - 1 /\ 1 \in 1 .. Len(p)
    BY <1>1, <1>5
  <2>2. SentAfter(q[1], s[1], q[1 + 1], s[1 + 1])
    BY <2>1 DEF SentChain
  <2>3. p[1] = q[1 + 1] /\ t[1] = s[1 + 1]
    BY ONLY <1>1, <1>2, <2>1
  <2>4. t[1] \in Nat
    BY <1>1, <1>2, <2>1
  <2> QED
    BY <1>3, <2>1, <2>2, <2>3, <2>4
<1>6. Sent(q[1], s[1])
  BY <1>1 DEF SentChain
<1> QED
  BY <1>1, <1>2, <1>3, <1>4, <1>5, <1>6 DEF SentChain

\* One more frame is sent.
LEMMA SentAppend ==
  ASSUME NEW T, NEW q \in Seq(T), NEW s \in Seq(Nat), SentChain(q, s),
         NEW f \in T, NEW u \in Nat, Sent(f, u),
         q # <<>> => SentAfter(q[Len(q)], s[Len(s)], f, u)
  PROVE  /\ Append(s, u) \in Seq(Nat) /\ SentChain(Append(q, f), Append(s, u))
         /\ Append(s, u)[Len(Append(s, u))] = u
         /\ q # <<>> => Append(q, f)[1] = q[1] /\ Append(s, u)[1] = s[1]
         /\ q = <<>> => Append(q, f)[1] = f /\ Append(s, u)[1] = u
<1> DEFINE p == Append(q, f)
           t == Append(s, u)
<1>0. Len(s) = Len(q)
  BY DEF SentChain
<1>1. /\ p \in Seq(T) /\ Len(p) = Len(q) + 1 /\ Len(q) \in Nat /\ p[Len(q) + 1] = f
      /\ \A i \in 1 .. Len(q) : p[i] = q[i]
      /\ \A i \in 1 .. Len(q) + 1 : i \in 1 .. Len(q) \/ i = Len(q) + 1
  BY ONLY AppendOf, q \in Seq(T), f \in T
<1>2. /\ t \in Seq(Nat) /\ Len(t) = Len(q) + 1 /\ t[Len(q) + 1] = u
      /\ \A i \in 1 .. Len(q) : t[i] = s[i]
  BY ONLY AppendOf, s \in Seq(Nat), u \in Nat, <1>0
<1>3. q = <<>> <=> Len(q) = 0
  OBVIOUS
<1> HIDE DEF p, t
<1>4. ASSUME NEW i \in 1 .. Len(p) PROVE Sent(p[i], t[i])
  <2>1. CASE i \in 1 .. Len(q)
    BY <1>1, <1>2, <2>1 DEF SentChain
  <2>2. CASE i = Len(q) + 1
    BY <1>1, <1>2, <2>2
  <2> QED
    BY ONLY <1>1, <2>1, <2>2, i \in 1 .. Len(p)
<1>5. ASSUME NEW i \in 1 .. Len(p) - 1 PROVE SentAfter(p[i], t[i], p[i + 1], t[i + 1])
  <2>1. CASE i \in 1 .. Len(q) - 1
    <3>1. i \in 1 .. Len(q) /\ i + 1 \in 1 .. Len(q)
      BY <1>1, <2>1
    <3>2. SentAfter(q[i], s[i], q[i + 1], s[i + 1])
      BY <2>1 DEF SentChain
    <3> QED
      BY ONLY <1>1, <1>2, <3>1, <3>2
  <2>2. CASE i = Len(q)
    <3>1. q # <<>> /\ i \in 1 .. Len(q) /\ i + 1 = Len(q) + 1
      BY <1>1, <1>3, <2>2
    <3>2. SentAfter(q[i], s[i], f, u)
      BY <1>0, <2>2, <3>1
    <3> QED
      BY ONLY <1>1, <1>2, <3>1, <3>2
  <2> QED
    BY ONLY <1>1, <2>1, <2>2, i \in 1 .. Len(p) - 1
<1>6. q # <<>> => p[1] = q[1] /\ t[1] = s[1]
  BY <1>1, <1>2, <1>3
<1>7. q = <<>> => p[1] = f /\ t[1] = u
  BY <1>1, <1>2, <1>3
<1> QED
  BY <1>1, <1>2, <1>4, <1>5, <1>6, <1>7 DEF SentChain, p, t

\* The frame that was to be sent next is given up.
LEMMA SentFront ==
  ASSUME NEW T, NEW q \in Seq(T), NEW f \in T, NEW s \in Seq(Nat), SentChain(Append(q, f), s)
  PROVE  LET t == SubSeq(s, 1, Len(q)) IN
           /\ t \in Seq(Nat) /\ SentChain(q, t)
           /\ q # <<>> => Append(q, f)[1] = q[1] /\ t[1] = s[1]
           /\ q = <<>> => Append(q, f)[1] = f
<1> DEFINE p == Append(q, f)
           t == SubSeq(s, 1, Len(q))
<1>1. /\ Len(p) = Len(q) + 1 /\ Len(q) \in Nat /\ p[Len(q) + 1] = f
      /\ \A i \in 1 .. Len(q) : p[i] = q[i]
  BY ONLY AppendOf, q \in Seq(T), f \in T
<1>0. Len(s) = Len(q) + 1 /\ SentChain(p, s)
  BY <1>1 DEF SentChain
<1>2. /\ t \in Seq(Nat) /\ Len(t) = Len(q) /\ \A i \in 1 .. Len(q) : t[i] = s[i]
  BY ONLY <1>0, <1>1, s \in Seq(Nat)
<1>3. q = <<>> <=> Len(q) = 0
  OBVIOUS
<1> HIDE DEF p, t
<1>4. ASSUME NEW i \in 1 .. Len(q) PROVE Sent(q[i], t[i])
  <2>1. Sent(p[i], s[i])
    BY <1>0, <1>1 DEF SentChain
  <2> QED
    BY ONLY <1>1, <1>2, <2>1, i \in 1 .. Len(q)
<1>5. ASSUME NEW i \in 1 .. Len(q) - 1 PROVE SentAfter(q[i], t[i], q[i + 1], t[i + 1])
  <2>1. i \in 1 .. Len(q) /\ i + 1 \in 1 .. Len(q) /\ i \in 1 .. Len(p) - 1
    BY <1>1
  <2>2. SentAfter(p[i], s[i], p[i + 1], s[i + 1])
    BY <1>0, <2>1 DEF SentChain
  <2> QED
    BY ONLY <1>1, <1>2, <2>1, <2>2
<1>6. q # <<>> => p[1] = q[1] /\ t[1] = s[1]
  BY <1>1, <1>2, <1>3
<1>7. q = <<>> => p[1] = f
  BY <1>1, <1>3
<1> QED
  BY <1>2, <1>4, <1>5, <1>6, <1>7 DEF SentChain, p, t

(***************************************************************************)
(* The stream of replies.                                                  *)
(***************************************************************************)
\* A reply is being written.
Active == pc \in {"reply", "wait"}

\* The fragment of the reply r that is written next.
OutOf(r) ==
  LET part == Smaller(Len(r.body), ChunkCapacity) IN
    [corr |-> r.corr, kind |-> r.kind, stage |-> r.stage, status |-> r.status,
     body |-> SubSeq(r.body, 1, part), more |-> part < Len(r.body)]

\* A control frame of the host is the first thing the caller will take.
Refusal == toCaller # <<>> /\ Head(toCaller).status = "KindError"

\* The runtime's frames on their way to the caller, and behind them the next fragment.
Written == (IF Refusal THEN Tail(toCaller) ELSE toCaller) \o outbound
Replies == IF Active THEN Append(Written, OutOf(reply)) ELSE Written

\* A frame of an answer; an answer that is OK repeats the request from s on.
Echo(f, s) ==
  /\ f.corr \in Corr /\ f.status \in Status
  /\ IF f.status = "OK"
     THEN /\ s <= Len(Body[f.corr]) /\ f.body = Piece(f.corr, s)
          /\ f.more <=> End(f.corr, s) < Len(Body[f.corr])
     ELSE ~f.more

\* g stands right behind f: an answer is not interrupted, and begins at its first chunk.
EchoAfter(f, s, g, u) ==
  IF f.more THEN g.corr = f.corr /\ g.status = "OK" /\ u = End(f.corr, s)
  ELSE g.status = "OK" => u = 0

EchoChain(q, s) ==
  /\ Len(s) = Len(q)
  /\ \A i \in 1 .. Len(q) : Echo(q[i], s[i])
  /\ \A i \in 1 .. Len(q) - 1 : EchoAfter(q[i], s[i], q[i + 1], s[i + 1])

\* The caller takes the first frame.
LEMMA EchoTail ==
  ASSUME NEW T, NEW q \in Seq(T), NEW s \in Seq(Nat), EchoChain(q, s), q # <<>>,
         NEW p, NEW t, p = Tail(q), t = Tail(s)
  PROVE  /\ p \in Seq(T) /\ t \in Seq(Nat) /\ EchoChain(p, t)
         /\ Echo(q[1], s[1]) /\ s[1] \in Nat
         /\ p # <<>> => EchoAfter(q[1], s[1], p[1], t[1]) /\ Echo(p[1], t[1]) /\ t[1] \in Nat
<1>0. Len(s) = Len(q) /\ s # <<>>
  BY DEF EchoChain
<1>1. /\ p \in Seq(T) /\ Len(p) = Len(q) - 1 /\ Len(q) \in Nat \ {0}
      /\ \A i \in 1 .. Len(q) - 1 : p[i] = q[i + 1] /\ i + 1 \in 1 .. Len(q)
  BY ONLY TailOf, q \in Seq(T), q # <<>>, p = Tail(q)
<1>2. /\ t \in Seq(Nat) /\ Len(t) = Len(q) - 1 /\ s[1] \in Nat
      /\ \A i \in 1 .. Len(q) - 1 : t[i] = s[i + 1]
  BY ONLY TailOf, s \in Seq(Nat), t = Tail(s), <1>0
<1>3. ASSUME NEW i \in 1 .. Len(p) PROVE Echo(p[i], t[i])
  BY <1>1, <1>2 DEF EchoChain
<1>4. ASSUME NEW i \in 1 .. Len(p) - 1 PROVE EchoAfter(p[i], t[i], p[i + 1], t[i + 1])
  <2>1. /\ i \in 1 .. Len(q) - 1 /\ i + 1 \in 1 .. Len(q) - 1
    BY <1>1
  <2>2. EchoAfter(q[i + 1], s[i + 1], q[(i + 1) + 1], s[(i + 1) + 1])
    BY <2>1 DEF EchoChain
  <2> QED
    BY ONLY <1>1, <1>2, <2>1, <2>2
<1>5. ASSUME p # <<>>
      PROVE  EchoAfter(q[1], s[1], p[1], t[1]) /\ Echo(p[1], t[1]) /\ t[1] \in Nat
  <2>1. 1 \in 1 .. Len(q) - 1 /\ 1 \in 1 .. Len(p)
    BY <1>1, <1>5
  <2>2. EchoAfter(q[1], s[1], q[1 + 1], s[1 + 1])
    BY <2>1 DEF EchoChain
  <2>3. p[1] = q[1 + 1] /\ t[1] = s[1 + 1]
    BY ONLY <1>1, <1>2, <2>1
  <2>4. t[1] \in Nat
    BY <1>1, <1>2, <2>1
  <2> QED
    BY <1>3, <2>1, <2>2, <2>3, <2>4
<1>6. Echo(q[1], s[1])
  BY <1>1 DEF EchoChain
<1> QED
  BY <1>1, <1>2, <1>3, <1>4, <1>5, <1>6 DEF EchoChain

\* One more fragment is about to be written.
LEMMA EchoAppend ==
  ASSUME NEW T, NEW q \in Seq(T), NEW s \in Seq(Nat), EchoChain(q, s),
         NEW f \in T, NEW u \in Nat, Echo(f, u),
         q # <<>> => EchoAfter(q[Len(q)], s[Len(s)], f, u)
  PROVE  /\ Append(s, u) \in Seq(Nat) /\ EchoChain(Append(q, f), Append(s, u))
         /\ Append(s, u)[Len(Append(s, u))] = u
         /\ q # <<>> => Append(q, f)[1] = q[1] /\ Append(s, u)[1] = s[1]
         /\ q = <<>> => Append(q, f)[1] = f /\ Append(s, u)[1] = u
<1> DEFINE p == Append(q, f)
           t == Append(s, u)
<1>0. Len(s) = Len(q)
  BY DEF EchoChain
<1>1. /\ p \in Seq(T) /\ Len(p) = Len(q) + 1 /\ Len(q) \in Nat /\ p[Len(q) + 1] = f
      /\ \A i \in 1 .. Len(q) : p[i] = q[i]
      /\ \A i \in 1 .. Len(q) + 1 : i \in 1 .. Len(q) \/ i = Len(q) + 1
  BY ONLY AppendOf, q \in Seq(T), f \in T
<1>2. /\ t \in Seq(Nat) /\ Len(t) = Len(q) + 1 /\ t[Len(q) + 1] = u
      /\ \A i \in 1 .. Len(q) : t[i] = s[i]
  BY ONLY AppendOf, s \in Seq(Nat), u \in Nat, <1>0
<1>3. q = <<>> <=> Len(q) = 0
  OBVIOUS
<1> HIDE DEF p, t
<1>4. ASSUME NEW i \in 1 .. Len(p) PROVE Echo(p[i], t[i])
  <2>1. CASE i \in 1 .. Len(q)
    BY <1>1, <1>2, <2>1 DEF EchoChain
  <2>2. CASE i = Len(q) + 1
    BY <1>1, <1>2, <2>2
  <2> QED
    BY ONLY <1>1, <2>1, <2>2, i \in 1 .. Len(p)
<1>5. ASSUME NEW i \in 1 .. Len(p) - 1 PROVE EchoAfter(p[i], t[i], p[i + 1], t[i + 1])
  <2>1. CASE i \in 1 .. Len(q) - 1
    <3>1. i \in 1 .. Len(q) /\ i + 1 \in 1 .. Len(q)
      BY <1>1, <2>1
    <3>2. EchoAfter(q[i], s[i], q[i + 1], s[i + 1])
      BY <2>1 DEF EchoChain
    <3> QED
      BY ONLY <1>1, <1>2, <3>1, <3>2
  <2>2. CASE i = Len(q)
    <3>1. q # <<>> /\ i \in 1 .. Len(q) /\ i + 1 = Len(q) + 1
      BY <1>1, <1>3, <2>2
    <3>2. EchoAfter(q[i], s[i], f, u)
      BY <1>0, <2>2, <3>1
    <3> QED
      BY ONLY <1>1, <1>2, <3>1, <3>2
  <2> QED
    BY ONLY <1>1, <2>1, <2>2, i \in 1 .. Len(p) - 1
<1>6. q # <<>> => p[1] = q[1] /\ t[1] = s[1]
  BY <1>1, <1>2, <1>3
<1>7. q = <<>> => p[1] = f /\ t[1] = u
  BY <1>1, <1>2, <1>3
<1> QED
  BY <1>1, <1>2, <1>4, <1>5, <1>6, <1>7 DEF EchoChain, p, t

\* The fragment that was to be written next is given up.
LEMMA EchoFront ==
  ASSUME NEW T, NEW q \in Seq(T), NEW f \in T, NEW s \in Seq(Nat), EchoChain(Append(q, f), s)
  PROVE  LET t == SubSeq(s, 1, Len(q)) IN
           /\ t \in Seq(Nat) /\ EchoChain(q, t)
           /\ q # <<>> => Append(q, f)[1] = q[1] /\ t[1] = s[1]
           /\ q = <<>> => Append(q, f)[1] = f
<1> DEFINE p == Append(q, f)
           t == SubSeq(s, 1, Len(q))
<1>1. /\ Len(p) = Len(q) + 1 /\ Len(q) \in Nat /\ p[Len(q) + 1] = f
      /\ \A i \in 1 .. Len(q) : p[i] = q[i]
  BY ONLY AppendOf, q \in Seq(T), f \in T
<1>0. Len(s) = Len(q) + 1 /\ EchoChain(p, s)
  BY <1>1 DEF EchoChain
<1>2. /\ t \in Seq(Nat) /\ Len(t) = Len(q) /\ \A i \in 1 .. Len(q) : t[i] = s[i]
  BY ONLY <1>0, <1>1, s \in Seq(Nat)
<1>3. q = <<>> <=> Len(q) = 0
  OBVIOUS
<1> HIDE DEF p, t
<1>4. ASSUME NEW i \in 1 .. Len(q) PROVE Echo(q[i], t[i])
  <2>1. Echo(p[i], s[i])
    BY <1>0, <1>1 DEF EchoChain
  <2> QED
    BY ONLY <1>1, <1>2, <2>1, i \in 1 .. Len(q)
<1>5. ASSUME NEW i \in 1 .. Len(q) - 1 PROVE EchoAfter(q[i], t[i], q[i + 1], t[i + 1])
  <2>1. i \in 1 .. Len(q) /\ i + 1 \in 1 .. Len(q) /\ i \in 1 .. Len(p) - 1
    BY <1>1
  <2>2. EchoAfter(p[i], s[i], p[i + 1], s[i + 1])
    BY <1>0, <2>1 DEF EchoChain
  <2> QED
    BY ONLY <1>1, <1>2, <2>1, <2>2
<1>6. q # <<>> => p[1] = q[1] /\ t[1] = s[1]
  BY <1>1, <1>2, <1>3
<1>7. q = <<>> => p[1] = f
  BY <1>1, <1>3
<1> QED
  BY <1>2, <1>4, <1>5, <1>6, <1>7 DEF EchoChain, p, t

(***************************************************************************)
(* The types, and the runtime inside the composition.                      *)
(***************************************************************************)
HostFrame == [corr: Corr, kind: Kinds \cup {0}, stage: Nat, status: Status \cup {"KindError"},
              body: Seq(Chunks), more: BOOLEAN]

CallTypes ==
  /\ callPc \in {"idle", "send", "await", "cancel"}
  /\ correlation \in Nat /\ correlation <= Cardinality(Corr)
  /\ callPc # "idle" => correlation \in Corr
  /\ offset \in Nat /\ (callPc = "send" => offset <= Len(Body[correlation]))
  /\ deadlineNS \in Nat
  /\ received \in Seq(Chunks)
  /\ DOMAIN outcome = Corr /\ DOMAIN answer = Corr
  /\ toModule \in Seq(Frame) /\ toCaller \in Seq(HostFrame)
  /\ handed \in [Corr -> Seq(Chunks)]

\* The correlations are the numbers from 1 on.
LEMMA CorrNumbers ==
  /\ Corr = 1 .. Cardinality(Corr) /\ Cardinality(Corr) \in Nat
  /\ \A c \in Corr : c \in Nat /\ c > 0
<1>1. Cardinality(Corr) \in Nat
  BY RuntimeAssumption, FS_CardinalityType
<1>2. Corr = 1 .. Cardinality(Corr)
  BY CallAssumption
<1> QED
  BY ONLY <1>1, <1>2

\* The fragment `send' writes under the deadline d.
PartOf(c, s, d) ==
  [pattern |-> "request", corr |-> c, kind |-> CallKind, more |-> End(c, s) < Len(Body[c]),
   msg |-> [op |-> "invoke", stage |-> Stages[CallKind], deadline |-> d, body |-> Piece(c, s)]]

\* It is a frame.
LEMMA PartType ==
  ASSUME NEW c \in Corr, NEW s \in Nat, s <= Len(Body[c]), NEW d \in Nat
  PROVE  /\ PartOf(c, s, d) \in Frame /\ Sent(PartOf(c, s, d), s)
         /\ PartOf(c, s, d).corr = c /\ PartOf(c, s, d).pattern = "request"
         /\ PartOf(c, s, d).msg.deadline = d
         /\ PartOf(c, s, d).more <=> End(c, s) < Len(Body[c])
<1>1. Piece(c, s) \in Seq(Chunks)
  BY PieceFacts
<1>2. CallKind \in Kinds /\ Stages[CallKind] \in Nat \ {0}
  BY RuntimeAssumption, CallAssumption
<1> DEFINE m == [op |-> "invoke", stage |-> Stages[CallKind], deadline |-> d, body |-> Piece(c, s)]
           more == End(c, s) < Len(Body[c])
           f == PartOf(c, s, d)
<1>3. f = [pattern |-> "request", corr |-> c, kind |-> CallKind, more |-> more, msg |-> m]
  BY DEF PartOf
<1>4. m \in Message
  BY <1>1, <1>2 DEF Message
<1>5. m # Malformed
  BY <1>4, RuntimeAssumption
<1>6. m.op = "invoke" /\ m.stage = Stages[CallKind] /\ m.deadline = d /\ m.body = Piece(c, s)
  OBVIOUS
<1>7. more \in BOOLEAN
  OBVIOUS
<1> HIDE DEF m, more, f
<1>8. f \in Frame
  BY <1>2, <1>3, <1>4, <1>7 DEF Frame
<1>9. f.corr = c /\ f.pattern = "request" /\ f.msg = m /\ f.kind = CallKind /\ f.more = more
  BY <1>3
<1>10. Sent(f, s)
  BY <1>5, <1>6, <1>9 DEF Sent, more
<1> QED
  BY <1>6, <1>8, <1>9, <1>10 DEF more, f

\* A deadline is a number.
LEMMA UntilType ==
  ASSUME NEW n \in Nat, NEW m \in Nat
  PROVE  Until(n + m) \in Nat
  BY RuntimeAssumption DEF Until, Smaller

CancelOf(c) == [pattern |-> "cancel", corr |-> c, kind |-> CallKind, more |-> FALSE, msg |-> Malformed]

\* The frame Cancel writes is a frame.
LEMMA CancelType ==
  ASSUME NEW c \in Corr
  PROVE  /\ CancelOf(c) \in Frame /\ Sent(CancelOf(c), 0)
         /\ CancelOf(c).corr = c /\ CancelOf(c).pattern = "cancel" /\ CancelOf(c).more = FALSE
  BY CallAssumption DEF CancelOf, Frame, Sent

\* What is held for a request whose frames are typed is typed.
LEMMA HandedType ==
  ASSUME Inv, NEW f \in Frame, StartJob(f)
  PROVE  BodySoFar(f) \in Seq(Chunks) /\ f.corr \in Corr
<1>1. Valid(f) /\ TypeOK
  BY DEF Inv, StartJob, Completes, Admitted
<1> QED
  BY <1>1, BodySoFarType, PolledType DEF Valid

\* A frame that changes a job starts it.
LEMMA JobChange ==
  ASSUME Inv, NEW f \in Frame, Dispatched(f), jobs'[f.corr] # jobs[f.corr]
  PROVE  StartJob(f)
  BY DEF Dispatched, CancelFrame, IgnoreFrame, RejectInvalid, RefuseAssembly, RefuseOversize,
         HoldFragment, RefuseComplete

\* Every step keeps the types of the caller and of the two streams.
LEMMA CallTypesStep ==
  ASSUME Inv, CallTypes, [CallNext]_allVars
  PROVE  CallTypes'
<1>1. CASE CallBegin
  <2>1. correlation' \in Corr /\ Timeout[correlation'] \in Nat /\ clock \in Nat
    BY <1>1, CallAssumption DEF CallBegin, Inv, TypeOK
  <2>2. deadlineNS' \in Nat
    BY <1>1, <2>1, UntilType DEF CallBegin
  <2>3. correlation' \in Nat /\ correlation' <= Cardinality(Corr)
    BY <2>1, CorrNumbers
  <2>4. Len(Body[correlation']) \in Nat
    BY <2>1, BodyType
  <2> QED
    BY <1>1, <2>1, <2>2, <2>3, <2>4 DEF CallBegin, CallTypes
<1>2. CASE SendFails
  BY <1>2 DEF SendFails, Return, CallTypes
<1>3. CASE SendFragment
  <2>1. correlation \in Corr /\ offset \in Nat /\ offset <= Len(Body[correlation]) /\ deadlineNS \in Nat
    BY <1>3 DEF SendFragment, CallTypes
  <2>a. PartOf(correlation, offset, deadlineNS) \in Frame /\ toModule \in Seq(Frame)
    BY <2>1, PartType DEF CallTypes
  <2>b. toModule' = Append(toModule, PartOf(correlation, offset, deadlineNS))
    BY <1>3 DEF SendFragment, Part, PartOf, Piece, End
  <2>2. toModule' \in Seq(Frame)
    BY ONLY <2>a, <2>b
  <2>3. offset' = End(correlation, offset)
    BY <1>3 DEF SendFragment, End
  <2>4. offset' \in Nat /\ offset' <= Len(Body[correlation])
    BY <2>1, <2>3, PieceFacts
  <2>5. callPc' \in {"send", "await"}
    BY <1>3 DEF SendFragment
  <2>6. received' \in Seq(Chunks)
    <3>1. received' = received \/ received' = <<>>
      BY <1>3 DEF SendFragment
    <3>2. received \in Seq(Chunks) /\ <<>> \in Seq(Chunks)
      BY DEF CallTypes
    <3> QED
      BY ONLY <3>1, <3>2
  <2> QED
    BY <1>3, <2>1, <2>2, <2>4, <2>5, <2>6 DEF SendFragment, CallTypes
<1>4. CASE AwaitEpoch
  BY <1>4 DEF AwaitEpoch, Failing, Return, CallTypes
<1>5. CASE AwaitGivesUp
  <2>1. \E how : Failing(how) /\ UNCHANGED <<correlation, offset, toModule, toCaller, handed>>
    BY <1>5, Zenon DEF AwaitGivesUp
  <2>2. callPc = "await"
    BY <1>5 DEF AwaitGivesUp
  <2> QED
    BY <2>1, <2>2 DEF Failing, Return, CallTypes
<1>6. CASE AwaitSkip
  BY <1>6 DEF AwaitSkip, callVars, CallTypes
<1>7. CASE AwaitRefused
  BY <1>7 DEF AwaitRefused, Failing, Return, CallTypes
<1>8. CASE AwaitPart
  <2>1. toCaller \in Seq(HostFrame) /\ toCaller # <<>> /\ toCaller' = Tail(toCaller)
    BY <1>8 DEF AwaitPart, CallTypes
  <2>a. toCaller' \in Seq(HostFrame) /\ Head(toCaller) \in HostFrame
    BY ONLY <2>1
  <2>b. Head(toCaller).body \in Seq(Chunks) /\ received \in Seq(Chunks) /\ <<>> \in Seq(Chunks)
    BY <2>a DEF HostFrame, CallTypes
  <2>c. received' = received \o Head(toCaller).body \/ received' = <<>>
    BY <1>8 DEF AwaitPart, Return
  <2>2. received' \in Seq(Chunks)
    <3>1. CASE received' = <<>>
      BY <2>b, <3>1
    <3>2. CASE received' = received \o Head(toCaller).body
      BY ONLY <2>b, <3>2, JoinOf
    <3> QED
      BY <2>c, <3>1, <3>2
  <2>3. callPc' \in {"idle", "await"} /\ deadlineNS' \in Nat /\ (callPc' = "await" => callPc = "await")
    BY <1>8 DEF AwaitPart, Return, CallTypes
  <2>4. DOMAIN outcome' = Corr /\ DOMAIN answer' = Corr
    BY <1>8 DEF AwaitPart, Return, CallTypes
  <2> QED
    BY <1>8, <2>a, <2>2, <2>3, <2>4 DEF AwaitPart, CallTypes
<1>9. CASE CancelCall
  <2>1. correlation \in Corr
    BY <1>9 DEF CancelCall, CallTypes
  <2>2. toModule' = toModule \/ toModule' = Append(toModule, CancelOf(correlation))
    BY <1>9 DEF CancelCall, CancelOf
  <2>a. CancelOf(correlation) \in Frame /\ toModule \in Seq(Frame)
    BY <2>1, CancelType DEF CallTypes
  <2>3. toModule' \in Seq(Frame)
    BY ONLY <2>2, <2>a
  <2> QED
    BY <1>9, <2>3 DEF CancelCall, CallTypes
<1>10. CASE TakeFrame
  <2> DEFINE f == Head(toModule)
  <2>1. f \in Frame /\ toModule' \in Seq(Frame)
    BY <1>10 DEF TakeFrame, CallTypes
  <2>2. Dispatched(f)
    BY <1>10 DEF TakeFrame
  <2>3. handed' = handed \/ (StartJob(f) /\ handed' = [handed EXCEPT ![f.corr] = BodySoFar(f)])
    BY <1>10, <2>1, <2>2, JobChange DEF TakeFrame
  <2> HIDE DEF f
  <2>4. handed' \in [Corr -> Seq(Chunks)]
    BY <2>1, <2>3, HandedType DEF CallTypes
  <2> QED
    BY <1>10, <2>1, <2>4 DEF TakeFrame, callVars, CallTypes
<1>11. CASE HostCarries
  <2>1. Head(outbound) \in OutFrame
    BY <1>11 DEF HostCarries, Inv, TypeOK
  <2>2. Head(outbound) \in HostFrame
    BY <2>1 DEF OutFrame, HostFrame
  <2> QED
    BY <1>11, <2>2 DEF HostCarries, callVars, CallTypes
<1>12. CASE HostRefuses
  <2>1. correlation \in Corr
    BY <1>12 DEF HostRefuses, CallTypes
  <2>2. toCaller' \in Seq(HostFrame)
    BY <1>12, <2>1 DEF HostRefuses, HostFrame
  <2> QED
    BY <1>12, <2>2 DEF HostRefuses, callVars, CallTypes
<1>13. CASE CallerCancels
  BY <1>13 DEF CallerCancels, CallTypes
<1>14. CASE UNCHANGED <<callVars, toModule, toCaller, handed>>
  BY <1>14 DEF callVars, CallTypes
<1> QED
  BY <1>1, <1>2, <1>3, <1>4, <1>5, <1>6, <1>7, <1>8, <1>9, <1>10, <1>11, <1>12, <1>13, <1>14
  DEF CallNext, Call, Loop, Handler, Environment, Finished, allVars

\* A step of the composition is a step of the runtime or leaves the runtime alone.
LEMMA RuntimeSteps ==
  ASSUME Inv, CallTypes, [CallNext]_allVars
  PROVE  [AnyNext]_vars
<1>1. CASE TakeFrame
  <2>1. Head(toModule) \in Frame /\ Dispatched(Head(toModule))
    BY <1>1 DEF TakeFrame, CallTypes
  <2> QED
    BY <2>1 DEF AnyNext
<1>2. ASSUME NEW w \in Wid, Handler(w) PROVE AnyHandlerStep(w)
  <2>1. ASSUME NEW status, HandlerReturn(w, [status |-> status, body |-> handed[work[w].corr]])
        PROVE  AnyHandlerStep(w)
    <3>1. work[w].phase # "free" /\ work[w] \in Work
      BY <2>1 DEF HandlerReturn, Inv, TypeOK
    <3>2. work[w].corr \in Corr
      BY <3>1 DEF Inv, Encodes, Work
    <3>3. handed[work[w].corr] \in Seq(Chunks)
      BY <3>2 DEF CallTypes
    <3>4. [status |-> status, body |-> handed[work[w].corr]].body \in Seq(Chunks)
      BY <3>3
    <3> QED
      BY <2>1, <3>4 DEF AnyHandlerStep
  <2> QED
    BY <1>2, <2>1 DEF Handler, AnyHandlerStep
<1>3. CASE HostCarries
  BY <1>3 DEF HostCarries, AnyNext
<1>4. CASE Environment
  BY <1>4 DEF Environment, AnyNext
<1>5. CASE OwnStep \/ PollNothing
  BY <1>5 DEF AnyNext
<1>6. CASE \E w \in Wid : Handler(w)
  BY <1>2, <1>6 DEF AnyNext
<1>7. CASE UNCHANGED vars
  BY <1>7
<1> QED
  BY <1>1, <1>3, <1>4, <1>5, <1>6, <1>7
  DEF CallNext, Call, Loop, Finished, allVars, CallBegin, SendFails, SendFragment, AwaitEpoch,
      AwaitGivesUp, AwaitSkip, AwaitRefused, AwaitPart, CancelCall, HostRefuses, CallerCancels

(***************************************************************************)
(* The requests reach the runtime fragment by fragment.                    *)
(***************************************************************************)
\* The runtime has nothing of the call.
Untouched(c) == jobs[c] = NoWork /\ assemblies[c] = NoAssembly

\* The runtime has the first s chunks of the call that f belongs to, or it has refused them
\* because its table was full, and the table still is: what fills it are the requests of
\* calls that gave up in the middle, of which no frame will come any more.
Reached(f, s) ==
  /\ jobs[f.corr] = NoWork
  /\ \/ s = 0 /\ assemblies[f.corr] = NoAssembly
     \/ /\ s > 0
        /\ assemblies[f.corr] = [kind |-> CallKind, stage |-> Stages[CallKind],
                                 deadline |-> f.msg.deadline, body |-> SubSeq(Body[f.corr], 1, s)]
     \/ s > 0 /\ assemblies[f.corr] = NoAssembly /\ Cardinality(AssemblyKeys) >= MaxInFlight

\* The runtime has nothing of the calls behind the first frame.
Meets(q, s) ==
  /\ q # <<>> /\ q[1].pattern = "request" => Reached(q[1], s[1])
  /\ \A c \in Corr : c > (IF q = <<>> THEN correlation ELSE q[1].corr) => Untouched(c)

RequestInv ==
  /\ \E s \in Seq(Nat) : /\ SentChain(Requests, s) /\ Meets(Requests, s)
                         /\ callPc = "send" => s[Len(s)] = offset
  /\ \A i \in 1 .. Len(toModule) :
       /\ toModule[i].corr <= correlation
       /\ callPc = "send" /\ toModule[i].corr = correlation => toModule[i].more

\* The frame that is sent next is a frame like the others.
LEMMA RequestsType ==
  ASSUME CallTypes
  PROVE  /\ Requests \in Seq(Frame) /\ toModule \in Seq(Frame)
         /\ callPc = "send" =>
              /\ correlation \in Corr /\ offset \in Nat /\ offset <= Len(Body[correlation])
              /\ deadlineNS \in Nat
              /\ PartOf(correlation, offset, deadlineNS) \in Frame /\ Requests # <<>>
              /\ Requests = Append(toModule, PartOf(correlation, offset, deadlineNS))
         /\ callPc # "send" => Requests = toModule
<1>1. toModule \in Seq(Frame)
  BY DEF CallTypes
<1>2. CASE callPc = "send"
  <2>1. correlation \in Corr /\ offset \in Nat /\ offset <= Len(Body[correlation]) /\ deadlineNS \in Nat
    BY <1>2 DEF CallTypes
  <2>2. PartOf(correlation, offset, deadlineNS) \in Frame
    BY <2>1, PartType
  <2>3. Requests = Append(toModule, PartOf(correlation, offset, deadlineNS))
    BY <1>2 DEF Requests, Part, PartOf, Piece, End
  <2>4. Requests \in Seq(Frame) /\ Requests # <<>>
    BY ONLY <1>1, <2>2, <2>3, AppendOf
  <2> QED
    BY <1>1, <1>2, <2>1, <2>2, <2>3, <2>4
<1>3. CASE callPc # "send"
  BY <1>1, <1>3 DEF Requests
<1> QED
  BY <1>2, <1>3

\* A step that moves no frame and touches neither the tables nor the sending.
LEMMA RequestQuiet ==
  ASSUME CallTypes, RequestInv, toModule' = toModule, correlation' = correlation,
         \/ callPc # "send" /\ callPc' # "send"
         \/ callPc' = callPc /\ offset' = offset /\ deadlineNS' = deadlineNS,
         assemblies' = assemblies,
         \A c \in Corr : jobs'[c] = jobs[c] \/ jobs'[c] = NoWork
  PROVE  RequestInv'
<1>1. Requests' = Requests
  BY DEF Requests, Part
<1>2. AssemblyKeys' = AssemblyKeys
  BY DEF AssemblyKeys
<1>3. PICK s \in Seq(Nat) : /\ SentChain(Requests, s) /\ Meets(Requests, s)
                            /\ callPc = "send" => s[Len(s)] = offset
  BY DEF RequestInv
<1>4. Requests # <<>> => Requests[1].corr \in Corr
  <2> SUFFICES ASSUME Requests # <<>> PROVE Requests[1].corr \in Corr
    OBVIOUS
  <2>1. Sent(Requests[1], s[1])
    BY <1>3, RequestsType, SentTail
  <2> QED
    BY <2>1 DEF Sent
<1>5. Meets(Requests, s)'
  <2>1. ASSUME NEW c \in Corr, Untouched(c) PROVE Untouched(c)'
    BY <2>1 DEF Untouched
  <2>2. ASSUME Requests # <<>>, Reached(Requests[1], s[1]) PROVE Reached(Requests[1], s[1])'
    BY <1>1, <1>2, <1>4, <2>2 DEF Reached
  <2> QED
    BY <1>1, <1>3, <2>1, <2>2 DEF Meets
<1>6. SentChain(Requests, s)' /\ (callPc' = "send" => s[Len(s)] = offset')
  BY <1>1, <1>3
<1> QED
  BY <1>5, <1>6 DEF RequestInv

\* Call begins with its first fragment.
LEMMA RequestBegin ==
  ASSUME Inv, CallTypes, CallTypes', RequestInv, CallBegin
  PROVE  RequestInv'
<1>1. /\ correlation' = correlation + 1 /\ correlation' \in Corr /\ callPc' = "send" /\ offset' = 0
      /\ toModule' = toModule /\ jobs' = jobs /\ assemblies' = assemblies /\ callPc # "send"
  BY DEF CallBegin, vars
<1>2. correlation \in Nat /\ correlation < correlation'
  BY <1>1 DEF CallTypes
<1>a. offset' \in Nat /\ offset' <= Len(Body[correlation']) /\ deadlineNS' \in Nat
  BY <1>1 DEF CallTypes
<1>b. PICK f : f = PartOf(correlation', 0, deadlineNS')
  OBVIOUS
<1>3. f \in Frame /\ Sent(f, 0) /\ f.corr = correlation' /\ f.pattern = "request"
  BY <1>1, <1>a, <1>b, PartType
<1>4. Requests' = Append(toModule, f) /\ Requests = toModule /\ toModule \in Seq(Frame)
  BY <1>1, <1>b DEF Requests, CallTypes, Part, PartOf, Piece, End
<1>5. PICK s \in Seq(Nat) : SentChain(toModule, s) /\ Meets(toModule, s)
  BY <1>4 DEF RequestInv
<1>6. ASSUME toModule # <<>> PROVE SentAfter(toModule[Len(toModule)], s[Len(s)], f, 0)
  <2>1. Len(toModule) \in 1 .. Len(toModule)
    BY <1>4, <1>6
  <2>2. toModule[Len(toModule)].corr <= correlation
    BY <2>1 DEF RequestInv
  <2>3. Sent(toModule[Len(toModule)], s[Len(toModule)])
    BY <1>5, <2>1 DEF SentChain
  <2>4. toModule[Len(toModule)].corr \in Nat
    BY <2>3, CorrNumbers DEF Sent
  <2>5. toModule[Len(toModule)].corr <= f.corr /\ toModule[Len(toModule)].corr # f.corr
    BY ONLY <1>1, <1>2, <1>3, <2>2, <2>4
  <2> QED
    BY ONLY <2>5 DEF SentAfter
<1>c. PICK t, q : t = Append(s, 0) /\ q = Append(toModule, f)
  OBVIOUS
<1>7. /\ t \in Seq(Nat) /\ SentChain(q, t) /\ t[Len(t)] = 0
      /\ toModule # <<>> => q[1] = toModule[1] /\ t[1] = s[1]
      /\ toModule = <<>> => q[1] = f /\ t[1] = 0
  BY <1>3, <1>4, <1>5, <1>6, <1>c, SentAppend
<1>8. q # <<>>
  BY <1>3, <1>4, <1>c, AppendOf
<1>9. Meets(q, t)'
  <2>1. AssemblyKeys' = AssemblyKeys
    BY <1>1 DEF AssemblyKeys
  <2>2. \A c \in Corr : Untouched(c) => Untouched(c)'
    BY <1>1 DEF Untouched
  <2>3. CASE toModule # <<>>
    <3>1. \A c \in Corr : c > q[1].corr => Untouched(c)
      BY <1>5, <1>7, <2>3 DEF Meets
    <3>2. q[1].pattern = "request" => Reached(q[1], t[1])
      BY <1>5, <1>7, <2>3 DEF Meets
    <3>3. q[1].pattern = "request" => Reached(q[1], t[1])'
      BY <1>1, <2>1, <3>2 DEF Reached
    <3> QED
      BY <1>8, <2>2, <3>1, <3>3 DEF Meets
  <2>4. CASE toModule = <<>>
    <3>1. \A c \in Corr : c > correlation => Untouched(c)
      BY <1>5, <2>4 DEF Meets
    <3>a. q[1].corr \in Corr /\ q[1].corr > correlation /\ t[1] = 0
      BY <1>1, <1>2, <1>3, <1>7, <2>4
    <3>2. Reached(q[1], t[1])'
      BY <2>2, <3>1, <3>a DEF Reached, Untouched
    <3>3. \A c \in Corr : c > q[1].corr => c > correlation
      BY ONLY <1>2, <3>a, CorrNumbers
    <3> QED
      BY <1>8, <2>2, <3>1, <3>2, <3>3 DEF Meets
  <2> QED
    BY <2>3, <2>4
<1>10. ASSUME NEW i \in 1 .. Len(toModule')
       PROVE  toModule'[i].corr <= correlation' /\ toModule'[i].corr # correlation'
  <2>1. toModule[i].corr <= correlation
    BY <1>1 DEF RequestInv
  <2>2. toModule[i].corr \in Nat
    <3>1. Sent(toModule[i], s[i])
      BY <1>1, <1>5 DEF SentChain
    <3> QED
      BY <3>1, CorrNumbers DEF Sent
  <2> QED
    BY <1>1, <1>2, <2>1, <2>2
<1>11. Requests' = q
  BY <1>4, <1>c
<1>12. SentChain(Requests', t) /\ Meets(Requests, t)' /\ t[Len(t)] = offset'
  BY <1>1, <1>7, <1>9, <1>11 DEF Meets
<1> QED
  BY <1>7, <1>10, <1>12 DEF RequestInv

\* send gives up: the fragment it was about to write is not sent.
LEMMA RequestFails ==
  ASSUME CallTypes, RequestInv, SendFails
  PROVE  RequestInv'
<1>1. /\ callPc = "send" /\ callPc' = "idle" /\ correlation' = correlation /\ toModule' = toModule
      /\ jobs' = jobs /\ assemblies' = assemblies
  BY DEF SendFails, vars
<1>2. PICK f \in Frame : f = PartOf(correlation, offset, deadlineNS)
  BY <1>1, RequestsType
<1>3. /\ Requests = Append(toModule, f) /\ toModule \in Seq(Frame) /\ Requests' = toModule
      /\ f.corr = correlation /\ correlation \in Corr
  <2>1. /\ correlation \in Corr /\ offset \in Nat /\ offset <= Len(Body[correlation])
        /\ deadlineNS \in Nat
    BY <1>1, RequestsType
  <2> QED
    BY <1>1, <1>2, <2>1, RequestsType, PartType DEF Requests
<1>4. PICK s \in Seq(Nat) : SentChain(Requests, s) /\ Meets(Requests, s)
  BY DEF RequestInv
<1>5. PICK q, t : q = toModule /\ t = SubSeq(s, 1, Len(toModule))
  OBVIOUS
<1>6. /\ t \in Seq(Nat) /\ SentChain(q, t)
      /\ q # <<>> => Requests[1] = q[1] /\ t[1] = s[1]
      /\ q = <<>> => Requests[1] = f
  BY <1>2, <1>3, <1>4, <1>5, SentFront
<1>7. Requests # <<>>
  BY <1>2, <1>3, AppendOf
<1>8. Meets(q, t)'
  <2>1. AssemblyKeys' = AssemblyKeys
    BY <1>1 DEF AssemblyKeys
  <2>2. \A c \in Corr : c > Requests[1].corr => Untouched(c)'
    BY <1>1, <1>4, <1>7 DEF Untouched, Meets
  <2>3. CASE q # <<>>
    <3>1. q[1].pattern = "request" => Reached(q[1], t[1])
      BY <1>4, <1>6, <1>7, <2>3 DEF Meets
    <3>2. q[1].pattern = "request" => Reached(q[1], t[1])'
      BY <1>1, <2>1, <3>1 DEF Reached
    <3> QED
      BY <1>6, <2>2, <2>3, <3>2 DEF Meets
  <2>4. CASE q = <<>>
    BY <1>1, <1>3, <1>6, <2>2, <2>4 DEF Meets
  <2> QED
    BY <2>3, <2>4
<1>9. Requests' = q
  BY <1>3, <1>5
<1>10. SentChain(Requests', t) /\ Meets(Requests, t)'
  BY <1>6, <1>8, <1>9 DEF Meets
<1> QED
  BY <1>1, <1>6, <1>10 DEF RequestInv

\* send writes a fragment; the next one begins where it ends.
LEMMA RequestFragment ==
  ASSUME CallTypes, CallTypes', RequestInv, SendFragment
  PROVE  RequestInv'
<1>1. /\ callPc = "send" /\ correlation' = correlation /\ deadlineNS' = deadlineNS
      /\ jobs' = jobs /\ assemblies' = assemblies
      /\ offset' = End(correlation, offset)
      /\ toModule' = Append(toModule, PartOf(correlation, offset, deadlineNS))
      /\ offset' < Len(Body[correlation]) => callPc' = "send"
      /\ ~(offset' < Len(Body[correlation])) => callPc' = "await"
  BY DEF SendFragment, vars, Part, PartOf, Piece, End
<1>a. /\ correlation \in Corr /\ offset \in Nat /\ offset <= Len(Body[correlation])
      /\ deadlineNS \in Nat
  BY <1>1, RequestsType
<1>2. PICK f \in Frame : f = PartOf(correlation, offset, deadlineNS)
  BY <1>1, RequestsType
<1>3. PICK q : q = Append(toModule, f)
  OBVIOUS
<1>4. Requests = q /\ toModule' = q /\ q \in Seq(Frame) /\ toModule \in Seq(Frame) /\ q # <<>>
      /\ Len(q) = Len(toModule) + 1
  BY <1>1, <1>2, <1>3, RequestsType, AppendOf
<1>5. /\ f.corr = correlation /\ f.pattern = "request" /\ f.msg.deadline = deadlineNS
      /\ f.more <=> End(correlation, offset) < Len(Body[correlation])
  BY <1>a, <1>2, PartType
<1>6. PICK s \in Seq(Nat) : SentChain(q, s) /\ Meets(q, s) /\ s[Len(s)] = offset
  BY <1>1, <1>4 DEF RequestInv
<1>7. \A t, p : (t \in Seq(Nat) /\ p # <<>> /\ p[1] = q[1] /\ t[1] = s[1]) => Meets(p, t)'
  <2>1. AssemblyKeys' = AssemblyKeys
    BY <1>1 DEF AssemblyKeys
  <2> SUFFICES ASSUME NEW t \in Seq(Nat), NEW p, p # <<>>, p[1] = q[1], t[1] = s[1] PROVE Meets(p, t)'
    OBVIOUS
  <2>2. p[1].pattern = "request" => Reached(p[1], t[1])
    BY <1>4, <1>6 DEF Meets
  <2>3. p[1].pattern = "request" => Reached(p[1], t[1])'
    BY <1>1, <2>1, <2>2 DEF Reached
  <2>4. \A c \in Corr : c > p[1].corr => Untouched(c)'
    BY <1>1, <1>4, <1>6 DEF Meets, Untouched
  <2> QED
    BY <2>3, <2>4 DEF Meets
<1>8. ASSUME NEW i \in 1 .. Len(toModule')
      PROVE  /\ toModule'[i].corr <= correlation'
             /\ callPc' = "send" /\ toModule'[i].corr = correlation' => toModule'[i].more
  <2>1. CASE i \in 1 .. Len(toModule)
    <3>1. toModule'[i] = toModule[i]
      BY <1>2, <1>3, <1>4, <2>1, AppendOf
    <3> QED
      BY <1>1, <2>1, <3>1 DEF RequestInv
  <2>2. CASE i = Len(toModule) + 1
    <3>1. toModule'[i] = f
      BY <1>2, <1>3, <1>4, <2>2, AppendOf
    <3>2. correlation \in Nat
      BY DEF CallTypes
    <3> QED
      BY <1>1, <1>5, <3>1, <3>2
  <2>3. Len(toModule) \in Nat
    BY <1>4
  <2> QED
    BY ONLY <1>4, <2>1, <2>2, <2>3, i \in 1 .. Len(toModule')
<1>9. CASE callPc' = "send"
  <2>1. f.more /\ offset' \in Nat /\ offset' <= Len(Body[correlation])
    BY <1>1, <1>5, <1>9 DEF CallTypes
  <2>2. PICK g : g = PartOf(correlation, offset', deadlineNS)
    OBVIOUS
  <2>3. /\ g \in Frame /\ Sent(g, offset') /\ g.corr = correlation /\ g.pattern = "request"
        /\ g.msg.deadline = deadlineNS
    BY <1>a, <2>1, <2>2, PartType
  <2>4. Requests' = Append(q, g)
    BY <1>1, <1>4, <1>9, <2>2 DEF Requests, Part, PartOf, Piece, End
  <2>5. q[Len(q)] = f
    BY <1>2, <1>3, <1>4, AppendOf
  <2>6. SentAfter(q[Len(q)], s[Len(s)], g, offset')
    <3>1. correlation <= correlation
      BY DEF CallTypes
    <3> QED
      BY <1>1, <1>5, <1>6, <2>1, <2>3, <2>5, <3>1 DEF SentAfter
  <2>7. PICK t, p : t = Append(s, offset') /\ p = Append(q, g)
    OBVIOUS
  <2>8. t \in Seq(Nat) /\ SentChain(p, t) /\ t[Len(t)] = offset' /\ p[1] = q[1] /\ t[1] = s[1]
    BY <1>4, <1>6, <2>1, <2>3, <2>6, <2>7, SentAppend
  <2>9. p # <<>>
    BY ONLY <1>4, <2>3, <2>7, AppendOf
  <2>10. SentChain(Requests', t) /\ Meets(Requests, t)'
    <3>1. Requests' = p
      BY <2>4, <2>7
    <3>2. Meets(p, t)'
      BY <1>7, <2>8, <2>9
    <3> QED
      BY <2>8, <3>1, <3>2 DEF Meets
  <2> QED
    BY <1>8, <2>8, <2>10 DEF RequestInv
<1>10. CASE callPc' # "send"
  <2>1. Requests' = q
    BY <1>4, <1>10 DEF Requests
  <2>2. Meets(q, s)'
    BY <1>4, <1>7
  <2>3. SentChain(Requests', s) /\ Meets(Requests, s)'
    BY <1>6, <2>1, <2>2 DEF Meets
  <2> QED
    BY <1>8, <1>10, <2>3 DEF RequestInv
<1> QED
  BY <1>9, <1>10

\* Call publishes a cancel, or cannot.
LEMMA RequestCancel ==
  ASSUME CallTypes, RequestInv, CancelCall
  PROVE  RequestInv'
<1>1. /\ callPc = "cancel" /\ callPc' = "idle" /\ correlation' = correlation
      /\ jobs' = jobs /\ assemblies' = assemblies
      /\ toModule' = toModule \/ toModule' = Append(toModule, CancelOf(correlation))
  BY DEF CancelCall, CancelOf, vars
<1>2. CASE toModule' = toModule
  BY <1>1, <1>2, RequestQuiet
<1>3. CASE toModule' = Append(toModule, CancelOf(correlation))
  <2>1. PICK f : f = CancelOf(correlation)
    OBVIOUS
  <2>a. correlation \in Corr /\ correlation \in Nat
    BY <1>1 DEF CallTypes
  <2>2. f \in Frame /\ Sent(f, 0) /\ f.corr = correlation /\ f.pattern = "cancel"
    BY <2>1, <2>a, CancelType
  <2>3. PICK q : q = Append(toModule, f)
    OBVIOUS
  <2>4. toModule \in Seq(Frame) /\ Requests = toModule /\ Requests' = q /\ toModule' = q
    BY <1>1, <1>3, <2>1, <2>3, RequestsType DEF Requests
  <2>5. PICK s \in Seq(Nat) : SentChain(toModule, s) /\ Meets(toModule, s)
    BY <2>4 DEF RequestInv
  <2>6. toModule # <<>> => SentAfter(toModule[Len(toModule)], s[Len(s)], f, 0)
    <3> SUFFICES ASSUME toModule # <<>> PROVE SentAfter(toModule[Len(toModule)], s[Len(s)], f, 0)
      OBVIOUS
    <3>1. Len(toModule) \in 1 .. Len(toModule)
      BY <2>4
    <3>2. toModule[Len(toModule)].corr <= correlation
      BY <3>1 DEF RequestInv
    <3> QED
      BY <2>2, <3>2 DEF SentAfter
  <2>7. PICK t : t = Append(s, 0)
    OBVIOUS
  <2>8. /\ t \in Seq(Nat) /\ SentChain(q, t)
        /\ toModule # <<>> => q[1] = toModule[1] /\ t[1] = s[1]
        /\ toModule = <<>> => q[1] = f
    BY <2>2, <2>3, <2>4, <2>5, <2>6, <2>7, SentAppend
  <2>9. q # <<>> /\ Len(q) = Len(toModule) + 1 /\ Len(toModule) \in Nat
        /\ q[Len(toModule) + 1] = f /\ \A i \in 1 .. Len(toModule) : q[i] = toModule[i]
    BY <2>2, <2>3, <2>4, AppendOf
  <2>10. Meets(q, t)'
    <3>1. AssemblyKeys' = AssemblyKeys
      BY <1>1 DEF AssemblyKeys
    <3>2. q[1].pattern = "request" => Reached(q[1], t[1])
      BY <2>2, <2>5, <2>8 DEF Meets
    <3>3. q[1].pattern = "request" => Reached(q[1], t[1])'
      BY <1>1, <3>1, <3>2 DEF Reached
    <3>4. \A c \in Corr : c > q[1].corr => Untouched(c)
      BY <2>2, <2>5, <2>8 DEF Meets
    <3> QED
      BY <1>1, <2>9, <3>3, <3>4 DEF Meets, Untouched
  <2>11. ASSUME NEW i \in 1 .. Len(q) PROVE q[i].corr <= correlation
    <3>1. CASE i \in 1 .. Len(toModule)
      BY <2>9, <3>1 DEF RequestInv
    <3>2. CASE i = Len(toModule) + 1
      BY <2>2, <2>9, <2>a, <3>2
    <3> QED
      BY ONLY <2>9, <3>1, <3>2, i \in 1 .. Len(q)
  <2>12. SentChain(Requests', t) /\ Meets(Requests, t)'
    BY <2>4, <2>8, <2>10 DEF Meets
  <2> QED
    BY <1>1, <2>4, <2>8, <2>11, <2>12 DEF RequestInv
<1> QED
  BY <1>1, <1>2, <1>3

\* A frame changes the tables for its own correlation only.
LEMMA DispatchLocal ==
  ASSUME Inv, NEW f \in Frame, Dispatched(f), NEW c \in Corr, c # f.corr
  PROVE  jobs'[c] = jobs[c] /\ assemblies'[c] = assemblies[c]
  BY DEF Inv, TypeOK, Dispatched, CancelFrame, IgnoreFrame, RejectInvalid, RefuseAssembly,
         RefuseOversize, HoldFragment, RefuseComplete, StartJob

\* A fragment that arrives where the one before it ended is held behind it, or the table is
\* full and it is refused like them; only the last one starts a job, with the whole request.
LEMMA HeadRequest ==
  ASSUME Inv, NEW f \in Frame, NEW s \in Nat, Sent(f, s), f.pattern = "request", Reached(f, s),
         Dispatched(f)
  PROVE  /\ jobs'[f.corr] # jobs[f.corr] => ~f.more /\ BodySoFar(f) = Body[f.corr]
         /\ f.more =>
              /\ jobs'[f.corr] = NoWork
              /\ \/ assemblies'[f.corr] =
                      [kind |-> CallKind, stage |-> Stages[CallKind], deadline |-> f.msg.deadline,
                       body |-> SubSeq(Body[f.corr], 1, End(f.corr, s))]
                 \/ /\ assemblies'[f.corr] = NoAssembly
                    /\ Cardinality(AssemblyKeys') >= MaxInFlight
<1> DEFINE c == f.corr
           old == assemblies[c]
           held == [kind |-> CallKind, stage |-> Stages[CallKind], deadline |-> f.msg.deadline,
                    body |-> SubSeq(Body[c], 1, s)]
<1>1. /\ c \in Corr /\ f.kind = CallKind /\ s <= Len(Body[c]) /\ f.msg # Malformed
      /\ f.msg.op = "invoke" /\ f.msg.stage = Stages[CallKind] /\ f.msg.body = Piece(c, s)
      /\ f.more <=> End(c, s) < Len(Body[c])
  BY DEF Sent
<1>2. jobs[c] = NoWork
  BY DEF Reached
<1>3. old = NoAssembly \/ old = held
  BY DEF Reached
<1>4. Stages[CallKind] # 0
  BY CallAssumption
<1>5. WellFormed(f)
  <2>1. old # NoAssembly => Continues(f, old)
    BY <1>1, <1>3 DEF Continues
  <2> QED
    BY <1>1, <1>2, <1>4, <2>1 DEF WellFormed
<1>6. /\ End(c, s) \in Nat /\ s <= End(c, s) /\ End(c, s) <= Len(Body[c])
      /\ Piece(c, s) \in Seq(Chunks) /\ SubSeq(Body[c], 1, s) \in Seq(Chunks)
      /\ SubSeq(Body[c], 1, s) \o Piece(c, s) = SubSeq(Body[c], 1, End(c, s))
      /\ SubSeq(Body[c], 1, 0) = <<>> /\ SubSeq(Body[c], 1, Len(Body[c])) = Body[c]
  BY <1>1, PieceFacts
<1>7. Admitted(f) => BodySoFar(f) = SubSeq(Body[c], 1, End(c, s))
  <2> SUFFICES ASSUME Admitted(f) PROVE BodySoFar(f) = SubSeq(Body[c], 1, End(c, s))
    OBVIOUS
  <2>1. CASE s = 0
    <3>1. old = NoAssembly
      BY <2>1 DEF Reached
    <3>2. BodySoFar(f) = <<>> \o Piece(c, s)
      BY <1>1, <3>1 DEF BodySoFar
    <3> QED
      BY ONLY <1>6, <2>1, <3>2
  <2>2. CASE s # 0
    <3>1. old # NoAssembly
      <4>1. Cardinality(AssemblyKeys) \in Nat
        <5>1. AssemblyKeys \subseteq Corr /\ IsFiniteSet(Corr)
          BY RuntimeAssumption DEF AssemblyKeys
        <5> QED
          BY <5>1, FS_Subset, FS_CardinalityType
      <4>2. MaxInFlight \in Nat
        BY RuntimeAssumption
      <4>3. CASE Cardinality(AssemblyKeys) >= MaxInFlight
        BY <4>1, <4>2, <4>3 DEF Admitted
      <4>4. CASE old = held
        <5>1. f.msg.deadline \in Nat
          BY <1>1 DEF Frame, Message
        <5>2. CallKind \in Kinds /\ Stages[CallKind] \in Nat
          BY CallAssumption, RuntimeAssumption
        <5>3. held \in Assembly
          BY <1>6, <5>1, <5>2 DEF Assembly
        <5> QED
          BY <4>4, <5>3, RuntimeAssumption
      <4> QED
        BY <2>2, <4>3, <4>4 DEF Reached
    <3>2. old.body = SubSeq(Body[c], 1, s)
      BY <1>3, <3>1
    <3>3. BodySoFar(f) = SubSeq(Body[c], 1, s) \o Piece(c, s)
      BY <1>1, <3>1, <3>2 DEF BodySoFar
    <3> QED
      BY <1>6, <3>3
  <2> QED
    BY <2>1, <2>2
<1>8. Admitted(f) => Len(BodySoFar(f)) <= MaxBody
  <2>1. Len(SubSeq(Body[c], 1, End(c, s))) = End(c, s)
    BY <1>1, <1>6, PieceFacts
  <2>2. Len(Body[c]) \in Nat /\ Len(Body[c]) <= MaxBody
    BY <1>1, BodyType
  <2>3. MaxBody \in Nat
    BY RuntimeAssumption
  <2> QED
    BY <1>6, <1>7, <2>1, <2>2, <2>3
<1>9. ~RejectInvalid(f) /\ ~CancelFrame(f) /\ ~IgnoreFrame(f) /\ ~RefuseOversize(f)
  <2>1. ~RefuseOversize(f)
    <3>1. Admitted(f) => BodySoFar(f) \in Seq(Chunks)
      BY BodySoFarType DEF Inv, Admitted
    <3>2. MaxBody \in Nat
      BY RuntimeAssumption
    <3> QED
      BY <1>8, <3>1, <3>2 DEF RefuseOversize
  <2> QED
    BY <1>5, <2>1 DEF RejectInvalid, CancelFrame, IgnoreFrame
<1>10. jobs \in [Corr -> Wid \cup {NoWork}] /\ assemblies \in [Corr -> Assembly \cup {NoAssembly}]
  BY DEF Inv, TypeOK
<1>11. CASE RefuseAssembly(f)
  <2>1. jobs' = jobs /\ assemblies' = assemblies /\ old = NoAssembly
        /\ Cardinality(AssemblyKeys) >= MaxInFlight
    BY <1>11 DEF RefuseAssembly
  <2>2. AssemblyKeys' = AssemblyKeys
    BY <2>1 DEF AssemblyKeys
  <2> QED
    BY <1>2, <2>1, <2>2
<1>12. CASE HoldFragment(f)
  <2>1. /\ jobs' = jobs /\ Admitted(f)
        /\ assemblies' = [assemblies EXCEPT ![c] =
             [kind |-> f.kind, stage |-> f.msg.stage, deadline |-> f.msg.deadline,
              body |-> BodySoFar(f)]]
    BY <1>12 DEF HoldFragment
  <2>2. assemblies'[c] = [kind |-> f.kind, stage |-> f.msg.stage, deadline |-> f.msg.deadline,
                          body |-> BodySoFar(f)]
    BY <1>1, <1>10, <2>1
  <2> QED
    BY <1>1, <1>2, <1>7, <2>1, <2>2
<1>13. CASE RefuseComplete(f)
  BY <1>13 DEF RefuseComplete, Completes
<1>14. CASE StartJob(f)
  <2>1. Admitted(f) /\ ~f.more
    BY <1>14 DEF StartJob, Completes
  <2>2. End(c, s) = Len(Body[c])
    <3>1. Len(Body[c]) \in Nat
      BY <1>1, BodyType
    <3> QED
      BY <1>1, <1>6, <2>1, <3>1
  <2> QED
    BY <1>6, <1>7, <2>1, <2>2
<1> QED
  BY <1>9, <1>11, <1>12, <1>13, <1>14 DEF Dispatched

\* The runtime takes the first frame: what it then has is what the next frame follows.
LEMMA RequestTake ==
  ASSUME Inv, CallTypes, RequestInv, TakeFrame
  PROVE  RequestInv'
<1>1. /\ toModule \in Seq(Frame) /\ toModule # <<>> /\ toModule' = Tail(toModule)
      /\ callPc' = callPc /\ correlation' = correlation /\ offset' = offset
      /\ deadlineNS' = deadlineNS
  BY DEF TakeFrame, callVars, CallTypes
<1>a. PICK q : q = Requests
  OBVIOUS
<1>b. PICK s \in Seq(Nat) : /\ SentChain(q, s) /\ Meets(q, s)
                            /\ callPc = "send" => s[Len(s)] = offset
  BY <1>a DEF RequestInv
<1>2. /\ q = Requests /\ s \in Seq(Nat) /\ SentChain(q, s) /\ Meets(q, s)
      /\ callPc = "send" => s[Len(s)] = offset
  BY <1>a, <1>b
<1>3. q \in Seq(Frame) /\ q # <<>> /\ q[1] = Head(toModule) /\ Requests' = Tail(q)
  <2>1. CASE callPc = "send"
    <3>1. PICK g \in Frame : g = PartOf(correlation, offset, deadlineNS)
      BY <2>1, RequestsType
    <3>2. q = Append(toModule, g)
      BY <1>2, <2>1, <3>1, RequestsType
    <3>3. Requests' = Append(Tail(toModule), g)
      BY <1>1, <2>1, <3>1 DEF Requests, Part, PartOf, Piece, End
    <3>4. Tail(q) = Append(Tail(toModule), g) /\ Head(q) = Head(toModule)
      BY ONLY <1>1, <3>1, <3>2, TailOfAppend
    <3>5. q \in Seq(Frame) /\ q # <<>>
      BY <2>1, <1>2, RequestsType
    <3>6. Head(q) = q[1]
      BY ONLY <3>5, TailOf
    <3> QED
      BY ONLY <3>3, <3>4, <3>5, <3>6
  <2>2. CASE callPc # "send"
    <3>1. q = toModule /\ Requests' = Tail(toModule)
      BY <1>1, <1>2, <2>2 DEF Requests
    <3> QED
      BY ONLY <1>1, <3>1, TailOf
  <2> QED
    BY <2>1, <2>2
<1>4. PICK f \in Frame : f = q[1]
  BY ONLY <1>3, TailOf
<1>5. Dispatched(f)
  BY <1>3, <1>4 DEF TakeFrame
<1>6. PICK p, t : p = Tail(q) /\ t = Tail(s)
  OBVIOUS
<1>7. /\ t \in Seq(Nat) /\ SentChain(p, t) /\ Sent(f, s[1]) /\ s[1] \in Nat
      /\ p # <<>> => SentAfter(f, s[1], p[1], t[1]) /\ Sent(p[1], t[1]) /\ t[1] \in Nat
  <2>1. q \in Seq(Frame) /\ q # <<>> /\ s \in Seq(Nat) /\ SentChain(q, s)
    BY <1>2, <1>3
  <2>2. t \in Seq(Nat) /\ SentChain(p, t)
    BY ONLY <1>6, <2>1, SentTail
  <2>3. Sent(q[1], s[1]) /\ s[1] \in Nat
    <3>1. 1 \in 1 .. Len(q) /\ Len(s) = Len(q)
      BY ONLY <2>1 DEF SentChain
    <3>2. s[1] \in Nat
      BY ONLY <2>1, <3>1
    <3> QED
      BY ONLY <2>1, <3>1, <3>2 DEF SentChain
  <2>4. ASSUME p # <<>> PROVE SentAfter(q[1], s[1], p[1], t[1]) /\ Sent(p[1], t[1]) /\ t[1] \in Nat
    BY ONLY <1>6, <2>1, <2>4, SentTail
  <2> QED
    BY ONLY <1>4, <2>2, <2>3, <2>4
<1>8. /\ f.pattern = "request" => Reached(f, s[1])
      /\ \A c \in Corr : c > f.corr => Untouched(c)
  BY <1>2, <1>3, <1>4 DEF Meets
<1>9. f.corr \in Corr /\ f.corr \in Nat
  BY <1>7, CorrNumbers DEF Sent
<1>10. \A c \in Corr : c > f.corr => Untouched(c)'
  <2> SUFFICES ASSUME NEW c \in Corr, c > f.corr PROVE Untouched(c)'
    OBVIOUS
  <2>1. c # f.corr
    BY <1>9, CorrNumbers
  <2>2. jobs'[c] = jobs[c] /\ assemblies'[c] = assemblies[c]
    BY <1>5, <2>1, DispatchLocal
  <2> QED
    BY <1>8, <2>2 DEF Untouched
<1>11. f.corr <= correlation /\ correlation \in Nat
  <2>1. 1 \in 1 .. Len(toModule) /\ f = toModule[1]
    BY ONLY <1>1, <1>3, <1>4, TailOf
  <2> QED
    BY <2>1 DEF RequestInv, CallTypes
<1>12. ASSUME p # <<>>, p[1].pattern = "request" PROVE Reached(p[1], t[1])'
  <2>1. SentAfter(f, s[1], p[1], t[1]) /\ p[1].corr \in Corr /\ p[1].corr \in Nat
    BY <1>7, <1>12, CorrNumbers DEF Sent
  <2>2. CASE p[1].corr # f.corr
    <3>1. p[1].corr > f.corr /\ t[1] = 0
      BY <1>9, <1>12, <2>1, <2>2 DEF SentAfter
    <3> QED
      BY <1>10, <2>1, <3>1 DEF Untouched, Reached
  <2>3. CASE p[1].corr = f.corr
    <3>1. /\ f.pattern = "request" /\ f.more /\ t[1] = End(f.corr, s[1])
          /\ p[1].msg.deadline = f.msg.deadline
      BY <1>12, <2>1, <2>3 DEF SentAfter
    <3>2. t[1] > 0
      <4>1. s[1] <= Len(Body[f.corr]) /\ End(f.corr, s[1]) < Len(Body[f.corr])
        BY <1>7, <3>1 DEF Sent
      <4> QED
        BY <1>7, <1>9, <3>1, <4>1, PieceFacts
    <3>3. /\ jobs'[f.corr] = NoWork
          /\ \/ assemblies'[f.corr] =
                  [kind |-> CallKind, stage |-> Stages[CallKind], deadline |-> f.msg.deadline,
                   body |-> SubSeq(Body[f.corr], 1, End(f.corr, s[1]))]
             \/ assemblies'[f.corr] = NoAssembly /\ Cardinality(AssemblyKeys') >= MaxInFlight
      BY <1>5, <1>7, <1>8, <3>1, HeadRequest
    <3> QED
      BY <2>3, <3>1, <3>2, <3>3 DEF Reached
  <2> QED
    BY <2>2, <2>3
<1>13. Meets(p, t)'
  <2>1. CASE p = <<>>
    BY <1>1, <1>9, <1>10, <1>11, <2>1, CorrNumbers DEF Meets
  <2>2. CASE p # <<>>
    <3>1. p[1].corr \in Nat /\ f.corr <= p[1].corr
      BY <1>7, <2>2, CorrNumbers DEF Sent, SentAfter
    <3>2. \A c \in Corr : c > p[1].corr => c > f.corr
      BY ONLY <1>9, <3>1, CorrNumbers
    <3> QED
      BY <1>10, <1>12, <2>2, <3>2 DEF Meets
  <2> QED
    BY <2>1, <2>2
<1>14. callPc = "send" => t[Len(t)] = offset
  <2> SUFFICES ASSUME callPc = "send" PROVE t[Len(t)] = offset
    OBVIOUS
  <2>1. PICK g \in Frame : q = Append(toModule, g)
    BY <1>2, RequestsType
  <2>2. Len(q) = Len(toModule) + 1 /\ Len(toModule) \in Nat \ {0}
    BY ONLY <1>1, <2>1, AppendOf, TailOf
  <2>3. Len(s) = Len(q)
    BY <1>2 DEF SentChain
  <2>4. s # <<>> /\ Len(s) - 1 \in 1 .. Len(s) - 1 /\ (Len(s) - 1) + 1 = Len(s)
    BY ONLY <1>2, <2>2, <2>3
  <2>5. Len(t) = Len(s) - 1 /\ t[Len(s) - 1] = s[(Len(s) - 1) + 1]
    BY ONLY <1>2, <1>6, <2>4, TailOf
  <2> QED
    BY <1>2, <2>4, <2>5
<1>15. ASSUME NEW i \in 1 .. Len(toModule')
       PROVE  /\ toModule'[i].corr <= correlation
              /\ callPc = "send" /\ toModule'[i].corr = correlation => toModule'[i].more
  <2>1. toModule'[i] = toModule[i + 1] /\ i + 1 \in 1 .. Len(toModule)
    BY ONLY <1>1, TailOf, i \in 1 .. Len(toModule')
  <2> QED
    BY <2>1 DEF RequestInv
<1>16. SentChain(Requests', t) /\ Meets(Requests, t)'
  BY <1>3, <1>6, <1>7, <1>13 DEF Meets
<1> QED
  BY <1>1, <1>7, <1>14, <1>15, <1>16 DEF RequestInv

\* The steps of the composition: the runtime takes a frame, works or writes, a handler or the
\* environment moves, or only the caller does.
LEMMA StepKinds ==
  ASSUME [CallNext]_allVars
  PROVE  \/ TakeFrame
         \/ (OwnStep \/ PollNothing) /\ UNCHANGED <<callVars, toModule, toCaller, handed>>
         \/ \E w \in Wid : Handler(w)
         \/ HostCarries
         \/ Environment
         \/ CallBegin \/ SendFails \/ SendFragment \/ AwaitEpoch \/ AwaitGivesUp \/ AwaitSkip
         \/ AwaitRefused \/ AwaitPart \/ CancelCall \/ HostRefuses \/ CallerCancels
         \/ UNCHANGED allVars
  BY DEF CallNext, Call, Loop, Finished

\* Outside Poll the loop only takes jobs off its table.
LEMMA OwnTables ==
  ASSUME Inv, OwnStep \/ PollNothing, NEW c \in Corr
  PROVE  assemblies' = assemblies /\ (jobs'[c] = jobs[c] \/ jobs'[c] = NoWork)
<1>1. CASE FinishWork
  <2>1. jobs \in [Corr -> Wid \cup {NoWork}] /\ work[Head(done)].corr \in Corr
    BY <1>1, ForgetType DEF FinishWork, Inv, TypeOK
  <2> QED
    BY <1>1, <2>1 DEF FinishWork, Forget
<1>2. CASE AwaitJob
  <2>1. jobs \in [Corr -> Wid \cup {NoWork}] /\ work[Head(done)].corr \in Corr
    BY <1>2, ForgetType DEF AwaitJob, Inv, TypeOK
  <2> QED
    BY <1>2, <2>1 DEF AwaitJob, Forget
<1> QED
  BY <1>1, <1>2
  DEF OwnStep, NothingDone, BeginShutdown, Drained, CheckEpoch, PollEpoch, PollNothing, ReplyFails,
      EmitFragment, EmitBlocked, WaitCancelled, WaitTimer

\* The fragments on their way always continue what the runtime has.
LEMMA RequestStep ==
  ASSUME Inv, CallTypes, CallTypes', RequestInv, [CallNext]_allVars
  PROVE  RequestInv'
<1>1. CASE TakeFrame
  BY <1>1, RequestTake
<1>2. CASE (OwnStep \/ PollNothing) /\ UNCHANGED <<callVars, toModule, toCaller, handed>>
  <2>1. \A c \in Corr : jobs'[c] = jobs[c] \/ jobs'[c] = NoWork
    BY <1>2, OwnTables
  <2>2. Corr # {} => assemblies' = assemblies
    BY <1>2, OwnTables
  <2>3. assemblies' = assemblies
    BY <1>2
    DEF OwnStep, FinishWork, NothingDone, BeginShutdown, AwaitJob, Drained, CheckEpoch, PollEpoch,
        PollNothing, ReplyFails, EmitFragment, EmitBlocked, WaitCancelled, WaitTimer
  <2>4. /\ callPc' = callPc /\ offset' = offset /\ deadlineNS' = deadlineNS
        /\ correlation' = correlation /\ toModule' = toModule
    BY <1>2 DEF callVars
  <2> QED
    BY <2>1, <2>3, <2>4, RequestQuiet
<1>3. CASE \/ \E w \in Wid : Handler(w)
           \/ HostCarries \/ Environment \/ UNCHANGED allVars
  <2>1. jobs' = jobs /\ assemblies' = assemblies
    BY <1>3
    DEF Handler, HandlerSend, HandlerReturn, HostCarries, HostDrain, Environment, HostRestart,
        CtxCancel, Tick, allVars, vars, loopVars
  <2>2. /\ callPc' = callPc /\ offset' = offset /\ deadlineNS' = deadlineNS
        /\ correlation' = correlation /\ toModule' = toModule
    BY <1>3 DEF Handler, HostCarries, Environment, allVars, callVars
  <2> QED
    BY <2>1, <2>2, RequestQuiet
<1>4. CASE CallBegin
  BY <1>4, RequestBegin
<1>5. CASE SendFails
  BY <1>5, RequestFails
<1>6. CASE SendFragment
  BY <1>6, RequestFragment
<1>7. CASE CancelCall
  BY <1>7, RequestCancel
<1>8. CASE \/ AwaitEpoch \/ AwaitGivesUp \/ AwaitSkip \/ AwaitRefused \/ AwaitPart \/ HostRefuses
           \/ CallerCancels
  <2>1. jobs' = jobs /\ assemblies' = assemblies /\ toModule' = toModule /\ correlation' = correlation
    BY <1>8
    DEF AwaitEpoch, AwaitGivesUp, AwaitSkip, AwaitRefused, AwaitPart, HostRefuses, CallerCancels,
        vars, callVars
  <2>2. \/ callPc # "send" /\ callPc' # "send"
        \/ callPc' = callPc /\ offset' = offset /\ deadlineNS' = deadlineNS
    BY <1>8
    DEF AwaitEpoch, AwaitGivesUp, AwaitSkip, AwaitRefused, AwaitPart, HostRefuses, CallerCancels,
        callVars, Failing
  <2> QED
    BY <2>1, <2>2, RequestQuiet
<1> QED
  BY <1>1, <1>2, <1>3, <1>4, <1>5, <1>6, <1>7, <1>8, StepKinds

(***************************************************************************)
(* What the handlers are given and what they return.                       *)
(***************************************************************************)
\* A handler has the whole request, and what it has sent is the echo of it or nothing.
WorkEchoes ==
  \A w \in Wid : work[w].phase # "free" =>
    /\ handed[work[w].corr] = Body[work[w].corr]
    /\ work[w].phase \in {"sending", "sent"} =>
         work[w].body = IF work[w].status = "OK" THEN Body[work[w].corr] ELSE <<>>

\* Poll hands a handler the request of its call, whole.
LEMMA TakenBody ==
  ASSUME Inv, CallTypes, RequestInv, TakeFrame
  PROVE  /\ Head(toModule) \in Frame /\ Dispatched(Head(toModule))
         /\ Head(toModule).corr \in Corr /\ Head(toModule).corr <= correlation
         /\ \A c \in Corr : handed'[c] = handed[c] \/ handed'[c] = Body[c]
         /\ StartJob(Head(toModule)) =>
              /\ handed'[Head(toModule).corr] = Body[Head(toModule).corr]
              /\ ~(callPc = "send" /\ Head(toModule).corr = correlation)
<1>1. PICK f : f = Head(toModule)
  OBVIOUS
<1>2. /\ f \in Frame /\ Dispatched(f) /\ f = toModule[1] /\ 1 \in 1 .. Len(toModule)
      /\ toModule # <<>> /\ toModule \in Seq(Frame)
  <2>1. toModule \in Seq(Frame) /\ toModule # <<>> /\ Dispatched(f)
    BY <1>1 DEF TakeFrame, CallTypes
  <2> QED
    BY <1>1, <2>1
<1>3. PICK s \in Seq(Nat) : SentChain(Requests, s) /\ Meets(Requests, s)
  BY DEF RequestInv
<1>4. Requests # <<>> /\ Requests[1] = f /\ Requests \in Seq(Frame)
  <2>1. CASE callPc = "send"
    <3>1. PICK g \in Frame : Requests = Append(toModule, g)
      BY <2>1, RequestsType
    <3> QED
      BY <1>2, <2>1, <3>1, RequestsType
  <2>2. CASE callPc # "send"
    BY <1>2, <2>2, RequestsType
  <2> QED
    BY <2>1, <2>2
<1>5. Sent(f, s[1]) /\ s[1] \in Nat
  <2>1. 1 \in 1 .. Len(Requests) /\ Len(s) = Len(Requests)
    BY <1>3, <1>4 DEF SentChain
  <2>2. s[1] \in Nat
    BY ONLY <1>3, <2>1
  <2> QED
    BY <1>3, <1>4, <2>1, <2>2 DEF SentChain
<1>6. f.corr \in Corr /\ f.corr <= correlation
  BY <1>2, <1>5 DEF Sent, RequestInv
<1>7. jobs'[f.corr] # jobs[f.corr] => StartJob(f) /\ ~f.more /\ BodySoFar(f) = Body[f.corr]
  <2>1. CASE f.pattern = "request"
    <3>1. Reached(f, s[1])
      BY <1>3, <1>4, <2>1 DEF Meets
    <3> QED
      BY <1>2, <1>5, <2>1, <3>1, HeadRequest, JobChange
  <2>2. CASE f.pattern # "request"
    BY <1>2, <2>2, JobChange DEF StartJob, Completes, Admitted, Valid
  <2> QED
    BY <2>1, <2>2
<1>8. handed' = handed \/ (handed' = [handed EXCEPT ![f.corr] = Body[f.corr]])
  BY <1>1, <1>7 DEF TakeFrame
<1>9. \A c \in Corr : handed'[c] = handed[c] \/ handed'[c] = Body[c]
  BY <1>6, <1>8 DEF CallTypes
<1>10. ASSUME StartJob(f)
       PROVE  handed'[f.corr] = Body[f.corr] /\ ~(callPc = "send" /\ f.corr = correlation)
  <2>1. jobs[f.corr] = NoWork /\ ~f.more
    BY <1>10 DEF StartJob, Completes, Admitted, Valid, WellFormed
  <2>2. jobs'[f.corr] \in Wid
    <3>1. PICK w \in FreeWids : jobs' = [jobs EXCEPT ![f.corr] = w]
      BY <1>10 DEF StartJob
    <3> QED
      BY <1>6, <3>1 DEF Inv, TypeOK, FreeWids
  <2>3. jobs'[f.corr] # jobs[f.corr]
    BY <2>1, <2>2, RuntimeAssumption
  <2>4. handed' = [handed EXCEPT ![f.corr] = Body[f.corr]]
    BY <1>1, <1>7, <2>3 DEF TakeFrame
  <2>5. handed'[f.corr] = Body[f.corr]
    BY <1>6, <2>4 DEF CallTypes
  <2>6. ~(callPc = "send" /\ f.corr = correlation)
    BY <1>2, <2>1 DEF RequestInv
  <2> QED
    BY <2>5, <2>6
<1> QED
  BY <1>1, <1>2, <1>6, <1>9, <1>10

\* What runHandler sends for a handler that echoes its request or fails.
LEMMA OutcomeEchoes ==
  ASSUME NEW w, NEW status \in {"OK", "Internal"}, NEW b \in Seq(Chunks), Len(b) <= MaxBody
  PROVE  LET o == Outcome(w, [status |-> status, body |-> b]) IN
           o.body = IF o.status = "OK" THEN b ELSE <<>>
<1>1. ~(Len(b) > MaxBody)
  BY RuntimeAssumption
<1>2. Normalised(status, b) = [status |-> status, body |-> IF status = "OK" THEN b ELSE <<>>]
  BY <1>1 DEF Normalised, Status
<1>3. Outcome(w, [status |-> status, body |-> b])
        \in {[status |-> "Cancelled", body |-> <<>>], [status |-> "DeadlineExceeded", body |-> <<>>],
             [status |-> status, body |-> IF status = "OK" THEN b ELSE <<>>]}
  BY <1>2 DEF Outcome
<1> QED
  BY <1>3

\* A work that was forgotten is free, the others are as they were.
LEMMA ForgetOthers ==
  ASSUME Inv, done # <<>>, Forget(Head(done)), NEW w \in Wid, work'[w].phase # "free"
  PROVE  work'[w] = work[w]
<1>1. Head(done) \in Wid /\ work' = [work EXCEPT ![Head(done)] = FreeWork]
  BY ForgetType DEF Inv, Forget
<1>2. FreeWork.phase = "free"
  BY DEF FreeWork
<1> QED
  BY <1>1, <1>2 DEF Inv, TypeOK

\* Every handler has, and answers with, the whole request of its call.
LEMMA WorkEchoesStep ==
  ASSUME Inv, CallTypes, RequestInv, WorkEchoes, [CallNext]_allVars
  PROVE  WorkEchoes'
<1>a. ASSUME NEW w \in Wid, work[w].phase # "free"
      PROVE  work[w].corr \in Corr /\ handed[work[w].corr] = Body[work[w].corr]
  BY <1>a DEF Inv, TypeOK, Encodes, Work, WorkEchoes
<1>1. CASE TakeFrame
  <2>1. PICK f \in Frame : f = Head(toModule) /\ Dispatched(f) /\ f.corr \in Corr
    BY <1>1, TakenBody
  <2>2. \A c \in Corr : handed'[c] = handed[c] \/ handed'[c] = Body[c]
    BY <1>1, TakenBody
  <2>3. ASSUME \A w \in Wid : /\ work'[w].phase = work[w].phase /\ work'[w].corr = work[w].corr
                              /\ work'[w].status = work[w].status /\ work'[w].body = work[w].body
        PROVE  WorkEchoes'
    BY <1>a, <2>2, <2>3 DEF WorkEchoes
  <2>4. CASE CancelFrame(f)
    <3>1. ASSUME NEW w \in Wid
          PROVE  /\ work'[w].phase = work[w].phase /\ work'[w].corr = work[w].corr
                 /\ work'[w].status = work[w].status /\ work'[w].body = work[w].body
      BY <2>1, <2>4 DEF CancelFrame, Inv, TypeOK, Work
    <3> QED
      BY <2>3, <3>1
  <2>5. CASE StartJob(f)
    <3>1. PICK v \in FreeWids : work' = [work EXCEPT ![v] = NewWork(f)]
      BY <2>5 DEF StartJob
    <3>2. v \in Wid
      BY <3>1 DEF FreeWids
    <3>3. work'[v] = NewWork(f) /\ \A w \in Wid : w # v => work'[w] = work[w]
      BY <3>1, <3>2 DEF Inv, TypeOK
    <3>4. handed'[f.corr] = Body[f.corr]
      BY <1>1, <2>1, <2>5, TakenBody
    <3>5. NewWork(f).phase = "running" /\ NewWork(f).corr = f.corr
      BY DEF NewWork
    <3>6. ASSUME NEW w \in Wid, w # v, work'[w].phase # "free"
          PROVE  /\ handed'[work'[w].corr] = Body[work'[w].corr]
                 /\ work'[w].phase \in {"sending", "sent"} =>
                      work'[w].body = IF work'[w].status = "OK" THEN Body[work'[w].corr] ELSE <<>>
      BY <1>a, <2>2, <3>3, <3>6 DEF WorkEchoes
    <3> QED
      BY <3>3, <3>4, <3>5, <3>6 DEF WorkEchoes
  <2>6. CASE work' = work
    BY <2>3, <2>6
  <2> QED
    BY <2>1, <2>4, <2>5, <2>6
    DEF Dispatched, IgnoreFrame, RejectInvalid, RefuseAssembly, RefuseOversize, HoldFragment,
        RefuseComplete
<1>2. CASE (OwnStep \/ PollNothing) /\ UNCHANGED <<callVars, toModule, toCaller, handed>>
  <2>1. CASE FinishWork
    <3>1. \A w \in Wid : work'[w].phase # "free" => work'[w] = work[w]
      BY <2>1, ForgetOthers DEF FinishWork
    <3> QED
      BY <1>2, <3>1 DEF WorkEchoes
  <2>2. CASE AwaitJob
    <3>1. \A w \in Wid : work'[w].phase # "free" => work'[w] = work[w]
      BY <2>2, ForgetOthers DEF AwaitJob
    <3> QED
      BY <1>2, <3>1 DEF WorkEchoes
  <2>3. CASE BeginShutdown
    <3>1. ASSUME NEW w \in Wid
          PROVE  /\ work'[w].phase = work[w].phase /\ work'[w].corr = work[w].corr
                 /\ work'[w].status = work[w].status /\ work'[w].body = work[w].body
      BY <2>3 DEF BeginShutdown, Inv, TypeOK, Work
    <3> QED
      BY <1>2, <3>1 DEF WorkEchoes
  <2>4. CASE work' = work
    BY <1>2, <2>4 DEF WorkEchoes
  <2> QED
    BY <1>2, <2>1, <2>2, <2>3, <2>4
    DEF OwnStep, NothingDone, Drained, CheckEpoch, PollEpoch, PollNothing, ReplyFails,
        EmitFragment, EmitBlocked, WaitCancelled, WaitTimer
<1>3. ASSUME NEW w \in Wid, Handler(w) PROVE WorkEchoes'
  <2>1. CASE HandlerSend(w)
    <3>1. /\ handed' = handed /\ work[w].phase = "sending" /\ work'[w].phase = "sent"
          /\ work'[w].corr = work[w].corr
          /\ work'[w].status = work[w].status /\ work'[w].body = work[w].body
          /\ \A v \in Wid : v # w => work'[v] = work[v]
      BY <1>3, <2>1 DEF Handler, HandlerSend, Inv, TypeOK, Work
    <3> QED
      BY <3>1 DEF WorkEchoes
  <2>2. ASSUME NEW status \in {"OK", "Internal"},
               HandlerReturn(w, [status |-> status, body |-> handed[work[w].corr]])
        PROVE  WorkEchoes'
    <3>1. PICK o : o = Outcome(w, [status |-> status, body |-> handed[work[w].corr]])
      OBVIOUS
    <3>2. work[w].phase = "running" /\ work[w].corr \in Corr /\ handed[work[w].corr] = Body[work[w].corr]
      BY <1>a, <2>2 DEF HandlerReturn
    <3>3. o.body = IF o.status = "OK" THEN Body[work[w].corr] ELSE <<>>
      BY <3>1, <3>2, BodyType, OutcomeEchoes
    <3>4. work' = [work EXCEPT ![w].phase = "sending", ![w].status = o.status, ![w].body = o.body]
      BY <2>2, <3>1 DEF HandlerReturn
    <3>5. /\ work'[w].corr = work[w].corr /\ work'[w].phase = "sending"
          /\ work'[w].status = o.status /\ work'[w].body = o.body
          /\ \A v \in Wid : v # w => work'[v] = work[v]
      BY <3>4 DEF Inv, TypeOK, Work
    <3>6. handed' = handed
      BY <1>3 DEF Handler
    <3> QED
      BY <3>2, <3>3, <3>5, <3>6 DEF WorkEchoes
  <2> QED
    BY <1>3, <2>1, <2>2 DEF Handler
<1>4. CASE work' = work /\ handed' = handed
  BY <1>4 DEF WorkEchoes
<1>5. CASE HostCarries \/ Environment
  BY <1>4, <1>5 DEF HostCarries, HostDrain, Environment, HostRestart, CtxCancel, Tick
<1>6. CASE \/ CallBegin \/ SendFails \/ SendFragment \/ AwaitEpoch \/ AwaitGivesUp \/ AwaitSkip
           \/ AwaitRefused \/ AwaitPart \/ CancelCall \/ HostRefuses \/ CallerCancels
           \/ UNCHANGED allVars
  BY <1>4, <1>6
  DEF CallBegin, SendFails, SendFragment, AwaitEpoch, AwaitGivesUp, AwaitSkip, AwaitRefused,
      AwaitPart, CancelCall, HostRefuses, CallerCancels, allVars, vars
<1> QED
  BY <1>1, <1>2, <1>3, <1>5, <1>6, StepKinds

(***************************************************************************)
(* The answers reach the caller fragment by fragment.                      *)
(***************************************************************************)
\* What is left of the reply that is being written.
Rest(t) ==
  Active /\ reply.status = "OK" =>
    reply.body = SubSeq(Body[reply.corr], t[Len(t)] + 1, Len(Body[reply.corr]))

\* What awaitReply has is the beginning of the answer, and the first fragment continues it.
Aligned(q, t) ==
  callPc = "await" =>
    /\ Len(received) <= Len(Body[correlation])
    /\ received = SubSeq(Body[correlation], 1, Len(received))
    /\ q # <<>> => /\ q[1].corr = correlation /\ q[1].status = "OK" => t[1] = Len(received)
                   /\ received # <<>> => q[1].corr = correlation /\ q[1].status = "OK"
    /\ q = <<>> /\ received # <<>> => pc = "stopped"

\* The runtime has not got all fragments of the call yet.
New(c) == c > correlation \/ (c = correlation /\ callPc = "send")

\* Only a runtime that has returned leaves an answer without its end.
Ends(q) == q # <<>> /\ ~Active /\ q[Len(q)].more => pc = "stopped"

\* A call that is new has no job and no answer.
Unanswered(q) ==
  \A c \in Corr : New(c) =>
    /\ jobs[c] = NoWork
    /\ \A i \in 1 .. Len(q) : q[i].corr = c => q[i].status # "OK"

ReplyInv ==
  /\ \E t \in Seq(Nat) : EchoChain(Replies, t) /\ Rest(t) /\ Aligned(Replies, t)
  /\ Ends(Replies)
  /\ Unanswered(Replies)
  /\ Active /\ reply.status # "OK" => reply.body = <<>>
  /\ Refusal => callPc = "await" /\ Head(toCaller).corr = correlation

\* The fragment that is written next has the type of the ring.
LEMMA OutType ==
  ASSUME NEW r \in Reply, r.corr \in Corr
  PROVE  /\ OutOf(r) \in HostFrame /\ OutOf(r) \in OutFrame
         /\ OutOf(r).corr = r.corr /\ OutOf(r).status = r.status
         /\ OutOf(r).body = SubSeq(r.body, 1, Smaller(Len(r.body), ChunkCapacity))
         /\ OutOf(r).more <=> Smaller(Len(r.body), ChunkCapacity) < Len(r.body)
<1> DEFINE part == Smaller(Len(r.body), ChunkCapacity)
           b == SubSeq(r.body, 1, part)
           more == part < Len(r.body)
<1>1. /\ r.body \in Seq(Chunks) /\ r.kind \in Kinds \cup {0} /\ r.stage \in Nat /\ r.status \in Status
      /\ Len(r.body) \in Nat
  BY DEF Reply
<1>2. part \in Nat /\ part <= Len(r.body)
  BY <1>1, RuntimeAssumption DEF Smaller
<1>3. b \in Seq(Chunks)
  BY <1>1, <1>2
<1>4. OutOf(r) = [corr |-> r.corr, kind |-> r.kind, stage |-> r.stage, status |-> r.status,
                  body |-> b, more |-> more]
  BY DEF OutOf
<1>5. more \in BOOLEAN
  OBVIOUS
<1> HIDE DEF b, more
<1>6. OutOf(r) \in HostFrame /\ OutOf(r) \in OutFrame
  BY <1>1, <1>3, <1>4, <1>5 DEF HostFrame, OutFrame
<1>7. /\ OutOf(r).corr = r.corr /\ OutOf(r).status = r.status
      /\ OutOf(r).body = b /\ OutOf(r).more = more
  BY <1>4
<1> QED
  BY <1>6, <1>7 DEF b, more

\* It is the fragment of the answer that starts where what was written so far ends.
LEMMA OutEcho ==
  ASSUME NEW r \in Reply, r.corr \in Corr, NEW s \in Nat, s <= Len(Body[r.corr]),
         r.body = IF r.status = "OK" THEN SubSeq(Body[r.corr], s + 1, Len(Body[r.corr])) ELSE <<>>
  PROVE  /\ Echo(OutOf(r), s)
         /\ OutOf(r).more =>
              /\ r.status = "OK"
              /\ SubSeq(r.body, Smaller(Len(r.body), ChunkCapacity) + 1, Len(r.body))
                   = SubSeq(Body[r.corr], End(r.corr, s) + 1, Len(Body[r.corr]))
<1>1. r.status \in Status /\ Body[r.corr] \in Seq(Chunks) /\ Len(Body[r.corr]) \in Nat
  BY BodyType DEF Reply
<1>2. CASE r.status = "OK"
  <2> DEFINE c == r.corr
             part == Smaller(Len(r.body), ChunkCapacity)
  <2>1. r.body \in Seq(Chunks) /\ Len(r.body) = Len(Body[c]) - s
    BY <1>1, <1>2, PartOfRest
  <2>2. part \in Nat /\ part <= Len(Body[c]) - s /\ End(c, s) = s + part
        /\ (part < Len(r.body) <=> End(c, s) < Len(Body[c]))
    BY <1>1, <2>1, RuntimeAssumption DEF End, Smaller
  <2>3. /\ SubSeq(r.body, 1, part) = SubSeq(Body[c], s + 1, s + part)
        /\ SubSeq(r.body, part + 1, Len(r.body)) = SubSeq(Body[c], (s + part) + 1, Len(Body[c]))
    <3> HIDE DEF part, c
    <3>1. LET q == SubSeq(Body[c], s + 1, Len(Body[c])) IN
            /\ SubSeq(q, 1, part) = SubSeq(Body[c], s + 1, s + part)
            /\ SubSeq(q, part + 1, Len(q)) = SubSeq(Body[c], (s + part) + 1, Len(Body[c]))
      <4>1. Body[c] \in Seq(Chunks) /\ s <= Len(Body[c])
        BY <1>1 DEF c
      <4> QED
        BY ONLY <2>2, <4>1, s \in Nat, PartOfRest
    <3>2. r.body = SubSeq(Body[c], s + 1, Len(Body[c]))
      BY <1>2 DEF c
    <3> QED
      BY <3>1, <3>2
  <2> HIDE DEF part
  <2>4. OutOf(r).body = Piece(c, s) /\ (OutOf(r).more <=> End(c, s) < Len(Body[c]))
    BY <2>2, <2>3, OutType DEF Piece, part
  <2> QED
    BY <1>1, <1>2, <2>2, <2>3, <2>4, OutType DEF Echo, part
<1>3. CASE r.status # "OK"
  <2>1. r.body = <<>> /\ Len(r.body) = 0
    BY <1>3
  <2>2. ~OutOf(r).more
    BY <2>1, OutType, RuntimeAssumption DEF Smaller
  <2> QED
    BY <1>1, <1>3, <2>2, OutType DEF Echo
<1> QED
  BY <1>2, <1>3

\* The stream holds frames, with the next fragment at its end while a reply is written.
LEMMA RepliesType ==
  ASSUME Inv, CallTypes
  PROVE  /\ Written \in Seq(HostFrame) /\ Replies \in Seq(HostFrame)
         /\ outbound \in Seq(HostFrame) /\ toCaller \in Seq(HostFrame)
         /\ Active => /\ reply \in Reply /\ reply.corr \in Corr /\ OutOf(reply) \in HostFrame
                      /\ Replies = Append(Written, OutOf(reply)) /\ Replies # <<>>
                      /\ Len(Replies) = Len(Written) + 1 /\ Replies[Len(Replies)] = OutOf(reply)
         /\ ~Active => Replies = Written
<1>1. toCaller \in Seq(HostFrame)
  BY DEF CallTypes
<1>2. OutFrame \subseteq HostFrame
  BY DEF OutFrame, HostFrame
<1>3. outbound \in Seq(HostFrame)
  BY <1>2 DEF Inv, TypeOK
<1>4. Written \in Seq(HostFrame)
  <2>1. CASE Refusal
    <3>1. Tail(toCaller) \in Seq(HostFrame)
      BY <1>1, <2>1 DEF Refusal
    <3> QED
      BY <1>3, <2>1, <3>1, JoinOf DEF Written
  <2>2. CASE ~Refusal
    BY <1>1, <1>3, <2>2, JoinOf DEF Written
  <2> QED
    BY <2>1, <2>2
<1>5. CASE Active
  <2>1. reply \in Reply /\ reply.corr \in Corr
    BY <1>5 DEF Active, Inv, TypeOK, Encodes, Reply
  <2>2. OutOf(reply) \in HostFrame
    BY <2>1, OutType
  <2>3. Replies = Append(Written, OutOf(reply))
    BY <1>5 DEF Replies
  <2>4. /\ Replies \in Seq(HostFrame) /\ Replies # <<>>
        /\ Len(Replies) = Len(Written) + 1 /\ Replies[Len(Replies)] = OutOf(reply)
    BY ONLY <1>4, <2>2, <2>3, AppendOf
  <2> QED
    BY <1>1, <1>3, <1>4, <1>5, <2>1, <2>2, <2>3, <2>4
<1>6. CASE ~Active
  BY <1>1, <1>3, <1>4, <1>6 DEF Replies
<1> QED
  BY <1>5, <1>6

\* A step that moves no fragment, while the caller waits on, begins to wait or waits no more.
LEMMA ReplyQuiet ==
  ASSUME ReplyInv, Replies' = Replies, (Active' <=> Active), reply' = reply,
         pc = "stopped" => pc' = "stopped",
         callPc' = "await" =>
           /\ correlation' = correlation
           /\ (callPc = "await" /\ received' = received) \/ (callPc = "send" /\ received' = <<>>),
         callPc' = "await" => correlation \in Corr,
         Replies # <<>> => Replies \in Seq(HostFrame),
         \A c \in Corr : New(c)' => New(c) /\ (jobs'[c] = jobs[c] \/ jobs'[c] = NoWork),
         Refusal' => callPc' = "await" /\ Head(toCaller').corr = correlation'
  PROVE  ReplyInv'
<1>1. PICK t \in Seq(Nat) : EchoChain(Replies, t) /\ Rest(t) /\ Aligned(Replies, t)
  BY DEF ReplyInv
<1>2. Rest(t)'
  BY <1>1 DEF Rest
<1>3. Aligned(Replies, t)'
  <2>1. CASE callPc' # "await"
    BY <2>1 DEF Aligned
  <2>2. CASE callPc' = "await" /\ callPc = "await" /\ received' = received
    BY <1>1, <2>2 DEF Aligned
  <2>3. CASE callPc' = "await" /\ callPc = "send" /\ received' = <<>>
    <3>1. Len(received') = 0 /\ correlation' = correlation /\ correlation \in Corr
      BY <2>3
    <3>2. Len(received') <= Len(Body[correlation']) /\ received' = SubSeq(Body[correlation'], 1, Len(received'))
      <4>1. Len(Body[correlation]) \in Nat /\ Body[correlation] \in Seq(Chunks)
        BY <3>1, BodyType
      <4>2. SubSeq(Body[correlation], 1, 0) = <<>>
        BY <4>1
      <4> QED
        BY <2>3, <3>1, <4>1, <4>2
    <3>3. Replies # <<>> => ~(Replies[1].corr = correlation /\ Replies[1].status = "OK")
      <4> SUFFICES ASSUME Replies # <<>> PROVE ~(Replies[1].corr = correlation /\ Replies[1].status = "OK")
        OBVIOUS
      <4>1. 1 \in 1 .. Len(Replies)
        OBVIOUS
      <4>2. New(correlation)
        BY <2>3 DEF New
      <4> QED
        BY <3>1, <4>1, <4>2 DEF ReplyInv, Unanswered
    <3> QED
      BY <2>3, <3>1, <3>2, <3>3 DEF Aligned
  <2> QED
    BY <2>1, <2>2, <2>3
<1>4. Ends(Replies)'
  BY DEF ReplyInv, Ends
<1>5. Unanswered(Replies)'
  <2>1. ASSUME NEW c \in Corr, New(c)'
        PROVE  jobs'[c] = NoWork /\ \A i \in 1 .. Len(Replies) : Replies[i].corr = c => Replies[i].status # "OK"
    BY <2>1 DEF ReplyInv, Unanswered
  <2> QED
    BY <2>1 DEF Unanswered
<1>6. EchoChain(Replies', t)
  BY <1>1
<1> QED
  BY <1>2, <1>3, <1>4, <1>5, <1>6 DEF ReplyInv

\* The runtime returns in the middle of a reply: the rest of it is never written.
LEMMA ReplyGivenUp ==
  ASSUME Inv, CallTypes, ReplyInv, Active, pc' = "stopped", Written' = Written,
         UNCHANGED <<callPc, correlation, received, toCaller, jobs>>
  PROVE  ReplyInv'
<1>1. PICK t \in Seq(Nat) : EchoChain(Replies, t) /\ Rest(t) /\ Aligned(Replies, t)
  BY DEF ReplyInv
<1>2. PICK q, f : q = Written /\ f = OutOf(reply)
  OBVIOUS
<1>3. q \in Seq(HostFrame) /\ f \in HostFrame /\ Replies = Append(q, f)
  BY <1>2, RepliesType
<1>4. ~Active' /\ Replies' = q
  BY <1>2 DEF Active, Replies
<1>5. PICK v : v = SubSeq(t, 1, Len(q))
  OBVIOUS
<1>6. /\ v \in Seq(Nat) /\ EchoChain(q, v)
      /\ q # <<>> => Replies[1] = q[1] /\ v[1] = t[1]
  BY <1>1, <1>3, <1>5, EchoFront
<1>7. Rest(v)' /\ Ends(Replies)'
  BY <1>4 DEF Rest, Ends
<1>8. Aligned(q, v)'
  BY <1>1, <1>3, <1>6, AppendOf DEF Aligned
<1>9. Unanswered(Replies)'
  <2>1. ASSUME NEW i \in 1 .. Len(q) PROVE Replies[i] = q[i] /\ i \in 1 .. Len(Replies)
    BY ONLY <1>3, <2>1, AppendOf
  <2>2. \A c \in Corr : New(c)' => New(c)
    BY DEF New
  <2> QED
    BY <1>4, <2>1, <2>2 DEF ReplyInv, Unanswered
<1>10. Refusal' => callPc' = "await" /\ Head(toCaller').corr = correlation'
  BY DEF ReplyInv, Refusal
<1>11. EchoChain(Replies', v) /\ Aligned(Replies, v)'
  BY <1>4, <1>6, <1>8 DEF Aligned
<1> QED
  BY <1>4, <1>6, <1>7, <1>9, <1>10, <1>11 DEF ReplyInv

\* A reply is begun: a refusal has no body, the answer of a handler repeats the request.
LEMMA ReplyBegun ==
  ASSUME Inv, CallTypes, ReplyInv, ~Active, pc # "stopped", pc' = "reply", Written' = Written,
         reply' \in Reply, reply'.corr \in Corr,
         reply'.body = IF reply'.status = "OK" THEN Body[reply'.corr] ELSE <<>>,
         reply'.status = "OK" => ~New(reply'.corr),
         UNCHANGED <<callPc, correlation, received, toCaller>>,
         \A c \in Corr : jobs'[c] = jobs[c] \/ jobs'[c] = NoWork
  PROVE  ReplyInv'
<1>1. PICK t \in Seq(Nat) : EchoChain(Replies, t) /\ Aligned(Replies, t)
  BY DEF ReplyInv
<1>2. PICK q, f, p, v : q = Written /\ f = OutOf(reply') /\ p = Append(q, f) /\ v = Append(t, 0)
  OBVIOUS
<1>3. q \in Seq(HostFrame) /\ Replies = q
  BY <1>2, RepliesType
<1>4. Replies' = p /\ Active'
  BY <1>2 DEF Active, Replies
<1>5. Body[reply'.corr] \in Seq(Chunks) /\ Len(Body[reply'.corr]) \in Nat
  BY BodyType
<1>6. Body[reply'.corr] = SubSeq(Body[reply'.corr], 0 + 1, Len(Body[reply'.corr]))
  BY <1>5
<1>7. f \in HostFrame /\ Echo(f, 0) /\ f.corr = reply'.corr /\ f.status = reply'.status
  <2>1. PICK r : r = reply'
    OBVIOUS
  <2>2. r \in Reply /\ r.corr \in Corr /\ 0 <= Len(Body[r.corr])
    BY <1>5, <2>1
  <2>3. r.body = IF r.status = "OK" THEN SubSeq(Body[r.corr], 0 + 1, Len(Body[r.corr])) ELSE <<>>
    BY <1>6, <2>1
  <2>4. Echo(OutOf(r), 0)
    BY ONLY <2>2, <2>3, OutEcho
  <2> QED
    BY <1>2, <2>1, <2>2, <2>4, OutType
<1>8. q # <<>> => EchoAfter(q[Len(q)], t[Len(t)], f, 0)
  BY <1>3 DEF ReplyInv, Ends, EchoAfter
<1>9. /\ v \in Seq(Nat) /\ EchoChain(p, v) /\ v[Len(v)] = 0
      /\ q # <<>> => p[1] = q[1] /\ v[1] = t[1]
      /\ q = <<>> => p[1] = f /\ v[1] = 0
  BY <1>1, <1>2, <1>3, <1>7, <1>8, EchoAppend
<1>10. p # <<>>
  BY <1>2, <1>3, <1>7, AppendOf
<1>11. Rest(v)'
  BY <1>6, <1>9 DEF Rest
<1>12. Aligned(p, v)'
  <2>1. CASE q # <<>>
    BY <1>1, <1>3, <1>9, <1>10, <2>1 DEF Aligned
  <2>2. CASE q = <<>>
    <3>1. callPc = "await" => received = <<>> /\ Len(received) = 0
      BY <1>1, <1>3, <2>2 DEF Aligned
    <3> QED
      BY <1>1, <1>9, <1>10, <2>2, <3>1 DEF Aligned
  <2> QED
    BY <2>1, <2>2
<1>13. Unanswered(p)'
  <2>1. ASSUME NEW c \in Corr, New(c)', NEW i \in 1 .. Len(p), p[i].corr = c PROVE p[i].status # "OK"
    <3>1. New(c)
      BY <2>1 DEF New
    <3>2. CASE i \in 1 .. Len(q)
      <4>1. p[i] = q[i]
        BY ONLY <1>2, <1>3, <1>7, <3>2, AppendOf
      <4> QED
        BY <1>3, <2>1, <3>1, <3>2, <4>1 DEF ReplyInv, Unanswered
    <3>3. CASE i = Len(q) + 1
      <4>1. p[i] = f
        BY ONLY <1>2, <1>3, <1>7, <3>3, AppendOf
      <4> QED
        BY <1>7, <2>1, <3>1, <4>1
    <3> QED
      BY ONLY <1>2, <1>3, <1>7, <3>2, <3>3, AppendOf, i \in 1 .. Len(p)
  <2>2. ASSUME NEW c \in Corr, New(c)' PROVE jobs'[c] = NoWork
    BY <2>2 DEF New, ReplyInv, Unanswered
  <2> QED
    BY <2>1, <2>2 DEF Unanswered
<1>14. Ends(Replies)' /\ (Refusal' => callPc' = "await" /\ Head(toCaller').corr = correlation')
  BY <1>4 DEF Ends, ReplyInv, Refusal
<1>15. EchoChain(Replies', v) /\ Aligned(Replies, v)' /\ Unanswered(Replies)'
  BY <1>4, <1>9, <1>12, <1>13 DEF Aligned, Unanswered
<1> QED
  BY <1>4, <1>9, <1>11, <1>14, <1>15 DEF ReplyInv

\* A fragment is written: what was about to be is now on its way, and the rest of the reply,
\* if there is any, comes next.
LEMMA ReplyWritten ==
  ASSUME Inv, CallTypes, ReplyInv, EmitFragment,
         UNCHANGED <<callPc, correlation, received, toCaller>>
  PROVE  ReplyInv'
<1>1. PICK t \in Seq(Nat) : EchoChain(Replies, t) /\ Rest(t) /\ Aligned(Replies, t)
  BY DEF ReplyInv
<1>2. Active
  BY DEF EmitFragment, Active
<1>3. PICK q, f, s : q = Replies /\ f = OutOf(reply) /\ s = t[Len(t)]
  OBVIOUS
<1>4. /\ q \in Seq(HostFrame) /\ f \in HostFrame /\ q # <<>> /\ q[Len(q)] = f
      /\ reply \in Reply /\ reply.corr \in Corr /\ q = Append(Written, f)
      /\ Written \in Seq(HostFrame) /\ outbound \in Seq(HostFrame) /\ toCaller \in Seq(HostFrame)
  BY <1>2, <1>3, RepliesType
<1>5. Len(t) = Len(q) /\ Len(q) \in 1 .. Len(q) /\ s \in Nat /\ Echo(f, s)
  <2>1. Len(t) = Len(q) /\ Len(q) \in 1 .. Len(q)
    BY <1>1, <1>3, <1>4 DEF EchoChain
  <2>2. s \in Nat
    BY ONLY <1>1, <1>3, <2>1
  <2> QED
    BY <1>1, <1>3, <1>4, <2>1, <2>2 DEF EchoChain
<1>6. Written' = q
  <2>1. outbound' = Append(outbound, f)
    BY <1>3 DEF EmitFragment, OutOf
  <2>2. Refusal' = Refusal
    BY DEF Refusal
  <2>3. CASE Refusal
    <3>1. Tail(toCaller) \in Seq(HostFrame)
      BY <1>4, <2>3 DEF Refusal
    <3>2. Tail(toCaller) \o Append(outbound, f) = Append(Tail(toCaller) \o outbound, f)
      BY ONLY <1>4, <3>1, AppendToJoin
    <3> QED
      BY <1>4, <2>1, <2>2, <2>3, <3>2 DEF Written
  <2>4. CASE ~Refusal
    <3>1. toCaller \o Append(outbound, f) = Append(toCaller \o outbound, f)
      BY ONLY <1>4, AppendToJoin
    <3> QED
      BY <1>4, <2>1, <2>2, <2>4, <3>1 DEF Written
  <2> QED
    BY <2>3, <2>4
<1>7. jobs' = jobs /\ \A c \in Corr : New(c)' <=> New(c)
  BY DEF EmitFragment, New
<1>8. Refusal' => callPc' = "await" /\ Head(toCaller').corr = correlation'
  BY DEF ReplyInv, Refusal
<1>9. CASE ~f.more
  <2>1. pc' = "drain"
    BY <1>3, <1>4, <1>9, OutType DEF EmitFragment
  <2>2. ~Active' /\ Replies' = q
    BY <1>6, <2>1 DEF Active, Replies
  <2>3. Rest(t)' /\ Ends(Replies)'
    BY <1>4, <1>9, <2>2 DEF Rest, Ends
  <2>4. Aligned(q, t)'
    BY <1>1, <1>3, <1>4 DEF Aligned
  <2>5. EchoChain(Replies', t) /\ Aligned(Replies, t)' /\ Unanswered(Replies)'
    BY <1>1, <1>3, <1>7, <2>2, <2>4 DEF Aligned, ReplyInv, Unanswered
  <2> QED
    BY <1>8, <2>2, <2>3, <2>5 DEF ReplyInv
<1>10. CASE f.more
  <2>1. PICK rest : rest = SubSeq(reply.body, Smaller(Len(reply.body), ChunkCapacity) + 1, Len(reply.body))
    OBVIOUS
  <2>2. pc' = "reply" /\ reply' = [reply EXCEPT !.body = rest]
    BY <1>3, <1>4, <1>10, <2>1, OutType DEF EmitFragment
  <2>3. PICK c, r, u : c = reply.corr /\ r = reply' /\ u = End(c, s)
    OBVIOUS
  <2>4. reply.status = "OK"
    BY <1>3, <1>4, <1>5, <1>10, OutType DEF Echo
  <2>5. /\ c \in Corr /\ s <= Len(Body[c]) /\ Body[c] \in Seq(Chunks) /\ Len(Body[c]) \in Nat
        /\ f.corr = c
    BY <1>3, <1>4, <1>5, <2>3, <2>4, BodyType, OutType DEF Echo
  <2>6. u \in Nat /\ u <= Len(Body[c])
    BY <1>5, <2>3, <2>5, PieceFacts
  <2>7. reply.body = SubSeq(Body[c], s + 1, Len(Body[c]))
    BY <1>1, <1>2, <1>3, <2>3, <2>4 DEF Rest
  <2>8. rest = SubSeq(Body[c], u + 1, Len(Body[c]))
    BY <1>3, <1>4, <1>5, <1>10, <2>1, <2>3, <2>4, <2>5, <2>7, OutEcho
  <2>9. rest \in Seq(Chunks)
    BY <2>5, <2>6, <2>8
  <2>10. r \in Reply /\ r.corr = c /\ r.status = "OK" /\ r.body = rest
    BY <1>4, <2>2, <2>3, <2>4, <2>9 DEF Reply
  <2>11. PICK g, p, v : g = OutOf(r) /\ p = Append(q, g) /\ v = Append(t, u)
    OBVIOUS
  <2>12. g \in HostFrame /\ Echo(g, u) /\ g.corr = c /\ g.status = "OK"
    <3>1. Echo(OutOf(r), u)
      BY <2>5, <2>6, <2>8, <2>10, OutEcho
    <3> QED
      BY <2>5, <2>10, <2>11, <3>1, OutType
  <2>13. EchoAfter(q[Len(q)], t[Len(t)], g, u)
    BY <1>3, <1>4, <1>10, <2>3, <2>5, <2>12 DEF EchoAfter
  <2>14. /\ v \in Seq(Nat) /\ EchoChain(p, v) /\ v[Len(v)] = u
         /\ p[1] = q[1] /\ v[1] = t[1]
    <3>1. EchoChain(q, t) /\ t \in Seq(Nat)
      BY <1>1, <1>3
    <3>2. q \in Seq(HostFrame) /\ q # <<>>
      BY <1>4
    <3> QED
      BY ONLY <2>6, <2>11, <2>12, <2>13, <3>1, <3>2, EchoAppend
  <2>15. p # <<>>
    <3>1. q \in Seq(HostFrame)
      BY <1>4
    <3> QED
      BY ONLY <2>11, <2>12, <3>1, AppendOf
  <2>16. Active' /\ Replies' = p
    BY <1>6, <2>2, <2>3, <2>11 DEF Active, Replies
  <2>17. Rest(v)'
    BY <2>3, <2>8, <2>10, <2>14 DEF Rest
  <2>18. Aligned(p, v)'
    BY <1>1, <1>3, <1>4, <2>14, <2>15 DEF Aligned
  <2>19. Unanswered(p)'
    <3>1. ASSUME NEW d \in Corr, New(d), NEW i \in 1 .. Len(p), p[i].corr = d PROVE p[i].status # "OK"
      <4>1. CASE i \in 1 .. Len(q)
        <5>1. p[i] = q[i]
          BY ONLY <1>4, <2>11, <2>12, <4>1, AppendOf
        <5> QED
          BY <1>3, <3>1, <4>1, <5>1 DEF ReplyInv, Unanswered
      <4>2. CASE i = Len(q) + 1
        <5>1. p[i] = g
          BY ONLY <1>4, <2>11, <2>12, <4>2, AppendOf
        <5>2. q[Len(q)].corr = d /\ q[Len(q)].status = "OK"
          BY <1>3, <1>4, <1>5, <2>4, <2>5, <2>12, <3>1, <5>1, OutType
        <5> QED
          BY <1>3, <1>5, <3>1, <5>2 DEF ReplyInv, Unanswered
      <4> QED
        BY ONLY <1>4, <2>11, <2>12, <4>1, <4>2, AppendOf, i \in 1 .. Len(p)
    <3>2. \A d \in Corr : New(d) => jobs[d] = NoWork
      BY DEF ReplyInv, Unanswered
    <3> QED
      BY <1>7, <3>1, <3>2 DEF Unanswered
  <2>20. EchoChain(Replies', v) /\ Aligned(Replies, v)' /\ Unanswered(Replies)'
    BY <2>14, <2>16, <2>18, <2>19 DEF Aligned, Unanswered
  <2>21. Ends(Replies)' /\ reply'.status = "OK"
    BY <2>3, <2>10, <2>16 DEF Ends
  <2> QED
    BY <1>8, <2>14, <2>16, <2>17, <2>20, <2>21 DEF ReplyInv
<1> QED
  BY <1>9, <1>10

\* No frame of the runtime is a control frame of the host.
LEMMA NoControlFrame ==
  ASSUME Inv, CallTypes, ReplyInv, NEW i \in 1 .. Len(Written)
  PROVE  Written[i].status # "KindError"
<1>1. PICK t \in Seq(Nat) : EchoChain(Replies, t)
  BY DEF ReplyInv
<1>2. i \in 1 .. Len(Replies) /\ Replies[i] = Written[i]
  <2>1. CASE Active
    <3>1. PICK q, f : q = Written /\ f = OutOf(reply)
      OBVIOUS
    <3>2. q \in Seq(HostFrame) /\ f \in HostFrame /\ Replies = Append(q, f)
      BY <2>1, <3>1, RepliesType
    <3>3. i \in 1 .. Len(q)
      BY <3>1
    <3> QED
      BY ONLY <3>1, <3>2, <3>3, AppendOf
  <2>2. CASE ~Active
    BY <2>2, RepliesType
  <2> QED
    BY <2>1, <2>2
<1>3. Echo(Replies[i], t[i])
  BY <1>1, <1>2 DEF EchoChain
<1> QED
  BY <1>2, <1>3 DEF Echo, Status

\* What the caller takes next: without a control frame, the first fragment of the stream.
LEMMA HeadAnswer ==
  ASSUME Inv, CallTypes, ReplyInv, toCaller # <<>>, ~Refusal
  PROVE  /\ Written # <<>> /\ Replies # <<>> /\ Replies[1] = Head(toCaller)
         /\ Tail(toCaller) \o outbound = Tail(Written)
         /\ Active => Tail(Replies) = Append(Tail(Written), OutOf(reply)) /\ Tail(Written) \in Seq(HostFrame)
                      /\ Len(Replies) >= 2
         /\ ~Active => Tail(Replies) = Tail(Written)
<1>1. PICK w : w = Written
  OBVIOUS
<1>2. w \in Seq(HostFrame) /\ outbound \in Seq(HostFrame) /\ toCaller \in Seq(HostFrame)
      /\ w = toCaller \o outbound
  BY <1>1, RepliesType DEF Written
<1>3. w # <<>> /\ w[1] = Head(toCaller) /\ Tail(toCaller) \o outbound = Tail(w)
  BY ONLY <1>2, toCaller # <<>>, TailOfJoin
<1>4. CASE Active
  <2>1. PICK f : f = OutOf(reply)
    OBVIOUS
  <2>2. f \in HostFrame /\ Replies = Append(w, f)
    BY <1>1, <1>4, <2>1, RepliesType
  <2>3. Append(w, f) # <<>> /\ Append(w, f)[1] = w[1] /\ Len(Append(w, f)) >= 2
    <3>1. Len(w) \in Nat \ {0} /\ 1 \in 1 .. Len(w)
      BY ONLY <1>2, <1>3, TailOf
    <3> QED
      BY ONLY <1>2, <2>2, <3>1, AppendOf
  <2>4. Tail(Append(w, f)) = Append(Tail(w), f) /\ Tail(w) \in Seq(HostFrame)
    BY ONLY <1>2, <1>3, <2>2, TailOf, TailOfAppend
  <2> QED
    BY <1>1, <1>3, <1>4, <2>1, <2>2, <2>3, <2>4
<1>5. CASE ~Active
  BY <1>1, <1>3, <1>5, RepliesType
<1> QED
  BY <1>4, <1>5

\* A fragment of the answer continues what awaitReply has, and the last one completes it.
LEMMA PartContinues ==
  ASSUME Inv, CallTypes, ReplyInv, callPc = "await", toCaller # <<>>, ~Refusal,
         Head(toCaller).corr = correlation, Head(toCaller).status = "OK"
  PROVE  LET e == End(correlation, Len(received)) IN
           /\ received \o Head(toCaller).body = SubSeq(Body[correlation], 1, e)
           /\ Len(received \o Head(toCaller).body) = e /\ e \in Nat /\ e <= Len(Body[correlation])
           /\ Head(toCaller).more <=> e < Len(Body[correlation])
           /\ ~Head(toCaller).more => received \o Head(toCaller).body = Body[correlation]
<1>1. PICK t \in Seq(Nat) : EchoChain(Replies, t) /\ Aligned(Replies, t)
  BY DEF ReplyInv
<1>2. PICK f, s, c, e : f = Head(toCaller) /\ s = Len(received) /\ c = correlation /\ e = End(c, s)
  OBVIOUS
<1>3. Replies # <<>> /\ Replies[1] = f /\ Replies \in Seq(HostFrame)
  BY <1>2, HeadAnswer, RepliesType
<1>4. c \in Corr /\ s \in Nat /\ s <= Len(Body[c]) /\ received = SubSeq(Body[c], 1, s) /\ t[1] = s
  BY <1>1, <1>2, <1>3 DEF Aligned, CallTypes
<1>5. Echo(f, s)
  <2>1. 1 \in 1 .. Len(Replies)
    BY <1>3
  <2> QED
    BY <1>1, <1>3, <1>4, <2>1 DEF EchoChain
<1>6. f.body = Piece(c, s) /\ (f.more <=> e < Len(Body[c]))
  BY <1>2, <1>5 DEF Echo
<1>7. /\ e \in Nat /\ e <= Len(Body[c])
      /\ SubSeq(Body[c], 1, s) \o Piece(c, s) = SubSeq(Body[c], 1, e)
      /\ SubSeq(Body[c], 1, Len(Body[c])) = Body[c]
  BY <1>2, <1>4, PieceFacts
<1>8. received \o f.body = SubSeq(Body[c], 1, e)
  BY <1>4, <1>6, <1>7
<1>9. Len(SubSeq(Body[c], 1, e)) = e /\ Len(Body[c]) \in Nat
  BY <1>4, <1>7, BodyType
<1>10. ~f.more => e = Len(Body[c])
  BY <1>6, <1>7, <1>9
<1> QED
  BY <1>2, <1>6, <1>7, <1>8, <1>9, <1>10

\* The caller takes the first fragment: it is another call's, or continues the answer, or the
\* call returns.
LEMMA ReplyTaken ==
  ASSUME Inv, CallTypes, ReplyInv, callPc = "await", toCaller # <<>>, ~Refusal,
         toCaller' = Tail(toCaller), UNCHANGED vars, correlation' = correlation,
         \/ callPc' \notin {"await", "send"}
         \/ callPc' = "await" /\ received' = received /\ Head(toCaller).corr # correlation
         \/ /\ callPc' = "await" /\ received' = received \o Head(toCaller).body
            /\ Head(toCaller).corr = correlation /\ Head(toCaller).status = "OK" /\ Head(toCaller).more
  PROVE  ReplyInv'
<1>1. PICK t \in Seq(Nat) : EchoChain(Replies, t) /\ Rest(t) /\ Aligned(Replies, t)
  BY DEF ReplyInv
<1>2. PICK q, f, p, v : q = Replies /\ f = Head(toCaller) /\ p = Tail(q) /\ v = Tail(t)
  OBVIOUS
<1>3. q \in Seq(HostFrame) /\ q # <<>> /\ q[1] = f /\ EchoChain(q, t)
  BY <1>1, <1>2, HeadAnswer, RepliesType
<1>4. /\ p \in Seq(HostFrame) /\ v \in Seq(Nat) /\ EchoChain(p, v)
      /\ Echo(f, t[1]) /\ t[1] \in Nat
      /\ p # <<>> => EchoAfter(f, t[1], p[1], v[1])
  <2>1. t \in Seq(Nat)
    BY <1>1
  <2>2. p = Tail(q) /\ v = Tail(t)
    BY <1>2
  <2>3. p \in Seq(HostFrame) /\ v \in Seq(Nat) /\ EchoChain(p, v)
    BY ONLY <1>3, <2>1, <2>2, EchoTail
  <2>4. Echo(q[1], t[1]) /\ t[1] \in Nat
    <3>1. 1 \in 1 .. Len(q) /\ Len(t) = Len(q)
      BY ONLY <1>3 DEF EchoChain
    <3>2. t[1] \in Nat
      BY ONLY <2>1, <3>1
    <3> QED
      BY ONLY <1>3, <3>1, <3>2 DEF EchoChain
  <2>5. ASSUME p # <<>> PROVE EchoAfter(q[1], t[1], p[1], v[1])
    BY ONLY <1>3, <2>1, <2>2, <2>5, EchoTail
  <2> QED
    BY ONLY <1>3, <2>3, <2>4, <2>5
<1>5. /\ Len(p) = Len(q) - 1 /\ Len(q) \in Nat \ {0} /\ Len(t) = Len(q) /\ Len(v) = Len(q) - 1
      /\ \A i \in 1 .. Len(q) - 1 : /\ p[i] = q[i + 1] /\ v[i] = t[i + 1]
                                    /\ i + 1 \in 1 .. Len(q)
  <2>1. Len(t) = Len(q)
    BY <1>3 DEF EchoChain
  <2>2. t # <<>> /\ t \in Seq(Nat) /\ p = Tail(q) /\ v = Tail(t)
    BY <1>1, <1>2, <1>3, <2>1
  <2> QED
    BY ONLY <1>3, <2>1, <2>2, TailOf
<1>6. ~Refusal'
  <2> SUFFICES ASSUME Tail(toCaller) # <<>> PROVE Head(Tail(toCaller)).status # "KindError"
    BY DEF Refusal
  <2>1. toCaller \in Seq(HostFrame) /\ outbound \in Seq(HostFrame) /\ Written = toCaller \o outbound
    BY RepliesType DEF Written
  <2>2. /\ 2 \in 1 .. Len(toCaller \o outbound) /\ Head(Tail(toCaller)) = (toCaller \o outbound)[2]
    <3>1. 2 \in 1 .. Len(toCaller) /\ Head(Tail(toCaller)) = toCaller[2]
      BY <2>1
    <3> QED
      BY ONLY <2>1, <3>1, JoinOf
  <2> QED
    BY <2>1, <2>2, NoControlFrame
<1>7. pc' = pc /\ reply' = reply /\ outbound' = outbound /\ jobs' = jobs /\ (Active' <=> Active)
  BY DEF vars, Active
<1>8. Written' = Tail(Written)
  BY <1>6, <1>7, HeadAnswer DEF Written
<1>9. Replies' = p
  BY <1>2, <1>7, <1>8, HeadAnswer DEF Replies
<1>10. p # <<>> => p[Len(p)] = q[Len(q)] /\ v[Len(v)] = t[Len(t)]
  <2> SUFFICES ASSUME p # <<>> PROVE p[Len(p)] = q[Len(q)] /\ v[Len(v)] = t[Len(t)]
    OBVIOUS
  <2>1. Len(p) # 0
    BY <1>4
  <2>2. Len(p) \in 1 .. Len(q) - 1 /\ Len(p) + 1 = Len(q)
    BY ONLY <1>5, <2>1
  <2>3. p[Len(p)] = q[Len(p) + 1] /\ v[Len(p)] = t[Len(p) + 1]
    BY ONLY <1>5, <2>2
  <2> QED
    BY ONLY <1>5, <2>2, <2>3
<1>11. Active => p # <<>>
  <2>1. Active => Len(q) >= 2
    BY <1>2, HeadAnswer
  <2> QED
    BY ONLY <1>5, <2>1
<1>12. Rest(v)'
  BY <1>1, <1>7, <1>10, <1>11 DEF Rest
<1>13. Ends(p)'
  BY <1>2, <1>3, <1>7, <1>10 DEF Ends, ReplyInv
<1>14. Unanswered(p)'
  <2>1. ASSUME NEW c \in Corr, New(c)' PROVE New(c)
    BY <2>1 DEF New
  <2>2. ASSUME NEW i \in 1 .. Len(p) PROVE p[i] = q[i + 1] /\ i + 1 \in 1 .. Len(q)
    BY ONLY <1>5, <2>2
  <2> QED
    BY <1>2, <1>7, <2>1, <2>2 DEF ReplyInv, Unanswered
<1>15. Aligned(p, v)'
  <2>1. CASE callPc' \notin {"await", "send"}
    BY <2>1 DEF Aligned
  <2>2. CASE callPc' = "await" /\ received' = received /\ f.corr # correlation
    <3>1. received = <<>> /\ Len(received) = 0
      BY <1>1, <1>2, <1>3, <2>2 DEF Aligned
    <3>2. p # <<>> => (p[1].corr = correlation /\ p[1].status = "OK" => v[1] = 0)
      BY <1>4, <2>2 DEF EchoAfter
    <3> QED
      BY <1>1, <2>2, <3>1, <3>2 DEF Aligned
  <2>3. CASE /\ callPc' = "await" /\ received' = received \o f.body
             /\ f.corr = correlation /\ f.status = "OK" /\ f.more
    <3>1. PICK e : e = End(correlation, Len(received))
      OBVIOUS
    <3>2. received' = SubSeq(Body[correlation], 1, e) /\ Len(received') = e /\ e <= Len(Body[correlation])
      BY <1>2, <2>3, <3>1, PartContinues
    <3>3. t[1] = Len(received)
      BY <1>1, <1>2, <1>3, <2>3 DEF Aligned
    <3>4. p # <<>> => p[1].corr = correlation /\ p[1].status = "OK" /\ v[1] = e
      BY <1>4, <2>3, <3>1, <3>3 DEF EchoAfter
    <3>5. p = <<>> => pc = "stopped"
      <4> SUFFICES ASSUME p = <<>> PROVE pc = "stopped"
        OBVIOUS
      <4>1. ~Active /\ Len(q) = 1
        BY <1>5, <1>11
      <4> QED
        BY <1>2, <1>3, <2>3, <4>1 DEF ReplyInv, Ends
    <3> QED
      BY <1>7, <2>3, <3>2, <3>4, <3>5 DEF Aligned
  <2> QED
    BY <1>2, <2>1, <2>2, <2>3
<1>16. EchoChain(Replies', v) /\ Aligned(Replies, v)' /\ Unanswered(Replies)' /\ Ends(Replies)'
  BY <1>4, <1>9, <1>13, <1>14, <1>15 DEF Aligned, Unanswered, Ends
<1>17. (Active /\ reply.status # "OK" => reply.body = <<>>)'
  BY <1>7 DEF ReplyInv
<1> QED
  BY <1>4, <1>6, <1>12, <1>16, <1>17 DEF ReplyInv

\* A step of the runtime that writes nothing.
LEMMA RuntimeQuiet ==
  ASSUME Inv, CallTypes, ReplyInv, UNCHANGED <<callPc, correlation, received, toCaller, outbound, reply>>,
         (Active' <=> Active), pc = "stopped" => pc' = "stopped",
         \A c \in Corr : New(c) => jobs'[c] = jobs[c] \/ jobs'[c] = NoWork
  PROVE  ReplyInv'
<1>1. Replies' = Replies
  BY DEF Replies, Written, Refusal
<1>2. \A c \in Corr : New(c)' => New(c) /\ (jobs'[c] = jobs[c] \/ jobs'[c] = NoWork)
  BY DEF New
<1>3. Refusal' => callPc' = "await" /\ Head(toCaller').corr = correlation'
  BY DEF ReplyInv, Refusal
<1>4. callPc' = "await" => correlation \in Corr
  BY DEF CallTypes
<1>5. Replies \in Seq(HostFrame)
  BY RepliesType
<1>6. callPc' = "await" =>
        /\ correlation' = correlation
        /\ (callPc = "await" /\ received' = received) \/ (callPc = "send" /\ received' = <<>>)
  BY Zenon
<1> QED
  BY <1>1, <1>2, <1>3, <1>4, <1>5, <1>6, ReplyQuiet, Zenon

\* A refusal is not OK and has no body.
LEMMA RefusalEchoes ==
  ASSUME NEW corr \in Corr, NEW kind \in Kinds, NEW stage \in Nat, NEW status \in Status \ {"OK"},
         BeginReply(corr, kind, stage, status, <<>>)
  PROVE  /\ pc' = "reply" /\ reply' \in Reply /\ reply'.corr = corr
         /\ reply'.status # "OK" /\ reply'.body = <<>>
<1>1. pc' = "reply" /\ reply' \in Reply /\ reply'.corr = corr
  BY RefusalType
<1>2. Normalised(status, <<>>) = [status |-> status, body |-> <<>>]
  BY RuntimeAssumption DEF Normalised
<1>3. reply'.status = status /\ reply'.body = <<>>
  BY <1>2 DEF BeginReply
<1> QED
  BY <1>1, <1>3

\* A frame that the runtime takes begins no answer, at most a refusal.
LEMMA ReplyDispatch ==
  ASSUME Inv, CallTypes, RequestInv, ReplyInv, TakeFrame
  PROVE  ReplyInv'
<1>1. PICK f \in Frame : f = Head(toModule) /\ Dispatched(f) /\ f.corr \in Corr /\ f.corr <= correlation
  BY TakenBody
<1>2. UNCHANGED <<callPc, correlation, received, toCaller>>
  BY DEF TakeFrame, callVars
<1>3. pc = "poll" /\ outbound' = outbound /\ ~Active
  BY <1>1 DEF Dispatched, CancelFrame, IgnoreFrame, RejectInvalid, RefuseAssembly, RefuseOversize,
              HoldFragment, RefuseComplete, StartJob, Valid, Admitted, Completes, Polled, Active
<1>4. CASE CancelFrame(f) \/ IgnoreFrame(f) \/ HoldFragment(f)
  <2>1. pc' = "drain" /\ reply' = reply /\ jobs' = jobs
    BY <1>4 DEF CancelFrame, IgnoreFrame, HoldFragment
  <2>2. ~Active'
    BY <2>1 DEF Active
  <2> QED
    BY <1>2, <1>3, <2>1, <2>2, RuntimeQuiet
<1>5. CASE StartJob(f)
  <2>1. pc' = "drain" /\ reply' = reply
    BY <1>5 DEF StartJob
  <2>2. ~Active'
    BY <2>1 DEF Active
  <2>3. ASSUME NEW c \in Corr, New(c) PROVE jobs'[c] = jobs[c]
    <3>1. ~(callPc = "send" /\ f.corr = correlation)
      BY <1>1, <1>5, TakenBody
    <3>2. c # f.corr
      BY <1>1, <2>3, <3>1, CorrNumbers DEF New, CallTypes
    <3> QED
      BY <1>1, <3>2, DispatchLocal
  <2> QED
    BY <1>2, <1>3, <2>1, <2>2, <2>3, RuntimeQuiet
<1>6. CASE RejectInvalid(f) \/ RefuseAssembly(f) \/ RefuseOversize(f) \/ RefuseComplete(f)
  <2>1. f.kind \in Kinds /\ Stages[f.kind] \in Nat /\ AnswerStage(Stages[f.kind]) \in Nat
    BY RuntimeAssumption DEF Frame, AnswerStage
  <2>2. Admission(f.msg.deadline) # "OK" => Admission(f.msg.deadline) \in Status \ {"OK"}
    BY DEF Admission, Status
  <2>3. {"InvalidRequest", "Internal"} \subseteq Status \ {"OK"}
    BY DEF Status
  <2>4. PICK stage \in Nat, status \in Status \ {"OK"} : BeginReply(f.corr, f.kind, stage, status, <<>>)
    BY <1>6, <2>1, <2>2, <2>3 DEF RejectInvalid, RefuseAssembly, RefuseOversize, RefuseComplete
  <2>5. /\ pc' = "reply" /\ reply' \in Reply /\ reply'.corr = f.corr
        /\ reply'.status # "OK" /\ reply'.body = <<>>
    BY <1>1, <2>1, <2>4, RefusalEchoes
  <2>6. jobs' = jobs
    BY <1>6 DEF RejectInvalid, RefuseAssembly, RefuseOversize, RefuseComplete
  <2>7. Written' = Written
    BY <1>2, <1>3 DEF Written, Refusal
  <2> QED
    BY <1>1, <1>2, <1>3, <2>5, <2>6, <2>7, ReplyBegun
<1> QED
  BY <1>1, <1>4, <1>5, <1>6 DEF Dispatched

\* The answer of a handler repeats the request it was given.
LEMMA ReplyFinish ==
  ASSUME Inv, CallTypes, WorkEchoes, ReplyInv, FinishWork,
         UNCHANGED <<callPc, correlation, received, toCaller>>
  PROVE  ReplyInv'
<1>1. PICK w : w = Head(done)
  OBVIOUS
<1>2. /\ Forget(w) /\ BeginReply(work[w].corr, work[w].kind, work[w].stage, work[w].status, work[w].body)
      /\ done # <<>> /\ pc = "drain" /\ outbound' = outbound
  BY <1>1 DEF FinishWork
<1>3. /\ w \in Wid /\ work[w] \in Work /\ work[w].phase = "sent" /\ work[w].corr \in Corr
      /\ jobs[work[w].corr] = w
  BY <1>1, <1>2, ForgetType DEF Inv
<1>4. /\ work[w].kind \in Kinds \cup {0} /\ work[w].stage \in Nat /\ work[w].body \in Seq(Chunks)
      /\ work[w].status \in Status
  BY <1>3 DEF Work
<1>5. work[w].body = IF work[w].status = "OK" THEN Body[work[w].corr] ELSE <<>>
  BY <1>3 DEF WorkEchoes
<1>6. ~(Len(work[w].body) > MaxBody)
  <2>1. Len(Body[work[w].corr]) \in Nat /\ Len(Body[work[w].corr]) <= MaxBody
    BY <1>3, BodyType
  <2> QED
    BY <1>5, <2>1, RuntimeAssumption
<1>7. Normalised(work[w].status, work[w].body) = [status |-> work[w].status, body |-> work[w].body]
  BY <1>4, <1>5, <1>6 DEF Normalised
<1>8. reply'.status = work[w].status /\ reply'.body = work[w].body
  BY <1>2, <1>7 DEF BeginReply
<1>9. pc' = "reply" /\ reply' \in Reply /\ reply'.corr = work[w].corr
  BY <1>2, <1>3, <1>4, BeginReplyType
<1>10. ~New(work[w].corr)
  BY <1>3, RuntimeAssumption DEF ReplyInv, Unanswered
<1>11. \A c \in Corr : jobs'[c] = jobs[c] \/ jobs'[c] = NoWork
  BY <1>2, <1>3 DEF Forget, Inv, TypeOK
<1>12. Written' = Written /\ ~Active
  BY <1>2 DEF Written, Refusal, Active
<1> QED
  BY <1>2, <1>3, <1>5, <1>8, <1>9, <1>10, <1>11, <1>12, ReplyBegun

\* The loop on its own: it begins the answers of the handlers and writes them.
LEMMA ReplyLoop ==
  ASSUME Inv, CallTypes, WorkEchoes, ReplyInv, ~epochChanged, OwnStep \/ PollNothing,
         UNCHANGED <<callPc, correlation, received, toCaller>>
  PROVE  ReplyInv'
<1>1. CASE FinishWork
  BY <1>1, ReplyFinish
<1>2. CASE NothingDone \/ BeginShutdown \/ AwaitJob \/ Drained \/ CheckEpoch \/ PollNothing
  <2>1. ~Active /\ ~Active' /\ pc # "stopped" /\ outbound' = outbound /\ reply' = reply
    BY <1>2 DEF NothingDone, BeginShutdown, AwaitJob, Drained, CheckEpoch, PollNothing, Stop, Active
  <2>2. \A c \in Corr : jobs'[c] = jobs[c] \/ jobs'[c] = NoWork
    BY OwnTables
  <2> QED
    BY <2>1, <2>2, RuntimeQuiet
<1>3. CASE EmitBlocked \/ WaitTimer
  <2>1. Active /\ Active' /\ pc # "stopped" /\ outbound' = outbound /\ reply' = reply /\ jobs' = jobs
    BY <1>3 DEF EmitBlocked, WaitTimer, Active
  <2> QED
    BY <2>1, RuntimeQuiet
<1>4. CASE EmitFragment
  BY <1>4, ReplyWritten
<1>5. CASE WaitCancelled
  <2>1. Active /\ pc' = "stopped" /\ jobs' = jobs /\ outbound' = outbound
    BY <1>5 DEF WaitCancelled, Stop, Active
  <2>2. Written' = Written
    BY <2>1 DEF Written, Refusal
  <2> QED
    BY <2>1, <2>2, ReplyGivenUp
<1>6. ~PollEpoch /\ ~ReplyFails
  BY DEF PollEpoch, ReplyFails, ReplyError, Inv, Encodes
<1> QED
  BY <1>1, <1>2, <1>3, <1>4, <1>5, <1>6 DEF OwnStep

\* The host carries a frame: it changes place in the stream's two halves.
LEMMA ReplyCarried ==
  ASSUME Inv, CallTypes, ReplyInv, HostCarries
  PROVE  ReplyInv'
<1>1. /\ outbound # <<>> /\ outbound' = Tail(outbound) /\ toCaller' = Append(toCaller, Head(outbound))
      /\ pc' = pc /\ reply' = reply /\ jobs' = jobs
      /\ callPc' = callPc /\ correlation' = correlation /\ received' = received
  BY DEF HostCarries, HostDrain, loopVars, callVars
<1>2. PICK a, b, f : a = toCaller /\ b = outbound /\ f = Head(outbound)
  OBVIOUS
<1>3. a \in Seq(HostFrame) /\ b \in Seq(HostFrame) /\ b # <<>> /\ f = Head(b) /\ f \in HostFrame
  <2>1. a \in Seq(HostFrame) /\ b \in Seq(HostFrame) /\ b # <<>> /\ f = Head(b)
    BY <1>1, <1>2, RepliesType
  <2> QED
    BY ONLY <2>1, TailOf
<1>4. f.status # "KindError"
  <2>1. f \in OutFrame
    BY <1>1, <1>2 DEF Inv, TypeOK
  <2> QED
    BY <2>1 DEF OutFrame, Status
<1>5. (Refusal' <=> Refusal) /\ (Refusal => Head(toCaller') = Head(toCaller)) /\ Written' = Written
  <2>1. CASE a = <<>>
    <3>1. ~Refusal
      BY <1>2, <2>1 DEF Refusal
    <3>2. Head(Append(a, f)) = f
      BY ONLY <1>3, <2>1
    <3>3. ~Refusal'
      BY <1>1, <1>2, <1>4, <3>2 DEF Refusal
    <3>4. Append(a, f) \o Tail(b) = a \o b
      BY ONLY <1>3, Carry
    <3> QED
      BY <1>1, <1>2, <3>1, <3>3, <3>4 DEF Written
  <2>2. CASE a # <<>>
    <3>1. /\ Append(a, f) # <<>> /\ Head(Append(a, f)) = Head(a)
          /\ Tail(Append(a, f)) = Append(Tail(a), f) /\ Tail(a) \in Seq(HostFrame)
      BY ONLY <1>3, <2>2, AppendOf, TailOf, TailOfAppend
    <3>2. Refusal' <=> Refusal
      BY <1>1, <1>2, <2>2, <3>1 DEF Refusal
    <3>3. Append(a, f) \o Tail(b) = a \o b
      BY ONLY <1>3, Carry
    <3>4. Append(Tail(a), f) \o Tail(b) = Tail(a) \o b
      BY ONLY <1>3, <3>1, Carry
    <3>5. Written' = Written
      BY <1>1, <1>2, <3>1, <3>2, <3>3, <3>4 DEF Written
    <3> QED
      BY <1>1, <1>2, <3>1, <3>2, <3>5
  <2> QED
    BY <2>1, <2>2
<1>6. (Active' <=> Active) /\ Replies' = Replies
  BY <1>1, <1>5 DEF Active, Replies
<1>7. Refusal' => callPc' = "await" /\ Head(toCaller').corr = correlation'
  BY <1>1, <1>5 DEF ReplyInv
<1>8. \A c \in Corr : New(c)' => New(c)
  BY <1>1 DEF New
<1>9. Replies \in Seq(HostFrame) /\ (callPc' = "await" => correlation \in Corr)
  BY <1>1, RepliesType DEF CallTypes
<1> QED
  BY <1>1, <1>6, <1>7, <1>8, <1>9, ReplyQuiet

\* The host answers itself: its control frame stands in front of the stream.
LEMMA ReplyRefused ==
  ASSUME Inv, CallTypes, ReplyInv, HostRefuses
  PROVE  ReplyInv'
<1>1. /\ callPc = "await" /\ toCaller = <<>> /\ UNCHANGED vars
      /\ callPc' = callPc /\ correlation' = correlation /\ received' = received
  BY DEF HostRefuses, callVars
<1>2. Refusal' /\ Tail(toCaller') = <<>> /\ Head(toCaller').corr = correlation
  BY DEF HostRefuses, Refusal
<1>3. ~Refusal
  BY <1>1 DEF Refusal
<1>4. outbound' = outbound /\ reply' = reply /\ pc' = pc /\ jobs' = jobs
  BY <1>1 DEF vars
<1>5. Written' = Written
  BY <1>1, <1>2, <1>3, <1>4 DEF Written
<1>6. (Active' <=> Active) /\ Replies' = Replies
  BY <1>4, <1>5 DEF Active, Replies
<1>7. \A c \in Corr : New(c)' => New(c)
  BY <1>1 DEF New
<1>8. Replies \in Seq(HostFrame) /\ correlation \in Corr
  BY <1>1, RepliesType DEF CallTypes
<1> QED
  BY <1>1, <1>2, <1>4, <1>6, <1>7, <1>8, ReplyQuiet

\* The caller takes the control frame, and the call returns.
LEMMA ReplyControl ==
  ASSUME Inv, CallTypes, ReplyInv, AwaitRefused, Refusal
  PROVE  ReplyInv'
<1>1. /\ callPc' = "cancel" /\ correlation' = correlation /\ toCaller' = Tail(toCaller)
      /\ pc' = pc /\ reply' = reply /\ jobs' = jobs /\ outbound' = outbound
  BY DEF AwaitRefused, Failing, vars
<1>2. ~Refusal'
  <2> SUFFICES ASSUME Tail(toCaller) # <<>> PROVE Head(Tail(toCaller)).status # "KindError"
    BY <1>1 DEF Refusal
  <2>1. /\ Tail(toCaller) \in Seq(HostFrame) /\ outbound \in Seq(HostFrame)
        /\ Written = Tail(toCaller) \o outbound
    BY RepliesType DEF Written, Refusal
  <2>2. 1 \in 1 .. Len(Tail(toCaller) \o outbound) /\ Head(Tail(toCaller)) = (Tail(toCaller) \o outbound)[1]
    <3>1. PICK a : a = Tail(toCaller)
      OBVIOUS
    <3>2. a \in Seq(HostFrame) /\ a # <<>> /\ outbound \in Seq(HostFrame)
      BY <2>1, <3>1
    <3>3. Len(a) \in Nat \ {0} /\ Head(a) = a[1]
      BY ONLY <3>2, TailOf
    <3>4. Len(a \o outbound) = Len(a) + Len(outbound) /\ Len(outbound) \in Nat /\ (a \o outbound)[1] = a[1]
      BY ONLY <3>2, <3>3, JoinOf
    <3>5. 1 \in 1 .. Len(a \o outbound) /\ Head(a) = (a \o outbound)[1]
      BY ONLY <3>3, <3>4
    <3> QED
      BY <3>1, <3>5, Zenon
  <2> QED
    BY <2>1, <2>2, NoControlFrame
<1>3. Written' = Written
  BY <1>1, <1>2 DEF Written
<1>4. (Active' <=> Active) /\ Replies' = Replies
  BY <1>1, <1>3 DEF Active, Replies
<1>5. \A c \in Corr : New(c)' => New(c)
  BY <1>1 DEF New
<1>6. Replies \in Seq(HostFrame) /\ callPc' # "await" /\ callPc' # "send"
  BY <1>1, RepliesType
<1> QED
  BY <1>1, <1>2, <1>4, <1>5, <1>6, ReplyQuiet

\* The caller begins, sends, gives up or cancels: the answers under way stay as they are.
LEMMA CallerQuiet ==
  ASSUME Inv, CallTypes, ReplyInv, ~epochChanged,
         \/ CallBegin \/ SendFails \/ SendFragment \/ AwaitGivesUp \/ CancelCall \/ CallerCancels
  PROVE  ReplyInv'
<1>1. pc' = pc /\ reply' = reply /\ jobs' = jobs /\ outbound' = outbound /\ toCaller' = toCaller
  BY DEF CallBegin, SendFails, SendFragment, AwaitGivesUp, CancelCall, CallerCancels, vars
<1>2. (Active' <=> Active) /\ Replies' = Replies /\ (Refusal' <=> Refusal)
  BY <1>1 DEF Active, Replies, Written, Refusal
<1>3. callPc' = "await" =>
        /\ correlation' = correlation
        /\ (callPc = "await" /\ received' = received) \/ (callPc = "send" /\ received' = <<>>)
  <2>1. AwaitGivesUp => callPc' = "cancel"
    BY DEF AwaitGivesUp, Failing
  <2> QED
    BY <2>1 DEF CallBegin, SendFails, SendFragment, CancelCall, CallerCancels
<1>4. callPc' = "await" => correlation \in Corr
  BY <1>3 DEF CallTypes
<1>5. ASSUME NEW c \in Corr, New(c)' PROVE New(c)
  <2>1. CASE CallBegin
    <3>1. correlation' = correlation + 1 /\ c \in Nat /\ correlation \in Nat
      BY <2>1, CorrNumbers DEF CallBegin, CallTypes
    <3>2. c >= correlation + 1
      BY <1>5, <3>1 DEF New
    <3> QED
      BY <3>1, <3>2 DEF New
  <2>2. CASE ~CallBegin
    <3>1. correlation' = correlation /\ (callPc' = "send" => callPc = "send")
      <4>1. AwaitGivesUp => callPc' = "cancel" /\ correlation' = correlation
        BY DEF AwaitGivesUp, Failing
      <4> QED
        BY <2>2, <4>1 DEF SendFails, SendFragment, CancelCall, CallerCancels
    <3> QED
      BY <1>5, <3>1 DEF New
  <2> QED
    BY <2>1, <2>2
<1>6. Refusal => /\ callPc = "await" /\ toCaller # <<>> /\ Head(toCaller).corr = correlation
  BY DEF ReplyInv, Refusal
<1>7. Refusal' => callPc' = "await" /\ Head(toCaller').corr = correlation'
  <2> SUFFICES ASSUME Refusal PROVE CallerCancels
    BY <1>1, <1>2, <1>6 DEF CallerCancels
  <2>1. ~AwaitGivesUp
    BY <1>6 DEF AwaitGivesUp
  <2> QED
    BY <1>6, <2>1 DEF CallBegin, SendFails, SendFragment, CancelCall
<1>8. Replies \in Seq(HostFrame)
  BY RepliesType
<1> QED
  BY <1>1, <1>2, <1>3, <1>4, <1>5, <1>7, <1>8, ReplyQuiet

\* The fragments on their way back always continue what the caller has, until the host restarts.
LEMMA ReplyStep ==
  ASSUME Inv, CallTypes, RequestInv, WorkEchoes, ReplyInv, ~epochChanged, [CallNext]_allVars
  PROVE  epochChanged' \/ ReplyInv'
<1>1. CASE TakeFrame
  BY <1>1, ReplyDispatch
<1>2. CASE (OwnStep \/ PollNothing) /\ UNCHANGED <<callVars, toModule, toCaller, handed>>
  <2>1. UNCHANGED <<callPc, correlation, received, toCaller>>
    BY <1>2 DEF callVars
  <2> QED
    BY <1>2, <2>1, ReplyLoop
<1>3. CASE (\E w \in Wid : Handler(w)) \/ Environment \/ UNCHANGED allVars
  <2>1. CASE HostRestart
    BY <2>1 DEF HostRestart
  <2>2. CASE ~HostRestart
    <3>1. UNCHANGED <<callPc, correlation, received, toCaller, outbound, reply, jobs, pc>>
      BY <1>3, <2>2
      DEF Handler, HandlerSend, HandlerReturn, Environment, CtxCancel, Tick, allVars, callVars,
          vars, loopVars
    <3>2. Active' <=> Active
      BY <3>1 DEF Active
    <3> QED
      BY <3>1, <3>2, RuntimeQuiet
  <2> QED
    BY <2>1, <2>2
<1>4. CASE HostCarries
  BY <1>4, ReplyCarried
<1>5. CASE HostRefuses
  BY <1>5, ReplyRefused
<1>6. CASE \/ CallBegin \/ SendFails \/ SendFragment \/ AwaitGivesUp \/ CancelCall \/ CallerCancels
  BY <1>6, CallerQuiet
<1>7. ~AwaitEpoch
  BY DEF AwaitEpoch
<1>8. CASE AwaitSkip
  <2>1. /\ callPc = "await" /\ toCaller # <<>> /\ toCaller' = Tail(toCaller) /\ UNCHANGED vars
        /\ correlation' = correlation /\ callPc' = "await" /\ received' = received
        /\ Head(toCaller).corr # correlation
    BY <1>8 DEF AwaitSkip, callVars, Mine
  <2>2. ~Refusal
    BY <2>1 DEF ReplyInv
  <2> QED
    BY <2>1, <2>2, ReplyTaken
<1>9. CASE AwaitRefused
  <2>1. CASE Refusal
    BY <1>9, <2>1, ReplyControl
  <2>2. CASE ~Refusal
    <3>1. /\ callPc = "await" /\ toCaller # <<>> /\ toCaller' = Tail(toCaller) /\ UNCHANGED vars
          /\ correlation' = correlation /\ callPc' \notin {"await", "send"}
      BY <1>9 DEF AwaitRefused, Failing
    <3> QED
      BY <2>2, <3>1, ReplyTaken
  <2> QED
    BY <2>1, <2>2
<1>10. CASE AwaitPart
  <2>1. /\ callPc = "await" /\ toCaller # <<>> /\ toCaller' = Tail(toCaller) /\ UNCHANGED vars
        /\ correlation' = correlation /\ Head(toCaller).corr = correlation
        /\ Head(toCaller).status = "OK"
    BY <1>10 DEF AwaitPart, Mine
  <2>2. ~Refusal
    BY <2>1 DEF Refusal
  <2>3. \/ callPc' \notin {"await", "send"}
        \/ callPc' = "await" /\ received' = received \o Head(toCaller).body /\ Head(toCaller).more
    BY <1>10 DEF AwaitPart
  <2> QED
    BY <2>1, <2>2, <2>3, ReplyTaken
<1> QED
  BY <1>1, <1>2, <1>3, <1>4, <1>5, <1>6, <1>7, <1>8, <1>9, <1>10, StepKinds

(***************************************************************************)
(* The invariant of the composition.  After a restart of the host nothing  *)
(* is claimed of the answers under way: the caller takes none of them.     *)
(***************************************************************************)
CallInv ==
  /\ Inv
  /\ CallTypes
  /\ RequestInv
  /\ WorkEchoes
  /\ epochChanged \/ ReplyInv
  /\ OkIsWhole

\* Nothing is under way at the start.
LEMMA CallInvInit == CallInit => CallInv
<1> SUFFICES ASSUME CallInit PROVE CallInv
  OBVIOUS
<1>1. Inv
  BY InvInit DEF CallInit
<1>2. CallTypes
  <2>1. Cardinality(Corr) \in Nat
    BY CorrNumbers
  <2>2. handed \in [Corr -> Seq(Chunks)]
    BY DEF CallInit
  <2>3. toModule \in Seq(Frame) /\ toCaller \in Seq(HostFrame) /\ received \in Seq(Chunks)
    BY DEF CallInit
  <2> QED
    BY <2>1, <2>2, <2>3 DEF CallInit, CallTypes
<1>3. \A c \in Corr : jobs[c] = NoWork /\ assemblies[c] = NoAssembly
  BY DEF CallInit, Init
<1>4. RequestInv
  <2>1. Requests = <<>> /\ toModule = <<>> /\ callPc # "send" /\ <<>> \in Seq(Nat)
    BY DEF CallInit, Requests
  <2>2. SentChain(Requests, <<>>)
    BY <2>1 DEF SentChain
  <2>3. Meets(Requests, <<>>)
    BY <1>3, <2>1 DEF Meets, Untouched
  <2>4. \E s \in Seq(Nat) : /\ SentChain(Requests, s) /\ Meets(Requests, s)
                            /\ callPc = "send" => s[Len(s)] = offset
    BY <2>1, <2>2, <2>3, Zenon
  <2>5. \A i \in 1 .. Len(toModule) : FALSE
    BY <2>1
  <2> QED
    BY <2>4, <2>5 DEF RequestInv
<1>5. WorkEchoes
  BY DEF CallInit, Init, WorkEchoes, FreeWork
<1>6. ReplyInv
  <2>1. ~Active /\ ~Refusal /\ Written = <<>> /\ callPc = "idle" /\ <<>> \in Seq(Nat)
    BY DEF CallInit, Init, Active, Refusal, Written
  <2>2. Replies = <<>>
    BY <2>1 DEF Replies
  <2>3. EchoChain(Replies, <<>>)
    BY <2>2 DEF EchoChain
  <2>4. Rest(<<>>) /\ Aligned(Replies, <<>>) /\ Ends(Replies)
    BY <2>1, <2>2 DEF Rest, Aligned, Ends
  <2>5. Unanswered(Replies)
    BY <1>3, <2>2 DEF Unanswered
  <2> QED
    BY <2>1, <2>3, <2>4, <2>5 DEF ReplyInv
<1>7. OkIsWhole
  BY DEF CallInit, OkIsWhole
<1> QED
  BY <1>1, <1>2, <1>4, <1>5, <1>6, <1>7 DEF CallInv

\* Only the last fragment of an answer lets Call return OK, with the whole of it.
LEMMA OkStep ==
  ASSUME CallInv, [CallNext]_allVars
  PROVE  OkIsWhole'
<1> USE DEF CallInv
<1>1. ASSUME NEW c \in Corr PROVE handed'[c] \in {<<>>, Body[c]}
  <2>1. handed[c] \in {<<>>, Body[c]}
    BY DEF OkIsWhole
  <2>2. CASE TakeFrame
    BY <2>1, <2>2, TakenBody
  <2>3. CASE ~TakeFrame
    <3>1. handed' = handed
      BY <2>3, StepKinds
      DEF Handler, HostCarries, Environment, CallBegin, SendFails, SendFragment, AwaitEpoch,
          AwaitGivesUp, AwaitSkip, AwaitRefused, AwaitPart, CancelCall, HostRefuses,
          CallerCancels, allVars
    <3> QED
      BY <2>1, <3>1
  <2> QED
    BY <2>2, <2>3
<1>2. ASSUME NEW c \in Corr, outcome'[c] = "OK" PROVE answer'[c] = Body[c]
  <2>1. CASE outcome'[c] = outcome[c] /\ answer'[c] = answer[c]
    BY <1>2, <2>1 DEF OkIsWhole
  <2>2. ASSUME NEW how, how # "OK", callPc # "idle", Return(how, <<>>)
        PROVE  answer'[c] = Body[c]
    <3>1. correlation \in Corr /\ DOMAIN outcome = Corr /\ DOMAIN answer = Corr
      BY <2>2 DEF CallTypes
    <3>2. c # correlation
      BY <1>2, <2>2, <3>1 DEF Return
    <3>3. outcome'[c] = outcome[c] /\ answer'[c] = answer[c]
      BY <2>2, <3>1, <3>2 DEF Return
    <3> QED
      BY <2>1, <3>3
  <2>3. CASE AwaitPart
    <3>1. CASE Head(toCaller).more
      BY <2>1, <2>3, <3>1 DEF AwaitPart
    <3>2. CASE ~Head(toCaller).more
      <4>1. /\ callPc = "await" /\ ~epochChanged /\ toCaller # <<>>
            /\ Head(toCaller).corr = correlation /\ Head(toCaller).status = "OK"
            /\ Return("OK", received \o Head(toCaller).body)
        BY <2>3, <3>2 DEF AwaitPart, Mine
      <4>2. ~Refusal
        BY <4>1 DEF Refusal
      <4>3. received \o Head(toCaller).body = Body[correlation]
        BY <3>2, <4>1, <4>2, PartContinues
      <4>4. correlation \in Corr /\ DOMAIN outcome = Corr /\ DOMAIN answer = Corr
        BY <4>1 DEF CallTypes
      <4>5. /\ answer'[correlation] = Body[correlation]
            /\ c # correlation => outcome'[c] = outcome[c] /\ answer'[c] = answer[c]
        BY <4>1, <4>3, <4>4 DEF Return
      <4> QED
        BY <2>1, <4>5
    <3> QED
      BY <3>1, <3>2
  <2>4. CASE SendFails
    <3>1. SendError # "OK"
      BY DEF SendError
    <3> QED
      BY <2>2, <2>4, <3>1 DEF SendFails
  <2>5. CASE AwaitEpoch
    BY <2>2, <2>5 DEF AwaitEpoch, Failing
  <2>6. CASE AwaitGivesUp
    <3>1. \E how : how # "OK" /\ Failing(how) /\ callPc = "await"
      BY <2>6, Zenon DEF AwaitGivesUp
    <3> QED
      BY <2>2, <3>1 DEF Failing
  <2>7. CASE AwaitRefused
    BY <2>2, <2>7 DEF AwaitRefused, Failing
  <2>8. CASE outcome' = outcome /\ answer' = answer
    BY <2>1, <2>8
  <2> QED
    BY <2>3, <2>4, <2>5, <2>6, <2>7, <2>8, StepKinds
    DEF TakeFrame, Handler, HostCarries, Environment, CallBegin, SendFragment, AwaitSkip, CancelCall,
        HostRefuses, CallerCancels, allVars, callVars
<1> QED
  BY <1>1, <1>2 DEF OkIsWhole

\* Every step of caller, host, runtime and handlers keeps the invariant.
LEMMA CallInvStep == CallInv /\ [CallNext]_allVars => CallInv'
<1> SUFFICES ASSUME CallInv, [CallNext]_allVars PROVE CallInv'
  OBVIOUS
<1>1. Inv /\ CallTypes /\ RequestInv /\ WorkEchoes /\ (epochChanged \/ ReplyInv)
  BY DEF CallInv
<1>2. Inv'
  BY <1>1, RuntimeSteps, InvStep
<1>3. CallTypes'
  BY <1>1, CallTypesStep
<1>4. RequestInv'
  BY <1>1, <1>3, RequestStep
<1>5. WorkEchoes'
  BY <1>1, WorkEchoesStep
<1>6. (epochChanged \/ ReplyInv)'
  <2>1. CASE epochChanged
    <3>1. [AnyNext]_vars
      BY <1>1, RuntimeSteps
    <3>2. epochChanged'
      BY <2>1, <3>1
      DEF AnyNext, OwnStep, FinishWork, NothingDone, BeginShutdown, AwaitJob, Drained, CheckEpoch,
          PollEpoch, PollNothing, ReplyFails, EmitFragment, EmitBlocked, WaitCancelled, WaitTimer,
          Dispatched, CancelFrame, IgnoreFrame, RejectInvalid, RefuseAssembly, RefuseOversize,
          HoldFragment, RefuseComplete, StartJob, AnyHandlerStep, HandlerReturn, HandlerSend,
          HostDrain, HostRestart, CtxCancel, Tick, Terminated, vars, envVars
    <3> QED
      BY <3>2
  <2>2. CASE ~epochChanged
    BY <1>1, <2>2, ReplyStep
  <2> QED
    BY <2>1, <2>2
<1>7. OkIsWhole'
  BY OkStep
<1> QED
  BY <1>2, <1>3, <1>4, <1>5, <1>6, <1>7 DEF CallInv

\* A Call that succeeds returns the handler's answer to exactly the bytes it was called with,
\* and a handler is never given a part of a request: for every number of calls, every request,
\* deadline and fragment size, whatever the rings have room for, whoever gives up, cancels,
\* refuses or restarts.
THEOREM AnswersAreWhole == CallSpec => []OkIsWhole
<1>1. CallInv => OkIsWhole
  BY DEF CallInv
<1> QED
  BY <1>1, CallInvInit, CallInvStep, PTL DEF CallSpec

\* The runtime keeps its promises under every caller of this kind: whatever fragments, cancels
\* and repeated sends it is given, its tables agree with its goroutines and stay in bounds, and
\* only ctx or the epoch make it return.
THEOREM CallersDoNotHarm == CallSpec => [](JobsAreTheWork /\ AssemblingXorRunning /\ OnlyCtxOrEpochStops)
<1>1. CallInv => JobsAreTheWork /\ AssemblingXorRunning /\ OnlyCtxOrEpochStops
  BY DEF CallInv, Inv
<1> QED
  BY <1>1, CallInvInit, CallInvStep, PTL DEF CallSpec

=============================================================================
