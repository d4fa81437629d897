-------------------------- MODULE SandboxStagesProof --------------------------
(***************************************************************************)
(* The stages: what is sent on of a head, which address may be dialled and *)
(* which words of a command are learned.  HeadRead says what               *)
(* rewriteProxyHead has collected after any number of header lines;        *)
(* AddressAsked is all that has to be known of the address, as             *)
(* proxyIPBlocked keeps no state; AptRead says what the place in the loops *)
(* of ParseApt implies about the words read so far.                        *)
(***************************************************************************)
EXTENDS SandboxStages, ProxyAddressProof, TLAPS

\* What a header line nominates, and what the lines of a head do.
Options(h) == IF Nominates(h) THEN h.options ELSE {}
Nominees(hs) == UNION {Options(hs[i]) : i \in DOMAIN hs}

\* A line the loop keeps.
WellFormed(h) ==
  /\ h.name # "blank" /\ ValidHeaderName(h.name)
  /\ \A o \in Options(h) : ValidHeaderName(o)

\* The kept lines are well formed, nominated is what they nominate, and they are the lines
\* read so far, up to the empty one if it has come.
HeadRead ==
  /\ line \in RequestLines
  /\ lines \in Seq(HeaderLines) /\ headers \in Seq(HeaderLines)
  /\ reading \in {"lines", "end", "refused"}
  /\ \A i \in DOMAIN headers : WellFormed(headers[i])
  /\ nominated = Nominees(headers)
  /\ reading = "lines" => lines = headers
  /\ reading = "end" => \E h \in HeaderLines : lines = Append(headers, h) /\ h.name = "blank"

\* handleProxyAddress has been asked about one of the addresses, or not yet.
AddressAsked == addr = NoAddress \/ addr \in Addresses

\* Before the first header line.
LEMMA InitInv == Init => HeadRead /\ AddressAsked
<1> SUFFICES ASSUME Init PROVE HeadRead /\ AddressAsked
  OBVIOUS
<1>1. /\ line \in RequestLines /\ lines = <<>> /\ headers = <<>> /\ nominated = {}
      /\ reading = "lines" /\ addr = NoAddress
  BY DEF Init, ProxyInit
<1>2. Nominees(<<>>) = {}
  BY DEF Nominees
<1>3. <<>> \in Seq(HeaderLines) /\ DOMAIN <<>> = {}
  OBVIOUS
<1> QED
  BY <1>1, <1>2, <1>3 DEF HeadRead, AddressAsked

\* One more header line nominates its own options and nothing else.
LEMMA NomineesGrow ==
  ASSUME NEW H, NEW hs \in Seq(H), NEW h \in H
  PROVE  Nominees(Append(hs, h)) = Nominees(hs) \cup Options(h)
<1> DEFINE n == Len(hs) + 1
           gs == Append(hs, h)
<1>1. /\ DOMAIN gs = 1..n /\ DOMAIN hs = 1..(n - 1) /\ gs[n] = h /\ n \in Nat /\ n >= 1
      /\ \A i \in 1..(n - 1) : gs[i] = hs[i]
  OBVIOUS
<1>2. \A i \in 1..n : i = n \/ i \in 1..(n - 1)
  BY <1>1
<1>3. \A i \in 1..(n - 1) : i \in 1..n
  BY <1>1
<1>4. n \in 1..n
  BY <1>1
<1> HIDE DEF n, gs
<1>5. ASSUME NEW o \in Nominees(gs) PROVE o \in Nominees(hs) \cup Options(h)
  <2>1. PICK i \in 1..n : o \in Options(gs[i])
    BY <1>1 DEF Nominees
  <2>2. CASE i = n
    BY <2>1, <2>2, <1>1
  <2>3. CASE i \in 1..(n - 1)
    BY <2>1, <2>3, <1>1 DEF Nominees
  <2> QED
    BY <2>2, <2>3, <1>2
<1>6. ASSUME NEW o \in Nominees(hs) PROVE o \in Nominees(gs)
  <2>1. PICK i \in 1..(n - 1) : o \in Options(hs[i])
    BY <1>1 DEF Nominees
  <2>2. i \in DOMAIN gs /\ o \in Options(gs[i])
    BY <2>1, <1>1, <1>3
  <2> QED
    BY <2>2 DEF Nominees
<1>7. ASSUME NEW o \in Options(h) PROVE o \in Nominees(gs)
  <2>1. n \in DOMAIN gs /\ o \in Options(gs[n])
    BY <1>1, <1>4
  <2> QED
    BY <2>1 DEF Nominees
<1>8. Nominees(gs) = Nominees(hs) \cup Options(h)
  BY <1>5, <1>6, <1>7
<1> QED
  BY <1>8 DEF gs

\* A line that is read is kept, ends the head or refuses it.
LEMMA HeadStep == HeadRead /\ AddressAsked /\ [Next]_vars => HeadRead' /\ AddressAsked'
<1> SUFFICES ASSUME HeadRead, AddressAsked, [Next]_vars PROVE HeadRead' /\ AddressAsked'
  OBVIOUS
<1>1. CASE UNCHANGED proxyVars
  BY <1>1 DEF HeadRead, AddressAsked, proxyVars, Nominees, WellFormed, Options
<1>2. CASE AskAddress
  <2>1. HeadRead'
    BY <1>2 DEF HeadRead, AskAddress, Nominees, WellFormed, Options
  <2>2. AddressAsked'
    BY <1>2 DEF AskAddress, AddressAsked
  <2> QED
    BY <2>1, <2>2
<1>3. CASE ReadLine
  <2>0. /\ reading = "lines" /\ line' = line /\ addr' = addr /\ line \in RequestLines
        /\ lines = headers /\ headers \in Seq(HeaderLines) /\ nominated = Nominees(headers)
        /\ \A i \in DOMAIN headers : WellFormed(headers[i])
    BY <1>3 DEF ReadLine, HeadRead
  <2>1. PICK h \in HeaderLines :
          (ReadHeader(h) \/ RefuseHeader(h) \/ EndOfHead(h)) /\ lines' = Append(lines, h)
    BY <1>3 DEF ReadLine
  <2>2. lines' \in Seq(HeaderLines)
    BY <2>0, <2>1
  <2>3. CASE ReadHeader(h)
    <3>1. headers' = Append(headers, h) /\ reading' = "lines"
      BY <2>0, <2>3 DEF ReadHeader
    <3>2. WellFormed(h)
      BY <2>3 DEF ReadHeader, WellFormed, Options
    <3>3. nominated' = nominated \cup Options(h)
      BY <2>3 DEF ReadHeader, Options
    <3>4. nominated' = Nominees(headers')
      BY <3>1, <3>3, <2>0, NomineesGrow
    <3>5. \A i \in DOMAIN headers' : WellFormed(headers'[i])
      <4> SUFFICES ASSUME NEW i \in DOMAIN headers' PROVE WellFormed(headers'[i])
        OBVIOUS
      <4>1. i \in 1..(Len(headers) + 1)
        BY <2>0, <3>1
      <4>2. CASE i = Len(headers) + 1
        BY <4>2, <3>1, <3>2, <2>0
      <4>3. CASE i \in DOMAIN headers
        <5>1. headers'[i] = headers[i]
          BY <4>3, <3>1, <2>0
        <5> QED
          BY <5>1, <4>3, <2>0
      <4> QED
        BY <4>1, <4>2, <4>3, <2>0
    <3>6. headers' \in Seq(HeaderLines) /\ lines' = headers'
      BY <2>0, <2>1, <3>1
    <3>7. HeadRead'
      BY <2>0, <2>2, <3>1, <3>4, <3>5, <3>6 DEF HeadRead
    <3> QED
      BY <3>7, <2>0 DEF AddressAsked
  <2>4. CASE RefuseHeader(h)
    <3>1. headers' = headers /\ nominated' = nominated /\ reading' = "refused"
      BY <2>4 DEF RefuseHeader
    <3> QED
      BY <2>0, <2>2, <3>1 DEF HeadRead, AddressAsked, Nominees, WellFormed, Options
  <2>5. CASE EndOfHead(h)
    <3>1. headers' = headers /\ nominated' = nominated /\ reading' = "end" /\ h.name = "blank"
      BY <2>5 DEF EndOfHead
    <3>2. lines' = Append(headers', h)
      BY <2>0, <2>1, <3>1
    <3> QED
      BY <2>0, <2>2, <3>1, <3>2 DEF HeadRead, AddressAsked, Nominees, WellFormed, Options
  <2> QED
    BY <2>1, <2>3, <2>4, <2>5
<1> QED
  BY <1>1, <1>2, <1>3 DEF Next, vars, proxyVars

\* Both hold in every state.
LEMMA InvAlways == Spec => [](HeadRead /\ AddressAsked)
  BY InitInv, HeadStep, PTL DEF Spec

\* handleProxyAddress blocks exactly the documented spans: for every IPv4 and IPv6 address
\* and in each encoding, not only at the boundaries the run looks at.
THEOREM BlocksTheSpansAlways == Spec => []BlocksTheSpans
<1>1. AddressAsked => BlocksTheSpans
  BY BlockedIsSpan DEF AddressAsked, BlocksTheSpans
<1> QED
  BY <1>1, InvAlways, PTL

\* Unless the head was refused, headers holds the lines before the empty one.
LEMMA HeadIs ==
  ASSUME HeadRead, reading # "refused"
  PROVE  HeadOf(lines) = headers
<1>1. headers \in Seq(HeaderLines) /\ \A i \in DOMAIN headers : headers[i].name # "blank"
  BY DEF HeadRead, WellFormed
<1>2. CASE reading = "lines"
  BY <1>1, <1>2 DEF HeadRead, HeadOf
<1>3. CASE reading = "end"
  <2>1. PICK h \in HeaderLines : lines = Append(headers, h) /\ h.name = "blank"
    BY <1>3 DEF HeadRead
  <2> DEFINE n == Len(headers) + 1
             I == {i \in 1..Len(lines) : lines[i].name = "blank"}
  <2>2. /\ Len(lines) = n /\ DOMAIN lines = 1..n /\ lines[n] = h /\ n \in Nat /\ n \in 1..n
        /\ \A i \in 1..(n - 1) : lines[i] = headers[i] /\ i \in DOMAIN headers
    BY <1>1, <2>1
  <2>3. I = {n}
    <3>1. \A i \in 1..n : i = n \/ i \in 1..(n - 1)
      BY <2>2
    <3>2. \A i \in 1..(n - 1) : lines[i].name # "blank"
      BY <2>2, <1>1
    <3> HIDE DEF n
    <3> QED
      BY <2>1, <2>2, <3>1, <3>2
  <2>4. Min({n}) = n
    BY <2>2 DEF Min
  <2>5. SelectInSeq(lines, LAMBDA g : g.name = "blank") = n
    BY <2>3, <2>4 DEF SelectInSeq
  <2>6. HeadOf(lines) = SubSeq(lines, 1, n - 1)
    BY <2>1, <2>2, <2>5 DEF HeadOf
  <2>7. SubSeq(lines, 1, n - 1) = headers
    BY <1>1, <2>1
  <2> QED
    BY <2>6, <2>7
<1> QED
  BY <1>2, <1>3 DEF HeadRead

\* What IsSuffix of the community modules means for the positions of a host.
LEMMA SuffixIs ==
  ASSUME NEW S, NEW s \in Seq(S), NEW t \in Seq(S), IsSuffix(s, t)
  PROVE  /\ Len(s) <= Len(t)
         /\ SubSeq(t, Len(t) - Len(s) + 1, Len(t)) = s
<1> DEFINE m == Len(s)
           n == Len(t)
           q == SubSeq(t, n - m + 1, n)
<1>0. m \in Nat /\ n \in Nat
  OBVIOUS
<1>1. /\ Reverse(s) \in Seq(S) /\ Len(Reverse(s)) = m /\ \A i \in 1..m : Reverse(s)[i] = s[(m - i) + 1]
  BY DEF Reverse
<1>2. /\ Reverse(t) \in Seq(S) /\ Len(Reverse(t)) = n /\ \A i \in 1..n : Reverse(t)[i] = t[(n - i) + 1]
  BY DEF Reverse
<1>3. m <= n /\ SubSeq(Reverse(s), 1, m) = SubSeq(Reverse(t), 1, m)
  BY <1>1, <1>2 DEF IsSuffix, IsPrefix
<1>4. \A i \in 1..m : Reverse(s)[i] = Reverse(t)[i]
  <2> DEFINE a == Reverse(s)
             b == Reverse(t)
  <2> HIDE DEF a, b, m, n
  <2>1. a \in Seq(S) /\ Len(a) = m /\ b \in Seq(S) /\ Len(b) = n
    BY <1>1, <1>2 DEF a, b
  <2>2. SubSeq(a, 1, m) = SubSeq(b, 1, m) /\ m <= n
    BY <1>3 DEF a, b
  <2>3. \A i \in 1..m : SubSeq(a, 1, m)[i] = a[i] /\ SubSeq(b, 1, m)[i] = b[i]
    BY ONLY <2>1, <2>2, <1>0
  <2> QED
    BY <2>2, <2>3 DEF a, b
<1>5. \A i \in 1..m : s[(m - i) + 1] = t[(n - i) + 1]
  <2>1. \A i \in 1..m : i \in 1..n
    BY <1>0, <1>3
  <2> HIDE DEF m, n
  <2> QED
    BY ONLY <2>1, <1>1, <1>2, <1>4
<1>6. q \in Seq(S) /\ Len(q) = m /\ \A i \in 1..m : q[i] = t[(n - m) + i]
  <2>1. n - m + 1 \in 1..(n + 1) /\ t \in Seq(S) /\ Len(t) = n
    BY <1>0, <1>3
  <2> HIDE DEF m, n
  <2> QED
    BY <2>1, <1>0, <1>3
<1>7. \A i \in 1..m : q[i] = s[i]
  <2> TAKE i \in 1..m
  <2> DEFINE k == (m - i) + 1
  <2>1. k \in 1..m /\ (m - k) + 1 = i /\ (n - k) + 1 = (n - m) + i
    BY <1>0, <1>3
  <2> HIDE DEF k, q, m, n
  <2>2. s[(m - k) + 1] = t[(n - k) + 1]
    BY <2>1, <1>5
  <2> QED
    BY <2>1, <2>2, <1>6
<1>8. s \in Seq(S) /\ Len(s) = m
  OBVIOUS
<1> HIDE DEF q, m, n
<1>9. q = s
  BY ONLY <1>6, <1>7, <1>8, <1>0
<1> QED
  BY <1>3, <1>9 DEF q, m, n

\* A host that is allowed is an entry, or ends in one with a wildcard.
LEMMA HostIsListed ==
  ASSUME NEW host \in Seq(STRING), proxyHostAllowed(host)
  PROVE  \E e \in Allowlist, n \in 0..Len(host) :
            SubSeq(host, n + 1, Len(host)) = e.labels /\ (n > 0 => e.wild /\ e.labels # <<>>)
<1>1. PICK e \in Allowlist :
        host = e.labels \/ (e.wild /\ e.labels # <<>> /\ IsSuffix(e.labels, host))
  BY DEF proxyHostAllowed
<1>2. e.labels \in Seq(STRING)
  BY PolicyAssumption
<1>3. CASE host = e.labels
  <2>1. SubSeq(host, 0 + 1, Len(host)) = host /\ 0 \in 0..Len(host)
    OBVIOUS
  <2> QED
    BY <1>3, <2>1
<1>4. CASE e.wild /\ e.labels # <<>> /\ IsSuffix(e.labels, host)
  <2> DEFINE n == Len(host) - Len(e.labels)
  <2>1. Len(e.labels) <= Len(host) /\ SubSeq(host, Len(host) - Len(e.labels) + 1, Len(host)) = e.labels
    BY <1>2, <1>4, SuffixIs
  <2>2. Len(e.labels) \in Nat /\ Len(host) \in Nat
    BY <1>2
  <2>3. n \in 0..Len(host)
    BY <2>1, <2>2
  <2> QED
    BY <1>4, <2>1, <2>3
<1> QED
  BY <1>1, <1>3, <1>4

\* What classifyProxyRequestLine lets through, and in which form.
LEMMA Classified ==
  ASSUME NEW l \in RequestLines
  PROVE  LET v == classifyProxyRequestLine(l) IN
         /\ v.kind = "connect" =>
              l.version /\ v.host = l.host.labels /\ l.method = "CONNECT" /\ l.form = "authority"
         /\ v.kind = "absolute" =>
              l.version /\ v.host = l.host.labels /\ l.method # "CONNECT" /\ l.form = "http"
<1> DEFINE port == IF l.form = "http" /\ l.port = NoPort THEN 80 ELSE l.port
           host == copyProxyHost(l.host)
           good == parseProxyPort(port) /\ host # <<>>
           v == classifyProxyRequestLine(l)
           c1 == l.version /\ l.method = "CONNECT" /\ l.form = "authority" /\ good
           c2 == l.version /\ l.method # "CONNECT" /\ l.form = "path"
           c3 == l.version /\ l.method # "CONNECT" /\ l.form = "http" /\ good
<1>1. Invalid.kind = "invalid" /\ Verdict("api", <<>>, 0).kind = "api"
  BY DEF Invalid, Verdict
<1>2. /\ Verdict("connect", host, port).kind = "connect"
      /\ Verdict("connect", host, port).host = host
      /\ Verdict("absolute", host, port).kind = "absolute"
      /\ Verdict("absolute", host, port).host = host
  BY DEF Verdict
<1>h. c1 \/ c3 => host = l.host.labels
  BY DEF copyProxyHost
<1>3. v = CASE ~l.version -> Invalid
            [] c1 -> Verdict("connect", host, port)
            [] c2 -> Verdict("api", <<>>, 0)
            [] c3 -> Verdict("absolute", host, port)
            [] OTHER -> Invalid
  BY DEF classifyProxyRequestLine
<1>4. c1 => l.version /\ l.method = "CONNECT" /\ l.form = "authority"
  OBVIOUS
<1>5. c3 => l.version /\ l.method # "CONNECT" /\ l.form = "http"
  OBVIOUS
<1>6. (c1 => ~c2 /\ ~c3 /\ l.version) /\ (c2 => ~c3 /\ l.version) /\ (c3 => l.version)
  OBVIOUS
<1>v. l.version \in BOOLEAN
  BY PolicyAssumption
<1> HIDE DEF v, c1, c2, c3, port, host
<1>7. CASE c1
  <2>1. v = Verdict("connect", host, port)
    BY <1>3, <1>6, <1>7
  <2> QED
    BY <1>2, <1>4, <1>7, <1>h, <2>1 DEF v
<1>8. CASE c3
  <2>1. v = Verdict("absolute", host, port)
    BY <1>3, <1>6, <1>8
  <2> QED
    BY <1>2, <1>5, <1>8, <1>h, <2>1 DEF v
<1>9. CASE ~c1 /\ ~c3
  <2>1. v \in {Invalid, Verdict("api", <<>>, 0)}
    BY <1>3, <1>6, <1>9
  <2>2. v.kind \in {"invalid", "api"}
    BY <1>1, <2>1
  <2> QED
    BY <2>2 DEF v
<1> QED
  BY <1>7, <1>8, <1>9

\* For every allowlist, request line and head of any length: handleProxyRequest allows only
\* listed hosts and the two ports, and what it sends on of a head is exactly its end-to-end
\* fields.
THEOREM ForwardsEndToEndAlways == Spec => []ForwardsEndToEnd
<1>1. ASSUME HeadRead PROVE ForwardsEndToEnd
  <2> DEFINE v == classifyProxyRequestLine(line)
             permitted == /\ v.kind \in {"connect", "absolute"}
                          /\ proxyPortAllowed(v.port) /\ proxyHostAllowed(v.host)
             rewritten == line.eol /\ reading # "refused"
             absolute == v.kind = "absolute"
             answer == handleProxyRequest
             head == HeadOf(lines)
  <2>a. /\ answer.host = v.host /\ answer.port = v.port
        /\ answer.allowed = (permitted /\ (absolute => rewritten))
        /\ answer.forward = IF permitted /\ absolute /\ rewritten THEN Forwarded ELSE NoHead
    BY DEF handleProxyRequest
  <2>l. line \in RequestLines
    BY <1>1 DEF HeadRead
  <2>c. /\ v.kind = "connect" =>
             line.version /\ v.host = line.host.labels /\ line.method = "CONNECT" /\ line.form = "authority"
        /\ v.kind = "absolute" =>
             line.version /\ v.host = line.host.labels /\ line.method # "CONNECT" /\ line.form = "http"
    BY <2>l, Classified
  <2> HIDE DEF v, answer
  <2>1. ASSUME answer.allowed
        PROVE  /\ answer.host = line.host.labels
               /\ \E e \in Allowlist, n \in 0..Len(answer.host) :
                    /\ SubSeq(answer.host, n + 1, Len(answer.host)) = e.labels
                    /\ n > 0 => e.wild /\ e.labels # <<>>
               /\ answer.port \in {80, 443} /\ line.version /\ line.form \in {"http", "authority"}
               /\ line.method = "CONNECT" => answer.forward = NoHead
    <3>1. permitted
      BY <2>1, <2>a
    <3>2. v.host = line.host.labels /\ line.host.labels \in Seq(STRING)
      BY <3>1, <2>c, <2>l, PolicyAssumption
    <3>3. answer.host \in Seq(STRING) /\ proxyHostAllowed(answer.host)
      BY <3>1, <3>2, <2>a
    <3>4. answer.port \in {80, 443}
      BY <3>1, <2>a DEF proxyPortAllowed
    <3>5. line.version /\ line.form \in {"http", "authority"}
      BY <3>1, <2>c
    <3>6. line.method = "CONNECT" => answer.forward = NoHead
      BY <2>a, <2>c
    <3> QED
      BY <2>a, <3>2, <3>3, <3>4, <3>5, <3>6, HostIsListed
  <2>2. ASSUME answer.forward # NoHead
        PROVE  /\ answer.allowed /\ line.eol
               /\ \A i \in DOMAIN head : ({head[i].name} \cup Options(head[i])) \cap {"", "bad"} = {}
               /\ answer.forward = EndToEnd(head, Nominees(head))
    <3>1. permitted /\ absolute /\ rewritten /\ answer.forward = Forwarded
      BY <2>2, <2>a
    <3>2. head = headers
      BY <1>1, <3>1, HeadIs
    <3>3. answer.forward = EndToEnd(head, Nominees(head))
      BY <1>1, <3>1, <3>2 DEF HeadRead, Forwarded
    <3>4. \A i \in DOMAIN head : WellFormed(head[i])
      BY <1>1, <3>2 DEF HeadRead
    <3> HIDE DEF head
    <3>5. \A i \in DOMAIN head : ({head[i].name} \cup Options(head[i])) \cap {"", "bad"} = {}
      BY <3>4 DEF WellFormed, ValidHeaderName
    <3>6. answer.allowed /\ line.eol
      BY <3>1, <2>a
    <3> QED
      BY <3>3, <3>5, <3>6
  <2> HIDE DEF head
  <2> QED
    BY <2>1, <2>2 DEF ForwardsEndToEnd, answer, head, Options, Nominees
<1> QED
  BY <1>1, InvAlways, PTL

(***************************************************************************)
(* ParseApt finds only what is installed.                                  *)
(***************************************************************************)
\* Since word i, an apt, no operator has come.
Apt(i) ==
  /\ i \in 1..Len(cmd) /\ CommandWord(cmd[i])
  /\ \A j \in i..Len(cmd) : ~isOperator(cmd[j])

\* Word s, behind the apt i, is install.
Install(i, s) == Apt(i) /\ s \in (i + 1)..Len(cmd) /\ cmd[s] = "install"

\* Behind word e, which takes no value, only options have come that take one.
Trailing(e) ==
  /\ e \in 1..Len(cmd) /\ ~aptOptionTakesArg(cmd[e])
  /\ \A j \in (e + 1)..Len(cmd) : aptOptionTakesArg(cmd[j])

\* The last word is a value or takes none, and the last word takes one.
ValueTaken == \E e, r \in Nat : Trailing(e) /\ Len(cmd) = e + 2 * r
ValueWanted == \E e, r \in Nat : Trailing(e) /\ Len(cmd) = e + 2 * r + 1

\* What the mode says of the words before it.
ModeKnows ==
  /\ mode \in {"apt", "aptArg"} => \E i \in Nat : Apt(i)
  /\ mode \in {"install", "installArg"} => \E i, s \in Nat : Install(i, s)
  /\ mode \in {"apt", "install"} => ValueTaken
  /\ mode \in {"aptArg", "installArg"} => ValueWanted
  /\ mode # "full" => Len(found) < max

AptRead ==
  /\ cmd \in Seq(Word) /\ found \in Seq(STRING)
  /\ ModeKnows /\ LearnsOnlyInstalls

\* One more word leaves the words before it where they are.
LEMMA WordsStay ==
  ASSUME AptRead, NEW w \in Word, cmd' = Append(cmd, w)
  PROVE  /\ cmd' \in Seq(Word) /\ Len(cmd') = Len(cmd) + 1 /\ cmd'[Len(cmd) + 1] = w
         /\ \A i \in 1..Len(cmd) : cmd'[i] = cmd[i] /\ i \in 1..Len(cmd')
         /\ Len(cmd) \in Nat
  BY DEF AptRead

\* An apt and an install before it stay what they are until an operator comes.
LEMMA AptStays ==
  ASSUME AptRead, NEW w \in Word, cmd' = Append(cmd, w), ~isOperator(w)
  PROVE  /\ \A i \in Nat : Apt(i) => Apt(i)'
         /\ \A i, s \in Nat : Install(i, s) => Install(i, s)'
<1>1. ASSUME NEW i \in Nat, Apt(i) PROVE Apt(i)'
  <2>1. i \in 1..Len(cmd') /\ cmd'[i] = cmd[i]
    BY <1>1, WordsStay DEF Apt
  <2>2. ASSUME NEW j \in i..Len(cmd') PROVE ~isOperator(cmd'[j])
    <3>1. j = Len(cmd) + 1 \/ (j \in i..Len(cmd) /\ j \in 1..Len(cmd))
      BY <1>1, WordsStay DEF Apt
    <3> QED
      BY <1>1, <3>1, WordsStay DEF Apt
  <2> QED
    BY <1>1, <2>1, <2>2 DEF Apt, CommandWord
<1>2. ASSUME NEW i \in Nat, NEW s \in Nat, Install(i, s) PROVE Install(i, s)'
  <2>1. s \in (i + 1)..Len(cmd') /\ cmd'[s] = "install"
    BY <1>2, WordsStay DEF Install, Apt
  <2> QED
    BY <1>1, <1>2, <2>1 DEF Install
<1> QED
  BY <1>1, <1>2

\* What was installed stays so.
LEMMA InstallsStay ==
  ASSUME AptRead, NEW w \in Word, cmd' = Append(cmd, w), NEW k \in DOMAIN cmd, Installs(cmd, k)
  PROVE  k \in DOMAIN cmd' /\ cmd'[k] = cmd[k] /\ Installs(cmd', k)
<1>1. k \in 1..Len(cmd) /\ DOMAIN cmd' = 1..Len(cmd') /\ k \in 1..Len(cmd') /\ cmd'[k] = cmd[k]
  BY WordsStay DEF AptRead
<1>2. \A j \in 1..k : cmd'[j] = cmd[j]
  <2>1. \A j \in 1..k : j \in 1..Len(cmd)
    BY <1>1, WordsStay
  <2> QED
    BY <2>1, WordsStay
<1>3. NoValue(cmd, k) => NoValue(cmd', k)
  <2> SUFFICES ASSUME NEW e \in 1..(k - 1), ~aptOptionTakesArg(cmd[e]),
                      \A j \in (e + 1)..(k - 1) : aptOptionTakesArg(cmd[j])
               PROVE  ~aptOptionTakesArg(cmd'[e]) /\ \A j \in (e + 1)..(k - 1) : aptOptionTakesArg(cmd'[j])
    BY DEF NoValue
  <2>1. e \in 1..k /\ \A j \in (e + 1)..(k - 1) : j \in 1..k
    BY <1>1
  <2> QED
    BY <1>2, <2>1
<1>4. PICK i \in 1..(k - 1) : \E s \in (i + 1)..(k - 1) :
        /\ CommandWord(cmd[i]) /\ cmd[s] = "install" /\ \A j \in i..k : ~isOperator(cmd[j])
        /\ cmd[k] \notin Flag \cup Slashed /\ NameOf[cmd[k]] \in ValidName /\ NoValue(cmd, k)
  BY DEF Installs
<1>5. PICK s \in (i + 1)..(k - 1) :
        /\ CommandWord(cmd[i]) /\ cmd[s] = "install" /\ \A j \in i..k : ~isOperator(cmd[j])
        /\ cmd[k] \notin Flag \cup Slashed /\ NameOf[cmd[k]] \in ValidName /\ NoValue(cmd, k)
  BY <1>4
<1>6. i \in 1..k /\ s \in 1..k /\ \A j \in i..k : j \in 1..k
  BY <1>1
<1>7. /\ CommandWord(cmd'[i]) /\ cmd'[s] = "install" /\ \A j \in i..k : ~isOperator(cmd'[j])
      /\ cmd'[k] \notin Flag \cup Slashed /\ NameOf[cmd'[k]] \in ValidName /\ NoValue(cmd', k)
  BY <1>1, <1>2, <1>3, <1>5, <1>6
<1>8. Installs(cmd', k)
  BY <1>7 DEF Installs
<1> QED
  BY <1>1, <1>8

\* A word that takes no value is the last of its kind; one that takes a value follows it.
LEMMA TrailingStep ==
  ASSUME AptRead, NEW w \in Word, cmd' = Append(cmd, w)
  PROVE  /\ ~aptOptionTakesArg(w) => \A l \in Nat : l = Len(cmd) + 1 => Trailing(l)'
         /\ aptOptionTakesArg(w) => \A e \in Nat : Trailing(e) => Trailing(e)'
<1>1. ASSUME ~aptOptionTakesArg(w), NEW l \in Nat, l = Len(cmd) + 1 PROVE Trailing(l)'
  BY <1>1, WordsStay DEF Trailing
<1>2. ASSUME aptOptionTakesArg(w), NEW e \in Nat, Trailing(e) PROVE Trailing(e)'
  <2>1. e \in 1..Len(cmd) /\ e \in 1..Len(cmd') /\ ~aptOptionTakesArg(cmd'[e])
    BY <1>2, WordsStay DEF Trailing
  <2>2. ASSUME NEW j \in (e + 1)..Len(cmd') PROVE aptOptionTakesArg(cmd'[j])
    <3>1. j = Len(cmd) + 1 \/ (j \in (e + 1)..Len(cmd) /\ j \in 1..Len(cmd))
      BY <2>1, WordsStay
    <3> QED
      BY <1>2, <3>1, WordsStay DEF Trailing
  <2> QED
    BY <2>1, <2>2 DEF Trailing
<1> QED
  BY <1>1, <1>2

\* Options with a value and the values behind them take turns.
LEMMA ValueStep ==
  ASSUME AptRead, NEW w \in Word, cmd' = Append(cmd, w)
  PROVE  /\ ~aptOptionTakesArg(w) \/ ValueWanted => ValueTaken'
         /\ aptOptionTakesArg(w) /\ ValueTaken => ValueWanted'
<1>0. Len(cmd) \in Nat /\ Len(cmd') = Len(cmd) + 1
  BY WordsStay
<1>1. ASSUME ~aptOptionTakesArg(w) PROVE ValueTaken'
  <2>1. PICK l \in Nat : l = Len(cmd) + 1
    BY <1>0
  <2>2. Trailing(l)' /\ Len(cmd') = l + 2 * 0
    BY <1>0, <1>1, <2>1, TrailingStep
  <2> QED
    BY <2>2 DEF ValueTaken
<1>2. ASSUME aptOptionTakesArg(w), ValueWanted PROVE ValueTaken'
  <2>1. PICK e \in Nat, r \in Nat : Trailing(e) /\ Len(cmd) = e + 2 * r + 1
    BY <1>2 DEF ValueWanted
  <2>2. Trailing(e)' /\ r + 1 \in Nat /\ Len(cmd') = e + 2 * (r + 1)
    BY <1>0, <1>2, <2>1, TrailingStep
  <2> QED
    BY <2>2 DEF ValueTaken
<1>3. ASSUME aptOptionTakesArg(w), ValueTaken PROVE ValueWanted'
  <2>1. PICK e \in Nat, r \in Nat : Trailing(e) /\ Len(cmd) = e + 2 * r
    BY <1>3 DEF ValueTaken
  <2>2. Trailing(e)' /\ Len(cmd') = e + 2 * r + 1
    BY <1>0, <1>3, <2>1, TrailingStep
  <2> QED
    BY <2>2 DEF ValueWanted
<1> QED
  BY <1>1, <1>2, <1>3

\* A word that adds no name.
LEMMA NothingFound ==
  ASSUME AptRead, NEW w \in Word, cmd' = Append(cmd, w), found' = found
  PROVE  LearnsOnlyInstalls'
<1>1. ASSUME NEW n \in DOMAIN found'
      PROVE  \E k \in DOMAIN cmd' : Installs(cmd', k) /\ found'[n] = NameOf[cmd'[k]]
  <2>1. PICK k \in DOMAIN cmd : Installs(cmd, k) /\ found[n] = NameOf[cmd[k]]
    BY <1>1 DEF AptRead, LearnsOnlyInstalls
  <2> QED
    BY <2>1, InstallsStay
<1> QED
  BY <1>1 DEF AptRead, LearnsOnlyInstalls

\* A word taken for a package is one.
LEMMA PackageFound ==
  ASSUME AptRead, NEW w \in Word, cmd' = Append(cmd, w), Package(w)
  PROVE  LearnsOnlyInstalls' /\ found' \in Seq(STRING) /\ Len(found') <= max
<1>1. CASE found' = found
  BY <1>1, NothingFound DEF AptRead, LearnsOnlyInstalls
<1>2. CASE found' # found
  <2> DEFINE l == Len(cmd) + 1
             d == Len(found) + 1
  <2>1. /\ mode = "install" /\ w \notin Flag /\ ~isOperator(w)
        /\ w \notin Slashed /\ NameOf[w] \in ValidName /\ ~Contains(found, NameOf[w])
        /\ found' = Append(found, NameOf[w])
    BY <1>2 DEF Package
  <2>2. /\ found \in Seq(STRING) /\ NameOf[w] \in STRING /\ Len(found) < max /\ Len(found) \in Nat
        /\ max \in Nat /\ cmd \in Seq(Word)
    BY <2>1, ParserAssumption DEF AptRead, ModeKnows
  <2>3. /\ found' \in Seq(STRING) /\ Len(found') = d /\ DOMAIN found' = 1..d /\ DOMAIN found = 1..Len(found)
        /\ found'[d] = NameOf[w] /\ \A n \in 1..Len(found) : found'[n] = found[n]
    BY <2>1, <2>2
  <2>4. PICK i \in Nat, s \in Nat : Install(i, s)
    BY <2>1 DEF AptRead, ModeKnows
  <2>5. Install(i, s)'
    BY <2>1, <2>4, AptStays
  <2>6. /\ Len(cmd) \in Nat /\ Len(cmd') = l /\ l \in DOMAIN cmd' /\ cmd'[l] = w
        /\ i \in 1..(l - 1) /\ s \in (i + 1)..(l - 1)
        /\ l - 1 = Len(cmd)
    BY <2>2, <2>4, WordsStay DEF Install, Apt
  <2>7. /\ CommandWord(cmd'[i]) /\ cmd'[s] = "install" /\ \A j \in i..l : ~isOperator(cmd'[j])
    BY <2>5, <2>6 DEF Install, Apt, CommandWord
  <2>8. NoValue(cmd', l)
    <3>1. PICK e \in Nat, r \in Nat : Trailing(e) /\ Len(cmd) = e + 2 * r
      BY <2>1 DEF AptRead, ModeKnows, ValueTaken
    <3>2. e \in 1..(l - 1) /\ r \in 0..l /\ l = e + 2 * r + 1 /\ e \in 1..Len(cmd)
      BY <2>6, <3>1 DEF Trailing
    <3>3. cmd'[e] = cmd[e] /\ \A j \in (e + 1)..(l - 1) : cmd'[j] = cmd[j]
      BY <2>6, <3>2, WordsStay
    <3>4. ~aptOptionTakesArg(cmd'[e]) /\ \A j \in (e + 1)..(l - 1) : aptOptionTakesArg(cmd'[j])
      BY <2>6, <3>1, <3>3 DEF Trailing
    <3> HIDE DEF l
    <3> QED
      BY <3>2, <3>4 DEF NoValue
  <2>9. Installs(cmd', l) /\ found'[d] = NameOf[cmd'[l]]
    <3>1. cmd'[l] \notin Flag \cup Slashed /\ NameOf[cmd'[l]] \in ValidName /\ found'[d] = NameOf[cmd'[l]]
      BY <2>1, <2>3, <2>6
    <3> HIDE DEF l, d
    <3> QED
      BY <2>6, <2>7, <2>8, <3>1 DEF Installs
  <2> HIDE DEF l
  <2>10. ASSUME NEW n \in DOMAIN found'
         PROVE  \E k \in DOMAIN cmd' : Installs(cmd', k) /\ found'[n] = NameOf[cmd'[k]]
    <3>1. CASE n = d
      BY <2>6, <2>9, <3>1
    <3>2. CASE n \in DOMAIN found
      <4>1. PICK k \in DOMAIN cmd : Installs(cmd, k) /\ found[n] = NameOf[cmd[k]]
        BY <3>2 DEF AptRead, LearnsOnlyInstalls
      <4>2. found'[n] = found[n]
        BY <2>3, <3>2
      <4> QED
        BY <4>1, <4>2, InstallsStay
    <3> QED
      BY <2>2, <2>3, <3>1, <3>2
  <2>11. ASSUME NEW n \in DOMAIN found', NEW m \in DOMAIN found', found'[n] = found'[m] PROVE n = m
    <3>1. \A x \in DOMAIN found : found[x] # NameOf[w]
      BY <2>1, <2>3 DEF Contains
    <3>2. \A x, y \in DOMAIN found : found[x] = found[y] => x = y
      BY DEF AptRead, LearnsOnlyInstalls
    <3>3. /\ n = d \/ (n \in DOMAIN found /\ found'[n] = found[n])
          /\ m = d \/ (m \in DOMAIN found /\ found'[m] = found[m])
      BY <2>2, <2>3
    <3> QED
      BY <2>3, <2>11, <3>1, <3>2, <3>3
  <2>12. Len(found') <= max
    BY <2>2, <2>3
  <2> QED
    BY <2>3, <2>10, <2>11, <2>12 DEF LearnsOnlyInstalls
<1> QED
  BY <1>1, <1>2

\* Every word keeps what the parser knows.
LEMMA WordRead ==
  ASSUME AptRead, NEW w \in Word, ReadWord(w)
  PROVE  AptRead'
<1>1. cmd' = Append(cmd, w) /\ cmd' \in Seq(Word) /\ Len(cmd') = Len(cmd) + 1 /\ cmd'[Len(cmd')] = w
  BY WordsStay DEF ReadWord
<1>0. PICK l \in Nat : l = Len(cmd) + 1 /\ Len(cmd') = l
  BY <1>1, WordsStay
<1>2. /\ ~isOperator(w) =>
           /\ (\E i \in Nat : Apt(i)) => \E i \in Nat : Apt(i)'
           /\ (\E i, s \in Nat : Install(i, s)) => \E i, s \in Nat : Install(i, s)'
  BY <1>1, AptStays
<1>3. ModeKnows
  BY DEF AptRead
<1>4. ASSUME UNCHANGED found, mode' \in {"start", "skip"}, mode # "full" PROVE AptRead'
  BY <1>1, <1>3, <1>4, NothingFound DEF AptRead, ModeKnows
<1>5. CASE StartWord(w)
  <2>1. CASE mode' = "apt"
    <3>1. CommandWord(w) /\ ~isOperator(w)
      BY <1>5, <2>1 DEF StartWord, CommandWord, isOperator
    <3>2. Apt(l)'
      BY <1>0, <1>1, <3>1, WordsStay DEF Apt
    <3>3. Len(found) < max
      BY <1>3, <1>5 DEF ModeKnows, StartWord
    <3>4. ~aptOptionTakesArg(w)
      BY <3>1 DEF CommandWord, aptOptionTakesArg
    <3> QED
      BY <1>1, <1>5, <2>1, <3>2, <3>3, <3>4, NothingFound, ValueStep DEF AptRead, ModeKnows, StartWord
  <2> QED
    BY <1>4, <1>5, <2>1 DEF StartWord
<1>6. CASE SkipWord(w)
  BY <1>4, <1>6 DEF SkipWord
<1>7. CASE EndWord(w)
  BY <1>4, <1>7 DEF EndWord
<1>8. CASE OptionValue(w)
  BY <1>1, <1>2, <1>3, <1>8, NothingFound, ValueStep DEF AptRead, ModeKnows, OptionValue
<1>9. CASE Option(w)
  <2>1. ~isOperator(w)
    BY <1>9, ParserAssumption DEF Option
  <2> QED
    BY <1>1, <1>2, <1>3, <1>9, <2>1, NothingFound, ValueStep
    DEF AptRead, ModeKnows, Option, ValueOf
<1>10. CASE Subcommand(w)
  <2>1. CASE w = "install"
    <3>1. PICK i \in Nat : Apt(i)
      BY <1>3, <1>10 DEF ModeKnows, Subcommand
    <3>2. Apt(i)' /\ l \in (i + 1)..Len(cmd')
      BY <1>0, <1>1, <1>10, <3>1, AptStays, WordsStay DEF Apt, Subcommand
    <3>3. Install(i, l)'
      BY <1>0, <1>1, <2>1, <3>2 DEF Install
    <3>4. ~aptOptionTakesArg(w)
      BY <2>1 DEF aptOptionTakesArg
    <3> QED
      BY <1>1, <1>3, <1>10, <2>1, <3>2, <3>3, <3>4, NothingFound, ValueStep
      DEF AptRead, ModeKnows, Subcommand
  <2> QED
    BY <1>4, <1>10, <2>1 DEF Subcommand
<1>11. CASE Package(w)
  <2>1. LearnsOnlyInstalls' /\ found' \in Seq(STRING) /\ Len(found') <= max
    BY <1>1, <1>11, PackageFound
  <2>2. mode' # "full" => Len(found') < max
    BY <1>11, <2>1, ParserAssumption DEF Package
  <2>3. ~aptOptionTakesArg(w)
    BY <1>11, ParserAssumption DEF Package
  <2> QED
    BY <1>1, <1>2, <1>3, <1>11, <2>1, <2>2, <2>3, ValueStep DEF AptRead, ModeKnows, Package
<1>12. CASE IgnoredWord(w)
  BY <1>1, <1>12, NothingFound DEF AptRead, ModeKnows, IgnoredWord
<1> QED
  BY <1>5, <1>6, <1>7, <1>8, <1>9, <1>10, <1>11, <1>12 DEF ReadWord

\* For every command and every max, ParseApt learns only words that an apt and an install in
\* the same command stand before, no option and no option's value, each name once and at
\* most max of them; also where its loop resumes inside a command.
THEOREM LearnsOnlyInstallsAlways == Spec => []LearnsOnlyInstalls
<1>1. Init => AptRead
  BY ParserAssumption DEF Init, AptInit, AptRead, ModeKnows, LearnsOnlyInstalls
<1>2. AptRead /\ [Next]_vars => AptRead'
  <2> SUFFICES ASSUME AptRead, [Next]_vars PROVE AptRead'
    OBVIOUS
  <2>1. CASE AptNext
    BY <2>1, WordRead DEF AptNext
  <2>2. CASE UNCHANGED aptVars
    BY <2>2
    DEF aptVars, AptRead, ModeKnows, LearnsOnlyInstalls, Apt, Install, Trailing, ValueTaken, ValueWanted
  <2> QED
    BY <2>1, <2>2 DEF Next, vars
<1>3. AptRead => LearnsOnlyInstalls
  BY DEF AptRead
<1> QED
  BY <1>1, <1>2, <1>3, PTL DEF Spec

=============================================================================
