----------------------------- MODULE ProxyPolicy -----------------------------
(***************************************************************************)
(* The decisions of the package proxy (server-go/modules/sandbox/          *)
(* proxy_policy.go): which request may be forwarded and as what, and which *)
(* resolved address may be dialled.                                        *)
(*                                                                         *)
(* A request is its request line and its header lines, which come in one   *)
(* by one; names stand for their lower-case form.  A request line says how *)
(* its target is written and what host and port it carries.  A host is the *)
(* sequence of its labels, in a request line also whether it stands in     *)
(* square brackets; an address is the sequence of its bytes.               *)
(***************************************************************************)
EXTENDS Integers, Sequences, SequencesExt

CONSTANTS
  RequestLines,  \* request lines: method, form, host, port, a version that is known, and
                 \* whether the three parts stand before the first end of line (eol)
  HeaderLines,   \* header lines: name and, for a Connection header, one or more options
  MaxLines,      \* bound: header lines of a request
  Allowlist,     \* entries of the allowlist: labels, and whether "*." precedes them
  BadHost,       \* hosts that are too long or have a character copyProxyHost refuses
  Addresses,     \* the addresses that may be asked about
  NoPort,        \* the target has no port
  BadPort,       \* its port text is not a number
  NoHead,        \* the empty ForwardHead
  NoAddress      \* net.ParseIP could not read it

ASSUME PolicyAssumption ==
  /\ \A l \in RequestLines :
       /\ l.host \in [labels: Seq(STRING), bracketed: BOOLEAN]
       /\ l.version \in BOOLEAN /\ l.eol \in BOOLEAN
  /\ \A e \in Allowlist : e.labels \in Seq(STRING) /\ e.wild \in BOOLEAN
  /\ \A a \in Addresses : a \in Seq(0..255) /\ Len(a) \in {4, 16}
  /\ NoAddress \notin Addresses

VARIABLES
  line,       \* the request line
  lines,      \* history: the header lines read
  headers,    \* rewriteProxyHead's headers
  nominated,  \* its connectionHeaders
  reading,    \* "lines", "end" behind the empty line, or "refused"
  addr        \* the address asked about

proxyVars == <<line, lines, headers, nominated, reading, addr>>

(***************************************************************************)
(* The request line.                                                       *)
(***************************************************************************)
proxyPortAllowed(port) == port \in {80, 443}

parseProxyPort(port) == port \notin {NoPort, BadPort} /\ port \in 1..65535

\* The host of a request line without its brackets; nothing is left of a text that is refused.
copyProxyHost(text) == IF text.labels \in BadHost THEN <<>> ELSE text.labels

\* A wildcard stands for its domain and for what has at least one character in front of it; an
\* empty one is skipped (one of proxyHostMax bytes too, which no host is long enough to match).
proxyHostAllowed(host) ==
  /\ host # <<>>
  /\ \E e \in Allowlist :
       \/ host = e.labels
       \/ e.wild /\ e.labels # <<>> /\ IsSuffix(e.labels, host) /\ host # <<"">> \o e.labels

Verdict(kind, host, port) == [kind |-> kind, host |-> host, port |-> port]
Invalid == Verdict("invalid", <<>>, 0)

\* A target in absolute form may leave the port out.
classifyProxyRequestLine(l) ==
  LET port == IF l.form = "http" /\ l.port = NoPort THEN 80 ELSE l.port
      host == copyProxyHost(l.host)
      good == parseProxyPort(port) /\ host # <<>> IN
  CASE ~l.version                                          -> Invalid
    [] l.version /\ l.method = "CONNECT" /\ l.form = "authority" /\ good
                                                           -> Verdict("connect", host, port)
    [] l.version /\ l.method # "CONNECT" /\ l.form = "path" -> Verdict("api", <<>>, 0)
    [] l.version /\ l.method # "CONNECT" /\ l.form = "http" /\ good
                                                           -> Verdict("absolute", host, port)
    [] OTHER                                               -> Invalid

(***************************************************************************)
(* rewriteProxyHead: one round of its loop over the header lines.          *)
(***************************************************************************)
\* proxyHeaderShouldStrip: hop-by-hop fields and credentials.
ShouldStrip == {"connection", "proxy-connection", "keep-alive", "transfer-encoding", "te",
                "trailer", "upgrade", "authorization", "proxy-authorization", "cookie"}

\* validProxyHeaderName, for names and for connection options.
ValidHeaderName(n) == n # "" /\ n # "bad"

Nominates(h) == h.name \in {"connection", "proxy-connection"}

ReadHeader(h) ==
  /\ reading = "lines" /\ h.name # "blank" /\ ValidHeaderName(h.name)
  /\ Nominates(h) => \A o \in h.options : ValidHeaderName(o)
  /\ headers' = Append(headers, h)
  /\ nominated' = IF Nominates(h) THEN nominated \cup h.options ELSE nominated
  /\ UNCHANGED reading

RefuseHeader(h) ==
  /\ reading = "lines" /\ h.name # "blank"
  /\ ~ValidHeaderName(h.name) \/ (Nominates(h) /\ \E o \in h.options : ~ValidHeaderName(o))
  /\ reading' = "refused"
  /\ UNCHANGED <<headers, nominated>>

\* The empty line; what follows is not looked at.
EndOfHead(h) ==
  /\ reading = "lines" /\ h.name = "blank"
  /\ reading' = "end"
  /\ UNCHANGED <<headers, nominated>>

\* Mutant: fields are emitted as they are read, with the options seen up to then.
ForwardedSoFar ==
  SelectSeq(headers, LAMBDA h : h.name \notin ShouldStrip
                       /\ ~\E i, j \in DOMAIN headers :
                            /\ headers[j] = h /\ i < j
                            /\ Nominates(headers[i]) /\ h.name \in headers[i].options)

\* The fields of fs that are passed on when the given names are nominated.
EndToEnd(fs, names) == SelectSeq(fs, LAMBDA h : h.name \notin ShouldStrip \cup names)

\* What is emitted before the closing "Connection: close".
Forwarded == EndToEnd(headers, nominated)

ReadLine ==
  /\ Len(lines) < MaxLines /\ reading = "lines"
  /\ \E h \in HeaderLines :
       /\ ReadHeader(h) \/ RefuseHeader(h) \/ EndOfHead(h)
       /\ lines' = Append(lines, h)
  /\ UNCHANGED <<line, addr>>

\* handleProxyRequest, for the head read so far.
handleProxyRequest ==
  LET v == classifyProxyRequestLine(line)
      permitted == /\ v.kind \in {"connect", "absolute"}
                   /\ proxyPortAllowed(v.port) /\ proxyHostAllowed(v.host)
      rewritten == line.eol /\ reading # "refused"
      absolute == v.kind = "absolute"
  IN [kind |-> v.kind, host |-> v.host, port |-> v.port,
      allowed |-> permitted /\ (absolute => rewritten),
      forward |-> IF permitted /\ absolute /\ rewritten THEN Forwarded ELSE NoHead]

(***************************************************************************)
(* Addresses.                                                              *)
(***************************************************************************)
\* The ranges of ipv4Blocked: network and number of bits.
Ranges ==
  {<<<<0, 0, 0, 0>>, 8>>, <<<<10, 0, 0, 0>>, 8>>, <<<<100, 64, 0, 0>>, 10>>,
   <<<<127, 0, 0, 0>>, 8>>, <<<<169, 254, 0, 0>>, 16>>, <<<<172, 16, 0, 0>>, 12>>,
   <<<<192, 0, 0, 0>>, 24>>, <<<<192, 0, 2, 0>>, 24>>, <<<<192, 168, 0, 0>>, 16>>,
   <<<<198, 18, 0, 0>>, 15>>, <<<<198, 51, 100, 0>>, 24>>, <<<<203, 0, 113, 0>>, 24>>,
   <<<<224, 0, 0, 0>>, 4>>, <<<<240, 0, 0, 0>>, 4>>}

\* The bits of byte k that a mask of the given number of bits keeps.
KeptBits(bits, k) ==
  IF bits >= 8 * k THEN 8 ELSE IF bits <= 8 * (k - 1) THEN 0 ELSE bits - 8 * (k - 1)

\* address & mask == network; a network has no bits behind its mask.
ipv4Blocked(a) ==
  \E r \in Ranges : \A k \in 1..4 :
    LET unit == 2^(8 - KeptBits(r[2], k)) IN a[k] \div unit = r[1][k] \div unit

Zeros(n) == [i \in 1..n |-> 0]
Mapped  == Zeros(10) \o <<255, 255>>
Nat64   == <<0, 100, 255, 155>> \o Zeros(8)

\* To4 turns a mapped address into the IPv4 address in it.
To4(a) == IF Len(a) = 16 /\ SubSeq(a, 1, 12) = Mapped THEN SubSeq(a, 13, 16) ELSE a

ipv6Reserved(a) ==
  \/ SubSeq(a, 1, 15) = Zeros(15) /\ a[16] \in {0, 1}
  \/ a[1] \in {252, 253}
  \/ a[1] = 254 /\ a[2] \div 64 = 2
  \/ a[1] = 255

\* Mutant: 6to4 is looked for at the place where NAT64 has its IPv4 address.
proxyIPBlocked6to4Tail(ip) ==
  IF ip = NoAddress THEN TRUE
  ELSE LET a == To4(ip) IN
       IF Len(a) = 4 THEN ipv4Blocked(a)
       ELSE IF SubSeq(a, 1, 2) = <<32, 2>> \/ SubSeq(a, 1, 12) = Nat64
       THEN ipv4Blocked(SubSeq(a, 13, 16))
       ELSE ipv6Reserved(a)

\* Compatible, NAT64 and 6to4 addresses are as good as the IPv4 address in them.
proxyIPBlocked(ip) ==
  IF ip = NoAddress THEN TRUE
  ELSE LET a == To4(ip) IN
       IF Len(a) = 4 THEN ipv4Blocked(a)
       ELSE LET compat == SubSeq(a, 1, 12) = Zeros(12) /\ SubSeq(a, 13, 16) # Zeros(4) IN
            IF compat \/ SubSeq(a, 1, 12) = Nat64 THEN ipv4Blocked(SubSeq(a, 13, 16))
            ELSE IF SubSeq(a, 1, 2) = <<32, 2>> THEN ipv4Blocked(SubSeq(a, 3, 6))
            ELSE ipv6Reserved(a)

ProxyInit ==
  /\ line \in RequestLines
  /\ lines = <<>> /\ headers = <<>> /\ nominated = {} /\ reading = "lines"
  /\ addr = NoAddress

\* handleProxyAddress is asked about an address.
AskAddress ==
  /\ addr = NoAddress
  /\ addr' \in Addresses
  /\ UNCHANGED <<line, lines, headers, nominated, reading>>

(***************************************************************************)
(* Properties.                                                             *)
(***************************************************************************)
\* The lines up to the empty one.
HeadOf(ls) ==
  IF \E i \in DOMAIN ls : ls[i].name = "blank"
  THEN SubSeq(ls, 1, SelectInSeq(ls, LAMBDA h : h.name = "blank") - 1) ELSE ls

\* A request that may pass has an allowed host and port, the host being the one it names, with
\* or without brackets, and a wildcard of the allowlist no empty one; what is sent on of a head is
\* exactly its end-to-end fields in their order: a field is missing iff it is hop-by-hop, a
\* credential, or nominated by a Connection header anywhere in the head, also behind it.  A
\* head with a malformed field or option is not sent on.
ForwardsEndToEnd ==
  LET answer == handleProxyRequest
      head == HeadOf(lines)
      options(h) == IF Nominates(h) THEN h.options ELSE {}
      nominees == UNION {options(head[i]) : i \in DOMAIN head}
  IN /\ answer.allowed =>
          /\ answer.host = line.host.labels
          /\ \E e \in Allowlist, n \in 0..Len(answer.host) :
               /\ SubSeq(answer.host, n + 1, Len(answer.host)) = e.labels
               /\ n > 0 => e.wild /\ e.labels # <<>>
          /\ answer.port \in {80, 443} /\ line.version /\ line.form \in {"http", "authority"}
          /\ line.method = "CONNECT" => answer.forward = NoHead
     /\ answer.forward # NoHead =>
          /\ answer.allowed /\ line.eol
          /\ \A i \in DOMAIN head : ({head[i].name} \cup options(head[i])) \cap {"", "bad"} = {}
          /\ answer.forward = EndToEnd(head, nominees)

\* The blocked IPv4 space as first and last addresses.
Spans4 ==
  {<<<<0, 0, 0, 0>>, <<0, 255, 255, 255>>>>, <<<<10, 0, 0, 0>>, <<10, 255, 255, 255>>>>,
   <<<<100, 64, 0, 0>>, <<100, 127, 255, 255>>>>, <<<<127, 0, 0, 0>>, <<127, 255, 255, 255>>>>,
   <<<<169, 254, 0, 0>>, <<169, 254, 255, 255>>>>, <<<<172, 16, 0, 0>>, <<172, 31, 255, 255>>>>,
   <<<<192, 0, 0, 0>>, <<192, 0, 0, 255>>>>, <<<<192, 0, 2, 0>>, <<192, 0, 2, 255>>>>,
   <<<<192, 168, 0, 0>>, <<192, 168, 255, 255>>>>, <<<<198, 18, 0, 0>>, <<198, 19, 255, 255>>>>,
   <<<<198, 51, 100, 0>>, <<198, 51, 100, 255>>>>, <<<<203, 0, 113, 0>>, <<203, 0, 113, 255>>>>,
   <<<<224, 0, 0, 0>>, <<255, 255, 255, 255>>>>}

Fill(a, byte) == a \o [i \in 1..(16 - Len(a)) |-> byte]

Embedded(prefix) == {<<prefix \o s[1], prefix \o s[2]>> : s \in Spans4}

\* The IPv6 spans: unspecified and loopback, unique-local, link-local, multicast, and the
\* blocked IPv4 space in each of its encodings.
Spans6 ==
  {<<Zeros(16), Zeros(15) \o <<1>>>>, <<Fill(<<252>>, 0), Fill(<<253>>, 255)>>,
   <<Fill(<<254, 128>>, 0), Fill(<<254, 191>>, 255)>>, <<Fill(<<255>>, 0), Fill(<<255>>, 255)>>}
  \cup Embedded(Zeros(12)) \cup Embedded(Mapped) \cup Embedded(Nat64)
  \cup {<<Fill(<<32, 2>> \o s[1], 0), Fill(<<32, 2>> \o s[2], 255)>> : s \in Spans4}

NotAfter(a, b) ==
  a = b \/ \E k \in DOMAIN a : a[k] < b[k] /\ \A i \in 1..(k - 1) : a[i] = b[i]

\* An address is blocked iff it lies in one of the spans the module is documented to block:
\* the masks have the right length, and no encoding of an IPv4 address is judged otherwise
\* than the address itself.
BlocksTheSpans ==
  addr # NoAddress =>
    (proxyIPBlocked(addr) <=>
       \E s \in (IF Len(addr) = 4 THEN Spans4 ELSE Spans6) :
         NotAfter(s[1], addr) /\ NotAfter(addr, s[2]))

=============================================================================
