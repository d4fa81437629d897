--------------------------- MODULE MCSandboxStages ---------------------------
(***************************************************************************)
(* SandboxStages for TLC: commands of up to six words with a word of each  *)
(* kind, heads of up to four lines, and addresses on both sides of every   *)
(* boundary, in every encoding.                                            *)
(***************************************************************************)
EXTENDS SandboxStages

MCWords == {"sudo", "apt", "install", "-y", "-t", ";", "foo", "foo=1", "x/y"}
MCNames == [w \in MCWords |-> IF w = "foo=1" THEN "foo" ELSE w]

Host(labels) == [labels |-> labels, bracketed |-> FALSE]
Line(method, form, host, port) ==
  [method |-> method, form |-> form, host |-> host, port |-> port, version |-> TRUE, eol |-> TRUE]
Org == <<"registry", "org">>
Plain == Line("GET", "http", Host(Org), NoPort)

\* The entry "*." has nothing behind its wildcard.
MCAllowlist == {[wild |-> TRUE, labels |-> Org], [wild |-> FALSE, labels |-> <<"pypi">>],
                [wild |-> TRUE, labels |-> <<>>]}
MCBadHosts == {<<>>, <<"us@er">>}

MCLines ==
  {Line("GET", "http", Host(h), 80) :
     h \in {<<"deb">> \o Org, <<"">> \o Org, <<"a", "pypi">>, <<"us@er">>, <<"other">>}}
  \cup {Line("GET", "http", Host(Org), port) : port \in {NoPort, 65536, 8080}}
  \cup {Line("GET", form, Host(<<>>), NoPort) : form \in {"path", "other"}}
  \cup {Line("CONNECT", "authority", Host(Org), 443), Line("CONNECT", "http", Host(Org), 443),
        Line("CONNECT", "authority", Host(<<"pypi">>), BadPort),
        Line("CONNECT", "authority", [Host(Org) EXCEPT !.bracketed = TRUE], 443),
        [Plain EXCEPT !.version = FALSE], [Plain EXCEPT !.eol = FALSE]}

Header(name) == [name |-> name, options |-> {}]
MCHeaders ==
  {Header("host"), Header("x"), Header("cookie"), Header("blank"), Header("bad"),
   [name |-> "connection", options |-> {"x"}],
   [name |-> "proxy-connection", options |-> {"x", "host"}],
   [name |-> "connection", options |-> {"bad"}]}

V4 ==
  {0, 1, 9, 10, 11, 99, 100, 101, 126, 127, 128, 169, 172, 192, 198, 203, 223, 224, 240, 255}
  \X {0, 1, 15, 16, 17, 18, 19, 20, 31, 32, 51, 63, 64, 127, 128, 168, 254}
  \X {0, 1, 2, 3, 99, 100, 101, 113, 255} \X {0, 1, 255}

Native == {Fill(h, 1) : h \in {<<32, 1>>, <<251, 255>>, <<252, 0>>, <<253, 255>>, <<254, 127>>,
                               <<254, 128>>, <<254, 191>>, <<254, 192>>, <<255, 2>>}}

MCAddresses ==
  V4 \cup Native \cup {p \o a : p \in {Zeros(12), Mapped, Nat64}, a \in V4}
  \cup {Fill(<<32, 2>> \o a, 8) : a \in V4}

=============================================================================
