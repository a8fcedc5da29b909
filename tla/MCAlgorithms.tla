----------------------------- MODULE MCAlgorithms -----------------------------
(* Small inputs, with the bounds of the code (jumps, label length, hops, ports)  *)
(* made so small that they are reached.                                          *)
EXTENDS Algorithms

UpTo(n, S) == UNION {[1..k -> S] : k \in 0..n}

MCBuffers == UpTo(5, {0, 1, 2, 3, 192})

\* Names <<97>> is "a", <<97, 46, 98>> "a.b"; <<12>> can be damaged into a pointer.
Records ==
  LET RR(type, data) == [name |-> <<12>>, type |-> type, ttl |-> <<1, 2>>, data |-> data] IN
  { RR(A, V4Prefix \o <<192, 0, 2, 1>>), RR(A, NoData),
    RR(AAAA, [i \in 1..16 |-> i]),
    RR(CNAME, [words |-> <<>>, name |-> <<97, 46, 98>>]),
    RR(NS, [words |-> <<>>, name |-> <<>>]),
    RR(MX, [words |-> <<300>>, name |-> <<97>>]), RR(MX, NoData),
    RR(SRV, [words |-> <<1, 2, 443>>, name |-> <<97, 98, 99>>]),
    RR(SRV, [words |-> <<1, 2, 443>>, name |-> <<97, 98>>]),
    RR(TXT, << <<97>>, <<>>, <<98, 98>> >>), RR(TXT, <<>>),
    RR(CAA, [flag |-> 128, tag |-> <<97>>, value |-> <<98, 98>>]),
    RR(SOA, [mname |-> <<97>>, rname |-> <<>>, numbers |-> [i \in 1..5 |-> <<i, 60000>>]]),
    RR(99, NoData) }

Answer(rrs, more) ==
  [NewQuery(513, <<12, 46>>, A) EXCEPT !.response = TRUE, !.authoritative = more # <<>>,
     !.opcode = Len(more), !.rcode = 3, !.answers = rrs, !.authority = more]

MCMessages ==
  {NewQuery(7, name, TXT) : name \in {<<>>, <<97>>, <<97, 46>>, <<97, 46, 46>>}}
  \union {Answer(<<rr>>, <<>>) : rr \in Records}
  \union {Answer(<<rr>>, <<q>>) : rr \in {r \in Records : r.type \in {CNAME, TXT, SOA}},
                                 q \in {r \in Records : r.type = MX}}

\* What is sent, and what is left of it when one octet is another or the end is
\* missing; and a reply whose names are pointers.
Compressed ==
  <<0, 1, 129, 128, 0, 1, 0, 2, 0, 0, 0, 0>> \o <<1, 97, 1, 98, 0, 0, 1, 0, 1>>
  \o <<192, 12, 0, 5, 0, 1, 0, 0, 0, 9, 0, 4, 1, 99, 192, 14>>
  \o <<192, 33, 0, 1, 0, 1, 0, 0, 0, 9, 0, 4, 192, 0, 2, 1>>

Sent == {r.val : r \in {x \in {Marshal(m) : m \in MCMessages} : x.ok}} \union {Compressed}

MCDatagrams ==
  UNION {{buf} \union {[buf EXCEPT ![i] = o] : i \in 5..Len(buf), o \in {0, 1, 46, 192}}
               \union {SubSeq(buf, 1, n) : n \in {0, 11, 12, Len(buf) - 1}} : buf \in Sent}

MCNames == {"a", "b", "c"}
MCReplies ==
  [addresses : [MCNames -> {QueryFails, Answered("NOERROR", <<"ip">>), Answered("NOERROR", <<>>),
                            Answered("NXDOMAIN", <<>>), Answered("SERVFAIL", <<>>)}],
   cnames : [MCNames -> {QueryFails, Answered("NOERROR", <<>>)}
                        \union {Answered("NOERROR", <<n>>) : n \in MCNames}]]

MCProbes == [1..3 -> {LookupFails} \union {Resolved(s) : s \in {<<>>, <<1>>, <<2>>, <<1, 2>>}}]
MCHostAddresses == SUBSET {1, 2}

MCParts == UpTo(1, 0..4 \union {Junk}) \union {<<lo, hi>> : lo, hi \in 0..4 \union {Junk}}
MCSpecs == {Blank, Every} \union (UpTo(2, MCParts) \ {<<>>})
MCCommonPorts == <<1, 3>>

MCTarget == <<"example.com">>
MCUnits == {MCTarget, <<"-d">>, <<"-p">>, <<"-tcp">>, <<"-tcp", "w">>, <<"-brute", "w">>,
            <<"-brute", "-d">>, <<"-udp">>, <<"-x">>}
MCWord == {"example.com", "w", "help", "-", "version", "scan", "no such"}

Optional(setting, values) == {<<>>} \union [{setting} -> values]
MCFiles ==
  {Unreadable} \union
  {p @@ l @@ t : p \in Optional("project", {"file", BlankText}), l \in Optional("log_level", {"warn", "loud"}),
                 t \in Optional("dns_timeout", {0, 7})}
MCEnvs ==
  {p @@ l @@ t : p \in Optional("project", {"env"}), l \in Optional("log_level", {"error", "loud"}),
                 t \in Optional("dns_timeout", {9, NotANumber})}
  \union [{"resolvers"} -> {<<"9.9.9.9:53", BlankText>>, <<BlankText>>}]
Flags == Optional("project", {"flag", BlankText}) \union Optional("log_level", {"info", "loud"})
Line(flags, verbose, quiet, rest) ==
  [parse |-> "ok", version |-> FALSE, flags |-> flags, verbose |-> verbose, quiet |-> quiet, rest |-> rest]
MCLines ==
  {Line(f, v, q, <<"config">>) : f \in Flags, v, q \in BOOLEAN}
  \union {Line(<<>>, FALSE, FALSE, r) :
            r \in {<<>>, <<"no such">>, <<"scan", "w">>, <<"scan", "help">>, <<"scan", "w", "-d">>}}
  \union {[Line(<<>>, FALSE, FALSE, <<"config">>) EXCEPT !.parse = p] : p \in {"help", "error"}}
  \union {[Line(<<>>, FALSE, FALSE, <<"config">>) EXCEPT !.version = TRUE]}
==============================================================================
