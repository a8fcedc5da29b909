------------------------------ MODULE Algorithms ------------------------------
(***************************************************************************)
(* The sequential computations of nett, each called once with an input of  *)
(* a small set, and what is right about its result: modules Wire, Lookup,  *)
(* Ports and CommandLine (which extends Settings).                         *)
(*                                                                         *)
(* An action is a call of one function.  The properties do not repeat the  *)
(* computation: they say of input and result what a caller relies on.      *)
(***************************************************************************)
EXTENDS Wire, Lookup, Ports, CommandLine

CONSTANTS Buffers,                \* octets in which names are looked for
          Messages, Datagrams,    \* what is encoded, and what is received
          Names, Replies,         \* of a zone: see Lookup
          Probes, HostAddresses,  \* lookups of random names; addresses of a host
          Specs,                  \* port specifications
          Units, MaxUnits,        \* a target and flags with their values; how many at once
          Target,                 \* the unit that is a target
          Lines, Files, Envs      \* command lines, configuration files, environments

ASSUME InputsAssumption ==
  /\ Buffers \subseteq Seq(0..255)
  /\ \A spec \in Specs \ {Blank, Every} :
       /\ spec \in Seq(Seq({Junk} \union Int))
       /\ \A i \in DOMAIN spec : Len(spec[i]) <= 2
  /\ \A reply \in Replies, name \in Names :
       /\ DOMAIN reply.addresses = Names /\ DOMAIN reply.cnames = Names
       /\ {reply.addresses[name].err, reply.cnames[name].err} \subseteq BOOLEAN
       /\ LET c == reply.cnames[name] IN ~c.err /\ c.recs # <<>> => Head(c.recs) \in Names
  /\ \A env \in Envs : /\ DOMAIN env \subseteq EnvTexts \union EnvLists \union EnvParsed
                       /\ \A s \in DOMAIN env \ EnvParsed : env[s] # NotANumber

ASSUME MessagesAssumption ==
  (\A m \in Messages : IsMessage(m)) /\ Datagrams \subseteq Octets

\* A unit is the target, or a flag with what it takes as its value.
ASSUME UnitsAssumption ==
  /\ MaxUnits \in Nat /\ Units \subseteq Seq(STRING)
  /\ \E w \in Word : Target = <<w>>
  /\ Word \intersect (Implemented \union NotYet) = {}
  /\ \A u \in Units \ {Target} :
       /\ \/ Len(u) = 1 /\ u[1] \notin TakesValue
          \/ /\ Len(u) = 2
             /\ u[1] \in TakesValue \/ (u[1] \in MayTakeValue /\ u[2] \in Word)
       /\ u[1] \notin Word

VARIABLES call, result

vars == <<call, result>>

Init == call = [op |-> "none"] /\ result = <<>>

Idle == call.op = "none"
Called(c, r) == call' = c /\ result' = r

DecodeName ==
  /\ Idle
  /\ \E buf \in Buffers : \E off \in 0..Len(buf) :
       Called([op |-> "readName", buf |-> buf, off |-> off], ReadName(buf, off))

EncodeMessage ==
  /\ Idle
  /\ \E m \in Messages : Called([op |-> "marshal", msg |-> m], Marshal(m))

DecodeMessage ==
  /\ Idle
  /\ \E buf \in Datagrams : Called([op |-> "unmarshal", buf |-> buf], Unmarshal(buf))

ChaseAliases ==
  /\ Idle
  /\ \E reply \in Replies, name \in Names :
       Called([op |-> "lookupIP", reply |-> reply, name |-> name], LookupIP(reply, name))

RecogniseWildcard ==
  /\ Idle
  /\ \E probes \in Probes, host \in HostAddresses :
       Called([op |-> "wildcard", probes |-> probes, host |-> host], Is(DetectWildcard(probes), host))

ReadPorts ==
  /\ Idle
  /\ \E spec \in Specs : Called([op |-> "ports", spec |-> spec], ParsePorts(spec))

\* Units in any order, none twice, and not two of one flag.
ReadScanArgs ==
  /\ Idle
  /\ \E n \in 1..MaxUnits : \E units \in [1..n -> Units] :
       /\ \A i, j \in 1..n : i # j => units[i][1] # units[j][1]
       /\ Called([op |-> "scanArgs", units |-> units], ParseScanArgs(FlattenSeq(units)))

RunCommand ==
  /\ Idle
  /\ \E line \in Lines, file \in Files, env \in Envs, logOpens, succeeds \in BOOLEAN :
       /\ logOpens \/ succeeds
       /\ Called([op |-> "execute", line |-> line, file |-> file, env |-> env],
                 Execute(line, file, env, logOpens, succeeds))

Next ==
  DecodeName \/ EncodeMessage \/ DecodeMessage \/ ChaseAliases \/ RecogniseWildcard
  \/ ReadPorts \/ ReadScanArgs \/ RunCommand

Spec == Init /\ [][Next]_vars

------------------------------------------------------------------------------
(* Names and messages. *)

\* Follow the octets from off as one would with a finger: the place after n steps,
\* len(buf) or more if it is outside.
Path(buf, off) ==
  LET Place == 0..(Len(buf) - 1)
      follow == [p \in Nat |->
        IF p \notin Place THEN Len(buf)
        ELSE IF ~IsPointer(Octet(buf, p)) THEN p + 1 + Octet(buf, p)
        ELSE IF p + 1 \in Place THEN PointerTarget(buf, p) ELSE Len(buf)]
      at[n \in Nat] == IF n = 0 THEN off ELSE follow[at[n - 1]]
  IN  at

\* The name is accepted if and only if a zero octet is come to over at most MaxJumps
\* pointers; its labels are those on the way, and the next field begins after the
\* first pointer, or after the zero.  So a loop of pointers is refused
\* (wire.go:407-410).
NameIsPath ==
  call.op = "readName" =>
    LET buf == call.buf
        at == Path(buf, call.off)
        Place == 0..(Len(buf) - 1)
        Zeros == {n \in 0..Len(buf) : at[n] \in Place /\ Octet(buf, at[n]) = 0}
        Jumps(n) == {i \in 0..(n - 1) : IsPointer(Octet(buf, at[i]))}
        n0 == Min(Zeros)
        \* The steps over a label: the i-th leads from at[i - 1] to at[i].
        steps == Ascending({i \in 1..n0 : i - 1 \notin Jumps(n0)})
    IN  IF Zeros = {} \/ Cardinality(Jumps(n0)) > MaxJumps THEN result = Fails
        ELSE result = [ok |-> TRUE,
                       val |-> Join([k \in DOMAIN steps |->
                                       Slice(buf, at[steps[k] - 1] + 1, at[steps[k]])]),
                       after |-> IF Jumps(n0) = {} THEN at[n0] + 1 ELSE at[Min(Jumps(n0))] + 2]

NamesOf(m) ==
  LET records == ToSet(m.answers \o m.authority \o m.additional) IN
  {q.name : q \in ToSet(m.questions)} \union {rr.name : rr \in records}
  \union {rr.data.name : rr \in {r \in records : r.type \in DOMAIN Words}}
  \union UNION {{rr.data.mname, rr.data.rname} : rr \in {r \in records : r.type = SOA}}

DotsTrimmed(m) == \A name \in NamesOf(m) : ~EndsInDot(name)

\* The encoder writes counts and lengths without a look at their size: what has more
\* items, or more octets in an item, than the field can say comes out with a wrong one.
\* A received message may be such, as its pointers may unfold to long names.
Fits(m) ==
  /\ Len(m.questions) < 65536 /\ Len(m.answers) < 65536
  /\ Len(m.authority) < 65536 /\ Len(m.additional) < 65536
  /\ \A rr \in ToSet(RecordsOf(m)) :
       LET d == EncodeData(rr.type, rr.data) IN
       d.ok => Len(d.val) < 65536 /\ (rr.type = CAA => Len(rr.data.tag) < 256)

\* What is encoded is decoded to the same message; and a message that was received,
\* whatever is wrong with its octets, is encoded (if it can be) to octets that are
\* decoded to it again: no field is read at another place than it was written
\* (wire.go:20-22).  Names that end in a dot are the exception, as it is trimmed, and
\* what the fields for counts and lengths are too small for.
RoundTrip ==
  /\ call.op = "marshal" /\ result.ok /\ DotsTrimmed(call.msg) /\ Fits(call.msg) =>
       Unmarshal(result.val) = Ok(call.msg)
  /\ call.op = "unmarshal" /\ result.ok /\ DotsTrimmed(result.val) /\ Fits(result.val) =>
       LET again == Marshal(result.val) IN again.ok => Unmarshal(again.val) = result

------------------------------------------------------------------------------
(* Lookups. *)

IsUnanswered(q) == ~q.err /\ q.recs = <<>> /\ q.rcode # "NXDOMAIN"

IsAlias(reply, name) ==
  LET c == reply.cnames[name] IN IsUnanswered(reply.addresses[name]) /\ ~c.err /\ c.recs # <<>>

\* The names come to from name, alias by alias, to the first that is no alias.
Chain(reply, name) ==
  LET at[k \in Nat] == IF k = 0 THEN name
                       ELSE IF IsAlias(reply, at[k - 1]) THEN Head(reply.cnames[at[k - 1]].recs)
                       ELSE at[k - 1]
  IN  at

\* The zone's chain of aliases decides: if within MaxHops names it comes to one that
\* is no alias, the lookup has that name's addresses, or none, or fails if
\* the server did; a chain that loops or goes on is an error, never an absent name
\* (resolver.go:205-238).
ChaseFollowsChain ==
  call.op = "lookupIP" =>
    LET at == Chain(call.reply, call.name)
        Ends == {k \in 0..(MaxHops - 1) :
                   (\A i \in 0..(k - 1) : IsAlias(call.reply, at[i])) /\ ~IsAlias(call.reply, at[k])}
    IN  \/ Ends = {} /\ result = LookupFails
        \/ \E k \in Ends :
             LET q == call.reply.addresses[at[k]]
                 c == call.reply.cnames[at[k]]
             IN  IF q.err \/ (IsUnanswered(q) /\ c.err) THEN result = LookupFails
                 ELSE result = Resolved(q.recs)

\* A host is taken for wildcard noise only if every address of it was given for some
\* random name; and a host that gives what the wildcard gives is recognised as
\* soon as one of the random names was looked up without an error (wildcard.go:17-22).
WildcardSound ==
  call.op = "wildcard" =>
    LET heard == {i \in DOMAIN call.probes : ~call.probes[i].err} IN
    /\ result => /\ call.host # {}
                 /\ \A ip \in call.host : \E i \in heard : ip \in AddressesOf(call.probes[i])
    /\ /\ call.host # {} /\ heard # {}
       /\ \A i \in heard : AddressesOf(call.probes[i]) = call.host
       => result

------------------------------------------------------------------------------
(* Ports, arguments, configuration. *)

\* A specification is refused, or gives each of the ports it names once, in order and
\* within range, and no other (ports.go:25-31).
PortsExact ==
  call.op = "ports" /\ call.spec \notin {Blank, Every} =>
    LET Named(p) == \E i \in DOMAIN call.spec : LET part == call.spec[i] IN
                       \/ part = <<p>>
                       \/ Len(part) = 2 /\ part[1] <= p /\ p <= part[2]
        Wrong(part) == \/ Junk \in ToSet(part)
                       \/ \E i \in DOMAIN part : part[i] < 1 \/ part[i] > MaxPort
                       \/ part # <<>> /\ part[1] > Last(part)
    IN  IF (\E i \in DOMAIN call.spec : Wrong(call.spec[i])) \/ ~(\E p \in 1..MaxPort : Named(p))
        THEN ~result.ok
        ELSE /\ result.ok
             /\ ToSet(result.ports) = {p \in 1..MaxPort : Named(p)}
             /\ \A i, j \in DOMAIN result.ports : i < j => result.ports[i] < result.ports[j]

\* The order of a scan's arguments makes no difference, with one exception, which
\* is refused: a -tcp without ports takes the target that follows it.  And no flag
\* is ignored: one that is unknown or not implemented is refused (scan.go:52-55).
ArgsAnyOrder ==
  call.op = "scanArgs" =>
    LET units == ToSet(call.units)
        Swallowed == \E i \in 1..(Len(call.units) - 1) :
                       /\ Len(call.units[i]) = 1 /\ call.units[i][1] \in MayTakeValue
                       /\ call.units[i + 1] = Target
        Flag(f) == \E u \in units : u[1] = f
        Value(f) == IF Flag(f) THEN Tail(CHOOSE u \in units : u[1] = f) ELSE <<>>
    IN  IF \/ Swallowed \/ Target \notin units
           \/ \E u \in units \ {Target} : u[1] \notin {"-d", "-p", "-tcp", "-brute"}
           \/ units = {Target}
        THEN result = ScanRefused
        ELSE result = [ok |-> TRUE, target |-> Target[1], discover |-> Flag("-d"),
                       allPorts |-> Flag("-p"), brute |-> Flag("-brute"),
                       wordlist |-> Value("-brute"), tcp |-> Flag("-tcp"), spec |-> Value("-tcp")]

\* A command runs only with a configuration that is valid and in which each setting
\* has the value of the highest layer that mentions it; no value that cannot be
\* read is passed over for a lower one (config.go:1-5).
TopLayerRuns ==
  call.op = "execute" /\ result.ran =>
    LET line == call.line
        shortcut == IF line.verbose THEN [log_level |-> "debug"]
                    ELSE IF line.quiet THEN [log_level |-> "error"] ELSE <<>>
        layers == <<Default, call.file, call.env, shortcut, line.flags>>
        Top(s) == Max({i \in DOMAIN layers : s \in DOMAIN layers[i]})
        Given(s) == LET given == layers[Top(s)][s] IN
                    IF s = "resolvers" /\ Top(s) = 3 THEN SplitCSV(given) ELSE given
    IN  /\ Valid(result.cfg)
        /\ \A s \in DOMAIN Default : result.cfg[s] = Given(s)
        /\ \A s \in DOMAIN call.env : call.env[s] # NotANumber
        /\ call.file # Unreadable
==============================================================================
